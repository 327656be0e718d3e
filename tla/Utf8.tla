-------------------------------- MODULE Utf8 --------------------------------
(***************************************************************************)
(* The UTF-8 decoding that src/irc/commands.go relies on: the loop of      *)
(* stringToRunes (utf8.DecodeRuneInString, one rune per step) and the      *)
(* count utf8.RuneCountInString used to size the mode-change slice.        *)
(*                                                                         *)
(* A string is a sequence of byte symbols.  ASCII bytes stand for          *)
(* themselves; LeadByte (0xC3) opens a two-byte sequence and ContByte      *)
(* (0xA9) is a continuation byte, so <<LeadByte, ContByte>> is U+00E9 and  *)
(* either byte on its own is invalid.  As in Go, an invalid byte decodes   *)
(* to RuneError with width 1, and counting agrees with decoding.           *)
(***************************************************************************)
EXTENDS Naturals, Sequences

LeadByte    == "xC3"
ContByte    == "xA9"
TwoByteRune == "U+00E9"
RuneError   == "U+FFFD"
\* The zero rune, received from a closed channel.
NulRune     == "U+0000"

(* utf8.DecodeRuneInString(s): the first rune of s and its width.        *)
DecodeRune(s) ==
    CASE s = <<>>
            -> [rune |-> RuneError, size |-> 0]
      [] s[1] = LeadByte /\ Len(s) >= 2 /\ s[2] = ContByte
            -> [rune |-> TwoByteRune, size |-> 2]
      [] s[1] \in {LeadByte, ContByte}
            -> [rune |-> RuneError, size |-> 1]
      [] OTHER
            -> [rune |-> s[1], size |-> 1]

(* The runes stringToRunes(s) sends, in order: decode the rune at the    *)
(* current offset, send it, advance by its width.  dec[i] is what is sent *)
(* from byte offset i on.                                                 *)
Runes(s) ==
    LET dec[i \in 1..(Len(s) + 1)] ==
          IF i > Len(s) THEN <<>>
          ELSE LET d == DecodeRune(SubSeq(s, i, Len(s)))
               IN  <<d.rune>> \o dec[i + d.size]
    IN  dec[1]

(* utf8.RuneCountInString(s)                                              *)
RuneCount(s) == Len(Runes(s))

(* s is well-formed UTF-8: no step of the decoder meets an invalid byte. *)
ValidUtf8(s) ==
    \A i \in 1..Len(s) :
        (s[i] = ContByte => i > 1 /\ s[i - 1] = LeadByte)
        /\ (s[i] = LeadByte => i < Len(s) /\ s[i + 1] = ContByte)
=============================================================================
