--------------------------- MODULE UserModeCommand ---------------------------
(***************************************************************************)
(* NewUserModeCommand (src/irc/commands.go:443-469) as a pure function of  *)
(* args[1:], the flag tokens after the nickname.  Each token is a          *)
(* non-empty byte string (parseLine never yields an empty argument).  The *)
(* call returns the decoded changes, fails with ErrParseCommand, or        *)
(* panics: make() with a negative length, or a write past the end of the  *)
(* preallocated changes slice.  The goroutine that stringToRunes starts   *)
(* per token is modelled in ModeDecoder; here the runes it sends are      *)
(* Runes(token).                                                          *)
(***************************************************************************)
EXTENDS Naturals, Sequences, SequencesExt, Utf8

Pending == [status |-> "pending", changes |-> <<>>]
Failed  == [status |-> "err",     changes |-> <<>>]
Panicked == [status |-> "panic",  changes |-> <<>>]
Returned(changes) == [status |-> "ok", changes |-> changes]

(* ModeChange{mode, add}                                                  *)
ModeChange(mode, add) == [mode |-> mode, add |-> add]

(* The length given to make(): RuneCount(Join(args[1:], "")) - len(args[1:]). *)
ChangesLen(tokens) == RuneCount(FlattenSeq(tokens)) - Len(tokens)

(* The loop over args[1:], one token at a time: the first rune read must  *)
(* be a sign, every further rune is written at changes[index], and a     *)
(* write at index >= size panics.                                         *)
RECURSIVE DecodeTokens(_, _, _)
DecodeTokens(tokens, size, written) ==
    IF tokens = <<>> THEN Returned(written)
    ELSE LET rs  == Runes(Head(tokens))
             sig == IF rs = <<>> THEN NulRune ELSE rs[1]
             new == [k \in 1..(Len(rs) - 1) |-> ModeChange(rs[k + 1], sig = "+")]
         IN  CASE sig \notin {"+", "-"}             -> Failed
               [] Len(written) + Len(new) > size    -> Panicked
               [] OTHER -> DecodeTokens(Tail(tokens), size, written \o new)

NewUserModeCommand(tokens) ==
    IF ChangesLen(tokens) < 0 THEN Panicked
    ELSE DecodeTokens(tokens, ChangesLen(tokens), <<>>)

-----------------------------------------------------------------------------
(* What the grammar comment of NewUserModeCommand (commands.go:442,       *)
(* MODE <nickname> *( ( "+" / "-" ) *( flag ) )) and spec sections 4.5    *)
(* and 8 ("+iw-o" gives i and w added, o removed) ask of the decoder: a   *)
(* token whose first character is not a sign fails the whole command;    *)
(* after it, a sign sets the current sign for the rest of its token and   *)
(* every other character is one change with the current sign.  Flags are *)
(* not checked against a vocabulary (spec 4.5).                           *)
SignOf(rs) == IF rs = <<>> THEN NulRune ELSE rs[1]

TokenChanges(rs) ==
    LET step(acc, r) ==
            IF r \in {"+", "-"}
              THEN [acc EXCEPT !.sign = r]
              ELSE [acc EXCEPT !.out = Append(@, ModeChange(r, acc.sign = "+"))]
    IN  FoldLeft(step, [sign |-> SignOf(rs), out |-> <<>>], Tail(rs)).out

SpecFlagChanges(ts) ==
    LET rs(i) == Runes(ts[i])
    IN  IF \E i \in DOMAIN ts : SignOf(rs(i)) \notin {"+", "-"}
          THEN Failed
          ELSE Returned(FlattenSeq([i \in DOMAIN ts |-> TokenChanges(rs(i))]))
=============================================================================
