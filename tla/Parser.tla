------------------------------- MODULE Parser -------------------------------
(***************************************************************************)
(* A connection handing each line its peer sends to ParseCommand          *)
(* (src/irc/commands.go:63-70), and what spec.md says the result must be. *)
(*                                                                         *)
(* An input is a line together with how it was built: the verb word, the *)
(* middle parameters and, when present, the trailing parameter written   *)
(* after ":".  The code sees only the text; the spec's reference result  *)
(* is computed from the parts.  The caller that reads lines from the      *)
(* socket is outside src/; each line is parsed on its own (spec 3).       *)
(***************************************************************************)
EXTENDS Commands

CONSTANT Inputs     \* [text, verb, args] records: the lines a peer may send

VARIABLES input,    \* the line last received
          result    \* what ParseCommand returned for it

vars == <<input, result>>

NoInput == [text |-> <<>>, verb |-> <<>>, args |-> <<>>]
NoResult == [status |-> "none"]

TypeOK ==
    /\ input \in Inputs \cup {NoInput}
    /\ result.status \in {"none", "cmd", "err", "panic"}
    \* UserMsgCommand.mode is a uint8
    /\ result.status = "cmd" /\ result.cmd.verb = "USER" => result.cmd.mode \in 0..255

Init ==
    /\ input = NoInput
    /\ result = NoResult

(* The connection receives a line and parses it.                          *)
Receive ==
    \E l \in Inputs :
        /\ input' = l
        /\ result' = ParseCommand(l.text)

Next == Receive

Spec == Init /\ [][Next]_vars

-----------------------------------------------------------------------------
(* The result spec.md gives for a verb and its arguments.                 *)

(* Required argument counts (spec 6); NICK and USER need exactly that    *)
(* many (spec 4.3).                                                       *)
Arity == "PING" :> 1 @@ "PONG" :> 1 @@ "PASS" :> 1 @@ "NICK" :> 1
      @@ "USER" :> 4 @@ "QUIT" :> 0 @@ "JOIN" :> 1 @@ "PART" :> 1
      @@ "PRIVMSG" :> 2 @@ "TOPIC" :> 1 @@ "MODE" :> 1 @@ "WHOIS" :> 1
      @@ "WHO" :> 0
StrictArity == {"NICK", "USER"}

ArityHolds(v, args) ==
    IF v \in StrictArity THEN Len(args) = Arity[v] ELSE Len(args) >= Arity[v]

(* JOIN: channels zipped with keys by position, "" for a channel without *)
(* a key, extra keys ignored; "0" alone means leave every channel.        *)
SpecJoin(args) ==
    IF args[1] = <<"0">>
      THEN [verb |-> "JOIN", channels |-> <<>>, zero |-> TRUE]
      ELSE LET cs == Split(args[1])
               ks == IF Len(args) > 1 THEN Split(args[2]) ELSE <<>>
               \* a later mention of a channel overrides an earlier one
               pair(m, i) == (cs[i] :> Opt(ks, i)) @@ m
           IN  [verb |-> "JOIN", zero |-> FALSE,
                channels |-> FoldLeft(pair, <<>>, [i \in DOMAIN cs |-> i])]

(* USER's mode is a uint8 read from a decimal numeral, and 0 when the    *)
(* token is not the numeral of a value in 0..255 (spec 3, 4.3).           *)
Digits == <<"0", "1", "2", "3", "4", "5", "6", "7", "8", "9">>
RECURSIVE Decimal(_)
Decimal(n) == IF n < 10 THEN <<Digits[n + 1]>>
              ELSE Decimal(n \div 10) \o <<Digits[(n % 10) + 1]>>
IsNumeralOf(s, n) ==
    \E k \in 0..(Len(s) - 1) :
        /\ \A i \in 1..k : s[i] = "0"
        /\ SubSeq(s, k + 1, Len(s)) = Decimal(n)
SpecUserMode(s) == IF \E n \in 0..255 : IsNumeralOf(s, n)
                     THEN CHOOSE n \in 0..255 : IsNumeralOf(s, n)
                     ELSE 0

(* MODE: a channel target gives the stub; a user target decodes its flag *)
(* tokens (spec 4.5), and a token without a sign is a malformed command. *)
SpecMode(args) ==
    IF IsChannel(args[1])
      THEN Cmd([verb |-> "CHANNELMODE", channel |-> args[1]])
      ELSE LET d == SpecFlagChanges(Tail(args))
           IN  IF d.status = "err" THEN ParseErr
               ELSE Cmd([verb |-> "MODE", nickname |-> args[1], changes |-> d.changes])

SpecValue(v, args) ==
    CASE v = "PING"    -> [verb |-> v, server |-> args[1], server2 |-> Opt(args, 2)]
      [] v = "PONG"    -> [verb |-> v, server1 |-> args[1], server2 |-> Opt(args, 2)]
      [] v = "PASS"    -> [verb |-> v, password |-> args[1]]
      [] v = "NICK"    -> [verb |-> v, nickname |-> args[1]]
      [] v = "USER"    -> [verb |-> v, user |-> args[1], unused |-> args[3],
                           realname |-> args[4], mode |-> SpecUserMode(args[2])]
      [] v = "QUIT"    -> [verb |-> v, message |-> Opt(args, 1)]
      [] v = "JOIN"    -> SpecJoin(args)
      [] v = "PART"    -> [verb |-> v, channels |-> Split(args[1]), message |-> Opt(args, 2)]
      [] v = "PRIVMSG" -> [verb |-> v, target |-> args[1], message |-> args[2]]
      [] v = "TOPIC"   -> [verb |-> v, channel |-> args[1], topic |-> Opt(args, 2)]
      [] v = "WHOIS"   -> IF Len(args) >= 2
                            THEN [verb |-> v, target |-> args[1], masks |-> Split(args[2])]
                            ELSE [verb |-> v, target |-> Empty, masks |-> Split(args[1])]
      [] v = "WHO"     -> [verb |-> v, mask |-> Opt(args, 1),
                           operatorOnly |-> Len(args) >= 2 /\ args[2] = <<"o">>]

(* What the command's accessors return when it is later read (spec 8):   *)
(* PART without a message gives the sender's nickname, and a PRIVMSG     *)
(* target is a channel when it starts with a channel prefix.             *)
SenderNick == <<"s">>
Reads(r, args) ==
    r.status = "cmd" =>
        /\ r.cmd.verb = "PART" =>
              PartMessage(r.cmd, SenderNick) = IF Len(args) >= 2 THEN args[2] ELSE SenderNick
        /\ r.cmd.verb = "PRIVMSG" =>
              TargetIsChannel(r.cmd) = (args[1] # <<>> /\ args[1][1] \in ChannelPrefixes)

SpecParse(verb, args) ==
    LET v == ToUpper(verb)
    IN  CASE ~(Len(v) = 1 /\ v[1] \in DOMAIN Arity)
              -> Cmd([verb |-> "UNKNOWN", command |-> v, args |-> args])
          [] ~ArityHolds(v[1], args) -> NotEnoughArgs
          [] v[1] = "MODE" -> SpecMode(args)
          [] OTHER -> Cmd(SpecValue(v[1], args))

-----------------------------------------------------------------------------
(* Every line the peer sends is parsed as the spec says its verb and     *)
(* parameters must be: the tokenizer gives back the verb and every       *)
(* parameter (the trailing one verbatim, spaces and colons included),    *)
(* the dispatcher picks the verb's constructor or the passthrough, and   *)
(* the constructor applies its arity rule, its defaults, the JOIN key    *)
(* pairing and the mode decoding; and the PART message and PRIVMSG       *)
(* target read back as the spec says.                                     *)
ParsesAsSpecified ==
    input # NoInput =>
        /\ result = SpecParse(input.verb, input.args)
        /\ Reads(result, input.args)

(* No line a peer sends makes the parser panic: every failure is an      *)
(* error local to the line (spec 7), including a blank line (spec 9).    *)
NeverPanics == result.status # "panic"
=============================================================================
