------------------------------ MODULE Commands ------------------------------
(***************************************************************************)
(* The line parser of src/irc/commands.go: parseArg and parseLine, the     *)
(* dispatch of ParseCommand through parseCommandFuncs, and the per-verb   *)
(* constructors, as pure operators.                                       *)
(*                                                                         *)
(* A string is a sequence of symbols.  The separators the code looks at   *)
(* (" ", ":", ","), the characters it compares ("0", "o", "+", "-",       *)
(* digits, channel prefixes) and the bytes of UTF-8 sequences are single  *)
(* symbols; a verb word such as "JOIN" or "join" is one symbol, which     *)
(* strings.ToUpper maps through UpperOf.                                  *)
(*                                                                         *)
(* ParseCommand returns a record: status "cmd" with the command value,    *)
(* status "err" with the error, or status "panic" when the Go code would  *)
(* panic (an index out of range).                                         *)
(***************************************************************************)
EXTENDS Naturals, Sequences, SequencesExt, UserModeCommand

CONSTANTS UpperOf,          \* strings.ToUpper, symbol by symbol
          ChannelPrefixes   \* first characters IsChannel accepts

Empty == <<>>                              \* ""

Cmd(c)        == [status |-> "cmd", cmd |-> c]
NotEnoughArgs == [status |-> "err", err |-> "NotEnoughArgsError"]
ParseErr      == [status |-> "err", err |-> "ErrParseCommand"]
Panic         == [status |-> "panic"]

(* args[i] when len(args) >= i, "" otherwise (0-based i - 1 in Go).       *)
Opt(args, i) == IF Len(args) >= i THEN args[i] ELSE Empty

(* strings.Split(s, ","): never empty; "" splits to <<"">>.               *)
Split(s) ==
    LET cuts == <<0>> \o SetToSortSeq({i \in 1..Len(s) : s[i] = ","}, <)
                      \o <<Len(s) + 1>>
    IN  [k \in 1..(Len(cuts) - 1) |-> SubSeq(s, cuts[k] + 1, cuts[k + 1] - 1)]

(* IsChannel: defined outside src/ and modelled from the spec (4.4): a   *)
(* target whose first character is a channel prefix.                      *)
IsChannel(s) == s # Empty /\ s[1] \in ChannelPrefixes

-----------------------------------------------------------------------------
(* parseArg: a ":" makes the whole rest one argument; otherwise split at *)
(* the first space.                                                       *)
ParseArg(line) ==
    LET sp == SelectInSeq(line, LAMBDA c : c = " ")
    IN  CASE line = Empty   -> [arg |-> Empty, rest |-> Empty]
          [] line[1] = ":"  -> [arg |-> Tail(line), rest |-> Empty]
          [] sp = 0         -> [arg |-> line, rest |-> Empty]
          [] OTHER          -> [arg |-> SubSeq(line, 1, sp - 1),
                                rest |-> SubSeq(line, sp + 1, Len(line))]

(* The loop of parseLine: peel arguments until one comes back empty.      *)
RECURSIVE PeelArgs(_)
PeelArgs(line) ==
    LET p == ParseArg(line)
    IN  IF p.arg = Empty THEN <<>> ELSE <<p.arg>> \o PeelArgs(p.rest)

ToUpper(s) == [i \in DOMAIN s |-> UpperOf[s[i]]]

(* parseLine: the first argument, upper-cased, is the command.  With no   *)
(* argument at all, args[0] is out of range and the code panics.          *)
ParseLine(line) ==
    LET args == PeelArgs(line)
    IN  IF args = <<>> THEN [panic |-> TRUE]
        ELSE [panic |-> FALSE, command |-> ToUpper(Head(args)), args |-> Tail(args)]

-----------------------------------------------------------------------------
(* The constructors of parseCommandFuncs.                                 *)

NewUnknownCommand(command, args) ==
    Cmd([verb |-> "UNKNOWN", command |-> command, args |-> args])

NewPingCommand(args) ==
    IF Len(args) < 1 THEN NotEnoughArgs
    ELSE Cmd([verb |-> "PING", server |-> args[1], server2 |-> Opt(args, 2)])

NewPongCommand(args) ==
    IF Len(args) < 1 THEN NotEnoughArgs
    ELSE Cmd([verb |-> "PONG", server1 |-> args[1], server2 |-> Opt(args, 2)])

NewPassCommand(args) ==
    IF Len(args) < 1 THEN NotEnoughArgs
    ELSE Cmd([verb |-> "PASS", password |-> args[1]])

(* Mutant: NICK checked for a minimum of one argument, not exactly one. *)
NewNickCommandAtLeastOne(args) ==
    IF Len(args) < 1 THEN NotEnoughArgs
    ELSE Cmd([verb |-> "NICK", nickname |-> args[1]])

NewNickCommand(args) ==
    IF Len(args) # 1 THEN NotEnoughArgs
    ELSE Cmd([verb |-> "NICK", nickname |-> args[1]])

(* strconv.ParseUint(s, 10, 8): decimal digits only, at most 255.         *)
DigitValue == "0" :> 0 @@ "1" :> 1 @@ "2" :> 2 @@ "3" :> 3 @@ "4" :> 4
           @@ "5" :> 5 @@ "6" :> 6 @@ "7" :> 7 @@ "8" :> 8 @@ "9" :> 9
(* Mutant: the bit size ignored, any decimal numeral accepted.          *)
ParseUint8AnySize(s) ==
    LET ok == s # Empty /\ \A i \in 1..Len(s) : s[i] \in DOMAIN DigitValue
        v  == IF ok THEN FoldLeft(LAMBDA acc, d : 10 * acc + DigitValue[d], 0, s) ELSE 0
    IN  [err |-> ~ok, val |-> v]

ParseUint8(s) ==
    LET ok == s # Empty /\ \A i \in 1..Len(s) : s[i] \in DOMAIN DigitValue
        v  == IF ok THEN FoldLeft(LAMBDA acc, d : 10 * acc + DigitValue[d], 0, s) ELSE 0
    IN  [err |-> ~ok \/ v > 255, val |-> v]

(* A malformed mode leaves the field at its zero value.                   *)
NewUserMsgCommand(args) ==
    IF Len(args) # 4 THEN NotEnoughArgs
    ELSE LET m == ParseUint8(args[2])
         IN  Cmd([verb |-> "USER", user |-> args[1],
                  mode |-> IF m.err THEN 0 ELSE m.val,
                  unused |-> args[3], realname |-> args[4]])

NewQuitCommand(args) == Cmd([verb |-> "QUIT", message |-> Opt(args, 1)])

(* The channels map: a repeated channel keeps the key of its last        *)
(* occurrence, as map assignment in the loop does.                         *)
ChannelMap(channels, keys) ==
    [c \in Range(channels) |->
        keys[CHOOSE i \in DOMAIN channels :
                channels[i] = c /\ \A j \in DOMAIN channels : channels[j] = c => j <= i]]

(* keys := make([]string, len(channels)), then keys[i] = key for every   *)
(* key of args[1]: more keys than channels write past the end.            *)
NewJoinCommand(args) ==
    CASE Len(args) = 0      -> NotEnoughArgs
      [] args[1] = <<"0">>  -> Cmd([verb |-> "JOIN", channels |-> <<>>, zero |-> TRUE])
      [] OTHER ->
           LET channels == Split(args[1])
               given    == IF Len(args) > 1 THEN Split(args[2]) ELSE <<>>
               keys     == [i \in 1..Len(channels) |-> Opt(given, i)]
           IN  IF Len(given) > Len(channels) THEN Panic
               ELSE Cmd([verb |-> "JOIN", channels |-> ChannelMap(channels, keys),
                         zero |-> FALSE])

NewPartCommand(args) ==
    IF Len(args) < 1 THEN NotEnoughArgs
    ELSE Cmd([verb |-> "PART", channels |-> Split(args[1]), message |-> Opt(args, 2)])

(* PartCommand.Message(): an empty message reads as the nickname of the  *)
(* command's source at the time it is read.                               *)
PartMessage(cmd, sourceNick) ==
    IF cmd.message = Empty THEN sourceNick ELSE cmd.message

NewPrivMsgCommand(args) ==
    IF Len(args) < 2 THEN NotEnoughArgs
    ELSE Cmd([verb |-> "PRIVMSG", target |-> args[1], message |-> args[2]])

TargetIsChannel(cmd) == IsChannel(cmd.target)

NewTopicCommand(args) ==
    IF Len(args) < 1 THEN NotEnoughArgs
    ELSE Cmd([verb |-> "TOPIC", channel |-> args[1], topic |-> Opt(args, 2)])

(* The channel form is a stub that keeps only the channel.               *)
NewChannelModeCommand(args) == Cmd([verb |-> "CHANNELMODE", channel |-> args[1]])

NewModeCommand(args) ==
    CASE Len(args) = 0        -> NotEnoughArgs
      [] IsChannel(args[1])   -> NewChannelModeCommand(args)
      [] OTHER ->
           LET r == NewUserModeCommand(Tail(args))
           IN  CASE r.status = "ok"  -> Cmd([verb |-> "MODE", nickname |-> args[1],
                                             changes |-> r.changes])
                 [] r.status = "err" -> ParseErr
                 [] OTHER            -> Panic

NewWhoisCommand(args) ==
    IF Len(args) < 1 THEN NotEnoughArgs
    ELSE Cmd([verb |-> "WHOIS",
              target |-> IF Len(args) > 1 THEN args[1] ELSE Empty,
              masks  |-> Split(IF Len(args) > 1 THEN args[2] ELSE args[1])])

NewWhoCommand(args) ==
    Cmd([verb |-> "WHO", mask |-> Opt(args, 1),
         operatorOnly |-> Len(args) > 1 /\ args[2] = <<"o">>])

-----------------------------------------------------------------------------
(* The verbs of parseCommandFuncs.                                        *)
Registered == {"JOIN", "MODE", "NICK", "PART", "PASS", "PING", "PONG",
               "PRIVMSG", "QUIT", "TOPIC", "USER", "WHO", "WHOIS"}

(* The constructor parseCommandFuncs holds for verb v.                     *)
Construct(v, args) ==
    CASE v = "JOIN"    -> NewJoinCommand(args)
      [] v = "MODE"    -> NewModeCommand(args)
      [] v = "NICK"    -> NewNickCommand(args)
      [] v = "PART"    -> NewPartCommand(args)
      [] v = "PASS"    -> NewPassCommand(args)
      [] v = "PING"    -> NewPingCommand(args)
      [] v = "PONG"    -> NewPongCommand(args)
      [] v = "PRIVMSG" -> NewPrivMsgCommand(args)
      [] v = "QUIT"    -> NewQuitCommand(args)
      [] v = "TOPIC"   -> NewTopicCommand(args)
      [] v = "USER"    -> NewUserMsgCommand(args)
      [] v = "WHO"     -> NewWhoCommand(args)
      [] v = "WHOIS"   -> NewWhoisCommand(args)

(* ParseCommand: a registered one-word verb goes to its constructor,     *)
(* anything else becomes an UnknownCommand.                               *)
ParseCommand(line) ==
    LET p == ParseLine(line)
    IN  CASE p.panic -> Panic
          [] Len(p.command) = 1 /\ p.command[1] \in Registered
               -> Construct(p.command[1], p.args)
          [] OTHER -> NewUnknownCommand(p.command, p.args)
=============================================================================
