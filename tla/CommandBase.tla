---------------------------- MODULE CommandBase ----------------------------
(***************************************************************************)
(* BaseCommand of src/irc/commands.go (43-61) on its connection: the       *)
(* caller parses a line (ParseCommand, 63-70, which leaves the base        *)
(* unset), binds the command with SetBase, and runs its server-effect     *)
(* hook, which replies through Reply: a send on the bound client's        *)
(* Replies() channel, which blocks while the channel is full.             *)
(*                                                                         *)
(* The client, its reply channel and the goroutine that writes replies    *)
(* to the socket are outside src/ and modelled from spec.md (sections 3,  *)
(* 5, 6): the channel holds up to Cap replies and the connection's writer *)
(* takes them in order.                                                    *)
(*                                                                         *)
(* ReplySink is what the spec promises of this path: replies enqueued in *)
(* order, none lost, and every hook returning.                             *)
(***************************************************************************)
EXTENDS Naturals, Sequences, SequencesExt

CONSTANTS Clients,        \* connections
          Cap,            \* capacity of a client's reply channel
          MaxReplies,     \* replies one command's hook may emit
          MaxTotal        \* bound on the replies of one connection

Nil == "nil"              \* a command whose base was never set

VARIABLES hpc,      \* hpc[c]: the caller on connection c
          base,     \* base[c]: BaseCommand.client of c's current command
          pending,  \* pending[c]: replies the running hook still emits
          replies,  \* replies[c]: the buffered channel Replies() of c
          out       \* out[c]: replies the writer has written to c's socket

vars == <<hpc, base, pending, replies, out>>

(* Everything enqueued on c so far, delivered or not.                     *)
Enqueued(c) == out[c] \o replies[c]

(* A hook that can no longer return ("dead") is, to the spec, a hook     *)
(* that has not returned yet.                                              *)
InHook(c) == hpc[c] \in {"hook", "dead"}

RS == INSTANCE ReplySink WITH
        hpc     <- [c \in Clients |-> IF InHook(c) THEN "hook" ELSE "idle"],
        pending <- [c \in Clients |-> IF InHook(c) THEN pending[c] ELSE 0],
        queue   <- [c \in Clients |-> Enqueued(c)]

TypeOK ==
    /\ hpc \in [Clients -> {"idle", "parsed", "bound", "hook", "dead"}]
    /\ base \in [Clients -> Clients \cup {Nil}]
    /\ pending \in [Clients -> 0..MaxReplies]
    /\ replies \in [Clients -> BoundedSeq(1..MaxTotal, Cap)]
    /\ out \in [Clients -> BoundedSeq(1..MaxTotal, MaxTotal)]

Init ==
    /\ hpc = [c \in Clients |-> "idle"]
    /\ base = [c \in Clients |-> Nil]
    /\ pending = [c \in Clients |-> 0]
    /\ replies = [c \in Clients |-> <<>>]
    /\ out = [c \in Clients |-> <<>>]

(* ParseCommand(line): a constructor builds the command; its base is the *)
(* zero BaseCommand.                                                       *)
Parse(c) ==
    /\ hpc[c] = "idle"
    /\ hpc' = [hpc EXCEPT ![c] = "parsed"]
    /\ base' = [base EXCEPT ![c] = Nil]
    /\ UNCHANGED <<pending, replies, out>>

(* Mutant: the receiver rebound instead of written through               *)
(* (command = &BaseCommand{client}): the command keeps the zero base.      *)
SetBaseOnCopy(c) ==
    /\ hpc[c] = "parsed"
    /\ hpc' = [hpc EXCEPT ![c] = "bound"]
    /\ UNCHANGED <<base, pending, replies, out>>

(* SetBase(client): *command = BaseCommand{client}.                       *)
SetBase(c) ==
    /\ hpc[c] = "parsed"
    /\ base' = [base EXCEPT ![c] = c]
    /\ hpc' = [hpc EXCEPT ![c] = "bound"]
    /\ UNCHANGED <<pending, replies, out>>

(* The caller runs the server-effect hook, which will emit n replies.    *)
Hook(c) ==
    /\ hpc[c] = "bound"
    /\ \E n \in 1..MaxReplies :
          /\ Len(Enqueued(c)) + n <= MaxTotal
          /\ pending' = [pending EXCEPT ![c] = n]
    /\ hpc' = [hpc EXCEPT ![c] = "hook"]
    /\ UNCHANGED <<base, replies, out>>

(* The reply that follows everything enqueued on connection t.            *)
NextReply(t) == Len(Enqueued(t)) + 1

(* Mutant: a send that drops the reply when the channel is full          *)
(* (select with a default case).                                           *)
ReplyDropsWhenFull(c) ==
    /\ hpc[c] = "hook" /\ pending[c] > 0
    /\ LET t == base[c]
       IN  replies' = IF Len(replies[t]) < Cap
                        THEN [replies EXCEPT ![t] = Append(@, NextReply(t))]
                        ELSE replies
    /\ pending' = [pending EXCEPT ![c] = @ - 1]
    /\ UNCHANGED <<hpc, base, out>>

(* Mutant: the channel's capacity not respected.                          *)
ReplyUnbounded(c) ==
    /\ hpc[c] = "hook" /\ pending[c] > 0
    /\ LET t == base[c]
       IN  replies' = [replies EXCEPT ![t] = Append(@, NextReply(t))]
    /\ pending' = [pending EXCEPT ![c] = @ - 1]
    /\ UNCHANGED <<hpc, base, out>>

(* Reply(reply): command.client.Replies() <- reply, which waits for room *)
(* in the channel of the client the command is bound to.  On a command    *)
(* whose base was never set the client is nil: Replies() dereferences it  *)
(* or yields a nil channel, and the hook panics or blocks for ever; which *)
(* depends on Client, outside src/, and either way it never returns.      *)
Reply(c) ==
    /\ hpc[c] = "hook" /\ pending[c] > 0
    /\ LET t == base[c]
       IN  IF t = Nil
             THEN /\ hpc' = [hpc EXCEPT ![c] = "dead"]
                  /\ UNCHANGED <<pending, replies>>
             ELSE /\ Len(replies[t]) < Cap
                  /\ replies' = [replies EXCEPT ![t] = Append(@, NextReply(t))]
                  /\ pending' = [pending EXCEPT ![c] = @ - 1]
                  /\ UNCHANGED hpc
    /\ UNCHANGED <<base, out>>

(* The hook returns and the caller reads the next line.                   *)
Finish(c) ==
    /\ hpc[c] = "hook" /\ pending[c] = 0
    /\ hpc' = [hpc EXCEPT ![c] = "idle"]
    /\ UNCHANGED <<base, pending, replies, out>>

(* The connection's writer takes the oldest reply and writes it.          *)
Write(c) ==
    /\ replies[c] # <<>>
    /\ out' = [out EXCEPT ![c] = Append(@, Head(replies[c]))]
    /\ replies' = [replies EXCEPT ![c] = Tail(@)]
    /\ UNCHANGED <<hpc, base, pending>>

Caller(c) == SetBase(c) \/ Hook(c) \/ Reply(c) \/ Finish(c)

Next == \E c \in Clients : Parse(c) \/ Caller(c) \/ Write(c)

(* The caller's goroutine and the writer goroutine are scheduled         *)
(* whenever they can run; lines arrive when the peer sends them.         *)
Spec == Init /\ [][Next]_vars
            /\ \A c \in Clients : WF_vars(Caller(c)) /\ WF_vars(Write(c))

-----------------------------------------------------------------------------
(* Every step of the code is a step of the spec's reply path, whether or *)
(* not sockets fail: each reply a hook emits is enqueued on the          *)
(* connection its command came from, right after the replies before it, *)
(* and none is lost or duplicated.                                         *)
RepliesFollowSink == RS!Init /\ [][RS!Next]_RS!vars

(* Every hook the caller runs returns: Reply waits only on the channel of *)
(* a live client, whose writer drains it, so SetBase must have bound the *)
(* command before its hook runs.                                           *)
HooksReturn == \A c \in Clients : (hpc[c] = "hook") ~> (hpc[c] = "idle")
=============================================================================
