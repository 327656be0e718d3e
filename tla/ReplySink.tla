----------------------------- MODULE ReplySink -----------------------------
(***************************************************************************)
(* What spec.md (sections 3, 5 and 6) promises of a command's reply path:  *)
(* the caller binds a parsed command to the connection the line came from  *)
(* and runs its server-effect hook, which emits replies.  The layer's      *)
(* contract with the connection's queue is that an enqueue never fails    *)
(* silently and keeps per-connection order; its backpressure is the       *)
(* connection's, so the queue here is everything enqueued, delivered or   *)
(* not.                                                                    *)
(*                                                                         *)
(* A reply is the number of the reply on its connection, so that order   *)
(* and loss can be told apart.                                            *)
(***************************************************************************)
EXTENDS Naturals, Sequences

CONSTANTS Clients,      \* connections
          MaxReplies,   \* replies one command's hook may emit
          MaxTotal      \* bound on the replies of one connection

VARIABLES hpc,          \* hpc[c]: the connection's handler, "idle" or "hook"
          pending,      \* pending[c]: replies the running hook still emits
          queue         \* queue[c]: the replies enqueued on connection c

vars == <<hpc, pending, queue>>

Init ==
    /\ hpc = [c \in Clients |-> "idle"]
    /\ pending = [c \in Clients |-> 0]
    /\ queue = [c \in Clients |-> <<>>]

(* A line is parsed into a command, bound to c, and its hook starts; it   *)
(* will emit n replies.                                                    *)
Accept(c) ==
    /\ hpc[c] = "idle"
    /\ \E n \in 1..MaxReplies :
          /\ Len(queue[c]) + n <= MaxTotal
          /\ pending' = [pending EXCEPT ![c] = n]
    /\ hpc' = [hpc EXCEPT ![c] = "hook"]
    /\ UNCHANGED queue

(* reply(message): enqueued after everything enqueued before.            *)
Reply(c) ==
    /\ hpc[c] = "hook" /\ pending[c] > 0
    /\ queue' = [queue EXCEPT ![c] = Append(@, Len(@) + 1)]
    /\ pending' = [pending EXCEPT ![c] = @ - 1]
    /\ UNCHANGED hpc

Finish(c) ==
    /\ hpc[c] = "hook" /\ pending[c] = 0
    /\ hpc' = [hpc EXCEPT ![c] = "idle"]
    /\ UNCHANGED <<pending, queue>>

Next == \E c \in Clients : Accept(c) \/ Reply(c) \/ Finish(c)

(* A hook that has replies to emit emits them and returns (spec 5: no     *)
(* operation of the layer suspends, with a connection that drains).       *)
Spec == Init /\ [][Next]_vars
            /\ \A c \in Clients : WF_vars(Reply(c)) /\ WF_vars(Finish(c))
=============================================================================
