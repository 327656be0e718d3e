----------------------------- MODULE ModeDecoder -----------------------------
(***************************************************************************)
(* NewUserModeCommand (src/irc/commands.go:443-469) with its              *)
(* stringToRunes goroutines (415-426).  For each flag token the decoder   *)
(* starts a goroutine that decodes the token rune by rune and sends each  *)
(* rune on an unbuffered channel, closing it at the end.  The decoder     *)
(* receives the sign, then ranges over the channel writing one            *)
(* ModeChange per rune into a slice preallocated by rune counting.  On a  *)
(* bad sign it returns at once, without draining the channel.             *)
(*                                                                         *)
(* Goroutine g serves token g.  An unbuffered send completes only in the  *)
(* same step as the matching receive, so a goroutine in state "sending"  *)
(* is blocked until the decoder takes its value.                          *)
(***************************************************************************)
EXTENDS Naturals, Sequences, SequencesExt, Utf8

CONSTANTS Inputs,     \* the flag-token lists the call may be given
          MaxTokens   \* the longest such list

VARIABLES tokens,     \* args[1:]
          pc,         \* where the decoder is
          tok,        \* the token the loop is at (the range variable arg)
          size,       \* len(cmd.changes)
          changes,    \* cmd.changes[0:index]
          add,        \* add := sig == '+'
          outcome,    \* what the call returned
          gr          \* the stringToRunes goroutines, one per token

vars == <<tokens, pc, tok, size, changes, add, outcome, gr>>

(* The call as a whole; outcome stays Pending until the decoder returns. *)
UM == INSTANCE UserMode WITH tokens <- tokens, outcome <- outcome

Goroutines == 1..MaxTokens
GoState == {"unborn", "running", "sending", "closed"}

Unborn == [state |-> "unborn", rest |-> <<>>, val |-> NulRune]

TypeOK ==
    /\ tokens \in Seq(Seq(STRING))
    /\ pc \in {"make", "loop", "recvSig", "range", "done"}
    /\ tok \in 1..(MaxTokens + 1)
    /\ size \in Int
    /\ changes \in Seq([mode : STRING, add : BOOLEAN])
    /\ add \in BOOLEAN
    /\ outcome.status \in {"pending", "ok", "err", "panic"}
    /\ \A g \in Goroutines : gr[g].state \in GoState

Init ==
    /\ tokens \in Inputs
    /\ pc = "make"
    /\ tok = 1
    /\ size = 0
    /\ changes = <<>>
    /\ add = FALSE
    /\ outcome = UM!Pending
    /\ gr = [g \in Goroutines |-> Unborn]

Return(o) == pc' = "done" /\ outcome' = o

(* Mutant: the loop over args[1:] indexed from 0, as in Go.            *)
MakeChangesFromZero ==
    /\ pc = "make"
    /\ LET n == UM!ChangesLen(tokens)
       IN  /\ size' = n
           /\ IF n < 0
                THEN Return(UM!Panicked) /\ UNCHANGED tok
                ELSE pc' = "loop" /\ tok' = 0 /\ UNCHANGED outcome
    /\ UNCHANGED <<tokens, changes, add, gr>>

(* changes: make([]ModeChange, RuneCount(Join(args[1:])) - len(args[1:])) *)
MakeChanges ==
    /\ pc = "make"
    /\ LET n == UM!ChangesLen(tokens)
       IN  /\ size' = n
           /\ IF n < 0
                THEN Return(UM!Panicked) /\ UNCHANGED tok
                ELSE pc' = "loop" /\ tok' = 1 /\ UNCHANGED outcome
    /\ UNCHANGED <<tokens, changes, add, gr>>

(* The range over args[1:] is exhausted: return cmd, nil.                 *)
LoopDone ==
    /\ pc = "loop"
    /\ tok > Len(tokens)
    /\ Return(UM!Returned(changes))
    /\ UNCHANGED <<tokens, tok, size, changes, add, gr>>

(* Mutant: a producer started for every remaining token at once, before *)
(* any of them is consumed.                                                *)
SpawnAll ==
    /\ pc = "loop"
    /\ tok <= Len(tokens)
    /\ gr' = [g \in Goroutines |->
                IF g >= tok /\ g <= Len(tokens) /\ gr[g].state = "unborn"
                  THEN [state |-> "running", rest |-> tokens[g], val |-> NulRune]
                  ELSE gr[g]]
    /\ pc' = "recvSig"
    /\ UNCHANGED <<tokens, tok, size, changes, add, outcome>>

(* modeChange := stringToRunes(arg): start the goroutine for this token.  *)
Spawn ==
    /\ pc = "loop"
    /\ tok <= Len(tokens)
    /\ gr' = [gr EXCEPT ![tok] = [state |-> "running", rest |-> tokens[tok],
                                  val |-> NulRune]]
    /\ pc' = "recvSig"
    /\ UNCHANGED <<tokens, tok, size, changes, add, outcome>>

(* Goroutine g decodes the next rune and blocks sending it.               *)
Send(g) ==
    /\ gr[g].state = "running"
    /\ gr[g].rest # <<>>
    /\ LET d == DecodeRune(gr[g].rest)
       IN  gr' = [gr EXCEPT ![g] = [state |-> "sending",
                                    rest  |-> SubSeq(@.rest, d.size + 1, Len(@.rest)),
                                    val   |-> d.rune]]
    /\ UNCHANGED <<tokens, pc, tok, size, changes, add, outcome>>

(* Mutant: the goroutine returns without close(runes).                   *)
CloseForgotten(g) ==
    /\ gr[g].state = "running"
    /\ gr[g].rest = <<>>
    /\ UNCHANGED vars

(* Goroutine g has sent every rune: close(runes) and exit.                *)
Close(g) ==
    /\ gr[g].state = "running"
    /\ gr[g].rest = <<>>
    /\ gr' = [gr EXCEPT ![g].state = "closed"]
    /\ UNCHANGED <<tokens, pc, tok, size, changes, add, outcome>>

(* Receiving on the channel of goroutine g: takes the value it is sending *)
(* and lets it run on, or the zero rune once the channel is closed.       *)
CanReceive(g) == gr[g].state \in {"sending", "closed"}
Received(g) == IF gr[g].state = "sending" THEN gr[g].val ELSE NulRune
Unblock(g) ==
    gr' = IF gr[g].state = "sending"
            THEN [gr EXCEPT ![g].state = "running"]
            ELSE gr

(* sig := <-modeChange; a sig other than '+' or '-' returns              *)
(* ErrParseCommand at once, leaving the goroutine as it is.               *)
RecvSig ==
    /\ pc = "recvSig"
    /\ CanReceive(tok)
    /\ Unblock(tok)
    /\ LET sig == Received(tok)
       IN  IF sig \notin {"+", "-"}
             THEN Return(UM!Failed) /\ UNCHANGED add
             ELSE pc' = "range" /\ add' = (sig = "+") /\ UNCHANGED outcome
    /\ UNCHANGED <<tokens, tok, size, changes>>

(* for mode := range modeChange { cmd.changes[index] = ...; index += 1 }  *)
(* A write at index >= len(cmd.changes) panics.                           *)
RangeRecv ==
    /\ pc = "range"
    /\ gr[tok].state = "sending"
    /\ Unblock(tok)
    /\ IF Len(changes) >= size
         THEN Return(UM!Panicked) /\ UNCHANGED changes
         ELSE /\ changes' = Append(changes, UM!ModeChange(gr[tok].val, add))
              /\ UNCHANGED <<pc, outcome>>
    /\ UNCHANGED <<tokens, tok, size, add>>

(* The channel is closed: the range ends and the loop moves to the next  *)
(* token.                                                                 *)
RangeEnd ==
    /\ pc = "range"
    /\ gr[tok].state = "closed"
    /\ pc' = "loop"
    /\ tok' = tok + 1
    /\ UNCHANGED <<tokens, size, changes, add, outcome, gr>>

Decoder == MakeChanges \/ LoopDone \/ Spawn \/ RecvSig \/ RangeRecv \/ RangeEnd

Next ==
    \/ Decoder
    \/ \E g \in Goroutines : Send(g) \/ Close(g)

(* The Go scheduler eventually runs every runnable goroutine.             *)
Spec ==
    /\ Init /\ [][Next]_vars
    /\ WF_vars(Decoder)
    /\ \A g \in Goroutines : WF_vars(Send(g)) /\ WF_vars(Close(g))

-----------------------------------------------------------------------------
(* When NewUserModeCommand returns, its result is the one the decoding    *)
(* rule of the grammar comment at commands.go:442 and spec section 8     *)
(* gives for the same tokens: a "+" or "-" inside a token switches the   *)
(* sign for the flags after it.                                           *)
ChangesFollowSpec == pc = "done" => outcome = UM!SpecFlagChanges(tokens)

(* Running the goroutines concurrently with the decoder gives the result *)
(* of one atomic call, and the call always returns: no interleaving of   *)
(* sends, receives and closes changes or blocks the decoding.            *)
ImplementsUserMode == UM!Spec

(* NewUserModeCommand never panics: whatever bytes the peer sends, the    *)
(* call returns a command or an error, since "nothing in this layer is   *)
(* fatal to the process" (spec section 7).  It relies on the slice sized *)
(* by RuneCountInString of the joined tokens being long enough for the   *)
(* runes decoded from each token on its own.                              *)
NeverPanics == outcome.status # "panic"

(* Every stringToRunes goroutine eventually exits: its channel is drained *)
(* on every path out of NewUserModeCommand, the early ErrParseCommand    *)
(* return included (spec section 5).                                     *)
AllGoroutinesExit ==
    \A g \in Goroutines : (gr[g].state = "running") ~> (gr[g].state = "closed")

(* A goroutine whose next step is a send that no receiver will take once  *)
(* the call has returned.                                                  *)
Stuck(g) ==
    \/ gr[g].state = "sending"
    \/ gr[g].state = "running" /\ gr[g].rest # <<>>

(* When NewUserModeCommand returns, at most one stringToRunes goroutine is *)
(* left blocked, the one of the token the loop stopped at, and only when   *)
(* the call failed: a command that is returned has drained every channel, *)
(* and each malformed MODE line leaks one goroutine, not one per token.   *)
LeaksOnlyFailedToken ==
    pc = "done" =>
        \A g \in Goroutines :
            Stuck(g) => g = tok /\ outcome \in {UM!Failed, UM!Panicked}
=============================================================================
