------------------------------ MODULE UserMode ------------------------------
(***************************************************************************)
(* NewUserModeCommand (src/irc/commands.go:443-469) as one atomic call:   *)
(* pending until it returns once, with what UserModeCommand says it       *)
(* returns.  This is the abstract specification that ModeDecoder, the     *)
(* model of the same function with its stringToRunes goroutines, is      *)
(* shown to implement.                                                    *)
(***************************************************************************)
EXTENDS UserModeCommand

CONSTANT Inputs     \* the flag-token lists the call may be given

(* The call as a state machine: pending until it returns once.           *)
VARIABLES tokens, outcome
vars == <<tokens, outcome>>

Init ==
    /\ tokens \in Inputs
    /\ outcome = Pending

Call ==
    /\ outcome = Pending
    /\ outcome' = NewUserModeCommand(tokens)
    /\ UNCHANGED tokens

Spec == Init /\ [][Call]_vars /\ WF_vars(Call)
=============================================================================
