----------------------------- MODULE Entrypoint -----------------------------
(***************************************************************************)
(* The container entrypoint (src/unnamed/part_000, from "#!/bin/sh" to     *)
(* "exec /ircd-bin/ergo run") under the restart policy of                 *)
(* src/compose.yaml (restart_policy: condition on-failure).               *)
(*                                                                         *)
(* The script has no "set -e": a failing command does not stop it.  If    *)
(* /ircd/ircd.yaml is not a regular file it writes a config with a fresh  *)
(* oper password, prints the password, hashes it with ergo genpasswd,     *)
(* substitutes the hash and moves the result into place; then it makes    *)
(* certificates and execs the server.  The container may crash at any    *)
(* point and is then restarted: /ircd (a volume) and the printed log      *)
(* survive, the shell's variables do not.                                 *)
(*                                                                         *)
(* What /ircd/ircd.yaml is at the first start depends on the deployment:  *)
(*   "absent"  the data volume alone, as on a first start without the     *)
(*             bind mount;                                                 *)
(*   "file"    compose.yaml's read-only bind mount of an existing         *)
(*             ./ircd.yaml;                                                *)
(*   "dir"     the same bind mount when ./ircd.yaml is missing on the     *)
(*             host: Docker creates a directory there.                    *)
(* /tmp is in the container's layer and /ircd is a volume, so mv copies   *)
(* the file and then unlinks the source: the copy is not atomic.          *)
(***************************************************************************)
EXTENDS Naturals

CONSTANTS Passwords,        \* values OPERPASS may draw from /dev/urandom
          Mounts,           \* what /ircd/ircd.yaml may be at the first start
          MaxCrashes,       \* bound on container crashes
          MaxRestarts       \* bound on restarts (the policy sets none)

None == "none"      \* an unset shell variable; nothing printed yet
Host == "host"      \* the oper password of a config the operator wrote

(* /ircd/ircd.yaml: nothing, a directory, or a regular file with its   *)
(* oper password and whether its content is complete.                     *)
Absent == [kind |-> "absent", complete |-> FALSE, hash |-> None]
Dir    == [kind |-> "dir", complete |-> FALSE, hash |-> None]
Config == [kind : {"file"}, complete : BOOLEAN, hash : Passwords \cup {Host}]

VARIABLES conf,      \* /ircd/ircd.yaml
          pc,        \* the next step of the script, or the container state
          pass,      \* OPERPASS
          enc,       \* ENCRYPTEDPASS
          shown,     \* the last oper password the log shows
          used,      \* passwords drawn so far (urandom does not repeat)
          crashes, restarts

vars == <<conf, pc, pass, enc, shown, used, crashes, restarts>>

TypeOK ==
    /\ conf \in {Absent, Dir} \cup Config
    /\ pc \in {"test", "gen", "hash", "mv", "unlink", "run", "serving", "exited"}
    /\ pass \in Passwords \cup {None}
    /\ enc \in Passwords \cup {None}
    /\ shown \in Passwords \cup {None}
    /\ used \subseteq Passwords
    /\ crashes \in 0..MaxCrashes /\ restarts \in 0..MaxRestarts

Init ==
    /\ conf \in {CASE m = "absent" -> Absent
                    [] m = "dir"    -> Dir
                    [] m = "file"   -> [kind |-> "file", complete |-> TRUE, hash |-> Host]
                  : m \in Mounts}
    /\ pc = "test"
    /\ pass = None /\ enc = None /\ shown = None /\ used = {}
    /\ crashes = 0 /\ restarts = 0

(* [ ! -f /ircd/ircd.yaml ]: a regular file, complete or not, skips the   *)
(* generation; a missing path or a directory enters it.                    *)
IsRegularFile(c) == c.kind = "file"

(* Mutant: the "!" of the test dropped.                                  *)
TestInverted ==
    /\ pc = "test"
    /\ pc' = IF IsRegularFile(conf) THEN "gen" ELSE "run"
    /\ UNCHANGED <<conf, pass, enc, shown, used, crashes, restarts>>

Test ==
    /\ pc = "test"
    /\ pc' = IF IsRegularFile(conf) THEN "run" ELSE "gen"
    /\ UNCHANGED <<conf, pass, enc, shown, used, crashes, restarts>>

(* awk writes /tmp/ircd.yaml; OPERPASS is drawn and echoed to the log.    *)
(* Mutant: the echo placed before OPERPASS is drawn.                    *)
GenPassEchoFirst ==
    /\ pc = "gen"
    /\ \E p \in Passwords \ used :
          /\ pass' = p
          /\ shown' = pass
          /\ used' = used \cup {p}
    /\ pc' = "hash"
    /\ UNCHANGED <<conf, enc, crashes, restarts>>

GenPass ==
    /\ pc = "gen"
    /\ \E p \in Passwords \ used :
          /\ pass' = p
          /\ shown' = p
          /\ used' = used \cup {p}
    /\ pc' = "hash"
    /\ UNCHANGED <<conf, enc, crashes, restarts>>

(* ENCRYPTEDPASS is the hash genpasswd prints; awk substitutes it into  *)
(* /tmp/ircd2.yaml; the variables are unset.                              *)
(* Mutant: genpasswd's prompt captured along with the hash.             *)
HashCapturesPrompt ==
    /\ pc = "hash"
    /\ enc' = "prompt"
    /\ pc' = "mv"
    /\ UNCHANGED <<conf, pass, shown, used, crashes, restarts>>

Hash ==
    /\ pc = "hash"
    /\ enc' = pass
    /\ pc' = "mv"
    /\ UNCHANGED <<conf, pass, shown, used, crashes, restarts>>

(* mv /tmp/ircd2.yaml /ircd/ircd.yaml: onto a missing path it copies      *)
(* across filesystems, leaving a file whose content is incomplete until   *)
(* the copy ends; into a read-only directory it fails and the script      *)
(* goes on.                                                                *)
MvCopy ==
    /\ pc = "mv"
    /\ IF conf = Absent
         THEN /\ conf' = [kind |-> "file", complete |-> FALSE, hash |-> enc]
              /\ pc' = "unlink"
         ELSE /\ pc' = "run"
              /\ UNCHANGED conf
    /\ UNCHANGED <<pass, enc, shown, used, crashes, restarts>>

MvDone ==
    /\ pc = "unlink"
    /\ conf' = [conf EXCEPT !.complete = TRUE]
    /\ pc' = "run"
    /\ UNCHANGED <<pass, enc, shown, used, crashes, restarts>>

(* ergo mkcerts (its failure ignored), then exec ergo run: the server    *)
(* comes up on a complete config file and exits with an error otherwise. *)
Run ==
    /\ pc = "run"
    /\ pc' = IF IsRegularFile(conf) /\ conf.complete THEN "serving" ELSE "exited"
    /\ UNCHANGED <<conf, pass, enc, shown, used, crashes, restarts>>

(* The container dies at any point: killed, out of memory, host crash.   *)
Crash ==
    /\ pc # "exited"
    /\ crashes < MaxCrashes
    /\ pc' = "exited"
    /\ crashes' = crashes + 1
    /\ UNCHANGED <<conf, pass, enc, shown, used, restarts>>

(* restart_policy on-failure: every exit modelled is a failure; the      *)
(* script starts over with no variables set.                              *)
Restart ==
    /\ pc = "exited"
    /\ restarts < MaxRestarts
    /\ pc' = "test"
    /\ pass' = None /\ enc' = None
    /\ restarts' = restarts + 1
    /\ UNCHANGED <<conf, shown, used, crashes>>

Script == Test \/ GenPass \/ Hash \/ MvCopy \/ MvDone \/ Run

Next == Script \/ Crash \/ Restart

Spec == Init /\ [][Next]_vars /\ WF_vars(Script) /\ WF_vars(Restart)

-----------------------------------------------------------------------------
PartialConfig == IsRegularFile(conf) /\ ~conf.complete

(* When the server runs on a config the script generated, the last oper  *)
(* password the log shows is the one whose hash is in that config:        *)
(* whatever crashes came between the echo and the mv, the password an     *)
(* operator reads in the log opens the oper block.                        *)
PasswordShownOpensOper ==
    (pc = "serving" /\ conf.hash # Host) => conf.hash = shown

(* Unless a crash interrupts the copy of the generated config, the        *)
(* container eventually runs the server for good: every crash point of    *)
(* the script is recovered by a restart.                                  *)
RecoversUnlessCopyInterrupted ==
    [](~PartialConfig \/ pc = "unlink") => <>[](pc = "serving")

(* The container eventually runs the server for good, whatever crashes    *)
(* happen (the restart policy's intent).                                  *)
ServesEventually == <>[](pc = "serving")
=============================================================================
