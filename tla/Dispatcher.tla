----------------------------- MODULE Dispatcher -----------------------------
(***************************************************************************)
(* What the Session Trampoline Dispatcher promises its host (spec.md       *)
(* section 4.4): the phases of one session and the operations that move    *)
(* between them.  Running is internal to an operation, which the host      *)
(* sees as one step, so only its outcome is a phase here.                  *)
(*                                                                         *)
(*   start    from any phase (it always recreates the program instance): *)
(*            fails with no instance, or runs one step and suspends or is  *)
(*            Done;                                                         *)
(*   resume   "only valid from a Suspended state": one more step; from     *)
(*            any other phase it must leave the phase as it is;            *)
(*   session  opening or closing the session, or configuring it, runs no  *)
(*            step: the phase stays, or the instance ends (Idle).          *)
(* `op` is the operation the host invoked last.                            *)
(***************************************************************************)

VARIABLES phase, op

Suspended == {"SuspendedGet", "SuspendedPut"}
Phases == {"Idle", "Done"} \cup Suspended

Init == phase = "Idle" /\ op = "none"

Start ==
  /\ op' = "start"
  /\ phase' \in Phases

Resume ==
  /\ op' = "resume"
  /\ \/ phase \in Suspended /\ phase' \in Suspended \cup {"Done"}
     \/ phase' = phase

Session ==
  /\ op' = "session"
  /\ phase' \in {phase, "Idle"}

Next == Start \/ Resume \/ Session

Spec == Init /\ [][Next]_<<phase, op>>

=============================================================================
