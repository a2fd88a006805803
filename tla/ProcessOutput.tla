---------------------------- MODULE ProcessOutput ----------------------------
(***************************************************************************)
(* What exec_command and write_stdin promise about the output of one       *)
(* process, whoever runs it: what it prints is handed out in order and     *)
(* once, nothing follows the exit code, and the exit code comes after all  *)
(* of it.  `lossy` marks a process that is allowed to lose its last words. *)
(***************************************************************************)
EXTENDS Naturals

VARIABLES
  printed,    \* how many bytes the process has printed
  delivered,  \* how many of them were handed out in results
  ended,      \* the process has exited
  reported,   \* a result carried the exit code
  lossy

vars == <<printed, delivered, ended, reported, lossy>>

Init ==
  /\ printed = 0 /\ delivered = 0
  /\ ended = FALSE /\ reported = FALSE
  /\ lossy \in BOOLEAN

PrintMore ==
  /\ ~ended
  /\ printed' = printed + 1
  /\ UNCHANGED <<delivered, ended, reported, lossy>>

End ==
  /\ ended' = TRUE
  /\ UNCHANGED <<printed, delivered, reported, lossy>>

Deliver ==
  /\ ~reported
  /\ delivered' \in Nat
  /\ delivered < delivered' /\ delivered' <= printed
  /\ UNCHANGED <<printed, ended, reported, lossy>>

Report ==
  /\ ended /\ (lossy \/ delivered = printed)
  /\ reported' = TRUE
  /\ UNCHANGED <<printed, delivered, ended, lossy>>

Next == PrintMore \/ End \/ Deliver \/ Report
Spec == Init /\ [][Next]_vars
=============================================================================
