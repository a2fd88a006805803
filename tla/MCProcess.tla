------------------------------ MODULE MCProcess ------------------------------
(* Small instances of ProcessManager for TLC.                              *)
EXTENDS ProcessManager, TLC

\* Callers differ in nothing: sound where no liveness is checked.
CallerSymmetry == Permutations(Callers)
=============================================================================
