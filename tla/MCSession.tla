------------------------------ MODULE MCSession ------------------------------
(* Small instances of Session for TLC.                                     *)
EXTENDS Session, TLC

\* Call ids are only compared for equality: sound for the invariants, and not
\* used in the runs that check liveness.
CallSymmetry == Permutations(Calls)
=============================================================================
