------------------------------ MODULE MCRollout ------------------------------
(* Small instances of Rollout for TLC.                                     *)
EXTENDS Rollout, TLC

\* Call ids are only compared for equality.
CallSymmetry == Permutations(Calls)
=============================================================================
