----------------------------- MODULE MCStopMove -----------------------------
(* Instances of StopMove for TLC. *)
EXTENDS StopMove, FiniteSets, TLC

CONSTANTS s1, s2, s3
StopSymmetry == Permutations(StopIds)

\* Bound: two stops at a time only while no row is managed.
SecondStopUnmanaged == mgmt.open => Cardinality(StopIds \ FreeIds) <= 1
=============================================================================
