------------------------ MODULE MCEntryReservation ------------------------
(* Instances of EntryReservation for TLC. *)
EXTENDS EntryReservation, TLC

CONSTANTS o1, o2
TwoOneVol == (o1 :> 2) @@ (o2 :> 1)
UnitVol == [o \in Oids |-> 1]
ClientSymmetry == Permutations(Clients)
=============================================================================
