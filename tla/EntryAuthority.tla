--------------------------- MODULE EntryAuthority ---------------------------
(***************************************************************************)
(* What the durable reservation promises: an exclusive authority to enter. *)
(* It is granted to one order that has not been sent, only its holder is   *)
(* sent, once, and it is not given up while the order can still execute.   *)
(***************************************************************************)
CONSTANTS Oids, NoOid

VARIABLES
  holder,  \* oid that has the authority, NoOid if free
  state    \* state[o]: "new", "sent", "open" (accepted, may execute), "over"

vars == <<holder, state>>

Init == holder = NoOid /\ state = [o \in Oids |-> "new"]

Grant(o) ==
  /\ holder = NoOid /\ state[o] = "new"
  /\ holder' = o /\ UNCHANGED state

Send(o) ==
  /\ holder = o /\ state[o] = "new"
  /\ state' = [state EXCEPT ![o] = "sent"] /\ UNCHANGED holder

Accept(o) ==
  /\ state[o] = "sent"
  /\ state' = [state EXCEPT ![o] = "open"] /\ UNCHANGED holder

Finish(o) ==
  /\ state[o] \in {"sent", "open"}
  /\ state' = [state EXCEPT ![o] = "over"] /\ UNCHANGED holder

GiveUp(o) ==
  /\ holder = o /\ state[o] \notin {"sent", "open"}
  /\ holder' = NoOid /\ UNCHANGED state

Next == \E o \in Oids : Grant(o) \/ Send(o) \/ Accept(o) \/ Finish(o) \/ GiveUp(o)

Spec == Init /\ [][Next]_vars
=============================================================================
