------------------------------ MODULE AtomicStore ------------------------------
(***************************************************************************)
(* What the database promises to the callers of its methods: the pieces of *)
(* a write come into the store in one step or never, and each caller hears *)
(* one answer. Only a cancelled caller does not know which.                *)
(***************************************************************************)
CONSTANTS
  Writes,  \* calls that write
  Pieces   \* what each of them stores

VARIABLES
  content,  \* pieces in the store, <<write, piece>>
  answer    \* answer[w]: what the caller of w heard

Init == content = {} /\ answer = [w \in Writes |-> "nothing"]

\* A cancelled write may still be stored; one that was refused may not.
StoreAll(w) ==
  /\ answer[w] \in {"nothing", "cancelled"}
  /\ content' = content \cup ({w} \X Pieces)
  /\ \E a \in {"ok", "cancelled"} :
       answer' = [answer EXCEPT ![w] = IF @ = "nothing" THEN a ELSE @]

Refuse(w) ==
  /\ answer[w] = "nothing" /\ answer' = [answer EXCEPT ![w] = "error"]
  /\ UNCHANGED content

\* Callers stop waiting: one that is cancelled, or all when the process dies.
Cancel(W) ==
  /\ \A w \in W : answer[w] = "nothing"
  /\ answer' = [w \in Writes |-> IF w \in W THEN "cancelled" ELSE answer[w]]
  /\ UNCHANGED content

Next == \/ \E w \in Writes : StoreAll(w) \/ Refuse(w)
        \/ \E W \in SUBSET Writes : Cancel(W)

Spec == Init /\ [][Next]_<<content, answer>>

=============================================================================
