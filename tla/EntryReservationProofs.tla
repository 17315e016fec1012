------------------------ MODULE EntryReservationProofs ------------------------
(***************************************************************************)
(* Proofs about EntryReservation, for any number of requests, orders,      *)
(* volumes and positions.                                                  *)
(*                                                                         *)
(* Shape says where a request can be and what it then holds; Ledger ties   *)
(* the reservation row, the orders and the one confirmable token together. *)
(* BudgetInv bounds position and view by what the claim saw; ThesisInv     *)
(* ties orders, position ids and bound theses together.                    *)
(***************************************************************************)
EXTENDS EntryReservation, TLAPS

ConfirmSteps == {"wait", "mark", "claim", "leverage", "submit", "send", "await",
                 "recover", "undo", "post"}
AfterClaim == {"leverage", "submit", "send", "await", "recover", "undo", "post"}
Reconciling == {"row", "lookup", "bind", "release"}

Roles(c) ==
  /\ pc[c] = "idle" <=> kind[c] = "none"
  /\ pc[c] \in ConfirmSteps => kind[c] = "confirm"
  /\ pc[c] = "store" => kind[c] = "preview" /\ mine[c] \in Oids
  /\ kind[c] \in {"monitor", "post"} => pc[c] \in Reconciling
  /\ kind[c] \in {"confirm", "post"} => mine[c] \in Oids
  /\ (kind[c] = "confirm" /\ pc[c] # "wait") \/ kind[c] = "post" => lock = c

Rows(c) ==
  /\ pc[c] \in {"lookup", "bind", "release"} => row[c] \in Oids /\ stage[row[c]] = "claimed"
  /\ pc[c] \in {"bind", "release"} => ord[row[c]] = "done"

Tickets(c) ==
  /\ kind[c] = "confirm" /\ pc[c] \notin AfterClaim \cup {"wait"} => stage[mine[c]] = "consumed"
  /\ pc[c] \in AfterClaim \/ kind[c] = "post" => stage[mine[c]] = "claimed"
  /\ pc[c] \in {"leverage", "submit"} =>
       resv = mine[c] /\ phase = "claimed" /\ ord[mine[c]] = "none"
  /\ pc[c] = "send" =>
       resv = mine[c] /\ phase = "submission_started" /\ ord[mine[c]] = "none"
  /\ pc[c] \in {"await", "recover"} => ord[mine[c]] \in {"flight", "live", "done"}
  /\ pc[c] = "undo" => ord[mine[c]] \in {"none", "refused"}

Ledger ==
  /\ resv = NoOid <=> phase = "none"
  /\ resv # NoOid => stage[resv] = "claimed"
  /\ phase = "claimed" => ord[resv] = "none"
  /\ \A o \in Oids : ord[o] # "none" => stage[o] = "claimed"
  /\ token # NoOid => stage[token] = "previewed"

Shape == \A c \in Clients : Roles(c) /\ Rows(c) /\ Tickets(c)

GuardInv == TypeOK /\ Shape /\ Ledger /\ GuardedEntry

-----------------------------------------------------------------------------
(* Risk budget *)

\* Executed volume: none before acceptance, never more than the ticket.
Fills ==
  \A o \in Oids : deal[o] <= Vol[o] /\ (ord[o] \in {"none", "flight", "refused"} => deal[o] = 0)

\* What is read is the past: the view is behind the account, a snapshot behind the view.
Past ==
  /\ view.ext <= ext /\ \A o \in Oids : view.deal[o] <= deal[o]
  /\ \A c \in Clients :
       snap[c].ext <= view.ext /\ \A o \in Oids : snap[c].deal[o] <= view.deal[o]

\* No fill of the reserved entry has happened.
Unfilled == resv = NoOid \/ deal[resv] = 0

\* Position and view grow beyond what was seen at the claim only by the
\* reserved entry's fills and by what others add.
ClaimBounds ==
  /\ Unfilled => hold <= view.hold + ext
  /\ resv # NoOid => /\ hold <= pre[resv] + deal[resv] + ext
                     /\ view.hold <= pre[resv] + view.deal[resv] + view.ext

\* c holds a positions snapshot no row decision has overtaken.
Fresh(c) == c \notin stale

\* Snapshot taken, row not read yet: if nothing has filled since, it is current.
SnapBeforeRow(c) ==
  pc[c] \in {"readP", "row"} /\ Fresh(c) /\ Unfilled =>
    hold <= snap[c].hold + ext /\ view.hold <= snap[c].hold + view.ext

\* The snapshot c will judge, or judges, the reserved entry by is not older
\* than its claim, and the view has since moved only with that entry.
SnapOfRow(c) ==
  /\ Fresh(c) /\ resv # NoOid
  /\ pc[c] \in {"readP", "row"} \/ (pc[c] \in {"lookup", "bind", "release"} /\ row[c] = resv)
  => /\ snap[c].hold <= pre[resv] + snap[c].deal[resv] + snap[c].ext
     /\ view = snap[c]
          \/ hold <= view.hold + (deal[resv] - view.deal[resv]) + (ext - view.ext)

\* A Confirm that reconciles: only that row can be in its way.
ConfirmReconciles(c) ==
  kind[c] = "confirm" /\ pc[c] \in {"lookup", "bind", "release"} =>
    /\ resv \in {NoOid, row[c]}
    /\ hold <= pre[row[c]] + deal[row[c]] + ext
    /\ view.hold <= pre[row[c]] + view.deal[row[c]] + view.ext

\* A Confirm that passed the reservation check on a fresh snapshot.
ConfirmDecides(c) ==
  kind[c] = "confirm" /\ pc[c] \in {"gate", "claim"} /\ Fresh(c) =>
    /\ resv = NoOid
    /\ hold <= snap[c].hold + ext /\ view.hold <= snap[c].hold + view.ext

ConfirmGated(c) == pc[c] = "claim" => snap[c].hold + Vol[mine[c]] <= Budget

\* bind and release follow a successful look-up on the same snapshot.
LookedUp(c) ==
  pc[c] \in {"bind", "release"} => snap[c].hold >= pre[row[c]] + deal[row[c]]

Snapshots == \A c \in Clients : SnapBeforeRow(c) /\ SnapOfRow(c)
Confirms == \A c \in Clients : ConfirmReconciles(c) /\ ConfirmDecides(c)
Judged == \A c \in Clients : ConfirmGated(c) /\ LookedUp(c)

BudgetHeld == hold + Outstanding <= Budget + ext

FreshInv == ClaimBounds /\ Snapshots /\ Confirms /\ BudgetHeld

BudgetInv == Fills /\ Past /\ Judged /\ (raced = {} => FreshInv)

-----------------------------------------------------------------------------
(* Identity of positions and theses *)

\* Position ids only grow. An order's fills went to a position that exists, and
\* no position was opened by an entry whose fills went to an earlier one.
Positions ==
  /\ pid <= MaxPositions /\ view.pid <= pid /\ (hold > 0 => pid >= 1)
  /\ \A p \in Pids : p > pid => opener[p] = NoOid
  /\ \A p \in Pids : opener[p] # NoOid => ordPid[opener[p]] >= p
  /\ \A o \in Oids : ordPid[o] <= pid /\ (deal[o] > 0 <=> ordPid[o] >= 1)

\* A snapshot is not ahead of the view; one that shows no position names an
\* earlier position than the one the account has now.
FlatIsEarlier ==
  /\ view.hold = 0 /\ hold > 0 => view.pid < pid
  /\ \A c \in Clients : /\ snap[c].pid <= view.pid
                        /\ snap[c].hold = 0 /\ hold > 0 => snap[c].pid < pid

\* What the look-up established about the row that is bound and released.
Matched(c) ==
  /\ pc[c] \in {"bind", "release"} /\ deal[row[c]] > 0 => ordPid[row[c]] = PositionId(snap[c])
  /\ pc[c] = "bind" => pre[row[c]] = 0 /\ deal[row[c]] > 0

\* Fills of every other entry are in positions the view has shown.
OthersSeen == \A o \in Oids \ {resv} : ordPid[o] <= view.pid

\* A bound thesis is that of a finished first entry of that position.
Bound ==
  \A p \in Pids : link[p] # NoOid =>
    /\ ord[link[p]] = "done" /\ ordPid[link[p]] = p
    /\ pre[link[p]] = 0 /\ deal[link[p]] > 0

IdInv == Positions /\ FlatIsEarlier /\ (\A c \in Clients : Matched(c)) /\ OthersSeen /\ Bound

\* p was opened by o, or by others while o was under way.
OpenedBy(p, o) == opener[p] = o \/ (opener[p] = NoOid /\ ext > 0)

\* A fresh snapshot whose row is not read yet has seen the other entries' positions.
SeenBeforeRow(c) ==
  pc[c] \in {"readP", "row"} /\ Fresh(c) => \A o \in Oids \ {resv} : ordPid[o] <= snap[c].pid

\* So has that of a Confirm that reconciles or decides.
SeenByConfirm(c) ==
  kind[c] = "confirm" /\ Fresh(c) =>
    /\ pc[c] \in {"lookup", "bind", "release"} => \A o \in Oids \ {row[c]} : ordPid[o] <= snap[c].pid
    /\ pc[c] \in {"gate", "claim"} => \A o \in Oids : ordPid[o] <= snap[c].pid

\* An entry that found no position opened the one it fills into.
FirstOpens ==
  /\ resv # NoOid /\ pre[resv] = 0 /\ hold > 0 => OpenedBy(pid, resv)
  /\ \A o \in Oids : pre[o] = 0 /\ deal[o] > 0 => OpenedBy(ordPid[o], o)

OpenerInv == (\A c \in Clients : SeenBeforeRow(c) /\ SeenByConfirm(c)) /\ FirstOpens

ThesisInv == IdInv /\ (raced = {} => OpenerInv)

-----------------------------------------------------------------------------
(* Types *)

\* An idle request holds the empty snapshot.
LEMMA BlankIsView == Blank \in Views
  BY DEF Blank, Views

\* Ending a request keeps its fields typed.
LEMMA EndRequestType ==
  ASSUME TypeOK, NEW c \in Clients, EndRequest(c)
  PROVE  /\ pc' \in [Clients -> Steps] /\ kind' \in [Clients -> Kinds]
         /\ mine' \in [Clients -> Oids \cup {NoOid}] /\ row' \in [Clients -> Oids \cup {NoOid}]
         /\ snap' \in [Clients -> Views] /\ lock' \in Clients \cup {Nobody}
  BY BlankIsView DEF TypeOK, EndRequest, Steps, Kinds

\* Inserting a reservation row keeps the database typed.
LEMMA InsertRowType ==
  ASSUME TypeOK, NEW c \in Clients, InsertRow(c)
  PROVE  /\ resv' \in Oids \cup {NoOid} /\ pre' \in [Oids -> Nat]
         /\ phase' \in {"none", "claimed", "submission_started"}
         /\ stage' \in [Oids -> Stages] /\ raced' \subseteq {"claim", "release"}
         /\ UNCHANGED <<exchange, link, token, shown>>
<1>1. snap[c].hold \in Nat
  BY DEF TypeOK, Views
<1> QED BY <1>1 DEF TypeOK, InsertRow, Stages

\* Every step keeps the types.
LEMMA TypeStep == TypeOK /\ Shape /\ [Next]_vars => TypeOK'
<1> SUFFICES ASSUME TypeOK, Shape, [Next]_vars PROVE TypeOK' OBVIOUS
<1> USE DEF TypeOK, exchange, database, request, vars, Goto
<1>1. ASSUME NEW c \in Clients, StartPreview(c) PROVE TypeOK'
  BY <1>1 DEF StartPreview, Kinds, Steps
<1>2. ASSUME NEW c \in Clients, StartMonitor(c) PROVE TypeOK'
  BY <1>2 DEF StartMonitor, Kinds, Steps
<1>3. ASSUME NEW c \in Clients, Consume(c) PROVE TypeOK'
  BY <1>3 DEF Consume, Stages, Steps
<1>4. ASSUME NEW c \in Clients, ConsumeDisarmed(c) PROVE TypeOK'
  BY <1>4, EndRequestType DEF ConsumeDisarmed
<1>5. ASSUME NEW c \in Clients, MarkPreviewUsed(c) PROVE TypeOK'
  BY <1>5 DEF MarkPreviewUsed, Steps
<1>6. ASSUME NEW c \in Clients, ConfirmGate(c) PROVE TypeOK'
  BY <1>6 DEF ConfirmGate, Steps
<1>7. ASSUME NEW c \in Clients, Claim(c) PROVE TypeOK'
  BY <1>7, InsertRowType DEF Claim, Steps, Overtaken
<1>8. ASSUME NEW c \in Clients, ClaimCancelled(c) PROVE TypeOK'
  BY <1>8, EndRequestType, InsertRowType DEF ClaimCancelled, Overtaken
<1>9. ASSUME NEW c \in Clients, SetLeverage(c) PROVE TypeOK'
  BY <1>9 DEF SetLeverage, Steps
<1>10. ASSUME NEW c \in Clients, MarkSubmissionStarted(c) PROVE TypeOK'
  BY <1>10 DEF MarkSubmissionStarted, Steps
<1>11. ASSUME NEW c \in Clients, MarkSubmissionFails(c) PROVE TypeOK'
  BY <1>11 DEF MarkSubmissionFails, Steps
<1>12. ASSUME NEW c \in Clients, Undo(c) PROVE TypeOK'
  BY <1>12, EndRequestType DEF Undo, DeleteRow
<1>13. ASSUME NEW c \in Clients, PlaceOrder(c) PROVE TypeOK'
  BY <1>13 DEF PlaceOrder, Steps, Statuses
<1>14. ASSUME NEW c \in Clients, ReplyPlaced(c) PROVE TypeOK'
  BY <1>14 DEF ReplyPlaced, Steps
<1>15. ASSUME NEW c \in Clients, ReplyRefused(c) PROVE TypeOK'
  BY <1>15 DEF ReplyRefused, Steps, Statuses
<1>16. ASSUME NEW c \in Clients, ReplyUncertain(c) PROVE TypeOK'
  BY <1>16 DEF ReplyUncertain, Steps
<1>17. ASSUME NEW c \in Clients, Recovered(c) PROVE TypeOK'
  BY <1>17 DEF Recovered, Steps
<1>18. ASSUME NEW c \in Clients, OutcomeUnknown(c) PROVE TypeOK'
  BY <1>18, EndRequestType DEF OutcomeUnknown
<1>19. ASSUME NEW c \in Clients, PostReconcile(c) PROVE TypeOK'
  BY <1>19 DEF PostReconcile, Steps, Kinds, Views
<1>20. ASSUME NEW c \in Clients, PostDone(c) PROVE TypeOK'
  BY <1>20, EndRequestType DEF PostDone
<1>21. ASSUME NEW c \in Clients, Disclose(c) PROVE TypeOK'
  BY <1>21, EndRequestType DEF Disclose, Shape, Roles
<1>22. ASSUME NEW c \in Clients, Discard(c) PROVE TypeOK'
  BY <1>22, EndRequestType DEF Discard
<1>23. ASSUME NEW c \in Clients, ReadPositions(c) PROVE TypeOK'
  BY <1>23 DEF ReadPositions, Steps, Views
<1>24. ASSUME NEW c \in Clients, ReadOrders(c) PROVE TypeOK'
  BY <1>24 DEF ReadOrders, Steps
<1>25. ASSUME NEW c \in Clients, ReadNoRow(c) PROVE TypeOK'
  BY <1>25, EndRequestType DEF ReadNoRow, Steps
<1>26. ASSUME NEW c \in Clients, ReadRow(c) PROVE TypeOK'
  BY <1>26 DEF ReadRow, Steps
<1>27. ASSUME NEW c \in Clients, LookUp(c) PROVE TypeOK'
  BY <1>27 DEF LookUp, Steps, Accounted
<1>28. ASSUME NEW c \in Clients, BindEntryProposal(c) PROVE TypeOK'
  BY <1>28 DEF BindEntryProposal, Steps
<1>29. ASSUME NEW c \in Clients, ReleaseReconciled(c) PROVE TypeOK'
  BY <1>29, EndRequestType DEF ReleaseReconciled, Steps, DeleteRow, Overtaken
<1>30. ASSUME NEW c \in Clients, Fail(c) PROVE TypeOK'
  BY <1>30, EndRequestType DEF Fail
<1>31. ASSUME NEW c \in Clients, NEW o \in Oids, StartConfirm(c, o) PROVE TypeOK'
  BY <1>31 DEF StartConfirm, Steps, Kinds
<1>32. ASSUME NEW c \in Clients, NEW o \in Oids, CreateToken(c, o) PROVE TypeOK'
  BY <1>32 DEF CreateToken, Steps, Stages
<1>33. ASSUME NEW o \in Oids, Accept(o) PROVE TypeOK'
  BY <1>33 DEF Accept, Statuses
<1>34. ASSUME NEW o \in Oids, Fill(o) PROVE TypeOK'
  <2>1. pid' \in Nat /\ hold' \in Nat /\ opener' \in [Pids -> Oids \cup {NoOid}]
    BY <1>34 DEF Fill, Enter
  <2>2. ord' \in [Oids -> Statuses] /\ deal' \in [Oids -> Nat] /\ ordPid' \in [Oids -> Nat]
    BY <1>34, <2>1 DEF Fill, Statuses
  <2> QED BY <1>34, <2>1, <2>2 DEF Fill
<1>35. ASSUME NEW o \in Oids, CancelOrder(o) PROVE TypeOK'
  BY <1>35 DEF CancelOrder, Statuses
<1>36. ASSUME Reduce PROVE TypeOK'
  BY <1>36 DEF Reduce
<1>37. ASSUME ExternalEntry PROVE TypeOK'
  BY <1>37 DEF ExternalEntry, Enter
<1>38. ASSUME ViewCatchesUp PROVE TypeOK'
  BY <1>38 DEF ViewCatchesUp, Account, Views
<1>39. ASSUME Expire PROVE TypeOK'
  BY <1>39 DEF Expire
<1>40. ASSUME Restart PROVE TypeOK'
  BY <1>40 DEF Restart, Steps, Kinds, Views, Blank
<1>41. CASE UNCHANGED vars
  BY <1>41
<1> QED
  BY <1>1, <1>2, <1>3, <1>4, <1>5, <1>6, <1>7, <1>8, <1>9, <1>10, <1>11,
     <1>12, <1>13, <1>14, <1>15, <1>16, <1>17, <1>18, <1>19, <1>20, <1>21,
     <1>22, <1>23, <1>24, <1>25, <1>26, <1>27, <1>28, <1>29, <1>30, <1>31,
     <1>32, <1>33, <1>34, <1>35, <1>36, <1>37, <1>38, <1>39, <1>40, <1>41 DEF
     Next, Preview, Confirm, Reconcile, Exchange
-----------------------------------------------------------------------------
(* Reservation discipline *)

\* c inserts its row alone: it holds the lock, so every other Confirm waits,
\* and no request judges c's oid yet.
Alone(c) ==
  /\ mine[c] \in Oids /\ lock = c /\ kind[c] = "confirm" /\ resv = NoOid
  /\ stage[mine[c]] = "consumed" /\ ord[mine[c]] = "none"
  /\ \A d \in Clients : pc[d] \in {"lookup", "bind", "release"} => row[d] # mine[c]
  /\ \A d \in Clients \ {c} : kind[d] = "confirm" => pc[d] = "wait"

\* The claim is made under the trade lock, for a consumed token.
LEMMA ClaimContext ==
  ASSUME TypeOK, Shape, Ledger, NEW c \in Clients, InsertRow(c)
  PROVE  Alone(c)
<1> USE AbsentAssumption
    DEF TypeOK, Shape, Roles, Rows, Tickets, Ledger, ConfirmSteps, AfterClaim, Reconciling
<1>1. pc[c] = "claim" /\ resv = NoOid
  BY DEF InsertRow
<1>2. /\ mine[c] \in Oids /\ lock = c /\ kind[c] = "confirm"
      /\ stage[mine[c]] = "consumed" /\ ord[mine[c]] = "none"
  BY <1>1
<1> QED BY <1>1, <1>2 DEF Alone

\* What a monitor's or post-placement reconcile does when it removes the row.
ReleasedAndDone(c) ==
  /\ resv = row[c] /\ resv' = NoOid /\ phase' = "none" /\ pc[c] = "release"
  /\ UNCHANGED <<exchange, pre, link, token, shown, stage>>
  /\ pc' = [pc EXCEPT ![c] = "idle"] /\ kind' = [kind EXCEPT ![c] = "none"]
  /\ snap' = [snap EXCEPT ![c] = Blank]
  /\ \A d \in Clients \ {c} : mine'[d] = mine[d] /\ row'[d] = row[d]
  /\ lock # c => lock' = lock
  /\ stale \ {c} \subseteq stale' /\ raced \subseteq raced'
  /\ raced' = {} /\ deal[resv] > 0 =>
       /\ c \notin stale
       /\ \A d \in Clients \ {c} : pc[d] \in {"readP", "row"} => d \in stale'

\* The effect of the DELETE at the end of such a reconcile.
LEMMA ReleaseEffect ==
  ASSUME TypeOK, NEW c \in Clients, ReleaseReconciled(c), resv = row[c],
         kind[c] \notin {"preview", "confirm"}
  PROVE  ReleasedAndDone(c)
<1> USE DEF ReleaseReconciled, ReleasedAndDone
<1>1. DeleteRow(row[c]) /\ EndRequest(c) /\ pc[c] = "release"
      /\ UNCHANGED <<exchange, pre, link, token, shown, stage>>
  OBVIOUS
<1>2. CASE deal[resv] > 0
  <2>1. stale' = (stale \cup Overtaken(c)) \ {c} /\ raced \subseteq raced'
        /\ (raced' = {} => c \notin stale)
    BY <1>2
  <2> QED BY <1>1, <2>1 DEF DeleteRow, EndRequest, Overtaken, TypeOK
<1>3. CASE ~(deal[resv] > 0)
  <2>1. stale' = stale \ {c} /\ raced' = raced
    BY <1>3
  <2> QED BY <1>1, <1>3, <2>1 DEF DeleteRow, EndRequest, TypeOK
<1> QED BY <1>2, <1>3

\* Every step keeps the reservation discipline.
LEMMA GuardStep ==
  ASSUME TypeOK, Shape, Ledger, GuardedEntry, [Next]_vars
  PROVE  Shape' /\ Ledger' /\ GuardedEntry'
<1> USE AbsentAssumption DEF TypeOK, Views, Shape, Roles, Rows, Tickets,
   Ledger, GuardedEntry, exchange, database, request, vars, Goto,
   ConfirmSteps, AfterClaim, Reconciling, Blank, Account
<1>1. ASSUME NEW c \in Clients, StartPreview(c)
     PROVE  Shape' /\ Ledger' /\ GuardedEntry'
  BY <1>1 DEF StartPreview
<1>2. ASSUME NEW c \in Clients, StartMonitor(c)
     PROVE  Shape' /\ Ledger' /\ GuardedEntry'
  BY <1>2 DEF StartMonitor
<1>3. ASSUME NEW c \in Clients, Consume(c)
     PROVE  Shape' /\ Ledger' /\ GuardedEntry'
  BY <1>3 DEF Consume
<1>4. ASSUME NEW c \in Clients, ConsumeDisarmed(c)
     PROVE  Shape' /\ Ledger' /\ GuardedEntry'
  BY <1>4 DEF ConsumeDisarmed, EndRequest
<1>5. ASSUME NEW c \in Clients, MarkPreviewUsed(c)
     PROVE  Shape' /\ Ledger' /\ GuardedEntry'
  BY <1>5 DEF MarkPreviewUsed
<1>6. ASSUME NEW c \in Clients, ConfirmGate(c)
     PROVE  Shape' /\ Ledger' /\ GuardedEntry'
  BY <1>6 DEF ConfirmGate
<1>7. ASSUME NEW c \in Clients, Claim(c)
     PROVE  Shape' /\ Ledger' /\ GuardedEntry'
  <2>1. InsertRow(c) /\ Alone(c)
    BY <1>7, ClaimContext DEF Claim
  <2> QED BY <1>7, <2>1 DEF Claim, InsertRow, Alone, Overtaken
<1>8. ASSUME NEW c \in Clients, ClaimCancelled(c)
     PROVE  Shape' /\ Ledger' /\ GuardedEntry'
  <2>1. InsertRow(c) /\ Alone(c)
    BY <1>8, ClaimContext DEF ClaimCancelled
  <2> QED BY <1>8, <2>1 DEF ClaimCancelled, InsertRow, Alone, EndRequest, Overtaken
<1>9. ASSUME NEW c \in Clients, SetLeverage(c)
     PROVE  Shape' /\ Ledger' /\ GuardedEntry'
  BY <1>9 DEF SetLeverage
<1>10. ASSUME NEW c \in Clients, MarkSubmissionStarted(c)
     PROVE  Shape' /\ Ledger' /\ GuardedEntry'
  BY <1>10 DEF MarkSubmissionStarted
<1>11. ASSUME NEW c \in Clients, MarkSubmissionFails(c)
     PROVE  Shape' /\ Ledger' /\ GuardedEntry'
  BY <1>11 DEF MarkSubmissionFails
<1>12. ASSUME NEW c \in Clients, Undo(c)
     PROVE  Shape' /\ Ledger' /\ GuardedEntry'
  BY <1>12 DEF Undo, EndRequest, DeleteRow
<1>13. ASSUME NEW c \in Clients, PlaceOrder(c)
     PROVE  Shape' /\ Ledger' /\ GuardedEntry'
  BY <1>13 DEF PlaceOrder
<1>14. ASSUME NEW c \in Clients, ReplyPlaced(c)
     PROVE  Shape' /\ Ledger' /\ GuardedEntry'
  BY <1>14 DEF ReplyPlaced
<1>15. ASSUME NEW c \in Clients, ReplyRefused(c)
     PROVE  Shape' /\ Ledger' /\ GuardedEntry'
  BY <1>15 DEF ReplyRefused
<1>16. ASSUME NEW c \in Clients, ReplyUncertain(c)
     PROVE  Shape' /\ Ledger' /\ GuardedEntry'
  BY <1>16 DEF ReplyUncertain
<1>17. ASSUME NEW c \in Clients, Recovered(c)
     PROVE  Shape' /\ Ledger' /\ GuardedEntry'
  BY <1>17 DEF Recovered
<1>18. ASSUME NEW c \in Clients, OutcomeUnknown(c)
     PROVE  Shape' /\ Ledger' /\ GuardedEntry'
  BY <1>18 DEF OutcomeUnknown, EndRequest
<1>19. ASSUME NEW c \in Clients, PostReconcile(c)
     PROVE  Shape' /\ Ledger' /\ GuardedEntry'
  BY <1>19 DEF PostReconcile
<1>20. ASSUME NEW c \in Clients, PostDone(c)
     PROVE  Shape' /\ Ledger' /\ GuardedEntry'
  BY <1>20 DEF PostDone, EndRequest
<1>21. ASSUME NEW c \in Clients, Disclose(c)
     PROVE  Shape' /\ Ledger' /\ GuardedEntry'
  BY <1>21 DEF Disclose, EndRequest
<1>22. ASSUME NEW c \in Clients, Discard(c)
     PROVE  Shape' /\ Ledger' /\ GuardedEntry'
  BY <1>22 DEF Discard, EndRequest
<1>23. ASSUME NEW c \in Clients, ReadPositions(c)
     PROVE  Shape' /\ Ledger' /\ GuardedEntry'
  BY <1>23 DEF ReadPositions
<1>24. ASSUME NEW c \in Clients, ReadOrders(c)
     PROVE  Shape' /\ Ledger' /\ GuardedEntry'
  BY <1>24 DEF ReadOrders
<1>25. ASSUME NEW c \in Clients, ReadNoRow(c)
     PROVE  Shape' /\ Ledger' /\ GuardedEntry'
  <2>1. CASE kind[c] \in {"preview", "confirm"}
    BY <1>25, <2>1 DEF ReadNoRow
  <2>2. CASE kind[c] \notin {"preview", "confirm"}
    <3>1. EndRequest(c) /\ stale' = stale \ {c} /\ pc[c] = "row"
          /\ UNCHANGED <<exchange, database, token, shown, stage, raced>>
      BY <1>25, <2>2 DEF ReadNoRow
    <3> QED BY <3>1, <2>2 DEF EndRequest
  <2> QED BY <2>1, <2>2
<1>26. ASSUME NEW c \in Clients, ReadRow(c)
     PROVE  Shape' /\ Ledger' /\ GuardedEntry'
  BY <1>26 DEF ReadRow
<1>27. ASSUME NEW c \in Clients, LookUp(c)
     PROVE  Shape' /\ Ledger' /\ GuardedEntry'
  BY <1>27 DEF LookUp, Accounted
<1>28. ASSUME NEW c \in Clients, BindEntryProposal(c)
     PROVE  Shape' /\ Ledger' /\ GuardedEntry'
  BY <1>28 DEF BindEntryProposal
<1>29. ASSUME NEW c \in Clients, ReleaseReconciled(c)
     PROVE  Shape' /\ Ledger' /\ GuardedEntry'
  <2>1. CASE kind[c] \in {"preview", "confirm"}
    BY <1>29, <2>1 DEF ReleaseReconciled, DeleteRow, Overtaken
  <2>2. CASE kind[c] \notin {"preview", "confirm"} /\ resv = row[c]
    <3>1. ReleasedAndDone(c)
      BY <1>29, <2>2, ReleaseEffect
    <3> QED BY <2>2, <3>1 DEF ReleasedAndDone
  <2>3. CASE kind[c] \notin {"preview", "confirm"} /\ resv # row[c]
    <3>1. EndRequest(c) /\ stale' = stale \ {c} /\ pc[c] = "release" /\ raced' = raced
          /\ UNCHANGED <<exchange, database, token, shown, stage>>
      BY <1>29, <2>3 DEF ReleaseReconciled, DeleteRow
    <3> QED BY <3>1, <2>3 DEF EndRequest
  <2> QED BY <2>1, <2>2, <2>3
<1>30. ASSUME NEW c \in Clients, Fail(c)
     PROVE  Shape' /\ Ledger' /\ GuardedEntry'
  BY <1>30 DEF Fail, EndRequest
<1>31. ASSUME NEW c \in Clients, NEW o \in Oids, StartConfirm(c, o)
     PROVE  Shape' /\ Ledger' /\ GuardedEntry'
  BY <1>31 DEF StartConfirm
<1>32. ASSUME NEW c \in Clients, NEW o \in Oids, CreateToken(c, o)
     PROVE  Shape' /\ Ledger' /\ GuardedEntry'
  BY <1>32 DEF CreateToken
<1>33. ASSUME NEW o \in Oids, Accept(o)
     PROVE  Shape' /\ Ledger' /\ GuardedEntry'
  BY <1>33 DEF Accept
<1>34. ASSUME NEW o \in Oids, Fill(o)
     PROVE  Shape' /\ Ledger' /\ GuardedEntry'
  BY <1>34 DEF Fill, Enter
<1>35. ASSUME NEW o \in Oids, CancelOrder(o)
     PROVE  Shape' /\ Ledger' /\ GuardedEntry'
  BY <1>35 DEF CancelOrder
<1>36. ASSUME Reduce
     PROVE  Shape' /\ Ledger' /\ GuardedEntry'
  BY <1>36 DEF Reduce
<1>37. ASSUME ExternalEntry
     PROVE  Shape' /\ Ledger' /\ GuardedEntry'
  BY <1>37 DEF ExternalEntry, Enter
<1>38. ASSUME ViewCatchesUp
     PROVE  Shape' /\ Ledger' /\ GuardedEntry'
  BY <1>38 DEF ViewCatchesUp, Account
<1>39. ASSUME Expire
     PROVE  Shape' /\ Ledger' /\ GuardedEntry'
  BY <1>39 DEF Expire
<1>40. ASSUME Restart
     PROVE  Shape' /\ Ledger' /\ GuardedEntry'
  BY <1>40 DEF Restart
<1>41. CASE UNCHANGED vars
  BY <1>41
<1> QED
  BY <1>1, <1>2, <1>3, <1>4, <1>5, <1>6, <1>7, <1>8, <1>9, <1>10, <1>11,
     <1>12, <1>13, <1>14, <1>15, <1>16, <1>17, <1>18, <1>19, <1>20, <1>21,
     <1>22, <1>23, <1>24, <1>25, <1>26, <1>27, <1>28, <1>29, <1>30, <1>31,
     <1>32, <1>33, <1>34, <1>35, <1>36, <1>37, <1>38, <1>39, <1>40, <1>41 DEF
     Next, Preview, Confirm, Reconcile, Exchange

-----------------------------------------------------------------------------
(* Risk budget *)

\* Every step keeps the order of past and present, and what was judged on it.
LEMMA PastStep ==
  ASSUME GuardInv, Fills, Past, Judged, [Next]_vars
  PROVE  Fills' /\ Past' /\ Judged'
<1> USE AbsentAssumption, VolAssumption DEF GuardInv, Fills, Past, Judged,
   ConfirmGated, LookedUp, WithinBudget, TypeOK, Views, Shape, Roles, Rows,
   Tickets, Ledger, GuardedEntry, exchange, database, request, vars, Goto,
   ConfirmSteps, AfterClaim, Reconciling, Blank, Account
<1>1. ASSUME NEW c \in Clients, StartPreview(c) PROVE Fills' /\ Past' /\ Judged'
  BY <1>1 DEF StartPreview
<1>2. ASSUME NEW c \in Clients, StartMonitor(c) PROVE Fills' /\ Past' /\ Judged'
  BY <1>2 DEF StartMonitor
<1>3. ASSUME NEW c \in Clients, Consume(c) PROVE Fills' /\ Past' /\ Judged'
  BY <1>3 DEF Consume
<1>4. ASSUME NEW c \in Clients, ConsumeDisarmed(c) PROVE Fills' /\ Past' /\ Judged'
  BY <1>4 DEF ConsumeDisarmed, EndRequest
<1>5. ASSUME NEW c \in Clients, MarkPreviewUsed(c) PROVE Fills' /\ Past' /\ Judged'
  BY <1>5 DEF MarkPreviewUsed
<1>6. ASSUME NEW c \in Clients, ConfirmGate(c) PROVE Fills' /\ Past' /\ Judged'
  BY <1>6 DEF ConfirmGate
<1>7. ASSUME NEW c \in Clients, Claim(c) PROVE Fills' /\ Past' /\ Judged'
  <2>1. InsertRow(c) /\ Alone(c)
    BY <1>7, ClaimContext DEF Claim
  <2> QED BY <1>7, <2>1 DEF Claim, InsertRow, Alone, Overtaken
<1>8. ASSUME NEW c \in Clients, ClaimCancelled(c) PROVE Fills' /\ Past' /\ Judged'
  <2>1. InsertRow(c) /\ Alone(c)
    BY <1>8, ClaimContext DEF ClaimCancelled
  <2> QED BY <1>8, <2>1 DEF ClaimCancelled, InsertRow, Alone, EndRequest, Overtaken
<1>9. ASSUME NEW c \in Clients, SetLeverage(c) PROVE Fills' /\ Past' /\ Judged'
  BY <1>9 DEF SetLeverage
<1>10. ASSUME NEW c \in Clients, MarkSubmissionStarted(c) PROVE Fills' /\ Past' /\ Judged'
  BY <1>10 DEF MarkSubmissionStarted
<1>11. ASSUME NEW c \in Clients, MarkSubmissionFails(c) PROVE Fills' /\ Past' /\ Judged'
  BY <1>11 DEF MarkSubmissionFails
<1>12. ASSUME NEW c \in Clients, Undo(c) PROVE Fills' /\ Past' /\ Judged'
  BY <1>12 DEF Undo, EndRequest, DeleteRow
<1>13. ASSUME NEW c \in Clients, PlaceOrder(c) PROVE Fills' /\ Past' /\ Judged'
  BY <1>13 DEF PlaceOrder
<1>14. ASSUME NEW c \in Clients, ReplyPlaced(c) PROVE Fills' /\ Past' /\ Judged'
  BY <1>14 DEF ReplyPlaced
<1>15. ASSUME NEW c \in Clients, ReplyRefused(c) PROVE Fills' /\ Past' /\ Judged'
  BY <1>15 DEF ReplyRefused
<1>16. ASSUME NEW c \in Clients, ReplyUncertain(c) PROVE Fills' /\ Past' /\ Judged'
  BY <1>16 DEF ReplyUncertain
<1>17. ASSUME NEW c \in Clients, Recovered(c) PROVE Fills' /\ Past' /\ Judged'
  BY <1>17 DEF Recovered
<1>18. ASSUME NEW c \in Clients, OutcomeUnknown(c) PROVE Fills' /\ Past' /\ Judged'
  BY <1>18 DEF OutcomeUnknown, EndRequest
<1>19. ASSUME NEW c \in Clients, PostReconcile(c) PROVE Fills' /\ Past' /\ Judged'
  BY <1>19 DEF PostReconcile
<1>20. ASSUME NEW c \in Clients, PostDone(c) PROVE Fills' /\ Past' /\ Judged'
  BY <1>20 DEF PostDone, EndRequest
<1>21. ASSUME NEW c \in Clients, Disclose(c) PROVE Fills' /\ Past' /\ Judged'
  BY <1>21 DEF Disclose, EndRequest
<1>22. ASSUME NEW c \in Clients, Discard(c) PROVE Fills' /\ Past' /\ Judged'
  BY <1>22 DEF Discard, EndRequest
<1>23. ASSUME NEW c \in Clients, ReadPositions(c) PROVE Fills' /\ Past' /\ Judged'
  BY <1>23 DEF ReadPositions
<1>24. ASSUME NEW c \in Clients, ReadOrders(c) PROVE Fills' /\ Past' /\ Judged'
  BY <1>24 DEF ReadOrders
<1>25. ASSUME NEW c \in Clients, ReadNoRow(c) PROVE Fills' /\ Past' /\ Judged'
  <2>1. CASE kind[c] \in {"preview", "confirm"}
    BY <1>25, <2>1 DEF ReadNoRow
  <2>2. CASE kind[c] \notin {"preview", "confirm"}
    <3>1. EndRequest(c) /\ stale' = stale \ {c} /\ pc[c] = "row"
          /\ UNCHANGED <<exchange, database, token, shown, stage, raced>>
      BY <1>25, <2>2 DEF ReadNoRow
    <3> QED BY <3>1, <2>2 DEF EndRequest
  <2> QED BY <2>1, <2>2
<1>26. ASSUME NEW c \in Clients, ReadRow(c) PROVE Fills' /\ Past' /\ Judged'
  BY <1>26 DEF ReadRow
<1>27. ASSUME NEW c \in Clients, LookUp(c) PROVE Fills' /\ Past' /\ Judged'
  BY <1>27 DEF LookUp, Accounted
<1>28. ASSUME NEW c \in Clients, BindEntryProposal(c) PROVE Fills' /\ Past' /\ Judged'
  BY <1>28 DEF BindEntryProposal
<1>29. ASSUME NEW c \in Clients, ReleaseReconciled(c) PROVE Fills' /\ Past' /\ Judged'
  <2>1. CASE kind[c] \in {"preview", "confirm"}
    BY <1>29, <2>1 DEF ReleaseReconciled, DeleteRow, Overtaken
  <2>2. CASE kind[c] \notin {"preview", "confirm"} /\ resv = row[c]
    <3>1. ReleasedAndDone(c)
      BY <1>29, <2>2, ReleaseEffect
    <3> QED BY <2>2, <3>1 DEF ReleasedAndDone
  <2>3. CASE kind[c] \notin {"preview", "confirm"} /\ resv # row[c]
    <3>1. EndRequest(c) /\ stale' = stale \ {c} /\ pc[c] = "release" /\ raced' = raced
          /\ UNCHANGED <<exchange, database, token, shown, stage>>
      BY <1>29, <2>3 DEF ReleaseReconciled, DeleteRow
    <3> QED BY <3>1, <2>3 DEF EndRequest
  <2> QED BY <2>1, <2>2, <2>3
<1>30. ASSUME NEW c \in Clients, Fail(c) PROVE Fills' /\ Past' /\ Judged'
  BY <1>30 DEF Fail, EndRequest
<1>31. ASSUME NEW c \in Clients, NEW o \in Oids, StartConfirm(c, o) PROVE Fills' /\ Past' /\ Judged'
  BY <1>31 DEF StartConfirm
<1>32. ASSUME NEW c \in Clients, NEW o \in Oids, CreateToken(c, o) PROVE Fills' /\ Past' /\ Judged'
  BY <1>32 DEF CreateToken
<1>33. ASSUME NEW o \in Oids, Accept(o) PROVE Fills' /\ Past' /\ Judged'
  BY <1>33 DEF Accept
<1>34. ASSUME NEW o \in Oids, Fill(o) PROVE Fills' /\ Past' /\ Judged'
  BY <1>34 DEF Fill, Enter
<1>35. ASSUME NEW o \in Oids, CancelOrder(o) PROVE Fills' /\ Past' /\ Judged'
  BY <1>35 DEF CancelOrder
<1>36. ASSUME Reduce PROVE Fills' /\ Past' /\ Judged'
  BY <1>36 DEF Reduce
<1>37. ASSUME ExternalEntry PROVE Fills' /\ Past' /\ Judged'
  BY <1>37 DEF ExternalEntry, Enter
<1>38. ASSUME ViewCatchesUp PROVE Fills' /\ Past' /\ Judged'
  BY <1>38 DEF ViewCatchesUp, Account
<1>39. ASSUME Expire PROVE Fills' /\ Past' /\ Judged'
  BY <1>39 DEF Expire
<1>40. ASSUME Restart PROVE Fills' /\ Past' /\ Judged'
  BY <1>40 DEF Restart
<1>41. CASE UNCHANGED vars
  BY <1>41
<1> QED
  BY <1>1, <1>2, <1>3, <1>4, <1>5, <1>6, <1>7, <1>8, <1>9, <1>10, <1>11,
     <1>12, <1>13, <1>14, <1>15, <1>16, <1>17, <1>18, <1>19, <1>20, <1>21,
     <1>22, <1>23, <1>24, <1>25, <1>26, <1>27, <1>28, <1>29, <1>30, <1>31,
     <1>32, <1>33, <1>34, <1>35, <1>36, <1>37, <1>38, <1>39, <1>40, <1>41 DEF
     Next, Preview, Confirm, Reconcile, Exchange

\* A race, once recorded, stays recorded.
LEMMA RacedGrows == ASSUME [Next]_vars, raced' = {} PROVE raced = {}
<1>1. ASSUME NEW c \in Clients, InsertRow(c) PROVE raced = {}
  BY <1>1 DEF InsertRow
<1>2. ASSUME NEW c \in Clients, ReleaseReconciled(c) PROVE raced = {}
  BY <1>2 DEF ReleaseReconciled
<1>3. \/ UNCHANGED raced
      \/ \E c \in Clients : InsertRow(c) \/ ReleaseReconciled(c)
  BY DEF Next, vars, Preview, Confirm, Reconcile, Exchange, StartPreview, StartMonitor,
     Consume, ConsumeDisarmed, MarkPreviewUsed, ConfirmGate, Claim, ClaimCancelled,
     SetLeverage, MarkSubmissionStarted, MarkSubmissionFails, Undo, PlaceOrder, ReplyPlaced,
     ReplyRefused, ReplyUncertain, Recovered, OutcomeUnknown, PostReconcile, PostDone,
     Disclose, Discard, CreateToken, StartConfirm, ReadPositions, ReadOrders, ReadNoRow,
     ReadRow, LookUp, BindEntryProposal, Fail, Accept, Fill, CancelOrder, Reduce,
     ExternalEntry, ViewCatchesUp, Expire, Restart
<1> QED BY <1>1, <1>2, <1>3

\* As long as no decision used an overtaken snapshot, every step keeps the
\* bounds that carry the risk budget.
LEMMA FreshStep ==
  ASSUME GuardInv, Fills, Past, Judged, FreshInv, raced' = {}, [Next]_vars
  PROVE  FreshInv'
<1> USE AbsentAssumption, VolAssumption, BudgetAssumption DEF GuardInv, Fills,
   Past, Judged, ConfirmGated, LookedUp, WithinBudget, FreshInv, ClaimBounds,
   BudgetHeld, Snapshots, Confirms, SnapBeforeRow, SnapOfRow,
   ConfirmReconciles, ConfirmDecides, Fresh, Unfilled, Outstanding, TypeOK,
   Views, Shape, Roles, Rows, Tickets, Ledger, GuardedEntry, exchange,
   database, request, vars, Goto, ConfirmSteps, AfterClaim, Reconciling,
   Blank, Account
<1>1. ASSUME NEW c \in Clients, StartPreview(c) PROVE FreshInv'
  BY <1>1 DEF StartPreview
<1>2. ASSUME NEW c \in Clients, StartMonitor(c) PROVE FreshInv'
  BY <1>2 DEF StartMonitor
<1>3. ASSUME NEW c \in Clients, Consume(c) PROVE FreshInv'
  BY <1>3 DEF Consume
<1>4. ASSUME NEW c \in Clients, ConsumeDisarmed(c) PROVE FreshInv'
  BY <1>4 DEF ConsumeDisarmed, EndRequest
<1>5. ASSUME NEW c \in Clients, MarkPreviewUsed(c) PROVE FreshInv'
  BY <1>5 DEF MarkPreviewUsed
<1>6. ASSUME NEW c \in Clients, ConfirmGate(c) PROVE FreshInv'
  BY <1>6 DEF ConfirmGate
<1>7. ASSUME NEW c \in Clients, Claim(c) PROVE FreshInv'
  <2>1. InsertRow(c) /\ Alone(c)
    BY <1>7, ClaimContext DEF Claim
  <2> QED BY <1>7, <2>1 DEF Claim, InsertRow, Alone, Overtaken
<1>8. ASSUME NEW c \in Clients, ClaimCancelled(c) PROVE FreshInv'
  <2>1. InsertRow(c) /\ Alone(c)
    BY <1>8, ClaimContext DEF ClaimCancelled
  <2> QED BY <1>8, <2>1 DEF ClaimCancelled, InsertRow, Alone, EndRequest, Overtaken
<1>9. ASSUME NEW c \in Clients, SetLeverage(c) PROVE FreshInv'
  BY <1>9 DEF SetLeverage
<1>10. ASSUME NEW c \in Clients, MarkSubmissionStarted(c) PROVE FreshInv'
  BY <1>10 DEF MarkSubmissionStarted
<1>11. ASSUME NEW c \in Clients, MarkSubmissionFails(c) PROVE FreshInv'
  BY <1>11 DEF MarkSubmissionFails
<1>12. ASSUME NEW c \in Clients, Undo(c) PROVE FreshInv'
  BY <1>12 DEF Undo, EndRequest, DeleteRow
<1>13. ASSUME NEW c \in Clients, PlaceOrder(c) PROVE FreshInv'
  BY <1>13 DEF PlaceOrder
<1>14. ASSUME NEW c \in Clients, ReplyPlaced(c) PROVE FreshInv'
  BY <1>14 DEF ReplyPlaced
<1>15. ASSUME NEW c \in Clients, ReplyRefused(c) PROVE FreshInv'
  BY <1>15 DEF ReplyRefused
<1>16. ASSUME NEW c \in Clients, ReplyUncertain(c) PROVE FreshInv'
  BY <1>16 DEF ReplyUncertain
<1>17. ASSUME NEW c \in Clients, Recovered(c) PROVE FreshInv'
  BY <1>17 DEF Recovered
<1>18. ASSUME NEW c \in Clients, OutcomeUnknown(c) PROVE FreshInv'
  BY <1>18 DEF OutcomeUnknown, EndRequest
<1>19. ASSUME NEW c \in Clients, PostReconcile(c) PROVE FreshInv'
  BY <1>19 DEF PostReconcile
<1>20. ASSUME NEW c \in Clients, PostDone(c) PROVE FreshInv'
  BY <1>20 DEF PostDone, EndRequest
<1>21. ASSUME NEW c \in Clients, Disclose(c) PROVE FreshInv'
  BY <1>21 DEF Disclose, EndRequest
<1>22. ASSUME NEW c \in Clients, Discard(c) PROVE FreshInv'
  BY <1>22 DEF Discard, EndRequest
<1>23. ASSUME NEW c \in Clients, ReadPositions(c) PROVE FreshInv'
  BY <1>23 DEF ReadPositions
<1>24. ASSUME NEW c \in Clients, ReadOrders(c) PROVE FreshInv'
  BY <1>24 DEF ReadOrders
<1>25. ASSUME NEW c \in Clients, ReadNoRow(c) PROVE FreshInv'
  <2>1. CASE kind[c] \in {"preview", "confirm"}
    BY <1>25, <2>1 DEF ReadNoRow
  <2>2. CASE kind[c] \notin {"preview", "confirm"}
    <3>1. EndRequest(c) /\ stale' = stale \ {c} /\ pc[c] = "row"
          /\ UNCHANGED <<exchange, database, token, shown, stage, raced>>
      BY <1>25, <2>2 DEF ReadNoRow
    <3> QED BY <3>1, <2>2 DEF EndRequest
  <2> QED BY <2>1, <2>2
<1>26. ASSUME NEW c \in Clients, ReadRow(c) PROVE FreshInv'
  BY <1>26 DEF ReadRow
<1>27. ASSUME NEW c \in Clients, LookUp(c) PROVE FreshInv'
  BY <1>27 DEF LookUp, Accounted
<1>28. ASSUME NEW c \in Clients, BindEntryProposal(c) PROVE FreshInv'
  BY <1>28 DEF BindEntryProposal
<1>29. ASSUME NEW c \in Clients, ReleaseReconciled(c) PROVE FreshInv'
  <2>1. CASE kind[c] \in {"preview", "confirm"}
    BY <1>29, <2>1 DEF ReleaseReconciled, DeleteRow, Overtaken
  <2>2. CASE kind[c] \notin {"preview", "confirm"} /\ resv = row[c]
    <3>1. ReleasedAndDone(c)
      BY <1>29, <2>2, ReleaseEffect
    <3>2. hold <= view.hold + ext
      <4>1. CASE deal[resv] > 0
        <5>1. c \notin stale /\ raced = {} /\ ord[resv] = "done"
          BY <2>2, <3>1, <4>1 DEF ReleasedAndDone
        <5>2. /\ snap[c].hold >= pre[resv] + deal[resv]
              /\ snap[c].hold <= pre[resv] + snap[c].deal[resv] + snap[c].ext
              /\ view = snap[c]
                   \/ hold <= view.hold + (deal[resv] - view.deal[resv]) + (ext - view.ext)
          BY <2>2, <3>1, <5>1 DEF ReleasedAndDone
        <5>3. /\ snap[c].deal[resv] <= view.deal[resv] /\ view.deal[resv] <= deal[resv]
              /\ snap[c].ext <= view.ext /\ view.ext <= ext
              /\ hold <= pre[resv] + deal[resv] + ext
          BY <2>2, <3>1 DEF ReleasedAndDone
        <5>4. /\ pre[resv] \in Nat /\ deal[resv] \in Nat /\ snap[c].deal[resv] \in Nat
              /\ view.deal[resv] \in Nat /\ view.hold \in Nat /\ view.ext \in Nat
              /\ snap[c].hold \in Nat /\ snap[c].ext \in Nat
          BY <2>2, <3>1 DEF ReleasedAndDone
        <5> QED BY <5>2, <5>3, <5>4
      <4>2. CASE ~(deal[resv] > 0)
        BY <2>2, <3>1, <4>2 DEF ReleasedAndDone
      <4> QED BY <4>1, <4>2
    <3>3. ClaimBounds' /\ BudgetHeld'
      BY <2>2, <3>1, <3>2 DEF ReleasedAndDone
    <3>4. Snapshots'
      BY <2>2, <3>1 DEF ReleasedAndDone
    <3>5. Confirms'
      BY <2>2, <3>1 DEF ReleasedAndDone
    <3> QED BY <3>3, <3>4, <3>5
  <2>3. CASE kind[c] \notin {"preview", "confirm"} /\ resv # row[c]
    <3>1. EndRequest(c) /\ stale' = stale \ {c} /\ pc[c] = "release" /\ raced' = raced
          /\ UNCHANGED <<exchange, database, token, shown, stage>>
      BY <1>29, <2>3 DEF ReleaseReconciled, DeleteRow
    <3> QED BY <3>1, <2>3 DEF EndRequest
  <2> QED BY <2>1, <2>2, <2>3
<1>30. ASSUME NEW c \in Clients, Fail(c) PROVE FreshInv'
  BY <1>30 DEF Fail, EndRequest
<1>31. ASSUME NEW c \in Clients, NEW o \in Oids, StartConfirm(c, o) PROVE FreshInv'
  BY <1>31 DEF StartConfirm
<1>32. ASSUME NEW c \in Clients, NEW o \in Oids, CreateToken(c, o) PROVE FreshInv'
  BY <1>32 DEF CreateToken
<1>33. ASSUME NEW o \in Oids, Accept(o) PROVE FreshInv'
  BY <1>33 DEF Accept
<1>34. ASSUME NEW o \in Oids, Fill(o) PROVE FreshInv'
  BY <1>34 DEF Fill, Enter
<1>35. ASSUME NEW o \in Oids, CancelOrder(o) PROVE FreshInv'
  BY <1>35 DEF CancelOrder
<1>36. ASSUME Reduce PROVE FreshInv'
  BY <1>36 DEF Reduce
<1>37. ASSUME ExternalEntry PROVE FreshInv'
  BY <1>37 DEF ExternalEntry, Enter
<1>38. ASSUME ViewCatchesUp PROVE FreshInv'
  BY <1>38 DEF ViewCatchesUp, Account
<1>39. ASSUME Expire PROVE FreshInv'
  BY <1>39 DEF Expire
<1>40. ASSUME Restart PROVE FreshInv'
  BY <1>40 DEF Restart
<1>41. CASE UNCHANGED vars
  BY <1>41
<1> QED
  BY <1>1, <1>2, <1>3, <1>4, <1>5, <1>6, <1>7, <1>8, <1>9, <1>10, <1>11,
     <1>12, <1>13, <1>14, <1>15, <1>16, <1>17, <1>18, <1>19, <1>20, <1>21,
     <1>22, <1>23, <1>24, <1>25, <1>26, <1>27, <1>28, <1>29, <1>30, <1>31,
     <1>32, <1>33, <1>34, <1>35, <1>36, <1>37, <1>38, <1>39, <1>40, <1>41 DEF
     Next, Preview, Confirm, Reconcile, Exchange

\* Only sending, an answer and the exchange change the state of an order.
LEMMA OrdersMove ==
  ASSUME [Next]_vars
  PROVE  \/ UNCHANGED ord
         \/ \E c \in Clients : PlaceOrder(c) \/ ReplyRefused(c)
         \/ \E o \in Oids : Accept(o) \/ Fill(o) \/ CancelOrder(o)
  BY DEF Next, vars, exchange, Preview, Confirm, Reconcile, Exchange, StartPreview,
     StartMonitor, Consume, ConsumeDisarmed, MarkPreviewUsed, ConfirmGate, Claim,
     ClaimCancelled, InsertRow, SetLeverage, MarkSubmissionStarted, MarkSubmissionFails,
     Undo, ReplyPlaced, ReplyUncertain, Recovered, OutcomeUnknown, PostReconcile, PostDone,
     Disclose, Discard, CreateToken, StartConfirm, ReadPositions, ReadOrders, ReadNoRow,
     ReadRow, LookUp, BindEntryProposal, ReleaseReconciled, Fail, Reduce, ExternalEntry,
     ViewCatchesUp, Expire, Restart

\* An order enters flight only from "none".
LEMMA OnceStep ==
  ASSUME GuardInv, [Next]_vars, NEW o \in Oids, ord[o] # "none", ord'[o] = "flight"
  PROVE  ord[o] = "flight"
<1> USE DEF GuardInv, TypeOK
<1>1. ASSUME NEW c \in Clients, PlaceOrder(c) PROVE ord[o] = "flight"
  <2>1. ord[mine[c]] = "none"
    BY <1>1 DEF PlaceOrder, Shape, Roles, Tickets, ConfirmSteps
  <2>2. o # mine[c]
    BY <2>1
  <2> QED BY <1>1, <2>2 DEF PlaceOrder
<1>2. ASSUME NEW c \in Clients, ReplyRefused(c) PROVE ord[o] = "flight"
  BY <1>2 DEF ReplyRefused
<1>3. ASSUME NEW p \in Oids, Accept(p) \/ Fill(p) \/ CancelOrder(p) PROVE ord[o] = "flight"
  BY <1>3 DEF Accept, Fill, CancelOrder
<1> QED BY <1>1, <1>2, <1>3, OrdersMove

-----------------------------------------------------------------------------
(* Single steps: orders and the reservation row *)

\* Only a claim, an undo, a reconcile and a restart change the reservation row.
LEMMA RowMoves ==
  ASSUME [Next]_vars
  PROVE  \/ UNCHANGED resv
         \/ \E c \in Clients : InsertRow(c) \/ Undo(c) \/ ReleaseReconciled(c)
         \/ Restart
  BY DEF Next, vars, database, Preview, Confirm, Reconcile, Exchange, StartPreview,
     StartMonitor, Consume, ConsumeDisarmed, MarkPreviewUsed, ConfirmGate, Claim,
     ClaimCancelled, SetLeverage, MarkSubmissionStarted, MarkSubmissionFails, PlaceOrder,
     ReplyPlaced, ReplyRefused, ReplyUncertain, Recovered, OutcomeUnknown, PostReconcile,
     PostDone, Disclose, Discard, CreateToken, StartConfirm, ReadPositions, ReadOrders,
     ReadNoRow, ReadRow, LookUp, BindEntryProposal, Fail, Accept, Fill, CancelOrder, Reduce,
     ExternalEntry, ViewCatchesUp, Expire

\* Every step is a step of the abstract authority or leaves it alone.
LEMMA AuthorityStep ==
  ASSUME GuardInv, [Next]_vars
  PROVE  [Authority!Next]_(Authority!vars)
<1> USE AbsentAssumption DEF GuardInv, TypeOK, Authority!Next, Authority!vars, Authority!Grant,
        Authority!Send, Authority!Accept, Authority!Finish, Authority!GiveUp, AuthorityState, exchange
<1>1. ASSUME NEW c \in Clients, InsertRow(c) PROVE Authority!Grant(mine[c])
  BY <1>1, ClaimContext DEF Alone, InsertRow
<1>2. ASSUME NEW c \in Clients, Undo(c) PROVE Authority!GiveUp(mine[c]) \/ UNCHANGED Authority!vars
  BY <1>2 DEF Undo, DeleteRow, Shape, Roles, Tickets, ConfirmSteps
<1>3. ASSUME NEW c \in Clients, ReleaseReconciled(c)
      PROVE  Authority!GiveUp(row[c]) \/ UNCHANGED Authority!vars
  BY <1>3 DEF ReleaseReconciled, DeleteRow, Shape, Rows
<1>4. CASE Restart
  BY <1>4 DEF Restart, Ledger
<1>5. ASSUME NEW c \in Clients, PlaceOrder(c) PROVE Authority!Send(mine[c])
  BY <1>5 DEF PlaceOrder, database, Shape, Roles, Tickets, ConfirmSteps
<1>6. ASSUME NEW c \in Clients, ReplyRefused(c) PROVE Authority!Finish(mine[c])
  BY <1>6 DEF ReplyRefused, database, Shape, Roles, Tickets, ConfirmSteps
<1>7. ASSUME NEW o \in Oids, Accept(o) \/ Fill(o) \/ CancelOrder(o)
      PROVE  Authority!Accept(o) \/ Authority!Finish(o) \/ UNCHANGED Authority!vars
  <2>0. ord[o] # "done" /\ UNCHANGED resv /\ (Accept(o) => ord[o] = "flight")
    BY <1>7 DEF Accept, Fill, CancelOrder, database
  <2>1. CASE ord' = ord
    BY <2>0, <2>1
  <2>3. CASE Accept(o)
    BY <2>0, <2>3 DEF Accept
  <2>2. CASE ord' = [ord EXCEPT ![o] = "done"]
    BY <1>7, <2>2 DEF Accept, Fill, CancelOrder, database
  <2> QED BY <1>7, <2>1, <2>2, <2>3 DEF Fill, CancelOrder
<1>8. CASE UNCHANGED <<ord, resv>>
  BY <1>8
<1>9. \A c \in Clients : mine[c] \in Oids \/ ~(InsertRow(c) \/ PlaceOrder(c) \/ ReplyRefused(c) \/ Undo(c))
  BY DEF InsertRow, PlaceOrder, ReplyRefused, Undo, Shape, Roles, ConfirmSteps
<1>10. \A c \in Clients : ReleaseReconciled(c) => row[c] \in Oids
  BY DEF ReleaseReconciled, Shape, Rows
<1> HIDE DEF Authority!Grant, Authority!Send, Authority!Accept, Authority!Finish, Authority!GiveUp, AuthorityState
<1> QED BY <1>1, <1>2, <1>3, <1>4, <1>5, <1>6, <1>7, <1>8, <1>9, <1>10, OrdersMove, RowMoves

-----------------------------------------------------------------------------
(* Single steps: positions and theses *)

\* Only fills, reductions and entries of others change the account.
LEMMA AccountMoves ==
  ASSUME [Next]_vars
  PROVE  \/ UNCHANGED <<deal, ordPid, hold, pid, opener, ext>>
         \/ \E o \in Oids : Fill(o)
         \/ Reduce \/ ExternalEntry
  BY DEF Next, vars, exchange, Preview, Confirm, Reconcile, Exchange, StartPreview,
     StartMonitor, Consume, ConsumeDisarmed, MarkPreviewUsed, ConfirmGate, Claim,
     ClaimCancelled, InsertRow, SetLeverage, MarkSubmissionStarted, MarkSubmissionFails, Undo,
     PlaceOrder, ReplyPlaced, ReplyRefused, ReplyUncertain, Recovered, OutcomeUnknown,
     PostReconcile, PostDone, Disclose, Discard, CreateToken, StartConfirm, ReadPositions,
     ReadOrders, ReadNoRow, ReadRow, LookUp, BindEntryProposal, ReleaseReconciled, Fail,
     Accept, CancelOrder, ViewCatchesUp, Expire, Restart

\* A snapshot changes to the view or is dropped.
LEMMA SnapMoves ==
  ASSUME TypeOK, [Next]_vars, NEW d \in Clients
  PROVE  snap'[d] \in {snap[d], view, Blank}
  BY DEF TypeOK, Next, vars, request, Goto, EndRequest, Reduce, ExternalEntry, Fill, Preview, Confirm, Reconcile, Exchange, StartPreview,
     StartMonitor, Consume, ConsumeDisarmed, MarkPreviewUsed, ConfirmGate, Claim,
     ClaimCancelled, InsertRow, SetLeverage, MarkSubmissionStarted, MarkSubmissionFails, Undo,
     PlaceOrder, ReplyPlaced, ReplyRefused, ReplyUncertain, Recovered, OutcomeUnknown,
     PostReconcile, PostDone, Disclose, Discard, CreateToken, StartConfirm, ReadPositions,
     ReadOrders, ReadNoRow, ReadRow, LookUp, BindEntryProposal, ReleaseReconciled, Fail,
     Accept, CancelOrder, ViewCatchesUp, Expire, Restart

\* The view changes to the account.
LEMMA ViewMoves ==
  ASSUME [Next]_vars PROVE view' \in {view, Account}
  BY DEF Next, vars, exchange, Reduce, ExternalEntry, Fill, Preview, Confirm, Reconcile, Exchange, StartPreview,
     StartMonitor, Consume, ConsumeDisarmed, MarkPreviewUsed, ConfirmGate, Claim,
     ClaimCancelled, InsertRow, SetLeverage, MarkSubmissionStarted, MarkSubmissionFails, Undo,
     PlaceOrder, ReplyPlaced, ReplyRefused, ReplyUncertain, Recovered, OutcomeUnknown,
     PostReconcile, PostDone, Disclose, Discard, CreateToken, StartConfirm, ReadPositions,
     ReadOrders, ReadNoRow, ReadRow, LookUp, BindEntryProposal, ReleaseReconciled, Fail,
     Accept, CancelOrder, ViewCatchesUp, Expire, Restart

\* A row is bound and released on the snapshot it was looked up with.
LEMMA JudgeMoves ==
  ASSUME TypeOK, [Next]_vars, NEW d \in Clients, pc'[d] \in {"bind", "release"}
  PROVE  \/ LookUp(d) \/ BindEntryProposal(d)
         \/ pc'[d] = pc[d] /\ row'[d] = row[d] /\ snap'[d] = snap[d]
  BY DEF TypeOK, Next, vars, request, Goto, EndRequest, Reduce, ExternalEntry, Fill, Preview, Confirm, Reconcile, Exchange, StartPreview,
     StartMonitor, Consume, ConsumeDisarmed, MarkPreviewUsed, ConfirmGate, Claim,
     ClaimCancelled, InsertRow, SetLeverage, MarkSubmissionStarted, MarkSubmissionFails, Undo,
     PlaceOrder, ReplyPlaced, ReplyRefused, ReplyUncertain, Recovered, OutcomeUnknown,
     PostReconcile, PostDone, Disclose, Discard, CreateToken, StartConfirm, ReadPositions,
     ReadOrders, ReadNoRow, ReadRow, LookUp, BindEntryProposal, ReleaseReconciled, Fail,
     Accept, CancelOrder, ViewCatchesUp, Expire, Restart

\* Only a claim writes pre_hold.
LEMMA PreMoves ==
  ASSUME [Next]_vars PROVE UNCHANGED pre \/ \E c \in Clients : InsertRow(c)
  BY DEF Next, vars, database, Reduce, ExternalEntry, Fill, Preview, Confirm, Reconcile, Exchange, StartPreview,
     StartMonitor, Consume, ConsumeDisarmed, MarkPreviewUsed, ConfirmGate, Claim,
     ClaimCancelled, SetLeverage, MarkSubmissionStarted, MarkSubmissionFails, Undo,
     PlaceOrder, ReplyPlaced, ReplyRefused, ReplyUncertain, Recovered, OutcomeUnknown,
     PostReconcile, PostDone, Disclose, Discard, CreateToken, StartConfirm, ReadPositions,
     ReadOrders, ReadNoRow, ReadRow, LookUp, BindEntryProposal, ReleaseReconciled, Fail,
     Accept, CancelOrder, ViewCatchesUp, Expire, Restart

\* Only binding changes a link.
LEMMA LinkMoves ==
  ASSUME [Next]_vars PROVE UNCHANGED link \/ \E c \in Clients : BindEntryProposal(c)
  BY DEF Next, vars, database, Reduce, ExternalEntry, Fill, Preview, Confirm, Reconcile, Exchange, StartPreview,
     StartMonitor, Consume, ConsumeDisarmed, MarkPreviewUsed, ConfirmGate, Claim,
     ClaimCancelled, InsertRow, SetLeverage, MarkSubmissionStarted, MarkSubmissionFails, Undo,
     PlaceOrder, ReplyPlaced, ReplyRefused, ReplyUncertain, Recovered, OutcomeUnknown,
     PostReconcile, PostDone, Disclose, Discard, CreateToken, StartConfirm, ReadPositions,
     ReadOrders, ReadNoRow, ReadRow, LookUp, BindEntryProposal, ReleaseReconciled, Fail,
     Accept, CancelOrder, ViewCatchesUp, Expire, Restart

\* The snapshot of a request that has not read the row is the view, or it had it before.
LEMMA ReadMoves ==
  ASSUME TypeOK, [Next]_vars, NEW d \in Clients, pc'[d] \in {"readP", "row"}
  PROVE  \/ snap'[d] = view
         \/ pc[d] \in {"readP", "row"} /\ snap'[d] = snap[d]
  BY DEF TypeOK, Next, vars, request, Goto, EndRequest, Reduce, ExternalEntry, Fill, Preview, Confirm, Reconcile, Exchange, StartPreview,
     StartMonitor, Consume, ConsumeDisarmed, MarkPreviewUsed, ConfirmGate, Claim,
     ClaimCancelled, InsertRow, SetLeverage, MarkSubmissionStarted, MarkSubmissionFails, Undo,
     PlaceOrder, ReplyPlaced, ReplyRefused, ReplyUncertain, Recovered, OutcomeUnknown,
     PostReconcile, PostDone, Disclose, Discard, CreateToken, StartConfirm, ReadPositions,
     ReadOrders, ReadNoRow, ReadRow, LookUp, BindEntryProposal, ReleaseReconciled, Fail,
     Accept, CancelOrder, ViewCatchesUp, Expire, Restart

\* How a Confirm comes to reconcile a row.
LEMMA ReconcileMoves ==
  ASSUME TypeOK, [Next]_vars, NEW d \in Clients, pc'[d] \in {"lookup", "bind", "release"}
  PROVE  \/ ReadRow(d)
         \/ /\ pc[d] \in {"lookup", "bind", "release"}
            /\ row'[d] = row[d] /\ snap'[d] = snap[d] /\ kind'[d] = kind[d]
  BY DEF TypeOK, Next, vars, request, Goto, EndRequest, Reduce, ExternalEntry, Fill, Preview, Confirm, Reconcile, Exchange, StartPreview,
     StartMonitor, Consume, ConsumeDisarmed, MarkPreviewUsed, ConfirmGate, Claim,
     ClaimCancelled, InsertRow, SetLeverage, MarkSubmissionStarted, MarkSubmissionFails, Undo,
     PlaceOrder, ReplyPlaced, ReplyRefused, ReplyUncertain, Recovered, OutcomeUnknown,
     PostReconcile, PostDone, Disclose, Discard, CreateToken, StartConfirm, ReadPositions,
     ReadOrders, ReadNoRow, ReadRow, LookUp, BindEntryProposal, ReleaseReconciled, Fail,
     Accept, CancelOrder, ViewCatchesUp, Expire, Restart

\* How a Confirm comes to decide.
LEMMA DecideMoves ==
  ASSUME TypeOK, [Next]_vars, NEW d \in Clients, pc'[d] \in {"gate", "claim"}
  PROVE  /\ snap'[d] = snap[d] /\ kind'[d] = kind[d]
         /\ ReadNoRow(d) \/ ReleaseReconciled(d) \/ pc[d] \in {"gate", "claim"}
  BY DEF TypeOK, Next, vars, request, Goto, EndRequest, Reduce, ExternalEntry, Fill, Preview, Confirm, Reconcile, Exchange, StartPreview,
     StartMonitor, Consume, ConsumeDisarmed, MarkPreviewUsed, ConfirmGate, Claim,
     ClaimCancelled, InsertRow, SetLeverage, MarkSubmissionStarted, MarkSubmissionFails, Undo,
     PlaceOrder, ReplyPlaced, ReplyRefused, ReplyUncertain, Recovered, OutcomeUnknown,
     PostReconcile, PostDone, Disclose, Discard, CreateToken, StartConfirm, ReadPositions,
     ReadOrders, ReadNoRow, ReadRow, LookUp, BindEntryProposal, ReleaseReconciled, Fail,
     Accept, CancelOrder, ViewCatchesUp, Expire, Restart

\* A request stays overtaken until it claims or ends.
LEMMA StaleStays ==
  ASSUME TypeOK, [Next]_vars, NEW d \in Clients, d \in stale, d \notin stale'
  PROVE  pc'[d] \in {"idle", "leverage"}
  BY DEF TypeOK, Next, vars, request, Goto, EndRequest, Reduce, ExternalEntry, Fill, Preview, Confirm, Reconcile, Exchange, StartPreview,
     StartMonitor, Consume, ConsumeDisarmed, MarkPreviewUsed, ConfirmGate, Claim,
     ClaimCancelled, InsertRow, SetLeverage, MarkSubmissionStarted, MarkSubmissionFails, Undo,
     PlaceOrder, ReplyPlaced, ReplyRefused, ReplyUncertain, Recovered, OutcomeUnknown,
     PostReconcile, PostDone, Disclose, Discard, CreateToken, StartConfirm, ReadPositions,
     ReadOrders, ReadNoRow, ReadRow, LookUp, BindEntryProposal, ReleaseReconciled, Fail,
     Accept, CancelOrder, ViewCatchesUp, Expire, Restart

\* Position ids only grow, and a flat account gets a new one.
LEMMA AccountGrows ==
  ASSUME TypeOK, [Next]_vars
  PROVE  pid' >= pid /\ (pid' = pid /\ hold' > 0 => hold > 0)
<1> USE DEF TypeOK
<1>1. ASSUME NEW o \in Oids \cup {NoOid}, Enter(o)
      PROVE  pid' >= pid /\ (pid' = pid /\ hold' > 0 => hold > 0)
  BY <1>1 DEF Enter
<1>2. (\E o \in Oids : Fill(o)) \/ ExternalEntry => \E o \in Oids \cup {NoOid} : Enter(o)
  BY DEF Fill, ExternalEntry
<1> QED BY <1>1, <1>2, AccountMoves DEF Reduce

\* Every step keeps the order of positions and orders.
LEMMA PositionsStep ==
  ASSUME TypeOK, IdInv, [Next]_vars
  PROVE  Positions'
<1>1. /\ hold \in Nat /\ pid \in Nat /\ view.pid \in Nat /\ view.pid <= pid /\ pid <= MaxPositions
      /\ hold > 0 => pid >= 1
  BY DEF TypeOK, Views, IdInv, Positions
<1>2. \A p \in Pids : /\ p \in Nat /\ opener[p] \in Oids \cup {NoOid}
                      /\ p > pid => opener[p] = NoOid
                      /\ opener[p] # NoOid => ordPid[opener[p]] >= p
  BY PositionsAssumption DEF TypeOK, IdInv, Positions, Pids
<1>3. \A q \in Oids : /\ ordPid[q] \in Nat /\ deal[q] \in Nat
                      /\ ordPid[q] <= pid /\ (deal[q] > 0 <=> ordPid[q] >= 1)
  BY DEF TypeOK, IdInv, Positions
<1>4. ASSUME NEW o \in Oids \cup {NoOid}, Enter(o)
      PROVE  /\ hold' > 0 /\ pid <= pid' /\ pid' <= MaxPositions /\ pid' >= 1 /\ pid' \in Nat
             /\ \A p \in Pids : opener'[p] = opener[p] \/ (p = pid' /\ opener'[p] = o)
  <2>1. CASE hold > 0
    BY <1>1, <1>4, <2>1 DEF Enter
  <2>2. CASE ~(hold > 0)
    <3>1. pid < MaxPositions /\ pid' = pid + 1 /\ hold' = hold + 1
          /\ opener' = [opener EXCEPT ![pid + 1] = o]
      BY <1>4, <2>2 DEF Enter
    <3>2. \A p \in Pids : opener'[p] = opener[p] \/ (p = pid' /\ opener'[p] = o)
      BY <3>1 DEF TypeOK
    <3> QED BY <1>1, <3>1, <3>2, PositionsAssumption
  <2> QED BY <2>1, <2>2
<1>5. ASSUME NEW o \in Oids, Fill(o) PROVE Positions'
  <2>1. view' = view /\ ordPid'[o] = pid' /\ deal'[o] = deal[o] + 1
        /\ \A q \in Oids \ {o} : deal'[q] = deal[q] /\ ordPid'[q] = ordPid[q]
    BY <1>5 DEF Fill, TypeOK
  <2>2. /\ hold' > 0 /\ pid <= pid' /\ pid' <= MaxPositions /\ pid' >= 1 /\ pid' \in Nat
        /\ \A p \in Pids : opener'[p] = opener[p] \/ (p = pid' /\ opener'[p] = o)
    BY <1>4, <1>5 DEF Fill
  <2>3. \A q \in Oids : /\ ordPid'[q] <= pid' /\ (deal'[q] > 0 <=> ordPid'[q] >= 1)
                        /\ ordPid'[q] >= ordPid[q] /\ ordPid'[q] \in Nat
    BY <1>1, <1>3, <2>1, <2>2
  <2>4. ASSUME NEW p \in Pids
        PROVE  /\ p > pid' => opener'[p] = NoOid
               /\ opener'[p] # NoOid => ordPid'[opener'[p]] >= p
    <3>1. CASE opener'[p] = opener[p]
      BY <1>1, <1>2, <1>3, <2>2, <2>3, <3>1
    <3>2. CASE p = pid' /\ opener'[p] = o
      BY <2>1, <2>2, <3>2
    <3> QED BY <2>2, <3>1, <3>2
  <2> QED BY <1>1, <2>1, <2>2, <2>3, <2>4 DEF Positions
<1>6. ASSUME ExternalEntry PROVE Positions'
  <2>1. view' = view /\ ordPid' = ordPid /\ deal' = deal
    BY <1>6 DEF ExternalEntry
  <2>2. /\ hold' > 0 /\ pid <= pid' /\ pid' <= MaxPositions /\ pid' >= 1 /\ pid' \in Nat
        /\ \A p \in Pids : opener'[p] = opener[p] \/ (p = pid' /\ opener'[p] = NoOid)
    BY <1>4, <1>6 DEF ExternalEntry
  <2>3. ASSUME NEW p \in Pids
        PROVE  /\ p > pid' => opener'[p] = NoOid
               /\ opener'[p] # NoOid => ordPid'[opener'[p]] >= p
    BY <1>1, <1>2, <2>1, <2>2
  <2> QED BY <1>1, <1>3, <2>1, <2>2, <2>3 DEF Positions
<1>7. CASE Reduce
  BY <1>1, <1>2, <1>3, <1>7 DEF Reduce, Positions
<1>8. CASE UNCHANGED <<deal, ordPid, hold, pid, opener, ext>>
  <2>1. view'.pid <= pid
    BY <1>1, ViewMoves DEF Account
  <2> QED BY <1>1, <1>2, <1>3, <1>8, <2>1 DEF Positions
<1> QED BY <1>5, <1>6, <1>7, <1>8, AccountMoves

\* The view only moves forward.
LEMMA ViewGrows == ASSUME TypeOK, Positions, [Next]_vars PROVE view'.pid >= view.pid
  BY ViewMoves DEF TypeOK, Views, Account, Positions

\* A snapshot of a flat account stays older than the present position.
LEMMA FlatStep ==
  ASSUME TypeOK, TypeOK', IdInv, Positions', [Next]_vars
  PROVE  FlatIsEarlier'
<1> USE DEF TypeOK, Views, IdInv, FlatIsEarlier
<1>1. hold' > 0 => /\ view.hold = 0 => view.pid < pid'
                   /\ \A c \in Clients : snap[c].hold = 0 => snap[c].pid < pid'
  BY AccountGrows DEF Positions
<1>2. view'.hold = 0 /\ hold' > 0 => view'.pid < pid'
  <2>1. CASE view' = view
    BY <1>1, <2>1
  <2>2. CASE view' = Account
    BY <2>2, AccountGrows DEF Account
  <2> QED BY <2>1, <2>2, ViewMoves
<1>3. ASSUME NEW c \in Clients
      PROVE  snap'[c].pid <= view'.pid /\ (snap'[c].hold = 0 /\ hold' > 0 => snap'[c].pid < pid')
  <2>1. CASE snap'[c] = Blank
    BY <2>1 DEF Blank, Positions
  <2>2. CASE snap'[c] \in {snap[c], view}
    BY <2>2, <1>1, ViewGrows
  <2> QED BY <2>1, <2>2, SnapMoves
<1> QED BY <1>2, <1>3

\* Only the reserved entry can fill.
LEMMA OnlyReservedFills ==
  ASSUME GuardInv, [Next]_vars, NEW o \in Oids, o # resv
  PROVE  deal'[o] = deal[o] /\ ordPid'[o] = ordPid[o]
<1>1. ASSUME NEW p \in Oids, Fill(p) PROVE p # o
  BY <1>1 DEF Fill, GuardInv, GuardedEntry
<1> QED BY <1>1, AccountMoves DEF Fill, Reduce, ExternalEntry, GuardInv, TypeOK

\* A row that goes away is that of an entry whose fills the view has shown.
LEMMA GivenUpSeen ==
  ASSUME GuardInv, Fills, IdInv, [Next]_vars, resv \in Oids, resv' # resv
  PROVE  ordPid' = ordPid /\ ordPid[resv] <= view.pid
<1> USE DEF GuardInv, TypeOK, Views, Fills, IdInv, Positions, exchange
<1>1. ASSUME NEW c \in Clients, Undo(c) PROVE ordPid' = ordPid /\ ordPid[resv] <= view.pid
  BY <1>1 DEF Undo, DeleteRow, Shape, Roles, Tickets, ConfirmSteps
<1>2. ASSUME NEW c \in Clients, ReleaseReconciled(c)
      PROVE  ordPid' = ordPid /\ ordPid[resv] <= view.pid
  <2>1. resv = row[c] /\ pc[c] = "release" /\ ordPid' = ordPid
    BY <1>2 DEF ReleaseReconciled, DeleteRow
  <2> QED BY <2>1 DEF Matched, PositionId, FlatIsEarlier
<1>3. CASE Restart
  BY <1>3 DEF Restart, Ledger
<1> QED BY <1>1, <1>2, <1>3, RowMoves, AbsentAssumption DEF InsertRow

\* No entry but the reserved one fills beyond the positions the view has shown.
LEMMA OthersSeenNow ==
  ASSUME GuardInv, Fills, IdInv, [Next]_vars, NEW o \in Oids, o # resv'
  PROVE  ordPid'[o] <= view.pid
<1>1. CASE o # resv
  BY <1>1, OnlyReservedFills DEF IdInv, OthersSeen
<1>2. CASE o = resv
  BY <1>2, GivenUpSeen
<1> QED BY <1>1, <1>2

\* The same of the view after the step.
LEMMA OthersSeenStep ==
  ASSUME GuardInv, Fills, IdInv, [Next]_vars
  PROVE  OthersSeen'
<1> SUFFICES ASSUME NEW o \in Oids, o # resv' PROVE ordPid'[o] <= view'.pid
  BY DEF OthersSeen
<1>1. ordPid'[o] \in Nat /\ view.pid \in Nat /\ view'.pid \in Nat
  BY TypeStep DEF GuardInv, TypeOK, Views
<1> QED BY <1>1, OthersSeenNow, ViewGrows DEF GuardInv, IdInv

\* A finished order and its row are history.
LEMMA DoneIsFinal ==
  ASSUME GuardInv, [Next]_vars, NEW o \in Oids, ord[o] = "done"
  PROVE  ord'[o] = "done" /\ deal'[o] = deal[o] /\ ordPid'[o] = ordPid[o] /\ pre'[o] = pre[o]
<1> USE DEF GuardInv, TypeOK
<1>1. ASSUME NEW p \in Oids, Accept(p) \/ Fill(p) \/ CancelOrder(p) PROVE p # o
  BY <1>1 DEF Accept, Fill, CancelOrder
<1>2. ASSUME NEW c \in Clients, PlaceOrder(c) \/ ReplyRefused(c) PROVE mine[c] # o
  BY <1>2 DEF PlaceOrder, ReplyRefused, Shape, Roles, Tickets, ConfirmSteps
<1>3. ASSUME NEW c \in Clients, InsertRow(c) PROVE mine[c] # o
  BY <1>3, ClaimContext DEF Alone
<1>4. ord'[o] = "done"
  BY <1>1, <1>2, OrdersMove DEF Accept, Fill, CancelOrder, PlaceOrder, ReplyRefused
<1>5. deal'[o] = deal[o] /\ ordPid'[o] = ordPid[o]
  BY <1>1, AccountMoves DEF Fill, Reduce, ExternalEntry
<1>6. pre'[o] = pre[o]
  BY <1>3, PreMoves DEF InsertRow
<1> QED BY <1>4, <1>5, <1>6

\* The look-up's evidence stays true until the row is released.
LEMMA MatchedStep ==
  ASSUME GuardInv, IdInv, [Next]_vars, NEW d \in Clients
  PROVE  Matched(d)'
<1> USE DEF GuardInv, IdInv, Matched
<1>1. ASSUME LookUp(d) PROVE Matched(d)'
  BY <1>1 DEF LookUp, Accounted, Binds, Goto, PositionId, exchange, database, TypeOK
<1>2. ASSUME BindEntryProposal(d) PROVE Matched(d)'
  BY <1>2 DEF BindEntryProposal, Goto, PositionId, exchange, TypeOK
<1>3. ASSUME pc'[d] \in {"bind", "release"}, pc'[d] = pc[d], row'[d] = row[d], snap'[d] = snap[d]
      PROVE  Matched(d)'
  <2>1. row[d] \in Oids /\ ord[row[d]] = "done"
    BY <1>3 DEF Shape, Rows
  <2> QED BY <1>3, <2>1, DoneIsFinal DEF PositionId
<1> QED BY <1>1, <1>2, <1>3, JudgeMoves DEF Matched

\* A thesis is bound on the look-up's evidence and stays that entry's.
LEMMA BoundStep ==
  ASSUME GuardInv, IdInv, [Next]_vars
  PROVE  Bound'
<1> SUFFICES ASSUME NEW p \in Pids, link'[p] # NoOid
             PROVE  /\ ord'[link'[p]] = "done" /\ ordPid'[link'[p]] = p
                    /\ pre'[link'[p]] = 0 /\ deal'[link'[p]] > 0
  BY DEF Bound
<1> USE DEF GuardInv, TypeOK, IdInv
<1>1. link'[p] \in Oids /\ ord[link'[p]] = "done" /\ ordPid[link'[p]] = p
      /\ pre[link'[p]] = 0 /\ deal[link'[p]] > 0
  <2>1. CASE link'[p] = link[p]
    BY <2>1 DEF Bound
  <2>2. CASE link'[p] # link[p]
    <3>1. PICK c \in Clients : BindEntryProposal(c)
      BY <2>2, LinkMoves
    <3>2. row[c] \in Oids /\ ord[row[c]] = "done" /\ pre[row[c]] = 0
          /\ deal[row[c]] > 0 /\ ordPid[row[c]] = PositionId(snap[c])
      BY <3>1 DEF BindEntryProposal, Matched, Shape, Rows
    <3>3. p = PositionId(snap[c]) /\ link'[p] = row[c]
      BY <3>1, <2>2 DEF BindEntryProposal
    <3> QED BY <3>2, <3>3
  <2> QED BY <2>1, <2>2
<1> QED BY <1>1, DoneIsFinal

\* Every step keeps orders, positions and theses together.
LEMMA IdStep ==
  ASSUME GuardInv, Fills, IdInv, [Next]_vars
  PROVE  IdInv'
<1>1. TypeOK'
  BY TypeStep DEF GuardInv
<1> QED BY <1>1, PositionsStep, FlatStep, OthersSeenStep, MatchedStep, BoundStep DEF IdInv, GuardInv

-----------------------------------------------------------------------------
(* Who opened a position *)

\* The release of a filled entry overtakes whoever has not read the row.
LEMMA ReleaseOvertakes ==
  ASSUME GuardInv, Fills, IdInv, [Next]_vars, resv \in Oids, resv' # resv, ordPid[resv] > 0,
         NEW d \in Clients, pc[d] \in {"readP", "row"}
  PROVE  d \in stale'
<1> USE DEF GuardInv, TypeOK, Fills, IdInv, Positions
<1>1. deal[resv] > 0 /\ ord[resv] \notin {"none", "refused"}
  OBVIOUS
<1>2. ASSUME NEW c \in Clients, ReleaseReconciled(c) PROVE d \in stale'
  <2>1. resv = row[c] /\ pc[c] = "release"
    BY <1>2 DEF ReleaseReconciled, DeleteRow
  <2>2. d # c /\ d \in Overtaken(c)
    BY <2>1 DEF Overtaken
  <2>3. stale' = stale \cup Overtaken(c) \/ stale' = (stale \cup Overtaken(c)) \ {c}
    BY <1>1, <1>2, <2>1 DEF ReleaseReconciled
  <2> QED BY <2>2, <2>3
<1>3. ASSUME NEW c \in Clients, Undo(c) PROVE FALSE
  BY <1>1, <1>3 DEF Undo, DeleteRow, Shape, Roles, Tickets, ConfirmSteps
<1>4. CASE Restart
  BY <1>1, <1>4 DEF Restart, Ledger
<1> QED BY <1>2, <1>3, <1>4, RowMoves, AbsentAssumption DEF InsertRow

\* Every step keeps what fresh snapshots have seen before the row is read.
LEMMA SeenBeforeRowStep ==
  ASSUME GuardInv, Fills, IdInv, OpenerInv, [Next]_vars, NEW d \in Clients
  PROVE  SeenBeforeRow(d)'
<1> SUFFICES ASSUME pc'[d] \in {"readP", "row"}, d \notin stale', NEW o \in Oids, o # resv'
             PROVE  ordPid'[o] <= snap'[d].pid
  BY DEF SeenBeforeRow, Fresh
<1>1. CASE snap'[d] = view
  BY <1>1, OthersSeenNow
<1>2. CASE pc[d] \in {"readP", "row"} /\ snap'[d] = snap[d]
  <2>1. d \notin stale
    BY StaleStays DEF GuardInv
  <2>2. CASE o # resv
    BY <1>2, <2>1, <2>2, OnlyReservedFills DEF OpenerInv, SeenBeforeRow, Fresh
  <2>3. CASE o = resv
    <3>1. ordPid'[o] = ordPid[o] /\ ~(ordPid[o] > 0)
      BY <1>2, <2>3, GivenUpSeen, ReleaseOvertakes
    <3> QED BY <1>2, <3>1 DEF GuardInv, TypeOK, Views
  <2> QED BY <2>2, <2>3
<1> QED BY <1>1, <1>2, ReadMoves DEF GuardInv

\* Every step keeps what the snapshot of a Confirm has seen.
LEMMA SeenByConfirmStep ==
  ASSUME GuardInv, Fills, IdInv, FreshInv, OpenerInv, [Next]_vars, NEW d \in Clients
  PROVE  SeenByConfirm(d)'
<1> SUFFICES ASSUME kind'[d] = "confirm", d \notin stale', NEW o \in Oids,
                    \/ pc'[d] \in {"lookup", "bind", "release"} /\ o # row'[d]
                    \/ pc'[d] \in {"gate", "claim"}
             PROVE  ordPid'[o] <= snap'[d].pid
  BY DEF SeenByConfirm, Fresh
<1>1. Fresh(d)
  BY StaleStays DEF GuardInv, Fresh
<1>2. SeenBeforeRow(d) /\ SeenByConfirm(d)
  BY DEF OpenerInv
<1>3. CASE pc'[d] \in {"lookup", "bind", "release"} /\ o # row'[d]
  <2>1. CASE ReadRow(d)
    BY <1>1, <1>2, <1>3, <2>1 DEF ReadRow, SeenBeforeRow, exchange, GuardInv, TypeOK
  <2>2. CASE /\ pc[d] \in {"lookup", "bind", "release"}
             /\ row'[d] = row[d] /\ snap'[d] = snap[d] /\ kind'[d] = kind[d]
    <3>1. o # resv
      BY <1>3, <2>2, AbsentAssumption DEF FreshInv, Confirms, ConfirmReconciles
    <3> QED BY <1>1, <1>2, <1>3, <2>2, <3>1, OnlyReservedFills DEF SeenByConfirm
  <2> QED BY <1>3, <2>1, <2>2, ReconcileMoves DEF GuardInv
<1>4. CASE pc'[d] \in {"gate", "claim"}
  <2>1. snap'[d] = snap[d] /\ kind[d] = "confirm"
    BY <1>4, DecideMoves DEF GuardInv
  <2>2. CASE ReadNoRow(d)
    BY <1>1, <1>2, <2>1, <2>2, AbsentAssumption DEF ReadNoRow, SeenBeforeRow, exchange
  <2>3. CASE ReleaseReconciled(d)
    <3>1. pc[d] = "release" /\ ordPid' = ordPid
      BY <2>3 DEF ReleaseReconciled, exchange
    <3>2. ordPid[row[d]] <= snap[d].pid
      BY <3>1 DEF IdInv, Matched, Positions, PositionId, GuardInv, TypeOK, Views, Shape, Rows
    <3> QED BY <1>1, <1>2, <2>1, <3>1, <3>2 DEF SeenByConfirm
  <2>4. CASE pc[d] \in {"gate", "claim"}
    <3>1. o # resv
      BY <1>1, <2>1, <2>4, AbsentAssumption DEF FreshInv, Confirms, ConfirmDecides
    <3> QED BY <1>1, <1>2, <2>1, <2>4, <3>1, OnlyReservedFills DEF SeenByConfirm
  <2> QED BY <1>4, <2>2, <2>3, <2>4, DecideMoves DEF GuardInv
<1> QED BY <1>3, <1>4

\* Positions keep their opener; others' volume only grows.
LEMMA OpenerStays ==
  ASSUME TypeOK, [Next]_vars
  PROVE  /\ ext' >= ext
         /\ \A p \in Pids : p <= pid => opener'[p] = opener[p]
<1> USE DEF TypeOK
<1>1. ASSUME NEW o \in Oids \cup {NoOid}, Enter(o), NEW p \in Pids, p <= pid
      PROVE  opener'[p] = opener[p]
  BY <1>1, PositionsAssumption DEF Enter, Pids
<1>2. (\E o \in Oids : Fill(o)) \/ ExternalEntry => \E o \in Oids \cup {NoOid} : Enter(o)
  BY DEF Fill, ExternalEntry
<1> QED BY <1>1, <1>2, AccountMoves DEF Reduce, Fill, ExternalEntry

\* A claim that saw no position claims an account that is flat or opened by others.
LEMMA ClaimOpens ==
  ASSUME GuardInv, IdInv, FreshInv, OpenerInv, [Next]_vars, NEW c \in Clients, InsertRow(c),
         raced' = {}, snap[c].hold = 0, hold > 0
  PROVE  opener[pid] = NoOid /\ ext > 0
<1> USE DEF GuardInv, TypeOK, Views
<1>1. pc[c] = "claim" /\ kind[c] = "confirm" /\ Fresh(c)
  BY ClaimContext DEF InsertRow, Alone, Fresh
<1>2. hold <= ext
  BY <1>1 DEF FreshInv, Confirms, ConfirmDecides
<1>3. snap[c].pid < pid /\ pid \in Pids
  BY PositionsAssumption DEF IdInv, FlatIsEarlier, Positions, Pids
<1>4. ASSUME opener[pid] # NoOid PROVE FALSE
  <2>1. opener[pid] \in Oids /\ ordPid[opener[pid]] >= pid
    BY <1>3, <1>4 DEF IdInv, Positions
  <2>2. ordPid[opener[pid]] <= snap[c].pid
    BY <1>1, <2>1 DEF OpenerInv, SeenByConfirm
  <2> QED BY <1>3, <2>1, <2>2
<1> QED BY <1>2, <1>4

\* Every step keeps that a first entry opened the position it fills into.
LEMMA FirstOpensStep ==
  ASSUME GuardInv, Fills, IdInv, FreshInv, OpenerInv, raced' = {}, [Next]_vars
  PROVE  FirstOpens'
<1> USE DEF GuardInv, TypeOK
<1>1. \A p \in Pids : p <= pid => opener'[p] = opener[p]
  BY OpenerStays
<1>2. ext' \in Nat /\ (ext > 0 => ext' > 0)
  BY OpenerStays, TypeStep
<1>3. ASSUME resv' # NoOid, pre'[resv'] = 0, hold' > 0 PROVE OpenedBy(pid, resv)'
  <2>1. CASE resv' = resv
    <3>1. resv \in Oids /\ pre[resv] = 0
      BY <1>3, <2>1, PreMoves DEF InsertRow
    <3>2. CASE hold > 0 /\ pid' = pid
      <4>1. pid \in Pids /\ OpenedBy(pid, resv)
        BY <1>3, <2>1, <3>1, <3>2, PositionsAssumption
           DEF OpenerInv, FirstOpens, IdInv, Positions, Pids
      <4> QED BY <1>1, <1>2, <2>1, <3>2, <4>1 DEF OpenedBy
    <3>3. ASSUME NEW o \in Oids, Fill(o), ~(hold > 0) PROVE OpenedBy(pid, resv)'
      <4>1. o = resv
        BY <3>3 DEF Fill, GuardedEntry
      <4>2. pid' = pid + 1 /\ pid + 1 \in Pids /\ opener' = [opener EXCEPT ![pid + 1] = o]
        BY <3>3, PositionsAssumption DEF Fill, Enter, Pids
      <4> QED BY <2>1, <4>1, <4>2 DEF OpenedBy
    <3>4. ASSUME ExternalEntry, ~(hold > 0) PROVE OpenedBy(pid, resv)'
      <4>1. pid' = pid + 1 /\ pid + 1 \in Pids /\ opener' = [opener EXCEPT ![pid + 1] = NoOid]
            /\ ext' = ext + 1
        BY <3>4, PositionsAssumption DEF ExternalEntry, Enter, Pids
      <4> QED BY <4>1 DEF OpenedBy
    <3>5. \/ hold > 0 /\ pid' = pid
          \/ ~(hold > 0) /\ ((\E o \in Oids : Fill(o)) \/ ExternalEntry)
      BY <1>3, AccountMoves DEF Reduce, Fill, ExternalEntry, Enter
    <3> QED BY <3>2, <3>3, <3>4, <3>5
  <2>2. CASE resv' # resv
    <3>1. PICK c \in Clients : InsertRow(c)
      BY <1>3, <2>2, RowMoves DEF Undo, ReleaseReconciled, DeleteRow, Restart
    <3>2. resv' = mine[c] /\ mine[c] \in Oids /\ pre'[mine[c]] = snap[c].hold
          /\ hold' = hold /\ pid' = pid /\ opener' = opener /\ ext' = ext
      BY <3>1, ClaimContext DEF InsertRow, Alone, exchange
    <3> QED BY <1>3, <3>1, <3>2, ClaimOpens DEF OpenedBy
  <2> QED BY <2>1, <2>2
<1>4. ASSUME NEW o \in Oids, pre'[o] = 0, deal'[o] > 0 PROVE OpenedBy(ordPid[o], o)'
  <2>1. CASE Fill(o)
    <3>1. resv' = o /\ ordPid'[o] = pid' /\ hold' > 0
      BY <2>1 DEF Fill, Enter, GuardedEntry, database
    <3> QED BY <1>3, <1>4, <3>1, AbsentAssumption DEF OpenedBy
  <2>2. CASE ~Fill(o)
    <3>1. deal'[o] = deal[o] /\ ordPid'[o] = ordPid[o]
      BY <2>2, AccountMoves DEF Fill, Reduce, ExternalEntry
    <3>2. pre[o] = 0
      <4>1. ASSUME NEW c \in Clients, InsertRow(c) PROVE pre'[o] = pre[o]
        <5>1. ord[mine[c]] = "none" /\ mine[c] \in Oids
          BY <4>1, ClaimContext DEF Alone
        <5>2. o # mine[c]
          BY <1>4, <3>1, <5>1 DEF Fills
        <5> QED BY <4>1, <5>2 DEF InsertRow
      <4> QED BY <1>4, <4>1, PreMoves
    <3>3. OpenedBy(ordPid[o], o) /\ ordPid[o] \in Pids /\ ordPid[o] <= pid
      BY <1>4, <3>1, <3>2, PositionsAssumption DEF OpenerInv, FirstOpens, IdInv, Positions, Pids
    <3> QED BY <1>1, <1>2, <3>1, <3>3 DEF OpenedBy
  <2> QED BY <2>1, <2>2
<1> QED BY <1>3, <1>4 DEF FirstOpens

\* As long as no decision used an overtaken snapshot, every step keeps who opened what.
LEMMA OpenerStep ==
  ASSUME GuardInv, Fills, IdInv, FreshInv, OpenerInv, raced' = {}, [Next]_vars
  PROVE  OpenerInv'
  BY SeenBeforeRowStep, SeenByConfirmStep, FirstOpensStep DEF OpenerInv

-----------------------------------------------------------------------------
(* The theorems *)

\* The identity invariant holds at first start.
LEMMA InitThesis == Init => IdInv /\ OpenerInv
<1> SUFFICES ASSUME Init PROVE IdInv /\ OpenerInv
  OBVIOUS
<1> USE AbsentAssumption, BudgetAssumption, PositionsAssumption
    DEF Init, Blank, Account, Views, Pids
<1>1. Positions /\ FlatIsEarlier
  BY DEF Positions, FlatIsEarlier
<1>2. (\A c \in Clients : Matched(c)) /\ OthersSeen /\ Bound
  BY DEF Matched, OthersSeen, Bound
<1>3. OpenerInv
  BY DEF OpenerInv, SeenBeforeRow, SeenByConfirm, FirstOpens
<1> QED BY <1>1, <1>2, <1>3 DEF IdInv

\* Every step keeps it, beside the invariant of the risk budget.
LEMMA NextThesis == GuardInv /\ BudgetInv /\ ThesisInv /\ [Next]_vars => ThesisInv'
<1> SUFFICES ASSUME GuardInv, BudgetInv, ThesisInv, [Next]_vars PROVE ThesisInv'
  OBVIOUS
<1>1. IdInv'
  BY IdStep DEF BudgetInv, ThesisInv
<1>2. raced' = {} => OpenerInv'
  BY OpenerStep, RacedGrows DEF BudgetInv, ThesisInv
<1> QED BY <1>1, <1>2 DEF ThesisInv

\* The invariant holds at first start.
LEMMA InitInv == Init => GuardInv /\ BudgetInv
<1> SUFFICES ASSUME Init PROVE GuardInv /\ BudgetInv
  OBVIOUS
<1> USE AbsentAssumption, BudgetAssumption, PositionsAssumption, VolAssumption
    DEF Init, Blank, Account, Views
<1>1. TypeOK
  BY DEF TypeOK, Statuses, Steps, Kinds, Stages, Pids
<1>2. Shape /\ Ledger /\ GuardedEntry
  BY DEF Shape, Roles, Rows, Tickets, Ledger, GuardedEntry, ConfirmSteps, AfterClaim,
         Reconciling
<1>3. Fills /\ Past /\ Judged
  BY DEF Fills, Past, Judged, ConfirmGated, LookedUp
<1>4. FreshInv
  BY DEF FreshInv, ClaimBounds, Snapshots, SnapBeforeRow, SnapOfRow, Confirms,
         ConfirmReconciles, ConfirmDecides, BudgetHeld, Outstanding, Unfilled
<1> QED BY <1>1, <1>2, <1>3, <1>4 DEF GuardInv, BudgetInv

\* Every step keeps the invariant.
LEMMA NextInv == GuardInv /\ BudgetInv /\ [Next]_vars => GuardInv' /\ BudgetInv'
<1> SUFFICES ASSUME GuardInv, BudgetInv, [Next]_vars PROVE GuardInv' /\ BudgetInv'
  OBVIOUS
<1>1. GuardInv'
  BY TypeStep, GuardStep DEF GuardInv
<1>2. Fills' /\ Past' /\ Judged'
  BY PastStep DEF BudgetInv
<1>3. raced' = {} => raced = {}
  BY RacedGrows
<1>4. raced' = {} => FreshInv'
  BY FreshStep, <1>3 DEF BudgetInv
<1> QED BY <1>1, <1>2, <1>4 DEF BudgetInv

\* The inductive invariant holds in every reachable state.
LEMMA Invariance == Spec => [](GuardInv /\ BudgetInv)
  BY InitInv, NextInv, PTL DEF Spec

\* So does the identity invariant.
LEMMA ThesisInvariance == Spec => []ThesisInv
<1>1. Init => ThesisInv
  BY InitThesis DEF ThesisInv
<1> QED BY <1>1, NextThesis, Invariance, PTL DEF Spec

\* Every reachable state is well typed, whatever requests, orders, restarts
\* and exchange events come.
THEOREM TypeCorrect == Spec => []TypeOK
<1>1. GuardInv => TypeOK
  BY DEF GuardInv
<1> QED BY <1>1, Invariance, PTL

\* At no time is an order in flight or resting that does not hold the durable
\* reservation in phase submission_started: at most one entry per account,
\* symbol and side, through cancellation, timeouts and restarts.
THEOREM EntryAlwaysGuarded == Spec => []GuardedEntry
<1>1. GuardInv => GuardedEntry
  BY DEF GuardInv
<1> QED BY <1>1, Invariance, PTL

\* Position plus outstanding entry never exceed the budget by more than what
\* others added, as long as no claim and no release used a positions snapshot
\* that another request's row change had overtaken.
THEOREM BudgetKept == Spec => []BudgetUnlessRaced
<1>1. BudgetInv => BudgetUnlessRaced
  BY DEF BudgetInv, FreshInv, BudgetHeld, BudgetUnlessRaced
<1> QED BY <1>1, Invariance, PTL

\* No order is ever sent twice.
THEOREM OrderSentOnce == Spec => SentOnce
<1>1. GuardInv /\ [Next]_vars
      => [\A o \in Oids : ord[o] # "none" => ord'[o] # "flight" \/ ord[o] = "flight"]_vars
  BY OnceStep
<1> QED BY <1>1, Invariance, PTL DEF Spec, SentOnce

\* The reservation row with the orders implements EntryAuthority: an exclusive
\* authority to enter, granted to an unsent order, which is sent at most once, and
\* never given up while that order may still execute.
THEOREM ReservationIsAuthority == Spec => ImplementsAuthority
<1>1. Init => Authority!Init
  BY DEF Init, Authority!Init, AuthorityState
<1>2. GuardInv /\ [Next]_vars => [Authority!Next]_(Authority!vars)
  BY AuthorityStep
<1> QED BY <1>1, <1>2, Invariance, PTL DEF Spec, ImplementsAuthority, Authority!Spec

\* A thesis bound to a position is that of a finished entry that filled into
\* this position and opened it, unless others opened it after the entry's
\* snapshot, as long as no decision used an overtaken positions snapshot.
THEOREM ThesisKept == Spec => []ThesisOfOpener
<1>1. GuardInv /\ ThesisInv => ThesisOfOpener
  BY DEF GuardInv, TypeOK, ThesisInv, IdInv, Bound, OpenerInv, FirstOpens, OpenedBy,
         ThesisOfOpener
<1> QED BY <1>1, Invariance, ThesisInvariance, PTL
=============================================================================
