-------------------------- MODULE EntryReservation --------------------------
(***************************************************************************)
(* The authority to enter a MEXC position, for one account, symbol and     *)
(* side: the single-slot preview store (orders/tokens.py), Preview and     *)
(* Confirm (orders/service.py), the durable reservation row                *)
(* (db/repo.py, table entry_reservations), the trade lock, the reconcile   *)
(* procedure that Preview, Confirm and the trade monitor share, caller     *)
(* cancellation, process restart, and the exchange as the code sees it.    *)
(*                                                                         *)
(* A request is a client of the process; it advances one action per await. *)
(* The exchange accepts, fills and cancels on its own, and its positions   *)
(* endpoint serves a past state of the account that only moves forward.    *)
(* Volume is counted in whole units, the risk gate in the same units.      *)
(***************************************************************************)
EXTENDS Integers, FiniteSets

CONSTANTS
  Oids,            \* external order ids a preview can mint (uuid4 each)
  Clients,         \* requests the process serves at the same time
  Vol,             \* Vol[o]: volume of the ticket behind o
  Budget,          \* largest same-side volume the risk gate accepts
  InitialHold,     \* largest position the account may start with
  Proposing,       \* oids whose ticket names an analysis proposal
  ExternalVolume,  \* units others (bot, exchange UI) may add to the position
  MaxPositions,    \* bound: position ids the exchange may hand out
  OpenListLags,    \* may the open-orders list omit a live order
  NoOid, Nobody    \* absent oid, free lock

ASSUME VolAssumption == Vol \in [Oids -> Nat \ {0}]
ASSUME BudgetAssumption ==
  Budget \in Nat /\ InitialHold \in 0..Budget /\ ExternalVolume \in Nat
ASSUME AbsentAssumption ==
  NoOid \notin Oids /\ Nobody \notin Clients /\ Proposing \subseteq Oids
ASSUME PositionsAssumption == MaxPositions \in Nat \ {0} /\ OpenListLags \in BOOLEAN

VARIABLES
  \* the exchange
  ord,     \* ord[o]: "none", "flight" (sent), "live", "done", "refused"
  deal,    \* deal[o]: executed volume (dealVol)
  ordPid,  \* ordPid[o]: position id the order's last fill went to
  hold,    \* same-side position volume
  pid,     \* id of the current (or last) position
  ext,     \* units added by others so far
  view,    \* what the positions endpoint serves
  \* the database
  resv,    \* oid of the reservation row, NoOid if there is none
  phase,   \* phase of the row: "none", "claimed", "submission_started"
  pre,     \* pre[o]: pre_hold written with o's row
  link,    \* link[p]: oid bound to position p (position_entry_links_v2)
  \* the process
  token,   \* oid of the one confirmable preview, NoOid if none
  lock,    \* holder of the trade lock
  pc, kind, mine, row, snap,   \* per request: step, role, own oid, row copy, positions snapshot
  \* the browser
  shown,   \* oids whose token was disclosed
  \* history
  stage,   \* stage[o]: "unused", "previewed", "consumed", "claimed"
  stale,   \* requests whose snapshot is older than the row they will read
  raced,   \* decisions taken on such a snapshot
  opener   \* opener[p]: oid that opened position p, NoOid if opened by others

exchange == <<ord, deal, ordPid, hold, pid, ext, view, opener>>
database == <<resv, phase, pre, link>>
request  == <<pc, kind, mine, row, snap>>
vars == <<exchange, database, request, token, lock, shown, stage, stale, raced>>

Steps == {"idle", "wait", "mark", "read", "readP", "readO", "row", "lookup",
          "bind", "release", "gate", "store", "claim", "leverage", "submit",
          "send", "await", "recover", "undo", "post"}
Kinds == {"none", "preview", "confirm", "monitor", "post"}
Statuses == {"none", "flight", "live", "done", "refused"}
Stages == {"unused", "previewed", "consumed", "claimed"}
Pids == 1..MaxPositions

\* A past state of the account: the position, and the fills it includes.
Views == [hold : Nat, pid : Nat, deal : [Oids -> Nat], ext : Nat]
Blank == [hold |-> 0, pid |-> 0, deal |-> [o \in Oids |-> 0], ext |-> 0]
Account == [hold |-> hold, pid |-> pid, deal |-> deal, ext |-> ext]

\* position_id of a snapshot: none while it shows no same-side position.
PositionId(v) == IF v.hold = 0 THEN 0 ELSE v.pid

TypeOK ==
  /\ ord \in [Oids -> Statuses] /\ deal \in [Oids -> Nat] /\ ordPid \in [Oids -> Nat]
  /\ hold \in Nat /\ pid \in Nat /\ ext \in Nat /\ view \in Views
  /\ resv \in Oids \cup {NoOid}
  /\ phase \in {"none", "claimed", "submission_started"}
  /\ pre \in [Oids -> Nat] /\ link \in [Pids -> Oids \cup {NoOid}]
  /\ token \in Oids \cup {NoOid} /\ lock \in Clients \cup {Nobody}
  /\ pc \in [Clients -> Steps] /\ kind \in [Clients -> Kinds]
  /\ mine \in [Clients -> Oids \cup {NoOid}] /\ row \in [Clients -> Oids \cup {NoOid}]
  /\ snap \in [Clients -> Views]
  /\ shown \subseteq Oids /\ stage \in [Oids -> Stages]
  /\ stale \subseteq Clients /\ raced \subseteq {"claim", "release"}
  /\ opener \in [Pids -> Oids \cup {NoOid}]

Init ==
  /\ ord = [o \in Oids |-> "none"] /\ deal = [o \in Oids |-> 0]
  /\ ordPid = [o \in Oids |-> 0]
  /\ hold \in 0..InitialHold /\ pid = (IF hold = 0 THEN 0 ELSE 1)
  /\ ext = 0 /\ view = Account
  /\ resv = NoOid /\ phase = "none"
  /\ pre = [o \in Oids |-> 0] /\ link = [p \in Pids |-> NoOid]
  /\ token = NoOid /\ lock = Nobody
  /\ pc = [c \in Clients |-> "idle"] /\ kind = [c \in Clients |-> "none"]
  /\ mine = [c \in Clients |-> NoOid] /\ row = [c \in Clients |-> NoOid]
  /\ snap = [c \in Clients |-> Blank]
  /\ shown = {} /\ stage = [o \in Oids |-> "unused"]
  /\ stale = {} /\ raced = {} /\ opener = [p \in Pids |-> NoOid]

-----------------------------------------------------------------------------
(* Helpers *)

Goto(c, step) == pc' = [pc EXCEPT ![c] = step]

\* The request returns or raises; `async with trade_lock` lets the lock go.
EndRequest(c) ==
  /\ pc' = [pc EXCEPT ![c] = "idle"] /\ kind' = [kind EXCEPT ![c] = "none"]
  /\ mine' = [mine EXCEPT ![c] = NoOid] /\ row' = [row EXCEPT ![c] = NoOid]
  /\ snap' = [snap EXCEPT ![c] = Blank]
  /\ lock' = IF lock = c THEN Nobody ELSE lock

\* History: requests that hold a positions snapshot but have not read the row
\* yet, so that a claim or the release of a filled entry overtakes them.
Overtaken(c) == {d \in Clients \ {c} : pc[d] \in {"readP", "row"}}

\* release_entry_reservation: DELETE ... WHERE external_oid = o.
DeleteRow(o) ==
  /\ resv' = IF resv = o THEN NoOid ELSE resv
  /\ phase' = IF resv = o THEN "none" ELSE phase

\* _require_active_client, a failed read or write, a failed check, an
\* expired order, or cancellation before the first mutation: nothing is undone.
Fail(c) ==
  /\ pc[c] \in {"wait", "mark", "read", "readP", "readO", "row", "lookup",
                "bind", "release", "gate", "claim"}
  /\ EndRequest(c) /\ stale' = stale \ {c}
  /\ UNCHANGED <<exchange, database, token, shown, stage, raced>>

-----------------------------------------------------------------------------
(* Entry points *)

StartPreview(c) ==
  /\ pc[c] = "idle"
  /\ Goto(c, "read") /\ kind' = [kind EXCEPT ![c] = "preview"]
  /\ UNCHANGED <<exchange, database, mine, row, snap, token, lock, shown, stage, stale, raced>>

\* The monitor processes a position it has in its snapshot, without the lock.
StartMonitor(c) ==
  /\ pc[c] = "idle" /\ view.hold > 0
  /\ Goto(c, "row") /\ kind' = [kind EXCEPT ![c] = "monitor"]
  /\ snap' = [snap EXCEPT ![c] = view]
  /\ UNCHANGED <<exchange, database, mine, row, token, lock, shown, stage, stale, raced>>

\* The browser posts a token it was shown; it queues for the trade lock.
StartConfirm(c, o) ==
  /\ pc[c] = "idle" /\ o \in shown
  /\ Goto(c, "wait") /\ kind' = [kind EXCEPT ![c] = "confirm"]
  /\ mine' = [mine EXCEPT ![c] = o]
  /\ UNCHANGED <<exchange, database, row, snap, token, lock, shown, stage, stale, raced>>

\* Faulty variant: the token survives its use.
ConsumeKeepsToken(c) ==
  /\ pc[c] = "wait" /\ lock = Nobody /\ token = mine[c]
  /\ lock' = c /\ stage' = [stage EXCEPT ![mine[c]] = "consumed"]
  /\ Goto(c, "mark")
  /\ UNCHANGED <<exchange, database, kind, mine, row, snap, token, shown, stale, raced>>

\* Trade lock taken, PreviewStore.consume: valid only if it is still the slot.
Consume(c) ==
  /\ pc[c] = "wait" /\ lock = Nobody /\ token = mine[c]
  /\ lock' = c /\ token' = NoOid
  /\ stage' = [stage EXCEPT ![mine[c]] = "consumed"]
  /\ Goto(c, "mark")
  /\ UNCHANGED <<exchange, database, kind, mine, row, snap, shown, stale, raced>>

\* TRADING_ENABLED=false: the token is consumed all the same, then refused.
ConsumeDisarmed(c) ==
  /\ pc[c] = "wait" /\ lock = Nobody
  /\ token' = IF token = mine[c] THEN NoOid ELSE token
  /\ EndRequest(c) /\ stale' = stale \ {c}
  /\ UNCHANGED <<exchange, database, shown, stage, raced>>

\* TTL elapsed, or a preview of another market took the single slot.
Expire ==
  /\ token # NoOid /\ token' = NoOid
  /\ UNCHANGED <<exchange, database, request, lock, shown, stage, stale, raced>>

MarkPreviewUsed(c) ==
  /\ pc[c] = "mark" /\ Goto(c, "read")
  /\ UNCHANGED <<exchange, database, kind, mine, row, snap, token, lock, shown, stage, stale, raced>>

-----------------------------------------------------------------------------
(* Concurrent reads, then the reservation check *)

ReadPositions(c) ==
  /\ pc[c] \in {"read", "readO"}
  /\ Goto(c, IF pc[c] = "read" THEN "readP" ELSE "row")
  /\ snap' = [snap EXCEPT ![c] = view]
  /\ UNCHANGED <<exchange, database, kind, mine, row, token, lock, shown, stage, stale, raced>>

\* _ensure_no_pending_same_side_entry passes: the list shows no live entry.
ReadOrders(c) ==
  /\ pc[c] \in {"read", "readP"}
  /\ OpenListLags \/ \A o \in Oids : ord[o] # "live"
  /\ Goto(c, IF pc[c] = "read" THEN "readO" ELSE "row")
  /\ UNCHANGED <<exchange, database, kind, mine, row, snap, token, lock, shown, stage, stale, raced>>

\* No row: the requests that want an entry go on, the others are done.
ReadNoRow(c) ==
  /\ pc[c] = "row" /\ resv = NoOid
  /\ IF kind[c] \in {"preview", "confirm"}
     THEN Goto(c, "gate") /\ UNCHANGED <<kind, mine, row, snap, lock, stale>>
     ELSE EndRequest(c) /\ stale' = stale \ {c}
  /\ UNCHANGED <<exchange, database, token, shown, stage, raced>>

ReadRow(c) ==
  /\ pc[c] = "row" /\ resv # NoOid
  /\ row' = [row EXCEPT ![c] = resv] /\ Goto(c, "lookup")
  /\ UNCHANGED <<exchange, database, kind, mine, snap, token, lock, shown, stage, stale, raced>>

\* Faulty variants of the evidence: the position alone; the order alone; a
\* position that must exceed the fill.
AccountedOnPosition(c) ==
  snap[c].hold >= pre[row[c]] + deal[row[c]] /\ ord[row[c]] \in {"live", "done"}
AccountedOnOrder(c) == ord[row[c]] = "done"
AccountedStrictly(c) ==
  ord[row[c]] = "done" /\ snap[c].hold > pre[row[c]] + deal[row[c]]

\* order_by_external_oid found the order terminal and the snapshot shows it.
Accounted(c) ==
  LET o == row[c] IN
    /\ ord[o] = "done"
    /\ snap[c].hold >= pre[o] + deal[o]
    /\ deal[o] > 0 => ordPid[o] = PositionId(snap[c])

\* Faulty variant: an add-on is bound like a first entry.
BindsOnAddOn(c) == deal[row[c]] > 0 /\ row[c] \in Proposing

\* Only the entry that found no position carries its thesis to it.
Binds(c) == pre[row[c]] = 0 /\ deal[row[c]] > 0 /\ row[c] \in Proposing

LookUp(c) ==
  /\ pc[c] = "lookup" /\ Accounted(c)
  /\ Goto(c, IF Binds(c) THEN "bind" ELSE "release")
  /\ UNCHANGED <<exchange, database, kind, mine, row, snap, token, lock, shown, stage, stale, raced>>

\* INSERT ... ON CONFLICT DO NOTHING: the first entry of a position wins.
BindEntryProposal(c) ==
  /\ pc[c] = "bind"
  /\ link' = [link EXCEPT ![PositionId(snap[c])] = IF @ = NoOid THEN row[c] ELSE @]
  /\ Goto(c, "release")
  /\ UNCHANGED <<exchange, resv, phase, pre, kind, mine, row, snap, token, lock, shown, stage, stale, raced>>

\* _release_entry_reservation at the end of _reconcile_entry_reservation.
ReleaseReconciled(c) ==
  /\ pc[c] = "release" /\ DeleteRow(row[c])
  /\ LET filled == resv = row[c] /\ deal[resv] > 0
         overtaken == IF filled THEN stale \cup Overtaken(c) ELSE stale
     IN
     /\ raced' = IF filled /\ c \in stale THEN raced \cup {"release"} ELSE raced
     /\ IF kind[c] \in {"preview", "confirm"}
        THEN /\ Goto(c, "gate") /\ stale' = overtaken
             /\ UNCHANGED <<kind, mine, row, snap, lock>>
        ELSE EndRequest(c) /\ stale' = overtaken \ {c}
  /\ UNCHANGED <<exchange, pre, link, token, shown, stage>>

-----------------------------------------------------------------------------
(* Preview: gate, create the token, store the audit row, disclose *)

\* validate_order's aggregate risk, in volume units.
WithinBudget(c, o) == snap[c].hold + Vol[o] <= Budget

CreateToken(c, o) ==
  /\ pc[c] = "gate" /\ kind[c] = "preview"
  /\ stage[o] = "unused" /\ WithinBudget(c, o)
  /\ token' = o /\ mine' = [mine EXCEPT ![c] = o]
  /\ stage' = [stage EXCEPT ![o] = "previewed"]
  /\ Goto(c, "store")
  /\ UNCHANGED <<exchange, database, kind, row, snap, lock, shown, stale, raced>>

\* insert_preview returned and the slot is still ours.
Disclose(c) ==
  /\ pc[c] = "store" /\ token = mine[c]
  /\ shown' = shown \cup {mine[c]}
  /\ EndRequest(c) /\ stale' = stale \ {c}
  /\ UNCHANGED <<exchange, database, token, stage, raced>>

\* insert_preview failed, the request was cancelled, or the slot was lost.
Discard(c) ==
  /\ pc[c] = "store"
  /\ token' = IF token = mine[c] THEN NoOid ELSE token
  /\ EndRequest(c) /\ stale' = stale \ {c}
  /\ UNCHANGED <<exchange, database, shown, stage, raced>>

-----------------------------------------------------------------------------
(* Confirm: gate, claim, leverage, submission mark, send, outcome *)

ConfirmGate(c) ==
  /\ pc[c] = "gate" /\ kind[c] = "confirm" /\ WithinBudget(c, mine[c])
  /\ Goto(c, "claim")
  /\ UNCHANGED <<exchange, database, kind, mine, row, snap, token, lock, shown, stage, stale, raced>>

\* Faulty variant: pre_hold is net of the requested volume.
InsertNetRow(c) ==
  /\ pc[c] = "claim" /\ resv = NoOid /\ resv' = mine[c] /\ phase' = "claimed"
  /\ pre' = [pre EXCEPT ![mine[c]] = snap[c].hold - Vol[mine[c]]]
  /\ stage' = [stage EXCEPT ![mine[c]] = "claimed"]
  /\ UNCHANGED <<exchange, link, token, shown, raced>>

\* INSERT ... ON CONFLICT DO NOTHING, rowcount 1.
InsertRow(c) ==
  /\ pc[c] = "claim" /\ resv = NoOid
  /\ resv' = mine[c] /\ phase' = "claimed"
  /\ pre' = [pre EXCEPT ![mine[c]] = snap[c].hold]
  /\ stage' = [stage EXCEPT ![mine[c]] = "claimed"]
  /\ raced' = IF c \in stale THEN raced \cup {"claim"} ELSE raced
  /\ UNCHANGED <<exchange, link, token, shown>>

Claim(c) ==
  /\ InsertRow(c) /\ Goto(c, "leverage")
  /\ stale' = (stale \cup Overtaken(c)) \ {c}
  /\ UNCHANGED <<kind, mine, row, snap, lock>>

\* Cancelled while the INSERT commits: the claim stays, nobody releases it.
ClaimCancelled(c) ==
  /\ InsertRow(c) /\ EndRequest(c)
  /\ stale' = (stale \cup Overtaken(c)) \ {c}

SetLeverage(c) ==
  /\ pc[c] = "leverage"
  /\ Goto(c, "submit") \/ Goto(c, "undo")
  /\ UNCHANGED <<exchange, database, kind, mine, row, snap, token, lock, shown, stage, stale, raced>>

\* UPDATE ... WHERE external_oid = own AND phase = 'claimed', rowcount 1.
MarkSubmissionStarted(c) ==
  /\ pc[c] = "submit" /\ resv = mine[c] /\ phase = "claimed"
  /\ phase' = "submission_started"
  /\ Goto(c, "send") \/ Goto(c, "undo")
  /\ UNCHANGED <<exchange, resv, pre, link, kind, mine, row, snap, token, lock, shown, stage, stale, raced>>

MarkSubmissionFails(c) ==
  /\ pc[c] = "submit" /\ Goto(c, "undo")
  /\ UNCHANGED <<exchange, database, kind, mine, row, snap, token, lock, shown, stage, stale, raced>>

\* A proved non-placement gives the row back; the release itself may fail.
Undo(c) ==
  /\ pc[c] = "undo"
  /\ DeleteRow(mine[c]) \/ UNCHANGED <<resv, phase>>
  /\ EndRequest(c) /\ stale' = stale \ {c}
  /\ UNCHANGED <<exchange, pre, link, token, shown, stage, raced>>

PlaceOrder(c) ==
  /\ pc[c] = "send"
  /\ ord' = [ord EXCEPT ![mine[c]] = "flight"]
  /\ Goto(c, "await")
  /\ UNCHANGED <<deal, ordPid, hold, pid, ext, view, opener, database, kind, mine, row, snap,
                 token, lock, shown, stage, stale, raced>>

ReplyPlaced(c) ==
  /\ pc[c] = "await" /\ ord[mine[c]] \in {"live", "done"}
  /\ Goto(c, "post")
  /\ UNCHANGED <<exchange, database, kind, mine, row, snap, token, lock, shown, stage, stale, raced>>

\* A definite error: the exchange refused the order.
ReplyRefused(c) ==
  /\ pc[c] = "await" /\ ord[mine[c]] = "flight"
  /\ ord' = [ord EXCEPT ![mine[c]] = "refused"]
  /\ Goto(c, "undo")
  /\ UNCHANGED <<deal, ordPid, hold, pid, ext, view, opener, database, kind, mine, row, snap,
                 token, lock, shown, stage, stale, raced>>

\* Timeout or unreadable answer, whatever became of the order.
ReplyUncertain(c) ==
  /\ pc[c] = "await" /\ Goto(c, "recover")
  /\ UNCHANGED <<exchange, database, kind, mine, row, snap, token, lock, shown, stage, stale, raced>>

\* order_by_external_oid (not include_terminal): a dead order is no match.
Recovered(c) ==
  /\ pc[c] = "recover"
  /\ ord[mine[c]] = "live" \/ (ord[mine[c]] = "done" /\ deal[mine[c]] > 0)
  /\ Goto(c, "post")
  /\ UNCHANGED <<exchange, database, kind, mine, row, snap, token, lock, shown, stage, stale, raced>>

\* OrderOutcomeUnknown: the reservation stays.
OutcomeUnknown(c) ==
  /\ pc[c] = "recover"
  /\ EndRequest(c) /\ stale' = stale \ {c}
  /\ UNCHANGED <<exchange, database, token, shown, stage, raced>>

\* First entry of a proposal: re-read positions and reconcile at once.
PostReconcile(c) ==
  /\ pc[c] = "post" /\ pre[mine[c]] = 0 /\ mine[c] \in Proposing
  /\ Goto(c, "row") /\ kind' = [kind EXCEPT ![c] = "post"]
  /\ snap' = [snap EXCEPT ![c] = view]
  /\ UNCHANGED <<exchange, database, mine, row, token, lock, shown, stage, stale, raced>>

\* No proposal, an add-on, or the identity could not be persisted.
PostDone(c) ==
  /\ pc[c] = "post"
  /\ EndRequest(c) /\ stale' = stale \ {c}
  /\ UNCHANGED <<exchange, database, token, shown, stage, raced>>

-----------------------------------------------------------------------------
(* The exchange and the operating system *)

Accept(o) ==
  /\ ord[o] = "flight" /\ ord' = [ord EXCEPT ![o] = "live"]
  /\ UNCHANGED <<deal, ordPid, hold, pid, ext, view, opener, database, request,
                 token, lock, shown, stage, stale, raced>>

\* One unit enters the position; a flat account opens a new position id.
Enter(o) ==
  /\ hold' = hold + 1
  /\ IF hold > 0 THEN UNCHANGED <<pid, opener>>
     ELSE /\ pid < MaxPositions /\ pid' = pid + 1
          /\ opener' = [opener EXCEPT ![pid + 1] = o]

Fill(o) ==
  /\ ord[o] = "live" /\ deal[o] < Vol[o] /\ Enter(o)
  /\ deal' = [deal EXCEPT ![o] = @ + 1]
  /\ ordPid' = [ordPid EXCEPT ![o] = pid']
  /\ ord' = IF deal[o] + 1 = Vol[o] THEN [ord EXCEPT ![o] = "done"] ELSE ord
  /\ UNCHANGED <<ext, view, database, request, token, lock, shown, stage, stale, raced>>

\* Cancelled, by the app's Cancel, by hand or by the exchange.
CancelOrder(o) ==
  /\ ord[o] = "live" /\ ord' = [ord EXCEPT ![o] = "done"]
  /\ UNCHANGED <<deal, ordPid, hold, pid, ext, view, opener, database, request,
                 token, lock, shown, stage, stale, raced>>

\* A stop, a target, Close or the exchange UI takes one unit out.
Reduce ==
  /\ hold > 0 /\ hold' = hold - 1
  /\ UNCHANGED <<ord, deal, ordPid, pid, ext, view, opener, database, request,
                 token, lock, shown, stage, stale, raced>>

ExternalEntry ==
  /\ ext < ExternalVolume /\ ext' = ext + 1 /\ Enter(NoOid)
  /\ UNCHANGED <<ord, deal, ordPid, view, database, request, token, lock,
                 shown, stage, stale, raced>>

\* The positions endpoint catches up.
ViewCatchesUp ==
  /\ view # Account /\ view' = Account
  /\ UNCHANGED <<ord, deal, ordPid, hold, pid, ext, opener, database, request,
                 token, lock, shown, stage, stale, raced>>

\* Crash and start: memory is gone; Database.init retires the claims of the
\* previous owner that never reached submission.
Restart ==
  /\ pc' = [c \in Clients |-> "idle"] /\ kind' = [c \in Clients |-> "none"]
  /\ mine' = [c \in Clients |-> NoOid] /\ row' = [c \in Clients |-> NoOid]
  /\ snap' = [c \in Clients |-> Blank] /\ lock' = Nobody /\ token' = NoOid
  /\ resv' = IF phase = "claimed" THEN NoOid ELSE resv
  /\ phase' = IF phase = "claimed" THEN "none" ELSE phase
  /\ stale' = {}
  /\ UNCHANGED <<exchange, pre, link, shown, stage, raced>>

-----------------------------------------------------------------------------
Reconcile(c) == ReadNoRow(c) \/ ReadRow(c) \/ LookUp(c) \/ BindEntryProposal(c)
                \/ ReleaseReconciled(c)

Preview(c) ==
  \/ StartPreview(c) \/ (\E o \in Oids : CreateToken(c, o)) \/ Disclose(c) \/ Discard(c)

Confirm(c) ==
  \/ \E o \in Oids : StartConfirm(c, o)
  \/ Consume(c) \/ ConsumeDisarmed(c) \/ MarkPreviewUsed(c) \/ ConfirmGate(c)
  \/ Claim(c) \/ ClaimCancelled(c) \/ SetLeverage(c) \/ MarkSubmissionStarted(c)
  \/ MarkSubmissionFails(c) \/ Undo(c) \/ PlaceOrder(c) \/ ReplyPlaced(c)
  \/ ReplyRefused(c) \/ ReplyUncertain(c) \/ Recovered(c) \/ OutcomeUnknown(c)
  \/ PostReconcile(c) \/ PostDone(c)

Exchange ==
  \/ \E o \in Oids : Accept(o) \/ Fill(o) \/ CancelOrder(o)
  \/ Reduce \/ ExternalEntry \/ ViewCatchesUp

Next ==
  \/ \E c \in Clients :
       \/ Preview(c) \/ Confirm(c) \/ StartMonitor(c)
       \/ ReadPositions(c) \/ ReadOrders(c) \/ Reconcile(c) \/ Fail(c)
  \/ Exchange \/ Expire \/ Restart

Spec == Init /\ [][Next]_vars

\* Both concurrent reads succeed.
ReadsDone(c) ==
  \/ pc[c] = "readO" /\ ReadPositions(c)
  \/ pc[c] = "readP" /\ ReadOrders(c)

\* Started requests end, the view catches up, the monitor loop and the user's
\* previews come round again and again, and neither their reads fail nor the
\* process restarts before the next await every time. Nobody is obliged to
\* confirm, and the exchange may leave an order resting.
Fairness ==
  /\ WF_vars(ViewCatchesUp)
  /\ \A c \in Clients :
       /\ SF_vars(StartMonitor(c)) /\ SF_vars(StartPreview(c))
       /\ SF_vars(ReadOrders(c)) /\ SF_vars(ReadsDone(c))
       /\ SF_vars(ReadRow(c)) /\ SF_vars(LookUp(c))
       /\ SF_vars(BindEntryProposal(c)) /\ SF_vars(ReleaseReconciled(c))
       /\ WF_vars(Fail(c)) /\ WF_vars(Discard(c)) /\ WF_vars(SetLeverage(c))
       /\ WF_vars(MarkSubmissionFails(c)) /\ WF_vars(Undo(c)) /\ WF_vars(PlaceOrder(c))
       /\ WF_vars(ReplyUncertain(c)) /\ WF_vars(OutcomeUnknown(c)) /\ WF_vars(PostDone(c))

FairSpec == Spec /\ Fairness

-----------------------------------------------------------------------------
(* Properties *)

\* An entry that may still reach or rest on the exchange holds the durable
\* reservation, across timeouts, cancellation and restarts: no second entry
\* can be submitted beside it (claim_entry_reservation, Database.init).
GuardedEntry ==
  \A o \in Oids : ord[o] \in {"flight", "live"} => resv = o /\ phase = "submission_started"

\* Reservation row and orders implement an exclusive authority to enter: it is
\* granted only to an unsent order, only its holder is sent, never twice, and no
\* reconcile, undo or restart takes it away while the order may still execute.
AuthorityState ==
  [o \in Oids |-> CASE ord[o] = "none" -> "new"
                    [] ord[o] = "flight" -> "sent"
                    [] ord[o] = "live" -> "open"
                    [] OTHER -> "over"]
Authority == INSTANCE EntryAuthority WITH holder <- resv, state <- AuthorityState
ImplementsAuthority == Authority!Spec

\* The volume of the reserved entry that can still be executed.
Outstanding == IF resv = NoOid THEN 0 ELSE Vol[resv] - deal[resv]

\* Position plus unexecuted entry stays within the budget the gate enforces,
\* up to what others added, unless a claim or a release used a positions
\* snapshot older than the row it acted on.
BudgetUnlessRaced == raced = {} => hold + Outstanding <= Budget + ext

\* The same without the exception: pending same-side entries block
\* additional unaggregated exposure (README.md).
BudgetRespected == hold + Outstanding <= Budget + ext

\* The reservation of a filled entry is released only on a positions snapshot
\* that includes its whole fill: stale snapshots cannot release the risk
\* budget (_reconcile_entry_reservation; CHANGELOG.md).
ReleaseSeesFill ==
  [][\A o \in Oids : resv = o /\ resv' = NoOid /\ deal[o] > 0
       => \E c \in Clients : row[c] = o /\ snap[c].deal[o] = deal[o]]_vars

\* The thesis bound to a position is that of an entry that filled into this
\* position and opened it, unless others opened it after the entry's snapshot;
\* never that of a later add-on (bind_entry_proposal).
ThesisOfOpener ==
  raced = {} =>
    \A p \in Pids : link[p] # NoOid =>
      ordPid[link[p]] = p /\ (opener[p] = link[p] \/ (opener[p] = NoOid /\ ext > 0))

\* A finished entry stops blocking its side as long as the position still
\* shows its fill (_process_position and preview retry the evidence).
FinishedEntryReleased ==
  \A o \in Oids :
    (resv = o /\ ord[o] = "done") ~>
      (resv # o \/ hold < pre[o] + deal[o] \/ (deal[o] > 0 /\ ordPid[o] # pid))

\* The same without that condition: the message asks the user to "wait for
\* exchange state before another entry" (preview).
WaitingHelps == \A o \in Oids : (resv = o /\ ord[o] = "done") ~> (resv # o)

\* One disclosed preview is sent at most once: an order that was sent never
\* goes back into flight (PreviewStore.consume).
SentOnce == [][\A o \in Oids : ord[o] # "none" => ord'[o] # "flight" \/ ord[o] = "flight"]_vars

=============================================================================
