------------------------------ MODULE StopMove ------------------------------
(***************************************************************************)
(* Moving the stop-loss of one open Hyperliquid position: place the new    *)
(* stop, verify it by its order id, only then cancel the old ones          *)
(* (orders/service.py, modify_stop_loss). Callers are the browser and the  *)
(* trade monitor (orders/monitor.py), which acts on the armed rules and    *)
(* the identity kept in the position_management row (db/repo.py) and backs *)
(* off through an attempt counter. Arm, disarm and kill switch (main.py)   *)
(* take the same trade lock.                                               *)
(*                                                                         *)
(* The position is long; for a short every price comparison is mirrored.   *)
(* Meanwhile the price moves, the position grows, shrinks, closes and      *)
(* reopens, stops fire, and others place and cancel stops.                 *)
(***************************************************************************)
EXTENDS Integers, FiniteSets

CONSTANTS
  Users,           \* requests from the browser
  Monitor,         \* the trade monitor
  Rules,           \* rules a user may arm
  TmEnabled,       \* tm_enabled: the trade monitor runs
  MaxPrice,        \* prices are 1..MaxPrice
  Entry,           \* entry price, the seed of high_water
  Tick,            \* price step the exchange rests stops at
  Tolerance,       \* _sl_matches: accepted distance of the resting price
  MaxHold,         \* bound: largest position
  MaxEpochs,       \* bound: positions opened one after the other
  StopIds,         \* open trigger orders the exchange accepts at a time
  VerifyAttempts,  \* sl_verify_attempts
  BeMaxAttempts,   \* _BE_MAX_ATTEMPTS
  NoStop, Nobody   \* absent stop id, free lock

Clients == Users \cup {Monitor}
Prices == 1..MaxPrice
Stops == [id : StopIds, px : Nat, vol : Nat \ {0}]

ASSUME ClientsAssumption == Monitor \notin Users /\ Nobody \notin Clients
ASSUME RulesAssumption == Rules \subseteq {"auto_be", "auto_trail"} /\ TmEnabled \in BOOLEAN
ASSUME PricesAssumption ==
  /\ MaxPrice \in Nat \ {0} /\ Entry \in Prices
  /\ Tick \in Nat \ {0} /\ Tolerance \in Nat
ASSUME BoundsAssumption ==
  /\ MaxHold \in Nat \ {0} /\ MaxEpochs \in Nat /\ NoStop \notin StopIds
  /\ VerifyAttempts \in Nat \ {0} /\ BeMaxAttempts \in Nat \ {0}

VARIABLES
  \* the exchange
  hold,     \* size of the position
  epoch,    \* Flat-to-Open fill of the current (or last) position
  served,   \* newest Flat-to-Open fill the fills endpoint shows
  mark,     \* mark price
  stops,    \* resting stop-loss triggers
  flight,   \* placements sent and neither accepted nor refused
  \* the database: the open position_management row
  mgmt,     \* [open, armed, sig, hw, override]; 0 is NULL
  \* the process
  lock,     \* holder of the trade lock
  pc, want, size, old, new, tries,  \* per request: step and locals
  plan,     \* the monitor's move: [rule, sig]
  attempts, \* tm_be_attempts of this position
  \* history
  shaken,   \* requests whose last position or stop read others outdated
  unknown,  \* an automatic placement had an unknown outcome since re-armed
  blind,    \* automatic placements since re-armed or verified
  held      \* high water at the last verified manual move, 0 if none

exchange == <<hold, epoch, served, mark, stops, flight>>
request  == <<want, size, old, new, tries>>
automation == <<plan, attempts, unknown, blind>>
vars == <<exchange, mgmt, lock, pc, request, automation, shaken, held>>

Steps == {"idle", "absent", "baseline", "water", "decide", "wait", "row", "hold", "mark", "stops", "hold2",
          "mark2", "sig", "send", "await", "verify", "vhold", "cancel", "latch"}
AllRules == {"auto_be", "auto_trail"}
Rows == [open : BOOLEAN, armed : SUBSET AllRules, sig : Nat, hw : Nat, override : Nat]
NoRow == [open |-> FALSE, armed |-> {}, sig |-> 0, hw |-> 0, override |-> 0]
FreshRow(sig) == [open |-> TRUE, armed |-> {}, sig |-> sig, hw |-> Entry, override |-> 0]

TypeOK ==
  /\ hold \in Nat /\ epoch \in Nat /\ served \in Nat /\ mark \in Prices
  /\ stops \subseteq Stops /\ flight \subseteq Stops
  /\ mgmt \in Rows /\ lock \in Clients \cup {Nobody}
  /\ pc \in [Clients -> Steps] /\ want \in [Clients -> Nat] /\ size \in [Clients -> Nat]
  /\ old \in [Clients -> SUBSET StopIds] /\ new \in [Clients -> StopIds \cup {NoStop}]
  /\ tries \in [Clients -> 0..VerifyAttempts]
  /\ plan \in [rule : AllRules \cup {"none"}, sig : Nat]
  /\ attempts \in 0..BeMaxAttempts
  /\ shaken \subseteq Clients /\ unknown \in BOOLEAN /\ blind \in Nat /\ held \in Nat

Init ==
  /\ hold = 0 /\ epoch = 0 /\ served = 0 /\ mark \in Prices
  /\ stops = {} /\ flight = {} /\ mgmt = NoRow /\ lock = Nobody
  /\ pc = [c \in Clients |-> "idle"] /\ want = [c \in Clients |-> 0]
  /\ size = [c \in Clients |-> 0] /\ old = [c \in Clients |-> {}]
  /\ new = [c \in Clients |-> NoStop] /\ tries = [c \in Clients |-> 0]
  /\ plan = [rule |-> "none", sig |-> 0] /\ attempts = 0
  /\ shaken = {} /\ unknown = FALSE /\ blind = 0 /\ held = 0

-----------------------------------------------------------------------------
(* Helpers *)

Goto(c, step) == pc' = [pc EXCEPT ![c] = step]

Ids(S) == {s.id : s \in S}

\* Ids no order bears and no request still refers to.
FreeIds == StopIds \ (Ids(stops \cup flight)
                      \cup UNION {old[c] \cup {new[c]} : c \in Clients})

Distance(a, b) == IF a < b THEN b - a ELSE a - b

\* round_hl_price_side_aware: a long's stop is rounded up, towards entry.
Rounded(px) == ((px + Tick - 1) \div Tick) * Tick

\* The request returns or raises and the lock is let go.
ClearRequest(c) ==
  /\ want' = [want EXCEPT ![c] = 0] /\ size' = [size EXCEPT ![c] = 0]
  /\ old' = [old EXCEPT ![c] = {}] /\ new' = [new EXCEPT ![c] = NoStop]
  /\ tries' = [tries EXCEPT ![c] = 0]
  /\ lock' = IF lock = c THEN Nobody ELSE lock
  /\ shaken' = shaken \ {c}

\* The move is over; the monitor keeps its count of failed attempts.
EndMove(c, count) ==
  /\ ClearRequest(c) /\ Goto(c, "idle")
  /\ IF c = Monitor
     THEN attempts' = count /\ plan' = [rule |-> "none", sig |-> 0]
     ELSE UNCHANGED <<attempts, plan>>
  /\ UNCHANGED <<mgmt, blind>>

\* User intervention or a vanished position: tm_be_attempts is popped.
ResetBackoff == attempts' = 0 /\ unknown' = FALSE /\ blind' = 0

\* upsert_position_mgmt with the open signature sig (0: inconclusive): a new
\* row, also when the entry deviated; the volatile state reset on a changed
\* signature; otherwise the signature learned once.
Baselines(sig) ==
  {FreshRow(sig)} \cup
  IF ~mgmt.open THEN {}
  ELSE IF sig # 0 /\ mgmt.sig \notin {0, sig}
       THEN {[mgmt EXCEPT !.sig = sig, !.hw = Entry, !.override = 0]}
       ELSE {[mgmt EXCEPT !.sig = IF @ = 0 THEN sig ELSE @]}

\* ensure_baseline with what user_fills serves: the newest opening, or nothing
\* conclusive. The rules in `enable` are armed with it.
EnsureBaseline(enable) ==
  \E sig \in {0, served} : \E row \in Baselines(sig) :
    /\ mgmt' = [row EXCEPT !.armed = @ \cup enable]
    /\ held' = IF row.hw = mgmt.hw /\ row.override = mgmt.override THEN held ELSE 0

-----------------------------------------------------------------------------
(* The browser's controls, each within one hold of the trade lock *)

\* positions_arm of a live position.
Arm(rule) ==
  /\ lock = Nobody /\ hold > 0 /\ EnsureBaseline({rule})
  /\ ResetBackoff
  /\ UNCHANGED <<exchange, lock, pc, request, plan, shaken>>

Disarm(rule) ==
  /\ lock = Nobody /\ mgmt' = [mgmt EXCEPT !.armed = @ \ {rule}]
  /\ ResetBackoff
  /\ UNCHANGED <<exchange, lock, pc, request, plan, shaken, held>>

\* Faulty variant: the kill switch does not wait for the trade lock.
KillSwitchUnlocked ==
  /\ mgmt' = [mgmt EXCEPT !.armed = {}]
  /\ ResetBackoff
  /\ UNCHANGED <<exchange, lock, pc, request, plan, shaken, held>>

\* positions_killswitch: disarm_all, attempts cleared.
KillSwitch ==
  /\ lock = Nobody /\ mgmt' = [mgmt EXCEPT !.armed = {}]
  /\ ResetBackoff
  /\ UNCHANGED <<exchange, lock, pc, request, plan, shaken, held>>

-----------------------------------------------------------------------------
(* The monitor's visit: baseline, high water, decision *)

\* The snapshot shows the position; stops and mark are read.
MonitorVisit ==
  /\ TmEnabled /\ pc[Monitor] = "idle" /\ hold > 0
  /\ want' = [want EXCEPT ![Monitor] = mark] /\ Goto(Monitor, "baseline")
  /\ UNCHANGED <<exchange, mgmt, lock, size, old, new, tries, automation, shaken, held>>

MonitorBaseline ==
  /\ pc[Monitor] = "baseline" /\ EnsureBaseline({}) /\ Goto(Monitor, "water")
  /\ UNCHANGED <<exchange, lock, request, automation, shaken>>

\* A manual override holds the trail until the high water passes its level.
Paused(row) == row.override # 0 /\ row.hw <= row.override

\* update_high_water with the mark read at the start of the visit.
MonitorHighWater ==
  /\ pc[Monitor] = "water" /\ Goto(Monitor, "decide")
  /\ mgmt' = [mgmt EXCEPT !.hw = IF mgmt.open /\ @ < want[Monitor] THEN want[Monitor] ELSE @]
  /\ UNCHANGED <<exchange, lock, request, automation, shaken, held>>

Halted == attempts >= BeMaxAttempts

\* The row is read back and evaluate_rules emits a move to px.
MonitorDecide(rule, px) ==
  /\ pc[Monitor] = "decide" /\ ~Halted
  /\ rule \in mgmt.armed /\ (rule = "auto_trail" => ~Paused(mgmt))
  /\ px < want[Monitor]
  /\ want' = [want EXCEPT ![Monitor] = px]
  /\ plan' = [rule |-> rule, sig |-> mgmt.sig]
  /\ Goto(Monitor, "wait")
  /\ UNCHANGED <<exchange, mgmt, lock, size, old, new, tries, attempts, unknown, blind, shaken,
                 held>>

\* No rule fires, coverage is not verified, automation is halted, or a read or
\* write of this visit fails.
MonitorIdles ==
  /\ pc[Monitor] \in {"baseline", "water", "decide"} /\ Goto(Monitor, "idle")
  /\ want' = [want EXCEPT ![Monitor] = 0]
  /\ UNCHANGED <<exchange, mgmt, lock, size, old, new, tries, automation, shaken, held>>

\* The snapshot does not show the position.
MonitorMisses ==
  /\ TmEnabled /\ pc[Monitor] = "idle" /\ hold = 0 /\ Goto(Monitor, "absent")
  /\ UNCHANGED <<exchange, mgmt, lock, request, automation, shaken, held>>

\* Within the grace cycles, or no open row.
AbsenceForgiven ==
  /\ pc[Monitor] = "absent" /\ Goto(Monitor, "idle")
  /\ UNCHANGED <<exchange, mgmt, lock, request, automation, shaken, held>>

\* Missing in consecutive cycles: close_position_mgmt.
CloseRow ==
  /\ pc[Monitor] = "absent" /\ Goto(Monitor, "idle") /\ mgmt.open
  /\ mgmt' = NoRow /\ held' = 0 /\ ResetBackoff
  /\ UNCHANGED <<exchange, lock, request, plan, shaken>>

-----------------------------------------------------------------------------
(* modify_stop_loss: checks *)

\* The browser posts a new stop price.
StartMove(u, px) ==
  /\ pc[u] = "idle" /\ want' = [want EXCEPT ![u] = px] /\ Goto(u, "wait")
  /\ UNCHANGED <<exchange, mgmt, lock, size, old, new, tries, automation, shaken, held>>

Acquire(c) ==
  /\ pc[c] = "wait" /\ lock = Nobody /\ lock' = c
  /\ Goto(c, IF c = Monitor THEN "row" ELSE "hold")
  /\ UNCHANGED <<exchange, mgmt, request, automation, shaken, held>>

\* Any check that raises, a failed read, disarmed trading, a replaced client,
\* or cancellation before the first mutation.
Fail(c) ==
  /\ pc[c] \in {"wait", "row", "hold", "mark", "stops", "hold2", "mark2", "sig"}
  /\ EndMove(c, attempts + 1)
  /\ UNCHANGED <<exchange, unknown, held>>

\* Autonomous only: the rule is still armed, not paused, for the same position.
CheckRow ==
  /\ pc[Monitor] = "row"
  /\ plan.rule \in mgmt.armed /\ (plan.rule = "auto_trail" => ~Paused(mgmt))
  /\ plan.sig # 0 /\ mgmt.sig = plan.sig
  /\ Goto(Monitor, "hold")
  /\ UNCHANGED <<exchange, mgmt, lock, request, automation, shaken, held>>

\* _same_side_hold_vol_ok(fresh): the size the new stop is placed with.
ReadHold(c) ==
  /\ pc[c] \in {"hold", "hold2"} /\ hold > 0
  /\ size' = [size EXCEPT ![c] = hold]
  /\ Goto(c, IF pc[c] = "hold" THEN "mark" ELSE "mark2")
  /\ UNCHANGED <<exchange, mgmt, lock, want, old, new, tries, automation, shaken, held>>

\* A long's stop must be below the mark.
ReadMark(c) ==
  /\ pc[c] \in {"mark", "mark2"} /\ want[c] < mark
  /\ Goto(c, IF pc[c] = "mark" THEN "stops" ELSE IF c = Monitor THEN "sig" ELSE "send")
  /\ UNCHANGED <<exchange, mgmt, lock, request, automation, shaken, held>>

\* The new price is not below the most protective stop seen.
NeverLoosens(c, seen) == \A s \in seen : want[c] >= s.px

\* _existing_sl_orders: the list may lag or fail (nothing seen); a move below
\* the most protective stop seen is refused.
ReadStops(c) ==
  /\ pc[c] = "stops"
  /\ \E seen \in SUBSET stops :
       NeverLoosens(c, seen) /\ old' = [old EXCEPT ![c] = Ids(seen)]
  /\ Goto(c, "hold2")
  /\ UNCHANGED <<exchange, mgmt, lock, want, size, new, tries, automation, shaken, held>>

\* Faulty variant: the identity of the live position is not compared.
SignatureUnchecked ==
  /\ pc[Monitor] = "sig" /\ Goto(Monitor, "send")
  /\ shaken' = IF served = epoch THEN shaken \ {Monitor} ELSE shaken \cup {Monitor}
  /\ UNCHANGED <<exchange, mgmt, lock, request, automation, held>>

\* hl_epoch_signature: the live identity equals the one the move was made for.
ReadSignature ==
  /\ pc[Monitor] = "sig" /\ served = plan.sig /\ Goto(Monitor, "send")
  /\ shaken' = IF served = epoch THEN shaken \ {Monitor} ELSE shaken \cup {Monitor}
  /\ UNCHANGED <<exchange, mgmt, lock, request, automation, held>>

-----------------------------------------------------------------------------
(* modify_stop_loss: place, verify, cancel *)

\* place_stop_order leaves; the exchange names the order if it has room for it.
SendStop(c) ==
  /\ pc[c] = "send" /\ Goto(c, "await")
  /\ \/ \E id \in FreeIds :
          /\ flight' = flight \cup {[id |-> id, px |-> Rounded(want[c]), vol |-> size[c]]}
          /\ new' = [new EXCEPT ![c] = id]
     \/ FreeIds = {} /\ UNCHANGED <<flight, new>>
  /\ blind' = IF c = Monitor THEN blind + 1 ELSE blind
  /\ UNCHANGED <<hold, epoch, served, mark, stops, mgmt, lock, want, size, old, tries,
                 plan, attempts, unknown, shaken, held>>

ReplyPlaced(c) ==
  /\ pc[c] = "await" /\ new[c] # NoStop /\ new[c] \notin Ids(flight)
  /\ Goto(c, "verify")
  /\ UNCHANGED <<exchange, mgmt, lock, request, automation, shaken, held>>

\* A definite error: the order is not taken.
ReplyRejected(c) ==
  /\ pc[c] = "await" /\ (new[c] = NoStop \/ new[c] \in Ids(flight))
  /\ flight' = {s \in flight : s.id # new[c]}
  /\ EndMove(c, attempts + 1)
  /\ UNCHANGED <<hold, epoch, served, mark, stops, unknown, held>>

\* An answer without an order id is taken for a rejection, whatever became of
\* the order.
ReplyWithoutId(c) ==
  /\ pc[c] = "await" /\ EndMove(c, attempts + 1)
  /\ UNCHANGED <<exchange, unknown, held>>

\* Faulty variant: an unknown outcome counts as one failed attempt.
UncertainCountsOnce(c) ==
  /\ pc[c] = "await" /\ EndMove(c, attempts + 1)
  /\ unknown' = (unknown \/ c = Monitor)
  /\ UNCHANGED <<exchange, held>>

\* OrderOutcomeUnknown: the old stop stays, the monitor halts.
ReplyUncertain(c) ==
  /\ pc[c] = "await" /\ EndMove(c, BeMaxAttempts)
  /\ unknown' = (unknown \/ c = Monitor)
  /\ UNCHANGED <<exchange, held>>

\* Faulty variant: retried without counting.
VerifyMissUncounted(c) ==
  /\ pc[c] \in {"verify", "vhold"} /\ tries[c] < VerifyAttempts
  /\ Goto(c, "verify")
  /\ UNCHANGED <<exchange, mgmt, lock, request, automation, shaken, held>>

\* _verify_sl_oid reads the list: failed, incomplete, or the row does not match.
VerifyMiss(c) ==
  /\ pc[c] \in {"verify", "vhold"} /\ tries[c] < VerifyAttempts
  /\ tries' = [tries EXCEPT ![c] = @ + 1] /\ Goto(c, "verify")
  /\ UNCHANGED <<exchange, mgmt, lock, want, size, old, new, automation, shaken, held>>

\* The new order id rests at the expected price and covers the size placed.
VerifyHit(c) ==
  /\ pc[c] = "verify" /\ tries[c] < VerifyAttempts
  /\ \E s \in stops : s.id = new[c] /\ s.vol >= size[c]
                      /\ Distance(s.px, want[c]) <= Tolerance
  /\ Goto(c, "vhold") /\ shaken' = shaken \ {c}
  /\ UNCHANGED <<exchange, mgmt, lock, request, automation, held>>

\* History: a manual move is verified at the current high water.
Verified(c) ==
  /\ Goto(c, "cancel")
  /\ old' = [old EXCEPT ![c] = @ \ {new[c]}]
  /\ held' = IF c # Monitor /\ mgmt.open THEN mgmt.hw ELSE held
  /\ UNCHANGED <<exchange, mgmt, lock, want, size, new, tries, automation, shaken>>

\* Faulty variant: the position is not read again.
CoversPlacedSize(c) == pc[c] = "vhold" /\ Verified(c)
\* The stop also covers a position read after it.
CoversPosition(c) == pc[c] = "vhold" /\ hold > 0 /\ size[c] >= hold /\ Verified(c)

Unverified(c) ==
  /\ pc[c] = "verify" /\ tries[c] = VerifyAttempts
  /\ EndMove(c, attempts + 1)
  /\ UNCHANGED <<exchange, unknown, held>>

\* One old stop is cancelled, was gone, or could not be cancelled.
CancelOld(c) ==
  /\ pc[c] = "cancel"
  /\ \E id \in old[c] :
       /\ old' = [old EXCEPT ![c] = @ \ {id}]
       /\ stops' = {s \in stops : s.id # id} \/ UNCHANGED stops
  /\ UNCHANGED <<hold, epoch, served, mark, flight, mgmt, lock, pc, want, size, new, tries,
                 automation, shaken, held>>

\* Faulty variant: the override is not parked.
OverrideForgotten(u) ==
  /\ u \in Users /\ pc[u] = "cancel" /\ old[u] = {}
  /\ ClearRequest(u) /\ Goto(u, "idle")
  /\ UNCHANGED <<exchange, mgmt, automation, held>>

\* A manual move parks the high water as the user's override, if it can be
\* written, before the lock is let go.
RecordOverride(u) ==
  /\ u \in Users /\ pc[u] = "cancel" /\ old[u] = {}
  /\ ClearRequest(u) /\ Goto(u, "idle")
  /\ \/ mgmt' = [mgmt EXCEPT !.override = IF mgmt.open THEN mgmt.hw ELSE @]
     \/ UNCHANGED mgmt
  /\ held' = mgmt'.override
  /\ UNCHANGED <<exchange, automation>>

\* An automatic move is done; the lock is let go before be_done is written.
FinishAutomatic ==
  /\ pc[Monitor] = "cancel" /\ old[Monitor] = {}
  /\ ClearRequest(Monitor) /\ Goto(Monitor, "latch") /\ blind' = 0
  /\ UNCHANGED <<exchange, mgmt, plan, attempts, unknown, held>>

\* The count is cleared; a failed mark_be_done halts the automation instead.
Latch ==
  /\ pc[Monitor] = "latch"
  /\ EndMove(Monitor, 0) \/ EndMove(Monitor, BeMaxAttempts)
  /\ UNCHANGED <<exchange, unknown, held>>

-----------------------------------------------------------------------------
(* The exchange, other actors on the account, the operating system *)

Accept(s) ==
  /\ s \in flight /\ flight' = flight \ {s}
  /\ \E v \in 1..s.vol : stops' = stops \cup {[s EXCEPT !.vol = v]}
  /\ UNCHANGED <<hold, epoch, served, mark, mgmt, lock, pc, request, automation, shaken, held>>

\* A placement nobody waits for any more never arrives.
Vanish(s) ==
  /\ s \in flight /\ \A c \in Clients : new[c] # s.id
  /\ flight' = flight \ {s}
  /\ UNCHANGED <<hold, epoch, served, mark, stops, mgmt, lock, pc, request, automation,
                 shaken, held>>

\* Requests whose new stop s was.
Placers(s) == {c \in Clients : new[c] = s.id}

Fire(s) ==
  /\ s \in stops /\ mark <= s.px /\ stops' = stops \ {s}
  /\ hold' = IF hold > s.vol THEN hold - s.vol ELSE 0
  /\ shaken' = shaken \cup Placers(s)
  /\ UNCHANGED <<epoch, served, mark, flight, mgmt, lock, pc, request, automation, held>>

OthersCancel(s) ==
  /\ s \in stops /\ stops' = stops \ {s} /\ shaken' = shaken \cup Placers(s)
  /\ UNCHANGED <<hold, epoch, served, mark, flight, mgmt, lock, pc, request, automation, held>>

OthersPlace ==
  /\ \E id \in FreeIds, px \in {Rounded(p) : p \in Prices}, vol \in 1..MaxHold :
       px < mark /\ stops' = stops \cup {[id |-> id, px |-> px, vol |-> vol]}
  /\ UNCHANGED <<hold, epoch, served, mark, flight, mgmt, lock, pc, request, automation,
                 shaken, held>>

\* An entry fills; on a flat account it opens a new position.
Grow ==
  /\ hold < MaxHold /\ hold' = hold + 1
  /\ IF hold > 0 THEN UNCHANGED epoch ELSE epoch < MaxEpochs /\ epoch' = epoch + 1
  /\ shaken' = shaken \cup {c \in Clients : pc[c] \in {"send", "cancel"}}
  /\ UNCHANGED <<served, mark, stops, flight, mgmt, lock, pc, request, automation, held>>

Shrink ==
  /\ hold > 0 /\ hold' = hold - 1
  /\ UNCHANGED <<epoch, served, mark, stops, flight, mgmt, lock, pc, request, automation,
                 shaken, held>>

FillsServed ==
  /\ served # epoch /\ served' = epoch
  /\ UNCHANGED <<hold, epoch, mark, stops, flight, mgmt, lock, pc, request, automation,
                 shaken, held>>

PriceMoves ==
  /\ \E p \in Prices \ {mark} : mark' = p
  /\ UNCHANGED <<hold, epoch, served, stops, flight, mgmt, lock, pc, request, automation,
                 shaken, held>>

Restart ==
  /\ pc' = [c \in Clients |-> "idle"] /\ lock' = Nobody
  /\ want' = [c \in Clients |-> 0] /\ size' = [c \in Clients |-> 0]
  /\ old' = [c \in Clients |-> {}] /\ new' = [c \in Clients |-> NoStop]
  /\ tries' = [c \in Clients |-> 0] /\ plan' = [rule |-> "none", sig |-> 0]
  /\ ResetBackoff /\ shaken' = {} /\ held' = mgmt.override
  /\ UNCHANGED <<exchange, mgmt>>

-----------------------------------------------------------------------------
\* The steps of a request in modify_stop_loss; but for a Fail while it waits
\* it holds the lock.
Move(c) ==
  \/ Fail(c) \/ ReadHold(c) \/ ReadMark(c) \/ ReadStops(c)
  \/ c = Monitor /\ (CheckRow \/ ReadSignature \/ FinishAutomatic)
  \/ SendStop(c) \/ ReplyPlaced(c) \/ ReplyRejected(c) \/ ReplyWithoutId(c)
  \/ ReplyUncertain(c) \/ VerifyMiss(c) \/ VerifyHit(c) \/ CoversPosition(c)
  \/ Unverified(c) \/ CancelOld(c) \/ RecordOverride(c)

Controls == (\E rule \in Rules : Arm(rule) \/ Disarm(rule)) \/ KillSwitch

Automation ==
  \/ MonitorVisit \/ MonitorBaseline \/ MonitorHighWater \/ MonitorIdles \/ Latch
  \/ MonitorMisses \/ AbsenceForgiven \/ CloseRow
  \/ \E rule \in Rules, px \in Prices : MonitorDecide(rule, px)

Environment ==
  \/ \E s \in flight : Accept(s) \/ Vanish(s)
  \/ \E s \in stops : Fire(s) \/ OthersCancel(s)
  \/ OthersPlace \/ Grow \/ Shrink \/ FillsServed \/ PriceMoves

Next ==
  \/ \E u \in Users, px \in Prices : StartMove(u, px)
  \/ \E c \in Clients : Acquire(c) \/ Move(c)
  \/ Controls \/ Automation \/ Environment \/ Restart

Spec == Init /\ [][Next]_vars

\* A request that holds the lock goes on: every await of it returns or times
\* out. Nothing is assumed of the exchange, the users or the price.
FairSpec == Spec /\ \A c \in Clients : WF_vars(lock = c /\ Move(c))

-----------------------------------------------------------------------------
(* Properties *)

\* The move cancels an old stop only while the new one covers the whole
\* position at a price at least as protective, unless others enlarged the
\* position or removed the new stop after it was verified (create, verify,
\* remove old; _verify_sl_oid, docs/OPERATIONS.md).
CancelKeepsCover ==
  [][\A c \in Clients :
       pc[c] = "cancel" /\ pc'[c] = "cancel" /\ old'[c] # old[c] /\ c \notin shaken =>
         \A s \in stops \ stops' :
           hold > 0 => \E t \in stops' : t.px >= s.px /\ t.vol >= hold]_vars

AutomaticSend == pc[Monitor] = "send" /\ pc'[Monitor] = "await"

\* No automatic stop leaves once its rule was disarmed or the kill switch
\* returned, however long the move had waited (positions_killswitch).
AutomaticOnlyWhileArmed == [][AutomaticSend => plan.rule \in mgmt.armed]_vars

\* An automatic stop leaves only for the position it was decided on, unless
\* the position was reopened after the last identity check or the fills
\* endpoint did not show the reopening then (_modify_stop_loss_locked).
AutomaticSamePosition ==
  [][AutomaticSend => epoch = plan.sig \/ Monitor \in shaken]_vars

\* After a verified manual move the trail leaves no stop before the high water
\* has passed the level of that move (set_user_override_hw).
ManualStopHolds ==
  [][AutomaticSend /\ plan.rule = "auto_trail" => held = 0 \/ mgmt.hw > held]_vars

\* Automation places no further stop after an unknown outcome or after
\* _BE_MAX_ATTEMPTS unverified placements, until the user intervenes, the
\* position is gone or the process restarts (_process_position).
AutomationBacksOff == [][AutomaticSend => ~unknown /\ blind < BeMaxAttempts]_vars

\* A move always lets the trade lock go, so that Close, Cancel and the kill
\* switch are not shut out (_verify_sl_oid is bounded).
LockReleased == \A c \in Clients : lock = c ~> lock # c

=============================================================================
