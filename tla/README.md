# Verification of ObsidianLiveTrader

ObsidianLiveTrader is a local, single-process trading cockpit (FastAPI,
asyncio, SQLite) for Hyperliquid and MEXC perpetual futures. This directory
holds TLA+ modules translated from its source, TLC configurations that check
them on small instances, and TLAPS proofs of the properties that matter most
for every value of the constants. Paths below are relative to the repository
root; line numbers are those of the modelled commit.

## 1. The system

### Components, state, operations

| component | state it keeps | operations |
| --- | --- | --- |
| Preview store, `app/orders/tokens.py` | one slot: token, ticket, external oid, expiry, context; in-memory entry reservation | `create`, `consume`, `discard`, `clear`, `claim/release_entry_reservation` |
| Order service, `app/orders/service.py` | trade lock (shared), client, generation; everything else is read from exchange and database | `preview`, `confirm`, `close_position`, `cancel`, `modify_stop_loss`, `_reconcile_entry_reservation` |
| Trade monitor, `app/orders/monitor.py`, with `trade_manager.py`, `be_math.py` | attempt counters, absence counters, ATR cache (memory); `position_management` rows | `_run_one_cycle`, `_process_position`, `ensure_baseline`, `evaluate_rules` |
| Protection classifier, `app/orders/protection.py` | none | `classify_protection`, coverage of a position by stops |
| Database, `app/db/repo.py`, `schema.py` | previews, orders, entry_reservations, position_entry_links_v2, position_management, journal, history | one method per statement, one connection behind a lock with rollback on cancellation |
| Web application, `app/main.py` | trade lock, order services, client generation, single-flight locks, instance lock | routes, setup hot swap, arm/kill switch, lifespan |
| Hyperliquid client, `app/hyperliquid/client.py` | user-state cache, token bucket, asset metadata | `place_order`, `place_stop_order`, `cancel_order`, reads |
| MEXC client, `app/mexc/client.py` | contract cache | the same interface over signed HTTP |
| Market proxy, `app/realtime/hl_proxy.py` | upstream socket, subscriptions, per-client queues | subscribe, fan-out, reconnect with backoff |
| Journal, `app/journal/` | journal entries with `snapshot_version` and outcome | resolver loop, statistics |
| Risk, `app/risk/` | none | gates, sizing |
| LLM and scanner, `app/llm/` | analysis cache, scan state | analyze, scan, recalibrate |
| Market analysis, `app/analysis/` | none | indicators, structure, context |
| Configuration, security, `app/config.py`, `env_builder.py`, `security.py` | settings | parse, validate |
| Browser, `app/static`, `app/templates` | disclosed token, UI state | post forms, poll |
| Scripts and tests | | |

### How they interact

* The browser posts to routes of `main.py`; Preview runs without the trade
  lock, Confirm, Close, Cancel and Move-stop take it (`main.py:1106`,
  `service.py:2818-2826`). The trade monitor runs in the same event loop and
  takes the lock only inside the order service calls it makes; its reconcile
  and its database writes do not (`monitor.py:457-460`).
* Every `await` is an interleaving point. A Confirm makes about fifteen; the
  state it read at the first is used at the last.
* SQLite is the only memory that survives a crash. The exchange is the ground
  truth, seen through endpoints that lag, through answers that get lost, and
  changed by others (the exchange's own UI, other bots, stops that fire).

### What is hard, and what makes each component correct

| component | hard behaviour | correctness |
| --- | --- | --- |
| entry authority | retries after a lost answer, stale snapshots, concurrent reconcile, crash between claim and submit | one entry per side in flight; aggregate exposure within the budget; a token sends at most one order; the bound thesis is the opener's; a finished entry does not block its side for ever |
| stop-loss move | the position grows, closes, reopens during place-verify-cancel; placement outcome unknown | never less protected than before; never loosened; autonomous moves only for the armed position |
| monitor and management rows | arming, kill switch, override and reopening between a read and a write | no autonomous action after disarm; break-even latch of the position it was set for; a new baseline hands on no arming (a reopening at the same entry keeps it, on purpose) |
| close and cancel | position shrinks, grows, flips between read and order | never increases exposure; reports flat only if flat |
| protection coverage | partial, duplicated, contradictory stop rows | covered means every unit has a stop on the loss side |
| database | cancellation inside a transaction | a write is stored in one step or never, and its caller is told the truth |
| wiring | client replaced while requests queue; second process on one database | no request mutates through a retired client; one owner |
| HL client | cache invalidated while a fetch is in flight; token bucket | no read returns state older than the last own mutation; rate bound |
| market proxy | subscribe, disconnect and reconnect race | every subscribed client is fed or told |
| journal | entry edited while its outcome is computed | an outcome belongs to the version it was computed from |

`PROJECT.json` lists the hazards at their lines with the properties that
cover them.

## 2. Modules and runs

| module | models | proofs |
| --- | --- | --- |
| `EntryReservation`, abstract `EntryAuthority` | Preview, Confirm, the reservation and its reconcile | `EntryReservationProofs` |
| `OrderRecovery` | the lookup of an order whose submission had no clear answer | `EntryOutcomeProofs` |
| `EntryProtection` | what Confirm does after a placement: fill evidence, stop verification, automatic flatten | `EntryOutcomeProofs` |
| `RiskGate` | suggested size, gate at Preview and at Confirm | `EntryOutcomeProofs` |
| `StopMove` | `modify_stop_loss` for users and the monitor | `StopMoveProofs` |
| `PositionRow` | the row of `position_management` under monitor, arm, disarm, kill switch | `PositionProofs` |
| `TradeRules` | which triggers protect, which move the rules send | `PositionProofs` |
| `ClosePosition` | Close and Cancel under the trade lock | `AccountProofs` |
| `AccountCache` | the Hyperliquid client's caches of state and fills | `AccountProofs` |
| `DbConnection`, abstract `AtomicStore` | lock, commit, rollback, cancellation on the shared connection | `DatabaseProofs` |
| `InstanceLock` | one process per data directory | `ApplicationProofs` |
| `AdvisoryCache` | analyses, snapshots, single flight, setup and provider swaps | `ApplicationProofs` |
| `MarketProxy` | the websocket proxy and the MEXC poll | `ApplicationProofs` |
| `ShadowJournal` | proposals and their resolver | `DatabaseProofs` |

`MCEntryReservation`, `MCStopMove`, `MCPosition`, `MCServices`, `MCLiveness`
set them up for TLC. Modules that share no state a property is about are
run side by side in one MC module: a variable `scene` names the one a
behaviour runs, the others stay in an initial state (`Still`). The states
explored are the sum of those of the scenes, not their product, and every
scene keeps all of its own interleavings. That nothing is lost in this is a
theorem of each composition: `PositionComposed` (`PositionProofs`) and
`ServicesComposed` (`ServicesProofs`) show that every behaviour of MCPosition or
MCServices is a behaviour of each of its modules, so all that is proved of a
module holds for what TLC runs; their type invariants, `TypesOK`, are the
theorems `PositionTyped` and `ServicesTyped`. Where components do interact, the
interaction is inside a module: Close and Cancel contend for one lock with a
setup swap, the monitor's visit and the browser's arming write one row, the
reconcile of the monitor and of Preview races Confirm.

| run | module | question |
| --- | --- | --- |
| `entry_safety`, `entry_live` | MCEntryReservation | section 3 |
| `entry_budget_race`, `entry_stale_release`, `entry_wait_forever` | MCEntryReservation | three findings, section 3 |
| `stop_auto` | MCStopMove | automation of the stop move, section 4 |
| `position` | MCPosition, scenes row, move, rules | sections 4 and 5 |
| `position_glitch` | PositionRow | a finding, section 5 |
| `services` | MCServices, scenes close, contend, entry, account, lock, advice, mixed, setup, database, journal, gate, stream, recovery | sections 6 and 7 |
| `close_one_lot`, `sizing_ticks` | ClosePosition, MCServices | two findings, sections 6 and 7 |
| `liveness` | MCLiveness, scenes stop, position | sections 4 and 5 |

Operators commented as a faulty variant are plausible bugs. No action uses
them; each is substituted for the definition it varies to show that a property
notices.

What is left to do: the legacy rows and the in-memory fallback of the
reservation; the rate limiter of the Hyperliquid client.

## 3. EntryReservation: the authority to enter

### Correspondence

One MEXC account, symbol and side, which is the key of the reservation row
(`service.py:1586`). A client `c` is one request (or one monitor visit) the
event loop serves; `pc[c]` advances by one action per `await`.

| variables | in the code |
| --- | --- |
| `token`, `stage`, `shown` | the slot of `PreviewStore`; how far an oid came; tokens a browser was given |
| `lock` | the trade lock |
| `resv`, `phase`, `pre` | the row of `entry_reservations`: oid, phase, pre_hold |
| `link` | `position_entry_links_v2` |
| `ord`, `deal`, `ordPid`, `hold`, `pid`, `ext` | the exchange: order status, executed volume, position id of its fill, position volume and id, volume entered by others |
| `view` | what the positions endpoint answers: a past state that only moves forward |
| `mine`, `row`, `snap` | locals of a request: its own oid, the row it read, the positions it read |
| `stale`, `raced`, `opener` | history, read by properties only |

`StartPreview .. Disclose/Discard` is `preview` (1992-2209); `StartConfirm ..
PostDone` is `confirm` with claim, leverage, submission mark, placement and
recovery (2828-3203, 3912-3947); `ReadNoRow, ReadRow, LookUp,
BindEntryProposal, ReleaseReconciled` is `_reconcile_entry_reservation`
(1631-1717), entered by Preview, Confirm, the post-placement identity step and
the monitor (`StartMonitor`). `Fail` is any raise between two awaits that
leaves no effect; `ClaimCancelled` is a cancellation that arrives while the
INSERT commits. `Restart` is a crash and a start, with what `Database.init`
deletes (`repo.py:211`). `Accept, Fill, CancelOrder, Reduce, ExternalEntry,
ViewCatchesUp` are the exchange, other actors on the account, and the app's
own Cancel, Close and auto-flatten.

Assumptions. A definite error answer means the exchange did not take the order
(an uncertain one means nothing). The positions endpoint lags but never goes
back. A full fill and the terminal status of its order are one step of the
exchange. An order filled over a flatten reports the position id of its last
fill. The token of another market may evict the slot at any time (`Expire`).
`order_id` of the row is not kept: the lookup goes by external oid.

### Runs

| run | instance | shows |
| --- | --- | --- |
| `entry_safety` | 2 tickets of volume 2 and 1, both with a proposal, 2 concurrent requests, budget 2, initial position 0 or 1, 3 position ids, lagging open-orders list | type invariant; `GuardedEntry`; `BudgetUnlessRaced`; `ThesisOfOpener`; `ImplementsAuthority` |
| `entry_live` | 2 unit tickets, 1 request, one unit entered by others, fairness | `FinishedEntryReleased` |
| `entry_budget_race`, `entry_stale_release`, `entry_wait_forever` | | the three findings |

Why these bounds suffice. Two requests are the least with a race; the lock
makes a third Confirm wait and a third reconcile repeats the second. The
budget race needs one entry that filled and one new one: two tickets. Volume 2
makes a partial fill possible; a budget of 2 leaves room for an add-on and
shows one forgotten unit. Three position ids let a position close and reopen
twice; the bound is a guard of `Enter`. `OpenListLags` lets the open-orders
list omit a live order, the worse case, so the other runs leave it out. The
requests are interchangeable, so the safety runs use them as a symmetry set;
`entry_live` does not. Two requests while others trade on the account is
beyond TLC here: the theorems hold for it (any `ExternalVolume`), and the run
is made with the account to ourselves.

`GuardedEntry` is what makes a retry safe: whatever got lost (an answer, the
process), an order that may still execute has the row in phase
`submission_started`. `ImplementsAuthority` says more as a refinement: of
the whole module only `Grant`, `Send`, `Accept`, `Finish`, `GiveUp` of
EntryAuthority are visible. The authority is held by one order at a time, is not
given up while that order may execute, and no order is sent twice (`SentOnce`,
which is therefore no run of its own), whatever is retried, cancelled or
restarted. `BudgetUnlessRaced` is the reservation's purpose: position plus
unexecuted entry within the budget the gate enforced. It is conditional: a
claim or a release on a positions snapshot read before the row changed hands
is recorded in `raced` and excepted; the exception is real and is the first
finding.

### Fairness

Weak fairness on the steps a started request takes by itself; strong fairness
on starting previews and monitor visits and on the two reads and the lookup of
a reconcile, because they compete with `Fail` and `Restart`: the monitor loop
comes round every few seconds (`monitor.py:1044-1070`), and it is assumed that
network reads do not fail and the process is not restarted every single time.
Nobody is obliged to confirm, and the exchange may let an order rest for ever,
so the property starts from a finished order.

### Findings

* `BudgetRespected` (README.md:111): Confirm reads positions, then orders,
  then the row. A reconcile by the monitor or by a preview in between releases
  the row of an entry that filled after the positions were read. Confirm then
  sees neither, and gates on a position without that fill.
* `ReleaseSeesFill` (CHANGELOG.md:16-17): the volume test
  `hold >= pre_hold + dealVol` does not ask how old the snapshot is. A
  reconcile that read a larger position before it was reduced and an entry was
  claimed and filled releases on a snapshot that never saw the fill.
* `WaitingHelps` (`service.py:2083`): an entry that filled and was reduced
  before any reconcile cannot satisfy the test again. The refusal asks the user
  to wait for exchange state; waiting never helps and no operation of the
  program removes the row. `FinishedEntryReleased` is what does hold.

### Proofs (`EntryReservationProofs.tla`)

For all finite or infinite sets of oids and requests, all volumes, budgets and
bounds that satisfy the module's named assumptions:

| theorem | property |
| --- | --- |
| `TypeCorrect` | `TypeOK` |
| `EntryAlwaysGuarded` | `GuardedEntry` |
| `BudgetKept` | `BudgetUnlessRaced` |
| `OrderSentOnce` | `SentOnce` |
| `ThesisKept` | `ThesisOfOpener` |
| `ReservationIsAuthority` | `ImplementsAuthority` |

The argument has four layers, each an inductive invariant that uses the ones
below it.

1. *Shape* (`Roles`, `Rows`, `Tickets`): which locals a request has at which
   step, that the holder of the lock is the one confirm between `mark` and
   `post`, and that the stages of an oid, the token and the row agree.
   `GuardedEntry` is not inductive without it: `Undo` deletes a row and is
   harmless only because an order in `undo` was never sent or was refused.
2. *Ledger* and `GuardInv`: an order beyond "none" was claimed and submitted;
   the row's phase tells whether its order was sent; a request at `release`
   holds evidence that its row's order is over. From it follow `GuardedEntry`,
   `SentOnce` and the refinement, action by action.
3. *Budget*: a snapshot is a past state (`Past`), so the position grew since by
   at most the fills of the reserved order and what others added (`Fills`,
   `SnapBeforeRow`, `SnapOfRow`); a request that is not `stale` and finds no
   row has seen every earlier fill (`FreshInv`); and what the gate accepted on
   that snapshot bounds what is outstanding (`ClaimBounds`, `BudgetInv`).
4. *Thesis* (`ThesisInv`): a snapshot that shows no position names an earlier
   one than the account has now (`FlatIsEarlier`), so what a look-up matched is
   the position the fill went into (`Matched`), and a bound thesis is that of a
   finished first entry of that position (`Bound`), which holds always. That it
   also opened it (`FirstOpens`) needs snapshots that have seen every position
   the other entries filled into (`SeenBeforeRow`, `SeenByConfirm`), hence
   `raced = {}`.

Every conjunct was checked as an invariant by TLC before it was proved. Only
model-checked: liveness (out of the prover's reach) and the findings.

## 4. StopMove: replacing a stop

### Correspondence

One Hyperliquid position (`modify_stop_loss` refuses any other venue,
`service.py:4895`), long; for a short every price comparison is mirrored. A
client is one browser request or the one trade monitor; `pc` advances by one
action per `await`.

| variables | in the code |
| --- | --- |
| `hold`, `epoch`, `mark`, `stops`, `flight` | the exchange: position size, which Flat-to-Open fill began it, mark, resting stop-loss triggers, placements on their way |
| `served` | the newest Flat-to-Open fill `user_fills` shows; lags behind `epoch` |
| `mgmt` | the OPEN `position_management` row: `armed_rules`, `open_sig`, `high_water`, `user_override_hw` |
| `lock` | the trade lock |
| `want`, `size`, `old`, `new`, `tries` | locals of a move: price, position size read last, old stop ids, id of the new stop, verification attempts. During a monitor visit `want` holds the mark it read |
| `plan` | `required_armed_rule` and `expected_position_signature` |
| `attempts` | `tm_be_attempts` of this position |
| `shaken`, `unknown`, `blind`, `held` | history, read by properties only |

`StartMove, Acquire .. RecordOverride` is `modify_stop_loss` (4813-5273) in
the order of its awaits; `MonitorVisit .. MonitorDecide, Latch` is
`_process_position` (`monitor.py:412-825`); `MonitorMisses, AbsenceForgiven,
CloseRow` the sweep of `_run_one_cycle`; `Arm, Disarm, KillSwitch` the routes
of `main.py`. `Baselines` is `upsert_position_mgmt` (`repo.py:1136-1299`).
`Fire, OthersCancel, OthersPlace, Grow, Shrink, FillsServed, PriceMoves` are
the exchange and other actors, the app's own Close and Confirm included; they
may happen at any time.

What is abstracted. Which price the rules choose (any below the mark read), so
`be_done`, ATR, R and coverage only decide whether `MonitorDecide` or
`MonitorIdles` is taken; the number of absent cycles before the row is closed;
the entry's deviation (any upsert may find it). An arm request changes one rule
and is one step under the lock; that it reads, merges and writes in several
awaits, with the monitor's unlocked writes between, is in PositionRow.
Database writes succeed except the two the code goes on without
(`set_user_override_hw`, `mark_be_done`).

What is assumed of the exchange. The list of open stops never shows a stop that
is gone, but may omit any or fail. A cancel takes effect before its answer or
never. A definite error means the stop was not taken; an answer without an id
and an uncertain one mean nothing, and the stop may come to rest much later
(`Accept` after the request ended). A stop may rest with less volume than
asked, at the price rounded up to the exchange's grid (`Tick`, towards entry,
as `round_hl_price_side_aware` does).

### Properties and their windows

`CancelKeepsCover` compares, at the moment an old stop goes, the exchange as
it is (not as it was read) with what goes: a stop at least as protective for
the whole position rests. `shaken` excepts what no client can exclude: the new
stop was cancelled or fired after it was verified, or the position grew after
it was last read. The code's second reads are what keeps that window small;
without them (`CoversPlacedSize`) TLC finds a cancelled stop with the position
half covered.

The next four properties speak of the step at which an automatic stop leaves.
`AutomaticOnlyWhileArmed`: a disarm or kill switch that returned is final,
however long a decided move has waited for the lock. `AutomaticSamePosition`:
the move is for the position the monitor decided on; the windows are a reopening
after the identity read, and a fills endpoint that does not show it yet.
`ManualStopHolds`: a trail decided before, or waiting behind, a manual move does
not undo it; an override that could not be written is reported by the code as a
warning and excepted. `AutomationBacksOff`: never again after an unknown
outcome, and at most `_BE_MAX_ATTEMPTS` placements without a verified one, until
arm, disarm, kill switch, a closed row or a restart clears the count.

`LockReleased` is liveness: every move that holds the lock lets it go, although
the list may never show the new stop and the position may outgrow it again and
again. Fairness is `WF(lock = c /\ Move(c))` for each client: an await of a
request that holds the lock returns or times out (the client's calls carry
timeouts). Nothing is assumed of the exchange, the price, the users or the
monitor.

### Runs

| run | instance | shows |
| --- | --- | --- |
| `position`, scene move | 1 user, no monitor, 2 stops, 3 prices on a grid of 2, tolerance 1, position up to 2, 2 positions, 1 verification attempt | `TypeOK`, `CancelKeepsCover` |
| `stop_auto` | 1 user and the monitor with both rules, 2 stops (symmetric; two at a time only while no row is managed), 2 prices, 2 successive positions of one unit, 2 failed attempts, 1 verification attempt | the four automatic properties |
| `liveness`, scene stop | 1 user, no monitor, 2 stops, 2 prices, 2 verification attempts, fairness | `LockReleased` |

Why these bounds suffice. Cover is about one move under the lock against the
environment: one stop is the new one, one it cancels; the grid is coarser than
the price step so that rounding moves a stop, and the tolerance accepts it; two
units make a partial stop and a growing position. The property is proved for
every instance, so the run is kept small. The automatic properties speak of the
row, not of old stops: the constraint `SecondStopUnmanaged` of MCStopMove
therefore drops states with two stops and a managed row, and two stops remain
where no row is managed, so that the cancellation of an old stop is reached. Two
prices give a high water that passes an override. Both rules are needed where
one may be disarmed while the other moves; two positions allow one reopening.
With two attempts one failure leaves one more try.

### Proofs (`StopMoveProofs.tla`)

For any sets of users and stop ids, any prices, grid, sizes and bounds that
satisfy the module's named assumptions:

| theorem | property |
| --- | --- |
| `TypeCorrect` | `TypeOK` |
| `CoveredWhileCancelling` | `CancelKeepsCover` |
| `ArmedWhenSent` | `AutomaticOnlyWhileArmed` |
| `SamePositionWhenSent` | `AutomaticSamePosition` |
| `ManualMoveRespected` | `ManualStopHolds` |
| `BacksOff` | `AutomationBacksOff` |

None of the properties is inductive. `Control` says who holds the lock and
which locals a request has at which step. `Automatic` rests on it: between
`CheckRow` and the placement only the holder of the lock, the monitor, changes
`armed`, the override or the row's identity, so what was checked still holds;
the counter bounds the placements made since it was cleared, one more while a
placement is being verified. `Cover` says an id names one order, the new stop
is at least as protective as every old one that may still be cancelled
(`RoundedUp`, `NeverLoosens`), and after verification covers the size read
last. `OnlyCancelOld` shows that no other step touches the old stops in the
last phase. Every conjunct was checked by TLC first. Only model-checked:
`LockReleased`.

## 5. PositionRow and TradeRules: the monitor's memory and its rules

### PositionRow

| variables | in the code |
| --- | --- |
| `open, rowEpoch, entry, rowServed, thesis` | the exchange: a position is open, which one, the class of its entry price, the opening `user_fills` shows, the mark beyond the invalidation price |
| `row` | the row of `position_management`: status, `open_sig`, entry, `be_done`, `armed_rules`, `last_alert_state` |
| `rowLock` | the trade lock |
| `mpc`, `visit`, `absence` | a cycle of the monitor and its locals, `tm_absence` |
| `upc`, `req` | one arm or disarm request (`main.py:3590`) and its locals; `req.torn`, a history: the monitor took a new baseline after the request's first await |
| `misses`, `glitches`, `late` | history, read by properties only |

`SnapshotShows/Misses` is the snapshot of `_run_one_cycle`; `MonitorFills ..
MonitorAlerts` are the awaits of `_process_position`, of which only the move
holds the trade lock; `Sweep` is the absence count. `ArmSnapshot .. PatchWrite`
are the awaits of an arm request inside one hold of the lock. Each write of
the row is one statement (`Upsert`, `SetAlerts`, `SetArmed`, `MarkBeDone`).
A value is represented by where it comes from: the epoch a rule was armed in,
the signature a latch was set for. That is what the properties are about.

`LatchOfThisPosition`: no order of late writes hands a new position the
`be_done` of an old one. `ArmingKept`: the monitor drops the arming of an open
position only after `_CLOSE_GRACE_CYCLES` consecutive snapshots omitted it, or
for an entry that is not the baseline's. The stronger claim of the comments,
`SingleGlitchForgiven`, is false and the finding of `position_glitch`: the count
survives a reopening. `NoOldArming`: a new baseline, which
`upsert_position_mgmt` takes for a closed row or a deviated entry, hands on no
rule armed for an earlier position; a changed signature alone keeps the arming,
as the code intends for a reopening at the same entry. The exception
(`req.torn`) is real: an arm request reads the stored rules, waits, and writes
the merged rules back, and when the monitor takes the new baseline in between
the old arming is written onto it, although the docstring of
`upsert_position_mgmt` says that the user must re-arm. Without the exception TLC
finds that behaviour. `VanishedRowClosed` and `AlarmShown` are its liveness,
under the fairness that the loop comes round, its awaits return, and no read,
write or snapshot fails for ever. `AlarmShown` says that an alarm overwritten by
an arm request that read the row before the monitor wrote it comes back.

### TradeRules

One visit decides (`MonitorDecides`), the move follows as one step
(`AutoMoved`, `AutoNotMoved`, the protocol being StopMove's), and between
visits the trader arms and disarms, moves the stop, places or cancels an order
at the exchange, the position grows and shrinks, and the quote moves. Both
directions. `CoverPrice` is the price at which the stops, best first, add up to
the whole position (`_current_sl`), `Seen` what the guard of a move counts as
stops, which is less.

Every visit and every request that arms writes the row first (`Refreshed`): a
position whose average entry is off the recorded one by more than the tolerance
of `_entry_deviated` gets a new baseline, without arming or latch; within the
tolerance the row stays, and with it `be_done`, although the position grew and
the resting break-even stop has only the size it had when it was placed. So
"break-even is done" cannot mean that the whole position is stopped there, and
`BreakEvenKept` does not say so. It says what the latch does stand for: with
`be_done` set, some one stop rests at or past the break-even of the last confirmed
move, for all that this move covered. `secured` remembers that size and price;
it is written by every confirmed move to break-even or better, the trader's
through the app included, and is cut to the position when that shrinks.
Excepted, and stated in the property:

* lots added after that move, which no stop covers until another move does. The
  monitor sees that the stops do not add up (`CoverPrice` is 0), warns that the
  coverage is incomplete and moves nothing; an entry of the app brings its own
  stop.
* orders the trader removed at the exchange (`meddled = "removed"`).
* the lots left when the securing stop itself was triggered (`Spent`): it closed
  what it covered.

The break-even price is that of the decision: lots added between decision and
answer may draw the average entry, and the stop is not checked against the new one.

Bounds. Entry at 5 of 8 prices, the quote moves by 3, one R of 2, an entry
tolerance of 1, averages 4, 6 and 7: the quote can gain one R and fall back, an
add-on stays within the tolerance or leaves it, on either side. A position opens
with 2 lots and has at most 3. Three orders at a time: the old stop, a new one,
one the trader adds, once. MCPosition keeps apart what would only multiply the
states (`RulesBound`): both rules start armed and are armed again together;
a position grows once and may then shrink, or the trader changes an order at the
exchange, not both; after a removal only the quote moves. The proof has none of
these bounds. `NextPosition` takes the signature of the new position as known; that an
unknown one leaves the latch of the last position in the row is in PositionRow.

Entry prices of PositionRow change one way in `position`, and the mark crosses
the invalidation price one way: the two classes of entries are alike, and no
safety property reads an alarm. Two positions, a grace of 2 as in the code, one
rule (two rules only multiply the arming). A restart may happen at any time.

What the model shows beyond the properties. The monitor passes the entry to
`classify_protection`, `_existing_sl_orders` does not, so an unlabelled trigger
is a stop for the monitor and none for the guard of a move, although the
docstring at `service.py:4600` says the two cannot drift. The monitor compares
with the price that covers the whole position, the guard with the tightest stop
of any size: beside a tighter partial stop every automatic move is refused until
the attempts are used up. Neither loosens a stop.

### Proofs (`PositionProofs.tla`)

For any rules, entries, openings and grace:

| theorem | property |
| --- | --- |
| `RowTyped` | `RowTypeOK` |
| `LatchBelongs` | `LatchOfThisPosition` |
| `ArmingStays` | `ArmingKept` |
| `RulesNotHandedOn` | `NoOldArming` |

The invariant adds `RowLockHeld`: while the monitor moves a stop it holds the lock
and the row keeps the signature the move was checked against. Without it a latch
could be set after an upsert changed the signature; with it only the monitor
itself writes the signature outside the lock, and it is busy. `ArmingStays` needs
two more facts. `Counted`: the monitor's count of absences never exceeds the
consecutive snapshots that omitted the position, a restart included. `Dormant`: a
closed row arms nothing, so an arming that a step drops was in an open row, and
only the sweep and a fresh baseline drop one. `RulesNotHandedOn` needs a relation
between three moments of a request: no position is known before it was opened
(`Ages`), and while no baseline came between its awaits the position it saw is no
older than the baseline and the rules it read are still the row's (`RequestFits`).
So what it writes adds at most a rule of a position the baseline may know.

For any ladder of prices (`TicksAssumption`) and any resting orders
(`OrdersAssumption`), in both directions:

| theorem | property |
| --- | --- |
| `RulesTyped` | `RulesTypeOK` |
| `BreakEvenHolds` | `BreakEvenKept` |

`Latching`: a move that is to set the latch is at the break-even of its decision
or better, also when a trail was the more protective one and was sent for it.
`Within`: what is secured is at most the position, so a new stop, which has the
size of the position, can take the place of the one that secured it. Between
decision and answer the position may grow or shrink and the trader may add a
stop, move one or cancel one; a move that is refused or unconfirmed leaves every
stop that rested (`UnconfirmedKept`), and a confirmed one, the trader's too,
cancels no stop tighter than itself (`MovedKeeps`, from `TightestIs`), so either
the securing stop stays or the new one is at or past its price. A smaller
position needs less (`FewerSecured`), a refreshed row is latched only if it was
(`RefreshedRow`).

## 6. Orders: recovery, protection, gate, close

### OrderRecovery

One request per action, after a submission timed out, was refused for certain
or was accepted. `Direct, PageRead, Open` is `order_by_external_oid` of the
MEXC client: a direct endpoint, then rounds of history pages and the list of
open orders; `Cloid, Open` that of Hyperliquid. Between two requests the order
arrives, fills, is cancelled, enters the history late, and other orders of the
symbol push it to a later page. `Read` is `_recovery_is_match` with the
comparison of terms. `RecoveryTells`: "failed" only if nothing was sent;
"recovered" only for an order that reached the exchange with the terms sent;
"unknown", which keeps the reservation, for an order that reached it only if it
moved while it was looked for, has no fill, was misreported, or is where no read
succeeded or no scan reaches. Every request is judged on its own terms: `track`
says what the order did since the last requests began, which are those of a
round at MEXC, the cloid request and the next at Hyperliquid. An order that
arrived late is thus no excuse for a request that came after it, and once a row
of the order was read (`"read"`) neither a move nor a failed request excuses
"unknown": the direct, cloid, history and open-order reads are all held to it,
so a cancelled order with a partial fill is never taken for one without. Bounds: 2 rounds and 2 pages of 2 rows for the
code's 3 rounds and 3 pages of 100; an order can be found on the first page,
later, pushed over a page boundary between two reads, and beyond the last.
Assumed: the history is newest first by the time of entry; the direct endpoint
may not exist. Seen: with 300 or more rows a match in the history still ends
"unknown", the safe side; Hyperliquid's evidence is compared by side, size and
reduce-only, not by price.

### EntryProtection

`at` advances through `place_order`, fill evidence, `_verify_sl_attached`,
judgement and automatic flatten of `_confirm_locked`. Every read may fail, lag
behind the fill or the stop; others may trade once. `PlacedIsCovered`: an entry
reported as placed with a verified full stop has one for every filled lot.
`ProtectedNotFlattened`: an entry with its stop in force is closed only on
positive evidence that the stop is missing. `FlattenOwnFill`: not a lot of an
older position is closed. Volume 2 makes a partial fill, 2 attempts a look that
fails before one that does not. The exceptions the properties name are real: a
stop of an earlier position at the same price counts as found if the position
could not be seen to predate the entry; a partially filled MEXC limit order
matched in the list is reported in full; a complete but lagging stop list
followed by failed looks counts as checked, so a stop not yet listed is taken
for missing; an entry cancelled because no fill showed may have filled in part.

### RiskGate

Pure operators for rounding, exposure and the gate, one operator per group of
errors, and the five steps suggestion, typing, Preview, market, Confirm.
`SentWithinBudget` states the promise independently of the code's formula: at
every price the order may fill at, its loss at the rounded stop plus the worst
losses of the open positions is within `MAX_RISK_PCT`. It is about orders with a
stop, which is all of them unless `ALLOW_UNPROTECTED_ENTRY` is set. `Services.cfg`
takes two profiles, contracts with and without a price tick, one not tradable,
accounts without equity, rich, poor and with a position on either side with or
without a protective stop, tickets of both sides and types with stops on and
between the ticks, on either side of the entry and between the last price and the
slippage cap. `SuggestedAccepted` is violated for a stop between the ticks: the
finding of `sizing_ticks` (the gate refuses; nothing too large is sent).

`GateAssumption` has the ranges the configuration accepts and the positive
metadata the clients require. It leaves out a slippage cap of 100 %, which is an
error of every short market order.

Seen: the gate judges a market order's stop against the cap, not the last price,
so a long's stop may lie above the market, within the slippage; such an order is
closed at once at a loss the budget covers (`LossFrom`). The Hyperliquid client
sends no cap below 0.05 % (`client.py:390`), while the gate reckons with the
configured one; the model takes the cap as configured. Left out: float
tolerances and parsing; MEXC fills beyond the slippage cap, which the exchange
does not promise; a manual ticket's stop is the trader's own; the estimate of the
suggestion by base symbol.

### ClosePosition

Requests queue at the trade lock with the client of their moment; a setup swap
replaces it (`ClientReplaced`); the mutation outlives a caller who is cancelled
(`CallerLeaves`, `_run_locked_mutation`). Close reads twice, sends one
reduce-only order, recovers it after an uncertain answer, and reads again;
Cancel names an order in the list. `OneMutation`, `ActiveClientOnly` are the
lock's; `FailureTouchesNothing`: a plain failure never touched the position;
`ClosedButOneLot`: a verified close closed what it sent but for the tolerance.
That tolerance is the finding of `close_one_lot`. Scene close is one Close of
any share, scene contend a Close beside a Cancel; positions of up to 2 lots,
grown, shrunk or flipped by others between any two reads. An order is
acknowledged before it fills, as at MEXC; the Hyperliquid client answers with
an error when nothing was filled, so the finding is MEXC's.

### Proofs of gate, recovery and protection (`EntryOutcomeProofs.tla`)

For any volume, number of looks and activity of others (`EntryAssumption`), any
page size, number of pages, rounds and rows (`RecoveryAssumption`), any limits,
metadata, accounts, tickets and prices (`GateAssumption`):

| theorem | property |
| --- | --- |
| `EntryTyped` | `EntryTypeOK` |
| `PlacedCovered` | `PlacedIsCovered` |
| `ProtectedKept` | `ProtectedNotFlattened` |
| `FlattenWithinFill` | `FlattenOwnFill` |
| `RecoveryTyped` | `RecoveryTypeOK` |
| `RecoveryTruth` | `RecoveryTells` |
| `GateTyped` | `GateTypeOK` |
| `BudgetOfSent` | `SentWithinBudget` |

`ProtectionInv` carries what was learned from the placement to the answer: which
orders can no longer fill (`Books`), that a reported full fill is final
(`Reported`), that Hyperliquid's stop has the size of the reported fill
(`Stops`), on which of the three grounds the stop counts as verified
(`Verified`), what was looked at before an entry is closed (`LookedAt`), and that
the evidence for the own fill is no more than the fill (`Evident`).
`RecoveryInv`: a scan that has not met the order's row, while the order stayed in
the history, still has the row ahead (`Scanned`), since a row is only pushed
towards later pages; the requests before the open orders missed only what they
could not see (`Missed`).

The gate's argument is arithmetic. `LossReckoned`: an open position loses at most
what it is reckoned with, its stop where that is protective and its liquidation
otherwise, and `OpenWithin` adds this up over all positions of a side: the sum of
a finite set is a recursive function, whose existence (`SumsExist`) and
monotonicity (`SumsOrdered`) are shown from the smallest set that would be an
exception. `TicketRounded`: whatever the rounding and the cap, no fill is worse
than the price the risk is reckoned from. `GateHolds` puts the two together with
the slippage buffer, and the order that is sent is the one judged, since Confirm
judges and sends in one step (`GateInv`).

### Proofs of Close and Cancel (`AccountProofs.tla`)

`CloseTyped` (`TypeOK`), `OneAtExchange`, `SentByActiveClient`,
`FailedMeansUntouched` and `VerifiedClose` (`ClosedButOneLot`), for any number
of requests and swaps. `LockOK`: every step under the lock belongs to the
holder, whose client is the active one, since the swap takes the lock too.
`OrderOK`: an order exists only after it was sent, has filled only when the
exchange is done with it, and a plain failure is reported only where it is
neither. `SeenOK`: beside a close nobody disturbs, the position is what it was
when the close was sized less what its own order filled, and the endpoint shows
no less than that. Liveness of the queue (`Answered`) is stated and not part of
a run.

## 7. Services

| module | state | actions | properties |
| --- | --- | --- | --- |
| `AccountCache` | account version, epoch, sequence number, the two caches, fetch locks, one read per thread | `StartFresh .. Return` are the steps of `_user_state_cached` and `user_fills`; `Acknowledged` is `_invalidate_user_state_cache` | `ReadsSeeTrades`, `CacheNeverBack` |
| `DbConnection` | inbox of the connection's thread, open transaction, durable statements, holder of the connection lock | `TakeLock, Served, Cancel, RollbackFails, Closed` are `_acquire` and a method of two statements; `Own..` a connection per call after the shared one was dropped; `Shutdown`, `Restart` | `ImplementsStore` |
| `InstanceLock` | marker file, legacy owner, kernel lock, step of each start | `OpenFile .. MarkFails` are `_acquire_instance_lock`; `StartUp .. Release` the lifespan; `Crash` | `OneOwner` |
| `AdvisoryCache` | active client, generation, provider; requests with the context they took; lock entries; stored results; setup submissions; a money action | `BeginAdvisory, Enter, Continue.., GiveUp` are analyze, reevaluate, market and mini; `Install` setup under the trade lock | `AdviceIsCurrent`, `OneFlight`, `SetupOnce` |
| `MarketProxy` | market clock, browser, loop step, tasks, timeline, pause | `Connect .. Wake` the Hyperliquid loop, `Poll..` the MEXC one | `FeedNeverRewinds`, `FlappingBacksOff` |
| `ShadowJournal` | price path, rows, resolver pass | `Insert, Refresh, Clear`; `ReadPending, FetchCandles, WriteOutcome` | `OutcomeTrue`, `FinalKept` |

`AccountCache`. Two threads, one change of the account, two fetches: a fetch
overtaken by another and by an order. Time to live is left out: a cached value
may be too old at any look. Seen: an uncertain or refused mutation does not
invalidate, so only acknowledged trades are promised.

`DbConnection`. Two units of two statements, the least that interleave in one
transaction. aiosqlite is external: its thread serves the statements in order,
one whose sender was cancelled included. `ImplementsStore`: to its callers the
connection is AtomicStore. The statements of a unit become durable in one step or
never, a unit that was refused never, and each caller hears one answer that
stands: whoever hears success has it stored, and only a cancelled caller does not
know. This is the reason the code drops the connection when a rollback fails.
It implies `WholeUnits`, that no part of a unit is durable without the rest.

`InstanceLock`. Two starts and one legacy owner. Seen: a crash between the
exclusive creation and the marker leaves a file every later start refuses until
it is removed by hand, and two first starts at once may both fail. Both are
safe.

`AdvisoryCache`. The scenes choose who may come: three shared analyses of one
key, so that one leaves while one waits and one arrives; a shared, a forced
analysis and a reevaluation beside provider swaps; two setup submissions beside a
forced analysis, a snapshot and a money action. An entry's age is left out.

`MarketProxy`. A clock of 4 in candles of 2; the pause is capped at 8 after 3
doublings. Frames may be late by any amount, after a reconnect too.

`ShadowJournal`. An independent statement of what happened (`Agrees`, from the
moves of the price) is compared with what the resolver concludes from candles
that may be missing, cut or unfinished. Window 3 over candles of 2, one row,
one refresh. Within the candle of the fill the order of fill and target is not
known and `Agrees` does not ask for it. `JournalAssumption` makes the window
longer than one candle and a half, so that a whole candle lies in it; the code's
is at least 96 candles (`_WINDOW_TF_BARS`). With a window no longer than one
candle a market proposal could end NO_FILL.

### Proofs

* `AccountProofs`, the cache: `CacheTyped` (`CacheTypeOK`), `ReadsAreCurrent`
  (`ReadsSeeTrades`) and `CacheOnlyForward` (`CacheNeverBack`). `CacheInv`
  relates three clocks: a value cached in the current epoch is no older than the
  last acknowledged trade (`VersionsOK`); a read under way carries a number and
  an epoch that are its own (`FetchesApart`), so the one that may store has the
  newest number and nothing newer is cached; what it asked for is at least its
  floor (`ReadOK`).
* `DatabaseProofs`, the connection: `DbTyped` (`DbTypeOK`), `UnitsAreWhole`
  (`WholeUnits`), `ConnectionIsAtomic` (`ImplementsStore`). `Inbox` is the
  heart: up to the first close all messages belong to one unit, and if that unit
  was cancelled a rollback or a close follows its statement. So a commit finds
  exactly the statements of its own unit in the transaction (`StatementsBefore`)
  and is a step `StoreAll` of the store. The other steps change no durable
  statement; what they tell a caller is told once, and a report that comes after
  the caller has left changes nothing (`AbstractStep`).
* `DatabaseProofs`, the journal: `JournalTyped` (`JournalTypeOK`),
  `DecidedStays` (`FinalKept`), `OutcomesTrue` (`OutcomeTrue`), for any path of
  prices, window, proposals and number of rows, whichever candles are missing,
  cut or served early. Three parts. First, what `resolve_entry` concludes from
  candles is what the moves of the price were (`ResolveDecides`): a candle says
  what its two moves say (`BarIs`), every move of the window up to a candle
  without a gap lies in one that was seen or in the one that covers t0
  (`MoveCovered`), so the first candle that hits is the first that could
  (`FirstHit`), and without one the market neither hit nor, for a limit entry,
  filled (`NoHitDecides`). Second, such a claim stays true as time goes on,
  although the last move of an unfinished path still grows (`ClaimsStay`).
  Third, the outcome is written to the proposal it was concluded for: a row read
  or decided is still in its place, or a later one has it (`Follows`), and the
  guards on version and t0 tell the two apart (`WrittenTrue`).
* `ApplicationProofs`, the instance lock: `LockTyped` (`LockTypeOK`),
  `OneProcess` (`OneOwner`). Whoever got past the lock holds it, and a living
  legacy owner keeps everyone out.
* `ApplicationProofs`, the proxy: `ProxyTyped` (`ProxyTypeOK`),
  `DisplayedForward` (`FeedNeverRewinds`) and `FailuresBackOff`
  (`FlappingBacksOff`). `NotAhead`: nothing displayed is newer than the timeline
  the proxy keeps. `BackOff`: a pause is never shorter than the failures so far
  ask for, whether it was doubled before its sleep (MEXC) or is doubled after it
  (Hyperliquid), and the tasks of a session end with it. The doubled pause is a
  recursive function; `DoubledIs` shows that it is what its equation says.
* `ApplicationProofs`, the advisory caches: `AdvisoryTyped` (`AdvisoryTypeOK`),
  `OneRunPerKey` (`OneFlight`), `CurrentAdvice` (`AdviceIsCurrent`),
  `SetupInstalledOnce` (`SetupOnce`). `Flights`: whoever waits or runs under a
  key has the entry that is stored there, an entry lives as long as somebody has
  it, and of its holders one runs. `Fresh`: what is stored for a client or a
  generation was computed for it, and a generation that a swap opens has nothing
  stored. `SetupInv`: the setup window is open only while nothing was installed,
  and whatever client was closed is not the active one.
* `ServicesProofs`: `ServicesComposed` and `ServicesTyped` (`TypesOK`), see
  section 2. A scene takes the steps of its modules one at a time and leaves the
  others' variables alone; what a scene restricts only takes behaviours away
  (`StepsOfParts`).

All for any threads, units, starts, requests, clocks and bounds that satisfy the
named assumptions.

`services` checks deadlock off: requests are served once, a socket that ended
and a decided ticket have no step left. `MCLiveness` restates the fairness of
StopMove and PositionRow for its scenes.

## 8. Only model-checked

* Liveness is out of the prover's reach: `FinishedEntryReleased`,
  `LockReleased`, `VanishedRowClosed`, `AlarmShown`.
* The findings are counterexamples of TLC.

Every other invariant, action property and refinement the passing runs check is
a theorem; so is the type invariant of every module.

## 9. Not modelled

Of the entry path: rows of the legacy account name, the in-memory fallback of
the reservation when there is no database, the persistence of the exchange's
order id, the audit rows. The Hyperliquid entry keeps no reservation. Of the
monitor: the backfill of the open time and of the invalidation price. Of the
clients: rate limiter, signing, HTTP, retries of reads and the parsing of market
data; a call's outcomes are choices. Of the database: schema migration. Of the
journal: the statistics. Of the web application: routing, validation, the
dashboard. Prompts, provider failover and the scanner's ranking, indicators, the
browser, the environment file, scripts and tests have no state an order depends
on; `PROJECT.json` gives the reason for each.
