------------------------------ MODULE PositionRow ------------------------------
(***************************************************************************)
(* The durable row of one managed Hyperliquid position (db/repo.py, table  *)
(* position_management) under its two writers: the trade monitor           *)
(* (orders/monitor.py), whose row writes take no lock but the connection's *)
(* own, and the browser's arm, disarm and kill switch (main.py), each in   *)
(* one hold of the trade lock but with several awaits.                     *)
(*                                                                         *)
(* Positions of the same symbol and side follow each other as epochs. The  *)
(* row's values are represented by where they come from: the epoch a rule  *)
(* was armed in, the signature the break-even latch was set for.           *)
(* An entry price is a class: two classes deviate beyond the tolerance.    *)
(***************************************************************************)
EXTENDS Integers

CONSTANTS
  MaxOpenings,         \* bound: positions opened one after the other
  Entries,           \* classes of entry prices
  ArmRules,             \* _ARM_ALLOWED_RULES
  CloseGraceCycles,  \* _CLOSE_GRACE_CYCLES
  Restarts           \* may the process restart

ASSUME RowBounds == MaxOpenings \in Nat /\ CloseGraceCycles \in Nat \ {0}
ASSUME RowRules == Entries # {} /\ "auto_be" \in ArmRules /\ Restarts \in BOOLEAN

VARIABLES
  \* the exchange
  open, rowEpoch,  \* a position is open; the current or last one
  entry,        \* class of its entry price
  rowServed,       \* newest opening the fills endpoint shows
  thesis,       \* the mark is beyond the invalidation price
  \* the database
  row,          \* [open, sig, entry, be, armed, alerts, since]
  \* the process
  rowLock,         \* holder of the trade lock
  mpc, visit,   \* the monitor: step and locals
  upc, req,     \* one browser request: step and locals
  absence,      \* tm_absence
  \* history
  misses,       \* consecutive snapshots without the position, capped
  glitches,     \* ... of them those taken while it was open
  late          \* rules armed since the monitor's last snapshot

account == <<open, rowEpoch, entry, rowServed, thesis>>
history == <<misses, glitches>>
monitor == <<mpc, visit, absence, history>>
browser == <<upc, req>>
rowVars == <<account, row, rowLock, monitor, browser, late>>

Kinds == {"thesis", "be_error"}
Arming == [ArmRules -> Nat]
Disarmed == [r \in ArmRules |-> 0]
\* be: signature of the position the latch was set for, 0 if be_done = 0.
\* since: epoch whose entry price the baseline was taken from.
Row == [open : BOOLEAN, sig : Nat, entry : Entries, be : Nat, armed : Arming,
        alerts : SUBSET Kinds, since : Nat]
AnyEntry == CHOOSE e \in Entries : TRUE
ClosedRow == [open |-> FALSE, sig |-> 0, entry |-> AnyEntry, be |-> 0, armed |-> Disarmed,
          alerts |-> {}, since |-> 0]
\* due: break-even is reached and not latched.
NoVisit == [epoch |-> 0, entry |-> AnyEntry, sig |-> 0, alerts |-> {}, due |-> FALSE, rule |-> "auto_be"]
\* torn, a history: the monitor took a new baseline after the request's first await.
NoRequest == [enable |-> FALSE, rule |-> "auto_be", epoch |-> 0, entry |-> AnyEntry,
              sig |-> 0, armed |-> Disarmed, alerts |-> {}, torn |-> FALSE]

RowTypeOK ==
  /\ open \in BOOLEAN /\ rowEpoch \in Nat /\ entry \in Entries /\ rowServed \in Nat
  /\ thesis \in BOOLEAN /\ row \in Row /\ rowLock \in {"free", "monitor", "browser"}
  /\ mpc \in {"idle", "fills", "upsert", "read", "wait", "moving", "alerts", "sweep"}
  /\ visit \in [epoch : Nat, entry : Entries, sig : Nat, alerts : SUBSET Kinds,
               due : BOOLEAN, rule : ArmRules]
  /\ upc \in {"idle", "snapshot", "fills", "upsert", "read", "clear", "write"}
  /\ req \in [enable : BOOLEAN, rule : ArmRules, epoch : Nat, entry : Entries, sig : Nat,
             armed : Arming, alerts : SUBSET Kinds, torn : BOOLEAN]
  /\ absence \in 0..(CloseGraceCycles - 1) /\ misses \in 0..CloseGraceCycles
  /\ glitches \in 0..CloseGraceCycles /\ late \subseteq ArmRules

RowInit ==
  /\ open = FALSE /\ rowEpoch = 0 /\ entry \in Entries /\ rowServed = 0 /\ thesis = FALSE
  /\ row = ClosedRow /\ rowLock = "free" /\ mpc = "idle" /\ visit = NoVisit
  /\ upc = "idle" /\ req = NoRequest /\ absence = 0 /\ misses = 0 /\ glitches = 0 /\ late = {}

-----------------------------------------------------------------------------
(* The row's writes (db/repo.py) *)

NewRow(seen, e, sig) ==
  [ClosedRow EXCEPT !.open = TRUE, !.sig = sig, !.entry = e, !.since = seen]

\* A new row, or an entry that deviates: a new baseline.
Rebased(r, e) == ~r.open \/ r.entry # e

\* Faulty variant: a changed signature leaves the break-even latch.
UpsertKeepsLatch(r, seen, e, sig) ==
  IF Rebased(r, e) THEN NewRow(seen, e, sig)
  ELSE IF sig # 0 /\ r.sig \notin {0, sig} THEN [r EXCEPT !.sig = sig, !.alerts = {}]
  ELSE [r EXCEPT !.sig = IF @ = 0 THEN sig ELSE @]

\* Faulty variant: a deviated entry gets a new baseline and keeps the arming.
UpsertKeepsArming(r, seen, e, sig) ==
  IF Rebased(r, e) THEN [NewRow(seen, e, sig) EXCEPT !.armed = r.armed]
  ELSE IF sig # 0 /\ r.sig \notin {0, sig}
       THEN [r EXCEPT !.sig = sig, !.be = 0, !.alerts = {}]
  ELSE [r EXCEPT !.sig = IF @ = 0 THEN sig ELSE @]

\* upsert_position_mgmt for a position seen in epoch `seen` at entry e with
\* signature sig (0: inconclusive): a new row or a deviated entry starts
\* afresh; a changed signature resets the volatile state and keeps the arming;
\* an unknown signature is learned once.
Upsert(r, seen, e, sig) ==
  IF Rebased(r, e) THEN NewRow(seen, e, sig)
  ELSE IF sig # 0 /\ r.sig \notin {0, sig}
       THEN [r EXCEPT !.sig = sig, !.be = 0, !.alerts = {}]
  ELSE [r EXCEPT !.sig = IF @ = 0 THEN sig ELSE @]

\* UPDATE ... WHERE status = 'OPEN'.
SetAlerts(r, alerts) == IF r.open THEN [r EXCEPT !.alerts = alerts] ELSE r
SetArmed(r, armed) == IF r.open THEN [r EXCEPT !.armed = armed] ELSE r
MarkBeDone(r, sig) == IF r.open THEN [r EXCEPT !.be = sig] ELSE r

-----------------------------------------------------------------------------
(* The monitor (orders/monitor.py) *)

\* A complete snapshot that shows the position: its absence count is dropped.
SnapshotShows ==
  /\ mpc = "idle" /\ open /\ mpc' = "fills"
  /\ visit' = [NoVisit EXCEPT !.epoch = rowEpoch, !.entry = entry]
  /\ absence' = 0 /\ misses' = 0 /\ glitches' = 0 /\ late' = {}
  /\ UNCHANGED <<account, row, rowLock, browser>>

\* The history counters stop at the grace.
Capped(n) == IF n < CloseGraceCycles THEN n ELSE CloseGraceCycles

\* Faulty variant: every cycle starts counting again.
MissesForgetAbsence ==
  /\ mpc = "idle" /\ mpc' = "sweep" /\ visit' = NoVisit /\ late' = {}
  /\ absence' = 0 /\ UNCHANGED <<account, row, rowLock, browser, history>>

\* The position is gone, or a transient partial snapshot omits it.
SnapshotMisses ==
  /\ mpc = "idle" /\ mpc' = "sweep" /\ visit' = NoVisit /\ late' = {}
  /\ misses' = Capped(misses + 1) /\ glitches' = IF open THEN Capped(glitches + 1) ELSE glitches
  /\ UNCHANGED <<account, row, rowLock, browser, absence>>

\* Stops, mark and fills are read; an inconclusive window names no opening.
MonitorFills ==
  /\ mpc = "fills" /\ mpc' = "upsert"
  /\ \E sig \in {0, rowServed} : visit' = [visit EXCEPT !.sig = sig]
  /\ UNCHANGED <<account, row, rowLock, browser, absence, history, late>>

MonitorUpsert ==
  /\ mpc = "upsert" /\ mpc' = "read"
  /\ row' = Upsert(row, visit.epoch, visit.entry, visit.sig)
  /\ visit' = NoVisit
  /\ req' = [req EXCEPT !.torn =
                @ \/ (upc \notin {"idle", "snapshot"} /\ Rebased(row, visit.entry))]
  /\ UNCHANGED <<account, rowLock, upc, absence, history, late>>

\* get_open_position_mgmt: the rest of the visit works on this copy. The
\* advisory alarm is added to its alerts, once; armed rules may ask for a move.
MonitorRead ==
  /\ mpc = "read" /\ row.open
  /\ LET alerts == row.alerts \cup (IF thesis THEN {"thesis"} ELSE {})
         due == row.armed["auto_be"] # 0 /\ row.be = 0
         copy == [NoVisit EXCEPT !.sig = row.sig, !.alerts = alerts]
     IN \/ /\ mpc' = "wait"
           /\ \E r \in {x \in ArmRules : row.armed[x] # 0}, be \in {due, FALSE} :
                /\ r = "auto_be" => be
                /\ visit' = [copy EXCEPT !.due = be, !.rule = r]
        \/ IF alerts # row.alerts THEN mpc' = "alerts" /\ visit' = copy
           ELSE mpc' = "idle" /\ visit' = NoVisit
  /\ UNCHANGED <<account, row, rowLock, browser, absence, history, late>>

\* The row is gone, or a write or read of the visit failed.
VisitEnds ==
  /\ mpc \in {"fills", "upsert", "read"} /\ mpc' = "idle" /\ visit' = NoVisit
  /\ UNCHANGED <<account, row, rowLock, browser, absence, history, late>>

\* Faulty variant: the identity of the row is not compared.
ChecksRuleOnly == row.open /\ row.armed[visit.rule] # 0 /\ rowServed # 0
\* Under the lock the row is still armed, for the same signature, and so is
\* the live position.
ChecksPass ==
  /\ row.open /\ row.armed[visit.rule] # 0
  /\ visit.sig # 0 /\ row.sig = visit.sig /\ rowServed = visit.sig

MoveStarts ==
  /\ mpc = "wait" /\ rowLock = "free" /\ ChecksPass
  /\ rowLock' = "monitor" /\ mpc' = "moving"
  /\ UNCHANGED <<account, row, browser, visit, absence, history, late>>

\* Faulty variant: the visit ends without writing its alerts.
MoveFailsUnsaved ==
  /\ mpc \in {"wait", "moving"} /\ mpc' = "idle" /\ visit' = NoVisit
  /\ rowLock' = IF mpc = "moving" THEN "free" ELSE rowLock
  /\ UNCHANGED <<account, row, browser, absence, history, late>>

\* Refused, failed or unverified: reported, attempts counted.
MoveFails ==
  /\ mpc \in {"wait", "moving"} /\ mpc' = "alerts"
  /\ rowLock' = IF mpc = "moving" THEN "free" ELSE rowLock
  /\ visit' = [visit EXCEPT !.alerts = @ \cup {"be_error"}]
  /\ UNCHANGED <<account, row, browser, absence, history, late>>

\* Verified. mark_be_done, if break-even was reached, is queued at the
\* connection before anyone who waited for the trade lock gets there.
MoveDone ==
  /\ mpc = "moving" /\ mpc' = "alerts" /\ rowLock' = "free"
  /\ row' = IF visit.due THEN MarkBeDone(row, visit.sig) ELSE row
  /\ UNCHANGED <<account, browser, visit, absence, history, late>>

\* The working copy of the alert state is written back.
MonitorAlerts ==
  /\ mpc = "alerts" /\ mpc' = "idle" /\ row' = SetAlerts(row, visit.alerts)
  /\ visit' = NoVisit
  /\ UNCHANGED <<account, rowLock, browser, absence, history, late>>

\* Faulty variant: closed on the first absence.
SweepAtOnce ==
  /\ mpc = "sweep" /\ mpc' = "idle" /\ row.open
  /\ row' = ClosedRow /\ absence' = 0
  /\ UNCHANGED <<account, rowLock, browser, visit, history, late>>

\* Faulty variant: one absence more than the grace.
SweepOneLate ==
  /\ mpc = "sweep" /\ mpc' = "idle"
  /\ IF ~row.open THEN UNCHANGED <<row, absence>>
     ELSE IF absence + 1 > CloseGraceCycles THEN row' = ClosedRow /\ absence' = 0
     ELSE absence' = absence + 1 /\ UNCHANGED row
  /\ UNCHANGED <<account, rowLock, browser, visit, history, late>>

\* Absent once more; closed after CloseGraceCycles consecutive absences.
Sweep ==
  /\ mpc = "sweep" /\ mpc' = "idle"
  /\ IF ~row.open THEN UNCHANGED <<row, absence>>
     ELSE IF absence + 1 >= CloseGraceCycles THEN row' = ClosedRow /\ absence' = 0
     ELSE absence' = absence + 1 /\ UNCHANGED row
  /\ UNCHANGED <<account, rowLock, browser, visit, history, late>>

-----------------------------------------------------------------------------
(* Arm, disarm, kill switch (main.py) *)

StartArm(r) ==
  /\ upc = "idle" /\ rowLock = "free" /\ rowLock' = "browser" /\ upc' = "snapshot"
  /\ req' = [NoRequest EXCEPT !.enable = TRUE, !.rule = r]
  /\ UNCHANGED <<account, row, monitor, late>>

\* Disarming needs no exchange.
StartDisarm(r) ==
  /\ upc = "idle" /\ rowLock = "free" /\ rowLock' = "browser" /\ upc' = "read"
  /\ req' = [NoRequest EXCEPT !.rule = r]
  /\ UNCHANGED <<account, row, monitor, late>>

\* The position must be live.
ArmSnapshot ==
  /\ upc = "snapshot" /\ open /\ upc' = "fills"
  /\ req' = [req EXCEPT !.epoch = rowEpoch, !.entry = entry]
  /\ UNCHANGED <<account, row, rowLock, monitor, late>>

ArmFills ==
  /\ upc = "fills" /\ upc' = "upsert"
  /\ \E sig \in {0, rowServed} : req' = [req EXCEPT !.sig = sig]
  /\ UNCHANGED <<account, row, rowLock, monitor, late>>

ArmUpsert ==
  /\ upc = "upsert" /\ upc' = "read"
  /\ row' = Upsert(row, req.epoch, req.entry, req.sig)
  /\ req' = [req EXCEPT !.entry = AnyEntry, !.sig = 0,
                        !.torn = @ /\ ~Rebased(row, req.entry)]
  /\ UNCHANGED <<account, rowLock, monitor, late>>

\* The stored rules the patch is merged into, and the stored alerts.
PatchRead ==
  /\ upc = "read" /\ req' = [req EXCEPT !.armed = row.armed, !.alerts = row.alerts]
  /\ upc' = IF req.enable /\ "be_error" \in row.alerts THEN "clear" ELSE "write"
  /\ UNCHANGED <<account, row, rowLock, monitor, late>>

\* Enabling clears a prior halt first, disabling afterwards.
PatchClear ==
  /\ upc = "clear"
  /\ row' = SetAlerts(row, req.alerts \ {"be_error"})
  /\ IF req.enable THEN upc' = "write" /\ UNCHANGED <<rowLock, req>>
     ELSE upc' = "idle" /\ rowLock' = "free" /\ req' = NoRequest
  /\ UNCHANGED <<account, monitor, late>>

\* set_armed_rules with the merged rules; the retry count is dropped.
PatchWrite ==
  /\ upc = "write"
  /\ row' = SetArmed(row, [req.armed EXCEPT ![req.rule] = req.epoch])
  /\ late' = IF req.enable THEN late \cup {req.rule} ELSE late
  /\ IF ~req.enable /\ "be_error" \in req.alerts
     THEN upc' = "clear" /\ UNCHANGED <<rowLock, req>>
     ELSE upc' = "idle" /\ rowLock' = "free" /\ req' = NoRequest
  /\ UNCHANGED <<account, monitor>>

\* A refused check, a failed read or write: the lock is let go.
RequestFails ==
  /\ upc # "idle" /\ upc' = "idle" /\ rowLock' = "free" /\ req' = NoRequest
  /\ UNCHANGED <<account, row, monitor, late>>

\* disarm_all.
DisarmAll ==
  /\ rowLock = "free" /\ row.armed # Disarmed
  /\ row' = SetArmed(row, Disarmed)
  /\ UNCHANGED <<account, rowLock, monitor, browser, late>>

-----------------------------------------------------------------------------
(* The account *)

Open ==
  /\ ~open /\ rowEpoch < MaxOpenings /\ open' = TRUE /\ rowEpoch' = rowEpoch + 1
  /\ entry' \in Entries
  /\ UNCHANGED <<rowServed, thesis, row, rowLock, monitor, browser, late>>

Close ==
  /\ open /\ open' = FALSE
  /\ UNCHANGED <<rowEpoch, entry, rowServed, thesis, row, rowLock, monitor, browser, late>>

\* Growing moves the average entry.
Average ==
  /\ open /\ entry' \in Entries \ {entry}
  /\ UNCHANGED <<open, rowEpoch, rowServed, thesis, row, rowLock, monitor, browser, late>>

OpeningServed ==
  /\ rowServed # rowEpoch /\ rowServed' = rowEpoch
  /\ UNCHANGED <<open, rowEpoch, entry, thesis, row, rowLock, monitor, browser, late>>

MarkMoves ==
  /\ open /\ thesis' = ~thesis
  /\ UNCHANGED <<open, rowEpoch, entry, rowServed, row, rowLock, monitor, browser, late>>

ProcessRestart ==
  /\ Restarts
  /\ rowLock' = "free" /\ mpc' = "idle" /\ visit' = NoVisit /\ upc' = "idle" /\ req' = NoRequest
  /\ absence' = 0 /\ misses' = 0 /\ glitches' = 0 /\ late' = ArmRules
  /\ UNCHANGED <<account, row>>

-----------------------------------------------------------------------------
MonitorStep ==
  \/ MonitorFills \/ MonitorUpsert \/ MonitorRead \/ VisitEnds
  \/ MoveStarts \/ MoveFails \/ MoveDone \/ MonitorAlerts \/ Sweep

RequestStep ==
  \/ ArmSnapshot \/ ArmFills \/ ArmUpsert \/ PatchRead \/ PatchClear \/ PatchWrite
  \/ RequestFails

RowNext ==
  \/ SnapshotShows \/ SnapshotMisses \/ MonitorStep
  \/ \E r \in ArmRules : StartArm(r) \/ StartDisarm(r)
  \/ RequestStep \/ DisarmAll
  \/ Open \/ Close \/ Average \/ OpeningServed \/ MarkMoves \/ ProcessRestart

RowSpec == RowInit /\ [][RowNext]_rowVars

\* The loop runs on and its awaits end; no read or write fails, and no snapshot
\* is partial, for ever.
RowFairSpec ==
  /\ RowSpec /\ WF_rowVars(MonitorStep) /\ WF_rowVars(SnapshotShows \/ SnapshotMisses)
  /\ SF_rowVars(SnapshotShows) /\ SF_rowVars(MonitorFills) /\ SF_rowVars(MonitorUpsert)
  /\ SF_rowVars(MonitorRead) /\ WF_rowVars(RequestStep)

-----------------------------------------------------------------------------
(* Properties *)

\* A break-even latch was set for the very position whose signature the row
\* bears: no reopening, arming or late write of the monitor hands a new
\* position the be_done of an old one (upsert_position_mgmt, mark_be_done).
LatchOfThisPosition == row.be \in {0, row.sig}

\* The monitor drops rules armed for the open position only when
\* CloseGraceCycles consecutive snapshots omitted it, or when the entry it saw
\* is not the baseline's (_run_one_cycle, I-2).
ArmingKept ==
  [][\A r \in ArmRules :
       /\ open /\ row.armed[r] = rowEpoch /\ row'.armed[r] # rowEpoch
       /\ mpc' # mpc /\ mpc # "idle" /\ upc' = upc
       => \/ (mpc = "upsert" /\ visit.entry # row.entry)
          \/ (mpc = "sweep" /\ misses >= CloseGraceCycles)]_rowVars

\* Closing the row, the monitor never drops the arming of an open position
\* that a single snapshot omitted (_CLOSE_GRACE_CYCLES, I-2).
SingleGlitchForgiven ==
  [][\A r \in ArmRules :
       open /\ row.armed[r] = rowEpoch /\ mpc = "sweep" /\ mpc' # mpc /\ row'.armed[r] # rowEpoch
       => r \in late \/ glitches >= CloseGraceCycles]_rowVars

\* A new baseline hands on no arming: an open row comes to hold a rule armed for a
\* position before the one its baseline was taken from only when a request writes
\* its rules back after the monitor took the baseline in between its awaits
\* (upsert_position_mgmt: "the user must re-arm"; positions_arm).
OldRule(r) == row.armed[r] # 0 /\ row.armed[r] < row.since
NoOldArming ==
  [][\A r \in ArmRules : OldRule(r)' => OldRule(r) \/ (upc = "write" /\ req.torn)]_rowVars

\* The row of a vanished position is closed, or a new position opens
\* (_CLOSE_GRACE_CYCLES).
VanishedRowClosed == ~open ~> open \/ ~row.open

\* While the invalidation price stays crossed the alarm comes back, whatever
\* arm and disarm write over it (_process_position, positions_arm).
AlarmShown == <>[](open /\ thesis) => []<>("thesis" \in row.alerts)

=============================================================================
