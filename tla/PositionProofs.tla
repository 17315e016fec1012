---------------------------- MODULE PositionProofs ----------------------------
(***************************************************************************)
(* Proofs about the row of a managed position (PositionRow), about what    *)
(* the rules do with its stop (TradeRules), and that what TLC runs of      *)
(* them, and of the stop move, are behaviours of each (MCPosition).        *)
(***************************************************************************)
EXTENDS MCPosition, StopMoveProofs, NaturalsInduction, WellFoundedInduction, TLAPS

-----------------------------------------------------------------------------
(* The row and its two writers (PositionRow) *)

\* The monitor holds the trade lock while it moves a stop, and the row stays
\* the one the move was checked against; so does the browser's request, until
\* its last write.
RowLockHeld ==
  /\ mpc = "moving" => rowLock = "monitor" /\ row.open /\ row.sig = visit.sig
  /\ upc # "idle" => rowLock = "browser"

RowInv == RowTypeOK /\ RowLockHeld /\ LatchOfThisPosition

\* The entry of a closed row is one of the classes.
LEMMA AnyEntryType == AnyEntry \in Entries
  BY RowRules DEF AnyEntry

\* A closed row is a row, without signature or latch.
LEMMA NoRowType == ClosedRow \in Row /\ ClosedRow.sig = 0 /\ ClosedRow.be = 0
  BY AnyEntryType DEF ClosedRow, Row, Disarmed, Arming, Kinds

\* What a new baseline is.
LEMMA FreshType ==
  ASSUME NEW seen \in Nat, NEW e \in Entries, NEW sig \in Nat
  PROVE  NewRow(seen, e, sig) \in Row /\ NewRow(seen, e, sig).be = 0
  BY NoRowType DEF NewRow, ClosedRow, Row

\* An upsert keeps the type, and keeps the latch with its position.
LEMMA UpsertKeeps ==
  ASSUME NEW r \in Row, NEW seen \in Nat, NEW e \in Entries, NEW sig \in Nat,
         r.be \in {0, r.sig}
  PROVE  /\ Upsert(r, seen, e, sig) \in Row
         /\ Upsert(r, seen, e, sig).be \in {0, Upsert(r, seen, e, sig).sig}
<1>1. CASE Rebased(r, e)
  BY <1>1, FreshType DEF Upsert
<1>2. CASE ~Rebased(r, e)
  BY <1>2 DEF Upsert, Rebased, Row, Kinds
<1>q. QED BY <1>1, <1>2

\* Arming and alerts leave the identity and the latch alone.
LEMMA PatchKeeps ==
  ASSUME NEW r \in Row, NEW alerts \in SUBSET Kinds, NEW rules \in Arming
  PROVE  /\ SetAlerts(r, alerts) \in Row /\ SetArmed(r, rules) \in Row
         /\ SetAlerts(r, alerts).sig = r.sig /\ SetArmed(r, rules).sig = r.sig
         /\ SetAlerts(r, alerts).be = r.be /\ SetArmed(r, rules).be = r.be
         /\ SetAlerts(r, alerts).open = r.open /\ SetArmed(r, rules).open = r.open
  BY DEF SetAlerts, SetArmed, Row

\* The locals of a visit start well typed.
LEMMA VisitType ==
  NoVisit \in [epoch : Nat, entry : Entries, sig : Nat, alerts : SUBSET Kinds,
               due : BOOLEAN, rule : ArmRules]
  BY AnyEntryType, RowRules DEF NoVisit

\* So do those of a request.
LEMMA RequestType ==
  NoRequest \in [enable : BOOLEAN, rule : ArmRules, epoch : Nat, entry : Entries, sig : Nat,
                 armed : Arming, alerts : SUBSET Kinds, torn : BOOLEAN]
  BY AnyEntryType, RowRules DEF NoRequest, Disarmed, Arming

\* The row starts with the invariant.
LEMMA RowInvInit == RowInit => RowInv
<1> SUFFICES ASSUME RowInit PROVE RowInv
  OBVIOUS
<1>1. row \in Row /\ row.be = 0
  BY NoRowType DEF RowInit
<1>2. absence \in 0..(CloseGraceCycles - 1) /\ misses \in 0..CloseGraceCycles
      /\ glitches \in 0..CloseGraceCycles
  BY RowBounds DEF RowInit
<1>3. RowTypeOK
  BY <1>1, <1>2, VisitType, RequestType DEF RowInit, RowTypeOK
<1>q. QED BY <1>1, <1>3 DEF RowInit, RowInv, RowLockHeld, LatchOfThisPosition

\* The grace leaves room for a count of 0.
LEMMA ZeroCount == 0 \in 0..CloseGraceCycles /\ 0 \in 0..(CloseGraceCycles - 1)
  BY RowBounds

\* The history counters stay within the grace.
LEMMA CappedType == ASSUME NEW n \in Nat PROVE Capped(n) \in 0..CloseGraceCycles
  BY RowBounds DEF Capped

\* The monitor's steps.
LEMMA MonitorInv ==
  ASSUME RowInv, SnapshotShows \/ SnapshotMisses \/ MonitorStep
  PROVE  RowInv'
<1> USE DEF RowInv, RowLockHeld, LatchOfThisPosition, RowTypeOK
<1>1. CASE SnapshotShows
  <2>1. visit' \in [epoch : Nat, entry : Entries, sig : Nat, alerts : SUBSET Kinds,
                    due : BOOLEAN, rule : ArmRules]
    BY <1>1, VisitType DEF SnapshotShows
  <2>q. QED BY <1>1, <2>1, ZeroCount DEF SnapshotShows, account, browser
<1>2. CASE SnapshotMisses
  <2>1. misses' \in 0..CloseGraceCycles /\ glitches' \in 0..CloseGraceCycles
    <3>1. Capped(misses + 1) \in 0..CloseGraceCycles /\ Capped(glitches + 1) \in 0..CloseGraceCycles
      BY CappedType
    <3>q. QED BY <1>2, <3>1 DEF SnapshotMisses
  <2>q. QED BY <1>2, <2>1, VisitType DEF SnapshotMisses, account, browser
<1>3. CASE MonitorFills
  BY <1>3 DEF MonitorFills, account, browser, history
<1>4. CASE MonitorUpsert
  BY <1>4, UpsertKeeps, VisitType DEF MonitorUpsert, account, browser, history
<1>5. CASE MonitorRead
  <2> DEFINE alerts == row.alerts \cup (IF thesis THEN {"thesis"} ELSE {})
             due == row.armed["auto_be"] # 0 /\ row.be = 0
             copy == [NoVisit EXCEPT !.sig = row.sig, !.alerts = alerts]
             V == [epoch : Nat, entry : Entries, sig : Nat, alerts : SUBSET Kinds,
                   due : BOOLEAN, rule : ArmRules]
  <2>1. copy \in V
    BY VisitType DEF Row, Kinds, NoVisit
  <2>2. visit' \in V
    <3>1. \A r \in ArmRules, be \in BOOLEAN : [copy EXCEPT !.due = be, !.rule = r] \in V
      BY <2>1
    <3>2. \/ \E r \in ArmRules, be \in {due, FALSE} : visit' = [copy EXCEPT !.due = be, !.rule = r]
          \/ visit' = copy \/ visit' = NoVisit
      BY <1>5 DEF MonitorRead
    <3>3. due \in BOOLEAN
      OBVIOUS
    <3> HIDE DEF due, copy
    <3>4. CASE \E r \in ArmRules, be \in {due, FALSE} : visit' = [copy EXCEPT !.due = be, !.rule = r]
      BY <3>4, <3>1, <3>3, Zenon
    <3>q. QED BY <2>1, <3>2, <3>4, VisitType
  <2>3. mpc' \in {"wait", "alerts", "idle"}
    BY <1>5 DEF MonitorRead
  <2>q. QED BY <1>5, <2>2, <2>3 DEF MonitorRead, account, browser, history
<1>6. CASE VisitEnds
  BY <1>6, VisitType DEF VisitEnds, account, browser, history
<1>7. CASE MoveStarts
  BY <1>7 DEF MoveStarts, ChecksPass, account, browser, history
<1>8. CASE MoveFails
  BY <1>8 DEF MoveFails, account, browser, history, Kinds
<1>9. CASE MoveDone
  <2>1. row' \in Row /\ row'.be \in {0, row'.sig}
    BY <1>9 DEF MoveDone, MarkBeDone, Row
  <2>q. QED BY <1>9, <2>1 DEF MoveDone, account, browser, history
<1>10. CASE MonitorAlerts
  BY <1>10, PatchKeeps, VisitType DEF MonitorAlerts, account, browser, history
<1>11. CASE Sweep
  <2>1. row' \in Row /\ row'.be \in {0, row'.sig} /\ absence' \in 0..(CloseGraceCycles - 1)
    BY <1>11, NoRowType, RowBounds DEF Sweep
  <2>q. QED BY <1>11, <2>1 DEF Sweep, account, browser, history
<1>q. QED
  BY <1>1, <1>2, <1>3, <1>4, <1>5, <1>6, <1>7, <1>8, <1>9, <1>10, <1>11 DEF MonitorStep

\* The browser's steps.
LEMMA BrowserInv ==
  ASSUME RowInv,
         RequestStep \/ DisarmAll \/ \E r \in ArmRules : StartArm(r) \/ StartDisarm(r)
  PROVE  RowInv'
<1> USE DEF RowInv, RowLockHeld, LatchOfThisPosition, RowTypeOK
<1>1. ASSUME NEW r \in ArmRules, StartArm(r) \/ StartDisarm(r) PROVE RowInv'
  BY <1>1, RequestType DEF StartArm, StartDisarm, account, monitor, history
<1>2. CASE ArmSnapshot
  BY <1>2 DEF ArmSnapshot, account, monitor, history
<1>3. CASE ArmFills
  BY <1>3 DEF ArmFills, account, monitor, history
<1>4. CASE ArmUpsert
  BY <1>4, UpsertKeeps, AnyEntryType DEF ArmUpsert, account, monitor, history
<1>5. CASE PatchRead
  BY <1>5 DEF PatchRead, account, monitor, history, Row
<1>6. CASE PatchClear
  <2>1. row' \in Row /\ row'.be = row.be /\ row'.sig = row.sig /\ row'.open = row.open
    BY <1>6, PatchKeeps DEF PatchClear
  <2>2. /\ req' = req \/ req' = NoRequest
        /\ upc' \in {"write", "idle"} /\ rowLock' \in {"free", rowLock}
        /\ upc' # "idle" => rowLock' = rowLock
    BY <1>6 DEF PatchClear
  <2>q. QED BY <1>6, <2>1, <2>2, RequestType DEF PatchClear, account, monitor, history
<1>7. CASE PatchWrite
  <2>1. [req.armed EXCEPT ![req.rule] = req.epoch] \in Arming
    BY DEF Arming
  <2>2. row' \in Row /\ row'.be = row.be /\ row'.sig = row.sig /\ row'.open = row.open
    BY <1>7, <2>1, PatchKeeps DEF PatchWrite, Kinds
  <2>q. QED BY <1>7, <2>2, RequestType DEF PatchWrite, account, monitor, history
<1>8. CASE RequestFails
  BY <1>8, RequestType DEF RequestFails, account, monitor, history
<1>9. CASE DisarmAll
  <2>1. row' \in Row /\ row'.be = row.be /\ row'.sig = row.sig /\ row'.open = row.open
    BY <1>9, PatchKeeps DEF DisarmAll, Disarmed, Arming, Kinds
  <2>q. QED BY <1>9, <2>1 DEF DisarmAll, account, browser, monitor, history
<1>q. QED
  BY <1>1, <1>2, <1>3, <1>4, <1>5, <1>6, <1>7, <1>8, <1>9 DEF RequestStep

\* The account moves and the process restarts.
LEMMA AccountInv ==
  ASSUME RowInv, Open \/ Close \/ Average \/ OpeningServed \/ MarkMoves \/ ProcessRestart
  PROVE  RowInv'
<1> USE DEF RowInv, RowLockHeld, LatchOfThisPosition, RowTypeOK
<1>1. CASE Open \/ Close
  <2>1. /\ open' \in BOOLEAN /\ rowEpoch' \in Nat /\ entry' \in Entries /\ rowServed' \in Nat
        /\ thesis' \in BOOLEAN
    <3>1. CASE Open
      <4>1. rowEpoch' \in Nat BY <3>1 DEF Open
      <4>2. open' = TRUE /\ entry' \in Entries /\ rowServed' = rowServed /\ thesis' = thesis
        BY <3>1 DEF Open
      <4>q. QED BY <4>1, <4>2
    <3>2. CASE Close
      BY <3>2 DEF Close
    <3>q. QED BY <1>1, <3>1, <3>2
  <2>2. UNCHANGED <<row, rowLock, mpc, visit, absence, misses, glitches, upc, req, late>>
    BY <1>1 DEF Open, Close, monitor, browser, history
  <2>q. QED BY <2>1, <2>2
<1>3. CASE Average \/ OpeningServed \/ MarkMoves
  <2>1. /\ open' \in BOOLEAN /\ rowEpoch' \in Nat /\ entry' \in Entries /\ rowServed' \in Nat
        /\ thesis' \in BOOLEAN
    BY <1>3 DEF Average, OpeningServed, MarkMoves
  <2>q. QED BY <1>3, <2>1 DEF Average, OpeningServed, MarkMoves, monitor, browser, history
<1>2. CASE ProcessRestart
  BY <1>2, VisitType, RequestType, ZeroCount DEF ProcessRestart, account
<1>q. QED BY <1>1, <1>2, <1>3

\* Every step of the row and its writers keeps it.
LEMMA StepInv == RowInv /\ [RowNext]_rowVars => RowInv'
<1>1. ASSUME RowInv, RowNext PROVE RowInv'
  BY <1>1, MonitorInv, BrowserInv, AccountInv DEF RowNext
<1>2. ASSUME RowInv, UNCHANGED rowVars PROVE RowInv'
  BY <1>2 DEF RowInv, RowLockHeld, LatchOfThisPosition, RowTypeOK, rowVars, account, monitor, browser, history
<1>q. QED BY <1>1, <1>2

\* Type correctness for any number of positions, entry classes and rules.
THEOREM RowTyped == RowSpec => []RowTypeOK
<1>1. RowInv => RowTypeOK BY DEF RowInv
<1>q. QED BY RowInvInit, StepInv, <1>1, PTL DEF RowSpec

\* The break-even latch in the row always belongs to the position the row
\* names, whatever the interleaving of monitor and browser writes, reopenings
\* and restarts (upsert_position_mgmt, mark_be_done).
THEOREM LatchBelongs == RowSpec => []LatchOfThisPosition
<1>1. RowInv => LatchOfThisPosition BY DEF RowInv
<1>q. QED BY RowInvInit, StepInv, <1>1, PTL DEF RowSpec

\* A sweep counts no absence that no snapshot had: the history count is ahead.
Counted == absence <= misses /\ (mpc = "sweep" => absence < misses)

\* A closed row arms nothing, and an open position has an epoch.
Dormant == (~row.open => row.armed = Disarmed) /\ (open => rowEpoch > 0)

\* A sweep follows the snapshot it counts, and both counts restart together.
LEMMA CountedKept == ASSUME RowInv, Counted, [RowNext]_rowVars PROVE Counted'
<1>0. /\ absence \in 0..(CloseGraceCycles - 1) /\ misses \in 0..CloseGraceCycles /\ CloseGraceCycles \in Nat \ {0}
      /\ absence <= misses
  BY RowBounds DEF RowInv, RowTypeOK, Counted
<1>1. CASE SnapshotShows \/ ProcessRestart
  BY <1>1 DEF SnapshotShows, ProcessRestart, Counted
<1>2. CASE SnapshotMisses
  <2>1. misses' = Capped(misses + 1) /\ absence' = absence
    BY <1>2 DEF SnapshotMisses
  <2>2. Capped(misses + 1) > absence
    BY <1>0 DEF Capped
  <2>q. QED BY <1>0, <2>1, <2>2, CappedType DEF Counted
<1>3. CASE Sweep
  <2>1. absence < misses /\ mpc' = "idle" /\ misses' = misses
    BY <1>3 DEF Sweep, Counted, history
  <2>2. absence' \in {0, absence, absence + 1}
    BY <1>3 DEF Sweep
  <2>q. QED BY <1>0, <2>1, <2>2 DEF Counted
<1>4. CASE MonitorStep /\ ~Sweep
  <2>1. absence' = absence /\ misses' = misses /\ mpc' # "sweep"
    BY <1>4 DEF MonitorStep, MonitorFills, MonitorUpsert, MonitorRead, VisitEnds, MoveStarts, MoveFails, MoveDone,
                MonitorAlerts, history
  <2>q. QED BY <1>0, <2>1 DEF Counted
<1>5. CASE UNCHANGED monitor
  BY <1>5 DEF monitor, history, Counted
<1>6. ASSUME \/ RequestStep \/ DisarmAll \/ \E r \in ArmRules : StartArm(r) \/ StartDisarm(r)
             \/ Open \/ Close \/ Average \/ OpeningServed \/ MarkMoves \/ UNCHANGED rowVars
      PROVE  UNCHANGED monitor
  BY <1>6 DEF RequestStep, ArmSnapshot, ArmFills, ArmUpsert, PatchRead, PatchClear, PatchWrite, RequestFails,
              DisarmAll, StartArm, StartDisarm, Open, Close, Average, OpeningServed, MarkMoves, rowVars
<1>q. QED BY <1>1, <1>2, <1>3, <1>4, <1>5, <1>6 DEF RowNext

\* What a step does to a row: an upsert, an empty row, or a patch that leaves a
\* closed row alone.
LEMMA RowSteps ==
  ASSUME RowInv, [RowNext]_rowVars
  PROVE  \/ row' = row \/ row' = ClosedRow
         \/ \E seen \in Nat, e \in Entries, sig \in Nat : row' = Upsert(row, seen, e, sig)
         \/ row.open /\ row' \in Row /\ row'.open
<1> USE DEF RowInv, RowTypeOK
<1>1. CASE MonitorUpsert \/ ArmUpsert
  BY <1>1 DEF MonitorUpsert, ArmUpsert
<1>2. CASE MonitorAlerts \/ PatchClear
  <2>1. \E a \in SUBSET Kinds : row' = SetAlerts(row, a)
    BY <1>2 DEF MonitorAlerts, PatchClear
  <2>2. \A a \in SUBSET Kinds : SetAlerts(row, a) \in Row /\ SetAlerts(row, a).open = row.open
    BY DEF SetAlerts, Row
  <2>q. QED BY <2>1, <2>2 DEF SetAlerts
<1>3. CASE PatchWrite \/ DisarmAll
  <2>1. [req.armed EXCEPT ![req.rule] = req.epoch] \in Arming /\ Disarmed \in Arming
    BY DEF Arming, Disarmed
  <2>2. \E a \in Arming : row' = SetArmed(row, a)
    BY <1>3, <2>1 DEF PatchWrite, DisarmAll
  <2>3. \A a \in Arming : SetArmed(row, a) \in Row /\ SetArmed(row, a).open = row.open
    BY DEF SetArmed, Row
  <2>q. QED BY <2>2, <2>3 DEF SetArmed
<1>4. CASE MoveDone
  BY <1>4 DEF MoveDone, MarkBeDone, Row
<1>5. CASE Sweep
  BY <1>5 DEF Sweep
<1>6. CASE UNCHANGED row
  BY <1>6
<1>7. ASSUME \/ SnapshotShows \/ SnapshotMisses \/ MonitorFills \/ MonitorRead \/ VisitEnds \/ MoveStarts \/ MoveFails
             \/ ArmSnapshot \/ ArmFills \/ PatchRead \/ RequestFails
             \/ \E r \in ArmRules : StartArm(r) \/ StartDisarm(r)
             \/ Open \/ Close \/ Average \/ OpeningServed \/ MarkMoves \/ ProcessRestart \/ UNCHANGED rowVars
      PROVE  UNCHANGED row
  BY <1>7 DEF SnapshotShows, SnapshotMisses, MonitorFills, MonitorRead, VisitEnds, MoveStarts, MoveFails,
              ArmSnapshot, ArmFills, PatchRead, RequestFails, StartArm, StartDisarm, Open, Close, Average,
              OpeningServed, MarkMoves, ProcessRestart, rowVars
<1>q. QED BY <1>1, <1>2, <1>3, <1>4, <1>5, <1>6, <1>7 DEF RowNext, MonitorStep, RequestStep

\* An upsert opens the row, and a fresh row arms nothing; otherwise the arming stays.
LEMMA UpsertArms ==
  ASSUME NEW r \in Row, NEW seen \in Nat, NEW e \in Entries, NEW sig \in Nat
  PROVE  /\ Upsert(r, seen, e, sig).open
         /\ r.open /\ r.entry = e => Upsert(r, seen, e, sig).armed = r.armed
<1>1. NewRow(seen, e, sig).open
  BY NoRowType DEF NewRow, ClosedRow
<1>2. CASE r.open /\ r.entry = e
  BY <1>2 DEF Upsert, Rebased, Row
<1>q. QED BY <1>1, <1>2 DEF Upsert, Rebased

\* Only a fresh row or a patch of an open one arms anything.
LEMMA DormantKept == ASSUME RowInv, Dormant, [RowNext]_rowVars PROVE Dormant'
<1>1. ~row'.open => row'.armed = Disarmed
  <2>1. CASE \E seen \in Nat, e \in Entries, sig \in Nat : row' = Upsert(row, seen, e, sig)
    <3>1. PICK seen \in Nat, e \in Entries, sig \in Nat : row' = Upsert(row, seen, e, sig)
      BY <2>1
    <3>2. row \in Row
      BY DEF RowInv, RowTypeOK
    <3>3. Upsert(row, seen, e, sig).open
      BY <3>2, UpsertArms
    <3>q. QED BY <3>1, <3>3
  <2>2. CASE row' = ClosedRow
    BY <2>2 DEF ClosedRow
  <2>q. QED BY <2>1, <2>2, RowSteps DEF Dormant
<1>2. open' => rowEpoch' > 0
  <2>1. CASE Open
    BY <2>1 DEF Open, RowInv, RowTypeOK
  <2>2. CASE UNCHANGED rowEpoch /\ (open' => open)
    BY <2>2 DEF Dormant
  <2>3. [RowNext]_rowVars /\ ~Open => UNCHANGED rowEpoch /\ (open' => open)
    BY DEF RowNext, MonitorStep, RequestStep, SnapshotShows, SnapshotMisses, MonitorFills, MonitorUpsert,
           MonitorRead, VisitEnds, MoveStarts, MoveFails, MoveDone, MonitorAlerts, Sweep, ArmSnapshot, ArmFills,
           ArmUpsert, PatchRead, PatchClear, PatchWrite, RequestFails, DisarmAll, StartArm, StartDisarm, Close,
           Average, OpeningServed, MarkMoves, ProcessRestart, rowVars, account
  <2>q. QED BY <2>1, <2>2, <2>3
<1>q. QED BY <1>1, <1>2 DEF Dormant

\* The monitor takes no arming of an open position from its row, unless as many
\* consecutive snapshots as the grace asks for omitted the position, or its entry is
\* not the baseline's, whatever the browser and restarts do between its steps.
THEOREM ArmingStays == RowSpec => ArmingKept
<1> DEFINE ArmInv == RowInv /\ Counted /\ Dormant
           Kept == \A r \in ArmRules :
                     /\ open /\ row.armed[r] = rowEpoch /\ row'.armed[r] # rowEpoch
                     /\ mpc' # mpc /\ mpc # "idle" /\ upc' = upc
                     => \/ (mpc = "upsert" /\ visit.entry # row.entry)
                        \/ (mpc = "sweep" /\ misses >= CloseGraceCycles)
<1>1. RowInit => ArmInv
  <2>1. RowInit => Counted
    BY DEF RowInit, Counted
  <2>2. RowInit => Dormant
    BY DEF RowInit, Dormant, ClosedRow
  <2>q. QED BY <2>1, <2>2, RowInvInit
<1>2. ArmInv /\ [RowNext]_rowVars => ArmInv'
  BY StepInv, CountedKept, DormantKept
<1>3. ArmInv /\ [RowNext]_rowVars => [Kept]_rowVars
  <2> SUFFICES ASSUME ArmInv, RowNext, NEW r \in ArmRules,
                      open, row.armed[r] = rowEpoch, row'.armed[r] # rowEpoch,
                      mpc' # mpc, mpc # "idle", upc' = upc
               PROVE  \/ (mpc = "upsert" /\ visit.entry # row.entry)
                      \/ (mpc = "sweep" /\ misses >= CloseGraceCycles)
    OBVIOUS
  <2>1. row.open
    <3>1. rowEpoch > 0 /\ rowEpoch \in Nat
      BY DEF Dormant, RowInv, RowTypeOK
    <3>q. QED BY <3>1 DEF Dormant, Disarmed
  <2>2. row \in Row /\ visit.entry \in Entries /\ visit.sig \in Nat /\ visit.epoch \in Nat /\ visit.alerts \in SUBSET Kinds
    BY DEF RowInv, RowTypeOK
  <2>3. MonitorUpsert \/ MonitorAlerts \/ MoveDone \/ Sweep
    <3>1. row' # row
      OBVIOUS
    <3>2. ~(UNCHANGED monitor)
      BY DEF monitor
    <3>q. QED BY <3>1, <3>2 DEF RowNext, MonitorStep, RequestStep, SnapshotShows, SnapshotMisses, MonitorFills,
                 MonitorRead, VisitEnds, MoveStarts, MoveFails, ArmSnapshot, ArmFills, ArmUpsert, PatchRead,
                 PatchClear, PatchWrite, RequestFails, DisarmAll, StartArm, StartDisarm, Open, Close, Average,
                 OpeningServed, MarkMoves, ProcessRestart
  <2>4. CASE MonitorUpsert
    <3>1. mpc = "upsert" /\ row' = Upsert(row, visit.epoch, visit.entry, visit.sig)
      BY <2>4 DEF MonitorUpsert
    <3>q. QED BY <2>1, <2>2, <3>1, UpsertArms
  <2>5. CASE MonitorAlerts \/ MoveDone
    BY <2>2, <2>5 DEF MonitorAlerts, MoveDone, SetAlerts, MarkBeDone, Row
  <2>6. CASE Sweep
    <3>1. mpc = "sweep" /\ absence + 1 >= CloseGraceCycles
      BY <2>6 DEF Sweep
    <3>2. absence < misses /\ absence \in Nat /\ misses \in Nat /\ CloseGraceCycles \in Nat
      BY <3>1, RowBounds DEF Counted, RowInv, RowTypeOK
    <3>q. QED BY <3>1, <3>2
  <2>q. QED BY <2>3, <2>4, <2>5, <2>6
<1>4. RowSpec => [][Kept]_rowVars
  BY <1>1, <1>2, <1>3, PTL DEF RowSpec
<1>q. QED BY <1>4 DEF ArmingKept

-----------------------------------------------------------------------------
(* A new baseline hands on no arming *)

\* No position is known before it was opened.
Ages == row.since <= rowEpoch /\ visit.epoch <= rowEpoch /\ req.epoch <= rowEpoch

\* While no baseline came between the awaits of a request, the position it saw is
\* no older than the baseline, and the rules it read are still the row's.
RequestFits ==
  upc \notin {"idle", "snapshot"} /\ ~req.torn /\ row.open =>
    /\ req.epoch = 0 \/ row.since <= req.epoch
    /\ upc = "write" \/ (upc = "clear" /\ req.enable) => req.armed = row.armed

FitInv == RowInv /\ Ages /\ RequestFits

\* What an upsert makes of the baseline and of the arming.
LEMMA UpsertBaseline ==
  ASSUME NEW r \in Row, NEW seen \in Nat, NEW e \in Entries, NEW sig \in Nat
  PROVE  /\ Rebased(r, e) => /\ Upsert(r, seen, e, sig).since = seen
                             /\ Upsert(r, seen, e, sig).armed = Disarmed
         /\ ~Rebased(r, e) => /\ Upsert(r, seen, e, sig).since = r.since
                              /\ Upsert(r, seen, e, sig).armed = r.armed
                              /\ r.open
<1>1. CASE Rebased(r, e)
  BY <1>1 DEF Upsert, NewRow, ClosedRow
<1>2. CASE ~Rebased(r, e)
  BY <1>2 DEF Upsert, Rebased, Row
<1>q. QED BY <1>1, <1>2

\* The writes that leave the baseline and the arming of the row.
LEMMA OtherWrites ==
  ASSUME RowInv, MonitorAlerts \/ MoveDone \/ PatchClear
  PROVE  /\ row'.since = row.since /\ row'.armed = row.armed /\ row'.open = row.open
         /\ row' \in Row
<1>1. row \in Row /\ visit.alerts \in SUBSET Kinds /\ req.alerts \in SUBSET Kinds /\ visit.sig \in Nat
  BY DEF RowInv, RowTypeOK
<1>q. QED BY <1>1 DEF MonitorAlerts, MoveDone, PatchClear, SetAlerts, MarkBeDone, Row

\* The monitor's steps.
LEMMA MonitorFits ==
  ASSUME FitInv, SnapshotShows \/ SnapshotMisses \/ MonitorStep
  PROVE  Ages' /\ RequestFits'
<1> USE DEF FitInv
<1>0. /\ row \in Row /\ visit.epoch \in Nat /\ visit.entry \in Entries /\ visit.sig \in Nat
      /\ rowEpoch \in Nat /\ row.since \in Nat /\ req.epoch \in Nat
  BY DEF RowInv, RowTypeOK, Row
<1>1. CASE MonitorUpsert
  <2>1. /\ row' = Upsert(row, visit.epoch, visit.entry, visit.sig) /\ visit'.epoch = 0
        /\ rowEpoch' = rowEpoch /\ upc' = upc
    BY <1>1 DEF MonitorUpsert, account, NoVisit
  <2>2. /\ req'.epoch = req.epoch /\ req'.armed = req.armed /\ req'.enable = req.enable
        /\ ~req'.torn => ~req.torn /\ (upc \in {"idle", "snapshot"} \/ ~Rebased(row, visit.entry))
    BY <1>1 DEF MonitorUpsert, RowInv, RowTypeOK
  <2>3. CASE Rebased(row, visit.entry)
    <3>1. row'.since = visit.epoch
      BY <1>0, <2>1, <2>3, UpsertBaseline
    <3>q. QED BY <1>0, <2>1, <2>2, <2>3, <3>1 DEF Ages, RequestFits
  <2>4. CASE ~Rebased(row, visit.entry)
    <3>1. row'.since = row.since /\ row'.armed = row.armed /\ row.open
      BY <1>0, <2>1, <2>4, UpsertBaseline
    <3>q. QED BY <1>0, <2>1, <2>2, <2>4, <3>1 DEF Ages, RequestFits
  <2>q. QED BY <2>3, <2>4
<1>2. CASE MonitorAlerts \/ MoveDone
  <2>1. /\ row'.since = row.since /\ row'.armed = row.armed /\ row'.open = row.open
        /\ UNCHANGED <<rowEpoch, upc, req>> /\ visit'.epoch \in {visit.epoch, 0}
    BY <1>2, OtherWrites DEF MonitorAlerts, MoveDone, account, browser, NoVisit
  <2>q. QED BY <1>0, <2>1 DEF Ages, RequestFits
<1>3. CASE Sweep
  <2>1. /\ row' = row \/ (row'.since = 0 /\ ~row'.open)
        /\ UNCHANGED <<rowEpoch, upc, req, visit>>
    BY <1>3 DEF Sweep, account, browser, ClosedRow
  <2>q. QED BY <1>0, <2>1 DEF Ages, RequestFits
<1>4. CASE SnapshotShows
  <2>1. visit'.epoch = rowEpoch /\ UNCHANGED <<rowEpoch, upc, req, row>>
    BY <1>4 DEF SnapshotShows, account, browser, NoVisit
  <2>q. QED BY <1>0, <2>1 DEF Ages, RequestFits
<1>5. CASE \/ SnapshotMisses \/ MonitorFills \/ MonitorRead \/ VisitEnds \/ MoveStarts \/ MoveFails
  <2>1. UNCHANGED <<rowEpoch, upc, req, row>>
    BY <1>5 DEF SnapshotMisses, MonitorFills, MonitorRead, VisitEnds, MoveStarts, MoveFails, account, browser
  <2>2. visit'.epoch \in {visit.epoch, 0}
    <3>1. CASE MonitorFills
      BY <3>1 DEF MonitorFills, RowInv, RowTypeOK
    <3>2. CASE MoveFails
      BY <3>2 DEF MoveFails, RowInv, RowTypeOK
    <3>3. CASE MonitorRead
      <4> DEFINE alerts == row.alerts \cup (IF thesis THEN {"thesis"} ELSE {})
                 copy == [NoVisit EXCEPT !.sig = row.sig, !.alerts = alerts]
      <4>1. \/ \E r \in ArmRules, be \in BOOLEAN : visit' = [copy EXCEPT !.due = be, !.rule = r]
            \/ visit' = copy \/ visit' = NoVisit
        BY <3>3 DEF MonitorRead
      <4>2. NoVisit.epoch = 0 /\ copy.epoch = 0
        BY DEF NoVisit
      <4>3. \A r \in ArmRules, be \in BOOLEAN : [copy EXCEPT !.due = be, !.rule = r].epoch = 0
        BY DEF NoVisit
      <4> HIDE DEF copy
      <4>q. QED BY <4>1, <4>2, <4>3
    <3>4. CASE SnapshotMisses \/ VisitEnds \/ MoveStarts
      BY <3>4 DEF SnapshotMisses, VisitEnds, MoveStarts, NoVisit
    <3>q. QED BY <1>5, <3>1, <3>2, <3>3, <3>4
  <2>q. QED BY <1>0, <2>1, <2>2 DEF Ages, RequestFits
<1>q. QED BY <1>1, <1>2, <1>3, <1>4, <1>5 DEF MonitorStep

\* The browser's steps, and the kill switch, which no request is under way beside.
LEMMA BrowserFits ==
  ASSUME FitInv, RequestStep \/ DisarmAll \/ \E r \in ArmRules : StartArm(r) \/ StartDisarm(r)
  PROVE  Ages' /\ RequestFits'
<1> USE DEF FitInv
<1>0. /\ row \in Row /\ visit.epoch \in Nat /\ req.entry \in Entries /\ req.sig \in Nat
      /\ rowEpoch \in Nat /\ row.since \in Nat /\ req.epoch \in Nat /\ req.armed \in Arming
  BY DEF RowInv, RowTypeOK, Row
<1>1. ASSUME NEW r \in ArmRules, StartArm(r) \/ StartDisarm(r)
      PROVE  Ages' /\ RequestFits'
  <2>1. /\ req'.epoch = 0 /\ upc' \in {"snapshot", "read"} /\ UNCHANGED <<rowEpoch, visit, row>>
    BY <1>1 DEF StartArm, StartDisarm, account, monitor, NoRequest
  <2>q. QED BY <1>0, <2>1 DEF Ages, RequestFits
<1>2. CASE ArmSnapshot
  <2>1. /\ req'.epoch = rowEpoch /\ upc' = "fills" /\ UNCHANGED <<rowEpoch, visit, row>>
    BY <1>2 DEF ArmSnapshot, account, monitor, RowInv, RowTypeOK
  <2>q. QED BY <1>0, <2>1 DEF Ages, RequestFits
<1>3. CASE ArmFills
  <2>1. /\ req'.epoch = req.epoch /\ req'.torn = req.torn /\ upc = "fills" /\ upc' = "upsert"
        /\ UNCHANGED <<rowEpoch, visit, row>>
    BY <1>3 DEF ArmFills, account, monitor, RowInv, RowTypeOK
  <2>q. QED BY <1>0, <2>1 DEF Ages, RequestFits
<1>4. CASE ArmUpsert
  <2>1. /\ req'.epoch = req.epoch /\ req'.torn = (req.torn /\ ~Rebased(row, req.entry))
        /\ upc = "upsert" /\ upc' = "read" /\ UNCHANGED <<rowEpoch, visit>>
        /\ row' = Upsert(row, req.epoch, req.entry, req.sig)
    BY <1>4 DEF ArmUpsert, account, monitor, RowInv, RowTypeOK
  <2>2. CASE Rebased(row, req.entry)
    <3>1. row'.since = req.epoch
      BY <1>0, <2>1, <2>2, UpsertBaseline
    <3>q. QED BY <1>0, <2>1, <3>1 DEF Ages, RequestFits
  <2>3. CASE ~Rebased(row, req.entry)
    <3>1. row'.since = row.since /\ row.open
      BY <1>0, <2>1, <2>3, UpsertBaseline
    <3>q. QED BY <1>0, <2>1, <2>3, <3>1 DEF Ages, RequestFits
  <2>q. QED BY <2>2, <2>3
<1>5. CASE PatchRead
  <2>1. /\ req'.epoch = req.epoch /\ req'.torn = req.torn /\ req'.armed = row.armed
        /\ upc = "read" /\ UNCHANGED <<rowEpoch, visit, row>>
    BY <1>5 DEF PatchRead, account, monitor, RowInv, RowTypeOK
  <2>q. QED BY <1>0, <2>1 DEF Ages, RequestFits
<1>6. CASE PatchClear
  <2>1. /\ row'.since = row.since /\ row'.armed = row.armed /\ row'.open = row.open
        /\ upc = "clear" /\ UNCHANGED <<rowEpoch, visit>>
        /\ \/ req.enable /\ upc' = "write" /\ req' = req
           \/ upc' = "idle" /\ req'.epoch = 0
    BY <1>6, OtherWrites DEF PatchClear, account, monitor, NoRequest
  <2>q. QED BY <1>0, <2>1 DEF Ages, RequestFits
<1>7. CASE PatchWrite
  <2>1. row'.since = row.since /\ row'.open = row.open
    BY <1>0, <1>7 DEF PatchWrite, SetArmed, Row
  <2>2. /\ upc = "write" /\ UNCHANGED <<rowEpoch, visit>>
        /\ \/ ~req.enable /\ upc' = "clear" /\ req' = req
           \/ upc' = "idle" /\ req'.epoch = 0
    BY <1>7 DEF PatchWrite, account, monitor, NoRequest
  <2>q. QED BY <1>0, <2>1, <2>2 DEF Ages, RequestFits
<1>8. CASE RequestFails
  <2>1. upc' = "idle" /\ req'.epoch = 0 /\ UNCHANGED <<rowEpoch, visit, row>>
    BY <1>8 DEF RequestFails, account, monitor, NoRequest
  <2>q. QED BY <1>0, <2>1 DEF Ages, RequestFits
<1>9. CASE DisarmAll
  <2>1. row'.since = row.since /\ UNCHANGED <<rowEpoch, visit, req, upc>>
    BY <1>0, <1>9 DEF DisarmAll, SetArmed, Row, account, monitor, browser
  <2>2. upc = "idle"
    BY <1>9 DEF DisarmAll, RowInv, RowLockHeld
  <2>q. QED BY <1>0, <2>1, <2>2 DEF Ages, RequestFits
<1>q. QED BY <1>1, <1>2, <1>3, <1>4, <1>5, <1>6, <1>7, <1>8, <1>9 DEF RequestStep

\* Every step keeps the invariant.
LEMMA FitStep == FitInv /\ [RowNext]_rowVars => FitInv'
<1> SUFFICES ASSUME FitInv, [RowNext]_rowVars PROVE Ages' /\ RequestFits'
  BY StepInv DEF FitInv
<1>1. CASE Open \/ Close \/ Average \/ OpeningServed \/ MarkMoves
  <2>1. /\ rowEpoch \in Nat /\ rowEpoch' \in {rowEpoch, rowEpoch + 1} /\ UNCHANGED <<row, visit, req, upc>>
        /\ row.since \in Nat /\ visit.epoch \in Nat /\ req.epoch \in Nat
    BY <1>1 DEF Open, Close, Average, OpeningServed, MarkMoves, monitor, browser, FitInv, RowInv, RowTypeOK, Row
  <2>q. QED BY <2>1 DEF FitInv, Ages, RequestFits
<1>2. CASE ProcessRestart
  <2>1. upc' = "idle" /\ req'.epoch = 0 /\ visit'.epoch = 0 /\ UNCHANGED <<rowEpoch, row>> /\ rowEpoch \in Nat
    BY <1>2 DEF ProcessRestart, account, NoRequest, NoVisit, FitInv, RowInv, RowTypeOK
  <2>q. QED BY <2>1 DEF FitInv, Ages, RequestFits
<1>3. CASE UNCHANGED rowVars
  BY <1>3 DEF rowVars, account, monitor, browser, FitInv, Ages, RequestFits
<1>q. QED BY <1>1, <1>2, <1>3, MonitorFits, BrowserFits DEF RowNext

\* An open row comes to hold a rule that was armed for an earlier position than its
\* baseline's only through a request between whose awaits the monitor took that
\* baseline, for any number of positions, entries and rules.
THEOREM RulesNotHandedOn == RowSpec => NoOldArming
<1> DEFINE Same == \A r \in ArmRules : OldRule(r)' => OldRule(r) \/ (upc = "write" /\ req.torn)
<1>1. RowInit => FitInv
  BY RowInvInit DEF RowInit, FitInv, Ages, RequestFits, ClosedRow, NoVisit, NoRequest
<1>2. FitInv /\ [RowNext]_rowVars => FitInv'
  BY FitStep
<1>3. FitInv /\ [RowNext]_rowVars => [Same]_rowVars
  <2> SUFFICES ASSUME FitInv, RowNext, NEW r \in ArmRules, OldRule(r)',
                      ~(upc = "write" /\ req.torn)
               PROVE  OldRule(r)
    OBVIOUS
  <2> USE DEF FitInv
  <2>0. /\ row \in Row /\ visit.epoch \in Nat /\ visit.entry \in Entries /\ visit.sig \in Nat
        /\ req.entry \in Entries /\ req.sig \in Nat /\ req.epoch \in Nat /\ req.armed \in Arming
        /\ row.since \in Nat
    BY DEF RowInv, RowTypeOK, Row
  <2>1. row'.armed # Disarmed
    BY DEF OldRule, Disarmed
  <2>2. CASE row'.since = row.since /\ row'.armed = row.armed
    BY <2>2 DEF OldRule
  <2>3. CASE MonitorUpsert
    BY <2>0, <2>1, <2>2, <2>3, UpsertBaseline DEF MonitorUpsert
  <2>4. CASE ArmUpsert
    BY <2>0, <2>1, <2>2, <2>4, UpsertBaseline DEF ArmUpsert
  <2>5. CASE MonitorAlerts \/ MoveDone \/ PatchClear
    BY <2>2, <2>5, OtherWrites
  <2>6. CASE PatchWrite
    <3>1. CASE row.open
      <4>1. /\ row'.since = row.since /\ row'.armed = [req.armed EXCEPT ![req.rule] = req.epoch]
            /\ upc = "write"
        BY <2>0, <2>6, <3>1 DEF PatchWrite, SetArmed, Row
      <4>2. (req.epoch = 0 \/ row.since <= req.epoch) /\ req.armed = row.armed
        BY <3>1, <4>1 DEF RequestFits
      <4>3. r = req.rule => row'.armed[r] = req.epoch
        BY <2>0, <4>1 DEF Arming
      <4>4. r # req.rule => row'.armed[r] = row.armed[r]
        BY <2>0, <4>1, <4>2 DEF Arming
      <4>q. QED BY <2>0, <4>1, <4>2, <4>3, <4>4 DEF OldRule
    <3>2. CASE ~row.open
      BY <2>2, <2>6, <3>2 DEF PatchWrite, SetArmed
    <3>q. QED BY <3>1, <3>2
  <2>7. CASE DisarmAll \/ Sweep
    <3>1. row' = row \/ row'.armed = Disarmed
      BY <2>0, <2>7 DEF DisarmAll, Sweep, SetArmed, ClosedRow, Row
    <3>q. QED BY <2>1, <2>2, <3>1
  <2>8. CASE UNCHANGED row
    BY <2>2, <2>8
  <2>9. \/ UNCHANGED row \/ MonitorUpsert \/ ArmUpsert \/ MonitorAlerts \/ MoveDone \/ PatchClear
        \/ PatchWrite \/ DisarmAll \/ Sweep
    BY DEF RowNext, MonitorStep, RequestStep, SnapshotShows, SnapshotMisses, MonitorFills, MonitorRead, VisitEnds,
           MoveStarts, MoveFails, ArmSnapshot, ArmFills, PatchRead, RequestFails, StartArm, StartDisarm, Open,
           Close, Average, OpeningServed, MarkMoves, ProcessRestart
  <2>q. QED BY <2>3, <2>4, <2>5, <2>6, <2>7, <2>8, <2>9
<1>4. RowSpec => [][Same]_rowVars
  BY <1>1, <1>2, <1>3, PTL DEF RowSpec
<1>q. QED BY <1>4 DEF NoOldArming

-----------------------------------------------------------------------------
(* What the rules decide about the stop (TradeRules) *)

\* A set of natural numbers that is not empty has a least element.
LEMMA LeastOf ==
  ASSUME NEW S \in SUBSET Nat, S # {}
  PROVE  Min(S) \in S /\ \A y \in S : Min(S) <= y
<1> DEFINE LessThan == {p \in Nat \X Nat : p[1] < p[2]}
<1>1. IsWellFoundedOn(LessThan, Nat) BY NatLessThanWellFounded DEF OpToRel
<1>2. PICK x \in S : \A y \in S : ~(<<y, x>> \in LessThan) BY <1>1, WFMin
<1>3. \A y \in S : x <= y
  <2> TAKE y \in S
  <2>1. x \in Nat /\ y \in Nat OBVIOUS
  <2>2. y < x => <<y, x>> \in LessThan BY <2>1
  <2> HIDE DEF LessThan
  <2> QED BY <1>2, <2>1, <2>2
<1> QED BY <1>2, <1>3 DEF Min

\* A bounded one has a greatest.
LEMMA GreatestOf ==
  ASSUME NEW N \in Nat, NEW S \in SUBSET (0..N), S # {}
  PROVE  Max(S) \in S /\ \A y \in S : y <= Max(S)
<1> DEFINE D == {N - y : y \in S}
<1>0. \A y \in S : N - y \in Nat OBVIOUS
<1>1. D \in SUBSET Nat /\ D # {} BY <1>0
<1>2. PICK d \in D : \A e \in D : d <= e BY <1>1, LeastOf
<1>3. PICK x \in S : d = N - x BY <1>2
<1>4. \A y \in S : x >= y
  <2> TAKE y \in S
  <2>1. d <= N - y BY <1>2
  <2> QED BY <1>3, <2>1
<1>5. Max(S) \in S /\ \A y \in S : Max(S) >= y BY <1>4 DEF Max
<1> QED BY <1>5

\* The tightest of some prices.
LEMMA TightestIs ==
  ASSUME side \in {"long", "short"}, NEW S \in SUBSET Marks, S # {}
  PROVE  Tightest(S) \in S /\ \A y \in S : ~Tighter(y, Tightest(S))
<1>1. CASE side = "long"
  <2>1. S \in SUBSET (0..MaxMark) /\ MaxMark \in Nat BY TicksAssumption DEF Marks
  <2>2. Max(S) \in S /\ \A y \in S : y <= Max(S) BY <2>1, GreatestOf
  <2>3. Tightest(S) = Max(S) /\ \A a, b : Tighter(a, b) <=> a > b BY <1>1 DEF Tightest, Tighter
  <2>4. \A a \in 0..MaxMark, b \in 0..MaxMark : a <= b => ~(a > b) BY <2>1
  <2> QED BY <2>1, <2>2, <2>3, <2>4
<1>2. CASE side = "short"
  <2>1. S \in SUBSET Nat BY TicksAssumption DEF Marks
  <2>2. Min(S) \in S /\ \A y \in S : Min(S) <= y BY <2>1, LeastOf
  <2>3. Tightest(S) = Min(S) /\ \A a, b : Tighter(a, b) <=> a < b BY <1>2 DEF Tightest, Tighter
  <2>4. \A a, b \in Nat : a <= b => ~(b < a) OBVIOUS
  <2> QED BY <2>1, <2>2, <2>3, <2>4
<1> QED BY <1>1, <1>2

\* What rests has a price, and what is decided is one that can be quoted.
Priced ==
  /\ \A i \in Resting : triggers[i].px \in Marks
  /\ decided # NoMove => decided.sl \in Marks

\* What is secured is at most what there is.
Within == secured.vol <= lots

\* A move that serves break-even is at the break-even it was decided at, or better.
Latching == decided.latch => ~Tighter(decided.be, decided.sl)

RulesInv == RulesTypeOK /\ Priced /\ Within /\ Latching /\ BreakEvenKept

Decisions == [rule : AutoRules \cup {"none"}, sl : Int, be : Int, latch : BOOLEAN]
Sizes == [vol : 0..MaxSize, px : Int]

\* Numbers are compared as they should be.
LEMMA Numbers ==
  /\ MaxMark \in Nat /\ EntryPrice \in Nat /\ EntryPrice \in Marks /\ Fee \in Nat
  /\ MaxSize \in Nat /\ Hold \in 1..MaxSize /\ Marks \subseteq 1..MaxMark /\ Marks \subseteq Int
  BY TicksAssumption, OrdersAssumption DEF Marks

\* The types of the state, for the steps below.
LEMMA RulesFields ==
  ASSUME RulesTypeOK
  PROVE  /\ side \in {"long", "short"} /\ quote \in Marks /\ avg \in Marks /\ lots \in 0..MaxSize /\ lots \in Nat
         /\ baseline \in RuleRows /\ baseline.snap \in Marks /\ baseline.r1 \in 0..MaxMark
         /\ baseline.hw \in Marks /\ baseline.done \in BOOLEAN
         /\ triggers \in [TriggerIds -> Triggers] /\ decided \in Decisions
         /\ secured \in Sizes /\ secured.vol \in 0..MaxSize /\ secured.vol \in Nat /\ secured.px \in Int
         /\ BreakEven \in Int
<1>1. side \in {"long", "short"} /\ quote \in Marks /\ avg \in Marks /\ lots \in 0..MaxSize
  BY DEF RulesTypeOK
<1>2. baseline \in RuleRows /\ triggers \in [TriggerIds -> Triggers] /\ decided \in Decisions /\ secured \in Sizes
  BY DEF RulesTypeOK, Decisions, Sizes
<1>3. /\ baseline.snap \in Marks /\ baseline.r1 \in 0..MaxMark
      /\ baseline.hw \in Marks /\ baseline.done \in BOOLEAN
  BY <1>2 DEF RuleRows
<1>4. secured.vol \in 0..MaxSize /\ secured.px \in Int BY <1>2 DEF Sizes
<1>5. lots \in Nat /\ secured.vol \in Nat BY <1>1, <1>4, Numbers
<1>6. BreakEven \in Int
  <2>1. avg \in Int /\ Fee \in Int BY <1>1, Numbers
  <2> QED BY <2>1 DEF BreakEven, BreakEvenOf
<1> QED BY <1>1, <1>2, <1>3, <1>4, <1>5, <1>6

\* The tightest of the orders seen is one of their prices; 0 means none.
LEMMA TightestSeen ==
  ASSUME RulesTypeOK, Priced, NEW ids \in SUBSET Resting, ids # {}
  PROVE  /\ TightestOf(ids) \in Marks /\ TightestOf(ids) # 0
         /\ \A i \in ids : ~Tighter(triggers[i].px, TightestOf(ids))
<1> DEFINE S == {triggers[i].px : i \in ids}
<1>1. S \in SUBSET Marks /\ S # {} BY DEF Priced
<1>2. side \in {"long", "short"} BY DEF RulesTypeOK
<1>3. Tightest(S) \in S /\ \A y \in S : ~Tighter(y, Tightest(S)) BY <1>1, <1>2, TightestIs
<1>4. TightestOf(ids) = Tightest(S) BY DEF TightestOf
<1>5. 0 \notin Marks BY Numbers
<1> HIDE DEF S
<1>6. TightestOf(ids) \in Marks BY <1>1, <1>3, <1>4
<1>7. \A i \in ids : triggers[i].px \in S BY DEF S
<1> QED BY <1>3, <1>4, <1>5, <1>6, <1>7

\* So is the price at which the stops cover the position.
LEMMA CoverPriced ==
  ASSUME RulesTypeOK, Priced
  PROVE  CoverPrice(TriggerIds) \in Marks \cup {0}
<1>1. \A ids \in SUBSET Resting : TightestOf(ids) \in Marks \cup {0}
  BY TightestSeen DEF TightestOf
<1>2. StopsAmong(TriggerIds, TRUE) \subseteq Resting BY DEF StopsAmong, IsStop, Resting
<1> QED BY <1>1, <1>2 DEF CoverPrice

\* Being at break-even or past it carries over to a tighter price.
LEMMA TighterStill ==
  ASSUME NEW a \in Int, NEW b \in Int, NEW c \in Int, ~Tighter(a, b), ~Tighter(b, c)
  PROVE  ~Tighter(a, c)
  BY DEF Tighter

-----------------------------------------------------------------------------
\* A new stop rests where nothing did, and the orders in gone may go.
LEMMA PlacedOrder ==
  ASSUME RulesTypeOK, NEW sl \in Marks, NEW seen \in SUBSET Seen, triggers' \in Replaced(sl, seen)
  PROVE  /\ triggers' \in [TriggerIds -> Triggers]
         /\ \E n \in TriggerIds : /\ triggers'[n] = [kind |-> "sl", px |-> sl, vol |-> lots]
                                  /\ \A i \in Resting \ seen : triggers'[i] = triggers[i]
         /\ \A i \in TriggerIds : \/ triggers'[i] = [kind |-> "sl", px |-> sl, vol |-> lots]
                                  \/ triggers'[i] = triggers[i]
                                  \/ triggers'[i] = Gone
<1>1. Free # {} BY DEF Replaced
<1>2. PICK cancelled \in SUBSET seen :
        triggers' = [i \in TriggerIds |-> IF i = Min(Free) THEN [kind |-> "sl", px |-> sl, vol |-> lots]
                                          ELSE IF i \in cancelled THEN Gone ELSE triggers[i]]
  BY <1>1 DEF Replaced
<1>3. Min(Free) \in Free
  <2>1. Free \in SUBSET Nat BY OrdersAssumption DEF Free
  <2> QED BY <1>1, <2>1, LeastOf
<1>4. Min(Free) \in TriggerIds /\ Min(Free) \notin Resting BY <1>3 DEF Free
<1>5. [kind |-> "sl", px |-> sl, vol |-> lots] \in Triggers /\ Gone \in Triggers
  <2>1. sl \in 0..MaxMark /\ lots \in 0..MaxSize /\ 0 \in 0..MaxMark /\ 0 \in 0..MaxSize
    BY Numbers, RulesFields DEF Marks
  <2> QED BY <2>1 DEF Triggers, Gone
<1>6. triggers \in [TriggerIds -> Triggers] BY DEF RulesTypeOK
<1>7. triggers' \in [TriggerIds -> Triggers] BY <1>2, <1>5, <1>6
<1>8. triggers'[Min(Free)] = [kind |-> "sl", px |-> sl, vol |-> lots] BY <1>2, <1>4
<1>9. \A i \in Resting \ seen : triggers'[i] = triggers[i]
  BY <1>2, <1>4 DEF Resting
<1>10. \A i \in TriggerIds : \/ triggers'[i] = [kind |-> "sl", px |-> sl, vol |-> lots]
                             \/ triggers'[i] = triggers[i] \/ triggers'[i] = Gone
  BY <1>2
<1> QED BY <1>4, <1>7, <1>8, <1>9, <1>10

\* A placed stop leaves what rests priced; an order that secures the position stays,
\* or the new one takes its place.
LEMMA MovedKeeps ==
  ASSUME RulesTypeOK, Priced, Within, NEW sl \in Marks, NEW seen \in SUBSET Seen, triggers' \in Replaced(sl, seen),
         seen # {} => Accepted(sl, seen), UNCHANGED side, NEW be \in Int, secured' \in {secured, SecuredBy(sl, be)}
  PROVE  /\ triggers' \in [TriggerIds -> Triggers]
         /\ \A i \in Resting' : triggers'[i].px \in Marks
         /\ (\E i \in Resting : Secures(i)) => \E i \in Resting' : Secures(i)'
         /\ secured' = SecuredBy(sl, be) /\ ~Tighter(be, sl) => \E i \in Resting' : Secures(i)'
<1>1. /\ triggers' \in [TriggerIds -> Triggers]
      /\ \A i \in TriggerIds : \/ triggers'[i] = [kind |-> "sl", px |-> sl, vol |-> lots]
                               \/ triggers'[i] = triggers[i]
                               \/ triggers'[i] = Gone
  BY PlacedOrder
<1>2. PICK n \in TriggerIds : /\ triggers'[n] = [kind |-> "sl", px |-> sl, vol |-> lots]
                              /\ \A i \in Resting \ seen : triggers'[i] = triggers[i]
  BY PlacedOrder
<1>3. \A i \in Resting' : triggers'[i].px \in Marks
  BY <1>1 DEF Resting, Gone, Priced
<1>4. \A a, b : Tighter(a, b)' <=> Tighter(a, b) BY DEF Tighter
<1>5. n \in Resting' BY <1>2 DEF Resting
<1>6. lots \in Nat /\ secured.vol \in Nat /\ secured.px \in Int /\ secured.vol <= lots
  BY RulesFields DEF Within
<1>7. ASSUME secured' = SecuredBy(sl, be), ~Tighter(be, sl) PROVE Secures(n)'
  <2>1. secured' = [vol |-> lots, px |-> be] BY <1>7 DEF SecuredBy
  <2> QED BY <1>2, <1>6, <1>7, <2>1 DEF Secures, Tighter
<1>8. ASSUME secured' = secured, ~Tighter(secured.px, sl) PROVE Secures(n)'
  BY <1>2, <1>6, <1>8 DEF Secures, Tighter
<1>9. ASSUME secured' = secured, NEW i \in Resting, Secures(i) PROVE \E j \in Resting' : Secures(j)'
  <2>1. CASE i \notin seen
    <3>1. triggers'[i] = triggers[i] BY <1>2, <2>1
    <3>2. i \in Resting' BY <3>1 DEF Resting
    <3>3. Secures(i)' BY <1>9, <3>1 DEF Secures, Tighter
    <3> QED BY <3>2, <3>3
  <2>2. CASE i \in seen
    <3>1. seen \subseteq Resting BY DEF Seen, StopsAmong, IsStop, Resting
    <3>2. /\ TightestOf(seen) \in Marks /\ TightestOf(seen) # 0
          /\ ~Tighter(triggers[i].px, TightestOf(seen))
      BY <2>2, <3>1, TightestSeen
    <3>3. ~Tighter(TightestOf(seen), sl) BY <2>2, <3>2 DEF Accepted
    <3>4. ~Tighter(secured.px, triggers[i].px) BY <1>9 DEF Secures
    <3>5. triggers[i].px \in Int /\ TightestOf(seen) \in Int /\ sl \in Int
      <4>1. triggers[i].px \in Marks BY DEF Priced
      <4> QED BY <3>2, <4>1, Numbers
    <3>6. ~Tighter(secured.px, TightestOf(seen)) BY <1>6, <3>2, <3>4, <3>5, TighterStill
    <3>7. ~Tighter(secured.px, sl) BY <1>6, <3>3, <3>5, <3>6, TighterStill
    <3> QED BY <1>5, <1>8, <1>9, <3>7
  <2> QED BY <2>1, <2>2
<1>10. Tighter(be, sl) /\ secured' = SecuredBy(sl, be) => secured' = secured BY DEF SecuredBy
<1>11. (\E i \in Resting : Secures(i)) => \E i \in Resting' : Secures(i)'
  BY <1>5, <1>7, <1>9, <1>10
<1> QED BY <1>1, <1>3, <1>5, <1>7, <1>11

\* What a confirmed stop secures is within the position.
LEMMA SecuredFits ==
  ASSUME RulesTypeOK, Within, NEW sl, NEW be \in Int
  PROVE  SecuredBy(sl, be) \in Sizes /\ SecuredBy(sl, be).vol <= lots
<1>1. lots \in 0..MaxSize /\ lots \in Nat /\ secured \in Sizes BY RulesFields
<1> QED BY <1>1 DEF SecuredBy, Sizes, Within

-----------------------------------------------------------------------------
\* The row as it is refreshed is latched only if it was.
LEMMA RefreshedRow ==
  ASSUME RulesTypeOK, NEW stop \in Marks \cup {0}
  PROVE  Refreshed(stop) \in RuleRows /\ (Refreshed(stop).done => baseline.done)
<1>1. baseline \in RuleRows /\ avg \in Marks /\ baseline.snap \in Marks /\ baseline.r1 \in 0..MaxMark
  BY RulesFields
<1>2. ASSUME NEW p \in Marks, stop # 0 PROVE Gap(p, stop) \in 0..MaxMark
  <2>1. p \in 1..MaxMark /\ stop \in 1..MaxMark /\ MaxMark \in Nat BY <1>2, Numbers
  <2> QED BY <2>1 DEF Gap
<1>3. 0 \in 0..MaxMark BY Numbers
<1>4. CASE Gap(avg, baseline.snap) > EntrySlack
  <2> DEFINE risk == IF stop = 0 THEN 0 ELSE Gap(avg, stop)
  <2>1. risk \in 0..MaxMark BY <1>1, <1>2, <1>3
  <2>2. Refreshed(stop) = Recorded(avg, risk) BY <1>4 DEF Refreshed
  <2> HIDE DEF risk
  <2> QED BY <1>1, <1>3, <2>1, <2>2 DEF Recorded, RuleRows
<1>5. CASE ~(Gap(avg, baseline.snap) > EntrySlack)
  <2> DEFINE risk == IF baseline.r1 = 0 /\ stop # 0 THEN Gap(baseline.snap, stop) ELSE baseline.r1
  <2>1. risk \in 0..MaxMark BY <1>1, <1>2
  <2>2. Refreshed(stop) = [baseline EXCEPT !.r1 = risk] BY <1>5 DEF Refreshed
  <2> HIDE DEF risk
  <2> QED BY <1>1, <2>1, <2>2 DEF RuleRows
<1> QED BY <1>4, <1>5

\* A visit of the monitor: both rules ask for prices between the stop and the quote.
LEMMA RulePrices ==
  ASSUME RulesTypeOK, NEW stop \in Marks, NEW now \in RuleRows, NEW atr \in Atrs,
         NEW m \in BreakEvenMove(now, stop) \cup TrailMove(now, stop, atr)
  PROVE  /\ m.sl \in Marks
         /\ m.rule \in AutoRules
         /\ m.rule = "auto_be" => m.sl = BreakEven
<1>1. /\ side \in {"long", "short"} /\ atr \in Nat /\ TrailMult * atr \in Nat /\ now.hw \in Int
      /\ stop \in Int /\ quote \in Int /\ BreakEven \in Int
  <2>1. side \in {"long", "short"} /\ quote \in Marks /\ BreakEven \in Int BY RulesFields
  <2>2. now.hw \in Marks BY DEF RuleRows
  <2>3. atr \in Nat /\ TrailMult \in Nat BY TicksAssumption
  <2>4. TrailMult * atr \in Nat BY <2>3
  <2> QED BY <2>1, <2>2, <2>3, <2>4, Numbers
<1>2. ASSUME NEW p \in Int, Tighter(quote, p), Tighter(p, stop) PROVE p \in Marks
  <2>1. quote \in 1..MaxMark /\ stop \in 1..MaxMark /\ MaxMark \in Nat BY RulesFields, Numbers
  <2> QED BY <1>1, <1>2, <2>1 DEF Tighter, Marks
<1>3. CASE m \in BreakEvenMove(now, stop)
  <2>1. m = [rule |-> "auto_be", sl |-> BreakEven] /\ BehindQuote(BreakEven) /\ Tighter(BreakEven, stop)
    BY <1>3 DEF BreakEvenMove
  <2>2. BreakEven \in Marks BY <1>1, <1>2, <2>1 DEF BehindQuote
  <2> QED BY <2>1, <2>2 DEF AutoRules
<1>4. CASE m \in TrailMove(now, stop, atr)
  <2> DEFINE trail == Backed(now.hw, TrailMult * atr)
  <2>1. m = [rule |-> "auto_trail", sl |-> trail] /\ BehindQuote(trail) /\ Tighter(trail, stop)
    BY <1>4 DEF TrailMove
  <2>2. trail \in Int BY <1>1 DEF Backed
  <2> HIDE DEF trail
  <2>3. trail \in Marks BY <1>2, <2>1, <2>2 DEF BehindQuote
  <2> QED BY <2>1, <2>3 DEF AutoRules
<1> QED BY <1>3, <1>4

\* What is chosen is one of the prices, and at break-even or past it if that was due.
LEMMA ChosenMove ==
  ASSUME side \in {"long", "short"}, BreakEven \in Int, NEW moves,
         \A m \in moves : /\ m.sl \in Marks /\ m.rule \in AutoRules
                          /\ m.rule = "auto_be" => m.sl = BreakEven
  PROVE  /\ Chosen(moves) \in Decisions
         /\ Chosen(moves) # NoMove => Chosen(moves).sl \in Marks
         /\ Chosen(moves).latch => ~Tighter(Chosen(moves).be, Chosen(moves).sl)
<1>1. CASE moves = {} BY <1>1 DEF Chosen, NoMove, Decisions
<1>2. CASE moves # {}
  <2> DEFINE S == {m.sl : m \in moves}
  <2>1. S \in SUBSET Marks /\ S # {} BY <1>2
  <2>2. Tightest(S) \in S /\ \A y \in S : ~Tighter(y, Tightest(S)) BY <2>1, TightestIs
  <2>3. Tightest(S) \in Marks /\ Tightest(S) \in Int BY <2>1, <2>2, Numbers
  <2>4. /\ Chosen(moves).sl = Tightest(S) /\ Chosen(moves).be = BreakEven
        /\ Chosen(moves).latch = (\E m \in moves : m.rule = "auto_be")
        /\ Chosen(moves) \in [rule : AutoRules, sl : {Tightest(S)}, be : {BreakEven}, latch : BOOLEAN]
    BY <1>2 DEF Chosen, AutoRules
  <2>5. ASSUME NEW m \in moves, m.rule = "auto_be" PROVE ~Tighter(BreakEven, Tightest(S))
    <3>1. m.sl \in S /\ m.sl = BreakEven BY <2>5
    <3> HIDE DEF S
    <3> QED BY <2>2, <3>1
  <2> HIDE DEF S
  <2>6. Chosen(moves) \in Decisions BY <2>3, <2>4 DEF Decisions
  <2> QED BY <2>3, <2>4, <2>5, <2>6
<1> QED BY <1>1, <1>2

\* A step that leaves what rests, what is secured, and its history, keeps the
\* invariant of the latch.
LEMMA OrdersStay ==
  ASSUME RulesInv, UNCHANGED <<side, triggers, secured, meddled>>, baseline'.done => baseline.done
  PROVE  BreakEvenKept'
  BY DEF RulesInv, BreakEvenKept, Resting, Secures, Tighter

\* The price at which the stops cover the position, or none, is what a visit or a
\* request refreshes the row with.
LEMMA CoversPriced == ASSUME RulesTypeOK, Priced, NEW stop \in Covers PROVE stop \in Marks \cup {0}
  BY CoverPriced DEF Covers

\* A visit decides a price that serves break-even only if it is at break-even or past it.
LEMMA DecidesKept == ASSUME RulesInv, MonitorDecides PROVE RulesInv'
<1>1. PICK stop \in Covers, atr \in Atrs :
        LET kept == Refreshed(stop)
            now == [kept EXCEPT !.hw = Tightest({@, quote})]
        IN /\ baseline' = now
           /\ decided' = IF stop = 0 THEN NoMove
                         ELSE Chosen(BreakEvenMove(now, stop) \cup TrailMove(now, stop, atr))
  BY DEF MonitorDecides
<1> DEFINE kept == Refreshed(stop)
           best == Tightest({kept.hw, quote})
           now == [kept EXCEPT !.hw = best]
           moves == BreakEvenMove(now, stop) \cup TrailMove(now, stop, atr)
<1>2. RulesTypeOK /\ Priced /\ side \in {"long", "short"} /\ quote \in Marks /\ BreakEven \in Int
  BY RulesFields DEF RulesInv
<1>3. stop \in Marks \cup {0} BY <1>2, CoversPriced
<1>4. kept \in RuleRows /\ (kept.done => baseline.done) BY <1>2, <1>3, RefreshedRow
<1>5. baseline' = now /\ decided' = IF stop = 0 THEN NoMove ELSE Chosen(moves) BY <1>1
<1> HIDE DEF kept
<1>6. best \in Marks
  <2>1. kept.hw \in Marks BY <1>4 DEF RuleRows
  <2>2. {kept.hw, quote} \in SUBSET Marks /\ {kept.hw, quote} # {} BY <1>2, <2>1
  <2>3. Tightest({kept.hw, quote}) \in {kept.hw, quote} BY <1>2, <2>2, TightestIs
  <2> QED BY <1>2, <2>1, <2>3
<1> HIDE DEF best
<1>7. now \in RuleRows /\ now.done = kept.done BY <1>4, <1>6 DEF RuleRows
<1> HIDE DEF now
<1>8. /\ decided' \in Decisions
      /\ decided' # NoMove => decided'.sl \in Marks
      /\ decided'.latch => ~Tighter(decided'.be, decided'.sl)
  <2>1. CASE stop = 0 BY <1>5, <2>1 DEF NoMove, Decisions
  <2>2. CASE stop # 0
    <3>1. stop \in Marks BY <1>3, <2>2
    <3>2. \A m \in moves : /\ m.sl \in Marks /\ m.rule \in AutoRules
                           /\ m.rule = "auto_be" => m.sl = BreakEven
      BY <1>2, <1>7, <3>1, RulePrices
    <3>3. decided' = Chosen(moves) BY <1>5, <2>2
    <3> HIDE DEF moves
    <3> QED BY <1>2, <3>2, <3>3, ChosenMove
  <2> QED BY <2>1, <2>2
<1>9. UNCHANGED <<side, quote, lots, avg, triggers, secured, meddled>> BY DEF MonitorDecides
<1> HIDE DEF moves
<1>10. RulesTypeOK' BY <1>2, <1>5, <1>7, <1>8, <1>9 DEF RulesTypeOK, Decisions, RuleRows, Marks, Triggers
<1>11. Priced' BY <1>2, <1>8, <1>9 DEF Priced, Resting, NoMove, Marks
<1>12. Latching' BY <1>8, <1>9 DEF Latching, Tighter
<1>13. Within' BY <1>9 DEF RulesInv, Within
<1>14. BreakEvenKept' BY <1>4, <1>5, <1>7, <1>9, OrdersStay
<1> QED BY <1>10, <1>11, <1>12, <1>13, <1>14 DEF RulesInv

\* A step that writes the row alone, and does not latch.
LEMMA RowWritten ==
  ASSUME RulesInv, baseline' \in RuleRows, baseline'.done => baseline.done,
         UNCHANGED <<side, quote, lots, avg, triggers, decided, secured, meddled>>
  PROVE  RulesInv'
<1>1. RulesTypeOK' BY DEF RulesInv, RulesTypeOK, Marks, RuleRows, Triggers
<1>2. Priced' /\ Within' /\ Latching'
  BY DEF RulesInv, Priced, Resting, Within, Latching, Marks, NoMove, Tighter
<1>3. BreakEvenKept' BY OrdersStay
<1> QED BY <1>1, <1>2, <1>3 DEF RulesInv

\* Arming writes a row that is latched only if it was.
LEMMA ArmRequestKept == ASSUME RulesInv, NEW rules \in SUBSET AutoRules, ArmRequest(rules) PROVE RulesInv'
<1>1. PICK stop \in Covers : baseline' = [Refreshed(stop) EXCEPT !.armed = rules] BY DEF ArmRequest
<1>2. stop \in Marks \cup {0} BY CoversPriced DEF RulesInv
<1>3. Refreshed(stop) \in RuleRows /\ (Refreshed(stop).done => baseline.done)
  BY <1>2, RefreshedRow DEF RulesInv
<1>4. baseline' \in RuleRows /\ baseline'.done = Refreshed(stop).done BY <1>1, <1>3 DEF RuleRows
<1> QED BY <1>3, <1>4, RowWritten DEF ArmRequest

\* Disarming writes the armed rules alone.
LEMMA DisarmRequestKept == ASSUME RulesInv, NEW rules \in SUBSET AutoRules, DisarmRequest(rules) PROVE RulesInv'
<1>1. baseline \in RuleRows BY RulesFields DEF RulesInv
<1>2. baseline' = [baseline EXCEPT !.armed = baseline.armed \ rules] BY DEF DisarmRequest
<1>3. baseline' \in RuleRows /\ baseline'.done = baseline.done BY <1>1, <1>2 DEF RuleRows
<1> QED BY <1>3, RowWritten DEF DisarmRequest

-----------------------------------------------------------------------------
\* A verified move rests its stop; if it served break-even the latch is true of that stop.
LEMMA AutoMovedKept == ASSUME RulesInv, AutoMoved PROVE RulesInv'
<1>1. PICK seen \in SUBSET Seen : Accepted(decided.sl, seen) /\ triggers' \in Replaced(decided.sl, seen)
  BY DEF AutoMoved
<1>2. decided.sl \in Marks /\ RulesTypeOK /\ Priced /\ Within BY DEF AutoMoved, RulesInv, Priced
<1>3. PICK saved \in BOOLEAN : baseline' = [baseline EXCEPT !.done = baseline.done \/ (decided.latch /\ saved)]
  BY DEF AutoMoved
<1>4. /\ decided' = NoMove /\ secured' = SecuredBy(decided.sl, decided.be)
      /\ UNCHANGED <<side, quote, lots, avg, meddled>>
  BY DEF AutoMoved
<1>5. decided.be \in Int /\ decided.latch \in BOOLEAN /\ baseline \in RuleRows /\ baseline.done \in BOOLEAN
  <2>1. decided \in Decisions BY <1>2, RulesFields
  <2> QED BY <1>2, <2>1, RulesFields DEF Decisions
<1>6. /\ triggers' \in [TriggerIds -> Triggers]
      /\ \A i \in Resting' : triggers'[i].px \in Marks
      /\ (\E i \in Resting : Secures(i)) => \E i \in Resting' : Secures(i)'
      /\ ~Tighter(decided.be, decided.sl) => \E i \in Resting' : Secures(i)'
  BY <1>1, <1>2, <1>4, <1>5, MovedKeeps
<1>7. baseline' \in RuleRows /\ baseline'.done = (baseline.done \/ (decided.latch /\ saved))
  BY <1>3, <1>5 DEF RuleRows
<1>8. secured' \in Sizes /\ secured'.vol <= lots BY <1>2, <1>4, <1>5, SecuredFits
<1>9. RulesTypeOK' /\ Within'
  <2>1. NoMove \in Decisions BY DEF NoMove, Decisions
  <2> QED BY <1>2, <1>4, <1>6, <1>7, <1>8, <2>1
          DEF RulesTypeOK, Within, Decisions, Sizes, RuleRows, Marks, Triggers
<1>10. Priced' BY <1>4, <1>6 DEF Priced, NoMove, Marks
<1>11. Latching' BY <1>4 DEF Latching, NoMove
<1>12. BreakEvenKept'
  <2>1. ASSUME baseline'.done, secured'.vol > 0, meddled' # "removed" PROVE \E i \in Resting' : Secures(i)'
    <3>1. CASE ~Tighter(decided.be, decided.sl) BY <1>6, <3>1
    <3>2. CASE Tighter(decided.be, decided.sl)
      <4>1. secured' = secured BY <1>4, <3>2 DEF SecuredBy
      <4>2. ~decided.latch BY <3>2 DEF RulesInv, Latching
      <4>3. baseline.done BY <1>7, <2>1, <4>2
      <4>4. \E i \in Resting : Secures(i) BY <1>4, <2>1, <4>1, <4>3 DEF RulesInv, BreakEvenKept
      <4> QED BY <1>6, <4>4
    <3> QED BY <3>1, <3>2
  <2> QED BY <2>1 DEF BreakEvenKept
<1> QED BY <1>9, <1>10, <1>11, <1>12 DEF RulesInv

\* A move that is not confirmed adds a stop at most.
LEMMA UnconfirmedKept ==
  ASSUME RulesInv, NEW sl \in Marks, triggers' \in Unconfirmed(sl),
         UNCHANGED <<side, baseline, secured, meddled>>
  PROVE  /\ triggers' \in [TriggerIds -> Triggers]
         /\ \A i \in Resting' : triggers'[i].px \in Marks
         /\ BreakEvenKept'
<1>0. RulesTypeOK /\ Priced /\ Within /\ BreakEvenKept BY DEF RulesInv
<1>1. CASE triggers' = triggers
  BY <1>0, <1>1 DEF RulesTypeOK, Priced, BreakEvenKept, Resting, Secures, Tighter
<1>2. CASE triggers' \in Replaced(sl, {})
  <2>1. /\ triggers' \in [TriggerIds -> Triggers]
        /\ \A i \in Resting' : triggers'[i].px \in Marks
        /\ (\E i \in Resting : Secures(i)) => \E i \in Resting' : Secures(i)'
    <3>1. {} \in SUBSET Seen /\ 0 \in Int OBVIOUS
    <3> QED BY <1>0, <1>2, <3>1, MovedKeeps
  <2> QED BY <1>0, <2>1 DEF BreakEvenKept
<1> QED BY <1>1, <1>2 DEF Unconfirmed

\* A move that is refused or not confirmed takes no stop away.
LEMMA AutoNotMovedKept == ASSUME RulesInv, AutoNotMoved PROVE RulesInv'
<1>1. decided.sl \in Marks /\ RulesTypeOK /\ Priced BY DEF AutoNotMoved, RulesInv, Priced
<1>2. /\ decided' = NoMove
      /\ UNCHANGED <<side, quote, lots, avg, baseline, secured, meddled>>
      /\ triggers' \in Unconfirmed(decided.sl)
  BY DEF AutoNotMoved, LeftBehind, Unconfirmed
<1>3. /\ triggers' \in [TriggerIds -> Triggers]
      /\ \A i \in Resting' : triggers'[i].px \in Marks
      /\ BreakEvenKept'
  BY <1>1, <1>2, UnconfirmedKept
<1>4. RulesTypeOK' BY <1>1, <1>2, <1>3 DEF RulesTypeOK, NoMove, Marks, RuleRows, Triggers
<1>5. Priced' /\ Latching' /\ Within'
  BY <1>2, <1>3 DEF Priced, NoMove, Marks, Latching, RulesInv, Within
<1> QED BY <1>3, <1>4, <1>5 DEF RulesInv

\* A manual move is not below the tightest stop it sees.
LEMMA ManualMoveKept == ASSUME RulesInv, NEW sl \in Moves, ManualMove(sl) PROVE RulesInv'
<1>0. sl \in Marks BY TicksAssumption DEF Marks
<1>1. RulesTypeOK /\ Priced /\ Within /\ BreakEvenKept BY DEF RulesInv
<1>2. UNCHANGED <<side, quote, lots, avg, decided, meddled>> BY DEF ManualMove
<1>3. /\ triggers' \in [TriggerIds -> Triggers]
      /\ \A i \in Resting' : triggers'[i].px \in Marks
      /\ BreakEvenKept'
      /\ baseline' \in RuleRows /\ secured' \in Sizes /\ secured'.vol <= lots
  <2>1. CASE triggers' \in Unconfirmed(sl) /\ UNCHANGED <<baseline, secured>>
    <3>1. baseline' \in RuleRows /\ secured' \in Sizes /\ secured'.vol <= lots
      BY <1>1, <2>1, RulesFields DEF Within
    <3> QED BY <1>0, <1>2, <2>1, <3>1, UnconfirmedKept
  <2>2. ASSUME NEW seen \in SUBSET Seen, Accepted(sl, seen), triggers' \in Replaced(sl, seen),
               baseline' = [baseline EXCEPT !.override = baseline.hw], secured' = SecuredBy(sl, BreakEven)
        PROVE  /\ triggers' \in [TriggerIds -> Triggers]
               /\ \A i \in Resting' : triggers'[i].px \in Marks
               /\ BreakEvenKept'
               /\ baseline' \in RuleRows /\ secured' \in Sizes /\ secured'.vol <= lots
    <3>0. BreakEven \in Int BY <1>1, RulesFields
    <3>1. /\ triggers' \in [TriggerIds -> Triggers]
          /\ \A i \in Resting' : triggers'[i].px \in Marks
          /\ (\E i \in Resting : Secures(i)) => \E i \in Resting' : Secures(i)'
          /\ ~Tighter(BreakEven, sl) => \E i \in Resting' : Secures(i)'
      BY <1>0, <1>1, <1>2, <2>2, <3>0, MovedKeeps
    <3>2. baseline \in RuleRows /\ baseline.hw \in 0..MaxMark
      <4>1. baseline \in RuleRows /\ baseline.hw \in 1..MaxMark /\ MaxMark \in Nat BY <1>1, RulesFields, Numbers
      <4> QED BY <4>1
    <3>3. baseline' \in RuleRows /\ baseline'.done = baseline.done BY <2>2, <3>2 DEF RuleRows
    <3>4. secured' \in Sizes /\ secured'.vol <= lots BY <1>1, <2>2, <3>0, SecuredFits
    <3>5. BreakEvenKept'
      <4>1. Tighter(BreakEven, sl) => secured' = secured BY <2>2 DEF SecuredBy
      <4> QED BY <1>1, <1>2, <3>1, <3>3, <4>1 DEF BreakEvenKept
    <3> QED BY <3>1, <3>3, <3>4, <3>5
  <2> QED BY <2>1, <2>2 DEF ManualMove
<1>4. RulesTypeOK' BY <1>1, <1>2, <1>3 DEF RulesTypeOK, Sizes, RuleRows, Marks, Triggers
<1>5. Priced' /\ Latching' /\ Within'
  BY <1>2, <1>3 DEF RulesInv, Priced, Latching, Marks, Tighter, NoMove, Within
<1> QED BY <1>3, <1>4, <1>5 DEF RulesInv

-----------------------------------------------------------------------------
\* An order of the trader's at the exchange rests where nothing did.
LEMMA AddsKept == ASSUME RulesInv, NEW t \in Strays, Adds(t) PROVE RulesInv'
<1>1. RulesTypeOK /\ Priced /\ BreakEvenKept BY DEF RulesInv
<1>2. /\ UNCHANGED <<side, quote, lots, avg, baseline, decided, secured>>
      /\ meddled = "no" /\ meddled' = "added"
  BY DEF Adds
<1>3. Min(Free) \in Free
  <2>1. Free \in SUBSET Nat /\ Free # {} BY OrdersAssumption DEF Free, Adds
  <2> QED BY <2>1, LeastOf
<1>4. Min(Free) \in TriggerIds /\ Min(Free) \notin Resting BY <1>3 DEF Free
<1>5. t \in Triggers /\ t.px \in Marks
  <2>1. EntryPrice - 1 \in Marks /\ EntryPrice + 2 \in Marks /\ Marks \subseteq 0..MaxMark
    BY TicksAssumption DEF Marks
  <2>2. 0 \in 0..MaxSize /\ 1 \in 0..MaxSize BY OrdersAssumption
  <2>3. PICK k \in {"sl", "tp", "plan"}, p \in {EntryPrice - 1, EntryPrice + 2}, v \in {0, 1} :
          t = [kind |-> k, px |-> p, vol |-> v]
    BY DEF Strays
  <2> QED BY <2>1, <2>2, <2>3 DEF Triggers
<1>6. triggers' = [triggers EXCEPT ![Min(Free)] = t] BY DEF Adds
<1>7. triggers' \in [TriggerIds -> Triggers] BY <1>1, <1>5, <1>6 DEF RulesTypeOK
<1>8. triggers'[Min(Free)] = t /\ \A i \in TriggerIds \ {Min(Free)} : triggers'[i] = triggers[i]
  BY <1>1, <1>4, <1>6 DEF RulesTypeOK
<1>9. RulesTypeOK' BY <1>1, <1>2, <1>7 DEF RulesTypeOK, Marks, RuleRows, Triggers
<1>10. Priced' BY <1>1, <1>2, <1>5, <1>8 DEF Priced, Resting, NoMove, Marks
<1>11. Latching' /\ Within' BY <1>2 DEF RulesInv, Latching, Tighter, Within
<1>12. BreakEvenKept' BY <1>1, <1>2, <1>4, <1>8 DEF BreakEvenKept, Resting, Secures, Tighter
<1> QED BY <1>9, <1>10, <1>11, <1>12 DEF RulesInv

\* An order the trader removes is what BreakEvenKept excludes.
LEMMA RemovesKept == ASSUME RulesInv, NEW i \in TriggerIds, Removes(i) PROVE RulesInv'
<1>1. /\ UNCHANGED <<side, quote, lots, avg, baseline, decided, secured>>
      /\ meddled' = "removed" /\ triggers' = [triggers EXCEPT ![i] = Gone]
  BY DEF Removes
<1>2. Gone \in Triggers BY Numbers DEF Gone, Triggers
<1>3. RulesTypeOK' BY <1>1, <1>2 DEF RulesInv, RulesTypeOK, Marks, RuleRows, Triggers
<1>4. Priced' /\ Latching' /\ Within'
  BY <1>1 DEF RulesInv, RulesTypeOK, Priced, Resting, Gone, Latching, Marks, NoMove, Tighter, Within
<1>5. BreakEvenKept' BY <1>1 DEF BreakEvenKept
<1> QED BY <1>3, <1>4, <1>5 DEF RulesInv

\* Lots that are added are not secured; what is secured stays so.
LEMMA GrowsKept ==
  ASSUME RulesInv, NEW n \in 0..MaxSize, NEW price \in Averages, Grows(n, price) PROVE RulesInv'
<1>1. /\ UNCHANGED <<side, quote, baseline, triggers, decided, secured, meddled>>
      /\ lots' = n /\ lots < n /\ avg' = price
  BY DEF Grows
<1>2. price \in Marks BY OrdersAssumption DEF Marks
<1>3. RulesTypeOK' BY <1>1, <1>2 DEF RulesInv, RulesTypeOK, Marks, RuleRows, Triggers
<1>4. Priced' /\ Latching' BY <1>1 DEF RulesInv, Priced, Resting, Latching, Marks, NoMove, Tighter
<1>5. Within'
  <2>1. lots \in Nat /\ secured.vol \in Nat /\ n \in Int BY RulesFields DEF RulesInv
  <2> QED BY <1>1, <2>1 DEF RulesInv, Within
<1>6. BreakEvenKept' BY <1>1, OrdersStay
<1> QED BY <1>3, <1>4, <1>5, <1>6 DEF RulesInv

\* The lesser of two sizes.
LEMMA LesserOf ==
  ASSUME NEW a \in Nat, NEW b \in Nat
  PROVE  Min({a, b}) \in {a, b} /\ Min({a, b}) <= a /\ Min({a, b}) <= b
<1>1. {a, b} \in SUBSET Nat /\ {a, b} # {} OBVIOUS
<1>2. Min({a, b}) \in {a, b} /\ \A y \in {a, b} : Min({a, b}) <= y BY <1>1, LeastOf
<1> QED BY <1>2

\* An order that secures some lots secures fewer.
LEMMA FewerSecured ==
  ASSUME RulesTypeOK, NEW n \in Nat, secured' = [secured EXCEPT !.vol = Min({secured.vol, n})]
  PROVE  /\ secured' \in Sizes /\ secured'.vol \in Nat /\ secured'.vol <= n
         /\ secured'.vol <= secured.vol /\ secured'.px = secured.px
<1>1. secured \in Sizes /\ secured.vol \in 0..MaxSize /\ secured.vol \in Nat BY RulesFields
<1> DEFINE v == Min({secured.vol, n})
<1>2. v \in {secured.vol, n} /\ v <= secured.vol /\ v <= n BY <1>1, LesserOf
<1> HIDE DEF v
<1>3. v \in 0..MaxSize /\ v \in Nat BY <1>1, <1>2, Numbers
<1>4. secured' = [secured EXCEPT !.vol = v] BY DEF v
<1> QED BY <1>1, <1>2, <1>3, <1>4 DEF Sizes

\* A smaller position is secured as far as it goes.
LEMMA ReducesKept == ASSUME RulesInv, NEW n \in 0..MaxSize, Reduces(n) PROVE RulesInv'
<1>1. /\ UNCHANGED <<side, quote, avg, baseline, triggers, decided, meddled>>
      /\ lots' = n /\ secured' = [secured EXCEPT !.vol = Min({secured.vol, n})]
  BY DEF Reduces
<1>2. n \in Nat BY Numbers
<1>3. /\ secured' \in Sizes /\ secured'.vol \in Nat /\ secured'.vol <= n
      /\ secured'.vol <= secured.vol /\ secured'.px = secured.px
  BY <1>1, <1>2, FewerSecured DEF RulesInv
<1>4. RulesTypeOK' BY <1>1, <1>3 DEF RulesInv, RulesTypeOK, Sizes, Marks, RuleRows, Triggers
<1>5. Priced' /\ Latching' /\ Within'
  BY <1>1, <1>3 DEF RulesInv, Priced, Resting, Latching, Marks, NoMove, Tighter, Within
<1>6. BreakEvenKept'
  <2>1. secured.vol \in Nat /\ triggers \in [TriggerIds -> Triggers] BY RulesFields DEF RulesInv
  <2>2. \A i \in Resting : Secures(i) => Secures(i)'
    <3>1. TAKE i \in Resting
    <3>2. triggers[i].vol \in Int BY <2>1, Numbers DEF Triggers, Resting
    <3> QED BY <1>1, <1>3, <2>1, <3>2 DEF Secures, Tighter
  <2>3. Resting' = Resting BY <1>1 DEF Resting
  <2> QED BY <1>1, <1>3, <2>1, <2>2, <2>3 DEF RulesInv, BreakEvenKept
<1> QED BY <1>4, <1>5, <1>6 DEF RulesInv

\* A quote takes the orders it reaches; one that secured the position has done its work.
LEMMA QuoteMovesKept == ASSUME RulesInv, NEW p \in Marks, QuoteMoves(p) PROVE RulesInv'
<1>1. /\ UNCHANGED <<side, avg, baseline, decided, meddled>> /\ quote' = p
      /\ triggers' = [i \in TriggerIds |-> IF i \in ReachedBy(p) THEN Gone ELSE triggers[i]]
  BY DEF QuoteMoves
<1>2. PICK n \in 0..lots :
        lots' = n /\ secured' = [secured EXCEPT !.vol = IF Spent(p) THEN 0 ELSE Min({secured.vol, n})]
  BY DEF QuoteMoves
<1>3. /\ lots \in 0..MaxSize /\ secured \in Sizes /\ secured.vol \in Nat
      /\ triggers \in [TriggerIds -> Triggers] /\ RulesTypeOK
  BY RulesFields DEF RulesInv
<1>4. n \in 0..MaxSize /\ n \in Nat BY <1>2, <1>3, Numbers
<1>5. /\ secured' \in Sizes /\ secured'.vol \in Nat /\ secured'.vol <= n
      /\ secured'.vol <= secured.vol /\ secured'.px = secured.px
  <2>1. CASE Spent(p)
    <3>1. secured' = [secured EXCEPT !.vol = 0] BY <1>2, <2>1
    <3>2. 0 \in 0..MaxSize BY Numbers
    <3> QED BY <1>3, <1>4, <3>1, <3>2 DEF Sizes
  <2>2. CASE ~Spent(p)
    <3>1. secured' = [secured EXCEPT !.vol = Min({secured.vol, n})] BY <1>2, <2>2
    <3> QED BY <1>3, <1>4, <3>1, FewerSecured
  <2> QED BY <2>1, <2>2
<1>6. triggers' \in [TriggerIds -> Triggers]
  <2>1. Gone \in Triggers BY Numbers DEF Gone, Triggers
  <2> QED BY <1>1, <1>3, <2>1
<1>7. RulesTypeOK' BY <1>1, <1>2, <1>3, <1>4, <1>5, <1>6 DEF RulesTypeOK, Sizes, Marks, RuleRows, Triggers
<1>8. \A i \in Resting' : i \in Resting \ ReachedBy(p) /\ triggers'[i] = triggers[i]
  BY <1>1 DEF Resting, Gone
<1>9. Priced' /\ Latching' /\ Within'
  BY <1>1, <1>2, <1>5, <1>8 DEF RulesInv, Priced, Latching, Marks, NoMove, Tighter, Within
<1>10. BreakEvenKept'
  <2>1. SUFFICES ASSUME baseline.done, secured'.vol > 0, meddled # "removed" PROVE \E i \in Resting' : Secures(i)'
    BY <1>1 DEF BreakEvenKept
  <2>2. ~Spent(p)
    <3>1. SUFFICES ASSUME Spent(p) PROVE FALSE OBVIOUS
    <3>2. secured'.vol = 0 BY <1>2, <1>3, <3>1 DEF Sizes
    <3> QED BY <2>1, <3>2
  <2>3. secured.vol > 0 BY <1>3, <1>5, <2>1
  <2>4. PICK i \in Resting : Secures(i) BY <2>1, <2>3 DEF RulesInv, BreakEvenKept
  <2>5. i \notin ReachedBy(p) BY <2>1, <2>2, <2>4 DEF Spent
  <2>6. triggers'[i] = triggers[i] /\ i \in Resting' BY <1>1, <2>5 DEF Resting
  <2>7. triggers[i].vol \in Int BY <1>3, Numbers DEF Triggers, Resting
  <2>8. Secures(i)' BY <1>1, <1>3, <1>5, <2>4, <2>6, <2>7 DEF Secures, Tighter
  <2> QED BY <2>6, <2>8
<1> QED BY <1>7, <1>9, <1>10 DEF RulesInv

\* A position that opens is stopped at its risk, or not at all.
LEMMA BracketTyped ==
  ASSUME NEW d \in {"long", "short"}, NEW risk \in {0, 2}
  PROVE  /\ Bracket(d, risk) \in [TriggerIds -> Triggers]
         /\ \A i \in TriggerIds : Bracket(d, risk)[i].kind # "gone" => Bracket(d, risk)[i].px \in Marks
<1>0. Hold \in 0..MaxSize BY Numbers
<1>1. Gone \in Triggers BY Numbers DEF Gone, Triggers
<1>2. EntryPrice - 2 \in Marks /\ EntryPrice + 2 \in Marks /\ Marks \subseteq 0..MaxMark BY TicksAssumption DEF Marks
<1> DEFINE x == IF d = "long" THEN EntryPrice - risk ELSE EntryPrice + risk
<1>3. risk # 0 => x \in Marks BY <1>2
<1>4. risk # 0 => [kind |-> "sl", px |-> x, vol |-> Hold] \in Triggers BY <1>0, <1>2, <1>3 DEF Triggers
<1>5. Bracket(d, risk) = [i \in TriggerIds |->
         IF risk = 0 \/ i # Min(TriggerIds) THEN Gone ELSE [kind |-> "sl", px |-> x, vol |-> Hold]]
  BY DEF Bracket
<1> HIDE DEF x
<1> QED BY <1>1, <1>3, <1>4, <1>5 DEF Gone

\* What a position starts with.
LEMMA OpeningTyped ==
  /\ NoMove \in Decisions
  /\ \A price \in Marks, risk \in {0, 2} : Recorded(price, risk) \in RuleRows
  /\ [vol |-> Hold, px |-> BreakEvenOf(EntryPrice)] \in Sizes
<1>1. NoMove \in Decisions BY DEF NoMove, Decisions
<1>2. ASSUME NEW price \in Marks, NEW risk \in {0, 2} PROVE Recorded(price, risk) \in RuleRows
  <2>1. risk \in 0..MaxMark /\ 0 \in 0..MaxMark BY TicksAssumption
  <2> QED BY <2>1 DEF Recorded, RuleRows
<1>3. Hold \in 0..MaxSize /\ EntryPrice \in Int /\ Fee \in Int BY Numbers
<1>4. BreakEvenOf(EntryPrice) \in Int BY <1>3 DEF BreakEvenOf
<1> QED BY <1>1, <1>2, <1>3, <1>4 DEF Sizes

\* Every next position starts unlatched.
LEMMA NextPositionKept == ASSUME RulesInv, NextPosition PROVE RulesInv'
<1>1. PICK risk \in {0, 2} :
        /\ Opens(risk)
        /\ \/ baseline' = Recorded(EntryPrice, risk)
           \/ baseline' = [baseline EXCEPT !.done = FALSE, !.hw = baseline.snap, !.override = 0]
  BY DEF NextPosition
<1>2. side' = side /\ side \in {"long", "short"} BY RulesFields DEF NextPosition, RulesInv
<1>3. baseline' \in RuleRows /\ baseline'.done = FALSE
  <2>1. baseline \in RuleRows /\ baseline.snap \in Marks BY RulesFields DEF RulesInv
  <2>2. 0 \in 0..MaxMark /\ EntryPrice \in Marks BY Numbers
  <2>3. CASE baseline' = Recorded(EntryPrice, risk)
    <3>1. baseline' \in RuleRows BY <2>2, <2>3, OpeningTyped
    <3> QED BY <2>3, <3>1 DEF Recorded
  <2>4. CASE baseline' = [baseline EXCEPT !.done = FALSE, !.hw = baseline.snap, !.override = 0]
    BY <2>1, <2>2, <2>4 DEF RuleRows
  <2> QED BY <1>1, <2>3, <2>4
<1>4. /\ quote' = EntryPrice /\ lots' = Hold /\ avg' = EntryPrice /\ decided' = NoMove
      /\ secured' = [vol |-> Hold, px |-> BreakEvenOf(EntryPrice)] /\ meddled' = "no"
      /\ triggers' = Bracket(side, risk)
  BY <1>1 DEF Opens
<1>5. /\ triggers' \in [TriggerIds -> Triggers]
      /\ \A i \in TriggerIds : triggers'[i].kind # "gone" => triggers'[i].px \in Marks
  BY <1>2, <1>4, BracketTyped
<1>6. RulesTypeOK'
  <2>1. EntryPrice \in Marks /\ Hold \in 0..MaxSize /\ decided' \in Decisions /\ secured' \in Sizes
    BY <1>4, Numbers, OpeningTyped
  <2>2. side' \in {"long", "short"} /\ quote' \in Marks /\ avg' \in Marks /\ lots' \in 0..MaxSize
    BY <1>2, <1>4, <2>1
  <2> QED BY <1>3, <1>4, <1>5, <2>1, <2>2 DEF RulesTypeOK, Decisions, Sizes, RuleRows, Marks, Triggers
<1>7. Priced' BY <1>4, <1>5 DEF Priced, Resting, Marks, NoMove
<1>8. Within' BY <1>4, Numbers DEF Within
<1>9. Latching' /\ BreakEvenKept' BY <1>3, <1>4 DEF Latching, BreakEvenKept, NoMove
<1> QED BY <1>6, <1>7, <1>8, <1>9 DEF RulesInv

\* The first position starts with the invariant.
LEMMA RulesInvInit == RulesInit => RulesInv
<1> SUFFICES ASSUME RulesInit PROVE RulesInv OBVIOUS
<1>1. PICK risk \in {0, 2}, armed \in SUBSET AutoRules \ {{}} :
        /\ baseline = [Recorded(EntryPrice, risk) EXCEPT !.armed = armed]
        /\ triggers = Bracket(side, risk)
  BY DEF RulesInit
<1>2. EntryPrice \in Marks /\ Hold \in 0..MaxSize BY Numbers
<1>3. baseline \in RuleRows /\ baseline.done = FALSE
  <2>1. Recorded(EntryPrice, risk) \in RuleRows BY <1>2, OpeningTyped
  <2>2. Recorded(EntryPrice, risk).done = FALSE BY DEF Recorded
  <2> QED BY <1>1, <2>1, <2>2 DEF RuleRows
<1>4. /\ triggers \in [TriggerIds -> Triggers]
      /\ \A i \in TriggerIds : triggers[i].kind # "gone" => triggers[i].px \in Marks
  BY <1>1, BracketTyped DEF RulesInit
<1>5. RulesTypeOK
  <2>1. decided \in Decisions /\ secured \in Sizes BY OpeningTyped DEF RulesInit
  <2>2. side \in {"long", "short"} /\ quote \in Marks /\ avg \in Marks /\ lots \in 0..MaxSize /\ meddled = "no"
    BY <1>2 DEF RulesInit
  <2> QED BY <1>3, <1>4, <2>1, <2>2 DEF RulesTypeOK, Decisions, Sizes
<1>6. Priced BY <1>4 DEF Priced, Resting, RulesInit
<1>7. Within BY Numbers DEF Within, RulesInit
<1>8. Latching /\ BreakEvenKept BY <1>3 DEF Latching, BreakEvenKept, NoMove, RulesInit
<1> QED BY <1>5, <1>6, <1>7, <1>8 DEF RulesInv

\* Every step of the rules keeps it.
LEMMA RulesStep == RulesInv /\ [RulesNext]_ruleVars => RulesInv'
<1> SUFFICES ASSUME RulesInv, [RulesNext]_ruleVars PROVE RulesInv' OBVIOUS
<1>1. CASE UNCHANGED ruleVars
  <2>1. UNCHANGED <<side, quote, lots, avg, triggers, decided, secured, meddled>> /\ baseline' = baseline
    BY <1>1 DEF ruleVars
  <2>2. baseline' \in RuleRows BY <2>1, RulesFields DEF RulesInv
  <2> QED BY <2>1, <2>2, RowWritten
<1> QED BY <1>1, DecidesKept, AutoMovedKept, AutoNotMovedKept, NextPositionKept, ArmRequestKept, DisarmRequestKept,
           ManualMoveKept, AddsKept, RemovesKept, ReducesKept, GrowsKept, QuoteMovesKept DEF RulesNext

\* Break-even marked as done means a stop at or past the break-even of the last
\* confirmed move, for all that move covered, for all prices, fees, trails, moves of
\* the trader, additions, reductions and numbers of orders.
THEOREM BreakEvenHolds == RulesSpec => []BreakEvenKept
<1>1. RulesInv => BreakEvenKept BY DEF RulesInv
<1> QED BY <1>1, RulesInvInit, RulesStep, PTL DEF RulesSpec

\* The state of the rules stays well typed.
THEOREM RulesTyped == RulesSpec => []RulesTypeOK
<1>1. RulesInv => RulesTypeOK BY DEF RulesInv
<1> QED BY <1>1, RulesInvInit, RulesStep, PTL DEF RulesSpec

-----------------------------------------------------------------------------
(* The scenes of MCPosition *)

\* Whatever scene a behaviour runs, it is a behaviour of the stop move, of the row
\* and of the rules, so what the theorems say of them holds of all that TLC explores.
THEOREM PositionComposed == MCSpec => Spec /\ RowSpec /\ RulesSpec
<1>1. MCInit => Init /\ RowInit /\ RulesInit
  BY DEF MCInit
<1>2. [MCNext]_allVars => [Next]_vars /\ [RowNext]_rowVars /\ [RulesNext]_ruleVars
  BY DEF MCNext, allVars
<1>q. QED BY <1>1, <1>2, PTL DEF MCSpec, Spec, RowSpec, RulesSpec

\* The state of the move, of the row and of the rules stays within its types.
THEOREM PositionTyped == MCSpec => []TypesOK
<1>1. TypeOK /\ RowTypeOK /\ RulesTypeOK => TypesOK
  BY DEF TypesOK
<1>q. QED BY <1>1, PositionComposed, TypeCorrect, RowTyped, RulesTyped, PTL

=============================================================================
