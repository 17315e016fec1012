----------------------------- MODULE ShadowJournal -----------------------------
(***************************************************************************)
(* The journal of proposals and what became of them (journal/resolver.py,  *)
(* and the journal methods of db/repo.py). An analysis writes a row, or    *)
(* refreshes the pending row of the same context; the resolver reads the   *)
(* pending rows, fetches candles, decides each row from them alone and     *)
(* writes the outcome back, if the row still is the version it read.       *)
(*                                                                         *)
(* One market, one timeframe. A price is one of four classes: at one end   *)
(* of the range of the proposals, at the other, at their entry or between; *)
(* from one point of time to the next it moves through all in between. A   *)
(* candle is two units of time, each far longer than the second to which   *)
(* created_at is exact, and may be served before it ends. R multiples and  *)
(* fees follow from the outcome and are left out.                          *)
(***************************************************************************)
EXTENDS Integers, Sequences, FiniteSets, FiniteSetsExt

CONSTANTS
  MaxTime,   \* bound on time
  Window,    \* resolution window
  MaxBars,   \* candles a fetch reaches back (_MAX_LIMIT_HINT)
  Proposals, \* <<direction, order type>> of the analyses
  MaxRows,   \* bound on rows
  MaxVersions \* bound on snapshot_version

VARIABLES
  price,     \* price[t]: the class of the price at time t
  rows,      \* journal_entries
  pass       \* the resolver: when it began, the rows it read, its outcomes so far

journalVars == <<price, rows, pass>>

Now == Len(price) - 1
Price(t) == price[t + 1]
\* Range of both directions; a limit entry waits at Entry, below the start.
Low == 0
Entry == 1
Start == 2
High == 3

Directions == {"long", "short"}
Types == {"market", "limit"}
Finals == {"WIN", "LOSS", "EXPIRED", "NO_FILL", "SKIPPED"}
JournalRows == [t0 : 0..MaxTime, dir : Directions, type : Types, ver : Nat,
         status : Finals \cup {"PENDING"}, ambiguous : BOOLEAN]
\* The window is many candles long; a market row needs one whole candle in it.
ASSUME JournalAssumption ==
  /\ MaxTime \in Nat /\ MaxRows \in Nat /\ Window \in Nat /\ Window >= 3
  /\ Proposals \subseteq Directions \X Types

NoPass == [step |-> "idle", at |-> 0, read |-> <<>>, found |-> <<>>, next |-> 1]

JournalTypeOK ==
  /\ Len(price) <= MaxTime + 1 /\ price \in Seq(Low..High)
  /\ rows \in Seq(JournalRows) /\ Len(rows) <= MaxRows
  /\ pass.step \in {"idle", "fetch", "write"} /\ pass.read \in Seq(JournalRows)

JournalInit ==
  /\ price = <<Start>> /\ rows = <<>> /\ pass = NoPass

-----------------------------------------------------------------------------
(* Candles *)

\* The candle that opens at time t, as it stands at time now.
Bar(t, now) ==
  LET points == {Price(s) : s \in t..Min({t + 2, now})} IN
    [time |-> t, low |-> Min(points), high |-> Max(points)]

\* The newest candles, of which any may be missing.
ServedBars ==
  LET newest == {t \in 0..Now : t % 2 = 0 /\ t > Now - 2 * MaxBars} IN
    {{Bar(t, Now) : t \in shown} : shown \in SUBSET newest}

HitsTp(row, bar) == IF row.dir = "long" THEN bar.high = High ELSE bar.low = Low
HitsSl(row, bar) == IF row.dir = "long" THEN bar.low = Low ELSE bar.high = High
Hits(row, bar) == HitsTp(row, bar) \/ HitsSl(row, bar)
Touches(bar) == bar.low <= Entry /\ Entry <= bar.high

-----------------------------------------------------------------------------
(* resolve_entry *)

Outcome(status) == [status |-> status, ambiguous |-> FALSE]
Earliest(bars) == CHOOSE b \in bars : \A c \in bars : b.time <= c.time

\* Candles of the window without a gap since the one that covers t0.
Contiguous(row, seen, cover) ==
  {b \in seen : /\ row.t0 <= b.time /\ b.time < row.t0 + Window
                /\ \A t \in cover.time..b.time : (t - b.time) % 2 = 0 => \E c \in seen : c.time = t}

\* What candles that cover t0, and hold nothing ambiguous about it, say.
FromCovered(row, seen, cover, now) ==
  LET deadline == row.t0 + Window
      inside   == Contiguous(row, seen, cover)
      whole    == {b \in inside : b.time + 2 <= deadline}
      cut      == inside \ whole   \* the candle the deadline falls into
      fills    == IF row.type = "market" THEN whole ELSE {b \in whole : Touches(b)}
      hits     == {b \in whole : fills # {} /\ b.time >= Earliest(fills).time /\ Hits(row, b)}
      first    == Earliest(hits)
      filled   == row.type = "market" \/ fills # {}
      ending   == Max({b.time : b \in inside \cup {cover}}) + 2
  IN IF hits # {}
     THEN [status |-> IF HitsSl(row, first) THEN "LOSS" ELSE "WIN",
           ambiguous |-> HitsTp(row, first) /\ HitsSl(row, first)]
     ELSE IF \E b \in cut : IF filled THEN Hits(row, b) ELSE Touches(b)
     THEN Outcome("SKIPPED")
     ELSE IF now >= deadline /\ ending >= deadline
     THEN Outcome(IF fills = {} THEN "NO_FILL" ELSE "EXPIRED")
     ELSE Outcome("PENDING")

Resolve(row, bars, now) ==
  LET seen  == {b \in bars : b.time <= now}
      older == {b \in seen : b.time <= row.t0}
      cover == CHOOSE b \in older : \A c \in older : c.time <= b.time
  IN IF older = {} \/ cover.time + 2 <= row.t0
     THEN Outcome("PENDING")
     ELSE IF cover.time < row.t0 /\ IF row.type = "market" THEN Hits(row, cover) ELSE Touches(cover)
     THEN Outcome("SKIPPED")
     ELSE FromCovered(row, seen, cover, now)

\* resolve_pending_once: no later fetch reaches back to this row.
OrStale(row, outcome, now) ==
  IF outcome.status = "PENDING" /\ now - row.t0 > 2 * MaxBars
  THEN Outcome("SKIPPED") ELSE outcome

-----------------------------------------------------------------------------
(* insert_journal_entry *)

Pending == {i \in 1..Len(rows) : rows[i].status = "PENDING"}
Row(p, ver) == [t0 |-> Now, dir |-> p[1], type |-> p[2], ver |-> ver, status |-> "PENDING",
                ambiguous |-> FALSE]

\* Faulty variant: the newest row of the context, decided or not, is refreshed.
NewestAny == IF rows = <<>> THEN {} ELSE {Len(rows)}

\* The newest row of the context that is still pending.
NewestPending == IF Pending = {} THEN {} ELSE {Max(Pending)}

\* An analysis ends with proposal p: it refreshes that row, if it is recent.
Refresh(p) ==
  /\ \E i \in NewestPending : /\ rows[i].ver < MaxVersions
                        /\ rows' = [rows EXCEPT ![i] = Row(p, rows[i].ver + 1)]
  /\ UNCHANGED <<price, pass>>

Insert(p) ==
  /\ Len(rows) < MaxRows /\ rows' = Append(rows, Row(p, 0)) /\ UNCHANGED <<price, pass>>

\* clear_journal; ids are given again.
Clear ==
  /\ rows # <<>> /\ (\A i \in 1..Len(rows) : rows[i].t0 < Now)
  /\ rows' = <<>> /\ UNCHANGED <<price, pass>>

-----------------------------------------------------------------------------
(* resolve_pending_once *)

ReadPending ==
  /\ pass.step = "idle" /\ Pending # {}
  /\ pass' = [NoPass EXCEPT !.step = "fetch", !.at = Now, !.read = rows]
  /\ UNCHANGED <<price, rows>>

\* The candles arrive: every row is decided from them.
FetchCandles ==
  /\ pass.step = "fetch"
  /\ \E bars \in ServedBars :
       pass' = [NoPass EXCEPT !.step = "write",
                 !.found = [i \in 1..Len(pass.read) |->
                              LET row == pass.read[i] IN
                                [t0 |-> row.t0, ver |-> row.ver,
                                 out |-> IF row.status # "PENDING" THEN Outcome("PENDING")
                                         ELSE OrStale(row, Resolve(row, bars, pass.at), pass.at)]]]
  /\ UNCHANGED <<price, rows>>

\* Exchange down, or a candle without sense: every row stays as it is.
CandlesFail ==
  /\ pass.step = "fetch" /\ pass' = NoPass /\ UNCHANGED <<price, rows>>

Decides(i) ==
  LET out == pass.found[i].out IN
    rows' = IF out.status = "PENDING" THEN rows
            ELSE [rows EXCEPT ![i].status = out.status, ![i].ambiguous = out.ambiguous]

\* Faulty variant: a row that still is pending takes the outcome.
StillPending(i) == i \in Pending

\* update_journal_outcome: its WHERE clause.
SameVersion(i) ==
  /\ i \in Pending /\ rows[i].ver = pass.found[i].ver /\ rows[i].t0 = pass.found[i].t0

\* update_journal_outcome or touch_journal_checked, row after row; a call may
\* fail.
WriteOutcome ==
  /\ pass.step = "write"
  /\ LET i == pass.next IN
       /\ \/ i \in 1..Len(rows) /\ SameVersion(i) /\ Decides(i)
          \/ UNCHANGED rows
       /\ pass' = IF i < Len(pass.found) THEN [pass EXCEPT !.next = i + 1] ELSE NoPass
  /\ UNCHANGED price

Tick ==
  /\ Now < MaxTime /\ \E p \in Low..High : price' = Append(price, p)
  /\ UNCHANGED <<rows, pass>>

JournalNext ==
  \/ \E p \in Proposals : Refresh(p) \/ Insert(p)
  \/ Clear \/ ReadPending \/ FetchCandles \/ CandlesFail \/ WriteOutcome \/ Tick

JournalSpec == JournalInit /\ [][JournalNext]_journalVars

-----------------------------------------------------------------------------
(* Properties *)

\* What happened to a proposal, move by move: Moved(t) is the range the price
\* crosses between t and t + 1. Both outcomes of a candle are as fine as the
\* candles are, so the fill counts from the start of its candle.
Moved(t) ==
  LET points == {Price(t), Price(Min({t + 1, Now}))} IN [low |-> Min(points), high |-> Max(points)]
Lived(row) == {t \in row.t0..(row.t0 + Window - 1) : t <= Now}
FilledAt(row) ==
  IF row.type = "market" THEN {row.t0} ELSE {t \in Lived(row) : Touches(Moved(t))}
SinceFill(row) ==
  {t \in Lived(row) : \E f \in FilledAt(row) : t >= f - (f % 2)}
Before(row, t) == {s \in SinceFill(row) : s < t}

\* A decided row tells what the market did after its own t0 and before its
\* deadline: a WIN reached the target and not the stop before it, a LOSS the
\* stop and, unless it is marked ambiguous, not the target before it, EXPIRED
\* neither after the fill, NO_FILL not even the entry (resolve_entry; the
\* guards of update_journal_outcome).
Agrees(row) ==
  LET target == {t \in SinceFill(row) : HitsTp(row, Moved(t))}
      stop   == {t \in SinceFill(row) : HitsSl(row, Moved(t))}
      whole  == row.t0 + Window <= Now
  IN CASE row.status = "WIN" -> \E t \in target : Before(row, t) \cap stop = {}
       [] row.status = "LOSS" -> \E t \in stop : row.ambiguous \/ Before(row, t) \cap target = {}
       [] row.status = "EXPIRED" -> whole /\ FilledAt(row) # {} /\ target \cup stop = {}
       [] row.status = "NO_FILL" -> whole /\ FilledAt(row) = {}
       [] OTHER -> TRUE

OutcomeTrue == \A i \in 1..Len(rows) : Agrees(rows[i])

\* A decided row never changes again; it can only be cleared.
FinalKept ==
  [][\A i \in 1..Len(rows) : rows[i].status # "PENDING" =>
       rows' = <<>> \/ rows'[i] = rows[i]]_journalVars

=============================================================================
