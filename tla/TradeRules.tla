------------------------------ MODULE TradeRules ------------------------------
(***************************************************************************)
(* What the trade monitor decides about the stop of one open position      *)
(* (orders/trade_manager.py, be_math.py, protection.py, monitor.py): which *)
(* resting triggers protect it and at what price they cover all of it,     *)
(* whether break-even or the trail would tighten that, which of the two is *)
(* sent, and when break-even counts as done. Meanwhile the position grows, *)
(* at an average entry that may still count as the recorded one, and       *)
(* shrinks. The steps of the move itself are those of StopMove; here it is *)
(* one step between decision and reply.                                    *)
(*                                                                         *)
(* Prices are ticks; 0 is an absent price or an unreported volume.         *)
(***************************************************************************)
EXTENDS Integers, FiniteSets, FiniteSetsExt

CONSTANTS MaxMark,         \* prices are 1..MaxMark
          Moves,           \* prices the trader moves the stop to
          EntryPrice, Hold,   \* price and size a position opens with
          MaxSize,         \* bound: lots of a position
          Averages,        \* bound: average entries a position comes to as it grows
          EntrySlack,      \* _ENTRY_TOLERANCE_REL of the entry, in ticks
          MarkStep,        \* how far the quote moves at once
          Fee,             \* tm_be_fee_rt of the entry, in ticks
          TrailMult,       \* tm_trail_atr_mult; one step is a quarter of the ATR
          Atrs,            \* values of the ATR
          TriggerIds       \* orders the exchange rests at a time, a set of numbers

ASSUME TicksAssumption ==
  /\ MaxMark \in Nat /\ EntryPrice \in 3..MaxMark - 2 /\ Moves \subseteq 1..MaxMark
  /\ Fee \in 0..EntryPrice - 1 /\ TrailMult \in Nat /\ Atrs \subseteq Nat /\ EntrySlack \in Nat
ASSUME OrdersAssumption ==
  /\ Averages \subseteq 1..MaxMark /\ MaxSize \in Nat /\ Hold \in 1..MaxSize /\ TriggerIds \subseteq Nat

VARIABLES side, quote,
          lots, avg,  \* the live position: its size, 0 when flat, and average entry
          baseline,   \* the management row: MgmtBaseline
          triggers,   \* resting orders: id |-> [kind, px, vol]
          decided,    \* the decided move: [rule, sl, be, latch], or NoMove
          secured,    \* history: lots and break-even of the last confirmed move to it or better
          meddled     \* history: what the trader did to the resting orders, once (a bound)

ruleVars == <<side, quote, lots, avg, baseline, triggers, decided, secured, meddled>>

Marks == 1..MaxMark
AutoRules == {"auto_be", "auto_trail"}
\* The row: recorded entry, risk, high water, user_override_hw, be_done, armed rules.
RuleRows == [snap : Marks, r1 : 0..MaxMark, hw : Marks, override : 0..MaxMark,
         done : BOOLEAN, armed : SUBSET AutoRules]
\* The labels of an order agree on a stop or a target, or say nothing.
Triggers == [kind : {"sl", "tp", "plan", "gone"}, px : 0..MaxMark, vol : 0..MaxSize]
Gone == [kind |-> "gone", px |-> 0, vol |-> 0]
Resting == {i \in TriggerIds : triggers[i].kind # "gone"}
Free == TriggerIds \ Resting
Gap(a, b) == IF a > b THEN a - b ELSE b - a

\* a protects better than b: nearer to, or further into, the profit.
Tighter(a, b) == IF side = "long" THEN a > b ELSE a < b
Tightest(S) == IF side = "long" THEN Max(S) ELSE Min(S)
BehindQuote(p) == Tighter(quote, p)
Gain == IF side = "long" THEN quote - avg ELSE avg - quote
Backed(p, distance) == IF side = "long" THEN p - distance ELSE p + distance

-----------------------------------------------------------------------------
(* Reading the protection *)

\* A labelled order is what its label says; an unlabelled one is judged by its
\* side of the entry, if the caller names the entry, and is unknown otherwise.
IsStop(t, withEntry) ==
  \/ t.kind = "sl"
  \/ t.kind = "plan" /\ withEntry /\ Tighter(avg, t.px)

StopsAmong(ids, withEntry) == {i \in ids : IsStop(triggers[i], withEntry)}
TightestOf(ids) == IF ids = {} THEN 0 ELSE Tightest({triggers[i].px : i \in ids})

\* The price at which the stops, best first, add up to the whole position; 0 when
\* they do not, or when one of them reports no volume.
CoverPrice(ids) ==
  LET sls == StopsAmong(ids, TRUE)
      upTo(p) == MapThenSumSet(LAMBDA i : triggers[i].vol, {j \in sls : ~Tighter(p, triggers[j].px)})
      enough == {j \in sls : upTo(triggers[j].px) >= lots}
  IN IF \E i \in sls : triggers[i].vol = 0 THEN 0 ELSE TightestOf(enough)

-----------------------------------------------------------------------------
(* The row *)

Recorded(price, risk) ==
  [snap |-> price, r1 |-> risk, hw |-> price, override |-> 0, done |-> FALSE, armed |-> {}]

\* An average entry off the recorded one by more than the tolerance is another
\* position: a new baseline. Within it the baseline stays, except that one
\* recorded without a stop takes its risk from the first that covers the position.
Refreshed(stop) ==
  IF Gap(avg, baseline.snap) > EntrySlack
    THEN Recorded(avg, IF stop = 0 THEN 0 ELSE Gap(avg, stop))
    ELSE [baseline EXCEPT !.r1 = IF @ = 0 /\ stop # 0 THEN Gap(baseline.snap, stop) ELSE @]

\* The list could not be read, or a stop covers the position.
Covers == {0, CoverPrice(TriggerIds)}

\* A request that arms records the baseline first; one that only disarms does not.
ArmRequest(rules) ==
  /\ lots > 0 /\ rules # {}
  /\ \E stop \in Covers : LET row == Refreshed(stop) IN baseline' = [row EXCEPT !.armed = rules]
  /\ UNCHANGED <<side, quote, lots, avg, triggers, decided, secured, meddled>>
DisarmRequest(rules) ==
  /\ lots > 0 /\ baseline' = [baseline EXCEPT !.armed = @ \ rules]
  /\ UNCHANGED <<side, quote, lots, avg, triggers, decided, secured, meddled>>

-----------------------------------------------------------------------------
(* The rules *)

BreakEvenOf(price) == IF side = "long" THEN price + Fee ELSE price - Fee
BreakEven == BreakEvenOf(avg)

\* break-even, once, a full R in profit.
BreakEvenMove(row, stop) ==
  IF /\ "auto_be" \in row.armed /\ ~row.done /\ row.r1 > 0 /\ Gain >= row.r1
     /\ BehindQuote(BreakEven) /\ Tighter(BreakEven, stop)
  THEN {[rule |-> "auto_be", sl |-> BreakEven]} ELSE {}

\* The trail hangs from the best price seen; a manual move holds it until a
\* better one, and it does not move by less than a step.
TrailMove(row, stop, atr) ==
  LET trail == Backed(row.hw, TrailMult * atr)
  IN IF /\ "auto_trail" \in row.armed /\ row.r1 > 0 /\ Gain >= row.r1 /\ atr > 0
        /\ row.override = 0 \/ Tighter(row.hw, row.override)
        /\ BehindQuote(trail) /\ Tighter(trail, stop) /\ 4 * Gap(trail, stop) >= atr
     THEN {[rule |-> "auto_trail", sl |-> trail]} ELSE {}

\* A move to send: the rule that asks for it, its price, the break-even of the
\* decision, and whether it serves break-even.
NoMove == [rule |-> "none", sl |-> 0, be |-> 0, latch |-> FALSE]

\* Of two moves the more protective one is sent; it serves break-even if
\* break-even was due.
Chosen(moves) ==
  IF moves = {} THEN NoMove
  ELSE LET best == Tightest({m.sl : m \in moves})
           isBe == [rule |-> "auto_be", sl |-> best] \in moves
       IN [rule |-> IF isBe THEN "auto_be" ELSE "auto_trail", sl |-> best, be |-> BreakEven,
           latch |-> \E m \in moves : m.rule = "auto_be"]

\* One visit of the monitor: without a stop that covers the position, or with a
\* list that could not be read, nothing is moved.
MonitorDecides ==
  /\ lots > 0 /\ decided = NoMove
  /\ \E stop \in Covers, atr \in Atrs :
       LET kept == Refreshed(stop)
           row == [kept EXCEPT !.hw = Tightest({@, quote})]
       IN /\ baseline' = row
          /\ decided' = IF stop = 0 THEN NoMove
                        ELSE Chosen(BreakEvenMove(row, stop) \cup TrailMove(row, stop, atr))
  /\ UNCHANGED <<side, quote, lots, avg, triggers, secured, meddled>>

-----------------------------------------------------------------------------
(* The move *)

\* What the guard of a move sees as stops; a list that lags shows less.
Seen == StopsAmong(TriggerIds, FALSE)

\* Refused on the wrong side of the quote, or below the tightest stop seen.
Accepted(sl, seen) ==
  /\ BehindQuote(sl)
  /\ TightestOf(seen) # 0 => ~Tighter(TightestOf(seen), sl)

\* The new stop rests for the live size, and the stops seen are cancelled one by
\* one, as far as that succeeds.
Replaced(sl, seen) ==
  IF Free = {} THEN {}
  ELSE {[i \in TriggerIds |-> IF i = Min(Free) THEN [kind |-> "sl", px |-> sl, vol |-> lots]
                              ELSE IF i \in cancelled THEN Gone ELSE triggers[i]] :
          cancelled \in SUBSET seen}

\* The stop rests unconfirmed and the old ones are kept, or nothing rests.
Unconfirmed(sl) == {triggers} \cup Replaced(sl, {})

\* modify_stop_loss asks again whether the rule is armed and the trail held.
StillAllowed ==
  /\ decided.rule \in baseline.armed
  /\ decided.rule = "auto_trail" => baseline.override = 0 \/ Tighter(baseline.hw, baseline.override)

\* Confirmed at or past a break-even, a stop secures all the lots there are.
SecuredBy(sl, be) == IF Tighter(be, sl) THEN secured ELSE [vol |-> lots, px |-> be]

\* The latch is tried after the move and may fail to be saved.
AutoMoved ==
  /\ lots > 0 /\ decided # NoMove /\ StillAllowed
  /\ \E seen \in SUBSET Seen :
       Accepted(decided.sl, seen) /\ triggers' \in Replaced(decided.sl, seen)
  /\ \E saved \in BOOLEAN : baseline' = [baseline EXCEPT !.done = @ \/ (decided.latch /\ saved)]
  /\ secured' = SecuredBy(decided.sl, decided.be)
  /\ decided' = NoMove
  /\ UNCHANGED <<side, quote, lots, avg, meddled>>

\* What a move that is refused, fails, or is not confirmed may leave resting.
LeftBehind ==
  {triggers} \cup (IF StillAllowed /\ \E seen \in SUBSET Seen : Accepted(decided.sl, seen)
                   THEN Unconfirmed(decided.sl) ELSE {})

\* Faulty variant: a call that returned is taken for a stop that rests.
AutoReturned ==
  /\ lots > 0 /\ decided # NoMove /\ triggers' \in LeftBehind
  /\ baseline' = [baseline EXCEPT !.done = @ \/ decided.latch]
  /\ secured' = SecuredBy(decided.sl, decided.be)
  /\ decided' = NoMove
  /\ UNCHANGED <<side, quote, lots, avg, meddled>>

\* Break-even stays due.
AutoNotMoved ==
  /\ lots > 0 /\ decided # NoMove /\ triggers' \in LeftBehind
  /\ decided' = NoMove
  /\ UNCHANGED <<side, quote, lots, avg, baseline, secured, meddled>>

\* A confirmed manual move holds the trail at the best price so far.
ManualMove(sl) ==
  /\ lots > 0
  /\ \E seen \in SUBSET Seen :
       /\ Accepted(sl, seen)
       /\ \/ /\ triggers' \in Replaced(sl, seen)
             /\ baseline' = [baseline EXCEPT !.override = baseline.hw]
             /\ secured' = SecuredBy(sl, BreakEven)
          \/ triggers' \in Unconfirmed(sl) /\ UNCHANGED <<baseline, secured>>
  /\ UNCHANGED <<side, quote, lots, avg, decided, meddled>>

-----------------------------------------------------------------------------
(* The trader and the market *)

\* Orders placed, on the side of the quote their kind asks for, and cancelled at
\* the exchange.
Adds(t) ==
  /\ lots > 0 /\ meddled = "no" /\ meddled' = "added" /\ Free # {}
  /\ t.px # quote /\ (t.kind = "sl" => BehindQuote(t.px)) /\ (t.kind = "tp" => ~BehindQuote(t.px))
  /\ triggers' = [triggers EXCEPT ![Min(Free)] = t]
  /\ UNCHANGED <<side, quote, lots, avg, baseline, decided, secured>>
Removes(i) ==
  /\ lots > 0 /\ meddled = "no" /\ meddled' = "removed"
  /\ i \in Resting /\ triggers' = [triggers EXCEPT ![i] = Gone]
  /\ UNCHANGED <<side, quote, lots, avg, baseline, decided, secured>>

Strays == {[kind |-> k, px |-> p, vol |-> v] :
             k \in {"sl", "tp", "plan"}, p \in {EntryPrice - 1, EntryPrice + 2}, v \in {0, 1}}

\* The position grows at the quote, which draws its average entry that way, or
\* shrinks, first by the lots that are not secured.
Grows(n, price) ==
  /\ 0 < lots /\ lots < n /\ lots' = n
  /\ price \in avg..quote \cup quote..avg /\ avg' = price
  /\ UNCHANGED <<side, quote, baseline, triggers, decided, secured, meddled>>
Reduces(n) ==
  /\ n < lots /\ lots' = n /\ secured' = [secured EXCEPT !.vol = Min({@, n})]
  /\ UNCHANGED <<side, quote, avg, baseline, triggers, decided, meddled>>

\* An order at or past the secured price, for the size that was secured.
Secures(i) ==
  triggers[i].kind = "sl" /\ triggers[i].vol >= secured.vol /\ ~Tighter(secured.px, triggers[i].px)

\* The orders a quote that moves to p reaches.
ReachedBy(p) == {i \in Resting : triggers[i].px \in (quote..p \cup p..quote) \ {quote}}
Spent(p) == baseline.done /\ \E i \in ReachedBy(p) : Secures(i)

\* The quote triggers the orders it reaches; one that is as large as the position
\* ends it, smaller ones take some lots, and what a securing one leaves was added
\* after it.
QuoteMoves(p) ==
  /\ lots > 0 /\ Gap(p, quote) = MarkStep /\ quote' = p
  /\ triggers' = [i \in TriggerIds |-> IF i \in ReachedBy(p) THEN Gone ELSE triggers[i]]
  /\ \E n \in 0..lots :
       /\ IF ReachedBy(p) = {} THEN n = lots
          ELSE n < lots /\ (n > 0 => \A i \in ReachedBy(p) : triggers[i].vol < lots)
       /\ lots' = n
       /\ secured' = [secured EXCEPT !.vol = IF Spent(p) THEN 0 ELSE Min({@, n})]
  /\ UNCHANGED <<side, avg, baseline, decided, meddled>>

\* A position of direction d opens with or without a stop.
Bracket(d, risk) ==
  [i \in TriggerIds |->
     IF risk = 0 \/ i # Min(TriggerIds) THEN Gone
     ELSE [kind |-> "sl", px |-> IF d = "long" THEN EntryPrice - risk ELSE EntryPrice + risk, vol |-> Hold]]

Opens(risk) == /\ quote' = EntryPrice /\ lots' = Hold /\ avg' = EntryPrice
               /\ triggers' = Bracket(side, risk) /\ decided' = NoMove
               /\ secured' = [vol |-> Hold, px |-> BreakEvenOf(EntryPrice)] /\ meddled' = "no"

RulesInit ==
  /\ side \in {"long", "short"} /\ quote = EntryPrice /\ lots = Hold /\ avg = EntryPrice
  /\ \E risk \in {0, 2}, armed \in SUBSET AutoRules \ {{}} :
       /\ baseline = [Recorded(EntryPrice, risk) EXCEPT !.armed = armed]
       /\ triggers = Bracket(side, risk)
  /\ decided = NoMove /\ secured = [vol |-> Hold, px |-> BreakEvenOf(EntryPrice)]
  /\ meddled = "no"

\* The next position, as it is first seen: in a new row, or at the recorded entry
\* in the old one, whose signature tells it from the last.
NextPosition ==
  /\ lots = 0
  /\ \E risk \in {0, 2} :
       /\ Opens(risk)
       /\ \/ baseline' = Recorded(EntryPrice, risk)
          \/ /\ Gap(EntryPrice, baseline.snap) <= EntrySlack
             /\ baseline' = [baseline EXCEPT !.done = FALSE, !.hw = baseline.snap, !.override = 0]
  /\ UNCHANGED side

RulesNext ==
  \/ MonitorDecides \/ AutoMoved \/ AutoNotMoved \/ NextPosition
  \/ \E rules \in SUBSET AutoRules : ArmRequest(rules) \/ DisarmRequest(rules)
  \/ \E sl \in Moves : ManualMove(sl)
  \/ \E t \in Strays : Adds(t)
  \/ \E i \in TriggerIds : Removes(i)
  \/ \E n \in 0..MaxSize : Reduces(n)
  \/ \E n \in 0..MaxSize, price \in Averages : Grows(n, price)
  \/ \E p \in Marks : QuoteMoves(p)

RulesSpec == RulesInit /\ [][RulesNext]_ruleVars

-----------------------------------------------------------------------------
RulesTypeOK ==
  /\ side \in {"long", "short"} /\ {quote, avg} \subseteq Marks /\ lots \in 0..MaxSize
  /\ baseline \in RuleRows /\ triggers \in [TriggerIds -> Triggers]
  /\ decided \in [rule : AutoRules \cup {"none"}, sl : Int, be : Int, latch : BOOLEAN]
  /\ secured \in [vol : 0..MaxSize, px : Int] /\ meddled \in {"no", "added", "removed"}

\* Break-even marked as done means break-even or better: whatever the trail, the
\* trader's moves through the app, unconfirmed placements and changes of the
\* position did since, a stop at or past the break-even of the last confirmed
\* move covers what that move covered, which is the whole position except the
\* lots added after it - unless the trader took orders away at the exchange.
\* (monitor.py: be_done only after verified is True, and the most protective move
\* of a cycle serves break-even. The row outlives an addition at nearly the same
\* entry, repo.py _entry_deviated; the monitor warns that coverage is incomplete.)
BreakEvenKept ==
  baseline.done /\ secured.vol > 0 /\ meddled # "removed" => \E i \in Resting : Secures(i)

=============================================================================
