---------------------------- MODULE EntryProtection ----------------------------
(***************************************************************************)
(* What confirm (orders/service.py) does once the entry order is on its    *)
(* way: place_order of the exchange client with the stop that goes with    *)
(* it, the evidence for a fill, the verification of the stop, and the      *)
(* automatic close or cancel of an entry whose stop is missing.            *)
(*                                                                         *)
(* Hyperliquid fills at once and gets a stop order of its own, sized to    *)
(* that fill; MEXC fills later and binds the stop of the order to the      *)
(* position. Amounts are lots. Reads of the position, of the stop list and *)
(* of the order may fail, and may lag behind the fill or the stop.         *)
(***************************************************************************)
EXTENDS Integers

CONSTANTS
  Vol,       \* lots ordered (gate.rounded_vol)
  Attempts,  \* sl_verify_attempts
  MaxOthers  \* bound: lots others add to or take from the position

ASSUME EntryAssumption == Vol \in Nat \ {0} /\ Attempts \in Nat \ {0} /\ MaxOthers \in Nat

VARIABLES
  plan,    \* the exchange, the order type, the lots held before and whether a
           \* stop of an earlier position rests at the same price
  at,      \* step of confirm
  fill,    \* filled lots of the entry
  live,    \* the rest of the entry rests in the book
  stop,    \* Hyperliquid: lots its own stop order closes
  others,  \* net lots others added
  resp,    \* the answer: fill, stop id, trigger error, "unfilled", recovered
  ours,    \* evidence for our fill: lots, or one of the values below
  looked,  \* the verification: attempts, what the lists served
  sl,      \* sl_verified, sl_checked, coverage, and on which ground
  flat,    \* what the automatic flatten did
  closed   \* lots it closed

evars == <<plan, at, fill, live, stop, others, resp, ours, looked, sl, flat, closed>>

Absent == -1    \* no such field, or not readable
Invalid == -2   \* present but contradictory
Lots == 0..Vol
Evidence == Lots \cup {Absent, Invalid}
Grounds == {"none", "id", "list", "body"}
Flattens == {"none", "skipped", "cancelled", "cancel_failed", "closed", "close_failed"}

Looked0 == [n |-> 0, ok |-> FALSE, bad |-> FALSE, field |-> FALSE, hidden |-> FALSE]
Answer0 == [fill |-> Absent, id |-> FALSE, error |-> FALSE, unfilled |-> FALSE, recovered |-> FALSE]

EntryTypeOK ==
  /\ plan \in [ex : {"hl", "mexc"}, type : {"market", "limit"}, pre : 0..1, preRead : BOOLEAN,
              old : BOOLEAN]
  /\ at \in {"place", "trigger", "answered", "verify", "extra", "flatten", "act", "done"}
  /\ fill \in Lots /\ live \in BOOLEAN /\ stop \in Lots /\ others \in -MaxOthers..MaxOthers
  /\ resp \in [fill : Evidence, id : BOOLEAN, error : BOOLEAN, unfilled : BOOLEAN,
              recovered : BOOLEAN]
  /\ ours \in (0..Vol + MaxOthers) \cup {Absent, Invalid}
  /\ looked \in [n : 0..Attempts, ok : BOOLEAN, bad : BOOLEAN, field : BOOLEAN, hidden : BOOLEAN]
  /\ sl \in [verified : BOOLEAN, checked : BOOLEAN, ground : Grounds,
            cover : {"full", "partial", "unknown"}, outcome : {"live", "resting", "failed", "unknown"}]
  /\ flat \in Flattens /\ closed \in Lots

EInit ==
  /\ plan \in [ex : {"hl", "mexc"}, type : {"market", "limit"}, pre : 0..1, preRead : BOOLEAN,
              old : BOOLEAN]
  /\ at = "place" /\ fill = 0 /\ live = FALSE /\ stop = 0 /\ others = 0 /\ resp = Answer0
  /\ ours = Absent /\ looked = Looked0 /\ flat = "none" /\ closed = 0
  /\ sl = [verified |-> FALSE, checked |-> FALSE, ground |-> "none", cover |-> "full",
           outcome |-> "live"]

HL == plan.ex = "hl"
\* The position, and what the stops on the exchange cover of our fill.
Held == plan.pre + others + fill - closed
Cover == IF HL THEN stop ELSE fill
\* A read of the position: fails, lags behind the fill, or is up to date.
HoldReads == {Absent, plan.pre, IF Held > 0 THEN Held ELSE 0}

-----------------------------------------------------------------------------
(* place_order *)

\* An IOC fills and its rest is dropped; a limit order fills and rests.
EntryFills(n) == fill' = n /\ live' = (plan.type = "limit" /\ n < Vol)

\* Hyperliquid accepts the entry: a market order without a fill is no answer.
EntryAccepted ==
  /\ at = "place" /\ HL
  /\ \E n \in Lots :
       /\ n = 0 => plan.type = "limit"
       /\ EntryFills(n) /\ resp' = [resp EXCEPT !.fill = n, !.unfilled = (n = 0)]
       /\ at' = IF n = 0 THEN "answered" ELSE "trigger"
  /\ UNCHANGED <<plan, stop, others, ours, looked, sl, flat, closed>>

\* F-02: the stop is sized to the fill of this entry. It is accepted,
\* rejected, or its request fails and it may rest all the same.
PlaceTrigger ==
  /\ at = "trigger" /\ at' = "answered"
  /\ \/ stop' = resp.fill /\ resp' = [resp EXCEPT !.id = TRUE]
     \/ stop' = 0 /\ resp' = [resp EXCEPT !.error = TRUE]
     \/ stop' = resp.fill /\ resp' = [resp EXCEPT !.error = TRUE]
  /\ UNCHANGED <<plan, fill, live, others, ours, looked, sl, flat, closed>>

\* MEXC acknowledges before it fills.
EntryAcknowledged ==
  /\ at = "place" /\ ~HL /\ at' = "answered" /\ live' = TRUE
  /\ UNCHANGED <<plan, fill, stop, others, resp, ours, looked, sl, flat, closed>>

\* The answer is lost after the exchange took the order; no stop is sent. The
\* order is found by its own id, with or without a valid report of its fill.
EntryRecovered ==
  /\ at = "place" /\ at' = "answered"
  /\ \E n \in Lots :
       /\ EntryFills(n)
       /\ \E r \in {n, Absent, Invalid} :
            resp' = [resp EXCEPT !.fill = r, !.recovered = TRUE]
  /\ UNCHANGED <<plan, stop, others, ours, looked, sl, flat, closed>>

\* Not found: the outcome is reported as unknown. A definite error is a failure.
EntryNotConfirmed ==
  /\ at = "place" /\ at' = "done"
  /\ \/ \E n \in Lots : EntryFills(n) /\ sl' = [sl EXCEPT !.outcome = "unknown"]
     \/ sl' = [sl EXCEPT !.outcome = "failed"] /\ UNCHANGED <<fill, live>>
  /\ UNCHANGED <<plan, stop, others, resp, ours, looked, flat, closed>>

-----------------------------------------------------------------------------
(* Evidence for the fill *)

\* The hold now less the hold before; _mexc_market_fill_delta waits for more
\* than nothing, a limit order is read once.
Delta(h) == IF h = Absent THEN Absent ELSE IF h > plan.pre THEN h - plan.pre ELSE 0

\* MEXC: the reported fill, else the change of a hold that was read before.
FillEvidence ==
  IF HL \/ resp.fill # Absent THEN {resp.fill}
  ELSE IF ~plan.preRead THEN {Absent}
  ELSE {Delta(h) : h \in HoldReads}

\* An entry that rests unfilled has nothing to protect yet.
AssessFill ==
  /\ at = "answered" /\ ours' \in FillEvidence
  /\ LET resting == IF HL THEN resp.unfilled ELSE ours' = 0
     IN /\ at' = IF resting THEN "done" ELSE "verify"
        /\ sl' = IF resting THEN [sl EXCEPT !.outcome = "resting"] ELSE sl
  /\ UNCHANGED <<plan, fill, live, stop, others, resp, looked, flat, closed>>

-----------------------------------------------------------------------------
(* _verify_sl_attached *)

\* The stop order id of the answer is proof enough.
AcceptedById ==
  /\ at = "verify" /\ resp.id /\ at' = "extra"
  /\ sl' = [sl EXCEPT !.verified = TRUE, !.checked = TRUE, !.ground = "id"]
  /\ UNCHANGED <<plan, fill, live, stop, others, resp, ours, looked, flat, closed>>

\* One look at stops and position rows: what they serve. A stop at our price
\* is ours, or of an earlier position; a field at another price is evidence
\* that the endpoint reports stops; a contradictory row voids the evidence.
Look(ok, bad, match, field) ==
  /\ at = "verify" /\ ~resp.id
  /\ match => ok /\ (plan.old \/ (HL /\ stop > 0) \/ (~HL /\ fill > 0))
  /\ field => ok
  /\ looked' = [n |-> looked.n + 1, ok |-> looked.ok \/ ok, bad |-> looked.bad \/ bad,
                field |-> looked.field \/ field \/ match,
                hidden |-> IF ok THEN ~match /\ HL /\ stop > 0 ELSE looked.hidden]

\* A match counts unless a position of the same side was there before.
SeenInList ==
  /\ Look(TRUE, FALSE, TRUE, FALSE) /\ ~looked.bad
  /\ IF plan.preRead /\ plan.pre > 0
     THEN /\ at' = "extra" /\ sl' = [sl EXCEPT !.verified = FALSE, !.checked = FALSE]
     ELSE /\ at' = "extra"
          /\ sl' = [sl EXCEPT !.verified = TRUE, !.checked = TRUE, !.ground = "list"]
  /\ UNCHANGED <<plan, fill, live, stop, others, resp, ours, flat, closed>>

\* Faulty variant: a look that failed counts as a look.
CheckedBlindly == TRUE
\* Hyperliquid: some complete list was served; MEXC: some row carried a stop
\* field. Contradictory rows void either.
Checked == ~looked'.bad /\ IF HL THEN looked'.ok ELSE looked'.field

NotSeen ==
  /\ \E ok, bad, field \in BOOLEAN : Look(ok, bad, FALSE, field)
  /\ IF looked'.n < Attempts THEN UNCHANGED <<at, sl>>
     ELSE at' = "extra" /\ sl' = [sl EXCEPT !.verified = FALSE, !.checked = Checked]
  /\ UNCHANGED <<plan, fill, live, stop, others, resp, ours, flat, closed>>

\* Faulty variant: a limit order is judged by the change of the hold too.
OwnFillByHold == IF resp.fill # Absent \/ ours <= 0 THEN {Absent} ELSE {ours}

\* MEXC: a fill that is ours proves the stop of the body. A reported fill is
\* ours; a market order's hold change if it is the whole order; for a limit
\* order only its own record (_mexc_order_fill_confirmed) counts.
OwnFill ==
  IF resp.fill # Absent THEN IF resp.fill > 0 THEN {resp.fill} ELSE {Absent}
  ELSE IF plan.type = "market" THEN IF ours = Vol THEN {Vol} ELSE {Absent}
  ELSE {Absent} \cup IF fill = Vol \/ (fill > 0 /\ ~live) THEN {fill} ELSE {}

\* M1: what a limit order's reported fill says of the coverage.
CoverageOf(f) ==
  IF plan.type = "market" \/ f = Absent THEN "full"
  ELSE IF f = Invalid \/ f = 0 THEN "unknown" ELSE IF f < Vol THEN "partial" ELSE "full"

\* A recovered Hyperliquid order has no entryFilledSz.
JudgeStop ==
  /\ at = "extra"
  /\ \E f \in IF HL THEN {IF resp.recovered THEN Absent ELSE resp.fill}
              ELSE IF sl.verified THEN {resp.fill} ELSE OwnFill :
       LET body == ~HL /\ ~sl.verified /\ f # Absent
           cover == CoverageOf(IF ~HL /\ resp.fill = Invalid THEN Absent ELSE f)
       IN sl' = [sl EXCEPT !.verified = @ \/ body, !.checked = @ \/ body, !.cover = cover,
                           !.ground = IF body THEN "body" ELSE @]
  /\ at' = IF ~sl'.verified /\ sl'.checked THEN "flatten" ELSE "done"
  /\ UNCHANGED <<plan, fill, live, stop, others, resp, ours, looked, flat, closed>>

-----------------------------------------------------------------------------
(* auto_flatten_if_sl_unverified *)

\* Our fill: the reported one, nothing if that is contradictory or a hold
\* could not be read, else the change of the hold.
SizeFlatten ==
  /\ at = "flatten"
  /\ ours' \in IF resp.fill # Absent THEN {resp.fill}
               ELSE IF ~plan.preRead THEN {Absent} ELSE {Delta(h) : h \in HoldReads}
  /\ IF ours' < 0 THEN at' = "done" /\ flat' = "skipped" ELSE at' = "act" /\ UNCHANGED flat
  /\ UNCHANGED <<plan, fill, live, stop, others, resp, looked, sl, closed>>

\* No fill: the entry is cancelled, if it still rests.
FlattenCancel ==
  /\ at = "act" /\ ours = 0 /\ at' = "done"
  /\ \/ live /\ live' = FALSE /\ flat' = "cancelled"
     \/ flat' = "cancel_failed" /\ live' \in {live, FALSE}
  /\ UNCHANGED <<plan, fill, stop, others, resp, ours, looked, sl, closed>>

Lesser(a, b) == IF a < b THEN a ELSE b

\* Faulty variant: the whole position is closed.
FlattenAll ==
  /\ at = "act" /\ ours > 0 /\ at' = "done"
  /\ flat' = "closed" /\ closed' = Lesser(Vol, IF Held > 0 THEN Held ELSE 0)
  /\ UNCHANGED <<plan, fill, live, stop, others, resp, ours, looked, sl>>

\* A fill: a reduce-only market order for it, never for more than was
\* ordered, closes what is there; recovered or checked afterwards.
FlattenClose ==
  /\ at = "act" /\ ours > 0 /\ at' = "done"
  /\ \E n \in 0..Lesser(Lesser(Vol, ours), IF Held > 0 THEN Held ELSE 0) :
       closed' = n /\ flat' \in {"closed", "close_failed"}
  /\ UNCHANGED <<plan, fill, live, stop, others, resp, ours, looked, sl>>

-----------------------------------------------------------------------------
(* The exchange *)

FillRests ==
  /\ live /\ at # "place" /\ fill < Vol
  /\ \E n \in fill + 1..Vol : fill' = n /\ live' \in {plan.type = "limit" /\ n < Vol, FALSE}
  /\ UNCHANGED <<plan, at, stop, others, resp, ours, looked, sl, flat, closed>>

\* Others add to the position, or reduce it while something is held.
OthersChange ==
  /\ at \notin {"place", "done"} /\ others = 0 /\ others' \in (-MaxOthers..MaxOthers) \ {0}
  /\ plan.pre + others' + fill - closed >= 0
  /\ UNCHANGED <<plan, at, fill, live, stop, resp, ours, looked, sl, flat, closed>>

ENext ==
  \/ EntryAccepted \/ PlaceTrigger \/ EntryAcknowledged \/ EntryRecovered \/ EntryNotConfirmed
  \/ AssessFill \/ AcceptedById \/ SeenInList \/ NotSeen \/ JudgeStop
  \/ SizeFlatten \/ FlattenCancel \/ FlattenClose \/ FillRests \/ OthersChange

ESpec == EInit /\ [][ENext]_evars

-----------------------------------------------------------------------------
(* Properties *)

\* An entry reported as placed, its stop verified in full, has a stop for
\* every filled lot and no rest that could fill without a report (F-02, M1,
\* X2-01), unless the stop was found by its price, which may be an earlier
\* position's or a partly filled MEXC order's, or the hold of a MEXC market
\* order was changed by others.
PlacedIsCovered ==
  at = "done" /\ sl.outcome = "live" /\ sl.verified /\ sl.cover = "full"
  => \/ Cover >= fill /\ ~live
     \/ sl.ground = "list" /\ (plan.old \/ ~HL)
     \/ ~HL /\ plan.type = "market" /\ others # 0

\* The verification never closes or cancels an entry it knows nothing about:
\* an entry with its stop in force is closed only if the stop was missing in
\* the last list served, or MEXC served a stop of another price (O-01, C-1).
ProtectedNotFlattened ==
  closed > 0 /\ Cover >= fill /\ fill > 0 => looked.hidden \/ (~HL /\ looked.field)

\* The automatic close takes no lot of the position that was there before
\* unless others traded: it is bounded by the own fill (bot-safe sizing).
FlattenOwnFill == closed > 0 /\ others = 0 => closed <= fill

=============================================================================
