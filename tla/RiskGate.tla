------------------------------ MODULE RiskGate ------------------------------
(***************************************************************************)
(* How big an entry may be: the suggested size (suggest_vol behind          *)
(* /api/sizing/suggest) and the gate every ticket passes twice, at Preview  *)
(* and at Confirm (validate_order), while price, equity and positions move  *)
(* between the three.                                                       *)
(*                                                                          *)
(* Prices are integers, in hundredths of a point, percentages whole         *)
(* numbers, and the comparisons are multiplied out instead of divided, so   *)
(* the tolerances of the code (1e-9, 1e-12) have no counterpart.            *)
(***************************************************************************)
EXTENDS Integers, FiniteSets, FiniteSetsExt

CONSTANTS Profiles,      \* limits the configuration may set, records
          Contracts,     \* exchange metadata of the symbol
          Tickets,       \* what the user fills in, the volume still 0
          Volumes,       \* volumes typed by hand
          Accounts,      \* equity, available margin and positions, as read
          Prices         \* last prices, in whole points

\* Limits the configuration accepts, metadata and account as the clients deliver
\* them; a cap of 100% leaves a short market order no price, which is an error.
ASSUME GateAssumption ==
  /\ \A s \in Profiles : /\ s.entrySlip \in 0..99 /\ s.riskSlip \in Nat /\ s.maxRisk \in Nat
                         /\ s.maxNotional \in Nat /\ s.allowUnprotected \in BOOLEAN
  /\ \A c \in Contracts : /\ c.size \in Nat \ {0} /\ c.priceUnit \in Nat /\ c.volUnit \in Nat
                          /\ c.minVol \in Nat /\ c.maxVol \in Nat
  /\ Tickets \subseteq [side : {"long", "short"}, type : {"market", "limit"}, price : Nat \ {0},
                        stop : Nat, tp : Nat, lev : Nat, riskPct : Nat, manual : BOOLEAN,
                        cross : BOOLEAN, vol : {0}]
  /\ Volumes \subseteq Nat /\ Prices \subseteq Nat \ {0}
  /\ \A a \in Accounts : /\ a.equity \in Int /\ a.available \in Int /\ IsFiniteSet(a.positions)
                         /\ a.positions \subseteq [side : {"long", "short"}, entry : Nat, stop : Nat,
                                                  liq : Nat, vol : Nat]

VARIABLES settings, ticket, contract, funds, last, stage, previewLast, gate

gateVars == <<settings, ticket, contract, funds, last, stage, previewLast, gate>>

Sides == {"long", "short"}
Abs(n) == IF n < 0 THEN -n ELSE n

-----------------------------------------------------------------------------
(* Rounding. *)

\* Floor and ceiling to a multiple of a unit; a unit of 0 rounds nothing.
RoundDown(value, unit) == IF unit = 0 THEN value ELSE (value \div unit) * unit
RoundUp(value, unit) == -RoundDown(-value, unit)

\* The nearest multiple, the even one of two.
RoundNearest(value, unit) ==
  LET down == RoundDown(value, unit) up == RoundUp(value, unit)
  IN IF \/ value - down < up - value
        \/ value - down = up - value /\ unit # 0 /\ (down \div unit) % 2 = 0
     THEN down ELSE up

\* A stop or a target is rounded down for a long and up for a short: the stop
\* away from the entry, the target towards it.
RoundTrigger(value, unit, side) ==
  IF side = "long" THEN RoundDown(value, unit) ELSE RoundUp(value, unit)

\* The worst fill the slippage cap of a market order allows.
AdverseEntry(price, side) ==
  (price * (IF side = "long" THEN 100 + settings.entrySlip ELSE 100 - settings.entrySlip)) \div 100

-----------------------------------------------------------------------------
(* The exposure already open. *)

\* A stop beyond the entry counts.
Protective(p) == p.stop > 0 /\ (IF p.side = "long" THEN p.stop <= p.entry ELSE p.stop >= p.entry)
\* Faulty variant: any stop is worth its distance.
AnyStopDistance(p) ==
  IF p.stop > 0 THEN Abs(p.entry - p.stop)
  ELSE IF p.side = "long" THEN p.entry - p.liq ELSE p.liq - p.entry

\* With a protective stop a position is worth the distance to it, without one the
\* distance to its liquidation.
LossDistance(p) ==
  IF Protective(p) THEN Abs(p.entry - p.stop)
  ELSE IF p.side = "long" THEN p.entry - p.liq ELSE p.liq - p.entry

\* The risk of the positions of that side, or its refusal: a position without a
\* protective stop whose liquidation price is missing or on the wrong side.
SameSide(side) == {p \in funds.positions : p.side = side}
ExistingKnown(side) ==
  \A p \in SameSide(side) : Protective(p) \/ (p.liq > 0 /\ LossDistance(p) > 0)
ExistingRisk(side) == MapThenSumSet(LAMBDA p : LossDistance(p) * contract.size * p.vol, SameSide(side))

-----------------------------------------------------------------------------
(* The gate: each part answers the errors it adds. *)

ContractErrors ==
  {e \in {"disarmed", "apiAllowed", "state", "bounds", "leverageBounds"} :
     CASE e = "disarmed" -> ~settings.trading
       [] e = "apiAllowed" -> ~contract.api
       [] e = "state" -> settings.exchange = "mexc" /\ contract.state # 0
       [] e = "bounds" -> contract.volUnit <= 0 \/ contract.minVol > contract.maxVol
       [] e = "leverageBounds" -> contract.minLev > contract.maxLev}

TicketErrors(t) ==
  {e \in {"hlLimit", "manual", "cross", "leverage"} :
     CASE e = "hlLimit" -> settings.exchange = "hyperliquid" /\ t.type = "limit"
       [] e = "manual" -> t.manual /\ ~settings.allowManual
       [] e = "cross" -> t.cross /\ ~settings.allowCross
       [] e = "leverage" -> t.lev < 1 \/ t.lev > settings.maxLev
                            \/ t.lev > contract.maxLev \/ t.lev < contract.minLev}

RoundedVol(t) == RoundDown(t.vol, contract.volUnit)
VolumeErrors(t) ==
  {e \in {"minVol", "maxVol"} :
     IF e = "minVol" THEN RoundedVol(t) < contract.minVol \/ RoundedVol(t) <= 0
     ELSE RoundedVol(t) > contract.maxVol}

\* The price the risk is reckoned from: the worst fill of a market order, the
\* rounded price of a limit order, and never the entry the caller names.
EntryForRisk(t) ==
  IF t.type = "market" THEN AdverseEntry(last, t.side) ELSE RoundNearest(t.price, contract.priceUnit)

\* At Confirm, against the price the preview was made at.
DriftErrors(confirming) ==
  IF confirming /\ Abs(last - previewLast) * 100 > settings.maxDrift * previewLast
  THEN {"drift"} ELSE {}

\* The stop is judged as asked and again as rounded.
Stop(t) == RoundTrigger(t.stop, contract.priceUnit, t.side)
StopBeyond(t, stop) == IF t.side = "long" THEN stop < EntryForRisk(t) ELSE stop > EntryForRisk(t)
StopErrors(t) ==
  {e \in {"noStop", "stopGeometry", "stopRounds"} :
     CASE e = "noStop" -> t.stop <= 0 /\ ~settings.allowUnprotected
       [] e = "stopGeometry" -> t.stop > 0 /\ ~StopBeyond(t, t.stop)
       [] e = "stopRounds" -> t.stop > 0 /\ (Stop(t) <= 0 \/ ~StopBeyond(t, Stop(t)))}

TakeProfit(t) == RoundTrigger(t.tp, contract.priceUnit, t.side)
TargetBeyond(t) ==
  IF t.side = "long" THEN TakeProfit(t) > EntryForRisk(t) ELSE TakeProfit(t) < EntryForRisk(t)
TargetErrors(t) == IF t.tp > 0 /\ ~(TakeProfit(t) > 0 /\ TargetBeyond(t)) THEN {"target"} ELSE {}

\* A volume's loss at the stop, its distance widened by the slippage buffer;
\* in hundredths, like the budget it is held against.
StopRisk(vol, entry, stop) ==
  vol * contract.size * Abs(entry - stop) * (100 + settings.riskSlip)
RiskErrors(t) ==
  IF funds.equity <= 0 THEN {"equity"}
  ELSE IF t.stop > 0 /\ RoundedVol(t) > 0
          /\ StopRisk(RoundedVol(t), EntryForRisk(t), Stop(t)) + 100 * ExistingRisk(t.side)
               > funds.equity * settings.maxRisk
       THEN {"risk"} ELSE {}

\* The reward must be worth the risk (minRrr in tenths); without a target an
\* automatic ticket has no reward to compare.
RrrErrors(t) ==
  IF settings.strictRrr /\ t.stop > 0
     /\ IF t.tp > 0
        THEN TargetErrors(t) = {}
             /\ 10 * Abs(TakeProfit(t) - EntryForRisk(t)) < settings.minRrr * Abs(EntryForRisk(t) - Stop(t))
        ELSE ~t.manual
  THEN {"rrr"} ELSE {}

Notional(t) == RoundedVol(t) * contract.size * EntryForRisk(t)
NotionalErrors(t) ==
  {e \in {"notionalCap", "minNotional"} :
     IF e = "notionalCap"
     THEN settings.maxNotional > 0 /\ 100 * Notional(t) > funds.equity * settings.maxNotional
     ELSE RoundedVol(t) > 0 /\ Notional(t) < contract.minNotional}

MarginErrors(t) ==
  IF \/ funds.available <= 0
     \/ settings.strictMargin /\ Notional(t) > funds.available * t.lev
  THEN {"margin"} ELSE {}

\* An exposure that cannot be reckoned ends Preview and Confirm before the gate.
ValidateOrder(t, confirming) ==
  IF ~ExistingKnown(t.side) THEN {"positions"}
  ELSE UNION {ContractErrors, TicketErrors(t), VolumeErrors(t), DriftErrors(confirming), StopErrors(t),
              TargetErrors(t), RiskErrors(t), RrrErrors(t), NotionalErrors(t), MarginErrors(t)}

-----------------------------------------------------------------------------
(* The suggested size. *)

\* The entry the route sizes for: a limit price as typed, not rounded.
SuggestEntry(t) == IF t.type = "market" THEN AdverseEntry(last, t.side) ELSE t.price

\* What the route refuses before it sizes: the ticket, the metadata, the account.
SuggestRefused(t) ==
  \/ t.lev < 1 \/ t.lev > settings.maxLev \/ t.lev < contract.minLev \/ t.lev > contract.maxLev
  \/ settings.exchange = "hyperliquid" /\ t.type = "limit"
  \/ contract.volUnit <= 0 \/ contract.minVol > contract.maxVol \/ contract.minLev > contract.maxLev
  \/ t.stop <= 0
  \/ funds.equity <= 0
  \/ ~ExistingKnown(t.side)

RiskPct(t) == IF t.riskPct = 0 THEN settings.maxRisk ELSE Min({t.riskPct, settings.maxRisk})

\* The largest volume the budget left, the notional cap, the margin and the
\* exchange allow, in whole units; 0 when that is below the smallest order.
SuggestVol(t) ==
  LET entry == SuggestEntry(t)
      budget == funds.equity * RiskPct(t) - 100 * ExistingRisk(t.side)
      perUnit == contract.size * contract.volUnit
      caps ==
        {budget \div (perUnit * Abs(entry - t.stop) * (100 + settings.riskSlip)),
         (funds.available * t.lev) \div (perUnit * entry),
         contract.maxVol \div contract.volUnit}
        \cup (IF settings.maxNotional = 0 THEN {}
              ELSE {(funds.equity * settings.maxNotional) \div (100 * perUnit * entry)})
      vol == Min(caps) * contract.volUnit
  IN IF \/ (IF t.side = "long" THEN t.stop >= entry ELSE t.stop <= entry)
        \/ budget <= 0 \/ funds.available <= 0
     THEN 0 ELSE IF vol < contract.minVol THEN 0 ELSE vol

-----------------------------------------------------------------------------
GateInit ==
  /\ ticket \in Tickets
  /\ settings \in Profiles /\ contract \in Contracts /\ funds \in Accounts
  /\ last \in {100 * p : p \in Prices}
  /\ stage = "draft" /\ previewLast = 0 /\ gate = {}

\* The user asks for a size, or types one.
Suggest ==
  /\ stage = "draft" /\ ~SuggestRefused(ticket)
  /\ stage' = "suggested"
  /\ ticket' = [ticket EXCEPT !.vol = SuggestVol(ticket)]
  /\ UNCHANGED <<settings, contract, funds, last, previewLast, gate>>

TypeVolume ==
  /\ stage = "draft" /\ stage' = "typed"
  /\ \E v \in Volumes : ticket' = [ticket EXCEPT !.vol = v]
  /\ UNCHANGED <<settings, contract, funds, last, previewLast, gate>>

\* Preview: the gate's errors, or a token that remembers the price.
Preview ==
  /\ stage \in {"suggested", "typed"}
  /\ gate' = ValidateOrder(ticket, FALSE)
  /\ stage' = IF gate' = {} THEN "previewed" ELSE "refused"
  /\ previewLast' = last
  /\ UNCHANGED <<settings, ticket, contract, funds, last>>

\* Prices, balance and positions go on moving while the user reads the preview.
MarketMoves ==
  /\ stage = "previewed" /\ stage' = "moved"
  /\ last' \in {100 * p : p \in Prices} /\ funds' \in Accounts
  /\ UNCHANGED <<settings, ticket, contract, previewLast, gate>>

\* Confirm: the same gate on fresh data, and the drift from the preview.
Confirm ==
  /\ stage \in {"previewed", "moved"}
  /\ gate' = ValidateOrder(ticket, TRUE)
  /\ stage' = IF gate' = {} THEN "sent" ELSE "refused"
  /\ UNCHANGED <<settings, ticket, contract, funds, last, previewLast>>

GateNext == Suggest \/ TypeVolume \/ Preview \/ MarketMoves \/ Confirm

GateSpec == GateInit /\ [][GateNext]_gateVars

-----------------------------------------------------------------------------
GateTypeOK ==
  /\ [ticket EXCEPT !.vol = 0] \in Tickets /\ ticket.vol \in Nat
  /\ settings \in Profiles /\ contract \in Contracts /\ funds \in Accounts
  /\ last \in Nat /\ previewLast \in Nat
  /\ stage \in {"draft", "suggested", "typed", "previewed", "moved", "sent", "refused"}

\* The prices an order sent may fill at: no worse than the cap of a market
\* order, or than the limit it rests at.
Fills(t) ==
  IF t.type = "market"
  THEN {last, AdverseEntry(last, t.side)}
  ELSE {RoundNearest(t.price, contract.priceUnit)}

\* The loss of a long (a short) that gives way from `entry` to the first of its
\* stop and its liquidation that the market meets.
LossWhen(p) ==
  LET ends == {x \in {p.stop, p.liq} : x > 0 /\ (IF p.side = "long" THEN x <= p.entry ELSE x >= p.entry)}
  IN Abs(p.entry - (IF p.side = "long" THEN Max(ends) ELSE Min(ends))) * contract.size * p.vol

\* The loss of a ticket filled there, at the stop that is sent with it; one filled
\* beyond its stop is closed at once.
LossFrom(t, fill) == Max({0, IF t.side = "long" THEN fill - Stop(t) ELSE Stop(t) - fill})

\* The worst losses of the positions open on a side.
OpenLoss(side) == MapThenSumSet(LossWhen, SameSide(side))

\* An order sent with a stop, which is every order unless the configuration allows
\* others, risks no more than MAX_RISK_PCT of the equity: wherever it fills within
\* its cap, its loss at the rounded stop of validate_order, added to the worst
\* losses of the positions already open on that side, stays within the budget of
\* the account as Confirm read it.
SentWithinBudget ==
  stage = "sent" /\ (ticket.stop > 0 \/ ~settings.allowUnprotected) =>
    \A fill \in Fills(ticket) :
      100 * (RoundedVol(ticket) * contract.size * LossFrom(ticket, fill) + OpenLoss(ticket.side))
        <= funds.equity * settings.maxRisk

SizeErrors == {"maxVol", "risk", "notionalCap", "margin", "stopGeometry"}

\* "a suggested size can never exceed what the real gate would accept"
\* (sizing.py:108-110), whatever the stop.
SuggestedAccepted ==
  stage = "suggested" /\ ticket.vol > 0 => ValidateOrder(ticket, FALSE) \cap SizeErrors = {}

=============================================================================
