----------------------------- MODULE ClosePosition -----------------------------
(***************************************************************************)
(* Close and Cancel (orders/service.py): the mutations of a request run    *)
(* under the trade lock in a task of their own that outlives a caller who  *)
(* goes away once the exchange has been addressed; a request that queued   *)
(* behind a setup change finds its client replaced. A close reads the      *)
(* position twice, sends one reduce-only order, recovers it by its own id  *)
(* after an uncertain answer, and reads the position again before it       *)
(* reports.                                                                *)
(*                                                                         *)
(* One position, counted in lots; the positions endpoint serves a state of *)
(* the account that may lag. One resting order that Cancel can name. An    *)
(* order is acknowledged before it fills, as on MEXC; the Hyperliquid      *)
(* client answers with an error unless something was filled.               *)
(***************************************************************************)
EXTENDS Integers, FiniteSets

CONSTANTS
  Closers,         \* close requests, each served once
  Cancellers,      \* cancel requests, each served once
  MaxLots,         \* bound: largest position
  VerifyAttempts,  \* close_verify_attempts
  MinLots,         \* min_vol of the contract
  Nobody           \* free lock

Requests == Closers \cup Cancellers

ASSUME ClosersAssumption == Closers \cap Cancellers = {} /\ Nobody \notin Requests
ASSUME LotsAssumption ==
  MaxLots \in Nat \ {0} /\ VerifyAttempts \in Nat \ {0} /\ MinLots \in Nat \ {0}

VARIABLES
  \* the exchange
  lots,     \* size of the position
  shown,    \* size the positions endpoint serves
  order,    \* order[c]: the close order of request c
  filled,   \* filled[c]: lots it closed
  resting,  \* the resting order: "live", "filled" or "cancelled"
  \* the process
  active,   \* client the application uses
  lock,     \* holder of the trade lock
  pc, client, share,    \* per request: step, its client, what it asks to close
  unit, base, amount,   \* lot size known, position read, amount to send
  tries, recovered,     \* re-reads of the position, order found by its id
  caller,   \* callers that still wait
  result,   \* what a request reported or recorded
  \* history
  shaken    \* requests whose position others traded, or read when outdated

account == <<lots, shown, order, filled, resting>>
locals == <<client, share, unit, base, amount, tries, recovered>>
vars == <<account, active, lock, pc, locals, caller, result, shaken>>

Steps == {"new", "queued", "read", "meta", "recheck", "send", "await", "recover", "verify",
          "list", "withdraw", "answer", "over"}
\* The whole position as first read, a fraction of 1, or one half.
Shares == {"default", "whole", "half"}
Orders == {"none", "flight", "live", "done"}
Results == {"none", "failed", "unknown", "rejected", "unverified", "partial", "overfilled", "closed",
            "cancelled"}

TypeOK ==
  /\ lots \in 0..MaxLots /\ shown \in 0..MaxLots
  /\ order \in [Closers -> Orders] /\ filled \in [Closers -> 0..MaxLots]
  /\ resting \in {"live", "filled", "cancelled"}
  /\ active \in {1, 2} /\ lock \in Requests \cup {Nobody} /\ pc \in [Requests -> Steps]
  /\ client \in [Requests -> {1, 2}] /\ share \in [Requests -> Shares]
  /\ unit \in [Requests -> {0, 1}] /\ base \in [Requests -> 0..MaxLots]
  /\ amount \in [Requests -> 0..MaxLots] /\ tries \in [Requests -> 0..VerifyAttempts]
  /\ recovered \subseteq Requests
  /\ caller \subseteq Requests /\ result \in [Requests -> Results] /\ shaken \subseteq Requests

\* Some of the requests may never come.
Init ==
  /\ lots \in 0..MaxLots /\ shown = lots /\ order = [c \in Closers |-> "none"]
  /\ filled = [c \in Closers |-> 0] /\ resting = "live" /\ active = 1 /\ lock = Nobody
  /\ pc \in [Requests -> {"new", "over"}] /\ client = [c \in Requests |-> 1]
  /\ share \in [Requests -> Shares] /\ \A c \in Cancellers : share[c] = "default"
  /\ unit = [c \in Requests |-> 0] /\ base = [c \in Requests |-> 0]
  /\ amount = [c \in Requests |-> 0] /\ tries = [c \in Requests |-> 0] /\ recovered = {}
  /\ caller = Requests /\ result = [c \in Requests |-> "none"] /\ shaken = {}

Goto(c, step) == pc' = [pc EXCEPT ![c] = step]

\* The operation ends: the lock is let go. Locals are not used again.
Finish(c, what) ==
  /\ Goto(c, "over") /\ result' = [result EXCEPT ![c] = what]
  /\ lock' = IF lock = c THEN Nobody ELSE lock
  /\ shaken' = IF what = "closed" THEN shaken ELSE shaken \ {c}
  /\ unit' = unit /\ base' = [base EXCEPT ![c] = 0] /\ share' = [share EXCEPT ![c] = "default"]
  /\ tries' = [tries EXCEPT ![c] = 0] /\ recovered' = recovered \ {c}
  /\ client' = [client EXCEPT ![c] = 1] /\ caller' = caller \ {c}
  /\ UNCHANGED <<account, active, amount>>

\* _run_locked_mutation: has the exchange been addressed?
MutationStarted(c) == pc[c] \in {"await", "recover", "verify", "answer"}

-----------------------------------------------------------------------------
(* Waiting for the lock *)

\* The request is bound to the client the application uses now.
Arrive(c) ==
  /\ pc[c] = "new" /\ Goto(c, "queued") /\ client' = [client EXCEPT ![c] = active]
  /\ UNCHANGED <<account, active, lock, share, unit, base, amount, tries, recovered, caller,
                 result, shaken>>

\* Faulty variant: the client is not compared once the lock is held.
ClientUnchecked(c) ==
  /\ pc[c] = "queued" /\ lock = Nobody /\ lock' = c
  /\ Goto(c, IF c \in Closers THEN "read" ELSE "list")
  /\ UNCHANGED <<account, active, locals, caller, result, shaken>>

\* The trade lock is held and _require_active_client passes.
Acquire(c) ==
  /\ pc[c] = "queued" /\ lock = Nobody /\ client[c] = active /\ lock' = c
  /\ Goto(c, IF c \in Closers THEN "read" ELSE "list")
  /\ UNCHANGED <<account, active, locals, caller, result, shaken>>

\* The client was replaced: refused under the lock.
ClientReplaced(c) ==
  /\ pc[c] = "queued" /\ lock = Nobody /\ client[c] # active /\ Finish(c, "failed")

\* A failed read, a refused check, disarmed trading.
Refuse(c) ==
  /\ pc[c] \in {"read", "meta", "recheck", "send", "list", "withdraw"} /\ Finish(c, "failed")

\* Faulty variant: the lock is let go with the caller.
CallerLeavesLock(c) ==
  /\ c \in caller /\ pc[c] \notin {"new", "over"} /\ caller' = caller \ {c}
  /\ IF MutationStarted(c)
     THEN lock' = Nobody /\ UNCHANGED <<pc, result>>
     ELSE /\ Goto(c, "over") /\ result' = [result EXCEPT ![c] = "failed"]
          /\ lock' = IF lock = c THEN Nobody ELSE lock
  /\ UNCHANGED <<account, active, locals, shaken>>

\* The caller disconnects: before the first mutation the operation is
\* cancelled, after it the operation goes on under the lock.
CallerLeaves(c) ==
  /\ c \in caller /\ pc[c] \notin {"new", "over"}
  /\ IF MutationStarted(c)
     THEN /\ caller' = caller \ {c}
          /\ UNCHANGED <<account, active, lock, pc, locals, result, shaken>>
     ELSE Finish(c, "failed")

\* setup_save replaces the client under the trade lock.
SwapClient ==
  /\ lock = Nobody /\ active' \in {1, 2} \ {active}
  /\ UNCHANGED <<account, lock, pc, locals, caller, result, shaken>>

-----------------------------------------------------------------------------
(* close_position *)

Least(a, b) == IF a < b THEN a ELSE b

\* The share of a position of n lots, rounded down to whole lots.
ShareOf(c, n) == IF share[c] = "half" THEN n \div 2 ELSE n

\* A partial close needs the lot size and the exchange minimum.
Sendable(c, vol, n) == vol > 0 /\ (vol < n => unit[c] = 1 /\ vol >= MinLots)

ReadPosition(c) ==
  /\ pc[c] = "read" /\ shown > 0 /\ Goto(c, "meta") /\ base' = [base EXCEPT ![c] = shown]
  /\ UNCHANGED <<account, active, lock, client, share, unit, amount, tries, recovered, caller,
                 result, shaken>>

\* contract_meta answers, or only a full close can go on.
ReadContract(c) ==
  /\ pc[c] = "meta" /\ Goto(c, "recheck") /\ unit' \in {[unit EXCEPT ![c] = u] : u \in {0, 1}}
  /\ amount' = [amount EXCEPT ![c] = ShareOf(c, base[c])]
  /\ UNCHANGED <<account, active, lock, client, share, base, tries, recovered, caller, result,
                 shaken>>

\* Faulty variant: the first read is the one the order is sized by.
SizedByFirstRead(c) ==
  /\ pc[c] = "recheck" /\ Sendable(c, amount[c], base[c]) /\ shown > 0 /\ Goto(c, "send")
  /\ shaken' = IF shown = lots THEN shaken \ {c} ELSE shaken \cup {c}
  /\ UNCHANGED <<account, active, lock, locals, caller, result>>

\* O-09: the position is read again; a fraction is recomputed, any other
\* amount capped, and the checks are made again.
Recheck(c) ==
  /\ pc[c] = "recheck" /\ Sendable(c, amount[c], base[c]) /\ shown > 0 /\ Goto(c, "send")
  /\ base' = [base EXCEPT ![c] = shown]
  /\ amount' = [amount EXCEPT ![c] =
       IF share[c] = "default" THEN Least(@, shown) ELSE ShareOf(c, shown)]
  /\ Sendable(c, amount'[c], shown)
  /\ shaken' = IF shown = lots THEN shaken \ {c} ELSE shaken \cup {c}
  /\ UNCHANGED <<account, active, lock, client, share, unit, tries, recovered, caller, result>>

\* mutation_started is set and the reduce-only order leaves.
SendClose(c) ==
  /\ pc[c] = "send" /\ Goto(c, "await") /\ order' = [order EXCEPT ![c] = "flight"]
  /\ UNCHANGED <<lots, shown, filled, resting, active, lock, locals, caller, result, shaken>>

CloseAccepted(c) ==
  /\ pc[c] = "await" /\ order[c] \in {"live", "done"} /\ Goto(c, "verify")
  /\ UNCHANGED <<account, active, lock, locals, caller, result, shaken>>

\* A definite error, or a refusal inside a successful answer.
CloseRejected(c) ==
  /\ pc[c] = "await" /\ order[c] = "flight"
  /\ order' = [order EXCEPT ![c] = "done"] /\ Goto(c, "over")
  /\ result' \in {[result EXCEPT ![c] = r] : r \in {"failed", "rejected"}}
  /\ lock' = IF lock = c THEN Nobody ELSE lock
  /\ shaken' = shaken \ {c}
  /\ UNCHANGED <<lots, shown, filled, resting, active, locals, caller>>

\* Faulty variant: a timeout counts as a failed close.
TimeoutFails(c) == pc[c] = "await" /\ Finish(c, "failed")

\* The answer is uncertain: the order is looked up by its own id.
CloseUncertain(c) ==
  /\ pc[c] = "await" /\ Goto(c, "recover")
  /\ UNCHANGED <<account, active, lock, locals, caller, result, shaken>>

\* The order found matches the one sent; a mark of an executed order.
CloseRecovered(c) ==
  /\ pc[c] = "recover" /\ order[c] \in {"live", "done"} /\ Goto(c, "verify")
  /\ recovered' = recovered \cup {c}
  /\ UNCHANGED <<account, active, lock, client, share, unit, base, amount, tries, caller, result,
                 shaken>>

\* Not found, not matching, or the lookup failed.
CloseUnknown(c) == pc[c] = "recover" /\ Finish(c, "unknown")

\* The residual the re-read shows beyond what was to be left.
Excess(c) == shown - (base[c] - amount[c])

\* Faulty variant: the count of reads is not compared.
VerifyForever(c) ==
  /\ pc[c] = "verify" /\ Excess(c) > unit[c] /\ tries' = [tries EXCEPT ![c] = @ + 1]
  /\ UNCHANGED <<account, active, lock, pc, client, share, unit, base, amount, recovered, caller,
                 result, shaken>>

\* The residual is unsettled and reads are left.
VerifyAgain(c) ==
  /\ pc[c] = "verify" /\ tries[c] + 1 < VerifyAttempts /\ Excess(c) > unit[c]
  /\ tries' = [tries EXCEPT ![c] = @ + 1]
  /\ UNCHANGED <<account, active, lock, pc, client, share, unit, base, amount, recovered, caller,
                 result, shaken>>

\* Faulty variant: an accepted order is a closed position.
AcceptedIsClosed(c) == pc[c] = "verify" /\ Finish(c, "closed")

\* One lot of tolerance either way decides the report; a failed re-read leaves
\* it open.
Report(c) ==
  /\ pc[c] = "verify"
  /\ \/ Finish(c, "unverified")
     \/ tries[c] + 1 = VerifyAttempts /\ Excess(c) > unit[c] /\ Finish(c, "partial")
     \/ -Excess(c) > unit[c] /\ Finish(c, "overfilled")
     \/ Excess(c) \in -unit[c]..unit[c] /\ Finish(c, "closed")

-----------------------------------------------------------------------------
(* cancel *)

\* The id must be in the list of open orders, which may lag.
ReadOpenOrders(c) ==
  /\ pc[c] = "list" /\ Goto(c, "withdraw")
  /\ UNCHANGED <<account, active, lock, locals, caller, result, shaken>>

\* The cancel leaves; it reaches the order before or after a fill, or never.
SendCancel(c) ==
  /\ pc[c] = "withdraw" /\ Goto(c, "answer")
  /\ resting' \in {resting} \cup (IF resting = "live" THEN {"cancelled"} ELSE {})
  /\ UNCHANGED <<lots, shown, order, filled, active, lock, locals, caller, result, shaken>>

CancelAnswered(c) ==
  /\ pc[c] = "answer"
  /\ \/ resting = "cancelled" /\ Finish(c, "cancelled")
     \/ resting # "cancelled" /\ Finish(c, "rejected")
     \/ Finish(c, "unknown")

-----------------------------------------------------------------------------
(* The exchange and others on the account *)

\* Requests that have sized an order by the position and not yet reported.
Watching == {c \in Closers : pc[c] \in {"send", "await", "recover", "verify"}}

AcceptOrder(c) ==
  /\ order[c] = "flight" /\ order' = [order EXCEPT ![c] = "live"]
  /\ UNCHANGED <<lots, shown, filled, resting, active, lock, pc, locals, caller, result, shaken>>

\* A reduce-only market order closes what it can, at once or later. A fill of
\* a request already reported disturbs the ones that watch.
FillOrder(c) ==
  /\ order[c] = "live" /\ order' = [order EXCEPT ![c] = "done"]
  /\ \E n \in 0..Least(amount[c], lots) :
       /\ lots' = lots - n /\ filled' = [filled EXCEPT ![c] = n]
       /\ shaken' = IF n > 0 THEN shaken \cup (Watching \ {c}) ELSE shaken
  /\ UNCHANGED <<shown, resting, active, lock, pc, locals, caller, result>>

\* The resting entry fills.
FillResting ==
  /\ resting = "live" /\ lots < MaxLots /\ resting' = "filled" /\ lots' = lots + 1
  /\ shaken' = shaken \cup Watching
  /\ UNCHANGED <<shown, order, filled, active, lock, pc, locals, caller, result>>

\* Others grow, reduce or flip the position.
OthersTrade ==
  /\ lots' \in 0..MaxLots \ {lots} /\ shaken' = shaken \cup Watching
  /\ UNCHANGED <<shown, order, filled, resting, active, lock, pc, locals, caller, result>>

Serve ==
  /\ shown # lots /\ shown' = lots
  /\ UNCHANGED <<lots, order, filled, resting, active, lock, pc, locals, caller, result, shaken>>

-----------------------------------------------------------------------------
CloseStep(c) ==
  \/ ReadPosition(c) \/ ReadContract(c) \/ Recheck(c) \/ SendClose(c) \/ CloseAccepted(c)
  \/ CloseRejected(c) \/ CloseUncertain(c) \/ CloseRecovered(c) \/ CloseUnknown(c)
  \/ VerifyAgain(c) \/ Report(c)

CancelStep(c) == ReadOpenOrders(c) \/ SendCancel(c) \/ CancelAnswered(c)

Next ==
  \/ \E c \in Requests : \/ Arrive(c) \/ Acquire(c) \/ ClientReplaced(c) \/ Refuse(c)
                         \/ CallerLeaves(c)
  \/ \E c \in Closers : CloseStep(c) \/ AcceptOrder(c) \/ FillOrder(c)
  \/ \E c \in Cancellers : CancelStep(c)
  \/ SwapClient \/ FillResting \/ OthersTrade \/ Serve

Spec == Init /\ [][Next]_vars

\* Awaits end and the lock is passed on.
FairSpec ==
  /\ Spec /\ \A c \in Requests : SF_vars(Acquire(c) \/ ClientReplaced(c))
  /\ \A c \in Closers : WF_vars(CloseStep(c) \/ Refuse(c))
  /\ \A c \in Cancellers : WF_vars(CancelStep(c) \/ Refuse(c))

-----------------------------------------------------------------------------
(* Properties *)

\* At most one request has an exchange mutation under way, whoever waits for
\* it: a caller that left has not let the lock go (_run_locked_mutation).
OneMutation == Cardinality({c \in Requests : MutationStarted(c)}) <= 1

\* An order is sent and a cancel leaves only through the client the
\* application uses at that moment, however long the request had queued
\* (_require_active_client).
ActiveClientOnly ==
  [][\A c \in Requests : MutationStarted(c)' /\ ~MutationStarted(c) => client[c] = active]_vars

\* A request that reports a plain failure has not touched the position and
\* never will: everything else is reported as unknown or as a partial result.
FailureTouchesNothing ==
  \A c \in Closers : result[c] \in {"failed", "rejected"} =>
    filled[c] = 0 /\ order[c] \notin {"flight", "live"}

\* A close reported as verified has closed what it sent but for one lot,
\* unless others traded the position meanwhile or the endpoint lagged before
\* the order was sized.
ClosedButOneLot ==
  \A c \in Closers : result[c] = "closed" /\ c \notin shaken => filled[c] + unit[c] >= amount[c]

\* A close reported as verified has closed something of what it sent
\* (F-03: never answer ok while the position is still open).
ClosedMeansFilled ==
  \A c \in Closers : result[c] = "closed" /\ c \notin shaken => filled[c] > 0

\* Every queued request gets an answer.
Answered == \A c \in Requests : pc[c] = "queued" ~> pc[c] = "over"

=============================================================================
