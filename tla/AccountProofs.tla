----------------------------- MODULE AccountProofs -----------------------------
(***************************************************************************)
(* Proofs about what touches and what reads the account: Close and Cancel  *)
(* (ClosePosition), and the cached reads of the Hyperliquid client         *)
(* (AccountCache).                                                         *)
(***************************************************************************)
EXTENDS ClosePosition, AccountCache, FiniteSetTheorems, TLAPS

-----------------------------------------------------------------------------
(* Close and Cancel *)

\* Steps made under the trade lock.
UnderLock == {"read", "meta", "recheck", "send", "await", "recover", "verify", "list", "withdraw", "answer"}

\* The requests under the lock, and the client they were bound to.
LockOK ==
  \A c \in Requests : pc[c] \in UnderLock => lock = c /\ client[c] = active

\* A close order exists once it was sent, and fills once the exchange has it.
OrderOK(c) ==
  /\ pc[c] \notin {"await", "recover", "verify", "over"} => order[c] = "none"
  /\ order[c] # "done" => filled[c] = 0
  /\ result[c] \in {"failed", "rejected"} =>
       pc[c] = "over" /\ order[c] \in {"none", "done"} /\ filled[c] = 0

\* Until it reports, an undisturbed close sees a position that only its own order
\* reduced; once it has reported "closed", only that order may still fill.
SeenOK(c) ==
  /\ c \in Watching /\ c \notin shaken => lots = base[c] - filled[c] /\ shown >= lots
  /\ result[c] = "closed" =>
       pc[c] = "over" /\ (c \notin shaken => filled[c] + unit[c] >= amount[c])

CloseInv == TypeOK /\ LockOK /\ \A c \in Closers : OrderOK(c) /\ SeenOK(c)

LEMMA LotsArithmetic ==
  ASSUME NEW n \in 0..MaxLots
  PROVE  n \div 2 \in 0..MaxLots
  BY LotsAssumption

LEMMA CloseInvInit == Init => CloseInv
<1> SUFFICES ASSUME Init PROVE CloseInv
  OBVIOUS
<1>1. TypeOK
  <2>1. 0 \in 0..MaxLots /\ 0 \in 0..VerifyAttempts
    BY LotsAssumption
  <2>q. QED BY <2>1 DEF Init, TypeOK, Steps, Orders, Results
<1>2. LockOK /\ \A c \in Closers : OrderOK(c) /\ SeenOK(c)
  BY DEF Init, LockOK, OrderOK, SeenOK, Watching, UnderLock, Requests
<1>q. QED BY <1>1, <1>2 DEF CloseInv

\* The end of an operation.
LEMMA FinishType ==
  ASSUME TypeOK, NEW c \in Requests, NEW r \in Results, Finish(c, r)
  PROVE  TypeOK'
<1>1. 0 \in 0..MaxLots /\ 0 \in 0..VerifyAttempts
  BY LotsAssumption
<1>q. QED BY <1>1 DEF Finish, TypeOK, Goto, Steps, Shares, account

\* Typing.
LEMMA CloseTypeStep ==
  ASSUME TypeOK, Next
  PROVE  TypeOK'
<1> USE DEF TypeOK
<1>1. ASSUME NEW c \in Requests, Arrive(c) \/ Acquire(c)
      PROVE  TypeOK'
  BY <1>1 DEF Arrive, Acquire, Goto, account, locals, Steps
<1>2. ASSUME NEW c \in Requests, ClientReplaced(c) \/ Refuse(c)
      PROVE  TypeOK'
  BY <1>2, FinishType DEF ClientReplaced, Refuse, Results
<1>3. ASSUME NEW c \in Requests, CallerLeaves(c)
      PROVE  TypeOK'
  BY <1>3, FinishType DEF CallerLeaves, Results, account, locals
<1>4. ASSUME NEW c \in Closers, CloseStep(c)
      PROVE  TypeOK'
  <2>0. c \in Requests
    BY DEF Requests
  <2>1. CASE ReadPosition(c)
    BY <2>0, <2>1 DEF ReadPosition, Goto, account, Steps
  <2>2. CASE ReadContract(c)
    <3>1. ShareOf(c, base[c]) \in 0..MaxLots
      BY <2>0, LotsArithmetic DEF ShareOf
    <3>2. amount' \in [Requests -> 0..MaxLots] /\ unit' \in [Requests -> {0, 1}]
      BY <2>0, <2>2, <3>1 DEF ReadContract
    <3>q. QED BY <2>0, <2>2, <3>2 DEF ReadContract, Goto, account, Steps
  <2>3. CASE Recheck(c)
    <3>1. ShareOf(c, shown) \in 0..MaxLots
      BY <2>0, LotsArithmetic DEF ShareOf
    <3>2. Least(amount[c], shown) \in 0..MaxLots
      BY <2>0 DEF Least
    <3>3. amount' \in [Requests -> 0..MaxLots] /\ base' \in [Requests -> 0..MaxLots]
      BY <2>0, <2>3, <3>1, <3>2 DEF Recheck
    <3>q. QED BY <2>0, <2>3, <3>3 DEF Recheck, Goto, account, Steps
  <2>4. CASE SendClose(c)
    BY <2>0, <2>4 DEF SendClose, Goto, locals, Steps, Orders
  <2>5. CASE CloseAccepted(c) \/ CloseUncertain(c)
    BY <2>0, <2>5 DEF CloseAccepted, CloseUncertain, Goto, account, locals, Steps
  <2>6. CASE CloseRejected(c)
    BY <2>0, <2>6 DEF CloseRejected, Goto, locals, Steps, Orders, Results
  <2>7. CASE CloseRecovered(c)
    BY <2>0, <2>7 DEF CloseRecovered, Goto, account, Steps
  <2>8. CASE CloseUnknown(c)
    BY <2>0, <2>8, FinishType DEF CloseUnknown, Results
  <2>9. CASE VerifyAgain(c)
    <3>1. tries[c] + 1 \in 0..VerifyAttempts
      BY <2>0, <2>9, LotsAssumption DEF VerifyAgain
    <3>q. QED BY <2>0, <2>9, <3>1 DEF VerifyAgain, account
  <2>10. CASE Report(c)
    BY <2>0, <2>10, FinishType DEF Report, Results
  <2>q. QED BY <1>4, <2>1, <2>2, <2>3, <2>4, <2>5, <2>6, <2>7, <2>8, <2>9, <2>10 DEF CloseStep
<1>5. ASSUME NEW c \in Closers, AcceptOrder(c)
      PROVE  TypeOK'
  BY <1>5 DEF AcceptOrder, locals, Orders
<1>6. ASSUME NEW c \in Closers, FillOrder(c)
      PROVE  TypeOK'
  <2>0. c \in Requests /\ Watching \subseteq Requests
    BY DEF Requests, Watching
  <2>1. PICK n \in 0..Least(amount[c], lots) :
          /\ lots' = lots - n /\ filled' = [filled EXCEPT ![c] = n]
          /\ shaken' = IF n > 0 THEN shaken \cup (Watching \ {c}) ELSE shaken
    BY <1>6 DEF FillOrder
  <2>2. n \in 0..MaxLots /\ lots - n \in 0..MaxLots
    BY <2>0, LotsAssumption DEF Least
  <2>q. QED BY <1>6, <2>0, <2>1, <2>2 DEF FillOrder, locals, Orders
<1>7. ASSUME NEW c \in Cancellers, CancelStep(c)
      PROVE  TypeOK'
  <2>0. c \in Requests
    BY DEF Requests
  <2>1. CASE ReadOpenOrders(c)
    BY <2>0, <2>1 DEF ReadOpenOrders, Goto, account, locals, Steps
  <2>2. CASE SendCancel(c)
    BY <2>0, <2>2 DEF SendCancel, Goto, locals, Steps
  <2>3. CASE CancelAnswered(c)
    BY <2>0, <2>3, FinishType DEF CancelAnswered, Results
  <2>q. QED BY <1>7, <2>1, <2>2, <2>3 DEF CancelStep
<1>8. CASE SwapClient
  BY <1>8 DEF SwapClient, account, locals
<1>9. CASE FillResting
  <2>1. lots + 1 \in 0..MaxLots /\ Watching \subseteq Requests
    BY <1>9, LotsAssumption DEF FillResting, Watching, Requests
  <2>q. QED BY <1>9, <2>1 DEF FillResting, locals
<1>10. CASE OthersTrade
  BY <1>10 DEF OthersTrade, locals, Watching, Requests
<1>11. CASE Serve
  BY <1>11 DEF Serve, locals
<1>q. QED BY <1>1, <1>2, <1>3, <1>4, <1>5, <1>6, <1>7, <1>8, <1>9, <1>10, <1>11 DEF Next

\* The lock.
LEMMA FinishLock ==
  ASSUME TypeOK, LockOK, NEW c \in Requests, NEW r \in Results, Finish(c, r)
  PROVE  LockOK'
<1>1. pc' = [pc EXCEPT ![c] = "over"] /\ client' = [client EXCEPT ![c] = 1] /\ UNCHANGED active
      /\ (lock # c => lock' = lock)
  BY DEF Finish, Goto
<1>2. ASSUME NEW d \in Requests, pc'[d] \in UnderLock
      PROVE  lock' = d /\ client'[d] = active'
  <2>1. d # c /\ pc'[d] = pc[d] /\ client'[d] = client[d]
    BY <1>1, <1>2 DEF TypeOK, UnderLock
  <2>q. QED BY <1>1, <1>2, <2>1 DEF LockOK
<1>q. QED BY <1>2 DEF LockOK

\* A step of a request that holds the lock and keeps it.
LEMMA KeepsLock ==
  ASSUME TypeOK, LockOK, NEW c \in Requests, NEW s \in Steps, pc[c] \in UnderLock, Goto(c, s),
         UNCHANGED <<lock, client, active>>
  PROVE  LockOK'
  BY DEF TypeOK, LockOK, Goto

LEMMA StepLock ==
  ASSUME TypeOK, LockOK, Next
  PROVE  LockOK'
<1>1. ASSUME NEW c \in Requests, Arrive(c)
      PROVE  LockOK'
  BY <1>1 DEF Arrive, Goto, TypeOK, LockOK, UnderLock
<1>2. ASSUME NEW c \in Requests, Acquire(c)
      PROVE  LockOK'
  <2>1. \A d \in Requests : pc[d] \notin UnderLock
    BY <1>2, ClosersAssumption DEF Acquire, LockOK
  <2>2. \A d \in Requests : pc'[d] \in UnderLock => d = c
    BY <1>2, <2>1 DEF Acquire, Goto, TypeOK
  <2>q. QED BY <1>2, <2>2 DEF Acquire, LockOK, locals
<1>3. ASSUME NEW c \in Requests, ClientReplaced(c) \/ Refuse(c)
      PROVE  LockOK'
  BY <1>3, FinishLock DEF ClientReplaced, Refuse, Results
<1>4. ASSUME NEW c \in Requests, CallerLeaves(c)
      PROVE  LockOK'
  <2>1. CASE MutationStarted(c)
    BY <1>4, <2>1 DEF CallerLeaves, LockOK, locals
  <2>2. CASE ~MutationStarted(c)
    BY <1>4, <2>2, FinishLock DEF CallerLeaves, Results
  <2>q. QED BY <2>1, <2>2
<1>5. ASSUME NEW c \in Closers, CloseStep(c)
      PROVE  LockOK'
  <2>0. c \in Requests
    BY DEF Requests
  <2>1. CASE ReadPosition(c) \/ ReadContract(c) \/ Recheck(c) \/ SendClose(c)
    BY <2>0, <2>1, KeepsLock DEF ReadPosition, ReadContract, Recheck, SendClose, locals, UnderLock, Steps
  <2>2. CASE CloseAccepted(c) \/ CloseUncertain(c) \/ CloseRecovered(c)
    BY <2>0, <2>2, KeepsLock DEF CloseAccepted, CloseUncertain, CloseRecovered, locals, UnderLock, Steps
  <2>3. CASE CloseRejected(c)
    <3>1. pc' = [pc EXCEPT ![c] = "over"] /\ UNCHANGED <<client, active>> /\ (lock # c => lock' = lock)
      BY <2>3 DEF CloseRejected, Goto, locals
    <3>2. ASSUME NEW d \in Requests, pc'[d] \in UnderLock
          PROVE  lock' = d /\ client'[d] = active'
      <4>1. d # c /\ pc'[d] = pc[d]
        BY <2>0, <3>1, <3>2 DEF TypeOK, UnderLock
      <4>q. QED BY <3>1, <3>2, <4>1 DEF LockOK
    <3>q. QED BY <3>2 DEF LockOK
  <2>4. CASE CloseUnknown(c) \/ Report(c)
    BY <2>0, <2>4, FinishLock DEF CloseUnknown, Report, Results
  <2>5. CASE VerifyAgain(c)
    BY <2>5 DEF VerifyAgain, LockOK
  <2>q. QED BY <1>5, <2>1, <2>2, <2>3, <2>4, <2>5 DEF CloseStep
<1>6. ASSUME NEW c \in Closers, AcceptOrder(c) \/ FillOrder(c)
      PROVE  LockOK'
  BY <1>6 DEF AcceptOrder, FillOrder, LockOK, locals
<1>7. ASSUME NEW c \in Cancellers, CancelStep(c)
      PROVE  LockOK'
  <2>0. c \in Requests
    BY DEF Requests
  <2>1. CASE ReadOpenOrders(c) \/ SendCancel(c)
    BY <2>0, <2>1, KeepsLock DEF ReadOpenOrders, SendCancel, locals, UnderLock, Steps
  <2>2. CASE CancelAnswered(c)
    BY <2>0, <2>2, FinishLock DEF CancelAnswered, Results
  <2>q. QED BY <1>7, <2>1, <2>2 DEF CancelStep
<1>8. CASE SwapClient
  <2>1. \A d \in Requests : pc[d] \notin UnderLock
    BY <1>8, ClosersAssumption DEF SwapClient, LockOK
  <2>q. QED BY <1>8, <2>1 DEF SwapClient, LockOK
<1>9. CASE FillResting \/ OthersTrade \/ Serve
  BY <1>9 DEF FillResting, OthersTrade, Serve, LockOK, locals
<1>q. QED BY <1>1, <1>2, <1>3, <1>4, <1>5, <1>6, <1>7, <1>8, <1>9 DEF Next

\* The orders.
LEMMA FinishOrder ==
  ASSUME TypeOK, NEW d \in Closers, OrderOK(d), NEW c \in Requests, NEW r \in Results, Finish(c, r),
         c = d /\ r \in {"failed", "rejected"} => order[d] \in {"none", "done"} /\ filled[d] = 0
  PROVE  OrderOK(d)'
<1>1. UNCHANGED <<order, filled>> /\ pc' = [pc EXCEPT ![c] = "over"] /\ result' = [result EXCEPT ![c] = r]
  BY DEF Finish, Goto, account
<1>2. d \in Requests
  BY DEF Requests
<1>3. CASE c = d
  BY <1>1, <1>2, <1>3 DEF OrderOK, TypeOK
<1>4. CASE c # d
  BY <1>1, <1>2, <1>4 DEF OrderOK, TypeOK
<1>q. QED BY <1>3, <1>4

\* A step of a request towards the exchange, or after it.
LEMMA GoesOn ==
  ASSUME TypeOK, NEW d \in Closers, OrderOK(d), NEW c \in Requests, NEW s \in Steps, Goto(c, s),
         UNCHANGED <<order, filled, result>>, pc[c] # "over",
         c = d /\ s \notin {"await", "recover", "verify", "over"} => order[d] = "none"
  PROVE  OrderOK(d)'
  BY DEF OrderOK, Goto, TypeOK, Requests

LEMMA StepOrder ==
  ASSUME TypeOK, NEW d \in Closers, OrderOK(d), Next
  PROVE  OrderOK(d)'
<1>0. d \in Requests /\ Closers \subseteq Requests /\ Cancellers \subseteq Requests
      /\ Closers \cap Cancellers = {}
  BY ClosersAssumption DEF Requests
<1>1. ASSUME NEW c \in Requests, Arrive(c)
      PROVE  OrderOK(d)'
  BY <1>1, GoesOn DEF Arrive, account, Steps, OrderOK
<1>2. ASSUME NEW c \in Requests, Acquire(c)
      PROVE  OrderOK(d)'
  BY <1>2, GoesOn DEF Acquire, account, Steps, OrderOK
<1>3. ASSUME NEW c \in Requests, ClientReplaced(c) \/ Refuse(c)
      PROVE  OrderOK(d)'
  <2>1. Finish(c, "failed") /\ pc[c] \notin {"await", "recover", "verify", "over"}
    BY <1>3 DEF ClientReplaced, Refuse
  <2>2. c = d => order[d] = "none" /\ filled[d] = 0
    BY <2>1 DEF OrderOK
  <2>q. QED BY <2>1, <2>2, FinishOrder DEF Results
<1>4. ASSUME NEW c \in Requests, CallerLeaves(c)
      PROVE  OrderOK(d)'
  <2>1. CASE MutationStarted(c)
    BY <1>4, <2>1 DEF CallerLeaves, OrderOK, account
  <2>2. CASE ~MutationStarted(c)
    <3>1. Finish(c, "failed") /\ pc[c] \notin {"await", "recover", "verify", "over"}
      BY <1>4, <2>2 DEF CallerLeaves, MutationStarted
    <3>2. c = d => order[d] = "none" /\ filled[d] = 0
      BY <3>1 DEF OrderOK
    <3>q. QED BY <3>1, <3>2, FinishOrder DEF Results
  <2>q. QED BY <2>1, <2>2
<1>5. ASSUME NEW c \in Closers, CloseStep(c)
      PROVE  OrderOK(d)'
  <2>0. c \in Requests
    BY <1>0
  <2>1. CASE ReadPosition(c) \/ ReadContract(c) \/ Recheck(c)
    BY <2>0, <2>1, GoesOn DEF ReadPosition, ReadContract, Recheck, account, Steps, OrderOK
  <2>2. CASE SendClose(c)
    BY <1>0, <2>0, <2>2 DEF SendClose, Goto, OrderOK, TypeOK
  <2>3. CASE CloseAccepted(c) \/ CloseUncertain(c) \/ CloseRecovered(c)
    BY <2>0, <2>3, GoesOn DEF CloseAccepted, CloseUncertain, CloseRecovered, account, Steps
  <2>4. CASE CloseRejected(c)
    BY <1>0, <2>0, <2>4 DEF CloseRejected, Goto, OrderOK, TypeOK
  <2>5. CASE CloseUnknown(c)
    BY <2>0, <2>5, FinishOrder DEF CloseUnknown, Results
  <2>6. CASE VerifyAgain(c)
    BY <2>6 DEF VerifyAgain, OrderOK, account
  <2>7. CASE Report(c)
    BY <2>0, <2>7, FinishOrder DEF Report, Results
  <2>q. QED BY <1>5, <2>1, <2>2, <2>3, <2>4, <2>5, <2>6, <2>7 DEF CloseStep
<1>6. ASSUME NEW c \in Closers, AcceptOrder(c) \/ FillOrder(c)
      PROVE  OrderOK(d)'
  BY <1>6 DEF AcceptOrder, FillOrder, OrderOK, TypeOK
<1>7. ASSUME NEW c \in Cancellers, CancelStep(c)
      PROVE  OrderOK(d)'
  <2>0. c \in Requests /\ c # d
    BY <1>0
  <2>1. CASE ReadOpenOrders(c) \/ SendCancel(c)
    BY <2>0, <2>1, GoesOn DEF ReadOpenOrders, SendCancel, account, Steps
  <2>2. CASE CancelAnswered(c)
    BY <2>0, <2>2, FinishOrder DEF CancelAnswered, Results
  <2>q. QED BY <1>7, <2>1, <2>2 DEF CancelStep
<1>8. CASE SwapClient \/ FillResting \/ OthersTrade \/ Serve
  BY <1>8 DEF SwapClient, FillResting, OthersTrade, Serve, OrderOK, account
<1>q. QED BY <1>1, <1>2, <1>3, <1>4, <1>5, <1>6, <1>7, <1>8 DEF Next

\* What an undisturbed close sees.

\* Others disturb a close they trade beside; its own order fills once.
LEMMA TradeSeen ==
  ASSUME TypeOK, NEW d \in Closers, OrderOK(d), SeenOK(d), pc' = pc, result' = result, base' = base,
         unit' = unit, amount' = amount,
         \/ \E c \in Closers : FillOrder(c)
         \/ FillResting \/ OthersTrade \/ Serve
  PROVE  SeenOK(d)'
<1> USE DEF TypeOK, Requests
<1>1. Watching' = Watching /\ shaken \subseteq shaken'
  BY DEF Watching, FillOrder, FillResting, OthersTrade, Serve
<1>2. filled'[d] \in Nat /\ filled'[d] >= filled[d]
  <2>1. ASSUME NEW c \in Closers, FillOrder(c) PROVE filled'[d] \in Nat /\ filled'[d] >= filled[d]
    <3>1. PICK n \in 0..Least(amount[c], lots) : filled' = [filled EXCEPT ![c] = n]
      BY <2>1 DEF FillOrder
    <3>2. n \in Nat
      BY DEF Least
    <3>3. c = d => filled[d] = 0
      BY <2>1 DEF FillOrder, OrderOK
    <3> QED BY <3>1, <3>2, <3>3
  <2> QED BY <2>1 DEF FillResting, OthersTrade, Serve
<1>3. ASSUME d \in Watching, d \notin shaken' PROVE lots' = base[d] - filled'[d] /\ shown' >= lots'
  <2>1. lots = base[d] - filled[d] /\ shown >= lots
    BY <1>1, <1>3 DEF SeenOK
  <2>2. ASSUME NEW c \in Closers, FillOrder(c) PROVE lots' = base[d] - filled'[d] /\ shown' >= lots'
    <3>1. PICK n \in 0..Least(amount[c], lots) :
            /\ lots' = lots - n /\ filled' = [filled EXCEPT ![c] = n]
            /\ shaken' = IF n > 0 THEN shaken \cup (Watching \ {c}) ELSE shaken
      BY <2>2 DEF FillOrder
    <3>2. n \in Nat /\ shown' = shown /\ (c = d => filled[d] = 0)
      BY <2>2 DEF FillOrder, Least, OrderOK
    <3>3. CASE c = d
      BY <2>1, <3>1, <3>2, <3>3
    <3>4. CASE c # d
      BY <1>3, <2>1, <3>1, <3>2, <3>4
    <3> QED BY <3>3, <3>4
  <2>3. CASE Serve
    BY <2>1, <2>3 DEF Serve
  <2> QED BY <1>3, <2>2, <2>3 DEF FillResting, OthersTrade
<1> QED BY <1>1, <1>2, <1>3 DEF SeenOK

\* The end of an operation; only the report says "closed".
LEMMA FinishSeen ==
  ASSUME TypeOK, NEW d \in Closers, SeenOK(d), NEW c \in Requests, pc[c] # "over",
         NEW r \in Results, Finish(c, r),
         c = d /\ r = "closed" /\ d \notin shaken => filled[d] + unit[d] >= amount[d]
  PROVE  SeenOK(d)'
<1>1. d \in Requests
  BY DEF Requests
<1> QED BY <1>1 DEF Finish, Goto, SeenOK, Watching, TypeOK, account

\* A step of one request that trades nothing and reports nothing.
LEMMA GoesOnSeen ==
  ASSUME TypeOK, NEW d \in Closers, SeenOK(d), NEW c \in Requests, NEW s \in Steps, Goto(c, s),
         UNCHANGED <<lots, shown, filled, result>>, pc[c] # "over", c # d => shaken \subseteq shaken' \cup {c},
         \A e \in Requests \ {c} : base'[e] = base[e] /\ unit'[e] = unit[e] /\ amount'[e] = amount[e],
         c = d /\ s \in {"send", "await", "recover", "verify"} =>
           pc[d] \in {"send", "await", "recover", "verify"} /\ shaken' = shaken /\ base' = base
  PROVE  SeenOK(d)'
<1>1. d \in Requests
  BY DEF Requests
<1>2. CASE c = d
  BY <1>1, <1>2 DEF Goto, SeenOK, Watching, TypeOK
<1>3. CASE c # d
  BY <1>1, <1>3 DEF Goto, SeenOK, Watching, TypeOK
<1> QED BY <1>2, <1>3

LEMMA StepSeen ==
  ASSUME TypeOK, NEW d \in Closers, \A c \in Closers : OrderOK(c), SeenOK(d), Next
  PROVE  SeenOK(d)'
<1>0. d \in Requests /\ Closers \subseteq Requests /\ Cancellers \subseteq Requests
      /\ Closers \cap Cancellers = {}
  BY ClosersAssumption DEF Requests
<1>1. ASSUME NEW c \in Requests, Arrive(c) \/ Acquire(c)
      PROVE  SeenOK(d)'
  BY <1>1, GoesOnSeen DEF Arrive, Acquire, account, locals, Steps
<1>2. ASSUME NEW c \in Requests, ClientReplaced(c) \/ Refuse(c)
      PROVE  SeenOK(d)'
  BY <1>2, FinishSeen DEF ClientReplaced, Refuse, Results
<1>3. ASSUME NEW c \in Requests, CallerLeaves(c)
      PROVE  SeenOK(d)'
  <2>1. CASE MutationStarted(c)
    BY <1>3, <2>1 DEF CallerLeaves, SeenOK, Watching, account, locals
  <2>2. CASE ~MutationStarted(c)
    BY <1>3, <2>2, FinishSeen DEF CallerLeaves, Results
  <2> QED BY <2>1, <2>2
<1>4. ASSUME NEW c \in Closers, CloseStep(c)
      PROVE  SeenOK(d)'
  <2>0. c \in Requests
    BY <1>0
  <2>1. CASE ReadPosition(c) \/ SendClose(c)
    BY <2>0, <2>1, GoesOnSeen DEF ReadPosition, SendClose, account, locals, Steps, TypeOK
  <2>2. CASE ReadContract(c)
    BY <2>0, <2>2, GoesOnSeen DEF ReadContract, account, Steps, TypeOK
  <2>3. CASE Recheck(c)
    <3>1. CASE c = d
      <4>1. filled[d] = 0 /\ result[d] # "closed"
        BY <2>3, <3>1 DEF Recheck, OrderOK, SeenOK
      <4>2. pc'[d] = "send" /\ base'[d] = shown /\ (d \notin shaken' => shown = lots)
            /\ UNCHANGED <<lots, shown, filled, result>>
        BY <1>0, <2>3, <3>1 DEF Recheck, Goto, TypeOK, account
      <4> QED BY <4>1, <4>2 DEF SeenOK, TypeOK
    <3>2. CASE c # d
      BY <2>0, <2>3, <3>2, GoesOnSeen DEF Recheck, account, Steps, TypeOK
    <3> QED BY <3>1, <3>2
  <2>4. CASE CloseAccepted(c) \/ CloseUncertain(c) \/ CloseRecovered(c)
    BY <2>0, <2>4, GoesOnSeen DEF CloseAccepted, CloseUncertain, CloseRecovered, account, locals, Steps
  <2>5. CASE CloseRejected(c)
    BY <1>0, <2>0, <2>5 DEF CloseRejected, Goto, SeenOK, Watching, TypeOK, locals
  <2>6. CASE CloseUnknown(c)
    BY <2>0, <2>6, FinishSeen DEF CloseUnknown, Results
  <2>7. CASE VerifyAgain(c)
    BY <2>7 DEF VerifyAgain, SeenOK, Watching, account
  <2>8. CASE Report(c)
    <3>1. CASE Finish(c, "closed") /\ Excess(c) \in -unit[c]..unit[c]
      <4>1. c = d /\ d \notin shaken => filled[d] + unit[d] >= amount[d]
        BY <1>0, <2>8, <3>1 DEF Report, SeenOK, Watching, Excess, TypeOK
      <4> QED BY <2>0, <2>8, <3>1, <4>1, FinishSeen DEF Report, Results
    <3>2. CASE Finish(c, "unverified") \/ Finish(c, "partial") \/ Finish(c, "overfilled")
      BY <2>0, <2>8, <3>2, FinishSeen DEF Report, Results
    <3> QED BY <2>8, <3>1, <3>2 DEF Report
  <2> QED BY <1>4, <2>1, <2>2, <2>3, <2>4, <2>5, <2>6, <2>7, <2>8 DEF CloseStep
<1>5. ASSUME NEW c \in Closers, AcceptOrder(c)
      PROVE  SeenOK(d)'
  BY <1>5 DEF AcceptOrder, SeenOK, Watching, locals
<1>6. ASSUME NEW c \in Cancellers, CancelStep(c)
      PROVE  SeenOK(d)'
  <2>0. c \in Requests /\ c # d
    BY <1>0
  <2>1. CASE ReadOpenOrders(c) \/ SendCancel(c)
    BY <2>0, <2>1, GoesOnSeen DEF ReadOpenOrders, SendCancel, account, locals, Steps
  <2>2. CASE CancelAnswered(c)
    BY <2>0, <2>2, FinishSeen DEF CancelAnswered, Results
  <2> QED BY <1>6, <2>1, <2>2 DEF CancelStep
<1>7. CASE (\E c \in Closers : FillOrder(c)) \/ FillResting \/ OthersTrade \/ Serve
  BY <1>7, TradeSeen DEF FillOrder, FillResting, OthersTrade, Serve, locals
<1>8. CASE SwapClient
  BY <1>8 DEF SwapClient, SeenOK, Watching, account, locals
<1> QED BY <1>1, <1>2, <1>3, <1>4, <1>5, <1>6, <1>7, <1>8 DEF Next

LEMMA CloseInvStep ==
  ASSUME CloseInv, [Next]_vars
  PROVE  CloseInv'
<1>1. CASE Next
  BY <1>1, CloseTypeStep, StepLock, StepOrder, StepSeen DEF CloseInv
<1>2. CASE UNCHANGED vars
  BY <1>2 DEF CloseInv, TypeOK, LockOK, OrderOK, SeenOK, Watching, vars, account, locals
<1>q. QED BY <1>1, <1>2

LEMMA InvAlways == Spec => []CloseInv
<1>1. CloseInv /\ [Next]_vars => CloseInv'
  BY CloseInvStep
<1>q. QED BY <1>1, CloseInvInit, PTL DEF Spec

-----------------------------------------------------------------------------
\* Every step keeps the types of the account and of the requests, and amounts and
\* re-reads stay within their bounds.
THEOREM CloseTyped == Spec => []TypeOK
<1>1. CloseInv => TypeOK
  BY DEF CloseInv
<1>q. QED BY <1>1, InvAlways, PTL

\* However many requests queue and whoever of their callers leaves, one of
\* them at most is at the exchange.
THEOREM OneAtExchange == Spec => []OneMutation
<1>1. ASSUME CloseInv
      PROVE  OneMutation
  <2> DEFINE S == {c \in Requests : MutationStarted(c)}
  <2>1. \A c \in S : lock = c
    BY <1>1 DEF CloseInv, LockOK, MutationStarted, UnderLock
  <2>2. CASE S = {}
    BY <2>2, FS_EmptySet DEF OneMutation
  <2>3. CASE S # {}
    <3>1. S = {lock}
      BY <2>1, <2>3
    <3>2. Cardinality(S) = 1
      BY <3>1, FS_Singleton
    <3>q. QED BY <3>2 DEF OneMutation
  <2>q. QED BY <2>2, <2>3
<1>2. CloseInv => OneMutation
  BY <1>1
<1>q. QED BY <1>2, InvAlways, PTL

\* A mutation starts through the client of the application, which cannot be
\* replaced while a request holds the lock.
THEOREM SentByActiveClient == Spec => ActiveClientOnly
<1>1. ASSUME CloseInv, Next, NEW c \in Requests, MutationStarted(c)', ~MutationStarted(c)
      PROVE  client[c] = active
  <2>1. pc[c] \in UnderLock
    <3> USE <1>1 DEF CloseInv, TypeOK, MutationStarted, UnderLock, Goto, Finish
    <3>1. pc[c] \in Steps
      OBVIOUS
    <3>q. QED
      BY <3>1 DEF Next, CloseStep, CancelStep, Arrive, Acquire, ClientReplaced, Refuse, CallerLeaves,
         ReadPosition, ReadContract, Recheck, SendClose, CloseAccepted, CloseRejected, CloseUncertain,
         CloseRecovered, CloseUnknown, VerifyAgain, Report, AcceptOrder, FillOrder, ReadOpenOrders,
         SendCancel, CancelAnswered, SwapClient, FillResting, OthersTrade, Serve, Steps
  <2>q. QED BY <1>1, <2>1 DEF CloseInv, LockOK
<1>2. CloseInv /\ [Next]_vars =>
        [\A c \in Requests : MutationStarted(c)' /\ ~MutationStarted(c) => client[c] = active]_vars
  BY <1>1
<1>q. QED BY <1>2, InvAlways, PTL DEF Spec, ActiveClientOnly

\* A close reported as failed or rejected closed nothing and never will.
THEOREM FailedMeansUntouched == Spec => []FailureTouchesNothing
<1>1. CloseInv => FailureTouchesNothing
  BY DEF CloseInv, OrderOK, FailureTouchesNothing
<1>q. QED BY <1>1, InvAlways, PTL

\* A close reported as verified filled what it sent but for one lot, unless others
\* traded beside it or it was sized by an outdated position.
THEOREM VerifiedClose == Spec => []ClosedButOneLot
<1>1. CloseInv => ClosedButOneLot
  BY DEF CloseInv, SeenOK, ClosedButOneLot
<1>q. QED BY <1>1, InvAlways, PTL

-----------------------------------------------------------------------------
(* The caches of the account *)

\* Versions the caches and the acknowledgements may name.
VersionsOK ==
  /\ acked <= ver /\ sent <= ver /\ (sent # 0 => acked <= sent)
  /\ \A k \in Caches :
       /\ cache[k].ver <= ver /\ cache[k].epoch <= epoch
       /\ cache[k].full /\ cache[k].epoch = epoch => cache[k].ver >= acked

\* What a read asks for, its copy of the cache and what it got.
ReadOK(t) ==
  /\ read[t].floor <= ver /\ (~read[t].fresh => read[t].floor <= acked)
  /\ read[t].epoch <= epoch /\ read[t].seq <= seq /\ read[t].copy.epoch <= epoch
  /\ read[t].copy.full /\ read[t].copy.epoch = epoch => read[t].copy.ver >= acked
  /\ read[t].at \in {"store", "done"} => read[t].got >= read[t].floor
  /\ read[t].at = "store" =>
       /\ read[t].got <= ver
       /\ read[t].epoch = epoch => read[t].got >= acked
       /\ read[t].of = "state" /\ read[t].seq = seq => cache["state"].ver <= read[t].got
       /\ read[t].of = "fills" => cache["fills"].ver <= read[t].got
  /\ read[t].at = "number" => read[t].of = "state"

Fetching(t, k) == read[t].of = k /\ read[t].at \in {"ask", "store"}

\* No two fetches of the state have one number, and a fetch of the fills holds
\* the lock.
FetchesApart ==
  /\ \A t, u \in Threads : t # u /\ Fetching(t, "state") /\ Fetching(u, "state") => read[t].seq # read[u].seq
  /\ \A t \in Threads : Fetching(t, "fills") => fetching["fills"] = t

CacheInv == CacheTypeOK /\ VersionsOK /\ (\A t \in Threads : ReadOK(t)) /\ FetchesApart

LEMMA NoReadType == NoRead \in Reads /\ Empty \in Cached /\ "state" \in Caches /\ "fills" \in Caches
  BY DEF NoRead, Reads, Empty, Cached, Caches

ReadSteps == {"idle", "look", "wait", "number", "ask", "store", "done"}

\* Records of reads.
LEMMA ReadFields ==
  ASSUME NEW r \in Reads
  PROVE  /\ r.at \in ReadSteps /\ r.of \in Caches /\ r.fresh \in BOOLEAN /\ r.copy \in Cached
         /\ r.epoch \in Nat /\ r.seq \in Nat /\ r.got \in Nat /\ r.floor \in Nat
         /\ r.copy.ver \in Nat /\ r.copy.epoch \in Nat /\ r.copy.full \in BOOLEAN
  BY DEF Reads, ReadSteps, Cached

LEMMA ReadMoves == \A r \in Reads, a \in ReadSteps : [r EXCEPT !.at = a] \in Reads
  BY DEF Reads, ReadSteps

LEMMA ReadGets == \A r \in Reads, a \in ReadSteps, n \in Nat : [r EXCEPT !.at = a, !.got = n] \in Reads
  BY DEF Reads, ReadSteps

LEMMA ReadNumbered == \A r \in Reads, a \in ReadSteps, n \in Nat : [r EXCEPT !.at = a, !.seq = n] \in Reads
  BY DEF Reads, ReadSteps

LEMMA ReadCopies ==
  \A r \in Reads, c \in Cached, e \in Nat, a \in ReadSteps :
    [r EXCEPT !.copy = c, !.epoch = e, !.at = a] \in Reads
  BY DEF Reads, ReadSteps

LEMMA FreshReads ==
  \A e \in Nat, n \in Nat, f \in Nat :
    [NoRead EXCEPT !.at = "ask", !.fresh = TRUE, !.epoch = e, !.seq = n, !.floor = f] \in Reads
  BY NoReadType DEF Reads, NoRead

LEMMA LookingReads ==
  \A k \in Caches, b \in BOOLEAN, f \in Nat :
    [NoRead EXCEPT !.at = "look", !.of = k, !.fresh = b, !.floor = f] \in Reads
  BY NoReadType DEF Reads, NoRead

LEMMA CacheInvInit == CacheInit => CacheInv
<1> SUFFICES ASSUME CacheInit PROVE CacheInv
  OBVIOUS
<1>1. CacheTypeOK
  BY NoReadType DEF CacheInit, CacheTypeOK
<1>2. VersionsOK /\ (\A t \in Threads : ReadOK(t)) /\ FetchesApart
  BY DEF CacheInit, VersionsOK, ReadOK, FetchesApart, Fetching, NoRead, Empty, Caches
<1>q. QED BY <1>1, <1>2 DEF CacheInv

\* Typing.
LEMMA CacheTypeStep ==
  ASSUME CacheTypeOK, CacheNext
  PROVE  CacheTypeOK'
<1> USE DEF CacheTypeOK
<1>1. ASSUME NEW t \in Threads, ReadStep(t)
      PROVE  CacheTypeOK'
  <2>0. read[t] \in Reads /\ cache[read[t].of] \in Cached /\ read[t].of \in Caches /\ seq + 1 \in Nat
    <3>1. read[t] \in Reads /\ read[t].of \in Caches
      BY ReadFields
    <3>2. seq + 1 \in Nat
      OBVIOUS
    <3>q. QED BY <3>1, <3>2
  <2>1. \A r \in Reads : [read EXCEPT ![t] = r] \in [Threads -> Reads]
    OBVIOUS
  <2>2. [k \in Caches |-> IF fetching[k] = t THEN Idle ELSE fetching[k]] \in [Caches -> Threads \cup {Idle}]
    OBVIOUS
  <2>3. ASSUME NEW v \in Nat, Ends(t, v)
        PROVE  read' \in [Threads -> Reads] /\ fetching' \in [Caches -> Threads \cup {Idle}]
    <3>1. [read[t] EXCEPT !.at = "done", !.got = v] \in Reads
      BY <2>0, <2>3, ReadGets DEF ReadSteps
    <3>2. read' = [read EXCEPT ![t] = [read[t] EXCEPT !.at = "done", !.got = v]]
      BY <2>3 DEF Ends
    <3>q. QED BY <2>1, <2>2, <2>3, <3>1, <3>2 DEF Ends
  <2>4. CASE StartFresh(t)
    <3>1. [NoRead EXCEPT !.at = "ask", !.fresh = TRUE, !.epoch = epoch, !.seq = seq + 1, !.floor = ver] \in Reads
      BY <2>0, FreshReads DEF ReadSteps
    <3>q. QED BY <2>4, <2>1, <3>1 DEF StartFresh
  <2>5. CASE \E k \in Caches, fresh \in BOOLEAN : StartRead(t, k, fresh)
    <3>1. PICK k \in Caches, fresh \in BOOLEAN : StartRead(t, k, fresh)
      BY <2>5
    <3>2. [NoRead EXCEPT !.at = "look", !.of = k, !.fresh = fresh,
                         !.floor = IF fresh THEN ver ELSE acked] \in Reads
      BY <2>0, LookingReads DEF ReadSteps
    <3>q. QED BY <2>1, <3>1, <3>2 DEF StartRead
  <2>6. CASE Hit(t)
    BY <2>6, <2>0, <2>3 DEF Hit, Cached
  <2>7. CASE Miss(t)
    <3>1. [read[t] EXCEPT !.at = "wait"] \in Reads
      BY <2>0, ReadMoves DEF ReadSteps
    <3>q. QED BY <2>7, <2>1, <3>1 DEF Miss
  <2>8. CASE HitAfterWait(t)
    BY <2>8, <2>0, <2>3 DEF HitAfterWait, Cached
  <2>9. CASE TakeFetchLock(t)
    <3> DEFINE r == [read[t] EXCEPT !.copy = cache[read[t].of], !.epoch = epoch,
                                    !.at = IF read[t].of = "state" THEN "number" ELSE "ask"]
    <3>1. r \in Reads
      BY <2>0, ReadCopies DEF ReadSteps
    <3>2. read' = [read EXCEPT ![t] = r]
      BY <2>9 DEF TakeFetchLock
    <3>q. QED BY <2>9, <2>0, <2>1, <3>1, <3>2 DEF TakeFetchLock
  <2>10. CASE TakeNumber(t)
    <3>1. [read[t] EXCEPT !.at = "ask", !.seq = seq + 1] \in Reads
      BY <2>0, ReadNumbered DEF ReadSteps
    <3>2. read' = [read EXCEPT ![t] = [read[t] EXCEPT !.at = "ask", !.seq = seq + 1]]
      BY <2>10 DEF TakeNumber
    <3>q. QED BY <2>10, <2>1, <3>1, <3>2 DEF TakeNumber
  <2>11. CASE Fetch(t)
    <3>1. [read[t] EXCEPT !.at = "store", !.got = ver] \in Reads
      BY <2>0, ReadGets DEF ReadSteps
    <3>2. read' = [read EXCEPT ![t] = [read[t] EXCEPT !.at = "store", !.got = ver]]
      BY <2>11 DEF Fetch
    <3>q. QED BY <2>11, <2>1, <3>1, <3>2 DEF Fetch
  <2>12. CASE RideOut(t)
    <3>1. read[t].copy.ver \in Nat
      BY <2>0, ReadFields
    <3>q. QED BY <2>12, <3>1, <2>3 DEF RideOut
  <2>13. CASE FetchFails(t)
    BY <2>13, <2>1, <2>2, NoReadType DEF FetchFails
  <2>14. CASE Store(t)
    <3>1. read[t].got \in Nat
      BY <2>0, ReadFields
    <3>2. [full |-> TRUE, ver |-> read[t].got, epoch |-> epoch] \in Cached
      BY <3>1 DEF Cached
    <3>3. cache' \in [Caches -> Cached]
      BY <2>14, <2>0, <3>2 DEF Store, StoreIn
    <3>q. QED BY <2>14, <2>3, <3>1, <3>3 DEF Store
  <2>15. CASE Return(t)
    BY <2>15, <2>1, NoReadType DEF Return
  <2>q. QED BY <1>1, <2>4, <2>5, <2>6, <2>7, <2>8, <2>9, <2>10, <2>11, <2>12, <2>13, <2>14, <2>15 DEF ReadStep
<1>2. CASE OthersMove
  BY <1>2 DEF OthersMove
<1>3. CASE OrderExecutes
  BY <1>3 DEF OrderExecutes
<1>4. CASE Acknowledged
  <2>1. \A k \in Caches : [cache[k] EXCEPT !.full = FALSE] \in Cached
    BY DEF Cached
  <2>q. QED BY <1>4, <2>1 DEF Acknowledged
<1>5. CASE Unacknowledged
  BY <1>5 DEF Unacknowledged
<1>q. QED BY <1>1, <1>2, <1>3, <1>4, <1>5 DEF CacheNext

\* A read that does not move keeps its part of the invariant.
LEMMA OthersKeep ==
  ASSUME CacheTypeOK, NEW u \in Threads, ReadOK(u), read'[u] = read[u],
         UNCHANGED <<ver, epoch, acked, cache>>, seq' \in {seq, seq + 1}
  PROVE  ReadOK(u)'
<1>1. read[u] \in Reads
  BY DEF CacheTypeOK
<1>2. read[u].seq \in Nat /\ read[u].seq <= seq /\ seq \in Nat
  BY <1>1, ReadFields DEF CacheTypeOK, ReadOK
<1>3. read[u].seq <= seq' /\ (read[u].seq = seq' => read[u].seq = seq)
  BY <1>2
<1>q. QED BY <1>3 DEF ReadOK

\* A step of t that leaves it without a fetch disturbs no other fetch.
LEMMA StillApart ==
  ASSUME FetchesApart, NEW t \in Threads,
         \A u \in Threads \ {t} : read'[u] = read[u],
         read'[t].at \notin {"ask", "store"},
         \A u \in Threads \ {t} : fetching["fills"] = u => fetching'["fills"] = u
  PROVE  FetchesApart'
  BY DEF FetchesApart, Fetching

\* A fetch of the state with a new number is apart from every other.
LEMMA NewNumber ==
  ASSUME FetchesApart, NEW t \in Threads, UNCHANGED fetching,
         \A u \in Threads \ {t} : read'[u] = read[u] /\ read[u].seq # seq + 1,
         read'[t].of = "state", read'[t].seq = seq + 1
  PROVE  FetchesApart'
<1>1. ASSUME NEW u \in Threads, NEW v \in Threads, u # v, Fetching(u, "state")', Fetching(v, "state")'
      PROVE  read'[u].seq # read'[v].seq
  <2>1. CASE u = t
    BY <1>1, <2>1
  <2>2. CASE v = t
    BY <1>1, <2>2
  <2>3. CASE u # t /\ v # t
    BY <1>1, <2>3 DEF FetchesApart, Fetching
  <2>q. QED BY <2>1, <2>2, <2>3
<1>2. ASSUME NEW u \in Threads, Fetching(u, "fills")'
      PROVE  fetching'["fills"] = u
  <2>1. u # t
    BY <1>2 DEF Fetching
  <2>q. QED BY <1>2, <2>1 DEF FetchesApart, Fetching
<1>q. QED BY <1>1, <1>2 DEF FetchesApart

\* What the end of a read leaves behind.
LEMMA EndsRead ==
  ASSUME CacheTypeOK, NEW t \in Threads, NEW v \in Nat, Ends(t, v)
  PROVE  /\ \A u \in Threads \ {t} : read'[u] = read[u]
         /\ read'[t].at = "done" /\ read'[t].got = v
         /\ read'[t].of = read[t].of /\ read'[t].fresh = read[t].fresh /\ read'[t].copy = read[t].copy
         /\ read'[t].epoch = read[t].epoch /\ read'[t].seq = read[t].seq /\ read'[t].floor = read[t].floor
         /\ \A u \in Threads \ {t} : fetching["fills"] = u => fetching'["fills"] = u
<1>1. read[t] \in Reads
  BY DEF CacheTypeOK
<1>2. read'[t] = [read[t] EXCEPT !.at = "done", !.got = v]
  BY DEF Ends, CacheTypeOK
<1>3. \A u \in Threads \ {t} : read'[u] = read[u]
  BY DEF Ends, CacheTypeOK
<1>4. \A u \in Threads \ {t} : fetching["fills"] = u => fetching'["fills"] = u
  BY NoReadType DEF Ends
<1>q. QED BY <1>1, <1>2, <1>3, <1>4 DEF Reads

\* A read that ends without storing anything.
LEMMA EndsInv ==
  ASSUME CacheInv, CacheTypeOK', NEW t \in Threads, NEW v \in Nat, Ends(t, v), v >= read[t].floor,
         UNCHANGED <<ver, sent, epoch, seq, acked, cache>>
  PROVE  CacheInv'
<1> USE DEF CacheInv
<1>1. VersionsOK'
  BY DEF VersionsOK
<1>2. ReadOK(t)'
  BY EndsRead DEF ReadOK
<1>3. \A u \in Threads \ {t} : ReadOK(u)'
  BY EndsRead, OthersKeep
<1>4. FetchesApart'
  BY EndsRead, StillApart
<1>q. QED BY <1>1, <1>2, <1>3, <1>4

\* A fresh record has the invariant.
LEMMA BlankRead ==
  ASSUME CacheInv, CacheTypeOK', NEW t \in Threads,
         UNCHANGED <<ver, sent, epoch, seq, acked, cache>>,
         read' = [read EXCEPT ![t] = NoRead],
         \A u \in Threads \ {t} : fetching["fills"] = u => fetching'["fills"] = u
  PROVE  CacheInv'
<1> USE DEF CacheInv
<1>1. VersionsOK'
  BY DEF VersionsOK
<1>2. read'[t] = NoRead /\ \A u \in Threads \ {t} : read'[u] = read[u]
  BY DEF CacheTypeOK
<1>3. ReadOK(t)'
  BY <1>2 DEF ReadOK, NoRead, Empty, CacheTypeOK
<1>4. \A u \in Threads \ {t} : ReadOK(u)'
  BY <1>2, OthersKeep
<1>5. FetchesApart'
  BY <1>2, StillApart DEF NoRead
<1>q. QED BY <1>1, <1>3, <1>4, <1>5

\* A read that begins.
LEMMA StartFreshInv ==
  ASSUME CacheInv, CacheTypeOK', NEW t \in Threads, StartFresh(t)
  PROVE  CacheInv'
<1> USE DEF CacheInv
<1>1. /\ UNCHANGED <<ver, sent, epoch, cache, fetching, acked>> /\ seq' = seq + 1
      /\ \A u \in Threads \ {t} : read'[u] = read[u]
      /\ read'[t] = [NoRead EXCEPT !.at = "ask", !.fresh = TRUE, !.epoch = epoch,
                                   !.seq = seq + 1, !.floor = ver]
  BY DEF StartFresh, CacheTypeOK
<1>2. /\ read'[t].at = "ask" /\ read'[t].of = "state" /\ read'[t].fresh = TRUE
      /\ read'[t].epoch = epoch /\ read'[t].seq = seq + 1 /\ read'[t].floor = ver /\ read'[t].copy = Empty
  BY <1>1 DEF NoRead
<1>3. VersionsOK'
  BY <1>1 DEF VersionsOK
<1>4. ReadOK(t)'
  BY <1>1, <1>2 DEF ReadOK, Empty, CacheTypeOK
<1>5. \A u \in Threads \ {t} : ReadOK(u)'
  BY <1>1, OthersKeep
<1>6. \A u \in Threads \ {t} : read[u].seq <= seq /\ read[u].seq # seq + 1
  <2>1. \A u \in Threads : read[u].seq \in Nat /\ seq \in Nat /\ read[u].seq <= seq
    BY ReadFields DEF CacheTypeOK, ReadOK
  <2>q. QED BY <2>1
<1>7. FetchesApart'
  BY <1>1, <1>2, <1>6, NewNumber
<1>q. QED BY <1>3, <1>4, <1>5, <1>7

LEMMA StartReadInv ==
  ASSUME CacheInv, CacheTypeOK', NEW t \in Threads, NEW k \in Caches, NEW fresh \in BOOLEAN,
         StartRead(t, k, fresh)
  PROVE  CacheInv'
<1> USE DEF CacheInv
<1>1. /\ UNCHANGED <<ver, sent, epoch, seq, cache, fetching, acked>>
      /\ \A u \in Threads \ {t} : read'[u] = read[u]
      /\ read'[t] = [NoRead EXCEPT !.at = "look", !.of = k, !.fresh = fresh,
                                   !.floor = IF fresh THEN ver ELSE acked]
  BY DEF StartRead, CacheTypeOK
<1>2. /\ read'[t].at = "look" /\ read'[t].fresh = fresh /\ read'[t].epoch = 0 /\ read'[t].seq = 0
      /\ read'[t].floor = (IF fresh THEN ver ELSE acked) /\ read'[t].copy = Empty
  BY <1>1 DEF NoRead
<1>3. VersionsOK'
  BY <1>1 DEF VersionsOK
<1>4. ReadOK(t)'
  BY <1>1, <1>2 DEF ReadOK, Empty, CacheTypeOK, VersionsOK
<1>5. \A u \in Threads \ {t} : ReadOK(u)'
  BY <1>1, OthersKeep
<1>6. FetchesApart'
  BY <1>1, <1>2, StillApart
<1>q. QED BY <1>3, <1>4, <1>5, <1>6

\* A value served from the cache, or from the copy taken of it.
LEMMA ReadServedInv ==
  ASSUME CacheInv, CacheTypeOK', NEW t \in Threads, Hit(t) \/ HitAfterWait(t) \/ RideOut(t)
  PROVE  CacheInv'
<1> USE DEF CacheInv
<1>0. read[t] \in Reads /\ read[t].of \in Caches /\ cache[read[t].of] \in Cached /\ read[t].copy \in Cached
      /\ read[t].floor \in Nat /\ acked \in Nat
  BY ReadFields DEF CacheTypeOK
<1>1. UNCHANGED <<ver, sent, epoch, seq, cache, acked>> /\ read[t].floor <= acked
  BY <1>0 DEF Hit, HitAfterWait, RideOut, ReadOK
<1>2. CASE Hit(t) \/ HitAfterWait(t)
  <2>1. cache[read[t].of].ver \in Nat /\ cache[read[t].of].ver >= acked
    BY <1>0, <1>2 DEF Hit, HitAfterWait, Usable, VersionsOK, Cached
  <2>2. cache[read[t].of].ver >= read[t].floor
    BY <1>0, <1>1, <2>1
  <2>q. QED BY <1>1, <1>2, <2>1, <2>2, EndsInv DEF Hit, HitAfterWait
<1>3. CASE RideOut(t)
  <2>1. read[t].copy.ver \in Nat /\ read[t].copy.ver >= acked
    BY <1>0, <1>3 DEF RideOut, Usable, ReadOK, Cached
  <2>2. read[t].copy.ver >= read[t].floor
    BY <1>0, <1>1, <2>1
  <2>q. QED BY <1>1, <1>3, <2>1, <2>2, EndsInv DEF RideOut
<1>q. QED BY <1>2, <1>3

\* A read that waits, fetches or gives up.
LEMMA MissInv ==
  ASSUME CacheInv, CacheTypeOK', NEW t \in Threads, Miss(t)
  PROVE  CacheInv'
<1> USE DEF CacheInv
<1>0. read[t] \in Reads
  BY DEF CacheTypeOK
<1>1. /\ UNCHANGED <<ver, sent, epoch, seq, cache, fetching, acked>>
      /\ \A u \in Threads \ {t} : read'[u] = read[u]
      /\ read'[t] = [read[t] EXCEPT !.at = "wait"]
  BY DEF Miss, CacheTypeOK
<1>2. /\ read'[t].at = "wait" /\ read'[t].of = read[t].of /\ read'[t].fresh = read[t].fresh
      /\ read'[t].copy = read[t].copy /\ read'[t].epoch = read[t].epoch /\ read'[t].seq = read[t].seq
      /\ read'[t].floor = read[t].floor
  BY <1>0, <1>1 DEF Reads
<1>3. VersionsOK' /\ ReadOK(t)'
  BY <1>1, <1>2 DEF VersionsOK, ReadOK
<1>4. \A u \in Threads \ {t} : ReadOK(u)'
  BY <1>1, OthersKeep
<1>5. FetchesApart'
  BY <1>1, <1>2, StillApart
<1>q. QED BY <1>3, <1>4, <1>5

LEMMA TakeFetchLockInv ==
  ASSUME CacheInv, CacheTypeOK', NEW t \in Threads, TakeFetchLock(t)
  PROVE  CacheInv'
<1> USE DEF CacheInv
<1>0. read[t] \in Reads /\ read[t].of \in Caches /\ cache[read[t].of] \in Cached
  BY ReadFields DEF CacheTypeOK
<1>1. /\ UNCHANGED <<ver, sent, epoch, seq, cache, acked>>
      /\ \A u \in Threads \ {t} : read'[u] = read[u]
      /\ read'[t] = [read[t] EXCEPT !.copy = cache[read[t].of], !.epoch = epoch,
                                    !.at = IF read[t].of = "state" THEN "number" ELSE "ask"]
      /\ fetching[read[t].of] = Idle /\ fetching' = [fetching EXCEPT ![read[t].of] = t]
  BY DEF TakeFetchLock, CacheTypeOK
<1>2. /\ read'[t].at = (IF read[t].of = "state" THEN "number" ELSE "ask") /\ read'[t].of = read[t].of
      /\ read'[t].fresh = read[t].fresh /\ read'[t].copy = cache[read[t].of] /\ read'[t].epoch = epoch
      /\ read'[t].seq = read[t].seq /\ read'[t].floor = read[t].floor
  BY <1>0, <1>1 DEF Reads
<1>3. VersionsOK'
  BY <1>1 DEF VersionsOK
<1>4. ReadOK(t)'
  BY <1>0, <1>1, <1>2 DEF ReadOK, VersionsOK, CacheTypeOK
<1>5. \A u \in Threads \ {t} : ReadOK(u)'
  BY <1>1, OthersKeep
<1>6. CASE read[t].of = "state"
  <2>1. fetching'["fills"] = fetching["fills"]
    BY <1>1, <1>6, NoReadType DEF CacheTypeOK
  <2>q. QED BY <1>1, <1>2, <1>3, <1>4, <1>5, <1>6, <2>1, StillApart
<1>7. CASE read[t].of = "fills"
  <2>1. \A u \in Threads \ {t} : ~Fetching(u, "fills")
    BY <1>1, <1>7, CacheBounds DEF FetchesApart
  <2>2. \A u \in Threads \ {t} : ~Fetching(u, "fills")' /\ (Fetching(u, "state")' <=> Fetching(u, "state"))
    BY <1>1, <2>1 DEF Fetching
  <2>3. fetching'["fills"] = t /\ ~Fetching(t, "state")'
    BY <1>1, <1>2, <1>7, NoReadType DEF CacheTypeOK, Fetching
  <2>4. FetchesApart'
    BY <1>1, <2>2, <2>3 DEF FetchesApart
  <2>q. QED BY <1>3, <1>4, <1>5, <2>4
<1>q. QED BY <1>0, <1>6, <1>7 DEF Caches

LEMMA TakeNumberInv ==
  ASSUME CacheInv, CacheTypeOK', NEW t \in Threads, TakeNumber(t)
  PROVE  CacheInv'
<1> USE DEF CacheInv
<1>0. read[t] \in Reads
  BY DEF CacheTypeOK
<1>1. /\ UNCHANGED <<ver, sent, epoch, cache, fetching, acked>> /\ seq' = seq + 1
      /\ \A u \in Threads \ {t} : read'[u] = read[u]
      /\ read'[t] = [read[t] EXCEPT !.at = "ask", !.seq = seq + 1]
  BY DEF TakeNumber, CacheTypeOK
<1>2. /\ read'[t].at = "ask" /\ read'[t].of = read[t].of /\ read'[t].fresh = read[t].fresh
      /\ read'[t].copy = read[t].copy /\ read'[t].epoch = read[t].epoch /\ read'[t].seq = seq + 1
      /\ read'[t].floor = read[t].floor
  BY <1>0, <1>1 DEF Reads
<1>8. read[t].of = "state"
  BY DEF TakeNumber, ReadOK
<1>3. VersionsOK'
  BY <1>1 DEF VersionsOK
<1>4. ReadOK(t)'
  BY <1>1, <1>2, <1>8 DEF ReadOK, CacheTypeOK
<1>5. \A u \in Threads \ {t} : ReadOK(u)'
  BY <1>1, OthersKeep
<1>6. \A u \in Threads \ {t} : read'[u] = read[u] /\ read[u].seq # seq + 1
  <2>1. \A u \in Threads : read[u].seq \in Nat /\ seq \in Nat /\ read[u].seq <= seq
    BY ReadFields DEF CacheTypeOK, ReadOK
  <2>q. QED BY <1>1, <2>1
<1>7. FetchesApart'
  BY <1>1, <1>2, <1>6, <1>8, NewNumber
<1>q. QED BY <1>3, <1>4, <1>5, <1>7

LEMMA FetchInv ==
  ASSUME CacheInv, CacheTypeOK', NEW t \in Threads, Fetch(t)
  PROVE  CacheInv'
<1> USE DEF CacheInv
<1>0. read[t] \in Reads /\ read[t].at = "ask" /\ read[t].of \in Caches
  BY ReadFields DEF CacheTypeOK, Fetch
<1>1. /\ UNCHANGED <<ver, sent, epoch, seq, cache, fetching, acked>>
      /\ \A u \in Threads \ {t} : read'[u] = read[u]
      /\ read'[t] = [read[t] EXCEPT !.at = "store", !.got = ver]
  BY DEF Fetch, CacheTypeOK
<1>2. /\ read'[t].at = "store" /\ read'[t].of = read[t].of /\ read'[t].fresh = read[t].fresh
      /\ read'[t].copy = read[t].copy /\ read'[t].epoch = read[t].epoch /\ read'[t].seq = read[t].seq
      /\ read'[t].floor = read[t].floor /\ read'[t].got = ver
  BY <1>0, <1>1 DEF Reads
<1>3. VersionsOK'
  BY <1>1 DEF VersionsOK
<1>4. ReadOK(t)'
  BY <1>1, <1>2, NoReadType DEF ReadOK, VersionsOK, CacheTypeOK
<1>5. \A u \in Threads \ {t} : ReadOK(u)'
  BY <1>1, OthersKeep
<1>6. \A u \in Threads : \A k \in Caches :
        (Fetching(u, k)' <=> Fetching(u, k)) /\ read'[u].seq = read[u].seq
  BY <1>0, <1>1, <1>2 DEF Fetching
<1>7. FetchesApart'
  BY <1>1, <1>6, NoReadType DEF FetchesApart
<1>q. QED BY <1>3, <1>4, <1>5, <1>7

LEMMA FetchFailsInv ==
  ASSUME CacheInv, CacheTypeOK', NEW t \in Threads, FetchFails(t) \/ Return(t)
  PROVE  CacheInv'
<1>1. \A u \in Threads \ {t} : fetching["fills"] = u => fetching'["fills"] = u
  BY NoReadType DEF FetchFails, Return
<1>q. QED BY <1>1, BlankRead DEF FetchFails, Return

\* A fetched value is stored, if it is of this epoch and of the last number.
LEMMA StoreInv ==
  ASSUME CacheInv, CacheTypeOK', NEW t \in Threads, Store(t)
  PROVE  CacheInv' /\ \A k \in Caches : cache'[k].ver >= cache[k].ver
<1> USE DEF CacheInv
<1>0. /\ read[t] \in Reads /\ read[t].at = "store" /\ read[t].of \in Caches /\ read[t].got \in Nat
      /\ read[t].got >= read[t].floor /\ read[t].got <= ver
      /\ Ends(t, read[t].got) /\ UNCHANGED <<ver, sent, epoch, seq, acked>>
      /\ \A k \in Caches : cache[k].ver \in Nat
  BY ReadFields DEF CacheTypeOK, Store, ReadOK, Cached
<1>1. CASE read[t].epoch = epoch /\ (read[t].of = "state" => read[t].seq = seq)
  <2>1. cache' = [cache EXCEPT ![read[t].of] = [full |-> TRUE, ver |-> read[t].got, epoch |-> epoch]]
    BY <1>1 DEF Store, StoreIn
  <2>2. /\ cache'[read[t].of].full /\ cache'[read[t].of].ver = read[t].got
        /\ cache'[read[t].of].epoch = epoch
        /\ \A k \in Caches : k # read[t].of => cache'[k] = cache[k]
    BY <1>0, <2>1 DEF CacheTypeOK
  <2>3. cache[read[t].of].ver <= read[t].got /\ read[t].got >= acked
    BY <1>0, <1>1 DEF ReadOK, Caches
  <2>4. \A k \in Caches : cache'[k].ver >= cache[k].ver
    BY <1>0, <2>2, <2>3
  <2>5. VersionsOK'
    BY <1>0, <2>2, <2>3 DEF VersionsOK, CacheTypeOK
  <2>6. ReadOK(t)'
    BY <1>0, EndsRead DEF ReadOK
  <2>7. ASSUME NEW u \in Threads \ {t}
        PROVE  ReadOK(u)'
    <3>1. read'[u] = read[u]
      BY <1>0, EndsRead
    <3>2. CASE read[t].of = "state"
      <4>1. cache'["fills"] = cache["fills"]
        BY <2>2, <3>2, NoReadType
      <4>2. ~(read[u].at = "store" /\ read[u].of = "state" /\ read[u].seq = seq)
        BY <1>0, <1>1, <3>2 DEF FetchesApart, Fetching
      <4>q. QED BY <1>0, <3>1, <4>1, <4>2 DEF ReadOK
    <3>3. CASE read[t].of = "fills"
      <4>1. cache'["state"] = cache["state"]
        BY <2>2, <3>3, NoReadType
      <4>2. ~(read[u].at = "store" /\ read[u].of = "fills")
        BY <1>0, <3>3 DEF FetchesApart, Fetching
      <4>q. QED BY <1>0, <3>1, <4>1, <4>2 DEF ReadOK
    <3>q. QED BY <1>0, <3>2, <3>3 DEF Caches
  <2>8. FetchesApart'
    BY <1>0, EndsRead, StillApart
  <2>q. QED BY <2>4, <2>5, <2>6, <2>7, <2>8
<1>2. CASE ~(read[t].epoch = epoch /\ (read[t].of = "state" => read[t].seq = seq))
  <2>1. UNCHANGED cache
    BY <1>2 DEF Store
  <2>2. CacheInv'
    BY <1>0, <2>1, EndsInv
  <2>3. \A k \in Caches : cache'[k].ver >= cache[k].ver
    BY <1>0, <2>1
  <2>q. QED BY <2>2, <2>3
<1>q. QED BY <1>1, <1>2

\* Orders: the account moves on, and an acknowledgement starts a new epoch.
LEMMA AccountMovesInv ==
  ASSUME CacheInv, CacheTypeOK', OthersMove \/ OrderExecutes \/ Unacknowledged
  PROVE  CacheInv'
<1> USE DEF CacheInv
<1>1. /\ UNCHANGED <<epoch, seq, cache, fetching, read, acked>> /\ ver' >= ver
      /\ ver \in Nat /\ ver' \in Nat
      /\ sent' \in {0, sent, ver'}
  BY DEF OthersMove, OrderExecutes, Unacknowledged, CacheTypeOK
<1>2. VersionsOK'
  <2>1. \A k \in Caches : cache[k].ver \in Nat
    BY DEF CacheTypeOK, Cached
  <2>q. QED BY <1>1, <2>1 DEF VersionsOK, CacheTypeOK
<1>3. ASSUME NEW t \in Threads
      PROVE  ReadOK(t)'
  <2>1. read[t].floor \in Nat /\ read[t].got \in Nat
    BY ReadFields DEF CacheTypeOK
  <2>2. read[t].floor <= ver' /\ (read[t].got <= ver => read[t].got <= ver')
    BY <1>1, <2>1 DEF ReadOK
  <2>q. QED BY <1>1, <2>2 DEF ReadOK
<1>4. FetchesApart'
  BY <1>1 DEF FetchesApart, Fetching
<1>q. QED BY <1>2, <1>3, <1>4

LEMMA AcknowledgedInv ==
  ASSUME CacheInv, CacheTypeOK', Acknowledged
  PROVE  CacheInv' /\ \A k \in Caches : cache'[k].ver >= cache[k].ver
<1> USE DEF CacheInv
<1>1. /\ UNCHANGED <<ver, seq, fetching, read>> /\ acked' = sent /\ sent' = 0 /\ epoch' = epoch + 1
      /\ epoch \in Nat /\ sent \in Nat /\ ver \in Nat /\ acked \in Nat
  BY DEF Acknowledged, CacheTypeOK
<1>2. \A k \in Caches : /\ cache[k].ver \in Nat /\ cache[k].epoch \in Nat
                        /\ cache'[k].ver = cache[k].ver /\ cache'[k].epoch = cache[k].epoch
                        /\ ~cache'[k].full
  BY DEF Acknowledged, CacheTypeOK, Cached
<1>3. VersionsOK'
  BY <1>1, <1>2 DEF VersionsOK, Acknowledged
<1>4. ASSUME NEW t \in Threads
      PROVE  ReadOK(t)'
  <2>1. /\ read[t].epoch \in Nat /\ read[t].copy.epoch \in Nat /\ read[t].floor \in Nat
        /\ read[t].epoch <= epoch /\ read[t].copy.epoch <= epoch /\ acked <= acked'
    BY <1>1, ReadFields DEF CacheTypeOK, ReadOK, VersionsOK, Acknowledged
  <2>2. /\ read[t].epoch <= epoch' /\ read[t].copy.epoch <= epoch'
        /\ read[t].epoch # epoch' /\ read[t].copy.epoch # epoch'
    BY <1>1, <2>1
  <2>3. ~read[t].fresh => read[t].floor <= acked'
    BY <1>1, <2>1 DEF ReadOK
  <2>q. QED BY <1>1, <1>2, <2>2, <2>3, NoReadType DEF ReadOK
<1>5. FetchesApart'
  BY <1>1 DEF FetchesApart, Fetching
<1>6. \A k \in Caches : cache'[k].ver >= cache[k].ver
  BY <1>2
<1>q. QED BY <1>3, <1>4, <1>5, <1>6

\* A step of a read or of the account.
LEMMA CacheInvStep ==
  ASSUME CacheInv, [CacheNext]_cacheVars
  PROVE  CacheInv' /\ \A k \in Caches : cache'[k].ver >= cache[k].ver
<1>0. CASE UNCHANGED cacheVars
  <2>1. \A k \in Caches : cache[k].ver \in Nat
    BY DEF CacheInv, CacheTypeOK, Cached
  <2>q. QED BY <1>0, <2>1
       DEF cacheVars, CacheInv, CacheTypeOK, VersionsOK, ReadOK, FetchesApart, Fetching
<1>1. CASE CacheNext
  <2>0. CacheTypeOK' /\ \A k \in Caches : cache[k].ver \in Nat
    BY <1>1, CacheTypeStep DEF CacheInv, CacheTypeOK, Cached
  <2>1. ASSUME NEW t \in Threads, Store(t)
        PROVE  CacheInv' /\ \A k \in Caches : cache'[k].ver >= cache[k].ver
    BY <2>0, <2>1, StoreInv
  <2>2. ASSUME NEW t \in Threads, ReadStep(t), ~Store(t)
        PROVE  CacheInv' /\ UNCHANGED cache
    <3>1. CASE StartFresh(t)
      BY <2>0, <3>1, StartFreshInv DEF StartFresh
    <3>2. CASE Hit(t) \/ HitAfterWait(t) \/ RideOut(t)
      BY <2>0, <3>2, ReadServedInv DEF Hit, HitAfterWait, RideOut
    <3>3. CASE Miss(t)
      BY <2>0, <3>3, MissInv DEF Miss
    <3>4. CASE TakeFetchLock(t)
      BY <2>0, <3>4, TakeFetchLockInv DEF TakeFetchLock
    <3>5. CASE TakeNumber(t)
      BY <2>0, <3>5, TakeNumberInv DEF TakeNumber
    <3>6. CASE Fetch(t)
      BY <2>0, <3>6, FetchInv DEF Fetch
    <3>7. CASE FetchFails(t) \/ Return(t)
      BY <2>0, <3>7, FetchFailsInv DEF FetchFails, Return
    <3>8. CASE \E k \in Caches, fresh \in BOOLEAN : StartRead(t, k, fresh)
      BY <2>0, <3>8, StartReadInv DEF StartRead
    <3>q. QED BY <2>2, <3>1, <3>2, <3>3, <3>4, <3>5, <3>6, <3>7, <3>8 DEF ReadStep
  <2>3. CASE OthersMove \/ OrderExecutes \/ Unacknowledged
    <3>1. CacheInv'
      BY <2>0, <2>3, AccountMovesInv
    <3>2. UNCHANGED cache
      BY <2>3 DEF OthersMove, OrderExecutes, Unacknowledged
    <3>q. QED BY <2>0, <3>1, <3>2
  <2>4. CASE Acknowledged
    BY <2>0, <2>4, AcknowledgedInv
  <2>5. ASSUME CacheInv', UNCHANGED cache
        PROVE  \A k \in Caches : cache'[k].ver >= cache[k].ver
    BY <2>0, <2>5
  <2>q. QED BY <1>1, <2>1, <2>2, <2>3, <2>4, <2>5 DEF CacheNext
<1>q. QED BY <1>0, <1>1

-----------------------------------------------------------------------------
\* Every step of the threads and of the account keeps the types of caches and reads.
THEOREM CacheTyped == CacheSpec => []CacheTypeOK
<1>1. CacheInv => CacheTypeOK
  BY DEF CacheInv
<1>2. CacheInv /\ [CacheNext]_cacheVars => CacheInv'
  BY CacheInvStep
<1>q. QED BY <1>1, <1>2, CacheInvInit, PTL DEF CacheSpec

\* Every read is as new as what it must have seen, however many reads overlap.
THEOREM ReadsAreCurrent == CacheSpec => []ReadsSeeTrades
<1>1. CacheInv => ReadsSeeTrades
  BY DEF CacheInv, ReadsSeeTrades, ReadOK
<1>2. CacheInv /\ [CacheNext]_cacheVars => CacheInv'
  BY CacheInvStep
<1>q. QED BY <1>1, <1>2, CacheInvInit, PTL DEF CacheSpec

\* A cached account is never replaced by an older one.
THEOREM CacheOnlyForward == CacheSpec => CacheNeverBack
<1>1. CacheInv /\ [CacheNext]_cacheVars =>
        [\A k \in Caches : cache'[k].ver >= cache[k].ver]_cacheVars
  BY CacheInvStep
<1>2. CacheInv /\ [CacheNext]_cacheVars => CacheInv'
  BY CacheInvStep
<1>q. QED BY <1>1, <1>2, CacheInvInit, PTL DEF CacheSpec, CacheNeverBack

================================================================================
