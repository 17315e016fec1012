--------------------------- MODULE StopMoveProofs ---------------------------
(***************************************************************************)
(* Proofs about StopMove: types, and its four safety action properties,    *)
(* from one inductive invariant in three layers: who holds the lock and    *)
(* what locals a request has (Control), what the monitor's move rests on   *)
(* (Automatic), and what is known of the new and the old stops (Cover).    *)
(***************************************************************************)
EXTENDS StopMove, TLAPS

\* Steps in which a request holds the trade lock.
Locked == {"row", "hold", "mark", "stops", "hold2", "mark2", "sig", "send",
           "await", "verify", "vhold", "cancel"}
\* Steps after the position was read; after the old stops were read; after
\* the new stop was sent.
Sized == {"mark", "stops", "hold2", "mark2", "sig", "send", "await", "verify", "vhold", "cancel"}
Listed == {"hold2", "mark2", "sig", "send", "await", "verify", "vhold", "cancel"}
Sent == {"await", "verify", "vhold", "cancel"}
\* Steps of an automatic move; those between its row check and its placement.
Moving == Locked \cup {"wait", "latch"}
Checked == {"hold", "mark", "stops", "hold2", "mark2", "sig", "send"}

LockHeld == \A c \in Clients : pc[c] \in Locked => lock = c
SizeRead == \A c \in Clients : pc[c] \in Sized => size[c] > 0
NoLocals == \A c \in Clients :
  /\ pc[c] \notin Listed => old[c] = {}
  /\ pc[c] \notin Sent => new[c] = NoStop
UsersMove == \A u \in Users : pc[u] \notin {"absent", "baseline", "water", "decide", "row", "sig", "latch"}
Attempting == pc[Monitor] \in Moving => attempts < BeMaxAttempts
Control == LockHeld /\ SizeRead /\ NoLocals /\ UsersMove /\ Attempting

RuleArmed == pc[Monitor] \in Checked => plan.rule \in mgmt.armed
NotPaused == pc[Monitor] \in Checked /\ plan.rule = "auto_trail" => ~Paused(mgmt)
HeldIsOverride == (\A u \in Users : pc[u] # "cancel") => held = mgmt.override
SamePosition == pc[Monitor] = "send" /\ Monitor \notin shaken => epoch = plan.sig
Backoff ==
  /\ unknown => attempts = BeMaxAttempts
  /\ pc[Monitor] = "latch" => blind = 0
  /\ blind <= IF pc[Monitor] \in Sent THEN attempts + 1 ELSE attempts
Automatic == RuleArmed /\ NotPaused /\ HeldIsOverride /\ SamePosition /\ Backoff

\* An id names one order, resting or in flight.
UniqueIds ==
  /\ \A s, t \in stops \cup flight : s.id = t.id => s = t
  /\ \A s \in flight : s \notin stops
NewStop ==
  \A c \in Clients : \A s \in stops \cup flight :
    s.id = new[c] => s.px >= want[c] /\ new[c] \notin old[c]
OldStops == \A c \in Clients : \A s \in stops \cup flight : s.id \in old[c] => s.px <= want[c]
NewCovers ==
  \A c \in Clients : pc[c] \in {"vhold", "cancel"} /\ c \notin shaken =>
    \E s \in stops : s.id = new[c] /\ s.vol >= size[c]
HoldCovered ==
  \A c \in Clients : pc[c] = "cancel" /\ c \notin shaken => hold <= size[c]
Cover == UniqueIds /\ NewStop /\ OldStops /\ NewCovers /\ HoldCovered

-----------------------------------------------------------------------------
(* Helpers *)

\* Rounding up to a multiple of a step.
LEMMA StepUp ==
  ASSUME NEW w \in Nat, NEW t \in Nat \ {0}
  PROVE  ((w + t - 1) \div t) * t \in Nat /\ ((w + t - 1) \div t) * t >= w
<1>1. (w + t - 1) \div t \in Int BY SMT
<1>2. w + t - 1 = t * ((w + t - 1) \div t) + ((w + t - 1) % t) BY SMT
<1>3. (w + t - 1) % t \in 0..(t - 1) BY SMT
<1> QED BY <1>1, <1>2, <1>3, SMT

\* A stop rests at the next multiple of Tick, never below the price asked.
LEMMA RoundedUp == ASSUME NEW px \in Nat PROVE Rounded(px) \in Nat /\ Rounded(px) >= px
BY StepUp, PricesAssumption DEF Rounded

\* Clearing the attempts keeps them typed.
LEMMA ResetTyped ==
  ASSUME ResetBackoff
  PROVE  attempts' \in 0..BeMaxAttempts /\ unknown' \in BOOLEAN /\ blind' \in Nat
<1>1. attempts' \in 0..BeMaxAttempts /\ blind' \in Nat BY BoundsAssumption DEF ResetBackoff
<1>2. unknown' \in BOOLEAN BY Zenon DEF ResetBackoff
<1> QED BY <1>1, <1>2

\* ensure_baseline keeps the row typed, and the high water of the last manual
\* move equal to the override wherever it was.
LEMMA BaselineEffect ==
  ASSUME mgmt \in Rows, served \in Nat, held \in Nat,
         NEW enable \in SUBSET AllRules, EnsureBaseline(enable)
  PROVE  /\ mgmt' \in Rows /\ held' \in Nat
         /\ held = mgmt.override => held' = mgmt'.override
<1> USE DEF Rows
<1>1. PICK sig \in {0, served} : \E row \in Baselines(sig) :
        /\ mgmt' = [row EXCEPT !.armed = @ \cup enable]
        /\ held' = IF row.hw = mgmt.hw /\ row.override = mgmt.override THEN held ELSE 0
  BY DEF EnsureBaseline
<1>2. PICK row \in Baselines(sig) :
        /\ mgmt' = [row EXCEPT !.armed = @ \cup enable]
        /\ held' = IF row.hw = mgmt.hw /\ row.override = mgmt.override THEN held ELSE 0
  BY <1>1
<1>3. /\ row \in Rows
      /\ row.override = 0 \/ (row.hw = mgmt.hw /\ row.override = mgmt.override)
  <2>1. CASE row = FreshRow(sig)
    BY <1>1, <2>1, PricesAssumption DEF FreshRow, Prices, AllRules
  <2>2. CASE mgmt.open /\ row = [mgmt EXCEPT !.sig = sig, !.hw = Entry, !.override = 0]
    <3>1. sig \in Nat /\ Entry \in Nat BY <1>1, PricesAssumption DEF Prices
    <3>2. [mgmt EXCEPT !.sig = sig] \in Rows BY <3>1
    <3>3. [[mgmt EXCEPT !.sig = sig] EXCEPT !.hw = Entry] \in Rows BY <3>1, <3>2
    <3>4. row = [[[mgmt EXCEPT !.sig = sig] EXCEPT !.hw = Entry] EXCEPT !.override = 0]
      BY <2>2
    <3> QED BY <3>3, <3>4
  <2>3. CASE mgmt.open /\ row = [mgmt EXCEPT !.sig = IF @ = 0 THEN sig ELSE @]
    BY <1>1, <2>3, PricesAssumption DEF Prices, AllRules
  <2> QED BY <1>2, <2>1, <2>2, <2>3 DEF Baselines
<1>4. mgmt' \in Rows BY <1>2, <1>3
<1>5. held' \in Nat /\ (held = mgmt.override => held' = mgmt'.override) BY <1>2, <1>3
<1> QED BY <1>4, <1>5

-----------------------------------------------------------------------------
(* One step keeps each layer *)

\* One request holds the lock at a time, with the locals of its step.
LEMMA ControlStep ==
  ASSUME TypeOK, Control
  PROVE  [Next]_vars => Control'
<1> USE ClientsAssumption, BoundsAssumption DEF Control, LockHeld, SizeRead, NoLocals,
   UsersMove, Attempting, Locked, Sized, Listed, Sent, Moving, TypeOK, Clients, vars, exchange,
   request, automation
<1>1. ASSUME NEW u \in Users, NEW px \in Prices, StartMove(u, px) PROVE Control'
     BY <1>1 DEF StartMove, Goto
<1>2. ASSUME NEW c \in Clients, Acquire(c) PROVE Control'
     BY <1>2 DEF Acquire, Goto
<1>3. ASSUME NEW c \in Clients, Fail(c) PROVE Control'
     BY <1>3 DEF Fail, EndMove, ClearRequest, Goto
<1>4. ASSUME NEW c \in Clients, ReadHold(c) PROVE Control'
     BY <1>4 DEF ReadHold, Goto
<1>5. ASSUME NEW c \in Clients, ReadMark(c) PROVE Control'
     BY <1>5 DEF ReadMark, Goto
<1>6. ASSUME NEW c \in Clients, ReadStops(c) PROVE Control'
     BY <1>6 DEF ReadStops, Goto, Ids, NeverLoosens
<1>7. ASSUME NEW c \in Clients, SendStop(c) PROVE Control'
     BY <1>7 DEF SendStop, Goto, FreeIds, Ids
<1>8. ASSUME NEW c \in Clients, ReplyPlaced(c) PROVE Control'
     BY <1>8 DEF ReplyPlaced, Goto
<1>9. ASSUME NEW c \in Clients, ReplyRejected(c) PROVE Control'
     BY <1>9 DEF ReplyRejected, EndMove, ClearRequest, Goto, Ids
<1>10. ASSUME NEW c \in Clients, ReplyWithoutId(c) PROVE Control'
     BY <1>10 DEF ReplyWithoutId, EndMove, ClearRequest, Goto
<1>11. ASSUME NEW c \in Clients, ReplyUncertain(c) PROVE Control'
     BY <1>11 DEF ReplyUncertain, EndMove, ClearRequest, Goto
<1>12. ASSUME NEW c \in Clients, VerifyMiss(c) PROVE Control'
     BY <1>12 DEF VerifyMiss, Goto
<1>13. ASSUME NEW c \in Clients, VerifyHit(c) PROVE Control'
     BY <1>13 DEF VerifyHit, Goto
<1>14. ASSUME NEW c \in Clients, CoversPosition(c) PROVE Control'
     BY <1>14 DEF CoversPosition, Verified, Goto
<1>15. ASSUME NEW c \in Clients, Unverified(c) PROVE Control'
     BY <1>15 DEF Unverified, EndMove, ClearRequest, Goto
<1>16. ASSUME NEW c \in Clients, CancelOld(c) PROVE Control'
     BY <1>16 DEF CancelOld
<1>17. ASSUME NEW c \in Clients, RecordOverride(c) PROVE Control'
     BY <1>17 DEF RecordOverride, ClearRequest, Goto
<1>18. ASSUME CheckRow PROVE Control'
     BY <1>18 DEF CheckRow, Goto
<1>19. ASSUME ReadSignature PROVE Control'
     BY <1>19 DEF ReadSignature, Goto
<1>20. ASSUME FinishAutomatic PROVE Control'
     BY <1>20 DEF FinishAutomatic, ClearRequest, Goto
<1>21. ASSUME NEW r \in Rules, Arm(r) PROVE Control'
     BY <1>21 DEF Arm, ResetBackoff
<1>22. ASSUME NEW r \in Rules, Disarm(r) PROVE Control'
     BY <1>22 DEF Disarm, ResetBackoff
<1>23. ASSUME KillSwitch PROVE Control'
     BY <1>23 DEF KillSwitch, ResetBackoff
<1>24. ASSUME MonitorVisit \/ MonitorBaseline \/ MonitorHighWater \/ MonitorIdles \/
   MonitorMisses \/ AbsenceForgiven \/ CloseRow
      PROVE  Control'
     BY <1>24 DEF MonitorVisit, Goto, MonitorBaseline, MonitorHighWater, MonitorIdles,
        MonitorMisses, AbsenceForgiven, CloseRow, ResetBackoff
<1>25. ASSUME Latch PROVE Control'
     BY <1>25 DEF Latch, EndMove, ClearRequest, Goto
<1>26. ASSUME NEW r \in Rules, NEW px \in Prices, MonitorDecide(r, px) PROVE Control'
     BY <1>26 DEF MonitorDecide, Goto, Halted
<1>27. ASSUME (\E s \in flight : Accept(s)) \/ (\E s \in flight : Vanish(s)) \/ (\E s \in stops
   : Fire(s)) \/ (\E s \in stops : OthersCancel(s)) \/ OthersPlace \/ Grow \/ Shrink \/
   FillsServed \/ PriceMoves \/ UNCHANGED vars
      PROVE  Control'
     BY <1>27 DEF Accept, Vanish, Fire, Placers, OthersCancel, OthersPlace, FreeIds, Ids, Grow,
        Shrink, FillsServed, PriceMoves
<1>28. ASSUME Restart PROVE Control'
     BY <1>28 DEF Restart, ResetBackoff
<1> QED BY <1>1, <1>2, <1>3, <1>4, <1>5, <1>6, <1>7, <1>8, <1>9, <1>10, <1>11, <1>12, <1>13,
   <1>14, <1>15, <1>16, <1>17, <1>18, <1>19, <1>20, <1>21, <1>22, <1>23, <1>24, <1>25, <1>26,
   <1>27, <1>28 DEF Next, Move, Controls, Automation, Environment

\* Types are kept: no count passes its bound, no stop is of no size.
LEMMA TypeStep ==
  ASSUME TypeOK, Control
  PROVE  [Next]_vars => TypeOK'
<1> USE ClientsAssumption, BoundsAssumption DEF TypeOK, Steps, Stops, Rows, AllRules, Clients,
   Prices, Control, SizeRead, Attempting, Sized, Moving, Locked, vars, exchange, request,
   automation
<1>1. ASSUME NEW u \in Users, NEW px \in Prices, StartMove(u, px) PROVE TypeOK'
     BY <1>1 DEF StartMove, Goto
<1>2. ASSUME NEW c \in Clients, Acquire(c) PROVE TypeOK'
     BY <1>2 DEF Acquire, Goto
<1>3. ASSUME NEW c \in Clients, Fail(c) PROVE TypeOK'
     BY <1>3 DEF Fail, EndMove, ClearRequest, Goto
<1>4. ASSUME NEW c \in Clients, ReadHold(c) PROVE TypeOK'
     BY <1>4 DEF ReadHold, Goto
<1>5. ASSUME NEW c \in Clients, ReadMark(c) PROVE TypeOK'
     BY <1>5 DEF ReadMark, Goto
<1>6. ASSUME NEW c \in Clients, ReadStops(c) PROVE TypeOK'
     BY <1>6 DEF ReadStops, Goto, Ids, NeverLoosens
<1>7. ASSUME NEW c \in Clients, SendStop(c) PROVE TypeOK'
  <2>1. want[c] \in Nat /\ size[c] \in Nat \ {0} BY <1>7
     DEF SendStop
  <2>2. Rounded(want[c]) \in Nat BY <2>1, RoundedUp
  <2> QED BY <1>7, <2>1, <2>2 DEF SendStop, Goto, FreeIds
<1>8. ASSUME NEW c \in Clients, ReplyPlaced(c) PROVE TypeOK'
     BY <1>8 DEF ReplyPlaced, Goto
<1>9. ASSUME NEW c \in Clients, ReplyRejected(c) PROVE TypeOK'
     BY <1>9 DEF ReplyRejected, EndMove, ClearRequest, Goto, Ids
<1>10. ASSUME NEW c \in Clients, ReplyWithoutId(c) PROVE TypeOK'
     BY <1>10 DEF ReplyWithoutId, EndMove, ClearRequest, Goto
<1>11. ASSUME NEW c \in Clients, ReplyUncertain(c) PROVE TypeOK'
     BY <1>11 DEF ReplyUncertain, EndMove, ClearRequest, Goto
<1>12. ASSUME NEW c \in Clients, VerifyMiss(c) PROVE TypeOK'
     BY <1>12 DEF VerifyMiss, Goto
<1>13. ASSUME NEW c \in Clients, VerifyHit(c) PROVE TypeOK'
     BY <1>13 DEF VerifyHit, Goto
<1>14. ASSUME NEW c \in Clients, CoversPosition(c) PROVE TypeOK'
     BY <1>14 DEF CoversPosition, Verified, Goto
<1>15. ASSUME NEW c \in Clients, Unverified(c) PROVE TypeOK'
     BY <1>15 DEF Unverified, EndMove, ClearRequest, Goto
<1>16. ASSUME NEW c \in Clients, CancelOld(c) PROVE TypeOK'
     BY <1>16 DEF CancelOld
<1>17. ASSUME NEW c \in Clients, RecordOverride(c) PROVE TypeOK'
     BY <1>17 DEF RecordOverride, ClearRequest, Goto
<1>18. ASSUME CheckRow PROVE TypeOK'
     BY <1>18 DEF CheckRow, Goto
<1>19. ASSUME ReadSignature PROVE TypeOK'
     BY <1>19 DEF ReadSignature, Goto
<1>20. ASSUME FinishAutomatic PROVE TypeOK'
     BY <1>20 DEF FinishAutomatic, ClearRequest, Goto
<1>21. ASSUME NEW r \in Rules, Arm(r) PROVE TypeOK'
  <2>1. {r} \in SUBSET AllRules BY RulesAssumption
  <2>2. mgmt' \in Rows /\ held' \in Nat BY <1>21, <2>1, BaselineEffect DEF Arm
  <2> QED BY <1>21, <2>2, ResetTyped DEF Arm
<1>22. ASSUME NEW r \in Rules, Disarm(r) PROVE TypeOK'
     BY <1>22, ResetTyped DEF Disarm
<1>23. ASSUME KillSwitch PROVE TypeOK'
     BY <1>23, ResetTyped DEF KillSwitch
<1>24. ASSUME MonitorVisit PROVE TypeOK'
     BY <1>24 DEF MonitorVisit, Goto
<1>25. ASSUME MonitorBaseline PROVE TypeOK'
  <2>1. mgmt' \in Rows /\ held' \in Nat BY <1>25, BaselineEffect DEF MonitorBaseline
  <2> QED BY <1>25, <2>1 DEF MonitorBaseline, Goto
<1>26. ASSUME MonitorHighWater PROVE TypeOK'
     BY <1>26 DEF MonitorHighWater, Goto
<1>27. ASSUME MonitorIdles PROVE TypeOK'
     BY <1>27 DEF MonitorIdles, Goto
<1>28. ASSUME Latch PROVE TypeOK'
     BY <1>28 DEF Latch, EndMove, ClearRequest, Goto
<1>29. ASSUME MonitorMisses PROVE TypeOK'
     BY <1>29 DEF MonitorMisses, Goto
<1>30. ASSUME AbsenceForgiven PROVE TypeOK'
     BY <1>30 DEF AbsenceForgiven, Goto
<1>31. ASSUME CloseRow PROVE TypeOK'
     BY <1>31, ResetTyped DEF CloseRow, Goto, NoRow
<1>32. ASSUME NEW r \in Rules, NEW px \in Prices, MonitorDecide(r, px) PROVE TypeOK'
     BY <1>32 DEF MonitorDecide, Goto, Halted
<1>33. ASSUME NEW s \in flight, Accept(s) PROVE TypeOK'
     BY <1>33 DEF Accept
<1>34. ASSUME NEW s \in flight, Vanish(s) PROVE TypeOK'
     BY <1>34 DEF Vanish
<1>35. ASSUME (\E s \in stops : Fire(s)) \/ (\E s \in stops : OthersCancel(s)) \/ Grow \/ Shrink
   \/ FillsServed \/ PriceMoves \/ UNCHANGED vars
      PROVE  TypeOK'
     BY <1>35 DEF Fire, Placers, OthersCancel, Grow, Shrink, FillsServed, PriceMoves
<1>36. ASSUME OthersPlace PROVE TypeOK'
  <2>1. \A p \in Prices : Rounded(p) \in Nat BY RoundedUp, PricesAssumption
  <2> QED BY <1>36, <2>1 DEF OthersPlace, FreeIds
<1>37. ASSUME Restart PROVE TypeOK'
     BY <1>37, ResetTyped DEF Restart
<1> QED BY <1>1, <1>2, <1>3, <1>4, <1>5, <1>6, <1>7, <1>8, <1>9, <1>10, <1>11, <1>12, <1>13,
   <1>14, <1>15, <1>16, <1>17, <1>18, <1>19, <1>20, <1>21, <1>22, <1>23, <1>24, <1>25, <1>26,
   <1>27, <1>28, <1>29, <1>30, <1>31, <1>32, <1>33, <1>34, <1>35, <1>36, <1>37 DEF Next, Move,
   Controls, Automation, Environment

\* What an automatic move rests on stays true from its row check on.
LEMMA AutomaticStep ==
  ASSUME TypeOK, Control, Automatic
  PROVE  [Next]_vars => Automatic'
<1> USE ClientsAssumption, BoundsAssumption DEF Automatic, RuleArmed, NotPaused, HeldIsOverride,
   SamePosition, Backoff, Control, LockHeld, UsersMove, Attempting, Moving, Locked, Sent,
   Checked, Paused, TypeOK, Clients, Rows, vars, exchange, request, automation
<1>1. ASSUME NEW u \in Users, NEW px \in Prices, StartMove(u, px) PROVE Automatic'
     BY <1>1 DEF StartMove, Goto
<1>2. ASSUME NEW c \in Clients, Acquire(c) PROVE Automatic'
     BY <1>2 DEF Acquire, Goto
<1>3. ASSUME NEW c \in Clients, Fail(c) PROVE Automatic'
     BY <1>3 DEF Fail, EndMove, ClearRequest, Goto
<1>4. ASSUME NEW c \in Clients, ReadHold(c) PROVE Automatic'
     BY <1>4 DEF ReadHold, Goto
<1>5. ASSUME NEW c \in Clients, ReadMark(c) PROVE Automatic'
     BY <1>5 DEF ReadMark, Goto
<1>6. ASSUME NEW c \in Clients, ReadStops(c) PROVE Automatic'
     BY <1>6 DEF ReadStops, Goto, Ids, NeverLoosens
<1>7. ASSUME NEW c \in Clients, SendStop(c) PROVE Automatic'
     BY <1>7 DEF SendStop, Goto, FreeIds, Ids
<1>8. ASSUME NEW c \in Clients, ReplyPlaced(c) PROVE Automatic'
     BY <1>8 DEF ReplyPlaced, Goto
<1>9. ASSUME NEW c \in Clients, ReplyRejected(c) PROVE Automatic'
     BY <1>9 DEF ReplyRejected, EndMove, ClearRequest, Goto, Ids
<1>10. ASSUME NEW c \in Clients, ReplyWithoutId(c) PROVE Automatic'
     BY <1>10 DEF ReplyWithoutId, EndMove, ClearRequest, Goto
<1>11. ASSUME NEW c \in Clients, ReplyUncertain(c) PROVE Automatic'
     BY <1>11 DEF ReplyUncertain, EndMove, ClearRequest, Goto
<1>12. ASSUME NEW c \in Clients, VerifyMiss(c) PROVE Automatic'
     BY <1>12 DEF VerifyMiss, Goto
<1>13. ASSUME NEW c \in Clients, VerifyHit(c) PROVE Automatic'
     BY <1>13 DEF VerifyHit, Goto
<1>14. ASSUME NEW c \in Clients, CoversPosition(c) PROVE Automatic'
     BY <1>14 DEF CoversPosition, Verified, Goto
<1>15. ASSUME NEW c \in Clients, Unverified(c) PROVE Automatic'
     BY <1>15 DEF Unverified, EndMove, ClearRequest, Goto
<1>16. ASSUME NEW c \in Clients, CancelOld(c) PROVE Automatic'
     BY <1>16 DEF CancelOld
<1>17. ASSUME NEW c \in Clients, RecordOverride(c) PROVE Automatic'
     BY <1>17 DEF RecordOverride, ClearRequest, Goto
<1>18. ASSUME CheckRow PROVE Automatic'
     BY <1>18 DEF CheckRow, Goto
<1>19. ASSUME ReadSignature PROVE Automatic'
     BY <1>19 DEF ReadSignature, Goto
<1>20. ASSUME FinishAutomatic PROVE Automatic'
     BY <1>20 DEF FinishAutomatic, ClearRequest, Goto
<1>21. ASSUME NEW r \in Rules, Arm(r) PROVE Automatic'
  <2>1. {r} \in SUBSET AllRules BY RulesAssumption DEF AllRules
  <2>2. held = mgmt.override => held' = mgmt'.override
    BY <1>21, <2>1, BaselineEffect DEF Arm, Rows
  <2> QED BY <1>21, <2>2 DEF Arm, ResetBackoff
<1>22. ASSUME (\E r \in Rules : Disarm(r)) \/ KillSwitch
      PROVE  Automatic'
     BY <1>22 DEF Disarm, ResetBackoff, KillSwitch
<1>23. ASSUME MonitorVisit \/ MonitorHighWater \/ MonitorIdles \/ MonitorMisses \/
   AbsenceForgiven
      PROVE  Automatic'
     BY <1>23 DEF MonitorVisit, Goto, MonitorHighWater, MonitorIdles, MonitorMisses,
        AbsenceForgiven
<1>24. ASSUME MonitorBaseline PROVE Automatic'
  <2>1. held = mgmt.override => held' = mgmt'.override
    BY <1>24, BaselineEffect DEF MonitorBaseline, Rows
  <2> QED BY <1>24, <2>1 DEF MonitorBaseline, Goto
<1>25. ASSUME Latch PROVE Automatic'
     BY <1>25 DEF Latch, EndMove, ClearRequest, Goto
<1>26. ASSUME CloseRow PROVE Automatic'
     BY <1>26 DEF CloseRow, Goto, NoRow, ResetBackoff
<1>27. ASSUME NEW r \in Rules, NEW px \in Prices, MonitorDecide(r, px) PROVE Automatic'
     BY <1>27 DEF MonitorDecide, Goto, Halted
<1>28. ASSUME (\E s \in flight : Accept(s)) \/ (\E s \in flight : Vanish(s)) \/ (\E s \in stops
   : Fire(s)) \/ (\E s \in stops : OthersCancel(s)) \/ OthersPlace \/ Grow \/ Shrink \/
   FillsServed \/ PriceMoves \/ UNCHANGED vars
      PROVE  Automatic'
     BY <1>28 DEF Accept, Vanish, Fire, Placers, OthersCancel, OthersPlace, FreeIds, Ids, Grow,
        Shrink, FillsServed, PriceMoves
<1>29. ASSUME Restart PROVE Automatic'
     BY <1>29 DEF Restart, ResetBackoff
<1> QED BY <1>1, <1>2, <1>3, <1>4, <1>5, <1>6, <1>7, <1>8, <1>9, <1>10, <1>11, <1>12, <1>13,
   <1>14, <1>15, <1>16, <1>17, <1>18, <1>19, <1>20, <1>21, <1>22, <1>23, <1>24, <1>25, <1>26,
   <1>27, <1>28, <1>29 DEF Next, Move, Controls, Automation, Environment

\* What is known of the new and the old stops stays true.
LEMMA CoverStep ==
  ASSUME TypeOK, Control, Cover
  PROVE  [Next]_vars => Cover'
<1> USE ClientsAssumption, BoundsAssumption DEF Cover, UniqueIds, NewStop, OldStops, NewCovers,
   HoldCovered, Control, LockHeld, NoLocals, Locked, Listed, Sent, TypeOK, Stops, Clients, vars,
   exchange, request, automation
<1>1. ASSUME NEW u \in Users, NEW px \in Prices, StartMove(u, px) PROVE Cover'
     BY <1>1 DEF StartMove, Goto
<1>2. ASSUME NEW c \in Clients, Acquire(c) PROVE Cover'
     BY <1>2 DEF Acquire, Goto
<1>3. ASSUME NEW c \in Clients, Fail(c) PROVE Cover'
     BY <1>3 DEF Fail, EndMove, ClearRequest, Goto
<1>4. ASSUME NEW c \in Clients, ReadHold(c) PROVE Cover'
     BY <1>4 DEF ReadHold, Goto
<1>5. ASSUME NEW c \in Clients, ReadMark(c) PROVE Cover'
     BY <1>5 DEF ReadMark, Goto
<1>6. ASSUME NEW c \in Clients, ReadStops(c) PROVE Cover'
     BY <1>6 DEF ReadStops, Goto, Ids, NeverLoosens
<1>7. ASSUME NEW c \in Clients, SendStop(c) PROVE Cover'
  <2>1. want[c] \in Nat /\ Rounded(want[c]) >= want[c] BY RoundedUp
  <2>2. CASE UNCHANGED <<flight, new>> BY <1>7, <2>2 DEF SendStop, Goto
  <2>3. ASSUME NEW id \in FreeIds,
               flight' = flight \cup {[id |-> id, px |-> Rounded(want[c]), vol |-> size[c]]},
               new' = [new EXCEPT ![c] = id]
        PROVE  Cover'
    <3> DEFINE o == [id |-> id, px |-> Rounded(want[c]), vol |-> size[c]]
    <3>1. /\ id # NoStop /\ \A t \in stops \cup flight : t.id # id
          /\ \A d \in Clients : id \notin old[d] /\ id # new[d]
      BY <2>3 DEF FreeIds, Ids
    <3>2. o.id = id /\ o.px = Rounded(want[c]) OBVIOUS
    <3>3. UNCHANGED <<stops, want, size, old, shaken, hold>> BY <1>7 DEF SendStop
    <3>4. flight' = flight \cup {o} /\ pc' = [pc EXCEPT ![c] = "await"] /\ pc[c] = "send"
      BY <1>7, <2>3 DEF SendStop, Goto
    <3> HIDE DEF o
    <3>5. UniqueIds' BY <3>1, <3>2, <3>3, <3>4
    <3>6. NewStop' BY <2>1, <2>3, <3>1, <3>2, <3>3, <3>4
    <3>7. OldStops' BY <3>1, <3>2, <3>3, <3>4
    <3>8. NewCovers' /\ HoldCovered' BY <2>3, <3>3, <3>4
    <3> QED BY <3>5, <3>6, <3>7, <3>8
  <2> QED BY <1>7, <2>2, <2>3 DEF SendStop
<1>8. ASSUME NEW c \in Clients, ReplyPlaced(c) PROVE Cover'
     BY <1>8 DEF ReplyPlaced, Goto
<1>9. ASSUME NEW c \in Clients, ReplyRejected(c) PROVE Cover'
     BY <1>9 DEF ReplyRejected, EndMove, ClearRequest, Goto, Ids
<1>10. ASSUME NEW c \in Clients, ReplyWithoutId(c) PROVE Cover'
     BY <1>10 DEF ReplyWithoutId, EndMove, ClearRequest, Goto
<1>11. ASSUME NEW c \in Clients, ReplyUncertain(c) PROVE Cover'
     BY <1>11 DEF ReplyUncertain, EndMove, ClearRequest, Goto
<1>12. ASSUME NEW c \in Clients, VerifyMiss(c) PROVE Cover'
     BY <1>12 DEF VerifyMiss, Goto
<1>13. ASSUME NEW c \in Clients, VerifyHit(c) PROVE Cover'
     BY <1>13 DEF VerifyHit, Goto
<1>14. ASSUME NEW c \in Clients, CoversPosition(c) PROVE Cover'
     BY <1>14 DEF CoversPosition, Verified, Goto
<1>15. ASSUME NEW c \in Clients, Unverified(c) PROVE Cover'
     BY <1>15 DEF Unverified, EndMove, ClearRequest, Goto
<1>16. ASSUME NEW c \in Clients, CancelOld(c) PROVE Cover'
     BY <1>16 DEF CancelOld
<1>17. ASSUME NEW c \in Clients, RecordOverride(c) PROVE Cover'
     BY <1>17 DEF RecordOverride, ClearRequest, Goto
<1>18. ASSUME CheckRow PROVE Cover'
     BY <1>18 DEF CheckRow, Goto
<1>19. ASSUME ReadSignature PROVE Cover'
     BY <1>19 DEF ReadSignature, Goto
<1>20. ASSUME FinishAutomatic PROVE Cover'
     BY <1>20 DEF FinishAutomatic, ClearRequest, Goto
<1>21. ASSUME NEW r \in Rules, Arm(r) PROVE Cover'
     BY <1>21 DEF Arm
<1>22. ASSUME NEW r \in Rules, Disarm(r) PROVE Cover'
     BY <1>22 DEF Disarm
<1>23. ASSUME KillSwitch PROVE Cover'
     BY <1>23 DEF KillSwitch
<1>24. ASSUME MonitorVisit PROVE Cover'
     BY <1>24 DEF MonitorVisit, Goto
<1>25. ASSUME MonitorBaseline \/ MonitorHighWater \/ MonitorIdles \/ MonitorMisses \/
   AbsenceForgiven \/ CloseRow
      PROVE  Cover'
     BY <1>25 DEF MonitorBaseline, Goto, MonitorHighWater, MonitorIdles, MonitorMisses,
        AbsenceForgiven, CloseRow
<1>26. ASSUME Latch PROVE Cover'
     BY <1>26 DEF Latch, EndMove, ClearRequest, Goto
<1>27. ASSUME NEW r \in Rules, NEW px \in Prices, MonitorDecide(r, px) PROVE Cover'
     BY <1>27 DEF MonitorDecide, Goto, Halted
<1>28. ASSUME NEW s \in flight, Accept(s) PROVE Cover'
     BY <1>28 DEF Accept
<1>29. ASSUME NEW s \in flight, Vanish(s) PROVE Cover'
     BY <1>29 DEF Vanish
<1>30. ASSUME NEW s \in stops, Fire(s) PROVE Cover'
     BY <1>30 DEF Fire, Placers
<1>31. ASSUME NEW s \in stops, OthersCancel(s) PROVE Cover'
     BY <1>31 DEF OthersCancel, Placers
<1>32. ASSUME OthersPlace PROVE Cover'
     BY <1>32 DEF OthersPlace, FreeIds, Ids
<1>33. ASSUME Grow PROVE Cover'
     BY <1>33 DEF Grow
<1>34. ASSUME Shrink PROVE Cover'
     BY <1>34 DEF Shrink
<1>35. ASSUME PriceMoves \/ FillsServed \/ UNCHANGED vars
      PROVE  Cover'
     BY <1>35 DEF PriceMoves, FillsServed
<1>36. ASSUME Restart PROVE Cover'
     BY <1>36 DEF Restart
<1> QED BY <1>1, <1>2, <1>3, <1>4, <1>5, <1>6, <1>7, <1>8, <1>9, <1>10, <1>11, <1>12, <1>13,
   <1>14, <1>15, <1>16, <1>17, <1>18, <1>19, <1>20, <1>21, <1>22, <1>23, <1>24, <1>25, <1>26,
   <1>27, <1>28, <1>29, <1>30, <1>31, <1>32, <1>33, <1>34, <1>35, <1>36 DEF Next, Move,
   Controls, Automation, Environment

-----------------------------------------------------------------------------
(* The theorems *)

IInv == TypeOK /\ Control /\ Automatic /\ Cover

\* The initial state: nobody moves a stop and nothing is armed.
LEMMA InitInv == Init => IInv
<1> SUFFICES ASSUME Init PROVE IInv
  OBVIOUS
<1> USE ClientsAssumption, BoundsAssumption DEF Init, NoRow, Clients
<1>1. TypeOK
  <2>1. mgmt \in Rows /\ plan \in [rule : AllRules \cup {"none"}, sig : Nat]
    BY DEF Rows, AllRules
  <2>2. unknown \in BOOLEAN BY Zenon
  <2> QED BY <2>1, <2>2, PricesAssumption DEF TypeOK, Steps, Stops, Prices
<1>2. Control
  BY DEF Control, LockHeld, SizeRead, NoLocals, UsersMove, Attempting, Locked, Sized, Listed,
         Sent, Moving
<1>3. Automatic
  BY DEF Automatic, RuleArmed, NotPaused, HeldIsOverride, SamePosition, Backoff, Checked, Sent
<1>4. Cover
  BY DEF Cover, UniqueIds, NewStop, OldStops, NewCovers, HoldCovered
<1> QED BY <1>1, <1>2, <1>3, <1>4 DEF IInv

\* The three layers and the types together are inductive.
LEMMA Invariance == Spec => []IInv
<1>1. IInv /\ [Next]_vars => IInv'
  BY TypeStep, ControlStep, AutomaticStep, CoverStep DEF IInv
<1> QED BY InitInv, <1>1, PTL DEF Spec

\* Every reachable state is typed: the attempts never pass _BE_MAX_ATTEMPTS,
\* the verification never runs more often than sl_verify_attempts, and no
\* order rests or is sent with size zero.
THEOREM TypeCorrect == Spec => []TypeOK
<1>1. IInv => TypeOK BY DEF IInv
<1> QED BY Invariance, <1>1, PTL

\* An automatic stop leaves only while its rule is armed.
THEOREM ArmedWhenSent == Spec => AutomaticOnlyWhileArmed
<1>1. IInv => (AutomaticSend => plan.rule \in mgmt.armed)
  BY DEF IInv, Automatic, RuleArmed, Checked, AutomaticSend
<1> QED BY Invariance, <1>1, PTL DEF AutomaticOnlyWhileArmed

\* An automatic stop leaves only for the position it was decided on.
THEOREM SamePositionWhenSent == Spec => AutomaticSamePosition
<1>1. IInv => (AutomaticSend => epoch = plan.sig \/ Monitor \in shaken)
  BY DEF IInv, Automatic, SamePosition, AutomaticSend
<1> QED BY Invariance, <1>1, PTL DEF AutomaticSamePosition

\* After a manual move the trail waits for a new high water.
THEOREM ManualMoveRespected == Spec => ManualStopHolds
<1>1. IInv => (AutomaticSend /\ plan.rule = "auto_trail" => held = 0 \/ mgmt.hw > held)
  <2> SUFFICES ASSUME IInv, AutomaticSend, plan.rule = "auto_trail"
               PROVE  held = 0 \/ mgmt.hw > held
    OBVIOUS
  <2>1. pc[Monitor] = "send" /\ lock = Monitor
    BY DEF IInv, Control, LockHeld, Locked, Clients, AutomaticSend
  <2>2. held = mgmt.override
    BY <2>1, ClientsAssumption
       DEF IInv, Control, LockHeld, Locked, Clients, Automatic, HeldIsOverride
  <2>3. ~Paused(mgmt) BY <2>1 DEF IInv, Automatic, NotPaused, Checked
  <2> QED BY <2>2, <2>3 DEF IInv, TypeOK, Rows, Paused
<1> QED BY Invariance, <1>1, PTL DEF ManualStopHolds

\* No automatic stop leaves after an unknown outcome or after
\* _BE_MAX_ATTEMPTS placements none of which was verified.
THEOREM BacksOff == Spec => AutomationBacksOff
<1>1. IInv => (AutomaticSend => ~unknown /\ blind < BeMaxAttempts)
  BY BoundsAssumption
     DEF IInv, TypeOK, Control, Attempting, Moving, Locked, Automatic, Backoff, Sent, AutomaticSend
<1> QED BY Invariance, <1>1, PTL DEF AutomationBacksOff

\* While a request stays in its last phase only CancelOld changes the stops it
\* still has to cancel.
LEMMA OnlyCancelOld ==
  ASSUME TypeOK, Control, [Next]_vars,
         NEW c \in Clients, pc[c] = "cancel", pc'[c] = "cancel", old'[c] # old[c]
  PROVE  CancelOld(c)
<1> USE ClientsAssumption DEF TypeOK, vars, exchange, request, automation
<1>1. CASE \E d \in Clients : Acquire(d) \/ Move(d)
  <2> SUFFICES ASSUME NEW d \in Clients, Acquire(d) \/ Move(d) PROVE CancelOld(c)
    BY <1>1
  <2>1. d = c
    BY DEF Control, NoLocals, LockHeld, Locked, Acquire, Move, Fail, EndMove, ClearRequest, ReadHold,
       ReadMark, ReadStops, CheckRow, ReadSignature, FinishAutomatic, SendStop, ReplyPlaced,
       ReplyRejected, ReplyWithoutId, ReplyUncertain, VerifyMiss, VerifyHit, CoversPosition,
       Verified, Unverified, CancelOld, RecordOverride, Goto
  <2> QED
    BY <2>1 DEF Acquire, Move, Fail, EndMove, ClearRequest, ReadHold,
       ReadMark, ReadStops, CheckRow, ReadSignature, FinishAutomatic, SendStop, ReplyPlaced,
       ReplyRejected, ReplyWithoutId, ReplyUncertain, VerifyMiss, VerifyHit, CoversPosition,
       Verified, Unverified, RecordOverride, Goto
<1>2. CASE \E u \in Users, px \in Prices : StartMove(u, px)
  BY <1>2 DEF StartMove
<1>3. CASE Controls
  BY <1>3 DEF Controls, Arm, Disarm, KillSwitch
<1>4. CASE Automation
  BY <1>4 DEF Automation, MonitorVisit, MonitorBaseline, MonitorHighWater, MonitorIdles, Latch, EndMove,
     ClearRequest, MonitorMisses, AbsenceForgiven, CloseRow, MonitorDecide, Goto
<1>5. CASE Environment
  BY <1>5 DEF Environment, Accept, Vanish, Fire, OthersCancel, OthersPlace, Grow, Shrink,
     FillsServed, PriceMoves
<1>6. CASE Restart
  BY <1>6 DEF Restart
<1>7. CASE UNCHANGED vars
  BY <1>7
<1> QED BY <1>1, <1>2, <1>3, <1>4, <1>5, <1>6, <1>7 DEF Next

\* An old stop is cancelled only while the new one covers the position.
THEOREM CoveredWhileCancelling == Spec => CancelKeepsCover
<1> DEFINE Covered(c) ==
      pc[c] = "cancel" /\ pc'[c] = "cancel" /\ old'[c] # old[c] /\ c \notin shaken =>
        \A s \in stops \ stops' :
          hold > 0 => \E t \in stops' : t.px >= s.px /\ t.vol >= hold
<1>1. ASSUME IInv, [Next]_vars PROVE \A c \in Clients : Covered(c)
  <2> SUFFICES ASSUME NEW c \in Clients, pc[c] = "cancel", pc'[c] = "cancel",
                      old'[c] # old[c], c \notin shaken, NEW s \in stops \ stops'
               PROVE  \E t \in stops' : t.px >= s.px /\ t.vol >= hold
    OBVIOUS
  <2>1. CancelOld(c) BY <1>1, OnlyCancelOld DEF IInv
  <2>2. PICK id \in old[c] : stops' = {t \in stops : t.id # id} \/ UNCHANGED stops
    BY <2>1 DEF CancelOld
  <2>3. s.id = id BY <2>2
  <2>4. s.px <= want[c] BY <1>1, <2>3 DEF IInv, Cover, OldStops
  <2>5. PICK t \in stops : t.id = new[c] /\ t.vol >= size[c]
    BY <1>1 DEF IInv, Cover, NewCovers
  <2>6. t.px >= want[c] /\ t.id # id BY <1>1, <2>5 DEF IInv, Cover, NewStop
  <2>7. hold <= size[c] BY <1>1 DEF IInv, Cover, HoldCovered
  <2>8. t \in stops' BY <2>2, <2>6
  <2>9. /\ t.px \in Nat /\ t.vol \in Nat /\ s.px \in Nat
        /\ want[c] \in Nat /\ size[c] \in Nat /\ hold \in Nat
    BY <1>1 DEF IInv, TypeOK, Stops
  <2> QED BY <2>4, <2>5, <2>6, <2>7, <2>8, <2>9
<1>2. IInv /\ [Next]_vars => [\A c \in Clients : Covered(c)]_vars
  BY <1>1
<1> QED BY Invariance, <1>2, PTL DEF Spec, CancelKeepsCover

=============================================================================
