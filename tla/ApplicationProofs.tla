--------------------------- MODULE ApplicationProofs ---------------------------
(***************************************************************************)
(* Proofs about the application around the order path: its instance lock   *)
(* (InstanceLock), the market data proxy (MarketProxy), and advisory       *)
(* requests against setup and provider swaps (AdvisoryCache).              *)
(***************************************************************************)
EXTENDS InstanceLock, MarketProxy, AdvisoryCache, FiniteSetTheorems,
        NaturalsInduction, WellFoundedInduction, TLAPS

-----------------------------------------------------------------------------
(* InstanceLock *)

\* Whoever got past the lock holds it; a legacy marker is nobody's creation, and
\* its living owner keeps everyone out.
LockInv ==
  /\ proc \in [Procs -> ProcSteps] /\ created \subseteq Procs
  /\ \A p \in Procs : proc[p] \in {"locked", "starting", "serving", "stopping"} => kernel = p
  /\ file = "legacy" => created = {}
  /\ legacy \in [owner : {"alive", "gone", "reused"}, stamped : BOOLEAN]
  /\ legacy.owner = "alive" => Using = {} /\ file = "legacy"

\* The two starting points of the marker.
LEMMA LockInvInit == LockInit => LockInv
  BY UnheldAssumption DEF LockInit, LockInv, ProcSteps, Using

\* A step that leaves the marker and its owner alone.
LEMMA MarkerKept ==
  ASSUME LockInv, NEW p \in Procs, NEW s \in ProcSteps, Go(p, s), UNCHANGED <<file, legacy>>,
         created' \subseteq created,
         s \in {"locked", "starting", "serving", "stopping"} => kernel' = p,
         kernel' # kernel => kernel = p \/ kernel = Unheld,
         s \in {"starting", "serving", "stopping"} => proc[p] \in {"serving", "starting"}
  PROVE  LockInv'
<1>1. \A q \in Procs \ {p} : proc'[q] = proc[q]
  BY DEF Go, LockInv
<1>2. proc'[p] = s /\ proc' \in [Procs -> ProcSteps]
  BY DEF Go, LockInv
<1>3. \A q \in Procs : proc'[q] \in {"locked", "starting", "serving", "stopping"} => kernel' = q
  BY <1>1, <1>2, UnheldAssumption DEF LockInv
<1>4. legacy.owner = "alive" => Using' = {}
  BY <1>1, <1>2 DEF LockInv, Using
<1>q. QED BY <1>2, <1>3, <1>4 DEF LockInv

\* Every step keeps the lock with its owner.
LEMMA LockInvStep ==
  ASSUME LockInv, [LockNext]_lockVars
  PROVE  LockInv'
<1>1. ASSUME NEW p \in Procs, OpenFile(p)
      PROVE  LockInv'
  BY <1>1 DEF OpenFile, Go, LockInv, Using, ProcSteps
<1>2. ASSUME NEW p \in Procs, SizeFile(p)
      PROVE  LockInv'
  BY <1>2 DEF SizeFile, Go, LockInv, Using, ProcSteps
<1>3. ASSUME NEW p \in Procs, TryLock(p)
      PROVE  LockInv'
  BY <1>3, MarkerKept DEF TryLock, ProcSteps
<1>4. ASSUME NEW p \in Procs, Judge(p)
      PROVE  LockInv'
  <2>1. CASE Go(p, "refused")
    BY <1>4, <2>1, MarkerKept DEF Judge, ProcSteps, LockInv, Go
  <2>2. CASE Go(p, "starting")
    <3>1. legacy.owner # "alive"
      BY <1>4, <2>2 DEF Judge, LockInv, LegacyBusy, Go
    <3>q. QED BY <1>4, <2>2, <3>1 DEF Judge, Go, LockInv, Using, ProcSteps
  <2>q. QED BY <1>4, <2>1, <2>2 DEF Judge
<1>5. ASSUME NEW p \in Procs, MarkFails(p)
      PROVE  LockInv'
  <2>1. file = "legacy" /\ legacy.owner = "alive" => UNCHANGED file
    BY <1>5 DEF MarkFails, LockInv, LegacyBusy
  <2>2. \A q \in Procs \ {p} : proc'[q] = proc[q] /\ proc[q] \notin {"locked", "starting", "serving", "stopping"}
    BY <1>5 DEF MarkFails, Go, LockInv
  <2>3. proc'[p] = "failed" /\ proc' \in [Procs -> ProcSteps]
    BY <1>5 DEF MarkFails, Go, LockInv, ProcSteps
  <2>4. file' = "legacy" => file = "legacy"
    BY <1>5 DEF MarkFails
  <2>q. QED BY <1>5, <2>1, <2>2, <2>3, <2>4 DEF MarkFails, LockInv, Using
<1>6. ASSUME NEW p \in Procs, StartUp(p) \/ ShutDown(p)
      PROVE  LockInv'
  BY <1>6, MarkerKept DEF StartUp, ShutDown, ProcSteps, LockInv
<1>7. ASSUME NEW p \in Procs, Release(p) \/ Crash(p)
      PROVE  LockInv'
  BY <1>7, MarkerKept DEF Release, Crash, Freed, ProcSteps
<1>8. CASE LegacyEnds
  BY <1>8 DEF LegacyEnds, LockInv, Using
<1>9. CASE UNCHANGED lockVars
  BY <1>9 DEF lockVars, LockInv, Using
<1>q. QED BY <1>1, <1>2, <1>3, <1>4, <1>5, <1>6, <1>7, <1>8, <1>9 DEF LockNext

\* Every step of a start, of a process or of the legacy owner keeps the types.
THEOREM LockTyped == LockSpec => []LockTypeOK
<1>1. LockInit => LockTypeOK
  BY DEF LockInit, LockTypeOK, Files, ProcSteps
<1>2. LockTypeOK /\ [LockNext]_lockVars => LockTypeOK'
  <2> SUFFICES ASSUME LockTypeOK, [LockNext]_lockVars PROVE LockTypeOK'
    OBVIOUS
  <2> USE DEF LockTypeOK, Files, Go
  <2>1. ASSUME NEW p \in Procs, OpenFile(p) \/ SizeFile(p) \/ TryLock(p)
        PROVE  LockTypeOK'
    BY <2>1 DEF OpenFile, SizeFile, TryLock, ProcSteps
  <2>2. ASSUME NEW p \in Procs, Judge(p) \/ MarkFails(p)
        PROVE  LockTypeOK'
    BY <2>2 DEF Judge, MarkFails, ProcSteps
  <2>3. ASSUME NEW p \in Procs, StartUp(p) \/ ShutDown(p) \/ Release(p) \/ Crash(p)
        PROVE  LockTypeOK'
    BY <2>3 DEF StartUp, ShutDown, Release, Crash, Freed, ProcSteps
  <2>4. CASE LegacyEnds
    BY <2>4 DEF LegacyEnds
  <2>5. CASE UNCHANGED lockVars
    BY <2>5 DEF lockVars
  <2>q. QED BY <2>1, <2>2, <2>3, <2>4, <2>5 DEF LockNext
<1>q. QED BY <1>1, <1>2, PTL DEF LockSpec

\* One process at most uses the data directory, none beside an older version.
THEOREM OneProcess == LockSpec => []OneOwner
<1>1. ASSUME LockInv
      PROVE  OneOwner
  <2>1. \A p \in Using : p = kernel
    BY <1>1 DEF LockInv, Using
  <2>2. CASE Using = {}
    BY <1>1, <2>2, FS_EmptySet DEF OneOwner, LockInv
  <2>3. CASE Using # {}
    <3>1. Using = {kernel}
      BY <2>1, <2>3
    <3>2. Cardinality(Using) = 1
      BY <3>1, FS_Singleton
    <3>q. QED BY <1>1, <3>2 DEF OneOwner, LockInv
  <2>q. QED BY <2>2, <2>3
<1>2. LockInv => OneOwner
  BY <1>1
<1>3. LockInv /\ [LockNext]_lockVars => LockInv'
  BY LockInvStep
<1>q. QED BY <1>2, <1>3, LockInvInit, PTL DEF LockSpec

-----------------------------------------------------------------------------
(* MarketProxy *)

Times == [bucket : Int, candle : Int, tick : Int]

\* Nothing displayed is newer than the chronology the proxy keeps; at MEXC, which
\* keeps the time of the ticker alone, the bucket displayed is the one of that time.
NotAhead ==
  /\ venue \in {"hyperliquid", "mexc"} /\ clock \in Nat
  /\ timeline \in Times /\ displayed \in Times
  /\ displayed.candle <= timeline.candle
  /\ displayed.tick <= timeline.tick
  /\ venue = "hyperliquid" => /\ link \notin {"poll", "rest"}
                              /\ displayed.bucket <= timeline.bucket
  /\ venue = "mexc" => /\ link \notin {"connect", "live", "degraded", "sleep"}
                       /\ timeline.tick \in Nat /\ displayed.bucket = Bucket(timeline.tick)

\* The larger of two numbers.
LEMMA LargerOfTwo ==
  ASSUME NEW a \in Int, NEW b \in Int
  PROVE  Max({a, b}) \in {a, b} /\ Max({a, b}) >= a /\ Max({a, b}) >= b
<1>1. \E x \in {a, b} : \A y \in {a, b} : x >= y
  <2>1. CASE a >= b
    BY <2>1
  <2>2. CASE b >= a
    BY <2>2
  <2>q. QED BY <2>1, <2>2
<1>q. QED BY <1>1 DEF Max

\* What an event makes of the chronology.
LEMMA LaterTimes ==
  ASSUME NEW t \in Times, NEW k \in Int, NEW m \in Int
  PROVE  /\ Max({k, t.bucket}) \in Int /\ Max({k, t.bucket}) >= k
         /\ Max({m, t.candle}) \in Int /\ Max({m, t.candle}) >= m
         /\ Max({m, t.tick}) \in Int /\ Max({m, t.tick}) >= m
<1>1. t.bucket \in Int /\ t.candle \in Int /\ t.tick \in Int
  BY DEF Times
<1>2. Max({k, t.bucket}) \in Int /\ Max({k, t.bucket}) >= k
  BY <1>1, LargerOfTwo
<1>3. Max({m, t.candle}) \in Int /\ Max({m, t.candle}) >= m
  BY <1>1, LargerOfTwo
<1>4. Max({m, t.tick}) \in Int /\ Max({m, t.tick}) >= m
  BY <1>1, LargerOfTwo
<1>q. QED BY <1>2, <1>3, <1>4

\* A later time is in no earlier candle.
LEMMA BucketMonotone ==
  ASSUME NEW s \in Nat, NEW t \in Nat, s <= t
  PROVE  Bucket(s) \in Int /\ Bucket(t) \in Int /\ Bucket(s) <= Bucket(t)
<1> DEFINE m == s + Interval - 1
           n == t + Interval - 1
<1>1. Interval \in Nat /\ Interval > 0 /\ m \in Nat /\ n \in Nat /\ m <= n
  BY ProxyBounds
<1>2. m \div Interval \in Int /\ n \div Interval \in Int
  BY <1>1
<1>3. m \div Interval <= n \div Interval
  BY <1>1
<1>q. QED BY <1>2, <1>3 DEF Bucket

\* Before any event the first candle is shown.
LEMMA FirstBucket == Bucket(0) = 0
  BY ProxyBounds DEF Bucket

\* Nothing is displayed at first.
LEMMA NotAheadInit == ProxyInit => NotAhead
  BY FirstBucket DEF ProxyInit, NotAhead, Undated, Times

\* A step of the loop or of the market keeps what is shown behind the chronology.
LEMMA FrameInv ==
  ASSUME NotAhead, NEW type \in {"candle", "tick"}, NEW a \in 0..clock, NEW b \in 0..clock,
         Frame(type, {a, b})
  PROVE  NotAhead' /\ displayed'.bucket >= displayed.bucket
         /\ displayed'.candle >= displayed.candle /\ displayed'.tick >= displayed.tick
<1> USE DEF NotAhead
<1>1. PICK time \in Newest(type, {a, b}) :
        /\ ~Behind(type, time)
        /\ timeline' = IF time = 0 THEN timeline
                       ELSE [timeline EXCEPT !.bucket = Max({Bucket(time), @}), ![type] = Max({time, @})]
        /\ displayed' = IF time = 0 THEN displayed
                        ELSE [displayed EXCEPT !.bucket = Bucket(time), ![type] = time]
  BY DEF Frame
<1>2. time \in Nat
  <2>1. a \in Nat /\ b \in Nat
    OBVIOUS
  <2>2. Max({a, b}) \in Nat
    BY <2>1, LargerOfTwo
  <2>q. QED BY <1>1, <2>2 DEF Newest
<1>3. UNCHANGED <<venue, clock, link>> /\ link = "live" /\ venue # "mexc"
  BY DEF Frame
<1>4. CASE time = 0
  BY <1>1, <1>3, <1>4 DEF Times
<1>5. CASE time # 0
  <2>1. Bucket(time) \in Int
    BY <1>2, BucketMonotone
  <2>2. Bucket(time) >= timeline.bucket /\ time >= timeline[type]
    BY <1>1, <1>2, <1>5, <2>1 DEF Behind, Times
  <2>3. CASE type = "candle"
    <3> DEFINE nb == Max({Bucket(time), timeline.bucket})
               nt == Max({time, timeline.candle})
    <3>1. timeline \in Times /\ displayed \in Times /\ time \in Int
      BY <1>2
    <3>2. nb \in Int /\ nb >= Bucket(time) /\ nt \in Int /\ nt >= time
      BY <2>1, <3>1, LaterTimes
    <3>3. timeline' = [timeline EXCEPT !.bucket = nb, !.candle = nt]
      BY <1>1, <1>5, <2>3
    <3>4. displayed' = [displayed EXCEPT !.bucket = Bucket(time), !.candle = time]
      BY <1>1, <1>5, <2>3
    <3>5. time >= timeline.candle
      BY <2>2, <2>3
    <3> HIDE DEF nb, nt
    <3>6. timeline' \in Times /\ displayed' \in Times
          /\ displayed'.bucket = Bucket(time) /\ displayed'.candle = time /\ displayed'.tick = displayed.tick
          /\ timeline'.bucket = nb /\ timeline'.candle = nt /\ timeline'.tick = timeline.tick
      BY <2>1, <3>1, <3>2, <3>3, <3>4 DEF Times
    <3>q. QED BY <1>2, <1>3, <2>1, <2>2, <3>2, <3>5, <3>6 DEF Times
  <2>4. CASE type = "tick"
    <3> DEFINE nb == Max({Bucket(time), timeline.bucket})
               nt == Max({time, timeline.tick})
    <3>1. timeline \in Times /\ displayed \in Times /\ time \in Int
      BY <1>2
    <3>2. nb \in Int /\ nb >= Bucket(time) /\ nt \in Int /\ nt >= time
      BY <2>1, <3>1, LaterTimes
    <3>3. timeline' = [timeline EXCEPT !.bucket = nb, !.tick = nt]
      BY <1>1, <1>5, <2>4
    <3>4. displayed' = [displayed EXCEPT !.bucket = Bucket(time), !.tick = time]
      BY <1>1, <1>5, <2>4
    <3>5. time >= timeline.tick
      BY <2>2, <2>4
    <3> HIDE DEF nb, nt
    <3>6. timeline' \in Times /\ displayed' \in Times
          /\ displayed'.bucket = Bucket(time) /\ displayed'.tick = time /\ displayed'.candle = displayed.candle
          /\ timeline'.bucket = nb /\ timeline'.tick = nt /\ timeline'.candle = timeline.candle
      BY <2>1, <3>1, <3>2, <3>3, <3>4 DEF Times
    <3>q. QED BY <1>2, <1>3, <2>1, <2>2, <3>2, <3>5, <3>6 DEF Times
  <2>q. QED BY <2>3, <2>4
<1>q. QED BY <1>4, <1>5

\* A ticker time that is shown is not before the last one.
LEMMA PollInv ==
  ASSUME NotAhead, PollShows
  PROVE  NotAhead' /\ displayed'.bucket >= displayed.bucket
         /\ displayed'.candle >= displayed.candle /\ displayed'.tick >= displayed.tick
<1> USE DEF NotAhead
<1>1. PICK time \in Stamps :
        /\ time = 0 \/ time >= timeline.tick
        /\ timeline' = IF time = 0 THEN timeline ELSE [timeline EXCEPT !.tick = time]
        /\ displayed' = IF time = 0 THEN displayed
                        ELSE [displayed EXCEPT !.bucket = Bucket(time), !.tick = time]
  BY DEF PollShows
<1>2. UNCHANGED <<venue, clock>> /\ link' = "rest" /\ link = "poll" /\ time \in Nat
  BY DEF PollShows, Stamps
<1>3. CASE time = 0
  BY <1>1, <1>2, <1>3 DEF Bucket, Times
<1>4. CASE time # 0 /\ venue = "mexc"
  <2>1. Bucket(timeline.tick) <= Bucket(time) /\ Bucket(time) \in Int
    BY <1>1, <1>2, <1>4, BucketMonotone
  <2>2. timeline' = [timeline EXCEPT !.tick = time]
        /\ displayed' = [displayed EXCEPT !.bucket = Bucket(time), !.tick = time]
    BY <1>1, <1>4
  <2>3. timeline' \in Times /\ displayed' \in Times /\ timeline'.tick = time
        /\ displayed'.bucket = Bucket(time) /\ displayed'.tick = time
        /\ timeline'.candle = timeline.candle /\ displayed'.candle = displayed.candle
    <3>1. timeline \in Times /\ displayed \in Times /\ time \in Int
      BY <1>2
    <3> HIDE DEF NotAhead
    <3>q. QED BY <1>2, <2>1, <2>2, <3>1 DEF Times
  <2>4. displayed'.bucket >= displayed.bucket /\ displayed'.tick >= displayed.tick
    BY <1>1, <1>2, <1>4, <2>1, <2>3 DEF Times
  <2>5. (displayed.bucket = Bucket(timeline.tick))'
    BY <2>3 DEF Bucket
  <2>q. QED BY <1>2, <1>4, <2>3, <2>4, <2>5 DEF Times
<1>q. QED BY <1>2, <1>3, <1>4

\* A step of the proxy.
LEMMA NotAheadStep ==
  ASSUME NotAhead, [ProxyNext]_proxyVars
  PROVE  NotAhead' /\ displayed'.bucket >= displayed.bucket
         /\ displayed'.candle >= displayed.candle /\ displayed'.tick >= displayed.tick
<1>1. CASE \E type \in {"candle", "tick"}, a, b \in Stamps : Frame(type, {a, b})
  BY <1>1, FrameInv DEF Stamps
<1>2. CASE PollShows
  BY <1>2, PollInv
<1>3. ASSUME UNCHANGED <<timeline, displayed, venue>>, clock' \in Nat,
             link' = link \/ link' = "ended"
               \/ (venue = "mexc" /\ link' \in {"poll", "rest"})
               \/ (venue = "hyperliquid" /\ link' \in {"connect", "live", "degraded", "sleep"})
      PROVE  NotAhead' /\ displayed'.bucket >= displayed.bucket
             /\ displayed'.candle >= displayed.candle /\ displayed'.tick >= displayed.tick
  BY <1>3 DEF NotAhead, Times, Bucket
<1>4. CASE Connect \/ ConnectFails \/ SessionEnds \/ Sleep \/ Wake
  BY <1>3, <1>4 DEF Connect, ConnectFails, SessionEnds, Sleep, Wake, NotAhead
<1>5. CASE PollFails \/ PollAgain
  BY <1>3, <1>5 DEF PollFails, PollAgain, NotAhead
<1>6. CASE MarketMovesOn \/ BrowserLeaves \/ ProxyEnds \/ PollEnds \/ UNCHANGED proxyVars
  BY <1>3, <1>6 DEF MarketMovesOn, BrowserLeaves, ProxyEnds, PollEnds, proxyVars, NotAhead
<1>q. QED BY <1>1, <1>2, <1>4, <1>5, <1>6 DEF ProxyNext

\* What the browser displays never goes back, however often the proxy reconnected.
THEOREM DisplayedForward == ProxySpec => FeedNeverRewinds
<1>1. NotAhead /\ [ProxyNext]_proxyVars =>
        [/\ displayed'.bucket >= displayed.bucket
         /\ displayed'.candle >= displayed.candle /\ displayed'.tick >= displayed.tick]_proxyVars
  BY NotAheadStep
<1>2. NotAhead /\ [ProxyNext]_proxyVars => NotAhead'
  BY NotAheadStep
<1>q. QED BY <1>1, <1>2, NotAheadInit, PTL DEF ProxySpec, FeedNeverRewinds

\* A property of the natural numbers that fails fails somewhere first.
LEMMA FirstFailure ==
  ASSUME NEW S \in SUBSET Nat, S # {}
  PROVE  \E x \in S : \A y \in S : x <= y
<1> DEFINE LessThan == {p \in Nat \X Nat : p[1] < p[2]}
<1>1. IsWellFoundedOn(LessThan, Nat) BY NatLessThanWellFounded DEF OpToRel
<1>2. PICK x \in S : \A y \in S : ~(<<y, x>> \in LessThan) BY <1>1, WFMin
<1>3. \A y \in S : x <= y
  <2> TAKE y \in S
  <2>1. x \in Nat /\ y \in Nat OBVIOUS
  <2>2. y < x => <<y, x>> \in LessThan BY <2>1
  <2> HIDE DEF LessThan
  <2> QED BY <1>2, <2>1, <2>2
<1> QED BY <1>2, <1>3

\* The doublings up to n.
Doubles(n, g) == \A i \in 0..n : g[i] = IF i = 0 THEN 1 ELSE 2 * g[i - 1]

\* They exist for every n.
LEMMA DoublingsExist == \A n \in Nat : \E g : Doubles(n, g)
<1> DEFINE S == {n \in Nat : ~\E g : Doubles(n, g)}
<1> SUFFICES ASSUME S # {} PROVE FALSE
  OBVIOUS
<1>1. PICK m \in S : \A y \in S : m <= y
  BY FirstFailure
<1>2. CASE m = 0
  <2>1. Doubles(0, [i \in {0} |-> 1])
    BY DEF Doubles
  <2> QED BY <1>2, <2>1
<1>3. CASE m # 0
  <2>1. m - 1 \in Nat /\ m - 1 \notin S
    BY <1>1, <1>3
  <2>2. PICK g : Doubles(m - 1, g)
    BY <2>1
  <2> DEFINE h == [i \in 0..m |-> IF i = m THEN 2 * g[m - 1] ELSE g[i]]
  <2>3. ASSUME NEW i \in 0..m PROVE h[i] = IF i = 0 THEN 1 ELSE 2 * h[i - 1]
    <3>1. CASE i = m
      <4>1. m - 1 \in 0..m /\ m - 1 # m
        BY <2>1
      <4>2. h[m] = 2 * g[m - 1] /\ h[m - 1] = g[m - 1]
        BY <2>1, <4>1
      <4> QED BY <1>3, <3>1, <4>2
    <3>2. CASE i # m
      <4>1. i \in 0..(m - 1) /\ h[i] = g[i]
        BY <2>1, <3>2
      <4>2. i # 0 => i - 1 \in 0..m /\ i - 1 # m /\ h[i - 1] = g[i - 1]
        BY <2>1, <4>1
      <4> QED BY <2>2, <4>1, <4>2 DEF Doubles
    <3> QED BY <3>1, <3>2
  <2>4. Doubles(m, h)
    BY <2>3 DEF Doubles
  <2> QED BY <2>4
<1> QED BY <1>2, <1>3

\* Those up to n and those up to n + 1 have the same n-th.
LEMMA DoublingsAgree ==
  ASSUME NEW n \in Nat, NEW g, Doubles(n, g), NEW h, Doubles(n + 1, h)
  PROVE  g[n] = h[n]
<1> DEFINE S == {i \in 0..n : g[i] # h[i]}
<1> SUFFICES ASSUME S # {} PROVE FALSE
  OBVIOUS
<1>1. PICK m \in S : \A y \in S : m <= y
  <2>1. S \in SUBSET Nat
    OBVIOUS
  <2> HIDE DEF S
  <2> QED BY <2>1, FirstFailure
<1>2. m # 0 /\ m - 1 \in 0..n /\ m - 1 \notin S
  BY <1>1 DEF Doubles
<1> QED BY <1>1, <1>2 DEF Doubles

\* So the recursive function is what its equation says, and positive.
LEMMA DoubledIs ==
  /\ Doubled[0] = 1
  /\ \A n \in Nat : Doubled[n + 1] = 2 * Doubled[n] /\ Doubled[n] \in Nat \ {0}
<1> DEFINE G(n) == CHOOSE g : Doubles(n, g)
           step(f) == [n \in Nat |-> IF n = 0 THEN 1 ELSE 2 * f[n - 1]]
           f0 == [n \in Nat |-> G(n)[n]]
<1>1. \A n \in Nat : Doubles(n, G(n))
  BY DoublingsExist
<1> HIDE DEF G
<1>2. f0 = step(f0)
  <2>1. ASSUME NEW n \in Nat PROVE f0[n] = IF n = 0 THEN 1 ELSE 2 * f0[n - 1]
    <3>1. CASE n = 0
      BY <1>1, <3>1 DEF Doubles
    <3>2. CASE n # 0
      <4>1. n - 1 \in Nat /\ (n - 1) + 1 = n
        BY <3>2
      <4>2. G(n)[n] = 2 * G(n)[n - 1]
        BY <1>1, <3>2 DEF Doubles
      <4>3. G(n - 1)[n - 1] = G(n)[n - 1]
        BY <1>1, <4>1, DoublingsAgree
      <4> QED BY <3>2, <4>1, <4>2, <4>3
    <3> QED BY <3>1, <3>2
  <2> HIDE DEF f0
  <2>2. step(f0) = [n \in Nat |-> f0[n]]
    BY <2>1
  <2>3. f0 = [n \in Nat |-> f0[n]]
    BY DEF f0
  <2> QED BY <2>2, <2>3
<1>3. Doubled = step(Doubled)
  <2> HIDE DEF step, f0
  <2>1. Doubled = CHOOSE f : f = step(f)
    BY DEF Doubled, step
  <2> QED BY <1>2, <2>1
<1>4. Doubled[0] = 1 /\ \A n \in Nat : Doubled[n + 1] = 2 * Doubled[n]
  <2> HIDE DEF f0
  <2>1. \A n \in Nat : Doubled[n] = IF n = 0 THEN 1 ELSE 2 * Doubled[n - 1]
    BY <1>3
  <2>2. \A n \in Nat : n + 1 \in Nat /\ n + 1 # 0 /\ (n + 1) - 1 = n
    OBVIOUS
  <2> QED BY <2>1, <2>2
<1>5. \A n \in Nat : Doubled[n] \in Nat \ {0}
  <2> DEFINE S == {n \in Nat : Doubled[n] \notin Nat \ {0}}
  <2> SUFFICES ASSUME S # {} PROVE FALSE
    OBVIOUS
  <2>1. PICK m \in S : \A y \in S : m <= y
    BY FirstFailure
  <2>2. CASE m = 0
    BY <1>4, <2>2
  <2>3. CASE m # 0
    <3>1. m - 1 \in Nat /\ m - 1 \notin S /\ (m - 1) + 1 = m
      BY <2>1, <2>3
    <3>2. Doubled[m - 1] \in Nat \ {0} /\ Doubled[m] = 2 * Doubled[m - 1]
      BY <1>4, <3>1
    <3>3. Doubled[m] \in Nat \ {0}
      BY <3>2
    <3> QED BY <3>3
  <2> QED BY <2>2, <2>3
<1> QED BY <1>4, <1>5

\* The lesser of a number and the slowest pause is at most either.
LEMMA LesserOfTwo ==
  ASSUME NEW a \in Int
  PROVE  Min({a, Slowest}) = IF a <= Slowest THEN a ELSE Slowest
  BY ProxyBounds DEF Min

\* The pause that follows n failures, up to the slowest.
AtLeast(n) == delay >= Min({Doubled[n], Slowest})

\* A pause is never shorter than the failures so far ask for: the one of the last
\* failure is taken before it is doubled, at Hyperliquid. The tasks of a session end
\* with it.
BackOff ==
  /\ delay \in Fastest..Slowest /\ healthy \in BOOLEAN /\ flaps \in 0..MaxFlaps
  /\ link \in {"connect", "live", "degraded", "sleep", "poll", "rest", "ended"}
  /\ tasks \subseteq {"client", "pump", "heartbeat"}
  /\ link \in {"connect", "live", "poll", "rest"} => AtLeast(flaps)
  /\ link \in {"degraded", "sleep"} => AtLeast(Max({flaps - 1, 0}))
  /\ link \in {"connect", "degraded", "sleep"} => tasks \subseteq {"client"}
  /\ link = "ended" => tasks = {}

\* Pauses double from one failure to the next.
LEMMA Pauses ==
  ASSUME NEW n \in Nat, NEW d \in Fastest..Slowest
  PROVE  /\ Doubled[n] <= Doubled[n + 1]
         /\ d >= Min({Doubled[n], Slowest}) =>
              /\ Slower(d) \in Fastest..Slowest /\ Slower(d) >= Min({Doubled[n + 1], Slowest})
              /\ Slower(d) >= Min({Doubled[n], Slowest})
         /\ d >= Min({Doubled[0], Slowest}) /\ Slower(d) >= Min({Doubled[0], Slowest})
<1>1. Doubled[n] \in Nat \ {0} /\ Doubled[n + 1] \in Nat /\ Doubled[n + 1] = 2 * Doubled[n] /\ Doubled[0] = 1
  BY DoubledIs
<1>2. Slowest \in Nat \ {0} /\ d \in Nat /\ 1 <= d /\ d <= Slowest
  BY ProxyBounds DEF Fastest
<1>3. /\ Min({Doubled[n], Slowest}) = IF Doubled[n] <= Slowest THEN Doubled[n] ELSE Slowest
      /\ Min({Doubled[n + 1], Slowest}) = IF Doubled[n + 1] <= Slowest THEN Doubled[n + 1] ELSE Slowest
      /\ Min({Doubled[0], Slowest}) = 1
      /\ Slower(d) = IF 2 * d <= Slowest THEN 2 * d ELSE Slowest
  <2>1. 2 * d \in Int
    BY <1>2
  <2> QED BY <1>1, <1>2, <2>1, LesserOfTwo DEF Slower
<1> DEFINE a == Doubled[n]
           b == Doubled[n + 1]
           s == Slower(d)
<1> HIDE DEF a, b, s
<1>4. a \in Nat \ {0} /\ b = 2 * a /\ s = IF 2 * d <= Slowest THEN 2 * d ELSE Slowest
  BY <1>1, <1>3 DEF a, b, s
<1>5. /\ a <= b
      /\ (d >= IF a <= Slowest THEN a ELSE Slowest) =>
           /\ s \in 1..Slowest /\ s >= IF b <= Slowest THEN b ELSE Slowest
           /\ s >= IF a <= Slowest THEN a ELSE Slowest
      /\ d >= 1 /\ s >= 1
  BY <1>2, <1>4
<1> QED BY <1>3, <1>5 DEF a, b, s, Fastest

\* The count of the failures, one more each time up to its bound.
LEMMA Failures ==
  ASSUME NEW n \in 0..MaxFlaps
  PROVE  /\ Counted(n) \in 0..MaxFlaps /\ Counted(n) \in {n, n + 1}
         /\ Max({n - 1, 0}) \in Nat /\ Max({n - 1, 0}) = IF n = 0 THEN 0 ELSE n - 1
<1>1. n \in Nat /\ MaxFlaps \in Nat /\ n <= MaxFlaps /\ n + 1 \in Int /\ n - 1 \in Int
  BY ProxyBounds
<1>2. Counted(n) \in {n + 1, MaxFlaps} /\ Counted(n) <= n + 1 /\ Counted(n) <= MaxFlaps
  <2>1. \E x \in {n + 1, MaxFlaps} : \A y \in {n + 1, MaxFlaps} : x <= y
    BY <1>1
  <2> QED BY <2>1 DEF Counted, Min
<1>3. Max({n - 1, 0}) \in {n - 1, 0} /\ Max({n - 1, 0}) >= n - 1 /\ Max({n - 1, 0}) >= 0
  BY <1>1, LargerOfTwo
<1> QED BY <1>1, <1>2, <1>3

\* A failure that is counted asks for no more than those before it did.
LEMMA FailureCounted ==
  ASSUME NEW n \in 0..MaxFlaps, NEW d \in Fastest..Slowest, d >= Min({Doubled[n], Slowest})
  PROVE  d >= Min({Doubled[Max({Counted(n) - 1, 0})], Slowest})
<1> DEFINE k == Max({Counted(n) - 1, 0})
<1>0. PICK c \in 0..MaxFlaps : c = Counted(n) /\ c \in {n, n + 1}
  BY Failures
<1>a. k = IF c = 0 THEN 0 ELSE c - 1
  BY <1>0, Failures
<1>1. k \in Nat /\ (k = n \/ n = k + 1) /\ n \in Nat
  BY <1>0, <1>a, ProxyBounds
<1> HIDE DEF k
<1>2. CASE k = n
  BY <1>2 DEF k
<1>3. CASE n = k + 1
  <2>1. Doubled[k] <= Doubled[n] /\ Doubled[k] \in Nat /\ Doubled[n] \in Nat
    BY <1>1, <1>3, Pauses, DoubledIs
  <2>2. d \in Nat /\ Slowest \in Nat
    BY ProxyBounds DEF Fastest
  <2>3. d >= Min({Doubled[k], Slowest})
    BY <2>1, <2>2, LesserOfTwo
  <2> QED BY <2>3 DEF k
<1> QED BY <1>1, <1>2, <1>3

\* The same where the pause is doubled with the count.
LEMMA FailureSlows ==
  ASSUME NEW n \in 0..MaxFlaps, NEW d \in Fastest..Slowest, d >= Min({Doubled[n], Slowest})
  PROVE  Slower(d) \in Fastest..Slowest /\ Slower(d) >= Min({Doubled[Counted(n)], Slowest})
<1>1. Counted(n) = n \/ Counted(n) = n + 1
  BY Failures
<1>2. n \in Nat
  BY ProxyBounds
<1> QED BY <1>1, <1>2, Pauses

\* The first pause is the shortest, and no failure counts yet.
LEMMA BackOffInit == ProxyInit => BackOff
<1>1. 1 \in Fastest..Slowest /\ 0 \in Nat /\ 0 \in 0..MaxFlaps
  BY ProxyBounds DEF Fastest
<1>2. 1 >= Min({Doubled[0], Slowest})
  BY <1>1, Pauses
<1> QED BY <1>1, <1>2 DEF ProxyInit, BackOff, AtLeast, Fastest

\* A step of either loop.
LEMMA BackOffStep == BackOff /\ [ProxyNext]_proxyVars => BackOff'
<1> SUFFICES ASSUME BackOff, [ProxyNext]_proxyVars PROVE BackOff'
  OBVIOUS
<1>0. /\ delay \in Fastest..Slowest /\ flaps \in 0..MaxFlaps /\ flaps \in Nat /\ Fastest \in Fastest..Slowest
      /\ 0 \in 0..MaxFlaps /\ 0 \in Nat /\ Max({0 - 1, 0}) = 0
      /\ \A d \in Fastest..Slowest : d >= Min({Doubled[0], Slowest})
  <2>1. Fastest \in Fastest..Slowest /\ 0 \in 0..MaxFlaps /\ delay \in Fastest..Slowest /\ flaps \in 0..MaxFlaps
    BY ProxyBounds DEF Fastest, BackOff
  <2>2. Max({0 - 1, 0}) = 0 /\ flaps \in Nat
    BY <2>1, Failures, ProxyBounds
  <2>3. \A d \in Fastest..Slowest : d >= Min({Doubled[0], Slowest})
    BY Pauses
  <2> QED BY <2>1, <2>2, <2>3
<1>1. CASE Connect
  BY <1>1 DEF Connect, BackOff, AtLeast
<1>2. CASE ConnectFails
  <2>1. delay >= Min({Doubled[Max({Counted(flaps) - 1, 0})], Slowest}) /\ Counted(flaps) \in 0..MaxFlaps
    BY <1>0, <1>2, FailureCounted, Failures DEF ConnectFails, BackOff, AtLeast
  <2> QED BY <1>2, <2>1 DEF ConnectFails, BackOff, AtLeast
<1>3. ASSUME NEW type \in {"candle", "tick"}, NEW a \in Stamps, NEW b \in Stamps, Frame(type, {a, b}) PROVE BackOff'
  BY <1>0, <1>3 DEF Frame, BackOff, AtLeast
<1>4. CASE SessionEnds
  <2>1. CASE healthy
    BY <1>0, <1>4, <2>1 DEF SessionEnds, AfterSession, BackOff, AtLeast
  <2>2. CASE ~healthy
    <3>1. delay >= Min({Doubled[Max({Counted(flaps) - 1, 0})], Slowest}) /\ Counted(flaps) \in 0..MaxFlaps
      BY <1>0, <1>4, FailureCounted, Failures DEF SessionEnds, BackOff, AtLeast
    <3> QED BY <1>4, <2>2, <3>1 DEF SessionEnds, AfterSession, BackOff, AtLeast
  <2> QED BY <2>1, <2>2
<1>5. CASE Sleep
  BY <1>5 DEF Sleep, BackOff, AtLeast
<1>6. CASE Wake
  <2>1. Slower(delay) \in Fastest..Slowest /\ Slower(delay) >= Min({Doubled[flaps], Slowest})
    <3>1. delay >= Min({Doubled[Max({flaps - 1, 0})], Slowest})
      BY <1>6 DEF Wake, BackOff, AtLeast
    <3>2. CASE flaps = 0
      BY <1>0, <3>1, <3>2, Failures, Pauses
    <3>3. CASE flaps # 0
      <4>1. Max({flaps - 1, 0}) = flaps - 1 /\ flaps - 1 \in Nat /\ (flaps - 1) + 1 = flaps
        BY <1>0, <3>3, Failures
      <4> QED BY <1>0, <3>1, <4>1, Pauses
    <3> QED BY <3>2, <3>3
  <2> QED BY <1>6, <2>1 DEF Wake, BackOff, AtLeast
<1>7. CASE PollShows
  BY <1>0, <1>7 DEF PollShows, BackOff, AtLeast
<1>8. CASE PollFails
  <2>1. /\ Slower(delay) \in Fastest..Slowest /\ Slower(delay) >= Min({Doubled[Counted(flaps)], Slowest})
        /\ Counted(flaps) \in 0..MaxFlaps
    BY <1>0, <1>8, FailureSlows, Failures DEF PollFails, BackOff, AtLeast
  <2> QED BY <1>8, <2>1 DEF PollFails, BackOff, AtLeast
<1>9. CASE PollAgain \/ MarketMovesOn \/ BrowserLeaves \/ ProxyEnds \/ PollEnds \/ UNCHANGED proxyVars
  BY <1>9 DEF PollAgain, MarketMovesOn, BrowserLeaves, ProxyEnds, PollEnds, proxyVars, BackOff, AtLeast
<1> QED BY <1>1, <1>2, <1>3, <1>4, <1>5, <1>6, <1>7, <1>8, <1>9 DEF ProxyNext

\* Failures in a row are met with pauses that double up to the cap, and a socket that
\* ended leaves no task behind, for any clock, cap and number of failures counted.
THEOREM FailuresBackOff == ProxySpec => []FlappingBacksOff
<1>1. BackOff => FlappingBacksOff
  BY DEF BackOff, AtLeast, FlappingBacksOff
<1> QED BY <1>1, BackOffInit, BackOffStep, PTL DEF ProxySpec

\* The market's clock, the two chronologies and the browser.
Dates == [bucket : Nat, candle : Nat, tick : Nat]
Dated ==
  /\ venue \in {"hyperliquid", "mexc"} /\ clock \in 1..MaxClock /\ browser \in BOOLEAN
  /\ timeline \in Dates /\ displayed \in Dates

\* A time that is not of the future leaves the chronologies dates.
LEMMA DatesOf ==
  ASSUME NEW t \in Dates, NEW n \in Nat, NEW type \in {"candle", "tick"}
  PROVE  /\ Bucket(n) \in Nat
         /\ [t EXCEPT !.bucket = Bucket(n), ![type] = n] \in Dates
         /\ [t EXCEPT !.tick = n] \in Dates
         /\ [t EXCEPT !.bucket = Max({Bucket(n), @}), ![type] = Max({n, @})] \in Dates
<1>1. Bucket(n) \in Nat
  <2>1. n + Interval - 1 \in Nat /\ Interval \in Nat \ {0}
    BY ProxyBounds
  <2>q. QED BY <2>1 DEF Bucket
<1>2. t.bucket \in Nat /\ t.candle \in Nat /\ t.tick \in Nat
  BY DEF Dates
<1>3. \A a, b \in Nat : Max({a, b}) \in Nat
  <2> TAKE a, b \in Nat
  <2>1. Max({a, b}) \in {a, b}
    BY LargerOfTwo
  <2>q. QED BY <2>1
<1>4. t.bucket \in Nat /\ t[type] \in Nat
  BY <1>2
<1>5. Max({Bucket(n), t.bucket}) \in Nat /\ Max({n, t[type]}) \in Nat
  BY <1>1, <1>3, <1>4
<1>6. \A a, b \in Nat : [t EXCEPT !.bucket = a, ![type] = b] \in Dates /\ [t EXCEPT !.tick = b] \in Dates
  BY DEF Dates
<1>q. QED BY <1>1, <1>5, <1>6

\* Every step keeps them.
LEMMA DatedStep == Dated /\ [ProxyNext]_proxyVars => Dated'
<1> SUFFICES ASSUME Dated, [ProxyNext]_proxyVars PROVE Dated'
  OBVIOUS
<1>0. Stamps \subseteq Nat
  BY ProxyBounds DEF Dated, Stamps
<1>1. ASSUME NEW type \in {"candle", "tick"}, NEW a \in Stamps, NEW b \in Stamps, Frame(type, {a, b})
      PROVE  Dated'
  <2>1. PICK time \in Newest(type, {a, b}) :
          /\ timeline' = IF time = 0 THEN timeline
                         ELSE [timeline EXCEPT !.bucket = Max({Bucket(time), @}), ![type] = Max({time, @})]
          /\ displayed' = IF time = 0 THEN displayed
                          ELSE [displayed EXCEPT !.bucket = Bucket(time), ![type] = time]
    BY <1>1 DEF Frame
  <2>2. time \in Nat
    <3>1. Max({a, b}) \in {a, b}
      BY <1>0, LargerOfTwo
    <3>q. QED BY <1>0, <2>1, <3>1 DEF Newest
  <2>3. timeline' \in Dates /\ displayed' \in Dates
    BY <2>1, <2>2, DatesOf DEF Dated
  <2>q. QED BY <1>1, <2>3 DEF Frame, Dated
<1>2. CASE PollShows
  <2>1. PICK time \in Stamps :
          /\ timeline' = IF time = 0 THEN timeline ELSE [timeline EXCEPT !.tick = time]
          /\ displayed' = IF time = 0 THEN displayed
                          ELSE [displayed EXCEPT !.bucket = Bucket(time), !.tick = time]
    BY <1>2 DEF PollShows
  <2>2. [displayed EXCEPT !.bucket = Bucket(time), !.tick = time] \in Dates
        /\ [timeline EXCEPT !.tick = time] \in Dates
    <3>1. [displayed EXCEPT !.bucket = Bucket(time), !["tick"] = time] \in Dates
          /\ [timeline EXCEPT !.tick = time] \in Dates
      BY <1>0, DatesOf DEF Dated
    <3>q. QED BY <3>1
  <2>3. timeline' \in Dates /\ displayed' \in Dates
    BY <2>1, <2>2 DEF Dated
  <2>q. QED BY <1>2, <2>3 DEF PollShows, Dated
<1>3. CASE \/ Connect \/ ConnectFails \/ SessionEnds \/ Sleep \/ Wake \/ PollFails \/ PollAgain
           \/ ProxyEnds \/ PollEnds \/ UNCHANGED proxyVars
  BY <1>3 DEF Connect, ConnectFails, SessionEnds, Sleep, Wake, PollFails, PollAgain, ProxyEnds, PollEnds,
     proxyVars, Dated
<1>4. CASE MarketMovesOn
  <2>1. clock + 1 \in 1..MaxClock
    BY <1>4, ProxyBounds DEF MarketMovesOn, Dated
  <2>q. QED BY <1>4, <2>1 DEF MarketMovesOn, Dated
<1>5. CASE BrowserLeaves
  BY <1>5 DEF BrowserLeaves, Dated
<1>q. QED BY <1>1, <1>2, <1>3, <1>4, <1>5 DEF ProxyNext

\* Every step of the loops, of the market and of the browser keeps the types of the
\* socket's state.
THEOREM ProxyTyped == ProxySpec => []ProxyTypeOK
<1>1. ProxyInit => Dated
  BY ProxyBounds DEF ProxyInit, Dated, Dates, Undated
<1>2. Dated /\ BackOff => ProxyTypeOK
  BY DEF Dated, Dates, BackOff, ProxyTypeOK
<1>q. QED BY <1>1, <1>2, DatedStep, BackOffInit, BackOffStep, PTL DEF ProxySpec

-----------------------------------------------------------------------------
(* AdvisoryCache *)

\* Where a request looks and waits is a cell and a key.
LEMMA CellAndKey ==
  ASSUME NEW r \in AdvisoryRequests, NEW c \in Contexts
  PROVE  Cell(r, c) \in Cells /\ Key(r, c) \in Keys
<1>1. c.client \in Clients /\ c.gen \in 0..MaxSwaps /\ c.provider \in Providers BY DEF Contexts
<1> QED BY <1>1 DEF Cell, Key, Cells, Keys

\* The end of a request keeps the types.
LEMMA EndsTyped ==
  ASSUME AdvisoryTypeOK, NEW r \in AdvisoryRequests, NEW a \in Contexts \cup {Nothing}, EndsWith(r, a)
  PROVE  /\ phase' \in [AdvisoryRequests -> Running \cup {"idle", "wait", "done"}]
         /\ advice' \in [AdvisoryRequests -> Contexts \cup {Nothing}]
         /\ entries' \in [Keys -> AdvisoryRequests \cup {Nothing}]
         /\ entry' \in [AdvisoryRequests -> AdvisoryRequests \cup {Nothing}]
  BY DEF AdvisoryTypeOK, EndsWith

\* A step of a request keeps the types.
LEMMA GoesTyped ==
  ASSUME AdvisoryTypeOK, NEW r \in AdvisoryRequests, NEW step \in Running, GoesTo(r, step)
  PROVE  /\ phase' \in [AdvisoryRequests -> Running \cup {"idle", "wait", "done"}]
         /\ advice' \in [AdvisoryRequests -> Contexts \cup {Nothing}]
         /\ entries' \in [Keys -> AdvisoryRequests \cup {Nothing}]
         /\ entry' \in [AdvisoryRequests -> AdvisoryRequests \cup {Nothing}]
  BY DEF AdvisoryTypeOK, GoesTo

\* The types hold initially.
LEMMA AdvisoryTypeInit == AdvisoryInit => AdvisoryTypeOK
<1> SUFFICES ASSUME AdvisoryInit PROVE AdvisoryTypeOK OBVIOUS
<1>1. now \in Contexts BY DEF AdvisoryInit
<1> QED BY <1>1 DEF AdvisoryInit, AdvisoryTypeOK, Clients

\* A swap makes a context.
LEMMA SwapTyped ==
  ASSUME NEW c \in Contexts, NEW k \in Clients, NEW p \in Providers, c.gen < MaxSwaps
  PROVE  /\ [client |-> k, gen |-> c.gen + 1, provider |-> p] \in Contexts
         /\ [c EXCEPT !.gen = c.gen + 1, !.provider = p] \in Contexts
<1>1. c.gen + 1 \in 0..MaxSwaps BY AdvisoryAssumption DEF Contexts
<1> QED BY <1>1 DEF Contexts

\* The types are kept by every step.
LEMMA AdvisoryTypeStep == AdvisoryTypeOK /\ [AdvisoryNext]_advisoryVars => AdvisoryTypeOK'
<1> SUFFICES ASSUME AdvisoryTypeOK, [AdvisoryNext]_advisoryVars PROVE AdvisoryTypeOK' OBVIOUS
<1> USE DEF setupVars, actVars
<1>N. /\ now \in Contexts /\ ctx \in [AdvisoryRequests -> Contexts]
      /\ stored \in [Cells -> Contexts \cup {Nothing}]
  BY DEF AdvisoryTypeOK
<1>C. \A r \in AdvisoryRequests : ctx[r] \in Contexts /\ Cell(r, ctx[r]) \in Cells
         /\ stored[Cell(r, ctx[r])] \in Contexts \cup {Nothing}
  BY <1>N, CellAndKey
<1>1. ASSUME NEW r \in AdvisoryRequests, BeginAdvisory(r) PROVE AdvisoryTypeOK'
  <2>1. ctx' \in [AdvisoryRequests -> Contexts] BY <1>1, <1>N DEF BeginAdvisory
  <2>2. Cell(r, now) \in Cells /\ Key(r, now) \in Keys BY <1>N, CellAndKey
  <2>3. stored[Cell(r, now)] \in Contexts \cup {Nothing} BY <1>N, <2>2
  <2>4. CASE /\ phase' = [phase EXCEPT ![r] = "done"]
             /\ advice' = [advice EXCEPT ![r] = stored[Cell(r, now)]]
             /\ UNCHANGED <<entry, entries>>
    BY <1>1, <2>1, <2>3, <2>4 DEF BeginAdvisory, AdvisoryTypeOK
  <2>5. ASSUME NEW e \in AdvisoryRequests \cup {Nothing}, phase' = [phase EXCEPT ![r] = "wait"],
               entry' = [entry EXCEPT ![r] = e], entries' = [entries EXCEPT ![Key(r, now)] = e],
               UNCHANGED advice
        PROVE AdvisoryTypeOK'
    BY <1>1, <2>1, <2>5 DEF BeginAdvisory, AdvisoryTypeOK
  <2>6. CASE GoesTo(r, "fetch")
    BY <1>1, <2>1, <2>6, GoesTyped DEF BeginAdvisory, AdvisoryTypeOK, Running
  <2>7. (IF entries[Key(r, now)] = Nothing THEN r ELSE entries[Key(r, now)]) \in AdvisoryRequests \cup {Nothing}
    BY <2>2 DEF AdvisoryTypeOK
  <2> QED BY <1>1, <2>4, <2>5, <2>6, <2>7 DEF BeginAdvisory
<1>2. ASSUME NEW r \in AdvisoryRequests, Enter(r) PROVE AdvisoryTypeOK'
  <2>1. CASE \E a \in Contexts \cup {Nothing} : EndsWith(r, a)
    BY <1>2, <2>1, EndsTyped DEF Enter, AdvisoryTypeOK
  <2>2. CASE GoesTo(r, "fetch")
    BY <1>2, <2>2, GoesTyped DEF Enter, AdvisoryTypeOK, Running
  <2> QED BY <1>2, <1>C, <2>1, <2>2 DEF Enter
<1>3. ASSUME NEW r \in AdvisoryRequests, GiveUp(r) PROVE AdvisoryTypeOK'
  BY <1>3, EndsTyped DEF GiveUp, AdvisoryTypeOK
<1>4. ASSUME NEW r \in AdvisoryRequests, ContinueAnalysis(r) PROVE AdvisoryTypeOK'
  <2>1. CASE GoesTo(r, "ask") /\ UNCHANGED stored
    BY <1>4, <2>1, GoesTyped DEF ContinueAnalysis, AdvisoryTypeOK, Running
  <2>2. CASE GoesTo(r, "journal") /\ UNCHANGED stored
    BY <1>4, <2>2, GoesTyped DEF ContinueAnalysis, AdvisoryTypeOK, Running
  <2>3. CASE EndsWith(r, ctx[r]) /\ stored' = [stored EXCEPT ![Cell(r, ctx[r])] = ctx[r]]
    <3>1. stored' \in [Cells -> Contexts \cup {Nothing}] BY <1>N, <1>C, <2>3
    <3> QED BY <1>4, <1>C, <2>3, <3>1, EndsTyped DEF ContinueAnalysis, AdvisoryTypeOK
  <2> QED BY <1>4, <2>1, <2>2, <2>3 DEF ContinueAnalysis
<1>5. ASSUME NEW r \in AdvisoryRequests, ContinueReevaluation(r) PROVE AdvisoryTypeOK'
  <2>1. CASE GoesTo(r, "ask")
    BY <1>5, <2>1, GoesTyped DEF ContinueReevaluation, AdvisoryTypeOK, Running
  <2>2. CASE EndsWith(r, ctx[r])
    BY <1>5, <1>C, <2>2, EndsTyped DEF ContinueReevaluation, AdvisoryTypeOK
  <2> QED BY <1>5, <2>1, <2>2 DEF ContinueReevaluation
<1>6. ASSUME NEW r \in AdvisoryRequests, ContinueSnapshot(r) PROVE AdvisoryTypeOK'
  <2>1. EndsWith(r, ctx[r]) /\ stored' = [stored EXCEPT ![Cell(r, ctx[r])] = ctx[r]]
    BY <1>6 DEF ContinueSnapshot
  <2>2. stored' \in [Cells -> Contexts \cup {Nothing}] BY <1>N, <1>C, <2>1
  <2> QED BY <1>6, <1>C, <2>1, <2>2, EndsTyped DEF ContinueSnapshot, AdvisoryTypeOK
<1>7. CASE SwapProvider
  <2>1. now.client \in Clients BY <1>N DEF Contexts
  <2>2. now' \in Contexts BY <1>7, <1>N, <2>1, SwapTyped DEF SwapProvider
  <2> QED BY <1>7, <2>2 DEF SwapProvider, AdvisoryTypeOK, requestVars
<1>8. ASSUME NEW w \in Savers, Submit(w) \/ Discard(w) \/ CloseOld(w) PROVE AdvisoryTypeOK'
  <2>1. now' = now /\ UNCHANGED <<requestVars, actVars, open, old>>
        /\ saver' \in [Savers -> {"idle", "ready", "installed", "done", "lost"}]
        /\ closedClients' \subseteq Clients
    BY <1>8 DEF Submit, Discard, CloseOld, AdvisoryTypeOK, Clients
  <2> QED BY <2>1 DEF AdvisoryTypeOK, requestVars
<1>9. ASSUME NEW w \in Savers, Install(w) PROVE AdvisoryTypeOK'
  <2>1. now.client \in Clients /\ w \in Clients BY <1>N DEF Contexts, Clients
  <2>2. now' \in Contexts BY <1>9, <1>N, <2>1, SwapTyped DEF Install
  <2>3. old' \in [Savers -> Clients] BY <1>9, <2>1 DEF Install, AdvisoryTypeOK
  <2> QED BY <1>9, <2>2, <2>3 DEF Install, AdvisoryTypeOK, requestVars
<1>10. ASSUME NEW m \in Actions, Queue(m) \/ TakeTradeLock(m) \/ LeaveTradeLock(m) PROVE AdvisoryTypeOK'
  <2>1. now.client \in Clients BY <1>N DEF Contexts
  <2>2. uses' \in [Actions -> Clients] /\ act' \in [Actions -> {"idle", "queued", "inside", "done"}]
        /\ UNCHANGED <<now, requestVars, setupVars>>
    BY <1>10, <2>1 DEF Queue, TakeTradeLock, LeaveTradeLock, AdvisoryTypeOK
  <2> QED BY <2>2 DEF AdvisoryTypeOK, requestVars
<1>11. CASE UNCHANGED advisoryVars BY <1>11 DEF advisoryVars, requestVars, AdvisoryTypeOK
<1> QED BY <1>1, <1>2, <1>3, <1>4, <1>5, <1>6, <1>7, <1>8, <1>9, <1>10, <1>11 DEF AdvisoryNext

\* Who waits at a key or runs under it holds the lock entry that is stored there;
\* of the holders of an entry one runs.
Flights ==
  /\ \A r \in AdvisoryRequests : ~Shared(r) => entry[r] = Nothing
  /\ \A r \in AdvisoryRequests : Shared(r) /\ phase[r] \in Running \cup {"wait"} =>
       entry[r] # Nothing /\ entries[Key(r, ctx[r])] = entry[r]
  /\ \A r \in AdvisoryRequests : entry[r] # Nothing => phase[r] \in Running \cup {"wait"}
  /\ \A q, r \in AdvisoryRequests : q # r /\ entry[r] # Nothing /\ entry[q] = entry[r] =>
       phase[q] \notin Running \/ phase[r] \notin Running

\* Nobody waits or runs at first.
LEMMA FlightsInit == AdvisoryInit => Flights
  BY DEF AdvisoryInit, Flights, Running

\* A request that ends gives up its entry, and the key's with it if nobody else has it.
LEMMA FlightsEnd ==
  ASSUME AdvisoryTypeOK, Flights, NEW r \in AdvisoryRequests, NEW a, EndsWith(r, a), UNCHANGED ctx,
         phase[r] # "idle"
  PROVE  Flights'
<1>1. \A q \in AdvisoryRequests \ {r} : phase'[q] = phase[q] /\ entry'[q] = entry[q]
  BY DEF EndsWith, AdvisoryTypeOK
<1>2. phase'[r] = "done" /\ entry'[r] = Nothing BY DEF EndsWith, AdvisoryTypeOK
<1>3. \A q \in AdvisoryRequests \ {r} : Shared(q) /\ phase[q] \in Running \cup {"wait"} =>
        entries'[Key(q, ctx[q])] = entry[q]
  <2> TAKE q \in AdvisoryRequests \ {r}
  <2> HAVE Shared(q) /\ phase[q] \in Running \cup {"wait"}
  <2>1. entry[q] # Nothing /\ entries[Key(q, ctx[q])] = entry[q] BY DEF Flights
  <2>2. Key(q, ctx[q]) \in Keys BY CellAndKey DEF AdvisoryTypeOK
  <2>3. CASE Drops(r)
    <3>1. entry[q] # entry[r] /\ entries[Key(r, ctx[r])] = entry[r] BY <2>3 DEF Drops
    <3>2. Key(q, ctx[q]) # Key(r, ctx[r]) BY <2>1, <3>1
    <3> QED BY <2>1, <2>2, <2>3, <3>2 DEF EndsWith, AdvisoryTypeOK
  <2>4. CASE ~Drops(r) BY <2>1, <2>4 DEF EndsWith
  <2> QED BY <2>3, <2>4
<1> QED BY <1>1, <1>2, <1>3 DEF Flights, Running

\* A request that goes on runs already, or was granted the lock.
LEMMA FlightsGo ==
  ASSUME AdvisoryTypeOK, Flights, NEW r \in AdvisoryRequests, NEW step \in Running, GoesTo(r, step),
         UNCHANGED ctx, phase[r] \in Running \/ Granted(r)
  PROVE  Flights'
<1>1. \A q \in AdvisoryRequests \ {r} : phase'[q] = phase[q] BY DEF GoesTo, AdvisoryTypeOK
<1>2. phase'[r] = step BY DEF GoesTo, AdvisoryTypeOK
<1>3. UNCHANGED <<entry, entries>> BY DEF GoesTo
<1>4. phase[r] \in Running \cup {"wait"} BY DEF Granted
<1>5. \A q \in AdvisoryRequests \ {r} : entry[r] # Nothing /\ entry[q] = entry[r] => phase[q] \notin Running
  BY DEF Granted, Flights
<1> QED BY <1>1, <1>2, <1>3, <1>4, <1>5 DEF Flights

\* A request that begins takes its place behind the entry of its key.
LEMMA FlightsBegin ==
  ASSUME AdvisoryTypeOK, Flights, NEW r \in AdvisoryRequests, BeginAdvisory(r)
  PROVE  Flights'
<1>0. phase[r] = "idle" /\ entry[r] = Nothing BY DEF BeginAdvisory, Flights, Running
<1>1. now \in Contexts /\ Key(r, now) \in Keys BY CellAndKey DEF AdvisoryTypeOK
<1>2. ctx'[r] = now /\ \A q \in AdvisoryRequests \ {r} : ctx'[q] = ctx[q] BY DEF BeginAdvisory, AdvisoryTypeOK
<1>3. CASE phase' = [phase EXCEPT ![r] = "done"] /\ UNCHANGED <<entry, entries>>
  <2>1. phase'[r] = "done" /\ \A q \in AdvisoryRequests \ {r} : phase'[q] = phase[q] BY <1>3 DEF AdvisoryTypeOK
  <2> QED BY <1>0, <1>2, <1>3, <2>1 DEF Flights, Running
<1>4. CASE ~Shared(r) /\ GoesTo(r, "fetch")
  <2>1. phase'[r] = "fetch" /\ \A q \in AdvisoryRequests \ {r} : phase'[q] = phase[q]
    BY <1>4 DEF GoesTo, AdvisoryTypeOK
  <2> QED BY <1>0, <1>2, <1>4, <2>1 DEF Flights, GoesTo
<1>5. ASSUME Shared(r), phase' = [phase EXCEPT ![r] = "wait"],
             NEW e, e = IF entries[Key(r, now)] = Nothing THEN r ELSE entries[Key(r, now)],
             entry' = [entry EXCEPT ![r] = e], entries' = [entries EXCEPT ![Key(r, now)] = e]
      PROVE  Flights'
  <2>1. phase'[r] = "wait" /\ \A q \in AdvisoryRequests \ {r} : phase'[q] = phase[q]
    BY <1>5 DEF AdvisoryTypeOK
  <2>2. entry'[r] = e /\ e # Nothing /\ \A q \in AdvisoryRequests \ {r} : entry'[q] = entry[q]
    BY <1>5, AdvisoryAssumption DEF AdvisoryTypeOK
  <2>3. entries'[Key(r, now)] = e BY <1>1, <1>5 DEF AdvisoryTypeOK
  <2>4. \A q \in AdvisoryRequests \ {r} : Shared(q) /\ phase[q] \in Running \cup {"wait"} =>
          entries'[Key(q, ctx[q])] = entry[q]
    <3> TAKE q \in AdvisoryRequests \ {r}
    <3> HAVE Shared(q) /\ phase[q] \in Running \cup {"wait"}
    <3>1. entry[q] # Nothing /\ entries[Key(q, ctx[q])] = entry[q] BY DEF Flights
    <3>2. CASE Key(q, ctx[q]) = Key(r, now) BY <1>5, <2>3, <3>1, <3>2
    <3>3. CASE Key(q, ctx[q]) # Key(r, now)
      <4>1. Key(q, ctx[q]) \in Keys BY CellAndKey DEF AdvisoryTypeOK
      <4> QED BY <1>5, <3>1, <3>3, <4>1 DEF AdvisoryTypeOK
    <3> QED BY <3>2, <3>3
  <2> QED BY <1>2, <1>5, <2>1, <2>2, <2>3, <2>4 DEF Flights, Running
<1> QED BY <1>3, <1>4, <1>5 DEF BeginAdvisory

\* Every step keeps the entries of the lock in order.
LEMMA FlightsStep == AdvisoryTypeOK /\ Flights /\ [AdvisoryNext]_advisoryVars => Flights'
<1> SUFFICES ASSUME AdvisoryTypeOK, Flights, [AdvisoryNext]_advisoryVars PROVE Flights' OBVIOUS
<1>F. ASSUME UNCHANGED requestVars PROVE Flights' BY <1>F DEF Flights, requestVars
<1>1. ASSUME NEW r \in AdvisoryRequests, Enter(r) PROVE Flights'
  BY <1>1, FlightsEnd, FlightsGo DEF Enter, Granted, Running
<1>2. ASSUME NEW r \in AdvisoryRequests, GiveUp(r) PROVE Flights'
  BY <1>2, FlightsEnd DEF GiveUp, Running
<1>3. ASSUME NEW r \in AdvisoryRequests,
             ContinueAnalysis(r) \/ ContinueReevaluation(r) \/ ContinueSnapshot(r)
      PROVE  Flights'
  BY <1>3, FlightsEnd, FlightsGo DEF ContinueAnalysis, ContinueReevaluation, ContinueSnapshot, Running
<1>4. CASE SwapProvider BY <1>4, <1>F DEF SwapProvider
<1>5. ASSUME NEW w \in Savers, Submit(w) \/ Install(w) \/ Discard(w) \/ CloseOld(w) PROVE Flights'
  BY <1>5, <1>F DEF Submit, Install, Discard, CloseOld
<1>6. ASSUME NEW m \in Actions, Queue(m) \/ TakeTradeLock(m) \/ LeaveTradeLock(m) PROVE Flights'
  BY <1>6, <1>F DEF Queue, TakeTradeLock, LeaveTradeLock
<1>7. CASE UNCHANGED advisoryVars BY <1>7, <1>F DEF advisoryVars
<1> QED BY <1>1, <1>2, <1>3, <1>4, <1>5, <1>6, <1>7, FlightsBegin DEF AdvisoryNext

\* Two shared requests for one key never run at the same time, however many requests,
\* keys and swaps there are.
THEOREM OneRunPerKey == AdvisorySpec => []OneFlight
<1>1. AdvisoryTypeOK /\ Flights => OneFlight
  <2> SUFFICES ASSUME Flights, NEW q \in AdvisoryRequests, NEW r \in AdvisoryRequests, q # r,
                      Shared(q), Shared(r), phase[q] \in Running, phase[r] \in Running,
                      Key(q, ctx[q]) = Key(r, ctx[r])
               PROVE FALSE
    BY DEF OneFlight
  <2>1. entry[r] # Nothing /\ entry[q] = entry[r] BY DEF Flights
  <2> QED BY <2>1 DEF Flights
<1> QED BY <1>1, AdvisoryTypeInit, AdvisoryTypeStep, FlightsInit, FlightsStep, PTL DEF AdvisorySpec

\* The requests, caches and swaps keep their types.
THEOREM AdvisoryTyped == AdvisorySpec => []AdvisoryTypeOK
<1> QED BY AdvisoryTypeInit, AdvisoryTypeStep, PTL DEF AdvisorySpec

-----------------------------------------------------------------------------
\* A cached snapshot is of the client it is stored for, a cached analysis of the
\* generation, and of the client that is active as long as the generation is.
Fresh ==
  /\ \A c \in Clients : stored[<<"snapshot", c>>] # Nothing => stored[<<"snapshot", c>>].client = c
  /\ \A g \in 0..MaxSwaps : stored[<<"analysis", g>>] # Nothing =>
       /\ g <= now.gen /\ stored[<<"analysis", g>>].gen = g
       /\ g = now.gen => stored[<<"analysis", g>>].client = now.client

\* Nothing is stored at first.
LEMMA FreshInit == AdvisoryInit => Fresh
  BY DEF AdvisoryInit, Fresh, Cells

\* A result computed without a change in between is stored as what it is.
LEMMA FreshStore ==
  ASSUME AdvisoryTypeOK, Fresh, NEW r \in AdvisoryRequests, ~Stale(r), UNCHANGED now,
         stored' = [stored EXCEPT ![Cell(r, ctx[r])] = ctx[r]]
  PROVE  Fresh'
<1>1. ctx[r] \in Contexts /\ Cell(r, ctx[r]) \in Cells BY CellAndKey DEF AdvisoryTypeOK
<1>2. ctx[r].client = now.client /\ (r \notin Snapshots => ctx[r].gen = now.gen) BY DEF Stale
<1>3. now.gen \in Nat BY DEF AdvisoryTypeOK, Contexts
<1>4. ASSUME NEW c \in Clients, stored'[<<"snapshot", c>>] # Nothing
      PROVE  stored'[<<"snapshot", c>>].client = c
  <2>1. <<"snapshot", c>> \in Cells BY DEF Cells
  <2>2. CASE Cell(r, ctx[r]) = <<"snapshot", c>>
    BY <1>1, <2>1, <2>2 DEF Cell, AdvisoryTypeOK
  <2>3. CASE Cell(r, ctx[r]) # <<"snapshot", c>>
    BY <1>4, <2>1, <2>3 DEF Fresh, AdvisoryTypeOK
  <2> QED BY <2>2, <2>3
<1>5. ASSUME NEW g \in 0..MaxSwaps, stored'[<<"analysis", g>>] # Nothing
      PROVE  /\ g <= now.gen /\ stored'[<<"analysis", g>>].gen = g
             /\ g = now.gen => stored'[<<"analysis", g>>].client = now.client
  <2>1. <<"analysis", g>> \in Cells BY DEF Cells
  <2>2. CASE Cell(r, ctx[r]) = <<"analysis", g>>
    <3>1. r \notin Snapshots /\ g = ctx[r].gen BY <2>2 DEF Cell
    <3> QED BY <1>1, <1>2, <1>3, <2>1, <2>2, <3>1 DEF AdvisoryTypeOK
  <2>3. CASE Cell(r, ctx[r]) # <<"analysis", g>>
    BY <1>5, <2>1, <2>3 DEF Fresh, AdvisoryTypeOK
  <2> QED BY <2>2, <2>3
<1> QED BY <1>4, <1>5 DEF Fresh

\* A swap opens a generation nothing is stored for.
LEMMA FreshSwap ==
  ASSUME AdvisoryTypeOK, Fresh, UNCHANGED stored, now'.gen = now.gen + 1
  PROVE  Fresh'
<1>1. now.gen \in Nat BY DEF AdvisoryTypeOK, Contexts
<1>2. ASSUME NEW g \in 0..MaxSwaps, stored[<<"analysis", g>>] # Nothing
      PROVE  g <= now.gen + 1 /\ g # now.gen + 1 /\ stored[<<"analysis", g>>].gen = g
  BY <1>1, <1>2 DEF Fresh
<1> QED BY <1>2 DEF Fresh

\* Every step keeps what is stored in step with the context.
LEMMA FreshStep == AdvisoryTypeOK /\ Fresh /\ [AdvisoryNext]_advisoryVars => Fresh'
<1> SUFFICES ASSUME AdvisoryTypeOK, Fresh, [AdvisoryNext]_advisoryVars PROVE Fresh' OBVIOUS
<1>F. ASSUME UNCHANGED <<now, stored>> PROVE Fresh' BY <1>F DEF Fresh
<1>N. now \in [client : Clients, gen : 0..MaxSwaps, provider : Providers] BY DEF AdvisoryTypeOK, Contexts
<1>1. ASSUME NEW r \in AdvisoryRequests, BeginAdvisory(r) \/ Enter(r) \/ GiveUp(r) \/ ContinueReevaluation(r)
      PROVE  Fresh'
  BY <1>1, <1>F DEF BeginAdvisory, Enter, GiveUp, ContinueReevaluation
<1>2. ASSUME NEW r \in AdvisoryRequests, ContinueAnalysis(r) \/ ContinueSnapshot(r)
      PROVE  Fresh'
  BY <1>2, <1>F, FreshStore DEF ContinueAnalysis, ContinueSnapshot
<1>3. CASE SwapProvider
  <2>1. now'.gen = now.gen + 1 BY <1>3, <1>N DEF SwapProvider
  <2> QED BY <1>3, <2>1, FreshSwap DEF SwapProvider, requestVars
<1>4. ASSUME NEW w \in Savers, Install(w) PROVE Fresh'
  <2>1. now'.gen = now.gen + 1 BY <1>4 DEF Install
  <2> QED BY <1>4, <2>1, FreshSwap DEF Install, requestVars
<1>5. ASSUME NEW w \in Savers, Submit(w) \/ Discard(w) \/ CloseOld(w) PROVE Fresh'
  BY <1>5, <1>F DEF Submit, Discard, CloseOld, requestVars
<1>6. ASSUME NEW m \in Actions, Queue(m) \/ TakeTradeLock(m) \/ LeaveTradeLock(m) PROVE Fresh'
  BY <1>6, <1>F DEF Queue, TakeTradeLock, LeaveTradeLock, requestVars
<1>7. CASE UNCHANGED advisoryVars BY <1>7, <1>F DEF advisoryVars, requestVars
<1> QED BY <1>1, <1>2, <1>3, <1>4, <1>5, <1>6, <1>7 DEF AdvisoryNext

\* An answer a request is given, for what is active now.
CurrentFor(r, a) == a.client = now.client /\ (r \notin Snapshots => a.gen = now.gen)

\* What a cell holds of the active context is current.
LEMMA CachedIsCurrent ==
  ASSUME AdvisoryTypeOK, Fresh, NEW r \in AdvisoryRequests, NEW c \in Contexts,
         c.client = now.client, r \notin Snapshots => c.gen = now.gen,
         stored[Cell(r, c)] # Nothing
  PROVE  CurrentFor(r, stored[Cell(r, c)])
<1>1. now.client \in Clients /\ now.gen \in 0..MaxSwaps BY DEF AdvisoryTypeOK, Contexts
<1>2. CASE r \in Snapshots BY <1>1, <1>2 DEF Cell, Fresh, CurrentFor
<1>3. CASE r \notin Snapshots BY <1>1, <1>3 DEF Cell, Fresh, CurrentFor
<1> QED BY <1>2, <1>3

\* No answer is computed, cached or waited for under a replaced client or AI
\* configuration and then given out.
THEOREM CurrentAdvice == AdvisorySpec => AdviceIsCurrent
<1> DEFINE Given ==
      \A r \in AdvisoryRequests : advice'[r] \notin {advice[r], Nothing} =>
        /\ advice'[r].client = now'.client
        /\ r \notin Snapshots => advice'[r].gen = now'.gen
<1>1. ASSUME AdvisoryTypeOK, Fresh, AdvisoryNext PROVE Given
  <2>F. ASSUME UNCHANGED advice PROVE Given BY <2>F
  <2>A. ASSUME NEW r \in AdvisoryRequests, NEW a, UNCHANGED now, advice' = [advice EXCEPT ![r] = a],
               a = Nothing \/ CurrentFor(r, a)
        PROVE  Given
    BY <1>1, <2>A DEF AdvisoryTypeOK, CurrentFor
  <2>1. ASSUME NEW r \in AdvisoryRequests, BeginAdvisory(r) PROVE Given
    <3>1. CASE UNCHANGED advice BY <2>F, <3>1
    <3>2. CASE stored[Cell(r, now)] # Nothing /\ advice' = [advice EXCEPT ![r] = stored[Cell(r, now)]]
      <4>1. CurrentFor(r, stored[Cell(r, now)]) BY <1>1, <3>2, CachedIsCurrent DEF AdvisoryTypeOK
      <4>2. UNCHANGED now BY <2>1 DEF BeginAdvisory
      <4> QED BY <2>A, <3>2, <4>1, <4>2
    <3> QED BY <2>1, <3>1, <3>2 DEF BeginAdvisory, GoesTo
  <2>2. ASSUME NEW r \in AdvisoryRequests, Enter(r) PROVE Given
    <3>0. UNCHANGED now /\ ctx[r] \in Contexts BY <1>1, <2>2 DEF Enter, AdvisoryTypeOK
    <3>1. CASE EndsWith(r, Nothing) BY <2>A, <3>0, <3>1 DEF EndsWith
    <3>2. CASE ~Stale(r) /\ stored[Cell(r, ctx[r])] # Nothing /\ EndsWith(r, stored[Cell(r, ctx[r])])
      <4>1. CurrentFor(r, stored[Cell(r, ctx[r])]) BY <1>1, <3>0, <3>2, CachedIsCurrent DEF Stale
      <4> QED BY <2>A, <3>0, <3>2, <4>1 DEF EndsWith
    <3>3. CASE GoesTo(r, "fetch") BY <2>F, <3>3 DEF GoesTo
    <3> QED BY <2>2, <3>1, <3>2, <3>3 DEF Enter
  <2>3. ASSUME NEW r \in AdvisoryRequests, GiveUp(r) PROVE Given
    BY <2>3, <2>A DEF GiveUp, EndsWith
  <2>4. ASSUME NEW r \in AdvisoryRequests,
               ContinueAnalysis(r) \/ ContinueReevaluation(r) \/ ContinueSnapshot(r)
        PROVE  Given
    <3>1. UNCHANGED now /\ CurrentFor(r, ctx[r])
      BY <2>4 DEF ContinueAnalysis, ContinueReevaluation, ContinueSnapshot, Stale, CurrentFor
    <3>2. UNCHANGED advice \/ EndsWith(r, ctx[r])
      BY <2>4 DEF ContinueAnalysis, ContinueReevaluation, ContinueSnapshot, GoesTo
    <3> QED BY <2>A, <2>F, <3>1, <3>2 DEF EndsWith
  <2>5. CASE SwapProvider BY <2>5, <2>F DEF SwapProvider, requestVars
  <2>6. ASSUME NEW w \in Savers, Submit(w) \/ Install(w) \/ Discard(w) \/ CloseOld(w) PROVE Given
    BY <2>6, <2>F DEF Submit, Install, Discard, CloseOld, requestVars
  <2>7. ASSUME NEW m \in Actions, Queue(m) \/ TakeTradeLock(m) \/ LeaveTradeLock(m) PROVE Given
    BY <2>7, <2>F DEF Queue, TakeTradeLock, LeaveTradeLock, requestVars
  <2> HIDE DEF Given
  <2> QED BY <1>1, <2>1, <2>2, <2>3, <2>4, <2>5, <2>6, <2>7 DEF AdvisoryNext
<1>2. AdvisoryTypeOK /\ Fresh /\ [AdvisoryNext]_advisoryVars => [Given]_advisoryVars BY <1>1
<1> QED BY <1>2, AdvisoryTypeInit, AdvisoryTypeStep, FreshInit, FreshStep, PTL DEF AdvisorySpec, AdviceIsCurrent

-----------------------------------------------------------------------------
\* A submission that was installed, and only the last one can be.
InstalledBy(w) == saver[w] \in {"installed", "done"}

\* The window is open as long as nothing was installed; whatever was closed lost, or
\* was replaced; a money action inside the lock works on the active client.
SetupInv ==
  /\ open => now.client = FirstClient /\ \A w \in Savers : ~InstalledBy(w)
  /\ ~open => \E w \in Savers : InstalledBy(w) /\ now.client = w
  /\ \A v, w \in Savers : InstalledBy(v) /\ InstalledBy(w) => v = w
  /\ \A w \in Savers : saver[w] = "installed" => old[w] = FirstClient
  /\ \A c \in closedClients : \/ c \in Savers /\ saver[c] = "lost"
                              \/ c = FirstClient /\ \E w \in Savers : saver[w] = "done"
  /\ \A m \in Actions : act[m] = "inside" => uses[m] = now.client

\* The window is open at first.
LEMMA SetupInit == AdvisoryInit => SetupInv
  BY DEF AdvisoryInit, SetupInv, InstalledBy

\* Every step keeps setup in order.
LEMMA SetupStep == AdvisoryTypeOK /\ SetupInv /\ [AdvisoryNext]_advisoryVars => SetupInv'
<1> SUFFICES ASSUME AdvisoryTypeOK, SetupInv, [AdvisoryNext]_advisoryVars PROVE SetupInv' OBVIOUS
<1>N. now \in [client : Clients, gen : 0..MaxSwaps, provider : Providers]
      /\ saver \in [Savers -> {"idle", "ready", "installed", "done", "lost"}]
      /\ old \in [Savers -> Clients] /\ act \in [Actions -> {"idle", "queued", "inside", "done"}]
      /\ uses \in [Actions -> Clients] /\ open \in BOOLEAN
  BY DEF AdvisoryTypeOK, Contexts
<1>F. ASSUME UNCHANGED <<setupVars, actVars>>, now'.client = now.client PROVE SetupInv'
  BY <1>F DEF SetupInv, InstalledBy, setupVars, actVars
<1>1. ASSUME NEW r \in AdvisoryRequests,
             \/ BeginAdvisory(r) \/ Enter(r) \/ GiveUp(r)
             \/ ContinueAnalysis(r) \/ ContinueReevaluation(r) \/ ContinueSnapshot(r)
      PROVE  SetupInv'
  BY <1>1, <1>F DEF BeginAdvisory, Enter, GiveUp, ContinueAnalysis, ContinueReevaluation, ContinueSnapshot
<1>2. CASE SwapProvider
  <2>1. now'.client = now.client BY <1>2, <1>N DEF SwapProvider
  <2> QED BY <1>2, <1>F, <2>1 DEF SwapProvider
<1>3. ASSUME NEW w \in Savers, Submit(w) PROVE SetupInv'
  <2>1. saver'[w] = "ready" /\ saver[w] = "idle" /\ \A v \in Savers \ {w} : saver'[v] = saver[v]
    BY <1>3, <1>N DEF Submit
  <2>2. UNCHANGED <<now, open, old, closedClients, act, uses>> BY <1>3 DEF Submit, actVars
  <2>3. \A v \in Savers : InstalledBy(v)' <=> InstalledBy(v) BY <2>1 DEF InstalledBy
  <2> QED BY <2>1, <2>2, <2>3 DEF SetupInv
<1>4. ASSUME NEW w \in Savers, Install(w) PROVE SetupInv'
  <2>1. saver'[w] = "installed" /\ \A v \in Savers \ {w} : saver'[v] = saver[v]
    BY <1>4, <1>N DEF Install
  <2>2. open /\ ~open' /\ now'.client = w /\ old'[w] = FirstClient /\ UNCHANGED <<closedClients, act, uses>>
    BY <1>4, <1>N DEF Install, actVars, SetupInv
  <2>3. \A v \in Savers : ~InstalledBy(v) /\ (InstalledBy(v)' <=> v = w)
    BY <2>1, <2>2 DEF InstalledBy, SetupInv
  <2>4. \A m \in Actions : act[m] # "inside" BY <1>4 DEF Install, LockFree
  <2>5. \A c \in closedClients : c \in Savers /\ saver[c] = "lost" /\ c # w
    BY <1>4, <2>3 DEF SetupInv, InstalledBy, Install
  <2> QED BY <2>1, <2>2, <2>3, <2>4, <2>5 DEF SetupInv, InstalledBy
<1>5. ASSUME NEW w \in Savers, Discard(w) PROVE SetupInv'
  <2>1. saver'[w] = "lost" /\ saver[w] = "ready" /\ \A v \in Savers \ {w} : saver'[v] = saver[v]
    BY <1>5, <1>N DEF Discard
  <2>2. UNCHANGED <<now, open, old, act, uses>> /\ closedClients' = closedClients \cup {w}
    BY <1>5 DEF Discard, actVars
  <2>3. \A v \in Savers : InstalledBy(v)' <=> InstalledBy(v) BY <2>1 DEF InstalledBy
  <2> QED BY <2>1, <2>2, <2>3 DEF SetupInv
<1>6. ASSUME NEW w \in Savers, CloseOld(w) PROVE SetupInv'
  <2>1. saver'[w] = "done" /\ saver[w] = "installed" /\ \A v \in Savers \ {w} : saver'[v] = saver[v]
    BY <1>6, <1>N DEF CloseOld
  <2>2. UNCHANGED <<now, open, old, act, uses>> /\ closedClients' = closedClients \cup {FirstClient}
    BY <1>6, <2>1 DEF CloseOld, actVars, SetupInv
  <2>3. \A v \in Savers : InstalledBy(v)' <=> InstalledBy(v) BY <2>1 DEF InstalledBy
  <2> QED BY <2>1, <2>2, <2>3 DEF SetupInv
<1>7. ASSUME NEW m \in Actions, Queue(m) \/ TakeTradeLock(m) \/ LeaveTradeLock(m) PROVE SetupInv'
  <2>1. UNCHANGED <<now, setupVars>>
    BY <1>7 DEF Queue, TakeTradeLock, LeaveTradeLock
  <2>2. \A n \in Actions : act'[n] = "inside" => uses'[n] = now.client
    BY <1>7, <1>N DEF Queue, TakeTradeLock, LeaveTradeLock, SetupInv
  <2> QED BY <2>1, <2>2 DEF SetupInv, InstalledBy, setupVars
<1>8. CASE UNCHANGED advisoryVars BY <1>8, <1>F DEF advisoryVars
<1> QED BY <1>1, <1>2, <1>3, <1>4, <1>5, <1>6, <1>7, <1>8 DEF AdvisoryNext

\* Setup is installed once, whatever the number of submissions, and neither the active
\* client nor the one of a money action inside the trade lock is ever closed.
THEOREM SetupInstalledOnce == AdvisorySpec => []SetupOnce
<1>1. ASSUME AdvisoryTypeOK, SetupInv PROVE SetupOnce
  <2> DEFINE I == {w \in Savers : saver[w] \in {"installed", "done"}}
  <2>1. Cardinality(I) <= 1
    <3>1. CASE I = {} BY <3>1, FS_EmptySet
    <3>2. ASSUME NEW w \in I PROVE Cardinality(I) <= 1
      <4>1. I = {w} BY <1>1, <3>2 DEF SetupInv, InstalledBy
      <4>2. Cardinality({w}) = 1 BY FS_Singleton
      <4> QED BY <4>1, <4>2
    <3> QED BY <3>1, <3>2
  <2>2. now.client \notin closedClients
    BY <1>1, AdvisoryAssumption DEF SetupInv, InstalledBy, AdvisoryTypeOK
  <2> QED BY <1>1, <2>1, <2>2 DEF SetupOnce, SetupInv
<1> QED BY <1>1, AdvisoryTypeInit, AdvisoryTypeStep, SetupInit, SetupStep, PTL DEF AdvisorySpec

=============================================================================
