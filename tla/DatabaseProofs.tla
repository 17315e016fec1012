--------------------------- MODULE DatabaseProofs ---------------------------
(***************************************************************************)
(* Proofs about the database: units of statements on the shared            *)
(* connection (DbConnection) and the journal of proposals (ShadowJournal). *)
(***************************************************************************)
EXTENDS DbConnection, ShadowJournal, SequenceTheorems, NaturalsInduction, WellFoundedInduction, TLAPS

-----------------------------------------------------------------------------
(* The shared connection *)

Ops == Statements \cup {"commit"}
Msgs == (Units \X (Ops \cup {"rollback"})) \cup ((Units \cup {NoUnit}) \X {"close"})
Awaits == Ops \cup Own \cup {"idle", "waiting", "rollback", "close", "over"}
Tales == {"nothing", "ok", "error", "cancelled"}

\* Types, and the lock belongs to the unit that uses the shared connection.
UnitsOK ==
  /\ shared \in BOOLEAN /\ usable \in BOOLEAN /\ inbox \in Seq(Msgs)
  /\ dirty \subseteq Units \X Statements /\ durable \subseteq Units \X Statements
  /\ holder \in Units \cup {NoUnit}
  /\ await \in [Units -> Awaits] /\ told \in [Units -> Tales]
  /\ \A u \in Units : holder = u <=> await[u] \in Ops \cup {"rollback", "close"}

\* A unit says nothing while it may still succeed.
ToldOK ==
  \A u \in Units : /\ await[u] \in Ops \cup Own \cup {"idle", "waiting"} => told[u] = "nothing"
                   /\ await[u] \in {"rollback", "close"} => told[u] \in {"error", "cancelled"}

\* What the database holds of a unit.
Kept ==
  \A u \in Units : /\ Parts(u) = {} \/ Parts(u) = Statements
                   /\ told[u] \in {"nothing", "error"} => Parts(u) = {}
                   /\ told[u] = "ok" => Parts(u) = Statements

\* The thread will close the connection at its i-th message.
CloseAt(i) == Len(inbox) >= i /\ inbox[i][2] = "close"

\* Statements of a unit in the open transaction before its statement op.
StatementsBefore(op) == IF op = "first" THEN {} ELSE IF op = "second" THEN {"first"} ELSE Statements

\* The next message is a statement of w: what the transaction holds is w's, and w
\* waits for it or was cancelled and has a rollback or a close follow it.
Serving(w, op) ==
  /\ inbox # <<>> /\ inbox[1] = <<w, op>> /\ dirty = {w} \X StatementsBefore(op)
  /\ \/ Len(inbox) = 1 /\ await[w] = op
     \/ CloseAt(2) /\ (await[w] = op \/ told[w] = "cancelled")
     \/ /\ Len(inbox) >= 2 /\ inbox[2] = <<w, "rollback">> /\ told[w] = "cancelled"
        /\ \/ Len(inbox) = 2 /\ await[w] = "rollback"
           \/ CloseAt(3)

RollingBack(w) ==
  /\ inbox # <<>> /\ inbox[1] = <<w, "rollback">>
  /\ \/ Len(inbox) = 1 /\ await[w] = "rollback"
     \/ CloseAt(2)

\* The messages up to the first close belong to one unit.
Inbox ==
  \/ inbox = <<>> /\ dirty = {} /\ holder = NoUnit
  \/ CloseAt(1)
  \/ \E w \in Units, op \in Ops : Serving(w, op)
  \/ \E w \in Units : RollingBack(w)

DbInv == UnitsOK /\ ToldOK /\ Kept /\ (usable => Inbox)

\* A message behind the others.
LEMMA Longer ==
  ASSUME inbox \in Seq(Msgs), NEW m \in Msgs, inbox' = Append(inbox, m)
  PROVE  /\ inbox' \in Seq(Msgs) /\ inbox' # <<>> /\ Len(inbox) \in Nat /\ Len(inbox') = Len(inbox) + 1
         /\ inbox = <<>> => inbox'[1] = m
         /\ Len(inbox) = 1 => inbox'[2] = m
         /\ Len(inbox) = 2 => inbox'[3] = m
         /\ \A i \in 1..Len(inbox) : inbox'[i] = inbox[i]
         /\ \A i \in 1..3 : CloseAt(i) => CloseAt(i)'
<1>1. Len(inbox) \in Nat /\ Len(<<>>) = 0
  BY LenProperties, EmptySeq
<1>2. inbox' \in Seq(Msgs) /\ inbox' # <<>> /\ Len(inbox') = Len(inbox) + 1
  BY AppendProperties
<1>3. \A i \in 1..Len(inbox) : inbox'[i] = inbox[i]
  BY AppendProperties
<1>4. inbox'[Len(inbox) + 1] = m
  BY AppendProperties
<1>5. \A i \in 1..3 : CloseAt(i) => CloseAt(i)'
  BY <1>1, <1>2, <1>3 DEF CloseAt
<1>q. QED BY <1>1, <1>2, <1>3, <1>4, <1>5

\* The first message is taken.
LEMMA Shorter ==
  ASSUME inbox \in Seq(Msgs), inbox # <<>>
  PROVE  /\ Tail(inbox) \in Seq(Msgs) /\ Len(inbox) \in Nat /\ Len(inbox) >= 1
         /\ Len(Tail(inbox)) = Len(inbox) - 1
         /\ Head(inbox) = inbox[1] /\ inbox[1] \in Msgs
         /\ Len(inbox) = 1 => Tail(inbox) = <<>>
         /\ Len(inbox) > 1 => Tail(inbox) # <<>>
         /\ \A i \in 1..(Len(inbox) - 1) : Tail(inbox)[i] = inbox[i + 1]
<1>1. Len(inbox) \in Nat /\ Len(inbox) >= 1
  <2>1. Len(inbox) \in Nat \ {0}
    BY EmptySeq
  <2>q. QED BY <2>1
<1>2. /\ Tail(inbox) \in Seq(Msgs) /\ Len(Tail(inbox)) = Len(inbox) - 1
      /\ \A i \in 1..(Len(inbox) - 1) : Tail(inbox)[i] = inbox[i + 1]
  BY HeadTailProperties
<1>3. Head(inbox) = inbox[1] /\ inbox[1] \in Msgs
  BY <1>1
<1>4. (Len(inbox) = 1 => Tail(inbox) = <<>>) /\ (Len(inbox) > 1 => Tail(inbox) # <<>>)
  <2> DEFINE t == Tail(inbox)
  <2>1. t \in Seq(Msgs) /\ Len(t) = Len(inbox) - 1
    BY <1>2
  <2> HIDE DEF t
  <2>2. t # <<>> => Len(t) \in Nat \ {0}
    BY <2>1, EmptySeq
  <2>3. Len(<<>>) = 0
    BY EmptySeq
  <2>4. (Len(inbox) = 1 => t = <<>>) /\ (Len(inbox) > 1 => t # <<>>)
    BY <1>1, <2>1, <2>2, <2>3
  <2>q. QED BY <2>4 DEF t
<1>q. QED BY <1>1, <1>2, <1>3, <1>4

\* A message is taken off the queue.
LEMMA Taken ==
  ASSUME inbox \in Seq(Msgs), inbox # <<>>, inbox' = Tail(inbox)
  PROVE  /\ inbox' \in Seq(Msgs)
         /\ Len(inbox) = 1 => inbox' = <<>>
         /\ Len(inbox) >= 2 => inbox' # <<>> /\ inbox'[1] = inbox[2] /\ Len(inbox') = Len(inbox) - 1
         /\ (CloseAt(2) => CloseAt(1)') /\ (CloseAt(3) => CloseAt(2)')
<1>1. (CloseAt(2) => CloseAt(1)') /\ (CloseAt(3) => CloseAt(2)')
  BY Shorter DEF CloseAt
<1>2. Len(inbox) >= 2 => inbox'[1] = inbox[2]
  BY Shorter
<1>q. QED BY <1>1, <1>2, Shorter

\* It is taken and its sender sends another.
LEMMA Exchanged ==
  ASSUME inbox \in Seq(Msgs), inbox # <<>>, NEW m \in Msgs, inbox' = Append(Tail(inbox), m)
  PROVE  /\ inbox' \in Seq(Msgs) /\ inbox' # <<>>
         /\ Len(inbox) = 1 => Len(inbox') = 1 /\ inbox'[1] = m
         /\ (CloseAt(2) => CloseAt(1)') /\ (CloseAt(3) => CloseAt(2)')
<1>1. /\ inbox' \in Seq(Msgs) /\ inbox' # <<>> /\ Len(inbox') = Len(inbox)
      /\ \A i \in 1..(Len(inbox) - 1) : inbox'[i] = inbox[i + 1]
      /\ inbox'[Len(inbox)] = m
  <2>1. /\ Append(Tail(inbox), m) \in Seq(Msgs) /\ Append(Tail(inbox), m) # <<>>
        /\ Len(Append(Tail(inbox), m)) = Len(Tail(inbox)) + 1
        /\ \A i \in 1..Len(Tail(inbox)) : Append(Tail(inbox), m)[i] = Tail(inbox)[i]
        /\ Append(Tail(inbox), m)[Len(Tail(inbox)) + 1] = m
    BY Shorter, AppendProperties
  <2>2. Len(inbox') = Len(inbox) /\ Len(Tail(inbox)) + 1 = Len(inbox)
    BY <2>1, Shorter
  <2>3. \A i \in 1..(Len(inbox) - 1) : inbox'[i] = inbox[i + 1]
    BY <2>1, Shorter
  <2>q. QED BY <2>1, <2>2, <2>3
<1>2. (CloseAt(2) => CloseAt(1)') /\ (CloseAt(3) => CloseAt(2)')
  BY <1>1, Shorter DEF CloseAt
<1>q. QED BY <1>1, <1>2

\* The invariant holds before anything was sent.
LEMMA DbInvInit == DbInit => DbInv
<1> SUFFICES ASSUME DbInit PROVE DbInv
  OBVIOUS
<1>1. UnitsOK /\ ToldOK /\ Inbox
  BY NobodyAssumption DEF DbInit, UnitsOK, ToldOK, Inbox, Awaits, Tales, Ops, Own, Statements
<1>2. Kept
  BY DEF DbInit, Kept, Parts
<1>q. QED BY <1>1, <1>2 DEF DbInv

\* A step that commits nothing and reports no success keeps what is stored.
Quiet(u) == \/ told'[u] = told[u]
            \/ told[u] = "nothing" /\ told'[u] \in {"error", "cancelled"}

\* Such a step keeps what the database holds of the units.
LEMMA NothingStored ==
  Kept /\ UNCHANGED durable /\ (\A u \in Units : Quiet(u)) => Kept'
<1>1. UNCHANGED durable => \A u \in Units : Parts(u)' = Parts(u)
  BY DEF Parts
<1>q. QED BY <1>1 DEF Kept, Quiet

\* What Tells leaves.
LEMMA TellsOne ==
  ASSUME UnitsOK, NEW u \in Units, NEW word \in Tales, Tells(u, word)
  PROVE  /\ told' \in [Units -> Tales]
         /\ told'[u] = IF told[u] = "nothing" THEN word ELSE told[u]
         /\ \A v \in Units \ {u} : told'[v] = told[v]
  BY DEF UnitsOK, Tells, Tales

\* The messages a unit can send.
LEMMA MessagesTyped ==
  ASSUME NEW u \in Units
  PROVE  /\ \A op \in Ops \cup {"rollback", "close"} : <<u, op>> \in Msgs
         /\ <<NoUnit, "close">> \in Msgs
  BY DEF Msgs

\* Statements are among the things a unit awaits.
LEMMA AwaitsTyped == Ops \subseteq Awaits /\ Own \subseteq Awaits
                     /\ {"idle", "waiting", "rollback", "close", "over"} \subseteq Awaits
  BY DEF Awaits

\* A close is added behind what is in the inbox.
LEMMA InboxSealed ==
  ASSUME UnitsOK, ToldOK, Inbox, NEW m \in Msgs, inbox' = Append(inbox, m),
         m[2] = "close", UNCHANGED dirty,
         \A v \in Units : /\ await[v] \in Ops => await'[v] = await[v]
                          /\ told[v] = "cancelled" => told'[v] = "cancelled"
  PROVE  Inbox'
<1> USE DEF UnitsOK
<1>1. CloseAt(1) => CloseAt(1)'
  BY Longer
<1>2. ASSUME NEW w \in Units, NEW op \in Ops, Serving(w, op)
      PROVE  Serving(w, op)'
  <2>1. inbox' # <<>> /\ inbox'[1] = <<w, op>>
    BY <1>2, Longer DEF Serving
  <2>2. CASE Len(inbox) = 1 /\ await[w] = op
    <3>1. CloseAt(2)'
      BY <2>2, Longer DEF CloseAt
    <3>q. QED BY <1>2, <2>1, <2>2, <3>1 DEF Serving
  <2>3. CASE CloseAt(2) /\ (await[w] = op \/ told[w] = "cancelled")
    BY <1>2, <2>1, <2>3, Longer DEF Serving
  <2>4. CASE Len(inbox) >= 2 /\ inbox[2] = <<w, "rollback">> /\ told[w] = "cancelled" /\ Len(inbox) = 2
    BY <1>2, <2>1, <2>4, Longer DEF Serving, CloseAt
  <2>5. CASE Len(inbox) >= 2 /\ inbox[2] = <<w, "rollback">> /\ told[w] = "cancelled" /\ CloseAt(3)
    BY <1>2, <2>1, <2>5, Longer DEF Serving
  <2>q. QED BY <1>2, <2>2, <2>3, <2>4, <2>5 DEF Serving
<1>3. ASSUME NEW w \in Units, RollingBack(w)
      PROVE  RollingBack(w)'
  <2>1. inbox' # <<>> /\ inbox'[1] = <<w, "rollback">>
    BY <1>3, Longer DEF RollingBack
  <2>2. CASE Len(inbox) = 1
    BY <2>1, <2>2, Longer DEF RollingBack, CloseAt
  <2>3. CASE CloseAt(2)
    BY <2>1, <2>3, Longer DEF RollingBack
  <2>q. QED BY <1>3, <2>2, <2>3 DEF RollingBack
<1>4. CASE inbox = <<>>
  <2>1. inbox' # <<>> /\ inbox'[1] = m /\ Len(inbox') >= 1
    BY <1>4, Longer
  <2>q. QED BY <2>1 DEF Inbox, CloseAt
<1>q. QED BY <1>1, <1>2, <1>3, <1>4 DEF Inbox

\* The unit that begins, and the ones with a connection of their own.
LEMMA OwnInv ==
  ASSUME DbInv, NEW u \in Units, Begin(u) \/ OwnWrite(u) \/ OwnEnds(u) \/ OwnCommit(u)
  PROVE  DbInv'
<1> USE DEF DbInv
<1>1. /\ UNCHANGED <<shared, usable, inbox, dirty, holder>>
      /\ await' \in [Units -> Awaits] /\ await[u] \in Own \cup {"idle"}
      /\ await'[u] \in Own \cup {"waiting", "over"}
      /\ \A v \in Units \ {u} : await'[v] = await[v]
  BY AwaitsTyped DEF Begin, OwnWrite, OwnEnds, OwnCommit, UnitsOK, Own
<1>2. told[u] = "nothing"
  BY <1>1 DEF ToldOK
<1>3. /\ told' \in [Units -> Tales] /\ \A v \in Units \ {u} : told'[v] = told[v]
      /\ await'[u] # "over" => told'[u] = told[u]
  BY <1>1, <1>2, TellsOne DEF Begin, OwnWrite, OwnEnds, OwnCommit, UnitsOK, Tales
<1>4. UnitsOK'
  <2>1. durable' \subseteq Units \X Statements
    BY DEF Begin, OwnWrite, OwnEnds, OwnCommit, UnitsOK
  <2>2. \A v \in Units : holder = v <=> await'[v] \in Ops \cup {"rollback", "close"}
    BY <1>1 DEF UnitsOK, Own, Ops, Statements
  <2>q. QED BY <1>1, <1>3, <2>1, <2>2 DEF UnitsOK
<1>5. ToldOK'
  BY <1>1, <1>2, <1>3 DEF ToldOK, Own, Ops, Statements
<1>6. Kept'
  <2>1. CASE OwnCommit(u)
    <3>1. durable' = durable \cup ({u} \X Statements) /\ told'[u] \in {"ok", "cancelled"}
      BY <1>2, <2>1, TellsOne DEF OwnCommit, Tales
    <3>2. Parts(u)' = Statements /\ \A v \in Units \ {u} : Parts(v)' = Parts(v)
      BY <3>1 DEF Parts, Statements
    <3>q. QED BY <1>3, <3>1, <3>2 DEF Kept
  <2>2. CASE ~OwnCommit(u)
    <3>1. UNCHANGED durable /\ told'[u] \in {"nothing", "error", "cancelled"}
      BY <1>2, <2>2, TellsOne DEF Begin, OwnWrite, OwnEnds, Tales
    <3>2. \A v \in Units : Quiet(v)
      BY <1>2, <1>3, <3>1 DEF Quiet
    <3>q. QED BY <3>1, <3>2, NothingStored
  <2>q. QED BY <2>1, <2>2
<1>7. usable' => Inbox'
  <2>1. ASSUME Inbox PROVE Inbox'
    <3>1. \A w \in Units, op \in Ops : Serving(w, op) => Serving(w, op)'
      BY <1>1, <1>2, <1>3 DEF Serving, CloseAt, Ops, Own, Statements
    <3>2. \A w \in Units : RollingBack(w) => RollingBack(w)'
      BY <1>1 DEF RollingBack, CloseAt, Own
    <3>q. QED BY <1>1, <2>1, <3>1, <3>2 DEF Inbox, CloseAt
  <2>q. QED BY <1>1, <2>1
<1>q. QED BY <1>4, <1>5, <1>6, <1>7

\* A unit takes the lock and sends its first statement.
LEMMA TakeLockInv ==
  ASSUME DbInv, NEW u \in Units, TakeLock(u)
  PROVE  DbInv'
<1> USE DEF DbInv
<1>1. /\ UNCHANGED <<shared, usable, dirty, durable, told>> /\ await[u] = "waiting" /\ holder = NoUnit
      /\ holder' = u /\ await' = [await EXCEPT ![u] = "first"] /\ inbox' = Append(inbox, <<u, "first">>)
      /\ inbox \in Seq(Msgs) /\ <<u, "first">> \in Msgs /\ "first" \in Ops
  BY MessagesTyped DEF TakeLock, Sends, UnitsOK, Ops, Statements
<1>2. await'[u] = "first" /\ (\A v \in Units \ {u} : await'[v] = await[v]) /\ await' \in [Units -> Awaits]
  BY <1>1, AwaitsTyped DEF UnitsOK
<1>3. \A v \in Units : await[v] \notin Ops \cup {"rollback", "close"}
  BY <1>1, NobodyAssumption DEF UnitsOK
<1>4. UnitsOK'
  BY <1>1, <1>2, <1>3, Longer DEF UnitsOK
<1>5. ToldOK'
  BY <1>1, <1>2 DEF ToldOK, Ops, Own, Statements
<1>6. Kept'
  <2>1. UNCHANGED durable /\ \A v \in Units : Quiet(v)
    BY <1>1 DEF Quiet
  <2>q. QED BY <2>1, NothingStored
<1>7. ASSUME Inbox
      PROVE  Inbox'
  <2>1. CASE inbox = <<>> /\ dirty = {}
    <3>1. Len(inbox') = 1
      BY <1>1, <2>1, Longer, EmptySeq
    <3>2. dirty' = {u} \X StatementsBefore("first")
      BY <1>1, <2>1 DEF StatementsBefore
    <3>q. QED BY <1>1, <1>2, <2>1, <3>1, <3>2, Longer DEF Inbox, Serving
  <2>2. CASE CloseAt(1)
    BY <1>1, <2>2, Longer DEF Inbox
  <2>3. ASSUME NEW w \in Units, NEW op \in Ops, Serving(w, op)
        PROVE  Serving(w, op)'
    <3>1. await[w] # op /\ await[w] # "rollback"
      BY <1>3
    <3>2. inbox' # <<>> /\ inbox'[1] = inbox[1] /\ (Len(inbox) >= 2 => inbox'[2] = inbox[2])
          /\ Len(inbox') = Len(inbox) + 1 /\ Len(inbox) \in Nat
      BY <1>1, <2>3, Longer, Shorter DEF Serving
    <3>3. (CloseAt(2) => CloseAt(2)') /\ (CloseAt(3) => CloseAt(3)')
      BY <1>1, Longer
    <3>q. QED BY <1>1, <2>3, <3>1, <3>2, <3>3 DEF Serving
  <2>4. ASSUME NEW w \in Units, RollingBack(w)
        PROVE  RollingBack(w)'
    <3>1. await[w] # "rollback"
      BY <1>3
    <3>2. inbox' # <<>> /\ inbox'[1] = inbox[1]
      BY <1>1, <2>4, Longer, Shorter DEF RollingBack
    <3>3. CloseAt(2) => CloseAt(2)'
      BY <1>1, Longer
    <3>q. QED BY <2>4, <3>1, <3>2, <3>3 DEF RollingBack
  <2>q. QED BY <1>7, <2>1, <2>2, <2>3, <2>4 DEF Inbox
<1>q. QED BY <1>1, <1>4, <1>5, <1>6, <1>7

\* The inbox when its thread serves the head and the sender does not go on.
LEMMA InboxDropped ==
  ASSUME UnitsOK, ToldOK, Inbox, inbox # <<>>, inbox' = Tail(inbox),
         NEW w \in Units, inbox[1][1] = w, inbox[1][2] # "close", await[w] # inbox[1][2],
         UNCHANGED <<await, told>>
  PROVE  Inbox'
<1> USE DEF UnitsOK
<1>1. ~CloseAt(1) /\ Len(inbox) >= 1 /\ Len(inbox) \in Nat
  BY Shorter DEF CloseAt
<1>2. ASSUME NEW v \in Units, NEW op \in Ops, Serving(v, op)
      PROVE  Inbox'
  <2>1. v = w /\ inbox[1][2] = op
    BY <1>2 DEF Serving
  <2>2. CASE CloseAt(2)
    BY <2>2, Taken DEF Inbox
  <2>3. CASE Len(inbox) >= 2 /\ inbox[2] = <<w, "rollback">> /\ ((Len(inbox) = 2 /\ await[w] = "rollback") \/ CloseAt(3))
    <3>1. inbox' # <<>> /\ inbox'[1] = <<w, "rollback">>
      BY <2>3, Taken
    <3>2. CASE Len(inbox) = 2 /\ await[w] = "rollback"
      <4>1. Len(inbox') = 1
        BY <1>1, <3>2, Taken
      <4>q. QED BY <3>1, <3>2, <4>1 DEF Inbox, RollingBack
    <3>3. CASE CloseAt(3)
      BY <3>1, <3>3, Taken DEF Inbox, RollingBack
    <3>q. QED BY <2>3, <3>2, <3>3
  <2>q. QED BY <1>2, <2>1, <2>2, <2>3 DEF Serving
<1>3. ASSUME NEW v \in Units, RollingBack(v)
      PROVE  Inbox'
  <2>1. v = w /\ CloseAt(2)
    BY <1>3 DEF RollingBack
  <2>q. QED BY <2>1, Taken DEF Inbox
<1>q. QED BY <1>1, <1>2, <1>3 DEF Inbox

\* It goes on with its next message m: only a close may stand before it.
LEMMA InboxGoesOn ==
  ASSUME UnitsOK, ToldOK, Inbox, NEW w \in Units, NEW op \in Ops,
         Serving(w, op), await[w] = op, NEW next \in Ops \cup {"rollback"},
         inbox' = Append(Tail(inbox), <<w, next>>), await'[w] = next,
         next # "rollback" => dirty' = {w} \X StatementsBefore(next)
  PROVE  Inbox'
<1>1. inbox \in Seq(Msgs) /\ inbox # <<>> /\ <<w, next>> \in Msgs
  BY MessagesTyped DEF UnitsOK, Serving
<1>2. told[w] = "nothing"
  BY DEF ToldOK
<1>3. CASE Len(inbox) = 1
  <2>1. inbox' # <<>> /\ Len(inbox') = 1 /\ inbox'[1] = <<w, next>>
    BY <1>1, <1>3, Exchanged
  <2>2. CASE next = "rollback"
    BY <2>1, <2>2 DEF Inbox, RollingBack
  <2>3. CASE next # "rollback"
    BY <2>1, <2>3 DEF Inbox, Serving
  <2>q. QED BY <2>2, <2>3
<1>4. CASE CloseAt(2)
  BY <1>1, <1>4, Exchanged DEF Inbox
<1>q. QED BY <1>2, <1>3, <1>4 DEF Serving

\* The head of an open connection.
LEMMA HeadOf ==
  ASSUME UnitsOK, Inbox, inbox # <<>>, Head(inbox)[2] # "close"
  PROVE  /\ Head(inbox) = inbox[1] /\ ~CloseAt(1)
         /\ \/ \E w \in Units, op \in Ops : Serving(w, op)
            \/ \E w \in Units : RollingBack(w)
  BY Shorter DEF UnitsOK, Inbox, CloseAt

\* The thread executes a statement or a commit.
LEMMA ServedInv ==
  ASSUME DbInv, Served
  PROVE  DbInv'
<1> USE DEF DbInv
<1>0. inbox # <<>> /\ usable /\ Head(inbox)[2] # "close" /\ UNCHANGED <<shared, usable>> /\ inbox \in Seq(Msgs)
      /\ Head(inbox) = inbox[1]
  BY Shorter DEF Served, UnitsOK
<1>1. ASSUME NEW w \in Units, NEW op \in Ops, Serving(w, op)
      PROVE  DbInv'
  <2>1. Head(inbox)[1] = w /\ Head(inbox)[2] = op /\ dirty = {w} \X StatementsBefore(op)
    BY <1>0, <1>1 DEF Serving
  <2>2. /\ dirty' = IF op \in Statements THEN dirty \cup {<<w, op>>} ELSE {}
        /\ durable' = IF op = "commit" THEN durable \cup dirty ELSE durable
    BY <2>1 DEF Served
  <2>3. dirty' \subseteq Units \X Statements /\ durable' \subseteq Units \X Statements
    BY <2>2 DEF UnitsOK
  <2>4. op = "commit" => /\ \A v \in Units \ {w} : Parts(v)' = Parts(v)
                         /\ Parts(w)' = Statements
    BY <2>1, <2>2 DEF Parts, StatementsBefore, Statements, UnitsOK
  <2>5. op # "commit" => \A v \in Units : Parts(v)' = Parts(v)
    BY <2>2 DEF Parts
  <2>6. CASE await[w] # op
    <3>1. inbox' = Tail(inbox) /\ UNCHANGED <<await, holder, told>>
      BY <2>1, <2>6 DEF Served
    <3>2. inbox' \in Seq(Msgs)
      BY <1>0, <3>1, Taken
    <3>3. UnitsOK' /\ ToldOK'
      BY <1>0, <2>3, <3>1, <3>2 DEF UnitsOK, ToldOK
    <3>4. told[w] = "cancelled"
      BY <1>1, <2>6 DEF Serving
    <3>5. Kept'
      BY <2>4, <2>5, <3>1, <3>4 DEF Kept
    <3>6. Inbox'
      BY <1>0, <2>1, <2>6, <3>1, InboxDropped DEF Ops, Statements
    <3>q. QED BY <3>3, <3>5, <3>6
  <2>7. CASE await[w] = op /\ op \in Statements
    <3> DEFINE next == Following(op)
    <3>1. /\ await' = [await EXCEPT ![w] = next] /\ inbox' = Append(Tail(inbox), <<w, next>>)
          /\ UNCHANGED <<holder, told>> /\ next \in Ops
      BY <2>1, <2>7 DEF Served, Sends, Following, Ops, Statements
    <3>2. await'[w] = next /\ (\A v \in Units \ {w} : await'[v] = await[v]) /\ await' \in [Units -> Awaits]
      BY <3>1, AwaitsTyped DEF UnitsOK
    <3>3. inbox' \in Seq(Msgs)
      BY <1>0, <3>1, MessagesTyped, Exchanged
    <3>4. UnitsOK'
      BY <1>0, <2>3, <2>7, <3>1, <3>2, <3>3 DEF UnitsOK
    <3>5. ToldOK'
      BY <2>7, <3>1, <3>2 DEF ToldOK, Ops, Own, Statements
    <3>6. Kept'
      BY <2>5, <2>7, <3>1 DEF Kept, Statements
    <3>7. dirty' = {w} \X StatementsBefore(next)
      BY <2>1, <2>2, <2>7 DEF StatementsBefore, Following, Statements
    <3>8. Inbox'
      BY <1>0, <1>1, <2>7, <3>1, <3>2, <3>7, InboxGoesOn
    <3>q. QED BY <3>4, <3>5, <3>6, <3>8
  <2>8. CASE await[w] = op /\ op = "commit"
    <3>1. Leaves(w) /\ Tells(w, "ok") /\ inbox' = Tail(inbox)
      BY <2>1, <2>8 DEF Served, Statements
    <3>2. /\ await' = [await EXCEPT ![w] = "over"] /\ holder' = NoUnit /\ holder = w /\ told[w] = "nothing"
      BY <2>8, <3>1 DEF Leaves, UnitsOK, ToldOK
    <3>3. await'[w] = "over" /\ (\A v \in Units \ {w} : await'[v] = await[v]) /\ await' \in [Units -> Awaits]
      BY <3>2, AwaitsTyped DEF UnitsOK
    <3>4. told' \in [Units -> Tales] /\ told'[w] = "ok" /\ \A v \in Units \ {w} : told'[v] = told[v]
      BY <3>1, <3>2, TellsOne DEF Tales
    <3>5. inbox' \in Seq(Msgs)
      BY <1>0, <3>1, Taken
    <3>6. UnitsOK'
      BY <1>0, <2>3, <3>2, <3>3, <3>4, <3>5, NobodyAssumption DEF UnitsOK, Ops, Statements
    <3>7. ToldOK'
      BY <3>3, <3>4 DEF ToldOK, Ops, Own, Statements
    <3>8. Kept'
      BY <2>4, <2>8, <3>4 DEF Kept
    <3>9. Inbox'
      <4>1. CASE Len(inbox) = 1
        BY <1>0, <2>2, <2>8, <3>1, <3>2, <4>1, Taken DEF Inbox, Statements
      <4>2. CASE CloseAt(2)
        BY <1>0, <3>1, <4>2, Taken DEF Inbox
      <4>q. QED BY <1>1, <3>2, <4>1, <4>2 DEF Serving
    <3>q. QED BY <3>6, <3>7, <3>8, <3>9
  <2>q. QED BY <2>6, <2>7, <2>8 DEF Ops
<1>2. ASSUME NEW w \in Units, RollingBack(w)
      PROVE  DbInv'
  <2>1. Head(inbox)[1] = w /\ Head(inbox)[2] = "rollback"
    BY <1>0, <1>2 DEF RollingBack
  <2>2. dirty' = {} /\ UNCHANGED durable
    BY <2>1 DEF Served, Statements
  <2>3. CASE await[w] # "rollback"
    <3>1. inbox' = Tail(inbox) /\ UNCHANGED <<await, holder, told>>
      BY <2>1, <2>3 DEF Served
    <3>2. inbox' \in Seq(Msgs)
      BY <1>0, <3>1, Taken
    <3>3. UnitsOK' /\ ToldOK'
      BY <1>0, <2>2, <3>1, <3>2 DEF UnitsOK, ToldOK
    <3>4. Kept'
      BY <2>2, <3>1 DEF Kept, Parts
    <3>5. Inbox'
      BY <1>0, <2>1, <2>3, <3>1, InboxDropped
    <3>q. QED BY <3>3, <3>4, <3>5
  <2>4. CASE await[w] = "rollback"
    <3>1. Leaves(w) /\ Tells(w, "ok") /\ inbox' = Tail(inbox)
      BY <2>1, <2>4 DEF Served, Statements
    <3>2. /\ await' = [await EXCEPT ![w] = "over"] /\ holder' = NoUnit /\ holder = w
          /\ told[w] \in {"error", "cancelled"}
      BY <2>4, <3>1 DEF Leaves, UnitsOK, ToldOK
    <3>3. await'[w] = "over" /\ (\A v \in Units \ {w} : await'[v] = await[v]) /\ await' \in [Units -> Awaits]
      BY <3>2, AwaitsTyped DEF UnitsOK
    <3>4. told' \in [Units -> Tales] /\ \A v \in Units : told'[v] = told[v]
      BY <3>1, <3>2, TellsOne DEF Tales
    <3>5. inbox' \in Seq(Msgs)
      BY <1>0, <3>1, Taken
    <3>6. UnitsOK'
      BY <1>0, <2>2, <3>2, <3>3, <3>4, <3>5, NobodyAssumption DEF UnitsOK, Ops, Statements
    <3>7. ToldOK'
      BY <3>3, <3>4 DEF ToldOK, Ops, Own, Statements
    <3>8. Kept'
      BY <2>2, <3>4 DEF Kept, Parts
    <3>9. Inbox'
      <4>1. CASE Len(inbox) = 1
        BY <1>0, <2>2, <3>1, <3>2, <4>1, Taken DEF Inbox
      <4>2. CASE CloseAt(2)
        BY <1>0, <3>1, <4>2, Taken DEF Inbox
      <4>q. QED BY <1>2, <4>1, <4>2 DEF RollingBack
    <3>q. QED BY <3>6, <3>7, <3>8, <3>9
  <2>q. QED BY <2>3, <2>4
<1>q. QED BY <1>0, <1>1, <1>2, HeadOf

\* A statement fails: whoever waits for it rolls back.
LEMMA FailedInv ==
  ASSUME DbInv, Failed
  PROVE  DbInv'
<1> USE DEF DbInv
<1> DEFINE w == Head(inbox)[1]
           op == Head(inbox)[2]
<1>0. /\ inbox # <<>> /\ inbox \in Seq(Msgs) /\ Head(inbox) = inbox[1] /\ w \in Units /\ op \in Ops
      /\ UNCHANGED <<shared, usable, dirty, durable, holder>>
  BY Shorter DEF Failed, UnitsOK, Msgs
<1> HIDE DEF w, op
<1>1. CASE await[w] # op
  <2>1. inbox' = Tail(inbox) /\ UNCHANGED <<await, told>>
    BY <1>1 DEF Failed, w, op
  <2>2. inbox' \in Seq(Msgs)
    BY <1>0, <2>1, Taken
  <2>3. UnitsOK' /\ ToldOK'
    BY <1>0, <2>1, <2>2 DEF UnitsOK, ToldOK
  <2>4. Kept'
    BY <1>0, <2>1 DEF Kept, Parts
  <2>5. op # "close"
    BY <1>0 DEF Ops, Statements
  <2>6. Inbox => Inbox'
    BY <1>0, <1>1, <2>1, <2>5, InboxDropped DEF w, op
  <2>q. QED BY <1>0, <2>3, <2>4, <2>6
<1>2. CASE await[w] = op
  <2>1. /\ await' = [await EXCEPT ![w] = "rollback"] /\ inbox' = Append(Tail(inbox), <<w, "rollback">>)
        /\ Tells(w, "error")
    BY <1>2 DEF Failed, Sends, w, op
  <2>2. await'[w] = "rollback" /\ (\A v \in Units \ {w} : await'[v] = await[v]) /\ await' \in [Units -> Awaits]
    BY <1>0, <2>1, AwaitsTyped DEF UnitsOK
  <2>3. told[w] = "nothing"
    BY <1>0, <1>2 DEF ToldOK
  <2>4. told' \in [Units -> Tales] /\ told'[w] = "error" /\ \A v \in Units \ {w} : told'[v] = told[v]
    BY <1>0, <2>1, <2>3, TellsOne DEF Tales
  <2>5. inbox' \in Seq(Msgs)
    BY <1>0, <2>1, MessagesTyped, Exchanged
  <2>6. UnitsOK'
    BY <1>0, <1>2, <2>2, <2>4, <2>5 DEF UnitsOK
  <2>7. ToldOK'
    BY <2>2, <2>4 DEF ToldOK, Ops, Own, Statements
  <2>8. Kept'
    <3>1. \A v \in Units : Quiet(v)
      BY <2>3, <2>4 DEF Quiet
    <3>q. QED BY <1>0, <3>1, NothingStored
  <2>9. Inbox => Inbox'
    <3>1. CASE CloseAt(1)
      BY <1>0, <3>1 DEF CloseAt, Ops, Statements, op
    <3>2. ASSUME NEW v \in Units, NEW o \in Ops, Inbox, Serving(v, o)
          PROVE  Inbox'
      <4>1. v = w /\ o = op
        BY <1>0, <3>2 DEF Serving, w, op
      <4>q. QED BY <1>0, <1>2, <2>1, <2>2, <3>2, <4>1, InboxGoesOn
    <3>3. ASSUME NEW v \in Units, RollingBack(v)
          PROVE  FALSE
      BY <1>0, <3>3 DEF RollingBack, Ops, Statements, op
    <3>q. QED BY <1>0, <3>1, <3>2, <3>3 DEF Inbox
  <2>q. QED BY <1>0, <2>6, <2>7, <2>8, <2>9
<1>q. QED BY <1>1, <1>2

\* A rollback fails, and the connection is to be closed.
LEMMA RollbackFailsInv ==
  ASSUME DbInv, NEW u \in Units, RollbackFails(u)
  PROVE  DbInv'
<1> USE DEF DbInv
<1>0. /\ inbox # <<>> /\ inbox \in Seq(Msgs) /\ inbox[1] = <<u, "rollback">>
      /\ UNCHANGED <<usable, dirty, durable, holder, told>>
  BY Shorter DEF RollbackFails, NextIsRollback, UnitsOK
<1>1. ~CloseAt(1) /\ \A w \in Units, op \in Ops : ~Serving(w, op)
  BY <1>0 DEF CloseAt, Serving, Ops, Statements
<1>2. Kept'
  BY <1>0 DEF Kept, Parts
<1>3. CASE await[u] = "rollback"
  <2>1. /\ shared' = FALSE /\ await' = [await EXCEPT ![u] = "close"]
        /\ inbox' = Append(Tail(inbox), <<u, "close">>)
    BY <1>3 DEF RollbackFails, Sends
  <2>2. await'[u] = "close" /\ (\A v \in Units \ {u} : await'[v] = await[v]) /\ await' \in [Units -> Awaits]
    BY <2>1, AwaitsTyped DEF UnitsOK
  <2>3. inbox' \in Seq(Msgs)
    BY <1>0, <2>1, MessagesTyped, Exchanged
  <2>4. UnitsOK'
    BY <1>0, <1>3, <2>1, <2>2, <2>3 DEF UnitsOK
  <2>5. ToldOK'
    BY <1>0, <1>3, <2>2 DEF ToldOK, Ops, Own, Statements
  <2>6. Inbox => Inbox'
    <3>1. CASE Len(inbox) = 1
      <4>1. inbox' # <<>> /\ Len(inbox') = 1 /\ inbox'[1] = <<u, "close">>
        BY <1>0, <2>1, <3>1, MessagesTyped, Exchanged
      <4>q. QED BY <4>1 DEF Inbox, CloseAt
    <3>2. CASE CloseAt(2)
      BY <1>0, <2>1, <3>2, MessagesTyped, Exchanged DEF Inbox
    <3>q. QED BY <1>0, <1>1, <3>1, <3>2 DEF Inbox, RollingBack
  <2>q. QED BY <1>0, <1>2, <2>4, <2>5, <2>6
<1>4. CASE await[u] # "rollback"
  <2>1. inbox' = Tail(inbox) /\ UNCHANGED <<shared, await>>
    BY <1>4 DEF RollbackFails
  <2>2. inbox' \in Seq(Msgs)
    BY <1>0, <2>1, Taken
  <2>3. UnitsOK' /\ ToldOK'
    BY <1>0, <2>1, <2>2 DEF UnitsOK, ToldOK
  <2>4. Inbox => Inbox'
    BY <1>0, <1>4, <2>1, InboxDropped
  <2>q. QED BY <1>0, <1>2, <2>3, <2>4
<1>q. QED BY <1>3, <1>4

\* The connection is closed.
LEMMA ClosedInv ==
  ASSUME DbInv, Closed
  PROVE  DbInv'
<1> USE DEF DbInv
<1> DEFINE u == Head(inbox)[1]
<1>0. /\ inbox # <<>> /\ inbox \in Seq(Msgs) /\ inbox' = Tail(inbox) /\ usable' = FALSE /\ dirty' = {}
      /\ UNCHANGED <<shared, durable, told>> /\ u \in Units \cup {NoUnit}
  BY Shorter DEF Closed, UnitsOK, Msgs
<1>1. inbox' \in Seq(Msgs)
  BY <1>0, Taken
<1>2. Kept'
  BY <1>0 DEF Kept, Parts
<1>3. CASE u # NoUnit /\ await[u] = "close"
  <2>1. Leaves(u) /\ u \in Units
    BY <1>0, <1>3 DEF Closed
  <2> HIDE DEF u
  <2>2. await' = [await EXCEPT ![u] = "over"] /\ holder' = NoUnit /\ holder = u
    BY <1>3, <2>1 DEF Leaves, UnitsOK
  <2>3. await'[u] = "over" /\ (\A v \in Units \ {u} : await'[v] = await[v]) /\ await' \in [Units -> Awaits]
    BY <2>1, <2>2, AwaitsTyped DEF UnitsOK
  <2>4. UnitsOK'
    BY <1>0, <1>1, <2>1, <2>2, <2>3, NobodyAssumption DEF UnitsOK, Ops, Statements
  <2>5. ToldOK'
    BY <1>0, <2>1, <2>3 DEF ToldOK, Ops, Own, Statements
  <2>q. QED BY <1>0, <1>2, <2>4, <2>5
<1>4. CASE ~(u # NoUnit /\ await[u] = "close")
  <2>1. UNCHANGED <<await, holder>>
    BY <1>4 DEF Closed
  <2>q. QED BY <1>0, <1>1, <1>2, <2>1 DEF UnitsOK, ToldOK
<1>q. QED BY <1>3, <1>4

\* A cancelled unit: its parts of the invariant but the inbox.
LEMMA CancelledUnit ==
  ASSUME UnitsOK, ToldOK, Kept, NEW u \in Units, NEW a \in {"rollback", "close", "over"},
         await' = [await EXCEPT ![u] = a], Tells(u, "cancelled"), await[u] # "over",
         UNCHANGED <<usable, dirty, durable>>, shared' \in BOOLEAN, inbox' \in Seq(Msgs),
         a = "over" => await[u] \in {"waiting", "close"},
         a = "over" => holder' = IF holder = u THEN NoUnit ELSE holder,
         a # "over" => holder' = holder /\ await[u] \in Ops \cup {"rollback"}
  PROVE  /\ UnitsOK' /\ ToldOK' /\ Kept'
         /\ await'[u] = a /\ \A v \in Units \ {u} : await'[v] = await[v] /\ told'[v] = told[v]
         /\ told[u] = "cancelled" => told'[u] = "cancelled"
         /\ told[u] = "nothing" => told'[u] = "cancelled"
<1>1. await'[u] = a /\ (\A v \in Units \ {u} : await'[v] = await[v]) /\ await' \in [Units -> Awaits]
  BY AwaitsTyped DEF UnitsOK
<1>2. /\ told' \in [Units -> Tales] /\ \A v \in Units \ {u} : told'[v] = told[v]
      /\ told'[u] = IF told[u] = "nothing" THEN "cancelled" ELSE told[u]
  BY TellsOne DEF Tales
<1>3. UnitsOK'
  <2>1. holder' \in Units \cup {NoUnit}
    BY DEF UnitsOK
  <2>2. \A v \in Units : holder' = v <=> await'[v] \in Ops \cup {"rollback", "close"}
    <3>1. CASE a # "over"
      BY <1>1, <3>1 DEF UnitsOK
    <3>2. CASE a = "over"
      BY <1>1, <3>2, NobodyAssumption DEF UnitsOK, Ops, Statements
    <3>q. QED BY <3>1, <3>2
  <2>q. QED BY <1>1, <1>2, <2>1, <2>2 DEF UnitsOK
<1>4. told[u] \in {"nothing", "error", "cancelled"}
  BY DEF ToldOK
<1>5. ToldOK'
  BY <1>1, <1>2, <1>4 DEF ToldOK, Ops, Own, Statements
<1>6. \A v \in Units : Quiet(v)
  BY <1>2 DEF Quiet
<1>7. Kept'
  BY <1>6, NothingStored
<1>q. QED BY <1>1, <1>2, <1>3, <1>5, <1>7

\* A unit is cancelled while it waits.
LEMMA CancelInv ==
  ASSUME DbInv, NEW u \in Units, Cancel(u)
  PROVE  DbInv'
<1> USE DEF DbInv
<1>0. inbox \in Seq(Msgs) /\ UNCHANGED <<usable, dirty, durable>> /\ <<u, "rollback">> \in Msgs
      /\ <<u, "close">> \in Msgs
  BY MessagesTyped DEF UnitsOK, Cancel
<1>1. CASE await[u] \in Ops
  <2> DEFINE op == await[u]
  <2>1. /\ await' = [await EXCEPT ![u] = "rollback"] /\ inbox' = Append(inbox, <<u, "rollback">>)
        /\ Tells(u, "cancelled") /\ UNCHANGED <<shared, holder>>
    BY <1>1 DEF Cancel, Sends, Ops, Statements
  <2>2. inbox' \in Seq(Msgs) /\ shared' \in BOOLEAN /\ op # "over" /\ op \in Ops
    BY <1>0, <1>1, <2>1, Longer DEF UnitsOK, Ops, Statements
  <2>3. /\ UnitsOK' /\ ToldOK' /\ Kept' /\ await'[u] = "rollback"
        /\ \A v \in Units \ {u} : await'[v] = await[v] /\ told'[v] = told[v]
        /\ told[u] = "nothing" => told'[u] = "cancelled"
    BY <1>0, <1>1, <2>1, <2>2, CancelledUnit
  <2>4. told'[u] = "cancelled"
    BY <1>1, <2>3 DEF ToldOK
  <2>5. ASSUME NEW w \in Units, NEW o \in Ops, Serving(w, o)
        PROVE  Serving(w, o)'
    <3>1. inbox' # <<>> /\ inbox'[1] = inbox[1] /\ Len(inbox') = Len(inbox) + 1 /\ Len(inbox) \in Nat
          /\ (Len(inbox) >= 2 => inbox'[2] = inbox[2]) /\ (Len(inbox) = 1 => inbox'[2] = <<u, "rollback">>)
          /\ (CloseAt(2) => CloseAt(2)') /\ (CloseAt(3) => CloseAt(3)')
      BY <1>0, <2>1, <2>5, Longer, Shorter DEF Serving
    <3>2. CASE Len(inbox) = 1 /\ await[w] = o
      <4>1. w = u
        BY <1>1, <3>2 DEF UnitsOK
      <4>q. QED BY <2>3, <2>4, <1>0, <2>5, <3>1, <3>2, <4>1 DEF Serving
    <3>3. CASE CloseAt(2) /\ (await[w] = o \/ told[w] = "cancelled")
      BY <2>3, <2>4, <1>0, <2>5, <3>1, <3>3 DEF Serving
    <3>4. CASE /\ Len(inbox) >= 2 /\ inbox[2] = <<w, "rollback">> /\ told[w] = "cancelled"
               /\ Len(inbox) = 2 /\ await[w] = "rollback"
      <4>1. w = u
        BY <1>1, <3>4 DEF UnitsOK
      <4>q. QED BY <1>1, <3>4, <4>1 DEF Ops, Statements
    <3>5. CASE Len(inbox) >= 2 /\ inbox[2] = <<w, "rollback">> /\ told[w] = "cancelled" /\ CloseAt(3)
      <4>1. told'[w] = "cancelled"
        BY <2>3, <2>4, <3>5
      <4>q. QED BY <1>0, <2>5, <3>1, <3>5, <4>1 DEF Serving
    <3>q. QED BY <2>5, <3>2, <3>3, <3>4, <3>5 DEF Serving
  <2>6. ASSUME NEW w \in Units, RollingBack(w)
        PROVE  RollingBack(w)'
    <3>1. inbox' # <<>> /\ inbox'[1] = inbox[1] /\ (CloseAt(2) => CloseAt(2)')
      BY <1>0, <2>1, <2>6, Longer, Shorter DEF RollingBack
    <3>2. CASE Len(inbox) = 1 /\ await[w] = "rollback"
      <4>1. w = u
        BY <1>1, <3>2 DEF UnitsOK
      <4>q. QED BY <1>1, <3>2, <4>1 DEF Ops, Statements
    <3>q. QED BY <2>6, <3>1, <3>2 DEF RollingBack
  <2>7. ~(holder = NoUnit)
    BY <1>1, NobodyAssumption DEF UnitsOK
  <2>8. CloseAt(1) => CloseAt(1)'
    BY <1>0, <2>1, Longer
  <2>9. Inbox => Inbox'
    BY <2>5, <2>6, <2>7, <2>8 DEF Inbox
  <2>q. QED BY <1>0, <2>3, <2>9
<1>2. CASE await[u] = "rollback"
  <2>1. /\ await' = [await EXCEPT ![u] = "close"] /\ inbox' = Append(inbox, <<u, "close">>)
        /\ Tells(u, "cancelled") /\ shared' = FALSE /\ UNCHANGED holder
    BY <1>2 DEF Cancel, Sends, Statements
  <2>2. inbox' \in Seq(Msgs) /\ shared' \in BOOLEAN
    BY <1>0, <2>1, Longer
  <2>3. /\ UnitsOK' /\ ToldOK' /\ Kept' /\ await'[u] = "close"
        /\ \A v \in Units \ {u} : await'[v] = await[v] /\ told'[v] = told[v]
        /\ told[u] = "cancelled" => told'[u] = "cancelled"
    BY <1>0, <1>2, <2>1, <2>2, CancelledUnit
  <2>4. await[u] \notin Ops
    BY <1>2 DEF Ops, Statements
  <2>5. ASSUME Inbox PROVE Inbox'
    <3>1. <<u, "close">>[2] = "close"
      OBVIOUS
    <3>2. \A v \in Units : /\ await[v] \in Ops => await'[v] = await[v]
                           /\ told[v] = "cancelled" => told'[v] = "cancelled"
      BY <2>3, <2>4
    <3>q. QED BY <1>0, <2>1, <2>5, <3>1, <3>2, InboxSealed
  <2>q. QED BY <1>0, <2>3, <2>5
<1>3. CASE await[u] \in {"waiting", "close"}
  <2>1. /\ await' = [await EXCEPT ![u] = "over"] /\ holder' = IF holder = u THEN NoUnit ELSE holder
        /\ Tells(u, "cancelled") /\ UNCHANGED <<shared, inbox>>
    BY <1>3 DEF Cancel, Leaves, Statements
  <2>2. /\ UnitsOK' /\ ToldOK' /\ Kept' /\ await'[u] = "over"
        /\ \A v \in Units \ {u} : await'[v] = await[v] /\ told'[v] = told[v]
        /\ told[u] = "cancelled" => told'[u] = "cancelled"
    <3>1. inbox' \in Seq(Msgs) /\ shared' \in BOOLEAN
      BY <2>1 DEF UnitsOK
    <3>q. QED BY <1>0, <1>3, <2>1, <3>1, CancelledUnit
  <2>3. \A w \in Units, o \in Ops : Serving(w, o) => Serving(w, o)'
    BY <1>0, <1>3, <2>1, <2>2 DEF Serving, CloseAt, Ops, Statements
  <2>4. \A w \in Units : RollingBack(w) => RollingBack(w)'
    BY <1>0, <1>3, <2>1, <2>2 DEF RollingBack, CloseAt
  <2>5. (holder = NoUnit => holder' = NoUnit) /\ (CloseAt(1) => CloseAt(1)')
    BY <2>1 DEF CloseAt
  <2>6. Inbox => Inbox'
    BY <1>0, <2>1, <2>3, <2>4, <2>5 DEF Inbox
  <2>q. QED BY <1>0, <2>2, <2>6
<1>q. QED BY <1>1, <1>2, <1>3 DEF Cancel, Ops

\* The process shuts down, or dies and starts again.
LEMMA ProcessInv ==
  ASSUME DbInv, Shutdown \/ Restart
  PROVE  DbInv'
<1> USE DEF DbInv
<1>1. CASE Shutdown
  <2>1. /\ UNCHANGED <<usable, dirty, durable, holder, await, told>> /\ shared' = FALSE
        /\ inbox' = Append(inbox, <<NoUnit, "close">>)
        /\ inbox \in Seq(Msgs) /\ <<NoUnit, "close">> \in Msgs
    BY <1>1 DEF Shutdown, UnitsOK, Msgs
  <2>2. UnitsOK' /\ ToldOK'
    BY <2>1, Longer DEF UnitsOK, ToldOK
  <2>3. Kept'
    BY <2>1 DEF Kept, Parts
  <2>4. <<NoUnit, "close">>[2] = "close"
    OBVIOUS
  <2>5. Inbox => Inbox'
    BY <2>1, <2>4, InboxSealed
  <2>q. QED BY <2>1, <2>2, <2>3, <2>5
<1>2. CASE Restart
  <2>1. /\ await' = [v \in Units |-> IF await[v] = "idle" THEN "idle" ELSE "over"]
        /\ told' = [v \in Units |->
                      IF told[v] = "nothing" /\ await[v] # "idle" THEN "cancelled" ELSE told[v]]
        /\ inbox' = <<>> /\ dirty' = {} /\ holder' = NoUnit /\ UNCHANGED durable
    BY <1>2 DEF Restart
  <2>2. UnitsOK'
    <3>1. told' \in [Units -> Tales] /\ await' \in [Units -> Awaits]
      BY <2>1 DEF UnitsOK, Tales, Awaits
    <3>2. \A v \in Units : await'[v] \notin Ops \cup {"rollback", "close"} /\ NoUnit # v
      BY <2>1, NobodyAssumption DEF Ops, Statements
    <3>3. inbox' \in Seq(Msgs)
      BY <2>1, EmptySeq
    <3>4. shared' \in BOOLEAN /\ usable' \in BOOLEAN
      BY <1>2 DEF Restart
    <3>q. QED BY <2>1, <3>1, <3>2, <3>3, <3>4 DEF UnitsOK
  <2>3. ToldOK'
    BY <2>1 DEF ToldOK, Ops, Own, Statements
  <2>4. Kept'
    <3>1. \A v \in Units : Quiet(v)
      BY <2>1 DEF Quiet
    <3>q. QED BY <2>1, <3>1, NothingStored
  <2>5. Inbox'
    BY <2>1 DEF Inbox
  <2>q. QED BY <2>2, <2>3, <2>4, <2>5
<1>q. QED BY <1>1, <1>2

\* Every step keeps the invariant.
LEMMA DbInvStep ==
  ASSUME DbInv, [DbNext]_dbVars
  PROVE  DbInv'
<1>1. ASSUME NEW u \in Units, \/ Begin(u) \/ TakeLock(u) \/ RollbackFails(u) \/ Cancel(u)
                              \/ OwnWrite(u) \/ OwnCommit(u) \/ OwnEnds(u)
      PROVE  DbInv'
  BY <1>1, OwnInv, TakeLockInv, RollbackFailsInv, CancelInv
<1>2. CASE Served \/ Failed \/ Closed \/ Shutdown \/ Restart
  BY <1>2, ServedInv, FailedInv, ClosedInv, ProcessInv
<1>3. CASE UNCHANGED dbVars
  <2>1. UnitsOK' /\ ToldOK' /\ Kept'
    BY <1>3 DEF DbInv, UnitsOK, ToldOK, Kept, Parts, dbVars
  <2>2. Inbox => Inbox'
    BY <1>3 DEF Inbox, Serving, RollingBack, CloseAt, dbVars
  <2>q. QED BY <1>3, <2>1, <2>2 DEF DbInv, dbVars
<1>q. QED BY <1>1, <1>2, <1>3 DEF DbNext

-----------------------------------------------------------------------------
\* No unit of work is half in the database, however errors, cancellations, a
\* failed rollback, a shutdown and restarts meet on the shared connection.
THEOREM UnitsAreWhole == DbSpec => []WholeUnits
<1>1. DbInv => WholeUnits
  BY DEF DbInv, Kept, WholeUnits
<1>2. DbInv /\ [DbNext]_dbVars => DbInv'
  BY DbInvStep
<1>q. QED BY <1>1, <1>2, DbInvInit, PTL DEF DbSpec

\* Every step of the units, of the connection's thread and of the process keeps the
\* types: a message is a statement, a commit, a rollback or a close.
THEOREM DbTyped == DbSpec => []DbTypeOK
<1>1. DbInv => DbTypeOK
  <2>1. Msgs \subseteq (Units \cup {NoUnit}) \X (Statements \cup {"commit", "rollback", "close"})
    BY DEF Msgs, Ops
  <2>2. inbox \in Seq(Msgs) =>
          inbox \in Seq((Units \cup {NoUnit}) \X (Statements \cup {"commit", "rollback", "close"}))
    BY <2>1, SeqMonotonic
  <2>q. QED BY <2>2 DEF DbInv, UnitsOK, DbTypeOK, Awaits, Ops, Tales
<1>2. DbInv /\ [DbNext]_dbVars => DbInv'
  BY DbInvStep
<1>q. QED BY <1>1, <1>2, DbInvInit, PTL DEF DbSpec

-----------------------------------------------------------------------------
(* The store the callers see *)

\* A step of the abstract store, or none.
AbstractStep == [Promised!Next]_<<durable, told>>

\* A report to a unit that was answered before changes nothing.
LEMMA AnsweredBefore ==
  ASSUME UnitsOK, NEW u \in Units, NEW word \in Tales, Tells(u, word), told[u] # "nothing"
  PROVE  UNCHANGED told
<1>1. /\ told' \in [Units -> Tales] /\ told \in [Units -> Tales]
      /\ \A v \in Units : told'[v] = told[v]
  BY TellsOne DEF UnitsOK
<1>q. QED BY <1>1

\* A unit reports an error or its cancellation, or nothing, and nothing is stored.
LEMMA ReportsOnly ==
  ASSUME UnitsOK, NEW u \in Units, UNCHANGED durable,
         UNCHANGED told \/ Tells(u, "error") \/ Tells(u, "cancelled")
  PROVE  AbstractStep
<1> USE DEF AbstractStep
<1>1. {"error", "cancelled"} \subseteq Tales
  BY DEF Tales
<1>2. CASE UNCHANGED told
  BY <1>2
<1>3. CASE told[u] # "nothing"
  BY <1>1, <1>2, <1>3, AnsweredBefore
<1>4. CASE told[u] = "nothing" /\ Tells(u, "error")
  <2>1. told' = [told EXCEPT ![u] = "error"]
    BY <1>4 DEF Tells, UnitsOK
  <2>q. QED BY <1>4, <2>1 DEF Promised!Next, Promised!Refuse
<1>5. CASE told[u] = "nothing" /\ Tells(u, "cancelled")
  <2>1. told' = [w \in Units |-> IF w \in {u} THEN "cancelled" ELSE told[w]]
    BY <1>5 DEF Tells, UnitsOK
  <2>2. Promised!Cancel({u})
    BY <1>5, <2>1 DEF Promised!Cancel
  <2>q. QED BY <2>2 DEF Promised!Next
<1>q. QED BY <1>2, <1>3, <1>4, <1>5

\* A unit's statements are stored as a whole, and it is told so or was cancelled.
LEMMA StoresAll ==
  ASSUME UnitsOK, NEW u \in Units, durable' = durable \cup ({u} \X Statements),
         \/ told[u] = "cancelled" /\ UNCHANGED told
         \/ told[u] = "nothing" /\ (Tells(u, "ok") \/ Tells(u, "cancelled"))
  PROVE  AbstractStep
<1>1. \E a \in {"ok", "cancelled"} :
        told' = [told EXCEPT ![u] = IF @ = "nothing" THEN a ELSE @]
  BY DEF UnitsOK, Tells
<1>2. Promised!StoreAll(u)
  BY <1>1 DEF Promised!StoreAll
<1>q. QED BY <1>2 DEF AbstractStep, Promised!Next

\* The thread executes a statement: only a commit stores, and what it stores is one
\* unit, whole.
LEMMA ServedImplements ==
  ASSUME DbInv, Served
  PROVE  AbstractStep
<1> USE DEF DbInv
<1>0. inbox # <<>> /\ usable /\ Head(inbox)[2] # "close" /\ Head(inbox) = inbox[1]
  BY Shorter DEF Served, UnitsOK
<1>1. ASSUME NEW w \in Units, NEW op \in Ops, Serving(w, op)
      PROVE  AbstractStep
  <2>1. Head(inbox)[1] = w /\ Head(inbox)[2] = op /\ dirty = {w} \X StatementsBefore(op)
    BY <1>0, <1>1 DEF Serving
  <2>2. CASE op = "commit"
    <3>1. durable' = durable \cup ({w} \X Statements)
      BY <2>1, <2>2 DEF Served, StatementsBefore
    <3>2. CASE await[w] = op
      <4>1. Tells(w, "ok") /\ told[w] = "nothing"
        BY <2>1, <2>2, <3>2 DEF Served, Statements, ToldOK, Ops
      <4>q. QED BY <3>1, <4>1, StoresAll
    <3>3. CASE await[w] # op
      <4>1. UNCHANGED told /\ told[w] = "cancelled"
        BY <1>1, <2>1, <3>3 DEF Served, Serving
      <4>q. QED BY <3>1, <4>1, StoresAll
    <3>q. QED BY <3>2, <3>3
  <2>3. CASE op # "commit"
    <3>1. op \in Statements /\ UNCHANGED durable
      BY <2>1, <2>3 DEF Served, Ops
    <3>2. UNCHANGED told
      <4>1. CASE await[w] # op
        BY <2>1, <4>1 DEF Served
      <4>2. CASE await[w] = op
        BY <2>1, <3>1, <4>2 DEF Served, Statements
      <4>q. QED BY <4>1, <4>2
    <3>q. QED BY <3>1, <3>2 DEF AbstractStep
  <2>q. QED BY <2>2, <2>3
<1>2. ASSUME NEW w \in Units, RollingBack(w)
      PROVE  AbstractStep
  <2>1. Head(inbox)[1] = w /\ Head(inbox)[2] = "rollback"
    BY <1>0, <1>2 DEF RollingBack
  <2>2. UNCHANGED durable
    BY <2>1 DEF Served
  <2>3. CASE await[w] # "rollback"
    <3>1. UNCHANGED told
      BY <2>1, <2>3 DEF Served
    <3>q. QED BY <2>2, <3>1 DEF AbstractStep
  <2>4. CASE await[w] = "rollback"
    <3>1. Tells(w, "ok") /\ told[w] # "nothing" /\ "ok" \in Tales
      BY <2>1, <2>4 DEF Served, Statements, ToldOK, Tales
    <3>2. UNCHANGED told
      BY <3>1, AnsweredBefore
    <3>q. QED BY <2>2, <3>2 DEF AbstractStep
  <2>q. QED BY <2>3, <2>4
<1>q. QED BY <1>0, <1>1, <1>2, HeadOf

\* A statement fails.
LEMMA FailedImplements ==
  ASSUME DbInv, Failed
  PROVE  AbstractStep
<1> DEFINE w == Head(inbox)[1]
<1>1. w \in Units
  BY Shorter DEF Failed, DbInv, UnitsOK, Msgs
<1>2. UNCHANGED durable /\ (UNCHANGED told \/ Tells(w, "error"))
  BY DEF Failed
<1> HIDE DEF w
<1>q. QED BY <1>1, <1>2, ReportsOnly DEF DbInv

\* A connection of the unit's own is one transaction.
LEMMA OwnImplements ==
  ASSUME DbInv, NEW u \in Units, OwnCommit(u) \/ OwnEnds(u)
  PROVE  AbstractStep
<1>1. told[u] = "nothing"
  BY DEF DbInv, ToldOK, OwnCommit, OwnEnds, Own
<1>2. CASE OwnCommit(u)
  BY <1>1, <1>2, StoresAll DEF OwnCommit, DbInv
<1>3. CASE OwnEnds(u)
  BY <1>3, ReportsOnly DEF OwnEnds, DbInv
<1>q. QED BY <1>2, <1>3

\* The process dies: whoever had no answer will get none.
LEMMA RestartImplements ==
  ASSUME DbInv, Restart
  PROVE  AbstractStep
<1> DEFINE W == {u \in Units : told[u] = "nothing" /\ await[u] # "idle"}
<1>1. told' = [u \in Units |-> IF u \in W THEN "cancelled" ELSE told[u]] /\ UNCHANGED durable
  BY DEF Restart
<1>2. Promised!Cancel(W) /\ W \in SUBSET Units
  BY <1>1 DEF Promised!Cancel
<1>q. QED BY <1>2 DEF AbstractStep, Promised!Next

\* Every step of the connection is a step of the store or none.
LEMMA StoreStep ==
  ASSUME DbInv, [DbNext]_dbVars
  PROVE  AbstractStep
<1>1. ASSUME NEW u \in Units, \/ Begin(u) \/ TakeLock(u) \/ RollbackFails(u) \/ OwnWrite(u)
      PROVE  AbstractStep
  BY <1>1 DEF AbstractStep, Begin, TakeLock, RollbackFails, OwnWrite
<1>2. ASSUME NEW u \in Units, Cancel(u)
      PROVE  AbstractStep
  <2>1. UNCHANGED durable /\ Tells(u, "cancelled")
    BY <1>2 DEF Cancel
  <2>q. QED BY <2>1, ReportsOnly DEF DbInv
<1>3. CASE Closed \/ Shutdown \/ UNCHANGED dbVars
  BY <1>3 DEF AbstractStep, Closed, Shutdown, dbVars
<1>q. QED BY <1>1, <1>2, <1>3, OwnImplements, ServedImplements, FailedImplements, RestartImplements
     DEF DbNext

\* The shared connection, its rollbacks, the connections of single calls, a shutdown
\* and restarts implement the store that is promised to the callers: each unit is
\* stored in one step or never, and its one answer stands.
THEOREM ConnectionIsAtomic == DbSpec => ImplementsStore
<1>1. DbInit => Promised!Init
  BY DEF DbInit, Promised!Init
<1>2. DbInv /\ [DbNext]_dbVars => [Promised!Next]_<<durable, told>>
  BY StoreStep DEF AbstractStep
<1>3. DbInv /\ [DbNext]_dbVars => DbInv'
  BY DbInvStep
<1>q. QED BY <1>1, <1>2, <1>3, DbInvInit, PTL DEF DbSpec, ImplementsStore, Promised!Spec

-----------------------------------------------------------------------------
(* The journal: its types *)

\* The time now is one the bound allows.
Clock == price \in Seq(Low..High) /\ Now \in 0..MaxTime

Outcomes == [status : Finals \cup {"PENDING"}, ambiguous : BOOLEAN]
Passes == [step : {"idle", "fetch", "write"}, at : 0..MaxTime, read : Seq(JournalRows),
           found : Seq([t0 : 0..MaxTime, ver : Nat, out : Outcomes]), next : Nat \ {0}]

\* A pass decides at least one row, and is at one of them.
PassOK ==
  /\ pass \in Passes
  /\ pass.step = "fetch" => pass.read # <<>> /\ pass.next = 1
  /\ pass.step = "write" => pass.next <= Len(pass.found)

RowsOK == rows \in Seq(JournalRows) /\ Len(rows) <= MaxRows

TypeInv == Clock /\ PassOK /\ RowsOK

-----------------------------------------------------------------------------
\* What a candle or the lack of one says is an outcome.
LEMMA OutcomeTyped ==
  ASSUME NEW row \in JournalRows, NEW bars, NEW now
  PROVE  /\ OrStale(row, Resolve(row, bars, now), now) \in Outcomes
         /\ Outcome("PENDING") \in Outcomes
<1>1. \A s \in Finals \cup {"PENDING"} : Outcome(s) \in Outcomes
  BY DEF Outcome, Outcomes
<1>2. \A seen, cover : FromCovered(row, seen, cover, now) \in Outcomes
  <2> TAKE seen, cover
  <2>1. \A b : HitsTp(row, b) \in BOOLEAN /\ HitsSl(row, b) \in BOOLEAN
    BY DEF HitsTp, HitsSl
  <2>2. \A b : [status |-> IF HitsSl(row, b) THEN "LOSS" ELSE "WIN",
                ambiguous |-> HitsTp(row, b) /\ HitsSl(row, b)] \in Outcomes
    BY <2>1 DEF Outcomes, Finals
  <2>3. \A c, d, e, b :
          (IF c THEN [status |-> IF HitsSl(row, b) THEN "LOSS" ELSE "WIN",
                      ambiguous |-> HitsTp(row, b) /\ HitsSl(row, b)]
           ELSE IF d THEN Outcome("SKIPPED")
           ELSE IF e THEN Outcome("EXPIRED") ELSE Outcome("NO_FILL")) \in Outcomes
    BY <1>1, <2>2 DEF Finals
  <2>4. Outcome("SKIPPED") \in Outcomes /\ Outcome("PENDING") \in Outcomes
        /\ Outcome("EXPIRED") \in Outcomes /\ Outcome("NO_FILL") \in Outcomes
    BY <1>1 DEF Finals
  <2> QED BY <2>2, <2>4 DEF FromCovered
<1>3. Outcome("SKIPPED") \in Outcomes /\ Outcome("PENDING") \in Outcomes
  BY <1>1 DEF Finals
<1>4. Resolve(row, bars, now) \in Outcomes
  BY <1>2, <1>3 DEF Resolve
<1> QED BY <1>3, <1>4 DEF OrStale

\* A new row is a row.
LEMMA RowTyped ==
  ASSUME Clock, NEW p \in Proposals, NEW ver \in Nat
  PROVE  Row(p, ver) \in JournalRows
<1>1. p[1] \in Directions /\ p[2] \in Types
  BY JournalAssumption
<1> QED BY <1>1 DEF Row, JournalRows, Clock

\* Between passes there is nothing read or found.
LEMMA NothingRead == NoPass \in Passes
  BY EmptySeq, JournalAssumption DEF NoPass, Passes

\* What every step does to the journal's rows.
LEMMA RowSteps ==
  ASSUME TypeInv, [JournalNext]_journalVars
  PROVE  RowsOK'
<1>0. rows \in Seq(JournalRows) /\ Len(rows) \in Nat /\ Len(rows) <= MaxRows
  BY LenProperties DEF TypeInv, RowsOK
<1>1. ASSUME NEW p \in Proposals, Refresh(p) PROVE RowsOK'
  <2>1. PICK i \in NewestPending : rows' = [rows EXCEPT ![i] = Row(p, rows[i].ver + 1)]
    BY <1>1 DEF Refresh
  <2>2. CASE i \in 1..Len(rows)
    <3>1. rows[i].ver + 1 \in Nat
      <4>1. rows[i] \in JournalRows
        BY <1>0, <2>2, ElementOfSeq
      <4> QED BY <4>1 DEF JournalRows
    <3>2. Row(p, rows[i].ver + 1) \in JournalRows
      BY <3>1, RowTyped DEF TypeInv
    <3> QED BY <1>0, <2>1, <2>2, <3>2, ExceptSeq DEF RowsOK
  <2>3. CASE i \notin 1..Len(rows)
    <3>1. rows' = rows
      BY <1>0, <2>1, <2>3, LenProperties
    <3> QED BY <1>0, <3>1 DEF RowsOK
  <2> QED BY <2>2, <2>3
<1>2. ASSUME NEW p \in Proposals, Insert(p) PROVE RowsOK'
  <2>1. Row(p, 0) \in JournalRows
    BY RowTyped DEF TypeInv
  <2>2. rows' = Append(rows, Row(p, 0)) /\ Len(rows) < MaxRows
    BY <1>2 DEF Insert
  <2>3. rows' \in Seq(JournalRows) /\ Len(rows') = Len(rows) + 1
    BY <1>0, <2>1, <2>2, AppendProperties
  <2> QED BY <1>0, <2>2, <2>3, JournalAssumption DEF RowsOK
<1>3. CASE Clear
  BY <1>3, EmptySeq, JournalAssumption DEF Clear, RowsOK
<1>4. CASE WriteOutcome
  <2> DEFINE i == pass.next
             out == pass.found[i].out
  <2>1. rows' = rows \/ /\ i \in 1..Len(rows)
                        /\ rows' = [rows EXCEPT ![i].status = out.status, ![i].ambiguous = out.ambiguous]
    BY <1>4 DEF WriteOutcome, Decides
  <2>2. CASE rows' = rows
    BY <1>0, <2>2 DEF RowsOK
  <2>3. CASE /\ i \in 1..Len(rows)
             /\ rows' = [rows EXCEPT ![i].status = out.status, ![i].ambiguous = out.ambiguous]
    <3>1. out \in Outcomes
      <4>1. pass.found \in Seq([t0 : 0..MaxTime, ver : Nat, out : Outcomes]) /\ i \in 1..Len(pass.found)
        BY <1>4, LenProperties DEF WriteOutcome, TypeInv, PassOK, Passes
      <4>2. pass.found[i] \in [t0 : 0..MaxTime, ver : Nat, out : Outcomes]
        BY <4>1, ElementOfSeq
      <4> QED BY <4>2
    <3>2. rows[i] \in JournalRows
      BY <1>0, <2>3, ElementOfSeq
    <3>3. DEFINE w == [rows[i] EXCEPT !.status = out.status, !.ambiguous = out.ambiguous]
    <3>4. w \in JournalRows
      BY <3>1, <3>2 DEF Outcomes, JournalRows
    <3>5. rows' = [rows EXCEPT ![i] = w]
      BY <1>0, <2>3
    <3> HIDE DEF w, i
    <3> QED BY <1>0, <2>3, <3>4, <3>5, ExceptSeq DEF RowsOK
  <2> QED BY <2>1, <2>2, <2>3
<1>5. CASE UNCHANGED rows
  BY <1>0, <1>5 DEF RowsOK
<1> QED BY <1>1, <1>2, <1>3, <1>4, <1>5 DEF JournalNext, ReadPending, FetchCandles, CandlesFail, Tick, journalVars

\* What a step does to the pass.
LEMMA PassSteps ==
  ASSUME TypeInv, [JournalNext]_journalVars
  PROVE  PassOK'
<1>1. CASE ReadPending
  <2>1. pass' = [NoPass EXCEPT !.step = "fetch", !.at = Now, !.read = rows]
    BY <1>1 DEF ReadPending
  <2>2. rows \in Seq(JournalRows) /\ Now \in 0..MaxTime
    BY DEF TypeInv, RowsOK, Clock
  <2>3. rows # <<>>
    BY <1>1, EmptySeq DEF ReadPending, Pending
  <2>4. pass' \in Passes
    BY <2>1, <2>2, NothingRead DEF Passes
  <2> QED BY <2>1, <2>3, <2>4 DEF PassOK, NoPass
<1>2. CASE FetchCandles
  <2> DEFINE Found == [t0 : 0..MaxTime, ver : Nat, out : Outcomes]
             say(row, bars) == IF row.status # "PENDING" THEN Outcome("PENDING")
                               ELSE OrStale(row, Resolve(row, bars, pass.at), pass.at)
             entry(bars, i) == [t0 |-> pass.read[i].t0, ver |-> pass.read[i].ver, out |-> say(pass.read[i], bars)]
  <2>1. PICK bars \in ServedBars :
          pass' = [NoPass EXCEPT !.step = "write", !.found = [i \in 1..Len(pass.read) |-> entry(bars, i)]]
    BY <1>2 DEF FetchCandles
  <2>2. pass.read \in Seq(JournalRows) /\ Len(pass.read) \in Nat /\ Len(pass.read) >= 1
    <3>1. pass.read \in Seq(JournalRows) /\ pass.read # <<>>
      BY <1>2 DEF FetchCandles, TypeInv, PassOK, Passes
    <3>2. Len(pass.read) \in Nat \ {0}
      BY <3>1, EmptySeq
    <3> QED BY <3>1, <3>2
  <2>3. \A i \in 1..Len(pass.read) : entry(bars, i) \in Found
    <3> TAKE i \in 1..Len(pass.read)
    <3>1. pass.read[i] \in JournalRows
      BY <2>2, ElementOfSeq
    <3>2. say(pass.read[i], bars) \in Outcomes
      BY <3>1, OutcomeTyped
    <3> HIDE DEF say
    <3> QED BY <3>1, <3>2 DEF JournalRows
  <2> HIDE DEF entry, Found
  <2>4. [i \in 1..Len(pass.read) |-> entry(bars, i)] \in Seq(Found)
    BY <2>2, <2>3
  <2>5. Len([i \in 1..Len(pass.read) |-> entry(bars, i)]) = Len(pass.read)
    BY <2>2
  <2>6. pass' \in Passes
    BY <2>1, <2>4, NothingRead DEF Passes, Found
  <2>7. pass'.next = 1 /\ pass'.step = "write" /\ Len(pass'.found) = Len(pass.read)
    BY <2>1, <2>5 DEF NoPass
  <2> QED BY <2>2, <2>6, <2>7 DEF PassOK
<1>3. CASE WriteOutcome
  <2>1. \/ pass' = [pass EXCEPT !.next = pass.next + 1] /\ pass.next < Len(pass.found)
        \/ pass' = NoPass
    BY <1>3 DEF WriteOutcome
  <2>2. pass \in Passes /\ Len(pass.found) \in Nat /\ pass.next \in Nat /\ pass.step = "write"
    BY <1>3, LenProperties DEF WriteOutcome, TypeInv, PassOK, Passes
  <2>3. CASE pass' = [pass EXCEPT !.next = pass.next + 1] /\ pass.next < Len(pass.found)
    <3>1. pass' \in Passes
      <4>1. pass.next + 1 \in Nat \ {0}
        BY <2>2
      <4>2. \A n \in Nat \ {0} : [pass EXCEPT !.next = n] \in Passes
        BY <2>2 DEF Passes
      <4> QED BY <2>3, <4>1, <4>2
    <3>2. pass'.next = pass.next + 1 /\ pass'.found = pass.found /\ pass'.step = "write"
      BY <2>2, <2>3 DEF Passes
    <3> QED BY <2>2, <2>3, <3>1, <3>2 DEF PassOK
  <2> QED BY <2>1, <2>3, NothingRead DEF PassOK, NoPass
<1>4. CASE CandlesFail
  BY <1>4, NothingRead DEF CandlesFail, PassOK, NoPass
<1>5. CASE UNCHANGED pass
  BY <1>5 DEF TypeInv, PassOK
<1> QED BY <1>1, <1>2, <1>3, <1>4, <1>5 DEF JournalNext, Refresh, Insert, Clear, Tick, journalVars

\* What a step does to the clock.
LEMMA ClockSteps ==
  ASSUME TypeInv, [JournalNext]_journalVars
  PROVE  Clock'
<1>1. CASE Tick
  <2>1. PICK p \in Low..High : price' = Append(price, p)
    BY <1>1 DEF Tick
  <2>2. price \in Seq(Low..High) /\ Now < MaxTime /\ Now \in 0..MaxTime
    BY <1>1 DEF Tick, TypeInv, Clock
  <2>3. price' \in Seq(Low..High) /\ Len(price') = Len(price) + 1
    BY <2>1, <2>2, AppendProperties
  <2>4. Len(price) \in Nat
    BY <2>2, LenProperties
  <2> QED BY <2>2, <2>3, <2>4, JournalAssumption DEF Clock, Now
<1>2. CASE UNCHANGED price
  BY <1>2 DEF TypeInv, Clock, Now
<1> QED BY <1>1, <1>2 DEF JournalNext, Refresh, Insert, Clear, ReadPending, FetchCandles, CandlesFail,
           WriteOutcome, journalVars

\* The types hold at first.
LEMMA TypeInvInit == JournalInit => TypeInv
<1> SUFFICES ASSUME JournalInit PROVE TypeInv
  OBVIOUS
<1>1. Clock
  <2>1. price \in Seq(Low..High) /\ Len(price) = 1
    BY DEF JournalInit, Start, Low, High
  <2> QED BY <2>1, JournalAssumption DEF Clock, Now
<1>2. PassOK
  BY NothingRead DEF JournalInit, PassOK, NoPass
<1>3. RowsOK
  BY EmptySeq, JournalAssumption DEF JournalInit, RowsOK
<1> QED BY <1>1, <1>2, <1>3 DEF TypeInv

\* And every step keeps them.
LEMMA TypeInvStep == TypeInv /\ [JournalNext]_journalVars => TypeInv'
  BY RowSteps, PassSteps, ClockSteps DEF TypeInv

\* The journal, its clock and its pass have their types in every state, within the bounds.
THEOREM JournalTyped == JournalSpec => []JournalTypeOK
<1>1. TypeInv => JournalTypeOK
  <2> SUFFICES ASSUME TypeInv PROVE JournalTypeOK
    OBVIOUS
  <2>1. price \in Seq(Low..High) /\ Len(price) \in Nat /\ Len(price) - 1 <= MaxTime
    BY LenProperties DEF TypeInv, Clock, Now
  <2>2. Len(price) <= MaxTime + 1
    BY <2>1, JournalAssumption
  <2> QED BY <2>1, <2>2 DEF TypeInv, PassOK, Passes, RowsOK, JournalTypeOK
<1> QED BY <1>1, TypeInvInit, TypeInvStep, PTL DEF JournalSpec

\* A set of natural numbers that is not empty has a least element.
LEMMA LeastOf ==
  ASSUME NEW S \in SUBSET Nat, S # {}
  PROVE  Min(S) \in S /\ \A y \in S : Min(S) <= y
<1> DEFINE LessThan == {p \in Nat \X Nat : p[1] < p[2]}
<1>1. IsWellFoundedOn(LessThan, Nat) BY NatLessThanWellFounded DEF OpToRel
<1>2. PICK x \in S : \A y \in S : ~(<<y, x>> \in LessThan) BY <1>1, WFMin
<1>3. \A y \in S : x <= y
  <2> TAKE y \in S
  <2>1. x \in Nat /\ y \in Nat OBVIOUS
  <2>2. y < x => <<y, x>> \in LessThan BY <2>1
  <2> HIDE DEF LessThan
  <2> QED BY <1>2, <2>1, <2>2
<1> QED BY <1>2, <1>3 DEF Min

\* A bounded one has a greatest.
LEMMA GreatestOf ==
  ASSUME NEW N \in Nat, NEW S \in SUBSET (0..N), S # {}
  PROVE  Max(S) \in S /\ \A y \in S : y <= Max(S)
<1> DEFINE D == {N - y : y \in S}
<1>0. \A y \in S : N - y \in Nat OBVIOUS
<1>1. D \in SUBSET Nat /\ D # {} BY <1>0
<1>2. PICK d \in D : \A e \in D : d <= e BY <1>1, LeastOf
<1>3. PICK x \in S : d = N - x BY <1>2
<1>4. \A y \in S : x >= y
  <2> TAKE y \in S
  <2>1. d <= N - y BY <1>2
  <2> QED BY <1>3, <2>1
<1>5. Max(S) \in S /\ \A y \in S : Max(S) >= y BY <1>4 DEF Max
<1> QED BY <1>5

\* The earliest of some candles.
LEMMA EarliestIs ==
  ASSUME NEW S, S # {}, \A b \in S : b.time \in Nat
  PROVE  Earliest(S) \in S /\ \A c \in S : Earliest(S).time <= c.time
<1> DEFINE times == {b.time : b \in S}
<1>1. Min(times) \in times /\ \A y \in times : Min(times) <= y
  BY LeastOf
<1>2. PICK b \in S : b.time = Min(times)
  BY <1>1
<1>3. \A c \in S : b.time <= c.time
  BY <1>1, <1>2
<1> QED BY <1>3 DEF Earliest

-----------------------------------------------------------------------------
(* Candles and moves *)

\* PricesBound there are up to now.
LEMMA PricesBound == ASSUME Clock PROVE Now \in Nat /\ \A s \in 0..Now : Price(s) \in 0..3
<1>1. price \in Seq(0..3) /\ Len(price) \in Nat /\ Now \in Nat
  BY LenProperties, JournalAssumption DEF Clock, Low, High
<1>2. \A s \in 0..Now : s + 1 \in 1..Len(price)
  BY <1>1 DEF Now
<1>3. \A s \in 0..Now : Price(s) \in 0..3
  BY <1>1, <1>2, ElementOfSeq DEF Price
<1> QED BY <1>1, <1>3

\* What a candle or a move over the prices P says.
LEMMA Extent ==
  ASSUME NEW P \in SUBSET (0..3), P # {}, NEW x, x.low = Min(P), x.high = Max(P)
  PROVE  /\ x.high = High <=> 3 \in P
         /\ x.low = Low <=> 0 \in P
         /\ Touches(x) <=> (\E p \in P : p <= 1) /\ (\E p \in P : p >= 1)
<1>1. Min(P) \in P /\ \A y \in P : Min(P) <= y
  BY LeastOf
<1>2. Max(P) \in P /\ \A y \in P : y <= Max(P)
  BY GreatestOf
<1>3. Touches(x) <=> Min(P) <= 1 /\ 1 <= Max(P)
  BY DEF Touches, Entry
<1>4. \A p \in P : p \in Int /\ 0 <= p /\ p <= 3
  OBVIOUS
<1> DEFINE lo == Min(P)
           hi == Max(P)
<1>5. lo \in P /\ hi \in P /\ \A y \in P : lo <= y /\ y <= hi
  BY <1>1, <1>2
<1> HIDE DEF lo, hi
<1>6. (hi = 3 <=> 3 \in P) /\ (lo = 0 <=> 0 \in P)
  BY <1>4, <1>5
<1>7. lo <= 1 /\ 1 <= hi <=> (\E p \in P : p <= 1) /\ (\E p \in P : p >= 1)
  BY <1>4, <1>5
<1> QED BY <1>3, <1>6, <1>7 DEF High, Low, lo, hi

\* The price of the target and of the stop.
Goal(row) == IF row.dir = "long" THEN 3 ELSE 0
Limit(row) == IF row.dir = "long" THEN 0 ELSE 3

\* The lesser of two numbers.
LEMMA Earlier == \A a, b \in Int : Min({a, b}) = IF a <= b THEN a ELSE b
  BY DEF Min

\* A move: the two prices it goes between.
LEMMA MoveSays ==
  ASSUME NEW a \in 0..3, NEW b \in 0..3, NEW x, x.low = Min({a, b}), x.high = Max({a, b}), NEW row \in JournalRows
  PROVE  /\ HitsTp(row, x) <=> Goal(row) \in {a, b}
         /\ HitsSl(row, x) <=> Limit(row) \in {a, b}
         /\ Touches(x) <=> (a <= 1 \/ b <= 1) /\ (a >= 1 \/ b >= 1)
<1>1. {a, b} \in SUBSET (0..3) /\ {a, b} # {}
  OBVIOUS
<1> QED BY <1>1, Extent DEF HitsTp, HitsSl, Goal, Limit

\* Its last point.
Upto(t, n) == IF t < n THEN t + 1 ELSE t

\* A move of the market: the price it begins with and the next.
LEMMA MoveIs ==
  ASSUME Clock, NEW m \in 0..Now, NEW row \in JournalRows
  PROVE  LET a == Price(m)
             b == Price(Upto(m, Now))
         IN /\ a \in 0..3 /\ b \in 0..3
            /\ HitsTp(row, Moved(m)) <=> Goal(row) \in {a, b}
            /\ HitsSl(row, Moved(m)) <=> Limit(row) \in {a, b}
            /\ Touches(Moved(m)) <=> (a <= 1 \/ b <= 1) /\ (a >= 1 \/ b >= 1)
<1>1. Now \in Nat /\ m \in Nat /\ m + 1 \in Int
  BY PricesBound
<1>2. Min({m + 1, Now}) = Upto(m, Now) /\ Upto(m, Now) \in 0..Now
  BY <1>1, Earlier DEF Upto
<1>3. Price(m) \in 0..3 /\ Price(Upto(m, Now)) \in 0..3
  BY <1>2, PricesBound
<1>4. /\ Moved(m).low = Min({Price(m), Price(Upto(m, Now))})
      /\ Moved(m).high = Max({Price(m), Price(Upto(m, Now))})
  BY <1>2 DEF Moved
<1> QED BY <1>3, <1>4, MoveSays

\* A candle is its moves.
LEMMA BarIs ==
  ASSUME Clock, NEW t \in 0..Now, NEW row \in JournalRows
  PROVE  LET b == Bar(t, Now)
             moves == {m \in {t, t + 1} : m <= Now}
         IN /\ b.time = t
            /\ HitsTp(row, b) <=> \E m \in moves : HitsTp(row, Moved(m))
            /\ HitsSl(row, b) <=> \E m \in moves : HitsSl(row, Moved(m))
            /\ Touches(b) <=> \E m \in moves : Touches(Moved(m))
<1> DEFINE b == Bar(t, Now)
           I == t..Min({t + 2, Now})
           P == {Price(s) : s \in I}
           moves == {m \in {t, t + 1} : m <= Now}
<1>1. Now \in Nat /\ t \in Nat /\ t + 2 \in Int /\ \A s \in 0..Now : Price(s) \in 0..3
  BY PricesBound
<1>2. I = {s \in {t, t + 1, t + 2} : s <= Now}
  BY <1>1, Earlier
<1>3. P \in SUBSET (0..3) /\ P # {}
  BY <1>1, <1>2
<1>4. b.time = t /\ b.low = Min(P) /\ b.high = Max(P)
  BY DEF Bar
<1>5. /\ b.high = High <=> 3 \in P
      /\ b.low = Low <=> 0 \in P
      /\ Touches(b) <=> (\E p \in P : p <= 1) /\ (\E p \in P : p >= 1)
  BY <1>3, <1>4, Extent
<1> HIDE DEF b, P
<1>6. /\ HitsTp(row, b) <=> \E s \in I : Price(s) = Goal(row)
      /\ HitsSl(row, b) <=> \E s \in I : Price(s) = Limit(row)
      /\ Touches(b) <=> (\E s \in I : Price(s) <= 1) /\ (\E s \in I : Price(s) >= 1)
  BY <1>5 DEF HitsTp, HitsSl, Goal, Limit, P
<1>7. \A m \in moves : /\ m \in 0..Now /\ m \in I /\ Upto(m, Now) \in I
                       /\ HitsTp(row, Moved(m)) <=> Goal(row) \in {Price(m), Price(Upto(m, Now))}
                       /\ HitsSl(row, Moved(m)) <=> Limit(row) \in {Price(m), Price(Upto(m, Now))}
                       /\ Touches(Moved(m)) <=> /\ Price(m) <= 1 \/ Price(Upto(m, Now)) <= 1
                                                /\ Price(m) >= 1 \/ Price(Upto(m, Now)) >= 1
  <2> TAKE m \in moves
  <2>1. m \in 0..Now
    BY <1>1
  <2>2. m \in I /\ Upto(m, Now) \in I
    <3>1. m \in {t, t + 1} /\ m <= Now /\ m \in Nat
      BY <1>1
    <3>2. Upto(m, Now) \in {t, t + 1, t + 2} /\ Upto(m, Now) <= Now
      BY <1>1, <3>1 DEF Upto
    <3> QED BY <1>2, <3>1, <3>2
  <2> QED BY <2>1, <2>2, MoveIs
<1>8. \A s \in I : \E m \in moves : s \in {m, Upto(m, Now)}
  BY <1>1, <1>2 DEF Upto
<1> HIDE DEF I, moves
<1>9. /\ (\E s \in I : Price(s) = Goal(row)) <=> \E m \in moves : HitsTp(row, Moved(m))
      /\ (\E s \in I : Price(s) = Limit(row)) <=> \E m \in moves : HitsSl(row, Moved(m))
  BY <1>7, <1>8
<1>10. (\E s \in I : Price(s) <= 1) /\ (\E s \in I : Price(s) >= 1) <=> \E m \in moves : Touches(Moved(m))
  <2>1. ASSUME NEW m \in moves, Touches(Moved(m))
        PROVE  (\E s \in I : Price(s) <= 1) /\ (\E s \in I : Price(s) >= 1)
    BY <1>7, <2>1
  <2>2. ASSUME NEW s \in I, NEW u \in I, Price(s) <= 1, Price(u) >= 1
        PROVE  \E m \in moves : Touches(Moved(m))
    <3>1. ASSUME NEW m \in moves, s \in {m, Upto(m, Now)}, u \in {m, Upto(m, Now)}
          PROVE  Touches(Moved(m))
      BY <1>7, <2>2, <3>1
    <3>2. CASE \E m \in moves : s \in {m, Upto(m, Now)} /\ u \in {m, Upto(m, Now)}
      BY <3>1, <3>2
    <3>3. CASE ~\E m \in moves : s \in {m, Upto(m, Now)} /\ u \in {m, Upto(m, Now)}
      <4>1. t + 2 <= Now /\ {s, u} = {t, t + 2} /\ t + 1 \in moves /\ t \in moves
        BY <1>1, <1>2, <3>3 DEF moves, Upto, I
      <4>2. Upto(t, Now) = t + 1 /\ Upto(t + 1, Now) = t + 2 /\ Price(t + 1) \in 0..3
        BY <1>1, <4>1 DEF Upto
      <4> QED BY <1>7, <2>2, <4>1, <4>2
    <3> QED BY <3>2, <3>3
  <2> QED BY <2>1, <2>2
<1> QED BY <1>4, <1>6, <1>9, <1>10 DEF b, moves

-----------------------------------------------------------------------------
(* The journal: the candle of a move *)

\* The candle a move is in.
Candle(m) == m - (m % 2)

\* A candle is two moves long and begins at an even time.
LEMMA CandleIs ==
  ASSUME NEW m \in Nat
  PROVE  /\ Candle(m) \in Nat /\ Candle(m) % 2 = 0 /\ Candle(m) <= m /\ m <= Candle(m) + 1
         /\ \A e \in Nat : e % 2 = 0 => /\ e <= m => e <= Candle(m)
                                        /\ e < Candle(m) => e + 2 <= Candle(m)
                                        /\ e > Candle(m) => e >= Candle(m) + 2
                                        /\ m \in {e, e + 1} => Candle(m) = e
         /\ \A n \in Nat : m <= n => Candle(m) <= Candle(n)
<1>1. m % 2 \in {0, 1} /\ (m - (m % 2)) % 2 = 0
  OBVIOUS
<1>2. Candle(m) \in Nat /\ Candle(m) % 2 = 0 /\ Candle(m) <= m /\ m <= Candle(m) + 1
  BY <1>1 DEF Candle
<1>3. \A e \in Nat, c \in Nat : e % 2 = 0 /\ c % 2 = 0 => (e < c => e + 2 <= c)
  OBVIOUS
<1>4. ASSUME NEW e \in Nat, e % 2 = 0
      PROVE  /\ e <= m => e <= Candle(m)
             /\ e < Candle(m) => e + 2 <= Candle(m)
             /\ e > Candle(m) => e >= Candle(m) + 2
             /\ m \in {e, e + 1} => Candle(m) = e
  BY <1>2, <1>3, <1>4
<1>5. \A n \in Nat : m <= n => Candle(m) <= Candle(n)
  BY DEF Candle
<1> QED BY <1>2, <1>4, <1>5

\* The parts of FromCovered.
Whole(row, seen, cover) == {b \in Contiguous(row, seen, cover) : b.time + 2 <= row.t0 + Window}
FillBars(row, seen, cover) ==
  IF row.type = "market" THEN Whole(row, seen, cover)
  ELSE {b \in Whole(row, seen, cover) : Touches(b)}
HitBars(row, seen, cover) ==
  {b \in Whole(row, seen, cover) :
     /\ FillBars(row, seen, cover) # {}
     /\ b.time >= Earliest(FillBars(row, seen, cover)).time /\ Hits(row, b)}

\* Candles of one market, one of which covers t0 and says nothing about the row.
CoveredBy(row, seen, cover) ==
  /\ Clock /\ row \in JournalRows /\ row.t0 <= Now
  /\ \A b \in seen : b.time \in 0..Now /\ b.time % 2 = 0 /\ b = Bar(b.time, Now)
  /\ cover \in seen /\ cover.time <= row.t0 /\ row.t0 < cover.time + 2
  /\ cover.time < row.t0 => IF row.type = "market" THEN ~Hits(row, cover) ELSE ~Touches(cover)

\* A candle says what its moves say.
LEMMA CandleSays ==
  ASSUME NEW row, NEW seen, NEW cover, CoveredBy(row, seen, cover), NEW b \in seen
  PROVE  /\ b.time \in Nat /\ b.time <= Now /\ b.time % 2 = 0
         /\ \A m \in Nat : Candle(m) = b.time /\ m <= Now =>
              /\ HitsTp(row, Moved(m)) => HitsTp(row, b)
              /\ HitsSl(row, Moved(m)) => HitsSl(row, b)
              /\ Hits(row, Moved(m)) => Hits(row, b)
              /\ Touches(Moved(m)) => Touches(b)
         /\ HitsTp(row, b) => \E m \in Nat : Candle(m) = b.time /\ b.time <= m /\ m <= Now /\ HitsTp(row, Moved(m))
         /\ HitsSl(row, b) => \E m \in Nat : Candle(m) = b.time /\ b.time <= m /\ m <= Now /\ HitsSl(row, Moved(m))
         /\ Touches(b) => \E m \in Nat : Candle(m) = b.time /\ b.time <= m /\ m <= Now /\ Touches(Moved(m))
<1>1. /\ Clock /\ row \in JournalRows /\ b.time \in 0..Now /\ b.time % 2 = 0 /\ b = Bar(b.time, Now) /\ Now \in Nat
  BY PricesBound DEF CoveredBy
<1> DEFINE moves == {m \in {b.time, b.time + 1} : m <= Now}
<1>2. /\ HitsTp(row, b) <=> \E m \in moves : HitsTp(row, Moved(m))
      /\ HitsSl(row, b) <=> \E m \in moves : HitsSl(row, Moved(m))
      /\ Touches(b) <=> \E m \in moves : Touches(Moved(m))
  BY <1>1, BarIs
<1>3. \A m \in moves : m \in Nat /\ Candle(m) = b.time /\ b.time <= m /\ m <= Now
  <2> TAKE m \in moves
  <2>1. m \in Nat /\ b.time \in Nat /\ m \in {b.time, b.time + 1} /\ m <= Now
    BY <1>1
  <2> QED BY <1>1, <2>1, CandleIs
<1>4. \A m \in Nat : Candle(m) = b.time /\ m <= Now => m \in moves
  <2> TAKE m \in Nat
  <2>1. Candle(m) \in Nat /\ Candle(m) <= m /\ m <= Candle(m) + 1
    BY CandleIs
  <2>2. Candle(m) = b.time => m \in {b.time, b.time + 1}
    BY <2>1
  <2> QED BY <2>2
<1> HIDE DEF moves
<1> QED BY <1>1, <1>2, <1>3, <1>4 DEF Hits

\* The candle of a move of the window, no later than one without a gap, is one
\* without a gap, or the one that covers t0.
LEMMA MoveCovered ==
  ASSUME NEW row, NEW seen, NEW cover, CoveredBy(row, seen, cover),
         NEW b \in Contiguous(row, seen, cover) \cup {cover},
         NEW m \in Nat, row.t0 <= m, m <= b.time + 1, m <= Now, m < row.t0 + Window
  PROVE  \E c \in seen : /\ c.time = Candle(m) /\ c.time <= b.time
                         /\ \/ c \in Contiguous(row, seen, cover)
                            \/ c = cover /\ cover.time < row.t0 /\ m = row.t0
<1>1. /\ row.t0 \in Nat /\ Now \in Nat /\ Window \in Nat /\ cover \in seen /\ b \in seen
      /\ cover.time \in Nat /\ cover.time % 2 = 0 /\ b.time \in Nat /\ b.time % 2 = 0
      /\ cover.time <= row.t0 /\ row.t0 < cover.time + 2
  BY PricesBound, JournalAssumption DEF CoveredBy, JournalRows, Contiguous
<1>2. /\ Candle(m) \in Nat /\ Candle(m) % 2 = 0 /\ Candle(m) <= m /\ m <= Candle(m) + 1
      /\ cover.time <= Candle(m)
  BY <1>1, CandleIs
<1>3. Candle(m) <= b.time
  <2>1. ~(Candle(m) > b.time)
    BY <1>1, <1>2, CandleIs
  <2> QED BY <1>1, <1>2, <2>1
<1>4. CASE Candle(m) = cover.time
  <2>1. CASE cover.time < row.t0
    <3>1. m = row.t0
      BY <1>1, <1>2, <1>4, <2>1
    <3> QED BY <1>1, <1>3, <1>4, <2>1, <3>1
  <2>2. CASE cover.time = row.t0
    <3>1. row.t0 < row.t0 + Window
      BY <1>1, JournalAssumption
    <3>2. \A t \in cover.time..cover.time : t = cover.time
      BY <1>1
    <3>3. cover \in Contiguous(row, seen, cover)
      BY <1>1, <2>2, <3>1, <3>2 DEF Contiguous
    <3> QED BY <1>1, <1>3, <1>4, <3>3
  <2> QED BY <1>1, <2>1, <2>2
<1>5. CASE Candle(m) # cover.time
  <2>1. cover.time + 2 <= Candle(m)
    BY <1>1, <1>2, <1>5, CandleIs
  <2>2. b # cover
    BY <1>1, <1>2, <1>3, <2>1
  <2>3. \A t \in cover.time..b.time : (t - b.time) % 2 = 0 => \E c \in seen : c.time = t
    BY <2>2 DEF Contiguous
  <2>4. \A e \in Nat, f \in Nat : e % 2 = 0 /\ f % 2 = 0 => (e - f) % 2 = 0
    OBVIOUS
  <2>5. PICK c \in seen : c.time = Candle(m)
    BY <1>1, <1>2, <1>3, <2>3, <2>4
  <2>6. \A t \in cover.time..c.time : (t - c.time) % 2 = 0 => \E d \in seen : d.time = t
    <3> TAKE t \in cover.time..c.time
    <3>1. t \in cover.time..b.time
      BY <1>1, <1>2, <1>3, <2>5
    <3>2. (t - c.time) % 2 = 0 => (t - b.time) % 2 = 0
      <4>1. \A x \in Nat, y \in Nat, z \in Nat : y % 2 = 0 /\ z % 2 = 0 /\ (x - y) % 2 = 0 => (x - z) % 2 = 0
        OBVIOUS
      <4>2. t \in Nat /\ c.time \in Nat /\ b.time \in Nat /\ c.time % 2 = 0 /\ b.time % 2 = 0
        BY <1>1, <1>2, <2>5
      <4> QED BY ONLY <4>1, <4>2
    <3> QED BY <2>3, <3>1, <3>2
  <2>7. row.t0 <= c.time /\ c.time < row.t0 + Window
    BY <1>1, <1>2, <2>1, <2>5
  <2>8. c \in Contiguous(row, seen, cover)
    BY <2>6, <2>7 DEF Contiguous
  <2> QED BY <1>3, <2>5, <2>8
<1> QED BY <1>4, <1>5

-----------------------------------------------------------------------------
(* The journal: fills and hits in candles *)

\* A limit entry that the price reached was reached in a candle without a gap.
LEMMA FillCandle ==
  ASSUME NEW row, NEW seen, NEW cover, CoveredBy(row, seen, cover), row.type = "limit",
         NEW b \in Contiguous(row, seen, cover) \cup {cover},
         NEW f \in FilledAt(row), f <= b.time + 1
  PROVE  \E c \in Contiguous(row, seen, cover) : c.time = Candle(f) /\ Touches(c)
<1>1. /\ row.t0 \in Nat /\ Now \in Nat /\ Window \in Nat
  BY PricesBound, JournalAssumption DEF CoveredBy, JournalRows
<1>2. f \in Nat /\ row.t0 <= f /\ f < row.t0 + Window /\ f <= Now /\ Touches(Moved(f))
  BY <1>1 DEF FilledAt, Lived
<1>3. PICK c \in seen : /\ c.time = Candle(f)
                        /\ \/ c \in Contiguous(row, seen, cover)
                           \/ c = cover /\ cover.time < row.t0
  BY <1>2, MoveCovered
<1>4. Touches(c)
  BY <1>2, <1>3, CandleSays
<1>5. ~(c = cover /\ cover.time < row.t0)
  BY <1>4 DEF CoveredBy
<1> QED BY <1>3, <1>4, <1>5

\* The times of the candles of the window.
LEMMA WindowTimes ==
  ASSUME NEW row, NEW seen, NEW cover, CoveredBy(row, seen, cover)
  PROVE  /\ row.t0 \in Nat /\ Now \in Nat /\ Window \in Nat /\ row.type \in Types
         /\ \A b \in Contiguous(row, seen, cover) :
              /\ b \in seen /\ b.time \in Nat /\ b.time <= Now /\ row.t0 <= b.time /\ b.time < row.t0 + Window
              /\ b.time % 2 = 0
         /\ Whole(row, seen, cover) \subseteq Contiguous(row, seen, cover)
         /\ FillBars(row, seen, cover) \subseteq Whole(row, seen, cover)
         /\ HitBars(row, seen, cover) \subseteq Whole(row, seen, cover)
         /\ \A m \in SinceFill(row) : m \in Nat /\ row.t0 <= m /\ m < row.t0 + Window /\ m <= Now
         /\ \A f \in FilledAt(row) : f \in Nat /\ row.t0 <= f
<1>1. /\ row.t0 \in Nat /\ Now \in Nat /\ Window \in Nat /\ row.type \in Types
  BY PricesBound, JournalAssumption DEF CoveredBy, JournalRows
<1>2. \A m \in Lived(row) : m \in Nat /\ row.t0 <= m /\ m < row.t0 + Window /\ m <= Now
  BY <1>1 DEF Lived
<1>3. \A b \in Contiguous(row, seen, cover) : b \in seen /\ row.t0 <= b.time /\ b.time < row.t0 + Window
  BY DEF Contiguous
<1>4. \A b \in seen : b.time \in Nat /\ b.time <= Now /\ b.time % 2 = 0
  BY CandleSays
<1>5. \A f \in FilledAt(row) : f \in Nat /\ row.t0 <= f
  BY <1>1, <1>2 DEF FilledAt
<1>6. \A m \in SinceFill(row) : m \in Lived(row)
  BY DEF SinceFill
<1> QED BY <1>1, <1>2, <1>3, <1>4, <1>5, <1>6 DEF Whole, FillBars, HitBars

\* A move since the fill that hits target or stop is in a candle without a gap
\* that hits it, and counts if that candle ends within the window.
LEMMA HitCandle ==
  ASSUME NEW row, NEW seen, NEW cover, CoveredBy(row, seen, cover),
         NEW b \in Contiguous(row, seen, cover) \cup {cover},
         NEW m \in SinceFill(row), Hits(row, Moved(m)), m <= b.time + 1
  PROVE  \E c \in Contiguous(row, seen, cover) :
           /\ c.time = Candle(m) /\ Hits(row, c)
           /\ c \in Whole(row, seen, cover) => c \in HitBars(row, seen, cover)
<1>0. b \in seen /\ cover \in seen
  BY WindowTimes DEF CoveredBy
<1>1. /\ m \in Nat /\ row.t0 <= m /\ m < row.t0 + Window /\ m <= Now /\ row.t0 \in Nat
      /\ b.time \in Nat /\ b.time % 2 = 0
  BY <1>0, WindowTimes, CandleSays
<1>2. PICK c \in seen : /\ c.time = Candle(m) /\ c.time <= b.time
                        /\ \/ c \in Contiguous(row, seen, cover)
                           \/ c = cover /\ cover.time < row.t0 /\ m = row.t0
  BY <1>1, MoveCovered
<1>3. Hits(row, c) /\ c.time \in Nat /\ c.time % 2 = 0
  BY <1>1, <1>2, CandleSays
<1>4. PICK f \in FilledAt(row) : m >= f - (f % 2)
  BY DEF SinceFill
<1>5. f \in Nat /\ row.t0 <= f /\ Candle(f) \in Nat /\ f <= Candle(f) + 1 /\ Candle(f) <= c.time
  <2>1. f \in Nat /\ row.t0 <= f
    BY WindowTimes
  <2>2. Candle(f) \in Nat /\ Candle(f) % 2 = 0 /\ f <= Candle(f) + 1 /\ Candle(f) <= m
    BY <1>4, <2>1, CandleIs DEF Candle
  <2>3. Candle(f) <= Candle(m)
    BY <1>1, <2>2, CandleIs
  <2> QED BY <1>2, <2>1, <2>2, <2>3
<1>6. f <= b.time + 1
  BY <1>1, <1>2, <1>3, <1>5
<1>7. c \in Contiguous(row, seen, cover)
  <2> SUFFICES ASSUME c = cover, cover.time < row.t0, m = row.t0 PROVE FALSE
    BY <1>2
  <2>1. row.type = "limit"
    BY <1>3, WindowTimes DEF CoveredBy, Types
  <2>2. PICK d \in Contiguous(row, seen, cover) : d.time = Candle(f)
    BY <1>6, <2>1, FillCandle
  <2> QED BY <1>1, <1>3, <1>5, <2>2, WindowTimes
<1>8. ASSUME c \in Whole(row, seen, cover) PROVE c \in HitBars(row, seen, cover)
  <2>1. PICK d \in FillBars(row, seen, cover) : d.time <= c.time
    <3>1. CASE row.type = "market"
      BY <1>3, <1>8, <3>1 DEF FillBars
    <3>2. CASE row.type = "limit"
      <4>1. PICK d \in Contiguous(row, seen, cover) : d.time = Candle(f) /\ Touches(d)
        BY <1>6, <3>2, FillCandle
      <4>2. d.time + 2 <= row.t0 + Window
        BY <1>1, <1>3, <1>5, <1>8, <4>1, WindowTimes DEF Whole
      <4> QED BY <1>5, <3>2, <4>1, <4>2 DEF FillBars, Whole
    <3> QED BY <3>1, <3>2, WindowTimes DEF Types
  <2>2. \A e \in FillBars(row, seen, cover) : e.time \in Nat
    BY WindowTimes
  <2>3. Earliest(FillBars(row, seen, cover)) \in FillBars(row, seen, cover)
        /\ Earliest(FillBars(row, seen, cover)).time <= d.time
    BY <2>1, <2>2, EarliestIs
  <2>4. c.time >= Earliest(FillBars(row, seen, cover)).time
    BY <1>3, <2>1, <2>2, <2>3
  <2> QED BY <1>3, <1>8, <2>1, <2>4 DEF HitBars
<1> QED BY <1>2, <1>3, <1>7, <1>8

\* A candle that fills holds a fill, or follows it.
LEMMA FillMove ==
  ASSUME NEW row, NEW seen, NEW cover, CoveredBy(row, seen, cover), NEW d \in FillBars(row, seen, cover)
  PROVE  \E f \in FilledAt(row) : Candle(f) <= d.time
<1>1. /\ row.t0 \in Nat /\ Window \in Nat /\ row.type \in Types
      /\ d \in Whole(row, seen, cover) /\ d \in seen /\ d.time \in Nat
      /\ row.t0 <= d.time /\ d.time + 2 <= row.t0 + Window
  BY WindowTimes DEF Whole
<1>2. CASE row.type = "market"
  <2>1. Candle(row.t0) <= row.t0 /\ Candle(row.t0) \in Nat
    BY <1>1, CandleIs
  <2> QED BY <1>1, <1>2, <2>1 DEF FilledAt
<1>3. CASE row.type = "limit"
  <2>1. Touches(d)
    BY <1>3 DEF FillBars
  <2>2. PICK f \in Nat : Candle(f) = d.time /\ d.time <= f /\ f <= Now /\ Touches(Moved(f))
    BY <1>1, <2>1, CandleSays
  <2>3. f <= d.time + 1
    BY <2>2, CandleIs
  <2>4. f \in Lived(row)
    BY <1>1, <2>2, <2>3 DEF Lived
  <2> QED BY <1>1, <1>3, <2>2, <2>4 DEF FilledAt
<1> QED BY <1>1, <1>2, <1>3 DEF Types

\* The first candle that hits: the move in it that does so counts, and no move
\* since the fill does so before it.
LEMMA FirstHit ==
  ASSUME NEW row, NEW seen, NEW cover, CoveredBy(row, seen, cover), HitBars(row, seen, cover) # {}
  PROVE  LET first == Earliest(HitBars(row, seen, cover))
         IN /\ HitsTp(row, first) \/ HitsSl(row, first)
            /\ HitsTp(row, first) => \E t \in SinceFill(row) : Candle(t) = first.time /\ HitsTp(row, Moved(t))
            /\ HitsSl(row, first) => \E t \in SinceFill(row) : Candle(t) = first.time /\ HitsSl(row, Moved(t))
            /\ \A t \in SinceFill(row), s \in SinceFill(row) :
                 Candle(t) = first.time /\ s < t =>
                   /\ HitsTp(row, Moved(s)) => HitsTp(row, first)
                   /\ HitsSl(row, Moved(s)) => HitsSl(row, first)
<1> DEFINE first == Earliest(HitBars(row, seen, cover))
           fill == Earliest(FillBars(row, seen, cover))
<1>1. first \in HitBars(row, seen, cover) /\ \A c \in HitBars(row, seen, cover) : first.time <= c.time
  <2>1. \A c \in HitBars(row, seen, cover) : c.time \in Nat
    BY WindowTimes
  <2> QED BY <2>1, EarliestIs
<1>2. /\ first \in Contiguous(row, seen, cover) /\ first \in seen /\ first.time \in Nat /\ first.time % 2 = 0
      /\ row.t0 <= first.time /\ first.time + 2 <= row.t0 + Window /\ first.time <= Now
  BY <1>1, WindowTimes DEF HitBars, Whole
<1>3. Hits(row, first) /\ FillBars(row, seen, cover) # {} /\ first.time >= fill.time
  BY <1>1 DEF HitBars
<1>4. fill \in FillBars(row, seen, cover) /\ fill \in Whole(row, seen, cover) /\ fill \in seen /\ fill.time \in Nat
      /\ row.t0 <= fill.time /\ fill.time + 2 <= row.t0 + Window
  <2>1. \A c \in FillBars(row, seen, cover) : c.time \in Nat
    BY WindowTimes
  <2>2. fill \in FillBars(row, seen, cover)
    BY <1>3, <2>1, EarliestIs
  <2> QED BY <2>2, WindowTimes DEF Whole
<1> HIDE DEF first, fill
<1>5. \E f \in FilledAt(row) : Candle(f) <= first.time
  <2>1. PICK f \in FilledAt(row) : Candle(f) <= fill.time
    BY <1>4, FillMove
  <2>2. f \in Nat /\ Candle(f) \in Nat
    BY WindowTimes, CandleIs
  <2> QED BY <1>2, <1>3, <1>4, <2>1, <2>2
<1>6. \A t \in Nat : Candle(t) = first.time /\ first.time <= t /\ t <= Now => t \in SinceFill(row)
  <2> SUFFICES ASSUME NEW t \in Nat, Candle(t) = first.time, first.time <= t, t <= Now PROVE t \in SinceFill(row)
    OBVIOUS
  <2>1. t <= first.time + 1
    BY CandleIs
  <2>2. row.t0 \in Nat /\ Window \in Nat
    BY WindowTimes
  <2>3. t \in Lived(row)
    BY <1>2, <2>1, <2>2 DEF Lived
  <2>4. PICK f \in FilledAt(row) : Candle(f) <= first.time
    BY <1>5
  <2>5. f \in Nat /\ Candle(f) \in Nat
    BY WindowTimes, CandleIs
  <2>6. t >= f - (f % 2)
    BY <1>2, <2>4, <2>5 DEF Candle
  <2> QED BY <2>3, <2>6 DEF SinceFill
<1>7. /\ HitsTp(row, first) => \E t \in SinceFill(row) : Candle(t) = first.time /\ HitsTp(row, Moved(t))
      /\ HitsSl(row, first) => \E t \in SinceFill(row) : Candle(t) = first.time /\ HitsSl(row, Moved(t))
  BY <1>2, <1>6, CandleSays
<1>8. ASSUME NEW t \in SinceFill(row), NEW s \in SinceFill(row), Candle(t) = first.time, s < t, Hits(row, Moved(s))
      PROVE  Candle(s) = first.time /\ s \in Nat /\ s <= Now
  <2>1. t \in Nat /\ s \in Nat /\ s <= Now /\ t <= first.time + 1
    BY <1>8, WindowTimes, CandleIs
  <2>2. s <= first.time + 1
    BY <1>2, <1>8, <2>1
  <2>3. PICK c \in Contiguous(row, seen, cover) :
          c.time = Candle(s) /\ (c \in Whole(row, seen, cover) => c \in HitBars(row, seen, cover))
    BY <1>2, <1>8, <2>2, HitCandle
  <2>4. Candle(s) <= first.time /\ Candle(s) \in Nat
    <3>1. Candle(s) <= Candle(t) /\ Candle(s) \in Nat
      BY <1>8, <2>1, CandleIs
    <3> QED BY <1>8, <3>1
  <2>5. c \in Whole(row, seen, cover)
    <3>1. c.time + 2 <= row.t0 + Window
      BY <1>2, <2>3, <2>4, WindowTimes
    <3> QED BY <2>3, <3>1 DEF Whole
  <2>6. first.time <= c.time
    BY <1>1, <2>3, <2>5
  <2> QED BY <1>2, <2>1, <2>3, <2>4, <2>6
<1>9. \A t \in SinceFill(row), s \in SinceFill(row) :
        Candle(t) = first.time /\ s < t => /\ HitsTp(row, Moved(s)) => HitsTp(row, first)
                                           /\ HitsSl(row, Moved(s)) => HitsSl(row, first)
  BY <1>2, <1>8, CandleSays DEF Hits
<1> QED BY <1>3, <1>7, <1>9 DEF first, Hits

-----------------------------------------------------------------------------
(* The journal: what candles decide is what the market did *)

\* What the outcomes of a row claim.
WinOK(row) ==
  \E t \in SinceFill(row) : /\ HitsTp(row, Moved(t))
                            /\ \A s \in SinceFill(row) : s < t => ~HitsSl(row, Moved(s))
LossOK(row, ambiguous) ==
  \E t \in SinceFill(row) : /\ HitsSl(row, Moved(t))
                            /\ ambiguous \/ \A s \in SinceFill(row) : s < t => ~HitsTp(row, Moved(s))
ExpiredOK(row) ==
  row.t0 + Window <= Now /\ FilledAt(row) # {} /\ \A t \in SinceFill(row) : ~Hits(row, Moved(t))
NoFillOK(row) == row.t0 + Window <= Now /\ FilledAt(row) = {}
Claims(row, status, ambiguous) ==
  /\ status = "WIN" => WinOK(row)
  /\ status = "LOSS" => LossOK(row, ambiguous)
  /\ status = "EXPIRED" => ExpiredOK(row)
  /\ status = "NO_FILL" => NoFillOK(row)

\* The property is what the rows' own outcomes claim.
LEMMA AgreesIs == ASSUME NEW row PROVE Agrees(row) <=> Claims(row, row.status, row.ambiguous)
<1> DEFINE target == {t \in SinceFill(row) : HitsTp(row, Moved(t))}
           stop   == {t \in SinceFill(row) : HitsSl(row, Moved(t))}
<1>1. (\E t \in target : Before(row, t) \cap stop = {}) <=> WinOK(row)
  BY DEF WinOK, Before
<1>2. (\E t \in stop : row.ambiguous \/ Before(row, t) \cap target = {}) <=> LossOK(row, row.ambiguous)
  BY DEF LossOK, Before
<1>3. target \cup stop = {} <=> \A t \in SinceFill(row) : ~Hits(row, Moved(t))
  BY DEF Hits
<1> HIDE DEF target, stop
<1>4. Agrees(row) <=> CASE row.status = "WIN" -> \E t \in target : Before(row, t) \cap stop = {}
       [] row.status = "LOSS" -> \E t \in stop : row.ambiguous \/ Before(row, t) \cap target = {}
       [] row.status = "EXPIRED" -> row.t0 + Window <= Now /\ FilledAt(row) # {} /\ target \cup stop = {}
       [] row.status = "NO_FILL" -> row.t0 + Window <= Now /\ FilledAt(row) = {}
       [] OTHER -> TRUE
  BY DEF Agrees, target, stop
<1>5. CASE row.status = "WIN"
  BY <1>1, <1>4, <1>5 DEF Claims
<1>6. CASE row.status = "LOSS"
  BY <1>2, <1>4, <1>6 DEF Claims
<1>7. CASE row.status = "EXPIRED"
  BY <1>3, <1>4, <1>7 DEF Claims, ExpiredOK
<1>8. CASE row.status = "NO_FILL"
  BY <1>4, <1>8 DEF Claims, NoFillOK
<1>9. CASE row.status \notin {"WIN", "LOSS", "EXPIRED", "NO_FILL"}
  BY <1>4, <1>9 DEF Claims
<1> QED BY <1>5, <1>6, <1>7, <1>8, <1>9

\* They depend on the proposal alone.
LEMMA SameClaims ==
  ASSUME NEW row, NEW q, q.t0 = row.t0, q.dir = row.dir, q.type = row.type, NEW s, NEW a
  PROVE  Claims(row, s, a) <=> Claims(q, s, a)
<1>1. SinceFill(q) = SinceFill(row) /\ FilledAt(q) = FilledAt(row)
  BY DEF SinceFill, FilledAt, Lived
<1>2. \A x : (HitsTp(q, x) <=> HitsTp(row, x)) /\ (HitsSl(q, x) <=> HitsSl(row, x)) /\ (Hits(q, x) <=> Hits(row, x))
  BY DEF HitsTp, HitsSl, Hits
<1> QED BY <1>1, <1>2 DEF Claims, WinOK, LossOK, ExpiredOK, NoFillOK

\* A first candle that hits decides the row as the market did.
LEMMA HitDecides ==
  ASSUME NEW row, NEW seen, NEW cover, CoveredBy(row, seen, cover), HitBars(row, seen, cover) # {}
  PROVE  LET first == Earliest(HitBars(row, seen, cover))
         IN IF HitsSl(row, first) THEN LossOK(row, HitsTp(row, first) /\ HitsSl(row, first)) ELSE WinOK(row)
<1> DEFINE first == Earliest(HitBars(row, seen, cover))
<1>1. /\ HitsTp(row, first) \/ HitsSl(row, first)
      /\ HitsTp(row, first) => \E t \in SinceFill(row) : Candle(t) = first.time /\ HitsTp(row, Moved(t))
      /\ HitsSl(row, first) => \E t \in SinceFill(row) : Candle(t) = first.time /\ HitsSl(row, Moved(t))
      /\ \A t \in SinceFill(row), s \in SinceFill(row) :
           Candle(t) = first.time /\ s < t =>
             /\ HitsTp(row, Moved(s)) => HitsTp(row, first)
             /\ HitsSl(row, Moved(s)) => HitsSl(row, first)
  BY FirstHit
<1> HIDE DEF first
<1>2. CASE HitsSl(row, first)
  <2>1. PICK t \in SinceFill(row) : Candle(t) = first.time /\ HitsSl(row, Moved(t))
    BY <1>1, <1>2
  <2>2. (HitsTp(row, first) /\ HitsSl(row, first)) \/ \A s \in SinceFill(row) : s < t => ~HitsTp(row, Moved(s))
    BY <1>1, <1>2, <2>1
  <2> QED BY <1>2, <2>1, <2>2 DEF LossOK, first
<1>3. CASE ~HitsSl(row, first)
  <2>1. PICK t \in SinceFill(row) : Candle(t) = first.time /\ HitsTp(row, Moved(t))
    BY <1>1, <1>3
  <2>2. \A s \in SinceFill(row) : s < t => ~HitsSl(row, Moved(s))
    BY <1>1, <1>3, <2>1
  <2> QED BY <1>3, <2>1, <2>2 DEF WinOK, first
<1> QED BY <1>2, <1>3

\* Candles without a gap to the deadline that hold no hit: neither did the market,
\* and without a fill it did not reach the entry.
LEMMA NoHitDecides ==
  ASSUME NEW row, NEW seen, NEW cover, CoveredBy(row, seen, cover), HitBars(row, seen, cover) = {},
         \A c \in Contiguous(row, seen, cover) \ Whole(row, seen, cover) :
           IF row.type = "market" \/ FillBars(row, seen, cover) # {} THEN ~Hits(row, c) ELSE ~Touches(c),
         NEW b \in Contiguous(row, seen, cover) \cup {cover}, b.time + 2 >= row.t0 + Window,
         row.t0 + Window <= Now
  PROVE  IF FillBars(row, seen, cover) = {} THEN NoFillOK(row) ELSE ExpiredOK(row)
<1>1. /\ row.t0 \in Nat /\ Now \in Nat /\ Window \in Nat /\ Window >= 3 /\ row.type \in Types
      /\ b \in seen /\ b.time \in Nat /\ b.time % 2 = 0 /\ b.time <= Now /\ row.t0 + Window <= b.time + 2
  <2>1. b \in seen
    BY WindowTimes DEF CoveredBy
  <2> QED BY <2>1, WindowTimes, CandleSays, JournalAssumption
<1>2. \A m \in Nat : m < row.t0 + Window => m <= b.time + 1
  BY <1>1
<1>3. CASE FillBars(row, seen, cover) = {}
  <2>1. row.type = "limit"
    <3> SUFFICES ASSUME row.type = "market" PROVE FALSE
      BY <1>1 DEF Types
    <3>1. Whole(row, seen, cover) = {}
      BY <1>3 DEF FillBars
    <3>2. PICK m \in Nat : m % 2 = 0 /\ row.t0 <= m /\ m <= row.t0 + 1
      <4>1. row.t0 % 2 \in {0, 1} /\ (row.t0 + (row.t0 % 2)) % 2 = 0
        BY <1>1
      <4> QED BY <1>1, <4>1
    <3>3. Candle(m) = m /\ m < row.t0 + Window /\ m <= Now /\ m <= b.time + 1
      <4>1. Candle(m) = m
        BY <3>2, CandleIs
      <4>2. m < row.t0 + Window
        BY <1>1, <3>2
      <4>3. m <= Now
        BY <1>1, <3>2
      <4> QED BY <1>2, <4>1, <4>2, <4>3
    <3>4. PICK c \in seen : c.time = m /\ \/ c \in Contiguous(row, seen, cover)
                                          \/ c = cover /\ cover.time < row.t0
      BY <3>2, <3>3, MoveCovered
    <3>5. c \in Contiguous(row, seen, cover)
      <4>1. cover.time \in Nat
        BY CandleSays DEF CoveredBy
      <4> QED BY <1>1, <3>2, <3>4, <4>1
    <3>6. c.time + 2 <= row.t0 + Window
      BY <1>1, <3>2, <3>4
    <3> QED BY <3>1, <3>5, <3>6 DEF Whole
  <2>2. ASSUME NEW f \in FilledAt(row) PROVE FALSE
    <3>1. f \in Nat /\ f < row.t0 + Window
      BY <1>1, <2>1 DEF FilledAt, Lived, Types
    <3>2. PICK c \in Contiguous(row, seen, cover) : Touches(c)
      BY <1>2, <2>1, <3>1, FillCandle
    <3>3. c \notin Whole(row, seen, cover)
      BY <1>3, <2>1, <3>2 DEF FillBars
    <3> QED BY <1>3, <2>1, <3>2, <3>3
  <2> QED BY <1>3, <2>2 DEF NoFillOK
<1>4. CASE FillBars(row, seen, cover) # {}
  <2>1. FilledAt(row) # {}
    BY <1>4, FillMove
  <2>2. ASSUME NEW t \in SinceFill(row), Hits(row, Moved(t)) PROVE FALSE
    <3>1. t <= b.time + 1
      BY <1>2, WindowTimes
    <3>2. PICK c \in Contiguous(row, seen, cover) :
            Hits(row, c) /\ (c \in Whole(row, seen, cover) => c \in HitBars(row, seen, cover))
      BY <2>2, <3>1, HitCandle
    <3> QED BY <1>4, <3>2
  <2> QED BY <1>4, <2>1, <2>2 DEF ExpiredOK
<1> QED BY <1>3, <1>4

\* The outcome that candles covering t0 give is what the market did.
LEMMA CoveredDecides ==
  ASSUME NEW row, NEW seen, NEW cover, CoveredBy(row, seen, cover), NEW now \in Nat, now <= Now
  PROVE  LET out == FromCovered(row, seen, cover, now)
         IN Claims(row, out.status, out.ambiguous)
<1> DEFINE inside == Contiguous(row, seen, cover)
           whole  == Whole(row, seen, cover)
           fills  == FillBars(row, seen, cover)
           hits   == HitBars(row, seen, cover)
           first  == Earliest(hits)
           filled == row.type = "market" \/ fills # {}
           ending == Max({b.time : b \in inside \cup {cover}}) + 2
           out    == FromCovered(row, seen, cover, now)
<1>1. out = IF hits # {}
            THEN [status |-> IF HitsSl(row, first) THEN "LOSS" ELSE "WIN",
                  ambiguous |-> HitsTp(row, first) /\ HitsSl(row, first)]
            ELSE IF \E b \in inside \ whole : IF filled THEN Hits(row, b) ELSE Touches(b)
            THEN Outcome("SKIPPED")
            ELSE IF now >= row.t0 + Window /\ ending >= row.t0 + Window
            THEN Outcome(IF fills = {} THEN "NO_FILL" ELSE "EXPIRED")
            ELSE Outcome("PENDING")
  BY DEF FromCovered, Whole, FillBars, HitBars
<1>2. PICK b \in inside \cup {cover} : ending = b.time + 2
  <2> DEFINE times == {b.time : b \in inside \cup {cover}}
  <2>1. \A b \in inside \cup {cover} : b.time \in 0..Now
    BY WindowTimes DEF CoveredBy
  <2>2. times \in SUBSET (0..Now) /\ times # {} /\ Now \in Nat
    BY <2>1, WindowTimes
  <2>3. Max(times) \in times
    BY <2>2, GreatestOf
  <2> QED BY <2>3
<1> SUFFICES Claims(row, out.status, out.ambiguous)
  OBVIOUS
<1> HIDE DEF out, inside, whole, fills, hits, filled, ending
<1>3. CASE hits # {}
  <2>1. IF HitsSl(row, first) THEN LossOK(row, HitsTp(row, first) /\ HitsSl(row, first)) ELSE WinOK(row)
    BY <1>3, HitDecides DEF hits
  <2> HIDE DEF first
  <2> QED BY <1>1, <1>3, <2>1 DEF Claims
<1>4. CASE hits = {} /\ \E c \in inside \ whole : IF filled THEN Hits(row, c) ELSE Touches(c)
  BY <1>1, <1>4 DEF Claims, Outcome
<1>5. CASE hits = {} /\ ~\E c \in inside \ whole : IF filled THEN Hits(row, c) ELSE Touches(c)
  <2>1. CASE now >= row.t0 + Window /\ ending >= row.t0 + Window
    <3>1. row.t0 + Window <= Now
      BY <2>1, WindowTimes
    <3>2. IF fills = {} THEN NoFillOK(row) ELSE ExpiredOK(row)
      BY <1>2, <1>5, <2>1, <3>1, NoHitDecides DEF hits, inside, whole, fills, filled, ending
    <3> QED BY <1>1, <1>5, <2>1, <3>2 DEF Claims, Outcome
  <2>2. CASE ~(now >= row.t0 + Window /\ ending >= row.t0 + Window)
    <3>1. out = Outcome("PENDING")
      BY <1>1, <1>5, <2>2
    <3> QED BY <3>1 DEF Claims, Outcome
  <2> QED BY <2>1, <2>2
<1> QED BY <1>3, <1>4, <1>5

\* The outcome of a pass is what the market did, whatever candles it was shown.
LEMMA ResolveDecides ==
  ASSUME Clock, NEW row \in JournalRows, row.t0 <= Now, NEW now \in Nat, now <= Now, NEW bars \in ServedBars
  PROVE  LET out == OrStale(row, Resolve(row, bars, now), now)
         IN Claims(row, out.status, out.ambiguous)
<1> DEFINE seen  == {b \in bars : b.time <= now}
           older == {b \in seen : b.time <= row.t0}
           cover == CHOOSE b \in older : \A c \in older : c.time <= b.time
           out   == Resolve(row, bars, now)
<1>0. Now \in Nat /\ row.t0 \in Nat
  BY PricesBound DEF JournalRows
<1>1. \A b \in bars : b.time \in 0..Now /\ b.time % 2 = 0 /\ b = Bar(b.time, Now)
  <2>1. \A t : Bar(t, Now).time = t
    BY DEF Bar
  <2>2. \A b \in bars : \E t \in 0..Now : t % 2 = 0 /\ b = Bar(t, Now)
    BY DEF ServedBars
  <2> QED BY <2>1, <2>2
<1>2. \A s \in {"SKIPPED", "PENDING"} : Claims(row, Outcome(s).status, Outcome(s).ambiguous)
  BY DEF Claims, Outcome
<1>3. Claims(row, out.status, out.ambiguous)
  <2>1. CASE older = {} \/ cover.time + 2 <= row.t0
    BY <1>2, <2>1 DEF Resolve
  <2>2. CASE ~(older = {} \/ cover.time + 2 <= row.t0)
    <3>1. cover \in older
      <4> DEFINE times == {b.time : b \in older}
      <4>1. times \in SUBSET (0..Now) /\ times # {}
        BY <1>1, <2>2
      <4>2. Max(times) \in times /\ \A y \in times : y <= Max(times)
        BY <1>0, <4>1, GreatestOf
      <4>3. PICK b \in older : b.time = Max(times)
        BY <4>2
      <4>4. \A c \in older : c.time <= b.time
        BY <4>2, <4>3
      <4> QED BY <4>3, <4>4
    <3>2. cover \in bars /\ cover.time <= row.t0 /\ cover \in seen /\ row.t0 < cover.time + 2
      BY <1>0, <1>1, <2>2, <3>1
    <3> DEFINE spoilt == cover.time < row.t0
                         /\ IF row.type = "market" THEN Hits(row, cover) ELSE Touches(cover)
    <3>3. out = IF spoilt THEN Outcome("SKIPPED") ELSE FromCovered(row, seen, cover, now)
      BY <2>2 DEF Resolve
    <3>4. CASE spoilt
      BY <1>2, <3>3, <3>4
    <3>5. CASE ~spoilt
      <4>1. CoveredBy(row, seen, cover)
        <5> HIDE DEF cover
        <5> QED BY <1>1, <3>2, <3>5 DEF CoveredBy
      <4>2. LET o == FromCovered(row, seen, cover, now) IN Claims(row, o.status, o.ambiguous)
        <5> HIDE DEF cover, seen
        <5> QED BY <4>1, CoveredDecides
      <4> HIDE DEF cover, seen
      <4> QED BY <3>3, <3>5, <4>2
    <3> QED BY <3>4, <3>5
  <2> QED BY <2>1, <2>2
<1> HIDE DEF out
<1> QED BY <1>2, <1>3 DEF OrStale, out

-----------------------------------------------------------------------------
(* The journal: as time goes on *)

\* Time goes on: the moves so far stay, and the last one gains.
LEMMA MovesStay ==
  ASSUME Clock, NEW p \in Low..High, price' = Append(price, p), NEW row \in JournalRows
  PROVE  /\ Now' = Now + 1
         /\ \A m \in 0..Now - 1 : /\ HitsTp(row, Moved(m)') <=> HitsTp(row, Moved(m))
                                  /\ HitsSl(row, Moved(m)') <=> HitsSl(row, Moved(m))
                                  /\ Touches(Moved(m)') <=> Touches(Moved(m))
         /\ \A m \in 0..Now : /\ HitsTp(row, Moved(m)) => HitsTp(row, Moved(m)')
                              /\ HitsSl(row, Moved(m)) => HitsSl(row, Moved(m)')
                              /\ Touches(Moved(m)) => Touches(Moved(m)')
<1>1. price \in Seq(0..3) /\ Now \in Nat /\ Len(price) \in Nat /\ p \in 0..3 /\ Len(price) = Now + 1
  BY LenProperties, PricesBound DEF Clock, Low, High, Now
<1>0. PICK n \in Nat : n = Now
  BY <1>1
<1>2. /\ Len(price') = Len(price) + 1 /\ price'[Len(price) + 1] = p
      /\ \A i \in 1..Len(price) : price'[i] = price[i]
  BY <1>1, AppendProperties
<1>3. Now' = Now + 1
  BY <1>1, <1>2 DEF Now
<1>4. /\ \A m \in 0..Now : Price(m)' = Price(m)
      /\ Price(n + 1)' = p
  <2>1. \A m \in 0..Now : m + 1 \in 1..Len(price)
    BY <1>1
  <2>2. n + 1 + 1 = Len(price) + 1
    BY <1>0, <1>1
  <2>3. \A m \in 0..Now : price'[m + 1] = price[m + 1]
    BY <1>2, <2>1
  <2>4. price'[n + 1 + 1] = p
    BY <1>2, <2>2
  <2> QED BY <2>3, <2>4 DEF Price
<1>5. ASSUME NEW m \in 0..Now
      PROVE  LET a == Price(m)
                 b == Price(m + 1)'
             IN /\ a \in 0..3 /\ b \in 0..3
                /\ HitsTp(row, Moved(m)') <=> Goal(row) \in {a, b}
                /\ HitsSl(row, Moved(m)') <=> Limit(row) \in {a, b}
                /\ Touches(Moved(m)') <=> (a <= 1 \/ b <= 1) /\ (a >= 1 \/ b >= 1)
  <2>1. Price(m) \in 0..3 /\ m \in Nat
    BY <1>1, PricesBound
  <2>2. Price(m + 1)' \in 0..3
    <3>1. CASE m = n
      BY <1>1, <1>4, <3>1
    <3>2. CASE m # n
      <4>1. m + 1 \in 0..Now
        BY <1>0, <1>1, <2>1, <3>2
      <4> QED BY <1>4, <4>1, PricesBound
    <3> QED BY <3>1, <3>2
  <2>3. Min({m + 1, Now + 1}) = m + 1
    BY <1>1, <2>1, Earlier
  <2>4. Moved(m)'.low = Min({Price(m), Price(m + 1)'}) /\ Moved(m)'.high = Max({Price(m), Price(m + 1)'})
    BY <1>3, <1>4, <2>3 DEF Moved
  <2> QED BY <2>1, <2>2, <2>4, MoveSays
<1>6. ASSUME NEW m \in 0..Now
      PROVE  /\ HitsTp(row, Moved(m)) <=> Goal(row) \in {Price(m), Price(Upto(m, Now))}
             /\ HitsSl(row, Moved(m)) <=> Limit(row) \in {Price(m), Price(Upto(m, Now))}
             /\ Touches(Moved(m)) <=> /\ Price(m) <= 1 \/ Price(Upto(m, Now)) <= 1
                                      /\ Price(m) >= 1 \/ Price(Upto(m, Now)) >= 1
  BY MoveIs
<1>7. \A m \in 0..Now - 1 : m \in 0..Now /\ Upto(m, Now) = m + 1 /\ Price(m + 1)' = Price(m + 1)
  BY <1>1, <1>4 DEF Upto
<1>8. Upto(n, Now) = n
  BY <1>0, <1>1 DEF Upto
<1>9. \A m \in 0..Now - 1 : /\ HitsTp(row, Moved(m)') <=> HitsTp(row, Moved(m))
                            /\ HitsSl(row, Moved(m)') <=> HitsSl(row, Moved(m))
                            /\ Touches(Moved(m)') <=> Touches(Moved(m))
  BY <1>5, <1>6, <1>7
<1>10. n \in 0..Now /\ \A m \in 0..Now : m \in 0..Now - 1 \/ m = n
  BY <1>0, <1>1
<1>11. /\ HitsTp(row, Moved(n)) => HitsTp(row, Moved(n)')
       /\ HitsSl(row, Moved(n)) => HitsSl(row, Moved(n)')
       /\ Touches(Moved(n)) => Touches(Moved(n)')
  BY <1>5, <1>6, <1>8, <1>10
<1>12. \A m \in 0..Now : /\ HitsTp(row, Moved(m)) => HitsTp(row, Moved(m)')
                         /\ HitsSl(row, Moved(m)) => HitsSl(row, Moved(m)')
                         /\ Touches(Moved(m)) => Touches(Moved(m)')
  BY <1>9, <1>10, <1>11
<1> QED BY <1>3, <1>9, <1>12

\* What a row claims stays true.
LEMMA ClaimsStay ==
  ASSUME Clock, NEW p \in Low..High, price' = Append(price, p), NEW row \in JournalRows, row.t0 <= Now,
         NEW status, NEW ambiguous, Claims(row, status, ambiguous)
  PROVE  Claims(row, status, ambiguous)'
<1>1. /\ Now \in Nat /\ Now' = Now + 1 /\ row.t0 \in Nat /\ Window \in Nat /\ row.type \in Types
  BY PricesBound, MovesStay, JournalAssumption DEF JournalRows
<1>2. \A m \in Lived(row) : m \in 0..Now /\ m \in Lived(row)'
  BY <1>1 DEF Lived
<1>3. \A m \in Lived(row)' : m \in Nat /\ row.t0 <= m /\ (m <= Now => m \in Lived(row)) /\ m < row.t0 + Window
  BY <1>1 DEF Lived
<1>4. FilledAt(row) \subseteq FilledAt(row)'
  BY <1>2, MovesStay DEF FilledAt
<1>5. \A f \in FilledAt(row)' : f \in Nat /\ (f < Now => f \in FilledAt(row))
  <2>1. CASE row.type = "market"
    BY <1>1, <2>1 DEF FilledAt
  <2>2. CASE row.type # "market"
    <3> SUFFICES ASSUME NEW f \in FilledAt(row)' PROVE f \in Nat /\ (f < Now => f \in FilledAt(row))
      OBVIOUS
    <3>1. f \in Lived(row)' /\ Touches(Moved(f)')
      BY <2>2 DEF FilledAt
    <3>2. f < Now => f \in 0..Now - 1
      BY <1>1, <1>3, <3>1
    <3>3. f < Now => f \in Lived(row) /\ Touches(Moved(f))
      BY <1>1, <1>3, <3>1, <3>2, MovesStay
    <3> QED BY <1>3, <2>2, <3>1, <3>3 DEF FilledAt
  <2> QED BY <2>1, <2>2
<1>6. SinceFill(row) \subseteq SinceFill(row)'
  BY <1>2, <1>4 DEF SinceFill
\* A fill at the last move adds no move before those there were.
<1>7. ASSUME NEW t \in SinceFill(row), NEW s \in SinceFill(row)', s < t
      PROVE  s \in SinceFill(row) /\ s \in 0..Now - 1
  <2>1. t \in 0..Now /\ s \in Lived(row)' /\ s \in Nat
    BY <1>2, <1>3 DEF SinceFill
  <2>2. s \in Lived(row) /\ s \in 0..Now - 1
    BY <1>1, <1>3, <1>7, <2>1
  <2>3. PICK f \in FilledAt(row)' : s >= f - (f % 2)
    BY DEF SinceFill
  <2>4. PICK g \in FilledAt(row) : t >= g - (g % 2)
    BY DEF SinceFill
  <2>5. CASE f \in FilledAt(row)
    BY <2>2, <2>3, <2>5 DEF SinceFill
  <2>6. CASE f \notin FilledAt(row)
    <3>1. f \in Nat /\ f >= Now
      BY <1>1, <1>5, <2>6
    <3>2. g \in Nat /\ g <= Now
      <4>1. CASE row.type = "market"
        BY <1>1, <4>1 DEF FilledAt
      <4>2. CASE row.type # "market"
        BY <1>1, <1>2, <4>2 DEF FilledAt
      <4> QED BY <4>1, <4>2
    <3>3. Candle(g) <= Candle(f) /\ Candle(g) \in Nat /\ Candle(f) \in Nat
      BY <1>1, <3>1, <3>2, CandleIs
    <3>4. s >= g - (g % 2)
      BY <2>1, <2>3, <3>3 DEF Candle
    <3> QED BY <2>2, <3>4 DEF SinceFill
  <2> QED BY <2>2, <2>5, <2>6
\* Past the deadline nothing is added.
<1>8. ASSUME row.t0 + Window <= Now
      PROVE  /\ FilledAt(row)' = FilledAt(row) /\ SinceFill(row)' = SinceFill(row)
             /\ \A m \in SinceFill(row) : m \in 0..Now - 1
  <2>1. Lived(row)' = Lived(row) /\ \A m \in Lived(row) : m \in 0..Now - 1
    BY <1>1, <1>8 DEF Lived
  <2>2. FilledAt(row)' = FilledAt(row)
    BY <2>1, MovesStay DEF FilledAt
  <2> QED BY <2>1, <2>2 DEF SinceFill
<1>9. \A t \in SinceFill(row) : t \in 0..Now
  BY <1>2 DEF SinceFill
<1>10. WinOK(row) => WinOK(row)'
  <2> SUFFICES ASSUME NEW t \in SinceFill(row), HitsTp(row, Moved(t)),
                      \A s \in SinceFill(row) : s < t => ~HitsSl(row, Moved(s))
               PROVE  WinOK(row)'
    BY DEF WinOK
  <2>1. t \in SinceFill(row)' /\ HitsTp(row, Moved(t)')
    BY <1>6, <1>9, MovesStay
  <2>2. \A s \in SinceFill(row)' : s < t => ~HitsSl(row, Moved(s)')
    BY <1>7, MovesStay
  <2> QED BY <2>1, <2>2 DEF WinOK, HitsTp, HitsSl
<1>11. LossOK(row, ambiguous) => LossOK(row, ambiguous)'
  <2> SUFFICES ASSUME NEW t \in SinceFill(row), HitsSl(row, Moved(t)),
                      ambiguous \/ \A s \in SinceFill(row) : s < t => ~HitsTp(row, Moved(s))
               PROVE  LossOK(row, ambiguous)'
    BY DEF LossOK
  <2>1. t \in SinceFill(row)' /\ HitsSl(row, Moved(t)')
    BY <1>6, <1>9, MovesStay
  <2>2. ambiguous \/ \A s \in SinceFill(row)' : s < t => ~HitsTp(row, Moved(s)')
    BY <1>7, MovesStay
  <2> QED BY <2>1, <2>2 DEF LossOK, HitsTp, HitsSl
<1>12. ExpiredOK(row) => ExpiredOK(row)'
  <2> SUFFICES ASSUME ExpiredOK(row) PROVE ExpiredOK(row)'
    OBVIOUS
  <2>1. row.t0 + Window <= Now /\ FilledAt(row) # {} /\ \A t \in SinceFill(row) : ~Hits(row, Moved(t))
    BY DEF ExpiredOK
  <2>2. row.t0 + Window <= Now'
    BY <1>1, <2>1
  <2>3. \A t \in SinceFill(row)' : ~HitsTp(row, Moved(t)') /\ ~HitsSl(row, Moved(t)')
    BY <1>8, <2>1, MovesStay DEF Hits
  <2> QED BY <1>8, <2>1, <2>2, <2>3 DEF ExpiredOK, Hits, HitsTp, HitsSl
<1>13. NoFillOK(row) => NoFillOK(row)'
  BY <1>1, <1>8 DEF NoFillOK
<1> QED BY <1>10, <1>11, <1>12, <1>13 DEF Claims

-----------------------------------------------------------------------------
(* The journal: its inductive invariant *)

\* Rows are of the past, and what is decided is true.
RowsPast == \A i \in 1..Len(rows) : rows[i].t0 <= Now
Truthful == \A i \in 1..Len(rows) : Claims(rows[i], rows[i].status, rows[i].ambiguous)

\* q was row i: row i still is that proposal, or a later one has its place.
Follows(q, i) ==
  \/ /\ i \in 1..Len(rows) /\ q.t0 <= rows[i].t0 /\ q.ver <= rows[i].ver
     /\ rows[i].ver = q.ver => rows[i].t0 = q.t0 /\ rows[i].dir = q.dir /\ rows[i].type = q.type
  \/ q.t0 < Now /\ (i \in 1..Len(rows) => q.t0 < rows[i].t0)

\* The pass works on rows that were there, and its outcomes are true of them.
Sources ==
  /\ pass.step = "fetch" =>
       /\ pass.at <= Now
       /\ \A i \in 1..Len(pass.read) : pass.read[i].t0 <= pass.at /\ Follows(pass.read[i], i)
  /\ pass.step = "write" =>
       \A i \in 1..Len(pass.found) :
         \E q \in JournalRows : /\ q.t0 = pass.found[i].t0 /\ q.ver = pass.found[i].ver /\ q.t0 <= Now
                                /\ Follows(q, i)
                                /\ Claims(q, pass.found[i].out.status, pass.found[i].out.ambiguous)

JournalInv == TypeInv /\ RowsPast /\ Truthful /\ Sources

\* What a step does to the rows.
Refreshed(k, w) ==
  /\ k \in 1..Len(rows) /\ rows[k].status = "PENDING" /\ rows' = [rows EXCEPT ![k] = w]
  /\ w.t0 = Now /\ w.ver = rows[k].ver + 1 /\ w.status = "PENDING"
Inserted(w) == rows' = Append(rows, w) /\ w.t0 = Now /\ w.status = "PENDING"
Cleared == rows' = <<>> /\ \A i \in 1..Len(rows) : rows[i].t0 < Now
Written(k, w) ==
  /\ pass.step = "write" /\ k \in 1..Len(pass.found) /\ k \in 1..Len(rows)
  /\ rows[k].status = "PENDING" /\ rows[k].ver = pass.found[k].ver /\ rows[k].t0 = pass.found[k].t0
  /\ rows' = [rows EXCEPT ![k] = w] /\ w.t0 = rows[k].t0 /\ w.ver = rows[k].ver
  /\ w.dir = rows[k].dir /\ w.type = rows[k].type
  /\ w.status = pass.found[k].out.status /\ w.ambiguous = pass.found[k].out.ambiguous

\* An analysis that refreshes a row replaces one still pending.
LEMMA ProposalRefreshed ==
  ASSUME TypeInv, NEW p \in Proposals, Refresh(p)
  PROVE  \E k \in Nat, w \in JournalRows : Refreshed(k, w)
<1>0. rows \in Seq(JournalRows) /\ Len(rows) \in Nat
  BY LenProperties DEF TypeInv, RowsOK
<1>1. PICK i \in NewestPending : rows' = [rows EXCEPT ![i] = Row(p, rows[i].ver + 1)]
  BY DEF Refresh
<1>2. Pending # {} /\ i = Max(Pending)
  BY <1>1 DEF NewestPending
<1>3. Pending \in SUBSET (0..Len(rows))
  BY <1>0 DEF Pending
<1>4. i \in Pending
  BY <1>0, <1>2, <1>3, GreatestOf
<1>5. i \in 1..Len(rows) /\ rows[i].status = "PENDING" /\ i \in Nat
  BY <1>0, <1>4 DEF Pending
<1>6. rows[i] \in JournalRows
  BY <1>0, <1>5, ElementOfSeq
<1>7. rows[i].ver + 1 \in Nat
  BY <1>6 DEF JournalRows
<1>8. Row(p, rows[i].ver + 1) \in JournalRows
  BY <1>7, RowTyped DEF TypeInv
<1>9. Refreshed(i, Row(p, rows[i].ver + 1))
  BY <1>1, <1>5 DEF Refreshed, Row
<1> QED BY <1>5, <1>8, <1>9

\* The pass writes to a row that is still the one it decided, or to none.
LEMMA OutcomeWritten ==
  ASSUME TypeInv, WriteOutcome
  PROVE  rows' = rows \/ \E k \in Nat, w \in JournalRows : Written(k, w)
<1>0. rows \in Seq(JournalRows) /\ Len(rows) \in Nat
  BY LenProperties DEF TypeInv, RowsOK
<1> DEFINE i == pass.next
           out == pass.found[i].out
           w == [rows[i] EXCEPT !.status = out.status, !.ambiguous = out.ambiguous]
<1>1. /\ pass.step = "write" /\ i \in Nat /\ i \in 1..Len(pass.found)
      /\ pass.found[i] \in [t0 : 0..MaxTime, ver : Nat, out : Outcomes]
  <2>1. pass.step = "write" /\ i \in Nat \ {0} /\ i <= Len(pass.found)
        /\ pass.found \in Seq([t0 : 0..MaxTime, ver : Nat, out : Outcomes])
    BY DEF WriteOutcome, TypeInv, PassOK, Passes
  <2>2. Len(pass.found) \in Nat
    BY <2>1, LenProperties
  <2>3. i \in 1..Len(pass.found)
    BY <2>1, <2>2
  <2> QED BY <2>1, <2>3, ElementOfSeq
<1>2. \/ rows' = rows
      \/ /\ i \in 1..Len(rows) /\ SameVersion(i)
         /\ rows' = [rows EXCEPT ![i].status = out.status, ![i].ambiguous = out.ambiguous]
  BY DEF WriteOutcome, Decides
<1>3. ASSUME i \in 1..Len(rows), SameVersion(i),
             rows' = [rows EXCEPT ![i].status = out.status, ![i].ambiguous = out.ambiguous]
      PROVE  w \in JournalRows /\ Written(i, w)
  <2>1. rows[i] \in JournalRows
    BY <1>0, <1>3, ElementOfSeq
  <2>2. out \in Outcomes
    BY <1>1
  <2>3. /\ w \in JournalRows /\ w.t0 = rows[i].t0 /\ w.ver = rows[i].ver /\ w.dir = rows[i].dir
        /\ w.type = rows[i].type /\ w.status = out.status /\ w.ambiguous = out.ambiguous
    BY <2>1, <2>2 DEF Outcomes, JournalRows
  <2>4. rows' = [rows EXCEPT ![i] = w]
    BY <1>0, <1>3
  <2>5. /\ rows[i].status = "PENDING" /\ rows[i].ver = pass.found[i].ver /\ rows[i].t0 = pass.found[i].t0
    BY <1>3 DEF SameVersion, Pending
  <2> HIDE DEF w, i
  <2> QED BY <1>1, <1>3, <2>3, <2>4, <2>5 DEF Written, i
<1> HIDE DEF w, i
<1> QED BY <1>1, <1>2, <1>3

\* Every way in which the rows change.
LEMMA RowChange ==
  ASSUME TypeInv, [JournalNext]_journalVars
  PROVE  \/ rows' = rows
         \/ price' = price /\ \/ Cleared
                              \/ \E w \in JournalRows : Inserted(w)
                              \/ \E k \in Nat, w \in JournalRows : Refreshed(k, w) \/ Written(k, w)
<1>1. ASSUME NEW p \in Proposals, Refresh(p)
      PROVE  price' = price /\ \E k \in Nat, w \in JournalRows : Refreshed(k, w)
  BY <1>1, ProposalRefreshed DEF Refresh
<1>2. ASSUME NEW p \in Proposals, Insert(p) PROVE price' = price /\ \E w \in JournalRows : Inserted(w)
  <2>1. Row(p, 0) \in JournalRows
    BY RowTyped DEF TypeInv
  <2> QED BY <1>2, <2>1 DEF Insert, Inserted, Row
<1>3. CASE Clear
  BY <1>3 DEF Clear, Cleared
<1>4. CASE WriteOutcome
  BY <1>4, OutcomeWritten DEF WriteOutcome
<1> QED BY <1>1, <1>2, <1>3, <1>4 DEF JournalNext, ReadPending, FetchCandles, CandlesFail, Tick, journalVars

\* The same, row by row.
LEMMA RowByRow ==
  ASSUME TypeInv, [JournalNext]_journalVars
  PROVE  /\ Len(rows) \in Nat /\ Len(rows') \in Nat /\ rows \in Seq(JournalRows) /\ rows' \in Seq(JournalRows)
         /\ \A k, w : Refreshed(k, w) \/ Written(k, w) =>
              Len(rows') = Len(rows) /\ \A i \in 1..Len(rows) : rows'[i] = IF i = k THEN w ELSE rows[i]
         /\ \A w : Inserted(w) =>
              /\ Len(rows') = Len(rows) + 1 /\ rows'[Len(rows) + 1] = w
              /\ \A i \in 1..Len(rows) : rows'[i] = rows[i]
         /\ Cleared => Len(rows') = 0
<1>1. rows \in Seq(JournalRows) /\ Len(rows) \in Nat /\ rows' \in Seq(JournalRows) /\ Len(rows') \in Nat
  BY RowSteps, LenProperties DEF TypeInv, RowsOK
<1>2. ASSUME NEW k, NEW w, Refreshed(k, w) \/ Written(k, w)
      PROVE  Len(rows') = Len(rows) /\ \A i \in 1..Len(rows) : rows'[i] = IF i = k THEN w ELSE rows[i]
  <2>1. rows' = [rows EXCEPT ![k] = w]
    BY <1>2 DEF Refreshed, Written
  <2>2. DOMAIN rows = 1..Len(rows) /\ DOMAIN rows' = 1..Len(rows')
    BY <1>1, LenProperties
  <2>3. Len(rows') = Len(rows)
    BY <1>1, <2>1, <2>2
  <2> QED BY <2>1, <2>2, <2>3
<1>3. ASSUME NEW w, Inserted(w)
      PROVE  /\ Len(rows') = Len(rows) + 1 /\ rows'[Len(rows) + 1] = w
             /\ \A i \in 1..Len(rows) : rows'[i] = rows[i]
  BY <1>1, <1>3, AppendProperties DEF Inserted
<1>4. Cleared => Len(rows') = 0
  BY EmptySeq DEF Cleared
<1> QED BY <1>1, <1>2, <1>3, <1>4

\* A decided row is never written again; it can only be cleared.
THEOREM DecidedStays == JournalSpec => FinalKept
<1> DEFINE Keeps == \A i \in 1..Len(rows) : rows[i].status # "PENDING" => rows' = <<>> \/ rows'[i] = rows[i]
<1>1. TypeInv /\ [JournalNext]_journalVars => [Keeps]_journalVars
  <2> SUFFICES ASSUME TypeInv, JournalNext, NEW i \in 1..Len(rows), rows[i].status # "PENDING", rows' # <<>>
               PROVE  rows'[i] = rows[i]
    OBVIOUS
  <2>1. CASE \E k \in Nat, w \in JournalRows : Refreshed(k, w) \/ Written(k, w)
    <3>1. PICK k \in Nat, w \in JournalRows : Refreshed(k, w) \/ Written(k, w)
      BY <2>1
    <3>2. rows[k].status = "PENDING"
      BY <3>1 DEF Refreshed, Written
    <3> QED BY <3>1, <3>2, RowByRow
  <2>2. CASE \E w \in JournalRows : Inserted(w)
    BY <2>2, RowByRow
  <2> QED BY <2>1, <2>2, RowChange DEF Cleared
<1>2. JournalSpec => [][Keeps]_journalVars
  BY <1>1, TypeInvInit, TypeInvStep, PTL DEF JournalSpec
<1> QED BY <1>2 DEF FinalKept

\* Without a new price every claim stays as it is.
LEMMA PriceStays ==
  ASSUME price' = price, NEW row, NEW s, NEW a
  PROVE  Claims(row, s, a)' <=> Claims(row, s, a)
<1>1. Now' = Now /\ \A t : Price(t)' = Price(t)
  BY DEF Now, Price
<1>2. \A t : Moved(t)' = Moved(t)
  BY <1>1 DEF Moved
<1>3. Lived(row)' = Lived(row)
  BY <1>1 DEF Lived
<1>4. FilledAt(row)' = FilledAt(row)
  BY <1>2, <1>3 DEF FilledAt
<1>5. SinceFill(row)' = SinceFill(row)
  BY <1>3, <1>4 DEF SinceFill
<1>6. WinOK(row)' <=> WinOK(row)
  BY <1>2, <1>5 DEF WinOK, HitsTp, HitsSl
<1>7. LossOK(row, a)' <=> LossOK(row, a)
  BY <1>2, <1>5 DEF LossOK, HitsTp, HitsSl
<1>8. ExpiredOK(row)' <=> ExpiredOK(row)
  BY <1>1, <1>2, <1>4, <1>5 DEF ExpiredOK, Hits, HitsTp, HitsSl
<1>9. NoFillOK(row)' <=> NoFillOK(row)
  BY <1>1, <1>4 DEF NoFillOK
<1> QED BY <1>6, <1>7, <1>8, <1>9 DEF Claims

\* A claim survives every step.
LEMMA ClaimsKept ==
  ASSUME TypeInv, [JournalNext]_journalVars, NEW row \in JournalRows, row.t0 <= Now, NEW s, NEW a, Claims(row, s, a)
  PROVE  Claims(row, s, a)'
<1>1. CASE Tick
  BY <1>1, ClaimsStay DEF Tick, TypeInv
<1>2. CASE price' = price
  BY <1>2, PriceStays
<1> QED BY <1>1, <1>2 DEF JournalNext, Refresh, Insert, Clear, ReadPending, FetchCandles, CandlesFail,
           WriteOutcome, journalVars

\* Time does not go back, and stands while the price does.
LEMMA TimeGoesOn ==
  ASSUME TypeInv, [JournalNext]_journalVars
  PROVE  Now \in Nat /\ Now' \in Nat /\ Now <= Now' /\ (price' = price => Now' = Now)
<1>1. CASE Tick
  <2>1. PICK p \in Low..High : price' = Append(price, p)
    BY <1>1 DEF Tick
  <2>2. price \in Seq(Low..High) /\ Now \in Nat /\ Len(price) \in Nat
    BY PricesBound, LenProperties DEF TypeInv, Clock
  <2>3. Len(price') = Len(price) + 1
    BY <2>1, <2>2, AppendProperties
  <2> QED BY <2>2, <2>3 DEF Now
<1>2. CASE price' = price
  BY <1>2, PricesBound DEF TypeInv, Now
<1> QED BY <1>1, <1>2 DEF JournalNext, Refresh, Insert, Clear, ReadPending, FetchCandles, CandlesFail,
           WriteOutcome, journalVars

\* Whatever becomes of row i, it stays that proposal or gives way to a later one.
LEMMA FollowsKept ==
  ASSUME TypeInv, RowsPast, [JournalNext]_journalVars, NEW q \in JournalRows, q.t0 <= Now, NEW i \in Nat,
         Follows(q, i)
  PROVE  Follows(q, i)'
<1>1. /\ Now \in Nat /\ Now' \in Nat /\ Now <= Now' /\ q.t0 \in Nat /\ q.ver \in Nat
      /\ (price' = price => Now' = Now)
  BY TimeGoesOn DEF JournalRows
<1>2. /\ Len(rows) \in Nat /\ \A j \in 1..Len(rows) : rows[j] \in JournalRows
  BY RowByRow, ElementOfSeq
<1>3. \A j \in 1..Len(rows) : rows[j].t0 \in Nat /\ rows[j].ver \in Nat /\ rows[j].t0 <= Now
  BY <1>2 DEF JournalRows, RowsPast
<1>4. CASE rows' = rows
  BY <1>1, <1>3, <1>4 DEF Follows
<1>5. CASE price' = price /\ Cleared
  <2>1. Len(rows') = 0 /\ Now' = Now
    BY <1>1, <1>5, RowByRow
  <2>2. q.t0 < Now
    BY <1>1, <1>3, <1>5 DEF Follows, Cleared
  <2> QED BY <2>1, <2>2 DEF Follows
<1>6. ASSUME NEW w \in JournalRows, Inserted(w), price' = price PROVE Follows(q, i)'
  <2>1. /\ Len(rows') = Len(rows) + 1 /\ rows'[Len(rows) + 1] = w /\ w.t0 = Now /\ Now' = Now
        /\ \A j \in 1..Len(rows) : rows'[j] = rows[j]
    BY <1>1, <1>6, RowByRow DEF Inserted
  <2>2. CASE i \in 1..Len(rows)
    BY <1>1, <1>2, <2>1, <2>2 DEF Follows
  <2>3. CASE i \notin 1..Len(rows)
    <3>1. q.t0 < Now
      BY <2>3 DEF Follows
    <3>2. i \in 1..Len(rows') => i = Len(rows) + 1
      BY <1>2, <2>1, <2>3
    <3> QED BY <2>1, <3>1, <3>2 DEF Follows
  <2> QED BY <2>2, <2>3
<1>7. ASSUME NEW k \in Nat, NEW w \in JournalRows, Refreshed(k, w), price' = price PROVE Follows(q, i)'
  <2>1. /\ Len(rows') = Len(rows) /\ Now' = Now /\ \A j \in 1..Len(rows) : rows'[j] = IF j = k THEN w ELSE rows[j]
        /\ w.t0 = Now /\ w.ver = rows[k].ver + 1 /\ k \in 1..Len(rows)
    BY <1>1, <1>7, RowByRow DEF Refreshed
  <2>2. CASE i = k
    <3>1. rows'[i].t0 = Now /\ rows'[i].ver = rows[i].ver + 1 /\ rows[i].ver \in Nat
      BY <1>3, <2>1, <2>2
    <3>2. CASE q.ver <= rows[i].ver
      <4>1. q.ver <= rows'[i].ver /\ q.ver # rows'[i].ver
        BY <1>1, <3>1, <3>2
      <4> QED BY <2>1, <2>2, <3>1, <4>1 DEF Follows
    <3>3. CASE q.t0 < Now
      BY <2>1, <3>1, <3>3 DEF Follows
    <3> QED BY <3>2, <3>3 DEF Follows
  <2>3. CASE i # k
    BY <2>1, <2>3 DEF Follows
  <2> QED BY <2>2, <2>3
<1>8. ASSUME NEW k \in Nat, NEW w \in JournalRows, Written(k, w), price' = price PROVE Follows(q, i)'
  <2>1. /\ Len(rows') = Len(rows) /\ Now' = Now /\ \A j \in 1..Len(rows) : rows'[j] = IF j = k THEN w ELSE rows[j]
        /\ w.t0 = rows[k].t0 /\ w.ver = rows[k].ver /\ w.dir = rows[k].dir /\ w.type = rows[k].type
    BY <1>1, <1>8, RowByRow DEF Written
  <2>2. \A j \in 1..Len(rows) : /\ rows'[j].t0 = rows[j].t0 /\ rows'[j].ver = rows[j].ver
                                /\ rows'[j].dir = rows[j].dir /\ rows'[j].type = rows[j].type
    BY <2>1
  <2> QED BY <2>1, <2>2 DEF Follows
<1> QED BY <1>4, <1>5, <1>6, <1>7, <1>8, RowChange

\* A found outcome is true of the row it is written to.
LEMMA WrittenTrue ==
  ASSUME JournalInv, NEW k \in Nat, NEW w \in JournalRows, Written(k, w)
  PROVE  Claims(w, w.status, w.ambiguous)
<1> DEFINE st == pass.found[k].out.status
           am == pass.found[k].out.ambiguous
<1>1. /\ pass.step = "write" /\ k \in 1..Len(pass.found) /\ k \in 1..Len(rows)
      /\ rows[k].ver = pass.found[k].ver /\ rows[k].t0 = pass.found[k].t0
      /\ w.t0 = rows[k].t0 /\ w.dir = rows[k].dir /\ w.type = rows[k].type /\ w.status = st /\ w.ambiguous = am
  BY DEF Written
<1>2. PICK q \in JournalRows : /\ q.t0 = pass.found[k].t0 /\ q.ver = pass.found[k].ver
                               /\ Follows(q, k) /\ Claims(q, st, am)
  BY <1>1 DEF JournalInv, Sources
<1>3. rows[k].t0 \in Nat /\ q.t0 \in Nat
  <2>1. rows[k] \in JournalRows
    BY <1>1, ElementOfSeq DEF JournalInv, TypeInv, RowsOK
  <2> QED BY <2>1 DEF JournalRows
<1>4. q.dir = rows[k].dir /\ q.type = rows[k].type
  BY <1>1, <1>2, <1>3 DEF Follows
<1> HIDE DEF st, am
<1>5. Claims(w, st, am)
  BY <1>1, <1>2, <1>4, SameClaims
<1> QED BY <1>1, <1>5

\* Rows stay of the past and true.
LEMMA TruthKept ==
  ASSUME JournalInv, [JournalNext]_journalVars
  PROVE  RowsPast' /\ Truthful'
<1>1. /\ TypeInv /\ RowsPast /\ Truthful
      /\ Len(rows) \in Nat /\ Len(rows') \in Nat
      /\ \A j \in 1..Len(rows) : rows[j] \in JournalRows /\ rows[j].t0 \in Nat /\ rows[j].t0 <= Now
      /\ Now \in Nat /\ Now' \in Nat /\ Now <= Now' /\ (price' = price => Now' = Now)
  <2>1. TypeInv /\ RowsPast /\ Truthful
    BY DEF JournalInv
  <2>2. Len(rows) \in Nat /\ Len(rows') \in Nat /\ \A j \in 1..Len(rows) : rows[j] \in JournalRows
    BY <2>1, RowByRow, ElementOfSeq
  <2>3. \A j \in 1..Len(rows) : rows[j].t0 \in Nat /\ rows[j].t0 <= Now
    BY <2>1, <2>2 DEF JournalRows, RowsPast
  <2> QED BY <2>1, <2>2, <2>3, TimeGoesOn
<1> DEFINE good(r) == r.t0 <= Now' /\ Claims(r, r.status, r.ambiguous)'
<1>2. SUFFICES \A i \in 1..Len(rows') : /\ rows'[i].t0 <= Now'
                                        /\ \E r : r = rows'[i] /\ Claims(r, r.status, r.ambiguous)'
  BY DEF RowsPast, Truthful
<1>3. \A j \in 1..Len(rows) : \E r : /\ r = rows[j] /\ r.t0 <= Now'
                                     /\ Claims(r, r.status, r.ambiguous)'
  <2> TAKE j \in 1..Len(rows)
  <2>1. PICK r \in JournalRows : r = rows[j]
    BY <1>1
  <2>2. PICK s, a : s = r.status /\ a = r.ambiguous
    OBVIOUS
  <2>3. Claims(r, s, a)
    BY <1>1, <2>1, <2>2 DEF Truthful
  <2>4. Claims(r, s, a)'
    BY <1>1, <2>1, <2>3, ClaimsKept
  <2>5. r.t0 <= Now'
    BY <1>1, <2>1
  <2> QED BY <2>1, <2>2, <2>4, <2>5
<1>4. CASE rows' = rows
  BY <1>3, <1>4
<1>5. CASE price' = price /\ Cleared
  <2>1. Len(rows') = 0
    BY <1>1, <1>5, RowByRow
  <2> QED BY <2>1
<1>6. ASSUME NEW w \in JournalRows, price' = price, w.status = "PENDING", w.t0 <= Now
      PROVE  w.t0 <= Now' /\ Claims(w, w.status, w.ambiguous)'
  <2>1. Claims(w, w.status, w.ambiguous)
    BY <1>6 DEF Claims
  <2> QED BY <1>1, <1>6, <2>1, PriceStays
<1>7. ASSUME NEW w \in JournalRows, Inserted(w), price' = price
      PROVE  \A i \in 1..Len(rows') : /\ rows'[i].t0 <= Now'
                                      /\ \E r : r = rows'[i] /\ Claims(r, r.status, r.ambiguous)'
  <2>1. /\ Len(rows') = Len(rows) + 1 /\ rows'[Len(rows) + 1] = w /\ w.t0 = Now /\ w.status = "PENDING"
        /\ \A j \in 1..Len(rows) : rows'[j] = rows[j]
    BY <1>1, <1>7, RowByRow DEF Inserted
  <2>2. w.t0 <= Now' /\ Claims(w, w.status, w.ambiguous)'
    BY <1>1, <1>6, <1>7, <2>1
  <2>3. \A i \in 1..Len(rows') : i \in 1..Len(rows) \/ i = Len(rows) + 1
    BY <1>1, <2>1
  <2> QED BY <1>3, <2>1, <2>2, <2>3
<1>8. ASSUME NEW k \in Nat, NEW w \in JournalRows, Refreshed(k, w) \/ Written(k, w), price' = price
      PROVE  \A i \in 1..Len(rows') : /\ rows'[i].t0 <= Now'
                                      /\ \E r : r = rows'[i] /\ Claims(r, r.status, r.ambiguous)'
  <2>1. Len(rows') = Len(rows) /\ \A j \in 1..Len(rows) : rows'[j] = IF j = k THEN w ELSE rows[j]
    BY <1>1, <1>8, RowByRow
  <2>2. w.t0 <= Now' /\ Claims(w, w.status, w.ambiguous)'
    <3>1. CASE Refreshed(k, w)
      <4>1. w.status = "PENDING" /\ w.t0 <= Now
        BY <1>1, <3>1 DEF Refreshed
      <4> QED BY <1>6, <1>8, <4>1
    <3>2. CASE Written(k, w)
      <4>1. w.t0 <= Now'
        BY <1>1, <3>2 DEF Written
      <4>2. Claims(w, w.status, w.ambiguous)
        BY <3>2, WrittenTrue
      <4> QED BY <1>8, <4>1, <4>2, PriceStays
    <3> QED BY <1>8, <3>1, <3>2
  <2> QED BY <1>3, <2>1, <2>2
<1> QED BY <1>1, <1>4, <1>5, <1>7, <1>8, RowChange

\* A pass begins with the rows as they are.
LEMMA ReadFollows ==
  ASSUME TypeInv, RowsPast, ReadPending
  PROVE  Sources'
<1>1. rows \in Seq(JournalRows) /\ price' = price /\ rows' = rows
  BY DEF ReadPending, TypeInv, RowsOK
<1>2. pass'.step = "fetch" /\ pass'.at = Now /\ pass'.read = rows
  BY DEF ReadPending, NoPass
<1>3. Now' = Now /\ Now \in Nat
  BY <1>1, PricesBound DEF TypeInv, Now
<1>4. \A i \in 1..Len(rows) : rows[i].t0 \in Nat /\ rows[i].ver \in Nat /\ rows[i].t0 <= Now
  <2> TAKE i \in 1..Len(rows)
  <2>1. rows[i] \in JournalRows
    BY <1>1, ElementOfSeq
  <2> QED BY <2>1 DEF JournalRows, RowsPast
<1>5. ASSUME NEW i \in 1..Len(rows) PROVE (pass.read[i].t0 <= pass.at /\ Follows(pass.read[i], i))'
  BY <1>1, <1>2, <1>4, <1>5 DEF Follows
<1> QED BY <1>2, <1>3, <1>5 DEF Sources

\* What candles say of the rows read is true of them.
LEMMA FetchDecides ==
  ASSUME TypeInv, Sources, FetchCandles
  PROVE  Sources'
<1> DEFINE say(row, bars) == IF row.status # "PENDING" THEN Outcome("PENDING")
                             ELSE OrStale(row, Resolve(row, bars, pass.at), pass.at)
           entry(bars, i) == [t0 |-> pass.read[i].t0, ver |-> pass.read[i].ver, out |-> say(pass.read[i], bars)]
<1>1. PICK bars \in ServedBars :
        pass' = [NoPass EXCEPT !.step = "write", !.found = [i \in 1..Len(pass.read) |-> entry(bars, i)]]
  BY DEF FetchCandles
<1>2. /\ pass.read \in Seq(JournalRows) /\ Len(pass.read) \in Nat /\ pass.at \in Nat /\ Now \in Nat
      /\ pass.at <= Now /\ price' = price /\ rows' = rows /\ Now' = Now
      /\ \A i \in 1..Len(pass.read) : pass.read[i].t0 <= pass.at /\ Follows(pass.read[i], i)
  <2>1. pass.read \in Seq(JournalRows) /\ pass.at \in Nat
    BY JournalAssumption DEF TypeInv, PassOK, Passes
  <2> QED BY <2>1, LenProperties, PricesBound DEF FetchCandles, TypeInv, Sources, Now
<1> HIDE DEF entry
<1>3. pass'.step = "write" /\ pass'.found = [i \in 1..Len(pass.read) |-> entry(bars, i)]
  BY <1>1 DEF NoPass
<1>4. Len(pass'.found) = Len(pass.read) /\ \A i \in 1..Len(pass.read) : pass'.found[i] = entry(bars, i)
  BY <1>2, <1>3
<1>5. ASSUME NEW i \in 1..Len(pass.read)
      PROVE  (\E q \in JournalRows : /\ q.t0 = pass.found[i].t0 /\ q.ver = pass.found[i].ver /\ q.t0 <= Now
                                     /\ Follows(q, i)
                                     /\ Claims(q, pass.found[i].out.status, pass.found[i].out.ambiguous))'
  <2>1. PICK q \in JournalRows : q = pass.read[i]
    BY <1>2, <1>5, ElementOfSeq
  <2>2. q.t0 \in Nat /\ q.t0 <= Now
    BY <1>2, <2>1 DEF JournalRows
  <2>3. Claims(q, say(q, bars).status, say(q, bars).ambiguous)
    <3>1. CASE q.status # "PENDING"
      BY <3>1 DEF Outcome, Claims
    <3>2. CASE q.status = "PENDING"
      <4>1. Claims(q, OrStale(q, Resolve(q, bars, pass.at), pass.at).status,
                      OrStale(q, Resolve(q, bars, pass.at), pass.at).ambiguous)
        BY <1>2, <2>2, ResolveDecides DEF TypeInv
      <4> QED BY <3>2, <4>1
    <3> QED BY <3>1, <3>2
  <2> HIDE DEF say
  <2>4. pass'.found[i].t0 = q.t0 /\ pass'.found[i].ver = q.ver /\ pass'.found[i].out = say(q, bars)
    <3>1. pass'.found[i] = [t0 |-> q.t0, ver |-> q.ver, out |-> say(q, bars)]
      BY <1>4, <1>5, <2>1 DEF entry
    <3> QED BY <3>1
  <2>5. PICK s, a : s = say(q, bars).status /\ a = say(q, bars).ambiguous
    OBVIOUS
  <2>6. Claims(q, s, a)'
    BY <1>2, <2>3, <2>5, PriceStays
  <2>7. Follows(q, i)'
    <3>1. Follows(q, i)
      BY <1>2, <2>1
    <3> QED BY <1>2, <3>1 DEF Follows
  <2>8. pass'.found[i].out.status = s /\ pass'.found[i].out.ambiguous = a
    BY <2>4, <2>5
  <2>9. Claims(q, pass.found[i].out.status, pass.found[i].out.ambiguous)'
    BY <2>6, <2>8 DEF Claims, LossOK
  <2> QED BY <1>2, <2>2, <2>4, <2>7, <2>9
<1> QED BY <1>3, <1>4, <1>5 DEF Sources

\* The outcomes still to be written stay true of what they are for.
LEMMA SourcesLast ==
  ASSUME JournalInv, [JournalNext]_journalVars, pass'.step = pass.step, pass'.at = pass.at,
         pass'.read = pass.read, pass'.found = pass.found
  PROVE  Sources'
<1>1. Now \in Nat /\ Now' \in Nat /\ Now <= Now' /\ TypeInv /\ RowsPast /\ Sources
  BY TimeGoesOn DEF JournalInv
<1>2. ASSUME pass.step = "fetch"
      PROVE  (pass.at <= Now /\ \A i \in 1..Len(pass.read) : pass.read[i].t0 <= pass.at /\ Follows(pass.read[i], i))'
  <2>1. pass.at \in Nat /\ pass.read \in Seq(JournalRows) /\ Len(pass.read) \in Nat
    BY <1>1, LenProperties, JournalAssumption DEF TypeInv, PassOK, Passes
  <2>2. pass.at <= Now
    BY <1>1, <1>2 DEF Sources
  <2>3. ASSUME NEW i \in 1..Len(pass.read) PROVE (pass.read[i].t0 <= pass.at /\ Follows(pass.read[i], i))'
    <3>1. PICK q \in JournalRows : q = pass.read[i]
      BY <2>1, <2>3, ElementOfSeq
    <3>2. q.t0 <= pass.at /\ Follows(q, i) /\ q.t0 \in Nat
      BY <1>1, <1>2, <2>3, <3>1 DEF Sources, JournalRows
    <3>3. q.t0 <= Now
      BY <1>1, <2>1, <2>2, <3>2
    <3>4. Follows(q, i)'
      BY <1>1, <2>1, <2>3, <3>2, <3>3, FollowsKept
    <3>5. pass'.read[i] = q
      BY <3>1
    <3>6. Follows(pass.read[i], i)'
      BY <3>4, <3>5 DEF Follows
    <3> QED BY <3>2, <3>5, <3>6
  <2>4. pass'.at <= Now'
    BY <1>1, <2>1, <2>2
  <2> QED BY <2>3, <2>4
<1>3. ASSUME pass.step = "write", NEW i \in 1..Len(pass.found)
      PROVE  (\E q \in JournalRows : /\ q.t0 = pass.found[i].t0 /\ q.ver = pass.found[i].ver /\ q.t0 <= Now
                                     /\ Follows(q, i)
                                     /\ Claims(q, pass.found[i].out.status, pass.found[i].out.ambiguous))'
  <2>1. PICK s, a : s = pass.found[i].out.status /\ a = pass.found[i].out.ambiguous
    OBVIOUS
  <2>2. PICK q \in JournalRows : /\ q.t0 = pass.found[i].t0 /\ q.ver = pass.found[i].ver /\ q.t0 <= Now
                                 /\ Follows(q, i) /\ Claims(q, s, a)
    BY <1>1, <1>3, <2>1 DEF Sources
  <2>3. i \in Nat /\ q.t0 \in Nat
    <3>1. Len(pass.found) \in Nat
      BY <1>1, LenProperties DEF TypeInv, PassOK, Passes
    <3> QED BY <3>1 DEF JournalRows
  <2>4. Follows(q, i)' /\ Claims(q, s, a)'
    BY <1>1, <2>2, <2>3, FollowsKept, ClaimsKept
  <2>5. q.t0 <= Now'
    BY <1>1, <2>2, <2>3
  <2>6. Claims(q, pass.found[i].out.status, pass.found[i].out.ambiguous)'
    <3>1. pass'.found[i].out.status = s /\ pass'.found[i].out.ambiguous = a
      BY <2>1
    <3> QED BY <2>4, <3>1 DEF Claims, LossOK
  <2> QED BY <2>2, <2>4, <2>5, <2>6
<1> QED BY <1>2, <1>3 DEF Sources

\* The pass stays one over rows that were there.
LEMMA SourcesKept ==
  ASSUME JournalInv, [JournalNext]_journalVars
  PROVE  Sources'
<1>0. TypeInv /\ RowsPast /\ Sources /\ pass \in Passes
  BY DEF JournalInv, TypeInv, PassOK
<1>1. CASE ReadPending
  BY <1>0, <1>1, ReadFollows
<1>2. CASE FetchCandles
  BY <1>0, <1>2, FetchDecides
<1>3. CASE pass' = NoPass
  BY <1>3 DEF Sources, NoPass
<1>4. CASE WriteOutcome
  <2>1. pass' = NoPass \/ pass' = [pass EXCEPT !.next = pass.next + 1]
    BY <1>4 DEF WriteOutcome
  <2>2. CASE pass' = [pass EXCEPT !.next = pass.next + 1]
    <3>1. pass'.step = pass.step /\ pass'.at = pass.at /\ pass'.read = pass.read /\ pass'.found = pass.found
      BY <1>0, <2>2 DEF Passes
    <3> QED BY <3>1, SourcesLast
  <2> QED BY <1>3, <2>1, <2>2
<1>5. CASE pass' = pass
  BY <1>5, SourcesLast
<1> QED BY <1>1, <1>2, <1>3, <1>4, <1>5 DEF JournalNext, Refresh, Insert, Clear, CandlesFail, Tick, journalVars

\* Every step keeps the invariant.
LEMMA JournalInvStep == JournalInv /\ [JournalNext]_journalVars => JournalInv'
  BY TypeInvStep, TruthKept, SourcesKept DEF JournalInv

\* Every outcome of the journal is what the market did.
THEOREM OutcomesTrue == JournalSpec => []OutcomeTrue
<1>1. JournalInit => JournalInv
  <2> SUFFICES ASSUME JournalInit PROVE JournalInv
    OBVIOUS
  <2>1. rows = <<>> /\ pass.step = "idle" /\ Len(rows) = 0
    BY EmptySeq DEF JournalInit, NoPass
  <2> QED BY <2>1, TypeInvInit DEF JournalInv, RowsPast, Truthful, Sources
<1>2. JournalInv => OutcomeTrue
  BY AgreesIs DEF JournalInv, Truthful, OutcomeTrue
<1> QED BY <1>1, <1>2, JournalInvStep, PTL DEF JournalSpec

=============================================================================
