----------------------------- MODULE DbConnection -----------------------------
(***************************************************************************)
(* Units of work on the database (db/repo.py, Database._acquire): each     *)
(* method sends its statements and a commit, one await after the other, to *)
(* the thread of one shared connection, which serves them in order, while  *)
(* it holds the connection lock. A unit takes hold of the connection       *)
(* before it waits for the lock. An error or a cancellation at any await   *)
(* is followed by a shielded rollback, whose own failure or cancellation   *)
(* drops the connection from use and closes it; units that begin later     *)
(* open a connection each. The statement a cancelled unit was waiting for  *)
(* is still served.                                                        *)
(***************************************************************************)
EXTENDS Naturals, Sequences

CONSTANTS
  Units,   \* calls of repository methods, of two statements each
  NoUnit   \* nobody holds the connection lock; a close sent by the shutdown

ASSUME NobodyAssumption == NoUnit \notin Units

VARIABLES
  shared,   \* Database._shared is set
  usable,   \* the shared connection is open
  inbox,    \* statements its thread has not served
  dirty,    \* statements of its open transaction
  durable,  \* committed statements
  holder,   \* holder of the connection lock
  await,    \* await[u]: the await u is in
  told      \* told[u]: what u reported, or is bound to report

dbVars == <<shared, usable, inbox, dirty, durable, holder, await, told>>

Statements == {"first", "second"}
Parts(u) == {s \in Statements : <<u, s>> \in durable}
Own == {"own first", "own second", "own commit"}

DbTypeOK ==
  /\ shared \in BOOLEAN /\ usable \in BOOLEAN /\ holder \in Units \cup {NoUnit}
  /\ inbox \in Seq((Units \cup {NoUnit}) \X (Statements \cup {"commit", "rollback", "close"}))
  /\ dirty \subseteq Units \X Statements /\ durable \subseteq Units \X Statements
  /\ await \in [Units -> Statements \cup Own \cup
                      {"idle", "waiting", "commit", "rollback", "close", "over"}]
  /\ told \in [Units -> {"nothing", "ok", "error", "cancelled"}]

DbInit ==
  /\ shared = TRUE /\ usable = TRUE /\ inbox = <<>> /\ dirty = {} /\ durable = {}
  /\ holder = NoUnit
  /\ await = [u \in Units |-> "idle"] /\ told = [u \in Units |-> "nothing"]

-----------------------------------------------------------------------------
(* _acquire and the body of a method *)

\* u waits for its statement op, sent behind `rest`.
Sends(u, op, rest) == await' = [await EXCEPT ![u] = op] /\ inbox' = Append(rest, <<u, op>>)
Tells(u, word) == told' = [told EXCEPT ![u] = IF @ = "nothing" THEN word ELSE @]
Leaves(u) ==
  /\ await' = [await EXCEPT ![u] = "over"]
  /\ holder' = IF holder = u THEN NoUnit ELSE holder

Begin(u) ==
  /\ await[u] = "idle"
  /\ await' = [await EXCEPT ![u] = IF shared THEN "waiting" ELSE "own first"]
  /\ UNCHANGED <<shared, usable, inbox, dirty, durable, holder, told>>

TakeLock(u) ==
  /\ await[u] = "waiting" /\ holder = NoUnit /\ holder' = u /\ Sends(u, "first", inbox)
  /\ UNCHANGED <<shared, usable, dirty, durable, told>>

Following(op) == IF op = "first" THEN "second" ELSE "commit"

\* SQLite lets one connection write at a time.
Writing(u) == await[u] \in {"own second", "own commit"}

\* The thread serves the next statement; its sender goes on if it still waits.
Served ==
  /\ inbox # <<>> /\ usable
  /\ LET u == Head(inbox)[1]  op == Head(inbox)[2]  rest == Tail(inbox) IN
     /\ op # "close"
     /\ op \in Statements => \A v \in Units : ~Writing(v)
     /\ dirty' = IF op \in Statements THEN dirty \cup {<<u, op>>} ELSE {}
     /\ durable' = IF op = "commit" THEN durable \cup dirty ELSE durable
     /\ CASE await[u] # op -> inbox' = rest /\ UNCHANGED <<await, holder, told>>
          [] await[u] = op /\ op \in Statements ->
               Sends(u, Following(op), rest) /\ UNCHANGED <<holder, told>>
          [] await[u] = op /\ op \in {"commit", "rollback"} ->
               Leaves(u) /\ Tells(u, "ok") /\ inbox' = rest
  /\ UNCHANGED <<shared, usable>>

\* Disk full, database locked by another writer, or the connection is closed.
Failed ==
  /\ inbox # <<>>
  /\ LET u == Head(inbox)[1]  op == Head(inbox)[2]  rest == Tail(inbox) IN
     /\ op \notin {"rollback", "close"}
     /\ IF await[u] = op THEN Sends(u, "rollback", rest) /\ Tells(u, "error")
        ELSE inbox' = rest /\ UNCHANGED <<await, told>>
  /\ UNCHANGED <<shared, usable, dirty, durable, holder>>

\* The rollback is done or given up, and the unit ends.
NextIsRollback(u) == inbox # <<>> /\ Head(inbox) = <<u, "rollback">>

\* Faulty variant: the connection stays in use after a failed rollback.
RollbackIgnored(u) ==
  /\ NextIsRollback(u) /\ inbox' = Tail(inbox)
  /\ IF await[u] = "rollback" THEN Leaves(u) ELSE UNCHANGED <<await, holder>>
  /\ UNCHANGED <<shared, usable, dirty, durable, told>>

\* A failed rollback: the connection is dropped and closed.
RollbackFails(u) ==
  /\ NextIsRollback(u)
  /\ IF await[u] = "rollback" THEN shared' = FALSE /\ Sends(u, "close", Tail(inbox))
     ELSE inbox' = Tail(inbox) /\ UNCHANGED <<shared, await>>
  /\ UNCHANGED <<usable, dirty, durable, holder, told>>

\* The connection is closed; an open transaction is gone.
Closed ==
  /\ inbox # <<>> /\ Head(inbox)[2] = "close" /\ inbox' = Tail(inbox)
  /\ usable' = FALSE /\ dirty' = {}
  /\ LET u == Head(inbox)[1] IN
       IF u # NoUnit /\ await[u] = "close" THEN Leaves(u) ELSE UNCHANGED <<await, holder>>
  /\ UNCHANGED <<shared, durable, told>>

\* The caller is cancelled at an await; during the rollback, a second time.
Cancel(u) ==
  /\ \/ /\ await[u] \in Statements \cup {"commit"}
        /\ Sends(u, "rollback", inbox) /\ Tells(u, "cancelled") /\ UNCHANGED <<shared, holder>>
     \/ /\ await[u] = "rollback" /\ shared' = FALSE /\ Sends(u, "close", inbox)
        /\ Tells(u, "cancelled") /\ UNCHANGED holder
     \/ await[u] \in {"waiting", "close"} /\ Leaves(u) /\ Tells(u, "cancelled")
        /\ UNCHANGED <<shared, inbox>>
  /\ UNCHANGED <<usable, dirty, durable>>

-----------------------------------------------------------------------------
(* A connection per call *)

OwnWrite(u) ==
  /\ \/ await[u] = "own first" /\ dirty = {} /\ (\A v \in Units : ~Writing(v))
        /\ await' = [await EXCEPT ![u] = "own second"]
     \/ await[u] = "own second" /\ await' = [await EXCEPT ![u] = "own commit"]
  /\ UNCHANGED <<shared, usable, inbox, dirty, durable, holder, told>>

OwnCommit(u) ==
  /\ await[u] = "own commit" /\ await' = [await EXCEPT ![u] = "over"]
  /\ durable' = durable \cup ({u} \X Statements)
  /\ \/ Tells(u, "ok") \/ Tells(u, "cancelled")
  /\ UNCHANGED <<shared, usable, inbox, dirty, holder>>

OwnEnds(u) ==
  /\ await[u] \in Own /\ await' = [await EXCEPT ![u] = "over"]
  /\ \/ Tells(u, "error") \/ Tells(u, "cancelled")
  /\ UNCHANGED <<shared, usable, inbox, dirty, durable, holder>>

-----------------------------------------------------------------------------
(* lifespan *)

\* Database.close, while requests may be under way.
Shutdown ==
  /\ shared /\ shared' = FALSE /\ inbox' = Append(inbox, <<NoUnit, "close">>)
  /\ UNCHANGED <<usable, dirty, durable, holder, await, told>>

\* The process dies, and starts again with a new connection.
Restart ==
  /\ shared' = TRUE /\ usable' = TRUE /\ inbox' = <<>> /\ dirty' = {} /\ holder' = NoUnit
  /\ await' = [u \in Units |-> IF await[u] = "idle" THEN "idle" ELSE "over"]
  /\ told' = [u \in Units |->
                IF told[u] = "nothing" /\ await[u] # "idle" THEN "cancelled" ELSE told[u]]
  /\ UNCHANGED durable

DbNext ==
  \/ \E u \in Units : \/ Begin(u) \/ TakeLock(u) \/ RollbackFails(u) \/ Cancel(u)
                      \/ OwnWrite(u) \/ OwnCommit(u) \/ OwnEnds(u)
  \/ Served \/ Failed \/ Closed \/ Shutdown \/ Restart

DbSpec == DbInit /\ [][DbNext]_dbVars

-----------------------------------------------------------------------------
(* Properties *)

\* No unit of work is ever half in the database, not even when another unit
\* commits after it on the same connection: what was reported done is there
\* as a whole, and nothing of what ended in an error.
WholeUnits ==
  \A u \in Units :
    /\ Parts(u) \in {{}, Statements}
    /\ told[u] = "ok" => Parts(u) = Statements
    /\ told[u] = "error" => Parts(u) = {}

\* To its callers the connection is a store that takes the statements of a
\* unit all in one step, with one answer to each that is never taken back: no
\* commit carries along what another unit left, and a unit that was answered
\* with an error is not stored by a commit that comes late.
Promised == INSTANCE AtomicStore WITH Writes <- Units, Pieces <- Statements,
                                      content <- durable, answer <- told
ImplementsStore == Promised!Spec

=============================================================================
