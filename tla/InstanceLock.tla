----------------------------- MODULE InstanceLock -----------------------------
(***************************************************************************)
(* One process per data directory (main.py, lifespan): a start takes a     *)
(* kernel lock on a marker file that is created once and never removed.    *)
(* A marker without the protocol's prefix was written by an older version, *)
(* which holds no kernel lock: its owner is judged by the process id and   *)
(* the start time it names. Whoever holds the lock opens the exchange      *)
(* client and the database, serves, and lets go of the lock last. A        *)
(* process may die at any step, which frees the kernel lock.               *)
(***************************************************************************)
EXTENDS Naturals, FiniteSets

CONSTANTS
  Procs,   \* starts of the program
  Unheld   \* nobody holds the kernel lock

ASSUME UnheldAssumption == Unheld \notin Procs

VARIABLES
  file,    \* what the marker file holds
  legacy,  \* the older process a legacy marker names: alive, gone, or gone and
           \* its process id in use again; and whether its start is recorded
  kernel,  \* holder of the kernel lock
  proc,    \* proc[p]: step of p
  created  \* starts that created the file

lockVars == <<file, legacy, kernel, proc, created>>

Files == {"absent", "empty", "seed", "marked", "legacy", "garbled"}
ProcSteps == {"down", "opened", "sized", "locked", "starting", "serving", "stopping", "refused",
              "failed"}

LockTypeOK ==
  /\ file \in Files /\ kernel \in Procs \cup {Unheld} /\ created \subseteq Procs
  /\ legacy \in [owner : {"alive", "gone", "reused"}, stamped : BOOLEAN]
  /\ proc \in [Procs -> ProcSteps]

LockInit ==
  /\ file \in Files \ {"seed", "empty"} /\ kernel = Unheld /\ created = {}
  /\ legacy \in [owner : {"alive", "gone", "reused"}, stamped : BOOLEAN]
  /\ (file # "legacy" => legacy.owner = "gone")
  /\ proc = [p \in Procs |-> "down"]

Go(p, step) == proc' = [proc EXCEPT ![p] = step]
Freed(p) == IF kernel = p THEN Unheld ELSE kernel

-----------------------------------------------------------------------------
(* _acquire_instance_lock *)

\* O_CREAT | O_EXCL, else the file as it is.
OpenFile(p) ==
  /\ proc[p] = "down" /\ Go(p, "opened")
  /\ IF file = "absent" THEN file' = "empty" /\ created' = created \cup {p}
     ELSE UNCHANGED <<file, created>>
  /\ UNCHANGED <<legacy, kernel>>

\* Only the creator writes into an empty file.
SizeFile(p) ==
  /\ proc[p] = "opened"
  /\ IF p \in created THEN Go(p, "sized") /\ file' = "seed"
     ELSE /\ Go(p, IF file = "empty" THEN "refused" ELSE "sized") /\ UNCHANGED file
  /\ UNCHANGED <<legacy, kernel, created>>

TryLock(p) ==
  /\ proc[p] = "sized"
  /\ IF kernel = Unheld THEN Go(p, "locked") /\ kernel' = p
     ELSE Go(p, "refused") /\ UNCHANGED kernel
  /\ UNCHANGED <<file, legacy, created>>

\* Faulty variant: an unknown or unrecorded start time counts as a dead owner.
BusyByStart == file \in {"seed", "garbled"} \/ (file = "legacy" /\ legacy.owner = "alive"
                                              /\ legacy.stamped)

\* _legacy_instance_lock_is_busy: a malformed marker, a live process without a
\* recorded start time, or with that start time, or with none that can be read.
LegacyBusy ==
  \/ file \in {"seed", "garbled"}
  \/ file = "legacy" /\ legacy.owner = "alive"
  \/ file = "legacy" /\ legacy.owner = "reused" /\ ~legacy.stamped

\* The process whose id was reused may hide its start time.
Judge(p) ==
  /\ proc[p] = "locked"
  /\ \/ /\ p \in created \/ ~LegacyBusy
        /\ Go(p, "starting") /\ file' = "marked" /\ created' = created \ {p}
        /\ UNCHANGED kernel
     \/ /\ p \notin created
        /\ LegacyBusy \/ (file = "legacy" /\ legacy.owner = "reused")
        /\ Go(p, "refused") /\ kernel' = Unheld /\ UNCHANGED <<file, created>>
  /\ UNCHANGED legacy

\* The marker cannot be read, or is not written, in part, or written and not
\* synced: the lock is let go.
MarkFails(p) ==
  /\ proc[p] = "locked" /\ Go(p, "failed") /\ kernel' = Unheld
  /\ \/ UNCHANGED file
     \/ (p \in created \/ ~LegacyBusy) /\ file' \in {"marked", "garbled"}
  /\ created' = created \ {p} /\ UNCHANGED legacy

-----------------------------------------------------------------------------
(* lifespan *)

\* Client, tables and connection are ready; or they are closed again.
StartUp(p) ==
  /\ proc[p] = "starting" /\ \/ Go(p, "serving") \/ Go(p, "stopping")
  /\ UNCHANGED <<file, legacy, kernel, created>>

\* Faulty variant: the lock is let go before the tasks have ended.
ReleaseFirst(p) ==
  /\ proc[p] = "serving" /\ Go(p, "stopping") /\ kernel' = Freed(p)
  /\ UNCHANGED <<file, legacy, created>>

\* Shutdown begins: resolver and monitor are cancelled and awaited, the client
\* and the connection are closed.
ShutDown(p) ==
  /\ proc[p] = "serving" /\ Go(p, "stopping")
  /\ UNCHANGED <<file, legacy, kernel, created>>

\* _release_instance_lock; the file stays.
Release(p) ==
  /\ proc[p] \in {"stopping", "refused", "failed"} /\ Go(p, "down") /\ kernel' = Freed(p)
  /\ created' = created \ {p} /\ UNCHANGED <<file, legacy>>

Crash(p) ==
  /\ proc[p] # "down" /\ Go(p, "down") /\ kernel' = Freed(p)
  /\ created' = created \ {p} /\ UNCHANGED <<file, legacy>>

LegacyEnds ==
  /\ file = "legacy" /\ legacy.owner # "reused"
  /\ legacy' \in {[legacy EXCEPT !.owner = o] : o \in {"gone", "reused"} \ {legacy.owner}}
  /\ UNCHANGED <<file, kernel, proc, created>>

LockNext ==
  \/ \E p \in Procs : \/ OpenFile(p) \/ SizeFile(p) \/ TryLock(p) \/ Judge(p) \/ MarkFails(p)
                      \/ StartUp(p) \/ ShutDown(p) \/ Release(p) \/ Crash(p)
  \/ LegacyEnds

LockSpec == LockInit /\ [][LockNext]_lockVars

-----------------------------------------------------------------------------
(* Properties *)

\* Processes that use the exchange client, the database and the trade lock.
Using == {p \in Procs : proc[p] \in {"starting", "serving", "stopping"}}

\* Never two processes use one data directory, not even while one shuts down,
\* nor one beside an older version that still runs.
OneOwner ==
  /\ Cardinality(Using) <= 1
  /\ legacy.owner = "alive" => Using = {} /\ file = "legacy"

=============================================================================
