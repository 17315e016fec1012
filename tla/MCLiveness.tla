------------------------------ MODULE MCLiveness ------------------------------
(***************************************************************************)
(* What must eventually happen in the stop move and to the position row,   *)
(* for TLC. As in MCServices a behaviour runs one of them, named by        *)
(* `scene`, with the fairness its module states.                           *)
(***************************************************************************)
EXTENDS StopMove

CONSTANTS s1, s2, Entries, CloseGraceCycles

VARIABLES
  scene,
  open, rowEpoch, entry, rowServed, thesis, row, rowLock, mpc, visit, upc, req, absence,
  misses, glitches, late

P == INSTANCE PositionRow WITH
       ArmRules <- {"auto_be"}, MaxOpenings <- MaxEpochs, Restarts <- FALSE

rowVars == <<open, rowEpoch, entry, rowServed, thesis, row, rowLock, mpc, visit, upc, req,
             absence, misses, glitches, late>>
allVars == <<scene, vars, rowVars>>

MCInit == scene \in {"stop", "position"} /\ Init /\ P!RowInit /\ (scene # "stop" => mark = 1)

MCNext ==
  \/ scene = "stop" /\ Next /\ UNCHANGED <<scene, rowVars>>
  \/ scene = "position" /\ P!RowNext /\ UNCHANGED <<scene, vars>>

MCFairness ==
  /\ \A c \in Clients : WF_vars(scene = "stop" /\ lock = c /\ Move(c))
  /\ WF_rowVars(scene = "position" /\ P!MonitorStep)
  /\ WF_rowVars(scene = "position" /\ (P!SnapshotShows \/ P!SnapshotMisses))
  /\ SF_rowVars(scene = "position" /\ P!SnapshotShows)
  /\ SF_rowVars(scene = "position" /\ P!MonitorFills)
  /\ SF_rowVars(scene = "position" /\ P!MonitorUpsert)
  /\ SF_rowVars(scene = "position" /\ P!MonitorRead)
  /\ WF_rowVars(scene = "position" /\ P!RequestStep)

LiveSpec == MCInit /\ [][MCNext]_allVars /\ MCFairness

\* The liveness properties of PositionRow, in its scene.
VanishedRowClosed == scene = "position" => P!VanishedRowClosed
AlarmShown == scene = "position" => P!AlarmShown

=============================================================================
