------------------------------ MODULE MCPosition ------------------------------
(***************************************************************************)
(* The safety of the position row, of the cover a stop move leaves and of  *)
(* what the rules decide about the stop, for TLC. They share no state a    *)
(* property is about, so a behaviour runs one of them, named by `scene`,   *)
(* and leaves the others in an initial state.                              *)
(* Entry prices of PositionRow change one way: its two classes are alike.  *)
(* The mark crosses the invalidation price one way: no property here       *)
(* mentions it, and the alarm it leaves stays in the row.                  *)
(* The rules start armed, and are armed again, both together. Either the   *)
(* size of a position changes, once up and once down, or the trader's      *)
(* orders; after an order was removed only the quote moves; and a manual   *)
(* move leaves an order for the monitor's next.                            *)
(***************************************************************************)
EXTENDS StopMove, PositionRow, TradeRules

CONSTANTS s1, s2
VARIABLE scene

allVars == <<scene, vars, rowVars, ruleVars>>

MCInit ==
  /\ scene \in {"row", "move", "rules"} /\ Init /\ RowInit /\ RulesInit
  /\ entry = 1 /\ (scene = "row" => mark = 1)
  /\ (scene = "rules" => mark = 1)
  /\ baseline.armed = AutoRules /\ (scene # "rules" => side = "long" /\ baseline.r1 = 0)

Resized == lots # Hold \/ avg # EntryPrice
ByQuote == quote' # quote

RulesBound ==
  lots > 0 =>
    /\ lots' > lots => meddled = "no" /\ ~Resized
    /\ lots' < lots => ByQuote \/ lots' = 0 \/ lots = MaxSize
    /\ meddled' # meddled => ~Resized
    /\ meddled = "removed" => ByQuote
    /\ baseline'.armed \subseteq baseline.armed \/ baseline'.armed = AutoRules
    /\ triggers' # triggers => ByQuote \/ meddled' # meddled \/ decided' # decided \/ Cardinality(Free) > 1

MCNext ==
  \/ scene = "row" /\ RowNext /\ entry' >= entry /\ (thesis => thesis')
     /\ UNCHANGED <<scene, vars, ruleVars>>
  \/ scene = "move" /\ Next /\ UNCHANGED <<scene, rowVars, ruleVars>>
  \/ scene = "rules" /\ RulesNext /\ RulesBound /\ UNCHANGED <<scene, vars, rowVars>>

MCSpec == MCInit /\ [][MCNext]_allVars

\* Type correctness of every module.
TypesOK ==
  CASE scene = "row" -> RowTypeOK [] scene = "move" -> TypeOK [] OTHER -> RulesTypeOK

=============================================================================
