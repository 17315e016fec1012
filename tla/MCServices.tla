------------------------------ MODULE MCServices ------------------------------
(***************************************************************************)
(* Close and Cancel, the aftermath of an entry, and the services around    *)
(* the order path, for TLC. They share no state that a property is about,  *)
(* so a behaviour runs one of them, named by `scene`, and leaves the       *)
(* others in one of their initial states.                                  *)
(***************************************************************************)
EXTENDS ClosePosition, AccountCache, RiskGate, MarketProxy, OrderRecovery, InstanceLock, DbConnection,
        EntryProtection, AdvisoryCache, ShadowJournal

CONSTANT Early   \* the analysis beside a forced one and a reevaluation
VARIABLE scene

ProposalKinds == {<<"long", "limit">>, <<"short", "market">>}

allVars == <<scene, vars, evars, cacheVars, lockVars, advisoryVars, dbVars, journalVars, gateVars, proxyVars,
             recoveryVars>>

Scenes == {"close", "contend", "entry", "account", "lock", "advice", "mixed", "setup", "database", "journal",
           "gate", "stream", "recovery"}

\* Limits, metadata, accounts and tickets of the gate; a Hyperliquid contract has no
\* price tick.
RiskProfiles ==
  {[exchange |-> "mexc", trading |-> TRUE, maxRisk |-> 5, riskSlip |-> 10, entrySlip |-> 5, maxLev |-> 10, maxDrift |-> 10,
    minRrr |-> 15, strictRrr |-> TRUE, strictMargin |-> TRUE, maxNotional |-> 50,
    allowUnprotected |-> FALSE, allowManual |-> FALSE, allowCross |-> FALSE],
   [exchange |-> "hyperliquid", trading |-> TRUE, maxRisk |-> 10, riskSlip |-> 0, entrySlip |-> 5, maxLev |-> 10, maxDrift |-> 30,
    minRrr |-> 10, strictRrr |-> FALSE, strictMargin |-> FALSE, maxNotional |-> 0,
    allowUnprotected |-> FALSE, allowManual |-> TRUE, allowCross |-> TRUE]}

RiskContracts ==
  {[api |-> TRUE, state |-> c[1], size |-> c[2], priceUnit |-> c[3], volUnit |-> 2, minVol |-> 2,
    maxVol |-> 6, minNotional |-> 3000, minLev |-> 1, maxLev |-> 10] :
      c \in {<<0, 1, 100>>, <<0, 2, 0>>, <<1, 1, 100>>}}

Opened(side, sl0, liq) == [side |-> side, entry |-> 2000, stop |-> sl0, liq |-> liq, vol |-> 1]
RiskAccounts ==
  {[equity |-> e, available |-> e, positions |-> {}] : e \in {0, 20000, 40000}}
  \cup {[equity |-> 40000, available |-> 5000, positions |-> {p}] :
          p \in {Opened("long", 1900, 1500), Opened("long", 2100, 1100), Opened("long", 0, 0),
                 Opened("short", 0, 2300)}}

RiskTickets ==
  {[side |-> side, type |-> type, price |-> 2050, stop |-> x, tp |-> tp, lev |-> c[1], riskPct |-> c[2],
    manual |-> c[3], cross |-> c[3], vol |-> 0] :
      side \in Sides, type \in {"market", "limit"}, x \in {0, 1850, 1900, 2050, 2200, 2250},
      tp \in {0, 1550, 2650}, c \in {<<1, 0, FALSE>>, <<5, 2, FALSE>>, <<5, 0, TRUE>>}}

AnySettings == CHOOSE s \in RiskProfiles : s.exchange = "mexc"
AnyTicket == CHOOSE t \in RiskTickets : TRUE

\* A Close of any share, or of the whole position beside a Cancel; analyses of
\* one key, or a shared and a forced one and a reevaluation, beside swaps of
\* the provider; setup, twice, beside a forced analysis, a snapshot and a money
\* action.
Cast ==
  /\ {c \in Requests : pc[c] = "new"} =
       CASE scene = "close" -> Closers [] scene = "contend" -> Requests [] OTHER -> {}
  /\ \A c \in Requests : scene = "close" \/ share[c] = IF c \in Closers THEN "whole" ELSE "default"
  /\ (scene \notin {"close", "contend"} => lots = 0)
  /\ {r \in AdvisoryRequests : phase[r] = "idle"} =
       CASE scene = "advice" -> Analyses \ Forced
         [] scene = "mixed" -> {Early} \cup Forced \cup Reevaluations
         [] scene = "setup" -> Forced \cup Snapshots
         [] OTHER -> {}
  /\ \A w \in Savers : (saver[w] = "idle") = (scene = "setup")
  /\ \A m \in Actions : (act[m] = "idle") = (scene = "setup")

MCInit ==
  /\ scene \in Scenes
  /\ Init /\ AdvisoryInit /\ Cast
  /\ EInit /\ (scene # "entry" => plan = [ex |-> "hl", type |-> "market", pre |-> 0,
                                           preRead |-> TRUE, old |-> FALSE])
  /\ CacheInit /\ DbInit /\ JournalInit
  /\ LockInit /\ (scene # "lock" => file = "absent" /\ ~legacy.stamped)
  /\ GateInit /\ (settings.exchange = "hyperliquid") = (contract.priceUnit = 0)
  /\ (scene # "gate" => settings = AnySettings /\ contract.state = 1 /\ ticket = AnyTicket
                         /\ funds.equity = 0 /\ last = 2000)
  /\ ProxyInit /\ (scene # "stream" => venue = "mexc")
  /\ RecoveryInit /\ (scene # "recovery" => exch = "mexc" /\ older = 0)

\* The parts a behaviour does not run stay where they are.
Still(scenes, part) == IF scene \in scenes THEN TRUE ELSE UNCHANGED part

MCNext ==
  /\ UNCHANGED scene
  /\ \/ scene \in {"close", "contend"} /\ Next
     \/ scene = "entry" /\ ENext
     \/ scene = "account" /\ CacheNext
     \/ scene = "lock" /\ LockNext
     \/ scene \in {"advice", "mixed", "setup"} /\ AdvisoryNext
     \/ scene = "database" /\ DbNext
     \/ scene = "journal" /\ JournalNext
     \/ scene = "gate" /\ GateNext
     \/ scene = "stream" /\ ProxyNext
     \/ scene = "recovery" /\ RecoveryNext
  /\ Still({"close", "contend"}, vars) /\ Still({"entry"}, evars) /\ Still({"account"}, cacheVars)
  /\ Still({"lock"}, lockVars) /\ Still({"advice", "mixed", "setup"}, advisoryVars)
  /\ Still({"database"}, dbVars) /\ Still({"journal"}, journalVars) /\ Still({"gate"}, gateVars)
  /\ Still({"stream"}, proxyVars) /\ Still({"recovery"}, recoveryVars)

MCSpec == MCInit /\ [][MCNext]_allVars

\* Type correctness of the module the behaviour runs.
TypesOK ==
  CASE scene \in {"close", "contend"} -> TypeOK
    [] scene = "entry" -> EntryTypeOK
    [] scene = "account" -> CacheTypeOK
    [] scene = "lock" -> LockTypeOK
    [] scene \in {"advice", "mixed", "setup"} -> AdvisoryTypeOK
    [] scene = "database" -> DbTypeOK
    [] scene = "journal" -> JournalTypeOK
    [] scene = "gate" -> GateTypeOK
    [] scene = "stream" -> ProxyTypeOK
    [] scene = "recovery" -> RecoveryTypeOK

=============================================================================
