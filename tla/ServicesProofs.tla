---------------------------- MODULE ServicesProofs ----------------------------
(***************************************************************************)
(* The services side by side (MCServices): whatever scene a behaviour runs *)
(* and whoever is cast in it, it is a behaviour of every module, so what   *)
(* the modules' theorems say holds of all that TLC explores.               *)
(***************************************************************************)
EXTENDS MCServices, AccountProofs, EntryOutcomeProofs, ApplicationProofs, DatabaseProofs

\* A step of one scene is a step of its module, and a stutter of the others.
LEMMA StepsOfParts ==
  ASSUME [MCNext]_allVars
  PROVE  /\ UNCHANGED scene
         /\ [Next]_vars /\ [ENext]_evars /\ [CacheNext]_cacheVars /\ [LockNext]_lockVars
         /\ [AdvisoryNext]_advisoryVars /\ [DbNext]_dbVars /\ [JournalNext]_journalVars
         /\ [GateNext]_gateVars /\ [ProxyNext]_proxyVars /\ [RecoveryNext]_recoveryVars
<1>1. CASE UNCHANGED allVars
  BY <1>1 DEF allVars
<1>2. CASE MCNext
  BY <1>2 DEF MCNext, Still
<1>q. QED BY <1>1, <1>2

\* No scene, no cast and no interleaving of a scene takes a module out of its own
\* specification.
THEOREM ServicesComposed ==
  MCSpec => /\ Spec /\ ESpec /\ CacheSpec /\ LockSpec /\ AdvisorySpec
            /\ DbSpec /\ JournalSpec /\ GateSpec /\ ProxySpec /\ RecoverySpec
<1>1. MCInit => /\ Init /\ EInit /\ CacheInit /\ LockInit /\ AdvisoryInit
                /\ DbInit /\ JournalInit /\ GateInit /\ ProxyInit /\ RecoveryInit
  BY DEF MCInit
<1>2. [MCNext]_allVars =>
        /\ [Next]_vars /\ [ENext]_evars /\ [CacheNext]_cacheVars /\ [LockNext]_lockVars
        /\ [AdvisoryNext]_advisoryVars /\ [DbNext]_dbVars /\ [JournalNext]_journalVars
        /\ [GateNext]_gateVars /\ [ProxyNext]_proxyVars /\ [RecoveryNext]_recoveryVars
  BY StepsOfParts
<1>q. QED BY <1>1, <1>2, PTL DEF MCSpec, Spec, ESpec, CacheSpec, LockSpec, AdvisorySpec, DbSpec, JournalSpec,
       GateSpec, ProxySpec, RecoverySpec

\* The state of every service stays within its types, in the scene that runs it and
\* in all others.
THEOREM ServicesTyped == MCSpec => []TypesOK
<1> DEFINE AllTyped == /\ TypeOK /\ EntryTypeOK /\ CacheTypeOK /\ LockTypeOK /\ AdvisoryTypeOK
                       /\ DbTypeOK /\ JournalTypeOK /\ GateTypeOK /\ ProxyTypeOK /\ RecoveryTypeOK
<1>1. scene \in Scenes /\ AllTyped => TypesOK
  <2> SUFFICES ASSUME scene \in Scenes, AllTyped PROVE TypesOK
    OBVIOUS
  <2>1. CASE scene \in {"close", "contend"}
    BY <2>1 DEF TypesOK
  <2>2. CASE scene \in {"advice", "mixed", "setup"}
    BY <2>2 DEF TypesOK
  <2>3. CASE scene \in {"entry", "account", "lock", "database", "journal", "gate", "stream", "recovery"}
    BY <2>3 DEF TypesOK
  <2>q. QED BY <2>1, <2>2, <2>3 DEF Scenes
<1>2. MCInit => scene \in Scenes
  BY DEF MCInit
<1>3. scene \in Scenes /\ [MCNext]_allVars => (scene \in Scenes)'
  BY StepsOfParts
<1>4. MCSpec => []AllTyped
  BY ServicesComposed, CloseTyped, EntryTyped, CacheTyped, LockTyped, AdvisoryTyped, DbTyped, JournalTyped,
     GateTyped, ProxyTyped, RecoveryTyped, PTL DEF AllTyped
<1> HIDE DEF AllTyped
<1>q. QED BY <1>1, <1>2, <1>3, <1>4, PTL DEF MCSpec

===============================================================================
