-------------------------- MODULE EntryOutcomeProofs --------------------------
(***************************************************************************)
(* Proofs about how big an entry is (RiskGate) and what follows its        *)
(* submission: EntryProtection (its stop, and the automatic close) and     *)
(* OrderRecovery (what Confirm learns of an order after an uncertain       *)
(* answer).                                                                *)
(***************************************************************************)
EXTENDS RiskGate, EntryProtection, OrderRecovery, FiniteSetTheorems, NaturalsInduction,
        WellFoundedInduction, TLAPS

-----------------------------------------------------------------------------
(* EntryProtection *)

\* A market order leaves nothing in the book once it has filled, a filled one
\* nothing at all. A reported fill is one there was.
Books ==
  /\ fill > 0 /\ plan.type = "market" => ~live
  /\ fill = Vol => ~live
  /\ HL /\ plan.type = "market" => ~live
  /\ resp.fill <= fill
  /\ ~HL /\ ~resp.recovered => resp.fill = Absent

\* A reported fill that is the whole order, or that of a market order, is final.
Reported ==
  resp.fill >= 0 /\ (resp.fill = Vol \/ plan.type = "market") => fill = resp.fill /\ ~live

\* Hyperliquid's stop is that of the reported fill; a recovered order has none.
Stops ==
  /\ stop > 0 \/ resp.id => HL /\ stop = resp.fill /\ ~resp.recovered
  /\ at = "place" => resp = Answer0 /\ fill = 0 /\ stop = 0
  /\ at = "trigger" => HL /\ ~resp.recovered /\ resp.fill > 0 /\ ~resp.id /\ stop = 0
  /\ HL /\ ~resp.recovered /\ at \notin {"place", "done"} => resp.fill >= 0

\* On what the verification rests while the answer is worked out.
Verified ==
  /\ at \in {"place", "trigger", "answered", "verify"} => ~sl.verified /\ ~sl.checked
  /\ at \in {"extra", "done"} /\ sl.verified =>
       \/ sl.ground = "id" /\ resp.id
       \/ sl.ground = "list" /\ (plan.old \/ ~HL \/ stop > 0)
       \/ sl.ground = "body" /\ at = "done"
  /\ at \in {"flatten", "act"} => ~sl.verified /\ sl.checked
  /\ closed > 0 => at = "done" /\ ~sl.verified /\ sl.checked

\* What was looked at before an entry is closed.
LookedAt ==
  /\ at = "verify" /\ HL /\ looked.ok /\ stop > 0 => looked.hidden
  /\ (at \in {"extra", "flatten", "act"} \/ closed > 0) /\ ~sl.verified /\ sl.checked =>
       IF HL THEN stop > 0 => looked.hidden ELSE looked.field

\* The evidence for the fill is not more than the fill, but for what others did.
Evident ==
  /\ at \in {"place", "trigger", "answered"} => ours = Absent
  /\ others = 0 /\ closed = 0 => ours <= fill
  /\ others = 0 => closed <= fill

\* The verification has a look left, and none was taken before it begins.
LooksLeft ==
  /\ at \in {"place", "trigger", "answered", "verify"} => looked.n < Attempts
  /\ at \in {"place", "trigger", "answered"} => looked = Looked0

ProtectionInv ==
  /\ EntryTypeOK /\ LooksLeft /\ Books /\ Reported /\ Stops /\ Verified /\ LookedAt /\ Evident
  /\ PlacedIsCovered

\* The types, with a name for each set of records.
Answers == [fill : Evidence, id : BOOLEAN, error : BOOLEAN, unfilled : BOOLEAN, recovered : BOOLEAN]
Judgements ==
  [verified : BOOLEAN, checked : BOOLEAN, ground : Grounds, cover : {"full", "partial", "unknown"},
   outcome : {"live", "resting", "failed", "unknown"}]
LooksTaken == [n : 0..Attempts, ok : BOOLEAN, bad : BOOLEAN, field : BOOLEAN, hidden : BOOLEAN]
LookupSteps == {"place", "trigger", "answered", "verify", "extra", "flatten", "act", "done"}
Plans == [ex : {"hl", "mexc"}, type : {"market", "limit"}, pre : 0..1, preRead : BOOLEAN, old : BOOLEAN]
LEMMA Typed ==
  EntryTypeOK <=>
    /\ plan \in Plans /\ at \in LookupSteps /\ fill \in Lots /\ live \in BOOLEAN /\ stop \in Lots
    /\ others \in -MaxOthers..MaxOthers /\ resp \in Answers
    /\ ours \in (0..Vol + MaxOthers) \cup {Absent, Invalid}
    /\ looked \in LooksTaken /\ sl \in Judgements /\ flat \in Flattens /\ closed \in Lots
  BY DEF EntryTypeOK, Plans, LookupSteps, Answers, LooksTaken, Judgements

\* The invariant holds of every initial state.
LEMMA ProtectionInit == EInit => ProtectionInv
<1> SUFFICES ASSUME EInit PROVE ProtectionInv OBVIOUS
<1> USE EntryAssumption DEF EInit
<1>1. EntryTypeOK /\ LooksLeft
  <2>1. plan \in Plans BY DEF Plans
  <2>2. resp \in Answers BY DEF Answers, Answer0, Evidence
  <2>3. looked \in LooksTaken /\ LooksLeft BY DEF LooksTaken, Looked0, LooksLeft
  <2>4. sl \in Judgements BY DEF Judgements, Grounds
  <2>5. others \in -MaxOthers..MaxOthers /\ fill \in Lots /\ stop \in Lots /\ closed \in Lots
    BY DEF Lots
  <2>6. at \in LookupSteps /\ live \in BOOLEAN /\ flat \in Flattens
        /\ ours \in (0..Vol + MaxOthers) \cup {Absent, Invalid}
    BY DEF LookupSteps, Flattens
  <2> QED BY <2>1, <2>2, <2>3, <2>4, <2>5, <2>6, Typed
<1>2. Books /\ Reported /\ Stops
  BY DEF Books, Reported, Stops, Answer0, Absent, HL, Lots
<1>3. Verified /\ LookedAt /\ Evident /\ PlacedIsCovered
  BY DEF Verified, LookedAt, Evident, PlacedIsCovered, Absent, HL, Looked0
<1> QED BY <1>1, <1>2, <1>3 DEF ProtectionInv

\* A read of the hold gives a change that is in range, or nothing.
LEMMA DeltaTyped ==
  ASSUME EntryTypeOK, NEW h \in HoldReads
  PROVE Delta(h) \in (0..Vol + MaxOthers) \cup {Absent, Invalid}
<1> plan.pre \in 0..1 /\ fill \in 0..Vol /\ closed \in 0..Vol /\ others \in -MaxOthers..MaxOthers
  BY DEF EntryTypeOK, Lots
<1> QED BY EntryAssumption DEF Delta, HoldReads, Held, Absent, Invalid

\* What is judged of a stop is a judgement.
LEMMA CoverageTyped == ASSUME NEW f PROVE CoverageOf(f) \in {"full", "partial", "unknown"}
  BY DEF CoverageOf

\* The types are kept by every step.
LEMMA ProtectionType == ProtectionInv /\ [ENext]_evars => EntryTypeOK' /\ LooksLeft'
<1> SUFFICES ASSUME EntryTypeOK, LooksLeft, Stops, [ENext]_evars
             PROVE EntryTypeOK' /\ LooksLeft'
  BY DEF ProtectionInv
<1>T. /\ plan \in Plans /\ at \in LookupSteps /\ fill \in Lots /\ live \in BOOLEAN /\ stop \in Lots
      /\ others \in -MaxOthers..MaxOthers /\ resp \in Answers
      /\ ours \in (0..Vol + MaxOthers) \cup {Absent, Invalid}
      /\ looked \in LooksTaken /\ sl \in Judgements /\ flat \in Flattens /\ closed \in Lots
  BY Typed
<1>V. Vol \in Nat \ {0} /\ Attempts \in Nat \ {0} /\ MaxOthers \in Nat BY EntryAssumption
<1>Q. SUFFICES /\ plan' \in Plans /\ at' \in LookupSteps /\ fill' \in Lots /\ live' \in BOOLEAN
               /\ stop' \in Lots /\ others' \in -MaxOthers..MaxOthers /\ resp' \in Answers
               /\ ours' \in (0..Vol + MaxOthers) \cup {Absent, Invalid}
               /\ looked' \in LooksTaken /\ sl' \in Judgements /\ flat' \in Flattens
               /\ closed' \in Lots /\ LooksLeft'
  BY DEF EntryTypeOK, Plans, LookupSteps, Answers, LooksTaken, Judgements
<1> USE <1>V DEF LooksLeft
<1>1. CASE EntryAccepted
  BY <1>T, <1>1 DEF EntryAccepted, EntryFills, Answers, Evidence, Lots, LookupSteps
<1>2. CASE PlaceTrigger
  <2>1. resp.fill \in Lots BY <1>T, <1>2 DEF PlaceTrigger, Stops, Answers, Evidence, Absent, Invalid, Lots
  <2>2. resp' \in Answers BY <1>T, <1>2 DEF PlaceTrigger, Answers
  <2>3. stop' \in Lots BY <1>2, <2>1, <1>V DEF PlaceTrigger, Lots
  <2> QED BY <1>T, <1>2, <2>2, <2>3 DEF PlaceTrigger, LookupSteps
<1>3. CASE EntryAcknowledged BY <1>T, <1>3 DEF EntryAcknowledged, LookupSteps
<1>4. CASE EntryRecovered
  BY <1>T, <1>4 DEF EntryRecovered, EntryFills, Answers, Evidence, Lots, LookupSteps
<1>5. CASE EntryNotConfirmed
  BY <1>T, <1>5 DEF EntryNotConfirmed, EntryFills, Judgements, LookupSteps
<1>6. CASE AssessFill
  <2>1. ours' \in (0..Vol + MaxOthers) \cup {Absent, Invalid}
    BY <1>T, <1>6, DeltaTyped DEF AssessFill, FillEvidence, Answers, Evidence, Lots
  <2> QED BY <1>T, <1>6, <2>1 DEF AssessFill, Judgements, LookupSteps
<1>7. CASE AcceptedById BY <1>T, <1>7 DEF AcceptedById, Judgements, Grounds, LookupSteps
<1>8. CASE SeenInList
  <2>1. looked' \in LooksTaken BY <1>T, <1>8 DEF SeenInList, Look, LooksTaken, HL
  <2> QED BY <1>T, <1>8, <2>1 DEF SeenInList, Judgements, Grounds, LookupSteps, Look
<1>9. CASE NotSeen
  <2>1. PICK ok, bad, field \in BOOLEAN : Look(ok, bad, FALSE, field) BY <1>9 DEF NotSeen
  <2>4. looked.n + 1 \in 0..Attempts BY <1>T, <1>V, <1>9 DEF NotSeen, Look, LooksTaken
  <2>5. (IF ok THEN HL /\ stop > 0 ELSE looked.hidden) \in BOOLEAN BY <1>T DEF LooksTaken
  <2>6. looked' = [n |-> looked.n + 1, ok |-> looked.ok \/ ok, bad |-> looked.bad \/ bad,
                   field |-> looked.field \/ field,
                   hidden |-> IF ok THEN HL /\ stop > 0 ELSE looked.hidden]
    BY <1>T, <2>1 DEF Look, LooksTaken
  <2>3. looked' \in LooksTaken /\ looked'.n = looked.n + 1
    BY <2>4, <2>5, <2>6 DEF LooksTaken
  <2>2. Checked \in BOOLEAN BY <2>3 DEF Checked, LooksTaken
  <2> QED BY <1>T, <1>9, <2>1, <2>2, <2>3 DEF NotSeen, Judgements, Grounds, LookupSteps, Look
<1>10. CASE JudgeStop
  <2>1. sl' \in Judgements
    <3>1. PICK f : sl' = [sl EXCEPT
             !.verified = @ \/ (~HL /\ ~sl.verified /\ f # Absent),
             !.checked = @ \/ (~HL /\ ~sl.verified /\ f # Absent),
             !.cover = CoverageOf(IF ~HL /\ resp.fill = Invalid THEN Absent ELSE f),
             !.ground = IF ~HL /\ ~sl.verified /\ f # Absent THEN "body" ELSE @]
      BY <1>10 DEF JudgeStop
    <3>2. CoverageOf(IF ~HL /\ resp.fill = Invalid THEN Absent ELSE f) \in {"full", "partial", "unknown"}
      BY CoverageTyped
    <3> QED BY <1>T, <3>1, <3>2 DEF Judgements, Grounds
  <2> QED BY <1>T, <1>10, <2>1 DEF JudgeStop, LookupSteps
<1>11. CASE SizeFlatten
  <2>1. ours' \in (0..Vol + MaxOthers) \cup {Absent, Invalid}
    BY <1>T, <1>11, DeltaTyped DEF SizeFlatten, Answers, Evidence, Lots
  <2> QED BY <1>T, <1>11, <2>1 DEF SizeFlatten, LookupSteps, Flattens
<1>12. CASE FlattenCancel BY <1>T, <1>12 DEF FlattenCancel, LookupSteps, Flattens
<1>13. CASE FlattenClose
  <2>1. plan.pre \in Int /\ others \in Int /\ fill \in Int /\ closed \in Int BY <1>T DEF Plans, Lots
  <2>2. closed' \in Lots BY <1>13, <2>1, <1>T DEF FlattenClose, Lesser, Held, Lots, Absent, Invalid
  <2> QED BY <1>T, <1>13, <2>2 DEF FlattenClose, LookupSteps, Flattens
<1>14. CASE FillRests
  <2>1. PICK n \in fill + 1..Vol : fill' = n /\ live' \in {plan.type = "limit" /\ n < Vol, FALSE}
    BY <1>14 DEF FillRests
  <2>2. (plan.type = "limit" /\ n < Vol) \in BOOLEAN OBVIOUS
  <2>3. live' \in BOOLEAN BY <2>1, <2>2
  <2>4. fill' \in Lots BY <1>T, <2>1 DEF Lots
  <2> QED BY <1>T, <1>14, <2>3, <2>4 DEF FillRests
<1>15. CASE OthersChange BY <1>T, <1>15 DEF OthersChange
<1>16. CASE UNCHANGED evars BY <1>T, <1>16 DEF evars
<1> QED BY <1>1, <1>2, <1>3, <1>4, <1>5, <1>6, <1>7, <1>8, <1>9, <1>10, <1>11, <1>12, <1>13, <1>14,
           <1>15, <1>16 DEF ENext

\* What fills of the order leaves in the book.
LEMMA FillsOf ==
  ASSUME NEW n \in Lots, EntryFills(n), EntryTypeOK'
  PROVE fill' = n /\ (plan.type = "market" \/ n = Vol => ~live')
<1>1. fill' = n /\ live' = (plan.type = "limit" /\ n < Vol) BY DEF EntryFills
<1>2. CASE n = Vol
  <2>1. ~(n < Vol) BY <1>2, EntryAssumption
  <2> QED BY <1>1, <2>1
<1>3. CASE plan.type = "market" BY <1>1, <1>3
<1>4. CASE ~(plan.type = "market" \/ n = Vol) BY <1>1, <1>4
<1> QED BY <1>2, <1>3, <1>4

\* The same of an order that fills in the book.
LEMMA RestOf ==
  ASSUME NEW n \in Lots, live' \in {plan.type = "limit" /\ n < Vol, FALSE}
  PROVE plan.type = "market" \/ n = Vol => ~live'
<1>2. CASE n = Vol
  <2>1. ~(n < Vol) BY <1>2, EntryAssumption
  <2> QED BY <2>1
<1>3. CASE plan.type = "market" BY <1>3
<1>4. CASE ~(plan.type = "market" \/ n = Vol) BY <1>4
<1> QED BY <1>2, <1>3, <1>4

\* What rests and what was reported stay in step with the fill.
LEMMA BooksKept == ProtectionInv /\ EntryTypeOK' /\ [ENext]_evars => Books'
<1> SUFFICES ASSUME ProtectionInv, EntryTypeOK', [ENext]_evars PROVE Books'
  OBVIOUS
<1>T. plan \in Plans /\ fill \in 0..Vol /\ live \in BOOLEAN /\ resp \in Answers
  BY Typed DEF ProtectionInv, Lots
<1>I. Books /\ (at = "place" => resp = Answer0 /\ fill = 0) BY DEF ProtectionInv, Stops
<1>V. Vol \in Nat \ {0} BY EntryAssumption
\* A step that leaves the order, or takes its rest out of the book.
<1>F. ASSUME UNCHANGED <<plan, fill, resp>>, live' => live PROVE Books'
  BY <1>F, <1>I DEF Books, HL
\* A step that keeps the answer and fills.
<1>L. ASSUME UNCHANGED <<plan, resp>>, plan.type = "market" \/ fill' = Vol => ~live',
             fill' \in 0..Vol, resp.fill <= fill'
      PROVE Books'
  BY <1>L, <1>I DEF Books, HL
<1>1. CASE EntryAccepted
  <2>1. PICK n \in Lots : EntryFills(n) /\ resp' = [resp EXCEPT !.fill = n, !.unfilled = (n = 0)]
    BY <1>1 DEF EntryAccepted
  <2>2. resp'.fill = n /\ HL /\ plan' = plan BY <1>1, <1>T, <2>1 DEF EntryAccepted, Answers
  <2>3. fill' = n /\ (plan.type = "market" \/ n = Vol => ~live') BY <2>1, FillsOf
  <2>4. n \in 0..Vol BY DEF Lots
  <2> QED BY <2>2, <2>3, <2>4 DEF Books, HL
<1>2. CASE PlaceTrigger
  <2>1. resp'.fill = resp.fill /\ HL /\ HL' BY <1>2, <1>T, <1>I DEF PlaceTrigger, Answers, ProtectionInv, Stops, HL
  <2> QED BY <1>2, <1>I, <2>1 DEF PlaceTrigger, Books, HL
<1>3. CASE EntryAcknowledged
  <2>1. fill' = 0 /\ resp' = Answer0 /\ ~HL /\ plan' = plan BY <1>3, <1>I DEF EntryAcknowledged
  <2> QED BY <2>1, <1>V DEF Books, HL, Answer0, Absent
<1>4. CASE EntryRecovered
  <2>1. PICK n \in Lots : /\ EntryFills(n)
                          /\ \E r \in {n, Absent, Invalid} :
                               resp' = [resp EXCEPT !.fill = r, !.recovered = TRUE]
    BY <1>4 DEF EntryRecovered
  <2>2. fill' = n /\ (plan.type = "market" \/ n = Vol => ~live') BY <2>1, FillsOf
  <2>3. n \in 0..Vol BY DEF Lots
  <2>4. resp'.fill <= n /\ resp'.recovered BY <2>1, <2>3, <1>T DEF Answers, Absent, Invalid
  <2>5. plan' = plan BY <1>4 DEF EntryRecovered
  <2> QED BY <2>2, <2>3, <2>4, <2>5 DEF Books, HL
<1>5. CASE EntryNotConfirmed
  <2>1. UNCHANGED <<plan, resp>> /\ resp.fill = Absent BY <1>5, <1>I DEF EntryNotConfirmed, Answer0
  <2>2. CASE UNCHANGED <<fill, live>> BY <1>F, <2>1, <2>2
  <2>3. ASSUME NEW n \in Lots, EntryFills(n) PROVE Books'
    <3>1. fill' = n /\ (plan.type = "market" \/ n = Vol => ~live') BY <2>3, FillsOf
    <3>2. n \in 0..Vol BY DEF Lots
    <3> QED BY <1>L, <2>1, <3>1, <3>2 DEF Absent
  <2> QED BY <1>5, <2>2, <2>3 DEF EntryNotConfirmed
<1>6. CASE AssessFill BY <1>6, <1>F DEF AssessFill
<1>7. CASE AcceptedById BY <1>7, <1>F DEF AcceptedById
<1>8. CASE SeenInList BY <1>8, <1>F DEF SeenInList
<1>9. CASE NotSeen BY <1>9, <1>F DEF NotSeen
<1>10. CASE JudgeStop BY <1>10, <1>F DEF JudgeStop
<1>11. CASE SizeFlatten BY <1>11, <1>F DEF SizeFlatten
<1>12. CASE FlattenCancel
  <2>1. UNCHANGED <<plan, fill, resp>> /\ live' \in {live, FALSE} BY <1>12 DEF FlattenCancel
  <2>2. live' => live BY <2>1
  <2> QED BY <1>F, <2>1, <2>2
<1>13. CASE FlattenClose BY <1>13, <1>F DEF FlattenClose
<1>14. CASE FillRests
  <2>1. PICK n \in fill + 1..Vol :
             fill' = n /\ live' \in {plan.type = "limit" /\ n < Vol, FALSE}
    BY <1>14 DEF FillRests
  <2>2. n \in Lots /\ n \in 0..Vol /\ n > fill BY <1>T, <1>V, <2>1 DEF Lots
  <2>3. plan.type = "market" \/ n = Vol => ~live' BY <2>1, <2>2, RestOf
  <2>4. resp.fill <= fill /\ resp.fill \in Int BY <1>I, <1>T DEF Books, Answers, Evidence, Lots, Absent, Invalid
  <2>5. UNCHANGED <<plan, resp>> /\ resp.fill <= n BY <1>14, <1>T, <2>2, <2>4 DEF FillRests
  <2> QED BY <1>L, <2>1, <2>2, <2>3, <2>5
<1>15. CASE OthersChange BY <1>15, <1>F DEF OthersChange
<1>16. CASE UNCHANGED evars BY <1>16, <1>F DEF evars
<1> QED BY <1>1, <1>2, <1>3, <1>4, <1>5, <1>6, <1>7, <1>8, <1>9, <1>10, <1>11, <1>12, <1>13, <1>14, <1>15, <1>16 DEF ENext

\* A fill reported in full, or of a market order, stays final.
LEMMA ReportedKept == ProtectionInv /\ EntryTypeOK' /\ [ENext]_evars => Reported'
<1> SUFFICES ASSUME ProtectionInv, EntryTypeOK', [ENext]_evars PROVE Reported'
  OBVIOUS
<1>T. /\ plan \in Plans /\ at \in LookupSteps /\ fill \in Lots /\ live \in BOOLEAN /\ stop \in Lots
      /\ others \in -MaxOthers..MaxOthers /\ resp \in Answers
      /\ ours \in (0..Vol + MaxOthers) \cup {Absent, Invalid}
      /\ looked \in LooksTaken /\ sl \in Judgements /\ flat \in Flattens /\ closed \in Lots
  BY Typed DEF ProtectionInv
<1>V. Vol \in Nat \ {0} /\ Attempts \in Nat \ {0} /\ MaxOthers \in Nat BY EntryAssumption
<1>I. Reported /\ Books /\ Stops BY DEF ProtectionInv
<1> USE <1>T, <1>V, <1>I DEF Lots, Absent, Invalid, Plans, Answers, Evidence, Reported, Books, Stops, Answer0, HL
<1>1. CASE EntryAccepted BY <1>1 DEF EntryAccepted, EntryFills, Judgements, LooksTaken
<1>2. CASE PlaceTrigger BY <1>2 DEF PlaceTrigger, Judgements, LooksTaken
<1>3. CASE EntryAcknowledged BY <1>3 DEF EntryAcknowledged, Judgements, LooksTaken
<1>4. CASE EntryRecovered BY <1>4 DEF EntryRecovered, EntryFills, Judgements, LooksTaken
<1>5. CASE EntryNotConfirmed BY <1>5 DEF EntryNotConfirmed, EntryFills, Judgements, LooksTaken
<1>6. CASE AssessFill BY <1>6 DEF AssessFill, FillEvidence, Delta, HoldReads, Held, Judgements, LooksTaken
<1>7. CASE AcceptedById BY <1>7 DEF AcceptedById, Judgements, LooksTaken
<1>8. CASE SeenInList BY <1>8 DEF SeenInList, Look, Judgements, LooksTaken
<1>9. CASE NotSeen BY <1>9 DEF NotSeen, Look, Checked, Judgements, LooksTaken
<1>10. CASE JudgeStop BY <1>10 DEF JudgeStop, OwnFill, CoverageOf, Judgements, LooksTaken
<1>11. CASE SizeFlatten BY <1>11 DEF SizeFlatten, Delta, HoldReads, Held, Judgements, LooksTaken
<1>12. CASE FlattenCancel BY <1>12 DEF FlattenCancel, Judgements, LooksTaken
<1>13. CASE FlattenClose BY <1>13 DEF FlattenClose, Lesser, Held, Judgements, LooksTaken
<1>14. CASE FillRests BY <1>14 DEF FillRests, Judgements, LooksTaken
<1>15. CASE OthersChange BY <1>15 DEF OthersChange, Judgements, LooksTaken
<1>16. CASE UNCHANGED evars BY <1>16 DEF evars
<1> QED BY <1>1, <1>2, <1>3, <1>4, <1>5, <1>6, <1>7, <1>8, <1>9, <1>10, <1>11, <1>12, <1>13, <1>14, <1>15, <1>16 DEF ENext

\* The stop stays that of the reported fill.
LEMMA StopsKept == ProtectionInv /\ EntryTypeOK' /\ [ENext]_evars => Stops'
<1> SUFFICES ASSUME ProtectionInv, EntryTypeOK', [ENext]_evars PROVE Stops'
  OBVIOUS
<1>T. /\ plan \in Plans /\ at \in LookupSteps /\ fill \in Lots /\ live \in BOOLEAN /\ stop \in Lots
      /\ others \in -MaxOthers..MaxOthers /\ resp \in Answers
      /\ ours \in (0..Vol + MaxOthers) \cup {Absent, Invalid}
      /\ looked \in LooksTaken /\ sl \in Judgements /\ flat \in Flattens /\ closed \in Lots
  BY Typed DEF ProtectionInv
<1>V. Vol \in Nat \ {0} /\ Attempts \in Nat \ {0} /\ MaxOthers \in Nat BY EntryAssumption
<1>I. Stops /\ Books BY DEF ProtectionInv
<1> USE <1>T, <1>V, <1>I DEF Lots, Absent, Invalid, Plans, Answers, Evidence, Stops, Answer0, Books, HL
<1>1. CASE EntryAccepted BY <1>1 DEF EntryAccepted, EntryFills, Judgements, LooksTaken
<1>2. CASE PlaceTrigger BY <1>2 DEF PlaceTrigger, Judgements, LooksTaken
<1>3. CASE EntryAcknowledged BY <1>3 DEF EntryAcknowledged, Judgements, LooksTaken
<1>4. CASE EntryRecovered BY <1>4 DEF EntryRecovered, EntryFills, Judgements, LooksTaken
<1>5. CASE EntryNotConfirmed BY <1>5 DEF EntryNotConfirmed, EntryFills, Judgements, LooksTaken
<1>6. CASE AssessFill BY <1>6 DEF AssessFill, FillEvidence, Delta, HoldReads, Held, Judgements, LooksTaken
<1>7. CASE AcceptedById BY <1>7 DEF AcceptedById, Judgements, LooksTaken
<1>8. CASE SeenInList BY <1>8 DEF SeenInList, Look, Judgements, LooksTaken
<1>9. CASE NotSeen BY <1>9 DEF NotSeen, Look, Checked, Judgements, LooksTaken
<1>10. CASE JudgeStop BY <1>10 DEF JudgeStop, OwnFill, CoverageOf, Judgements, LooksTaken
<1>11. CASE SizeFlatten BY <1>11 DEF SizeFlatten, Delta, HoldReads, Held, Judgements, LooksTaken
<1>12. CASE FlattenCancel BY <1>12 DEF FlattenCancel, Judgements, LooksTaken
<1>13. CASE FlattenClose BY <1>13 DEF FlattenClose, Lesser, Held, Judgements, LooksTaken
<1>14. CASE FillRests BY <1>14 DEF FillRests, Judgements, LooksTaken
<1>15. CASE OthersChange BY <1>15 DEF OthersChange, Judgements, LooksTaken
<1>16. CASE UNCHANGED evars BY <1>16 DEF evars
<1> QED BY <1>1, <1>2, <1>3, <1>4, <1>5, <1>6, <1>7, <1>8, <1>9, <1>10, <1>11, <1>12, <1>13, <1>14, <1>15, <1>16 DEF ENext

\* The verification keeps its ground.
LEMMA VerifiedKept == ProtectionInv /\ EntryTypeOK' /\ [ENext]_evars => Verified'
<1> SUFFICES ASSUME ProtectionInv, EntryTypeOK', [ENext]_evars PROVE Verified'
  OBVIOUS
<1>T. /\ plan \in Plans /\ at \in LookupSteps /\ fill \in Lots /\ live \in BOOLEAN /\ stop \in Lots
      /\ others \in -MaxOthers..MaxOthers /\ resp \in Answers
      /\ ours \in (0..Vol + MaxOthers) \cup {Absent, Invalid}
      /\ looked \in LooksTaken /\ sl \in Judgements /\ flat \in Flattens /\ closed \in Lots
  BY Typed DEF ProtectionInv
<1>V. Vol \in Nat \ {0} /\ Attempts \in Nat \ {0} /\ MaxOthers \in Nat BY EntryAssumption
<1>I. Verified /\ Stops BY DEF ProtectionInv
<1> USE <1>T, <1>V, <1>I DEF Lots, Absent, Invalid, Plans, Answers, Evidence, Verified, Stops, HL
<1>1. CASE EntryAccepted BY <1>1 DEF EntryAccepted, EntryFills, Judgements, LooksTaken
<1>2. CASE PlaceTrigger BY <1>2 DEF PlaceTrigger, Judgements, LooksTaken
<1>3. CASE EntryAcknowledged BY <1>3 DEF EntryAcknowledged, Judgements, LooksTaken
<1>4. CASE EntryRecovered BY <1>4 DEF EntryRecovered, EntryFills, Judgements, LooksTaken
<1>5. CASE EntryNotConfirmed BY <1>5 DEF EntryNotConfirmed, EntryFills, Judgements, LooksTaken
<1>6. CASE AssessFill BY <1>6 DEF AssessFill, FillEvidence, Delta, HoldReads, Held, Judgements, LooksTaken
<1>7. CASE AcceptedById BY <1>7 DEF AcceptedById, Judgements, LooksTaken
<1>8. CASE SeenInList BY <1>8 DEF SeenInList, Look, Judgements, LooksTaken
<1>9. CASE NotSeen BY <1>9 DEF NotSeen, Look, Checked, Judgements, LooksTaken
<1>10. CASE JudgeStop BY <1>10 DEF JudgeStop, OwnFill, CoverageOf, Judgements, LooksTaken
<1>11. CASE SizeFlatten BY <1>11 DEF SizeFlatten, Delta, HoldReads, Held, Judgements, LooksTaken
<1>12. CASE FlattenCancel BY <1>12 DEF FlattenCancel, Judgements, LooksTaken
<1>13. CASE FlattenClose BY <1>13 DEF FlattenClose, Lesser, Held, Judgements, LooksTaken
<1>14. CASE FillRests BY <1>14 DEF FillRests, Judgements, LooksTaken
<1>15. CASE OthersChange BY <1>15 DEF OthersChange, Judgements, LooksTaken
<1>16. CASE UNCHANGED evars BY <1>16 DEF evars
<1> QED BY <1>1, <1>2, <1>3, <1>4, <1>5, <1>6, <1>7, <1>8, <1>9, <1>10, <1>11, <1>12, <1>13, <1>14, <1>15, <1>16 DEF ENext

\* An entry is judged unprotected only by what was looked at.
LEMMA LookedAtKept == ProtectionInv /\ EntryTypeOK' /\ [ENext]_evars => LookedAt'
<1> SUFFICES ASSUME ProtectionInv, EntryTypeOK', [ENext]_evars PROVE LookedAt'
  OBVIOUS
<1>T. /\ plan \in Plans /\ at \in LookupSteps /\ fill \in Lots /\ live \in BOOLEAN /\ stop \in Lots
      /\ others \in -MaxOthers..MaxOthers /\ resp \in Answers
      /\ ours \in (0..Vol + MaxOthers) \cup {Absent, Invalid}
      /\ looked \in LooksTaken /\ sl \in Judgements /\ flat \in Flattens /\ closed \in Lots
  BY Typed DEF ProtectionInv
<1>V. Vol \in Nat \ {0} /\ Attempts \in Nat \ {0} /\ MaxOthers \in Nat BY EntryAssumption
<1>I. LookedAt /\ Stops /\ Verified BY DEF ProtectionInv
<1> USE <1>T, <1>V, <1>I DEF Lots, Absent, Invalid, Plans, Answers, Evidence, LookedAt, Stops, Verified, HL
<1>1. CASE EntryAccepted BY <1>1 DEF EntryAccepted, EntryFills, Judgements, LooksTaken
<1>2. CASE PlaceTrigger BY <1>2 DEF PlaceTrigger, Judgements, LooksTaken
<1>3. CASE EntryAcknowledged BY <1>3 DEF EntryAcknowledged, Judgements, LooksTaken
<1>4. CASE EntryRecovered BY <1>4 DEF EntryRecovered, EntryFills, Judgements, LooksTaken
<1>5. CASE EntryNotConfirmed BY <1>5 DEF EntryNotConfirmed, EntryFills, Judgements, LooksTaken
<1>6. CASE AssessFill
  <2>1. looked = Looked0 BY <1>6 DEF AssessFill, LooksLeft, ProtectionInv
  <2>2. UNCHANGED <<plan, stop, looked, closed>> /\ at' \in {"verify", "done"} BY <1>6 DEF AssessFill
  <2>3. closed = 0 BY <1>6 DEF AssessFill
  <2> QED BY <2>1, <2>2, <2>3 DEF Looked0
<1>7. CASE AcceptedById BY <1>7 DEF AcceptedById, Judgements, LooksTaken
<1>8. CASE SeenInList BY <1>8 DEF SeenInList, Look, Judgements, LooksTaken
<1>9. CASE NotSeen
  <2>1. PICK ok, bad, field \in BOOLEAN : Look(ok, bad, FALSE, field) BY <1>9 DEF NotSeen
  <2>2. UNCHANGED <<plan, stop, closed>> /\ closed = 0 BY <1>9, <2>1 DEF NotSeen, Look
  <2>3. /\ looked'.ok = (looked.ok \/ ok) /\ looked'.bad = (looked.bad \/ bad)
        /\ looked'.hidden = IF ok THEN HL /\ stop > 0 ELSE looked.hidden
        /\ at = "verify"
    BY <2>1 DEF Look
  <2>4. HL /\ looked'.ok /\ stop > 0 => looked'.hidden
    <3>1. CASE ok BY <2>3, <3>1
    <3>2. CASE ~ok BY <2>3, <3>2
    <3> QED BY <3>1, <3>2
  <2>5. CASE looked'.n < Attempts
    <3>1. UNCHANGED <<at, sl>> BY <1>9, <2>5 DEF NotSeen
    <3> QED BY <2>2, <2>3, <2>4, <3>1
  <2>6. CASE ~(looked'.n < Attempts)
    <3>1. at' = "extra" /\ sl'.checked = Checked BY <1>9, <2>6 DEF NotSeen, Judgements
    <3>2. sl'.checked => IF HL THEN looked'.ok ELSE looked'.field
      BY <3>1 DEF Checked
    <3> QED BY <2>2, <2>4, <3>1, <3>2
  <2> QED BY <2>5, <2>6
<1>10. CASE JudgeStop BY <1>10 DEF JudgeStop, OwnFill, CoverageOf, Judgements, LooksTaken
<1>11. CASE SizeFlatten BY <1>11 DEF SizeFlatten, Delta, HoldReads, Held, Judgements, LooksTaken
<1>12. CASE FlattenCancel BY <1>12 DEF FlattenCancel, Judgements, LooksTaken
<1>13. CASE FlattenClose BY <1>13 DEF FlattenClose, Lesser, Held, Judgements, LooksTaken
<1>14. CASE FillRests BY <1>14 DEF FillRests, Judgements, LooksTaken
<1>15. CASE OthersChange BY <1>15 DEF OthersChange, Judgements, LooksTaken
<1>16. CASE UNCHANGED evars BY <1>16 DEF evars
<1> QED BY <1>1, <1>2, <1>3, <1>4, <1>5, <1>6, <1>7, <1>8, <1>9, <1>10, <1>11, <1>12, <1>13, <1>14, <1>15, <1>16 DEF ENext

\* The evidence for the fill stays within the fill.
LEMMA EvidentKept == ProtectionInv /\ EntryTypeOK' /\ [ENext]_evars => Evident'
<1> SUFFICES ASSUME ProtectionInv, EntryTypeOK', [ENext]_evars PROVE Evident'
  OBVIOUS
<1>T. /\ plan \in Plans /\ at \in LookupSteps /\ fill \in Lots /\ live \in BOOLEAN /\ stop \in Lots
      /\ others \in -MaxOthers..MaxOthers /\ resp \in Answers
      /\ ours \in (0..Vol + MaxOthers) \cup {Absent, Invalid}
      /\ looked \in LooksTaken /\ sl \in Judgements /\ flat \in Flattens /\ closed \in Lots
  BY Typed DEF ProtectionInv
<1>V. Vol \in Nat \ {0} /\ Attempts \in Nat \ {0} /\ MaxOthers \in Nat BY EntryAssumption
<1>I. Evident /\ Stops /\ Verified /\ Books BY DEF ProtectionInv
<1> USE <1>T, <1>V, <1>I DEF Lots, Absent, Invalid, Plans, Answers, Evidence, Evident, Stops, Verified, Books, HL
<1>1. CASE EntryAccepted BY <1>1 DEF EntryAccepted, EntryFills, Judgements, LooksTaken
<1>2. CASE PlaceTrigger BY <1>2 DEF PlaceTrigger, Judgements, LooksTaken
<1>3. CASE EntryAcknowledged BY <1>3 DEF EntryAcknowledged, Judgements, LooksTaken
<1>4. CASE EntryRecovered BY <1>4 DEF EntryRecovered, EntryFills, Judgements, LooksTaken
<1>5. CASE EntryNotConfirmed BY <1>5 DEF EntryNotConfirmed, EntryFills, Judgements, LooksTaken
<1>6. CASE AssessFill BY <1>6 DEF AssessFill, FillEvidence, Delta, HoldReads, Held, Judgements, LooksTaken
<1>7. CASE AcceptedById BY <1>7 DEF AcceptedById, Judgements, LooksTaken
<1>8. CASE SeenInList BY <1>8 DEF SeenInList, Look, Judgements, LooksTaken
<1>9. CASE NotSeen BY <1>9 DEF NotSeen, Look, Checked, Judgements, LooksTaken
<1>10. CASE JudgeStop BY <1>10 DEF JudgeStop, OwnFill, CoverageOf, Judgements, LooksTaken
<1>11. CASE SizeFlatten BY <1>11 DEF SizeFlatten, Delta, HoldReads, Held, Judgements, LooksTaken
<1>12. CASE FlattenCancel BY <1>12 DEF FlattenCancel, Judgements, LooksTaken
<1>13. CASE FlattenClose BY <1>13 DEF FlattenClose, Lesser, Held, Judgements, LooksTaken
<1>14. CASE FillRests BY <1>14 DEF FillRests, Judgements, LooksTaken
<1>15. CASE OthersChange BY <1>15 DEF OthersChange, Judgements, LooksTaken
<1>16. CASE UNCHANGED evars BY <1>16 DEF evars
<1> QED BY <1>1, <1>2, <1>3, <1>4, <1>5, <1>6, <1>7, <1>8, <1>9, <1>10, <1>11, <1>12, <1>13, <1>14, <1>15, <1>16 DEF ENext

\* An entry reported as placed stays covered.
LEMMA PlacedIsCoveredKept == ProtectionInv /\ EntryTypeOK' /\ [ENext]_evars => PlacedIsCovered'
<1> SUFFICES ASSUME ProtectionInv, EntryTypeOK', [ENext]_evars PROVE PlacedIsCovered'
  OBVIOUS
<1>T. /\ plan \in Plans /\ at \in LookupSteps /\ fill \in Lots /\ live \in BOOLEAN /\ stop \in Lots
      /\ others \in -MaxOthers..MaxOthers /\ resp \in Answers
      /\ ours \in (0..Vol + MaxOthers) \cup {Absent, Invalid}
      /\ looked \in LooksTaken /\ sl \in Judgements /\ flat \in Flattens /\ closed \in Lots
  BY Typed DEF ProtectionInv
<1>V. Vol \in Nat \ {0} /\ Attempts \in Nat \ {0} /\ MaxOthers \in Nat BY EntryAssumption
<1>I. PlacedIsCovered /\ Books /\ Reported /\ Stops /\ Verified /\ Evident BY DEF ProtectionInv
<1> USE <1>T, <1>V, <1>I DEF Lots, Absent, Invalid, Plans, Answers, Evidence, PlacedIsCovered, Books, Reported, Stops, Verified, Evident, HL, Cover
<1>1. CASE EntryAccepted BY <1>1 DEF EntryAccepted, EntryFills, Judgements, LooksTaken
<1>2. CASE PlaceTrigger BY <1>2 DEF PlaceTrigger, Judgements, LooksTaken
<1>3. CASE EntryAcknowledged BY <1>3 DEF EntryAcknowledged, Judgements, LooksTaken
<1>4. CASE EntryRecovered BY <1>4 DEF EntryRecovered, EntryFills, Judgements, LooksTaken
<1>5. CASE EntryNotConfirmed BY <1>5 DEF EntryNotConfirmed, EntryFills, Judgements, LooksTaken
<1>6. CASE AssessFill BY <1>6 DEF AssessFill, FillEvidence, Delta, HoldReads, Held, Judgements, LooksTaken
<1>7. CASE AcceptedById BY <1>7 DEF AcceptedById, Judgements, LooksTaken
<1>8. CASE SeenInList BY <1>8 DEF SeenInList, Look, Judgements, LooksTaken
<1>9. CASE NotSeen BY <1>9 DEF NotSeen, Look, Checked, Judgements, LooksTaken
<1>10. CASE JudgeStop BY <1>10 DEF JudgeStop, OwnFill, CoverageOf, Judgements, LooksTaken
<1>11. CASE SizeFlatten BY <1>11 DEF SizeFlatten, Delta, HoldReads, Held, Judgements, LooksTaken
<1>12. CASE FlattenCancel BY <1>12 DEF FlattenCancel, Judgements, LooksTaken
<1>13. CASE FlattenClose BY <1>13 DEF FlattenClose, Lesser, Held, Judgements, LooksTaken
<1>14. CASE FillRests BY <1>14 DEF FillRests, Judgements, LooksTaken
<1>15. CASE OthersChange BY <1>15 DEF OthersChange, Judgements, LooksTaken
<1>16. CASE UNCHANGED evars BY <1>16 DEF evars
<1> QED BY <1>1, <1>2, <1>3, <1>4, <1>5, <1>6, <1>7, <1>8, <1>9, <1>10, <1>11, <1>12, <1>13, <1>14, <1>15, <1>16 DEF ENext

\* The invariant holds in every reachable state.
LEMMA ProtectionInvariance == ESpec => []ProtectionInv
<1>1. EInit => ProtectionInv BY ProtectionInit
<1>2. ProtectionInv /\ [ENext]_evars => ProtectionInv'
  BY ProtectionType, BooksKept, ReportedKept, StopsKept, VerifiedKept, LookedAtKept, EvidentKept,
     PlacedIsCoveredKept DEF ProtectionInv
<1> QED BY <1>1, <1>2, PTL DEF ESpec

\* The state of the steps that follow an entry order stays well typed.
THEOREM EntryTyped == ESpec => []EntryTypeOK
<1>1. ProtectionInv => EntryTypeOK BY DEF ProtectionInv
<1> QED BY <1>1, ProtectionInvariance, PTL

\* F-02, M1, X2-01: an entry reported as placed with its stop verified in full has a
\* stop for every filled lot, for every order size, number of looks and activity of
\* others.
THEOREM PlacedCovered == ESpec => []PlacedIsCovered
<1>1. ProtectionInv => PlacedIsCovered BY DEF ProtectionInv
<1> QED BY <1>1, ProtectionInvariance, PTL

\* O-01, C-1: an entry whose stop is in force is closed only on a served list.
THEOREM ProtectedKept == ESpec => []ProtectedNotFlattened
<1>1. ProtectionInv => ProtectedNotFlattened
  <2> SUFFICES ASSUME ProtectionInv, closed > 0, Cover >= fill, fill > 0
               PROVE looked.hidden \/ (~HL /\ looked.field)
    BY DEF ProtectedNotFlattened
  <2>1. ~sl.verified /\ sl.checked BY DEF ProtectionInv, Verified
  <2>2. IF HL THEN stop > 0 => looked.hidden ELSE looked.field
    BY <2>1 DEF ProtectionInv, LookedAt
  <2>3. HL => stop > 0
    <3>1. fill \in 0..Vol /\ stop \in 0..Vol /\ Vol \in Nat
      BY EntryAssumption DEF ProtectionInv, EntryTypeOK, Lots
    <3> QED BY <3>1 DEF Cover
  <2> QED BY <2>2, <2>3
<1> QED BY <1>1, ProtectionInvariance, PTL

\* The automatic close takes at most the own fill while nobody else trades.
THEOREM FlattenWithinFill == ESpec => []FlattenOwnFill
<1>1. ProtectionInv => FlattenOwnFill
  BY DEF ProtectionInv, Evident, FlattenOwnFill, EntryTypeOK, Lots
<1> QED BY <1>1, ProtectionInvariance, PTL

-----------------------------------------------------------------------------
(* OrderRecovery *)

\* Which requests an exchange is asked, and what each finds to start with.
Asked ==
  /\ lookup \in IF exch = "mexc" THEN {"send", "direct", "history", "open"} ELSE {"send", "cloid", "open"}
  /\ lookup = "send" => page = 1
  /\ lookup = "send" /\ verdict = "pending" => book.at = "nowhere"
  /\ lookup = "direct" => page = 1 /\ ~hit
  /\ verdict = "pending" => "answer" \notin failing /\ track # "read"
  /\ older + newer <= MaxListed

\* A scan that met the order's row has it in the history; one that did not, while
\* the order stayed there, has the row still ahead.
Scanned ==
  /\ hit => book.at = "history"
  /\ lookup = "history" /\ verdict = "pending" /\ book.at = "history" /\ track = "stayed" /\ ~hit =>
       newer >= (page - 1) * PageSize

\* What the requests before the open orders missed of an order that stayed.
Missed ==
  lookup = "open" /\ verdict = "pending" /\ track = "stayed" =>
    /\ exch = "hl" /\ Reached => "cloid" \in failing
    /\ exch = "mexc" /\ book.at = "history" =>
         "history" \in failing \/ Rows >= PageSize * MaxPages

RecoveryInv == RecoveryTypeOK /\ Asked /\ Scanned /\ Missed /\ RecoveryTells

\* The invariant holds of every initial state.
LEMMA RecoveryInvInit == RecoveryInit => RecoveryInv
<1> SUFFICES ASSUME RecoveryInit PROVE RecoveryInv OBVIOUS
<1> USE RecoveryAssumption DEF RecoveryInit
<1>1. RecoveryTypeOK
  <2>1. book \in [at : Places, fill : 0..Size, dead : BOOLEAN] BY DEF Places, Size
  <2>2. round \in 1..Rounds /\ page \in 1..MaxPages OBVIOUS
  <2>3. older \in 0..MaxListed /\ newer \in 0..MaxListed OBVIOUS
  <2> QED BY <2>1, <2>2, <2>3 DEF RecoveryTypeOK, Lookups, Tracks
<1>2. Asked /\ Scanned /\ Missed /\ RecoveryTells
  BY DEF Asked, Scanned, Missed, RecoveryTells
<1> QED BY <1>1, <1>2 DEF RecoveryInv

\* The types of the state, for the steps below.
LEMMA RecoveryFields ==
  ASSUME RecoveryInv
  PROVE  /\ exch \in {"mexc", "hl"} /\ book \in [at : Places, fill : 0..Size, dead : BOOLEAN]
         /\ older \in Nat /\ newer \in Nat /\ older + newer <= MaxListed
         /\ lookup \in Lookups /\ round \in 1..Rounds /\ page \in 1..MaxPages
         /\ hit \in BOOLEAN /\ track \in Tracks
         /\ failing \subseteq {"cloid", "history", "open", "answer"}
         /\ verdict \in {"pending", "accepted", "failed", "recovered", "unknown"}
  BY RecoveryAssumption DEF RecoveryInv, RecoveryTypeOK, Asked

\* The exchange moves the order on from where no scan has met it.
LEMMA MoveKept ==
  ASSUME RecoveryInv, NEW b \in [at : Places \ {"nowhere"}, fill : 0..Size, dead : BOOLEAN], Move(b),
         book.at \in {"flight", "open", "lagging"}
  PROVE RecoveryInv'
<1>1. RecoveryTypeOK' BY DEF RecoveryInv, RecoveryTypeOK, Move, Tracks
<1>2. ~hit /\ lookup # "send" BY DEF RecoveryInv, Scanned, Asked, Move
<1>3. Asked' /\ Scanned' /\ Missed' /\ RecoveryTells'
  BY <1>2 DEF RecoveryInv, Asked, Scanned, Missed, RecoveryTells, Move
<1> QED BY <1>1, <1>3 DEF RecoveryInv

\* Other rows of the history push the order's row back, and lengthen the scan.
LEMMA OtherListedKept == ASSUME RecoveryInv, OtherListed PROVE RecoveryInv'
<1>0. older \in Nat /\ newer \in Nat /\ older + newer < MaxListed /\ MaxListed \in Nat
  BY RecoveryFields, RecoveryAssumption DEF OtherListed
<1>1. PICK n \in Nat, o \in Nat :
         newer' = n /\ older' = o /\ n >= newer /\ o >= older /\ o + n <= MaxListed
  <2>1. CASE newer' = newer + 1 /\ UNCHANGED older BY <1>0, <2>1
  <2>2. CASE older' = older + 1 /\ UNCHANGED newer BY <1>0, <2>2
  <2> QED BY <2>1, <2>2 DEF OtherListed
<1>2. /\ verdict = "pending"
      /\ UNCHANGED <<exch, book, lookup, round, page, hit, failing, track, verdict>>
  BY DEF OtherListed
<1>3. RecoveryTypeOK'
  <2>1. n \in 0..MaxListed /\ o \in 0..MaxListed BY <1>0, <1>1
  <2> QED BY <1>1, <1>2, <2>1 DEF RecoveryInv, RecoveryTypeOK
<1>4. Rows' >= Rows /\ Rows \in Nat /\ Rows' \in Nat BY <1>0, <1>1, <1>2 DEF Rows
<1>5. PageSize * MaxPages \in Nat /\ (page - 1) * PageSize \in Int BY RecoveryAssumption, RecoveryFields
<1>6. Asked' /\ RecoveryTells' BY <1>1, <1>2 DEF RecoveryInv, Asked, RecoveryTells
<1>7. Scanned' BY <1>0, <1>1, <1>2, <1>5 DEF RecoveryInv, Scanned
<1>8. Missed' BY <1>2, <1>4, <1>5 DEF RecoveryInv, Missed, Reached
<1> QED BY <1>3, <1>6, <1>7, <1>8 DEF RecoveryInv

\* Sending the order.
LEMMA SendKept == ASSUME RecoveryInv, Send PROVE RecoveryInv'
<1>1. lookup = "send" /\ verdict = "pending" /\ track' = track /\ book.at = "nowhere" /\ ~hit
  BY DEF Send, RecoveryInv, Asked, Scanned
<1>2. CASE book' = [book EXCEPT !.at = "open"] /\ Conclude("accepted", {})
  <2>1. RecoveryTypeOK' BY <1>1, <1>2 DEF RecoveryInv, RecoveryTypeOK, Conclude, Places
  <2>2. Asked' /\ Scanned' /\ Missed' /\ RecoveryTells'
    BY <1>1, <1>2 DEF RecoveryInv, Asked, Scanned, Missed, RecoveryTells, Conclude
  <2> QED BY <2>1, <2>2 DEF RecoveryInv
<1>3. CASE Conclude("failed", {}) /\ UNCHANGED book
  <2>1. RecoveryTypeOK' BY <1>1, <1>3 DEF RecoveryInv, RecoveryTypeOK, Conclude
  <2>2. Asked' /\ Scanned' /\ Missed' /\ RecoveryTells'
    BY <1>1, <1>3 DEF RecoveryInv, Asked, Scanned, Missed, RecoveryTells, Conclude
  <2> QED BY <2>1, <2>2 DEF RecoveryInv
<1>4. CASE /\ book' = [book EXCEPT !.at = "flight"]
           /\ lookup' = IF exch = "mexc" THEN "direct" ELSE "cloid"
           /\ UNCHANGED <<exch, older, newer, round, page, hit, failing, verdict>>
  <2>1. RecoveryTypeOK' BY <1>1, <1>4 DEF RecoveryInv, RecoveryTypeOK, Places, Lookups
  <2>2. Scanned' /\ Missed' /\ RecoveryTells'
    BY <1>1, <1>4 DEF RecoveryInv, Scanned, Missed, RecoveryTells
  <2>3. Asked'
    <3>1. page = 1 BY <1>1 DEF RecoveryInv, Asked
    <3> QED BY <1>1, <1>4, <3>1 DEF RecoveryInv, Asked
  <2> QED BY <2>1, <2>2, <2>3 DEF RecoveryInv
<1> QED BY <1>2, <1>3, <1>4 DEF Send

\* A verdict on an order that stays where it is.
LEMMA Concluded ==
  ASSUME RecoveryInv, verdict = "pending",
         NEW v \in {"recovered", "unknown"},
         NEW faults \in SUBSET {"cloid", "history", "open", "answer"}, Conclude(v, faults),
         UNCHANGED book, track' \in Tracks, RecoveryTells'
  PROVE RecoveryInv'
<1>1. RecoveryTypeOK' BY DEF RecoveryInv, RecoveryTypeOK, Conclude
<1>2. Asked' /\ Scanned' /\ Missed' BY DEF RecoveryInv, Asked, Scanned, Missed, Conclude
<1> QED BY <1>1, <1>2 DEF RecoveryInv

\* Reading a row of the order where it can be read.
LEMMA ReadKept ==
  ASSUME RecoveryInv, verdict = "pending", Reached, NEW told \in Tellings, Read(told)
  PROVE RecoveryInv'
<1>1. "answer" \notin failing BY DEF RecoveryInv, Asked
<1>2. UNCHANGED book /\ track' = "read" /\ track' \in Tracks BY DEF Read, Tracks
<1>3. CASE Conclude("recovered", {})
  <2>1. RecoveryTells' BY <1>1, <1>2, <1>3 DEF RecoveryTells, Reached, Conclude
  <2> QED BY <1>2, <1>3, <2>1, Concluded
<1>4. CASE ProvenDead(told) /\ Conclude("unknown", {})
  <2>1. RecoveryTells' BY <1>2, <1>4 DEF RecoveryTells, ZeroFill, ProvenDead, Conclude
  <2> QED BY <1>2, <1>4, <2>1, Concluded
<1>5. CASE Conclude("unknown", {"answer"})
  <2>1. RecoveryTells' BY <1>2, <1>5 DEF RecoveryTells, Conclude
  <2> QED BY <1>2, <1>5, <2>1, Concluded
<1> QED BY <1>3, <1>4, <1>5 DEF Read

\* Turning to the open orders, when what was missed before them is accounted for.
LEMMA TurnedToOpen ==
  ASSUME RecoveryInv, verdict = "pending", NEW faults \in SUBSET {"cloid", "history", "open"},
         AskNext("open", faults), track' \in {"stayed", track},
         track' = "stayed" => /\ exch = "hl" /\ Reached => "cloid" \in faults
                              /\ exch = "mexc" /\ book.at = "history" =>
                                   "history" \in faults \/ Rows >= PageSize * MaxPages
  PROVE RecoveryInv'
<1>1. RecoveryTypeOK'
  <2>1. 1 \in 1..MaxPages BY RecoveryAssumption
  <2> QED BY <2>1 DEF RecoveryInv, RecoveryTypeOK, AskNext, Lookups, Tracks
<1>2. Asked' BY RecoveryFields DEF RecoveryInv, Asked, AskNext
<1>3. Scanned' /\ RecoveryTells' BY DEF AskNext, Scanned, RecoveryTells
<1>4. Missed' BY DEF AskNext, Missed, Reached, Rows
<1> QED BY <1>1, <1>2, <1>3, <1>4 DEF RecoveryInv

\* The direct lookup of MEXC opens the first round.
LEMMA DirectKept == ASSUME RecoveryInv, Direct PROVE RecoveryInv'
<1>1. verdict = "pending" /\ lookup = "direct" /\ page = 1 /\ ~hit /\ exch = "mexc"
  BY RecoveryFields DEF Direct, Asking, RecoveryInv, Asked
<1>2. CASE /\ track' = "stayed" /\ lookup' = "history"
           /\ UNCHANGED <<exch, book, older, newer, round, page, hit, failing, verdict>>
  <2>1. RecoveryTypeOK' BY <1>2 DEF RecoveryInv, RecoveryTypeOK, Lookups, Tracks
  <2>2. (page' - 1) * PageSize = 0 BY <1>1, <1>2, RecoveryAssumption
  <2>3. Scanned' BY <1>1, <1>2, <2>2, RecoveryFields DEF Scanned
  <2>4. Asked' /\ Missed' /\ RecoveryTells'
    BY <1>1, <1>2 DEF RecoveryInv, Asked, Missed, RecoveryTells
  <2> QED BY <2>1, <2>3, <2>4 DEF RecoveryInv
<1>3. CASE Reached /\ \E told \in Tellings : Read(told) BY <1>1, <1>3, ReadKept
<1> QED BY <1>2, <1>3 DEF Direct

\* The lookup of Hyperliquid by cloid.
LEMMA CloidKept == ASSUME RecoveryInv, Cloid PROVE RecoveryInv'
<1>1. verdict = "pending" /\ lookup = "cloid" /\ exch # "mexc"
  BY RecoveryFields DEF Cloid, Asking, RecoveryInv, Asked
<1>2. CASE AskNext("open", {"cloid"}) /\ track' = "stayed"
  <2>1. {"cloid"} \in SUBSET {"cloid", "history", "open"} OBVIOUS
  <2> QED BY <1>1, <1>2, <2>1, TurnedToOpen
<1>3. CASE ~Reached /\ AskNext("open", {}) /\ track' = "stayed"
  <2>1. {} \in SUBSET {"cloid", "history", "open"} OBVIOUS
  <2> QED BY <1>1, <1>3, <2>1, TurnedToOpen
<1>4. CASE Reached /\ \E told \in Tellings : Read(told) BY <1>1, <1>4, ReadKept
<1> QED BY <1>2, <1>3, <1>4 DEF Cloid

\* A history page that fails.
LEMMA PageFailsKept == ASSUME RecoveryInv, PageFails PROVE RecoveryInv'
<1>1. verdict = "pending" /\ lookup = "history" /\ exch = "mexc"
  BY RecoveryFields DEF PageFails, Asking, RecoveryInv, Asked
<1>2. CASE hit
  <2>1. Conclude("unknown", {"history"}) /\ UNCHANGED <<book, track>> BY <1>2 DEF PageFails
  <2>2. book.at = "history" BY <1>2 DEF RecoveryInv, Scanned
  <2>3. track # "read" BY <1>1 DEF RecoveryInv, Asked
  <2>4. RecoveryTells'
    BY <1>1, <2>1, <2>2, <2>3, RecoveryFields DEF RecoveryTells, Conclude, Excused, Tracks
  <2> QED BY <1>1, <2>1, <2>4, RecoveryFields, Concluded
<1>3. CASE ~hit
  <2>1. AskNext("open", {"history"}) /\ UNCHANGED track BY <1>3 DEF PageFails
  <2>2. {"history"} \in SUBSET {"cloid", "history", "open"} OBVIOUS
  <2> QED BY <1>1, <2>1, <2>2, TurnedToOpen
<1> QED BY <1>2, <1>3

\* A history page that is served: the row of an order that stayed there is on it, on
\* a later page, or was on an earlier one.
LEMMA PageReadKept == ASSUME RecoveryInv, PageRead PROVE RecoveryInv'
<1>1. verdict = "pending" /\ lookup = "history" /\ exch = "mexc"
  BY RecoveryFields DEF PageRead, Asking, RecoveryInv, Asked
<1> DEFINE met == hit \/ OnPage
<1>2. met => book.at = "history" BY DEF RecoveryInv, Scanned, OnPage
<1>3. /\ page * PageSize \in Nat /\ (page - 1) * PageSize \in Int
      /\ MaxPages * PageSize = PageSize * MaxPages /\ page \in Nat /\ Rows \in Nat
  BY RecoveryFields, RecoveryAssumption DEF Rows
<1>4. ~met /\ track = "stayed" /\ book.at = "history" => newer >= page * PageSize /\ Rows > newer
  BY <1>1, <1>3, RecoveryFields DEF RecoveryInv, Scanned, OnPage, Rows
<1>5. CASE Rows < page * PageSize /\ met /\ \E told \in Tellings : Read(told)
  BY <1>1, <1>2, <1>5, ReadKept DEF Reached
<1>6. CASE Rows < page * PageSize /\ ~met /\ AskNext("open", {}) /\ UNCHANGED track
  <2>1. {} \in SUBSET {"cloid", "history", "open"} OBVIOUS
  <2>2. track = "stayed" => book.at # "history" BY <1>3, <1>4, <1>6, RecoveryFields
  <2> QED BY <1>1, <1>6, <2>1, <2>2, TurnedToOpen
<1>7. CASE /\ Rows >= page * PageSize /\ page < MaxPages
           /\ page' = page + 1 /\ hit' = met
           /\ UNCHANGED <<exch, book, older, newer, lookup, round, failing, track, verdict>>
  <2>1. met \in BOOLEAN BY RecoveryFields DEF OnPage
  <2>2. page' \in 1..MaxPages BY <1>7, RecoveryFields, RecoveryAssumption
  <2>3. RecoveryTypeOK' BY <1>7, <2>1, <2>2 DEF RecoveryInv, RecoveryTypeOK
  <2>4. (page' - 1) * PageSize = page * PageSize BY <1>3, <1>7
  <2>5. Scanned' BY <1>1, <1>2, <1>4, <1>7, <2>4 DEF Scanned
  <2>6. Asked' /\ Missed' /\ RecoveryTells'
    BY <1>1, <1>7 DEF RecoveryInv, Asked, Missed, RecoveryTells
  <2> QED BY <2>3, <2>5, <2>6 DEF RecoveryInv
<1>8. CASE /\ Rows >= page * PageSize /\ page = MaxPages /\ met
           /\ Conclude("unknown", {}) /\ UNCHANGED <<book, track>>
  <2>1. book.at = "history" /\ Rows >= PageSize * MaxPages BY <1>2, <1>3, <1>8
  <2>2. track # "read" BY <1>1 DEF RecoveryInv, Asked
  <2>3. RecoveryTells'
    BY <1>1, <1>8, <2>1, <2>2, RecoveryFields DEF RecoveryTells, Conclude, Excused, Rows, Tracks
  <2> QED BY <1>1, <1>8, <2>3, RecoveryFields, Concluded
<1>9. CASE Rows >= page * PageSize /\ page = MaxPages /\ ~met /\ AskNext("open", {}) /\ UNCHANGED track
  <2>1. {} \in SUBSET {"cloid", "history", "open"} OBVIOUS
  <2>2. Rows >= PageSize * MaxPages BY <1>3, <1>9
  <2> QED BY <1>1, <1>9, <2>1, <2>2, TurnedToOpen
<1> QED BY <1>5, <1>6, <1>7, <1>8, <1>9 DEF PageRead

\* Nothing found: another round, or the verdict that the outcome is unknown.
LEMMA NotFoundKept ==
  ASSUME RecoveryInv, verdict = "pending", lookup = "open",
         NEW faults \in SUBSET {"open"}, NotFound(faults), book.at = "open" => "open" \in faults
  PROVE RecoveryInv'
<1>1. CASE exch = "mexc" /\ round < Rounds
  <2>1. /\ round' = round + 1 /\ lookup' = "history" /\ page' = 1 /\ hit' = FALSE
        /\ failing' = {} /\ track' = "stayed" /\ UNCHANGED <<exch, book, older, newer, verdict>>
    BY <1>1 DEF NotFound
  <2>2. round' \in 1..Rounds /\ page' \in 1..MaxPages
    BY <1>1, <2>1, RecoveryFields, RecoveryAssumption
  <2>3. RecoveryTypeOK' BY <2>1, <2>2 DEF RecoveryInv, RecoveryTypeOK, Lookups, Tracks
  <2>4. (page' - 1) * PageSize = 0 BY <2>1, RecoveryAssumption
  <2>5. Scanned' BY <2>1, <2>4, RecoveryFields DEF Scanned
  <2>6. Asked' /\ Missed' /\ RecoveryTells'
    BY <1>1, <2>1 DEF RecoveryInv, Asked, Missed, RecoveryTells
  <2> QED BY <2>3, <2>5, <2>6 DEF RecoveryInv
<1>2. CASE ~(exch = "mexc" /\ round < Rounds)
  <2>1. Conclude("unknown", faults) /\ UNCHANGED <<book, track>> BY <1>2 DEF NotFound
  <2>2. UNCHANGED <<exch, older, newer>> /\ failing' = failing \cup faults /\ verdict' = "unknown"
    BY <2>1 DEF Conclude
  <2>3. Reached /\ track = "stayed" => Excused'
    <3>1. SUFFICES ASSUME Reached, track = "stayed" PROVE Excused' OBVIOUS
    <3>2. CASE exch = "hl"
      BY <2>1, <2>2, <3>1, <3>2 DEF RecoveryInv, Missed, Excused
    <3>3. CASE exch = "mexc"
      BY <2>1, <2>2, <3>1, <3>3 DEF RecoveryInv, Missed, Excused, Reached, Rows
    <3> QED BY <3>2, <3>3, RecoveryFields
  <2>4. track # "read" BY DEF RecoveryInv, Asked
  <2>5. RecoveryTells' BY <2>1, <2>2, <2>3, <2>4, RecoveryFields DEF RecoveryTells, Reached, Tracks
  <2> QED BY <2>1, <2>5, RecoveryFields, Concluded
<1> QED BY <1>1, <1>2

\* The open orders.
LEMMA OpenKept == ASSUME RecoveryInv, Open PROVE RecoveryInv'
<1>1. verdict = "pending" /\ lookup = "open" BY DEF Open, Asking
<1>2. CASE NotFound({"open"})
  <2>1. {"open"} \in SUBSET {"open"} OBVIOUS
  <2> QED BY <1>1, <1>2, <2>1, NotFoundKept
<1>3. CASE book.at # "open" /\ NotFound({})
  <2>1. {} \in SUBSET {"open"} OBVIOUS
  <2> QED BY <1>1, <1>3, <2>1, NotFoundKept
<1>4. CASE book.at = "open" /\ \E told \in Tellings : Read(told) BY <1>1, <1>4, ReadKept DEF Reached
<1> QED BY <1>2, <1>3, <1>4 DEF Open

\* The invariant is kept by every step.
LEMMA RecoveryStep == RecoveryInv /\ [RecoveryNext]_recoveryVars => RecoveryInv'
<1> SUFFICES ASSUME RecoveryInv, [RecoveryNext]_recoveryVars PROVE RecoveryInv' OBVIOUS
<1>0. book \in [at : Places, fill : 0..Size, dead : BOOLEAN] BY RecoveryFields
<1>1. CASE Arrives
  <2>1. [book EXCEPT !.at = "open"] \in [at : Places \ {"nowhere"}, fill : 0..Size, dead : BOOLEAN]
    BY <1>0 DEF Places
  <2> QED BY <1>1, <2>1, MoveKept DEF Arrives
<1>2. CASE PartFills
  <2>1. book.fill + 1 \in 0..Size /\ book.at = "open" BY <1>0, <1>2 DEF PartFills, Size
  <2>2. [book EXCEPT !.fill = @ + 1] \in [at : Places \ {"nowhere"}, fill : 0..Size, dead : BOOLEAN]
    BY <1>0, <2>1 DEF Places
  <2> QED BY <1>2, <2>2, MoveKept DEF PartFills
<1>3. CASE OrderEnds
  <2>1. PICK cancelled \in BOOLEAN :
          Move([at |-> "lagging", fill |-> IF cancelled THEN book.fill ELSE Size, dead |-> cancelled])
    BY <1>3 DEF OrderEnds
  <2>2. [at |-> "lagging", fill |-> IF cancelled THEN book.fill ELSE Size, dead |-> cancelled]
          \in [at : Places \ {"nowhere"}, fill : 0..Size, dead : BOOLEAN]
    BY <1>0 DEF Places, Size
  <2> QED BY <1>3, <2>1, <2>2, MoveKept DEF OrderEnds
<1>4. CASE Listed
  <2>1. [book EXCEPT !.at = "history"] \in [at : Places \ {"nowhere"}, fill : 0..Size, dead : BOOLEAN]
    BY <1>0 DEF Places
  <2> QED BY <1>4, <2>1, MoveKept DEF Listed
<1>5. CASE UNCHANGED recoveryVars
  <2>1. RecoveryTypeOK' /\ Asked' /\ Scanned'
    BY <1>5 DEF RecoveryInv, RecoveryTypeOK, Asked, Scanned, recoveryVars
  <2>2. Missed' /\ RecoveryTells'
    BY <1>5 DEF RecoveryInv, Missed, RecoveryTells, recoveryVars, Reached, Rows, ZeroFill, Excused
  <2> QED BY <2>1, <2>2 DEF RecoveryInv
<1> QED BY <1>1, <1>2, <1>3, <1>4, <1>5, OtherListedKept, SendKept, DirectKept, CloidKept,
           PageFailsKept, PageReadKept, OpenKept DEF RecoveryNext

\* The recovery tells the truth about the order, for every number of rounds, pages and
\* rows and every length of the history: failed only if nothing was sent, recovered only
\* for an order that is there with the terms sent, unknown only with an excuse.
THEOREM RecoveryTruth == RecoverySpec => []RecoveryTells
<1>1. RecoveryInv => RecoveryTells BY DEF RecoveryInv
<1> QED BY <1>1, RecoveryInvInit, RecoveryStep, PTL DEF RecoverySpec

\* The state of the recovery stays well typed.
THEOREM RecoveryTyped == RecoverySpec => []RecoveryTypeOK
<1>1. RecoveryInv => RecoveryTypeOK BY DEF RecoveryInv
<1> QED BY <1>1, RecoveryInvInit, RecoveryStep, PTL DEF RecoverySpec

-----------------------------------------------------------------------------
(* RiskGate *)

\* A property of the natural numbers that fails fails somewhere first.
LEMMA EarliestFailure ==
  ASSUME NEW S \in SUBSET Nat, S # {}
  PROVE  \E x \in S : \A y \in S : x <= y
<1> DEFINE LessThan == {p \in Nat \X Nat : p[1] < p[2]}
<1>1. IsWellFoundedOn(LessThan, Nat) BY NatLessThanWellFounded DEF OpToRel
<1>2. PICK x \in S : \A y \in S : ~(<<y, x>> \in LessThan) BY <1>1, WFMin
<1>3. \A y \in S : x <= y
  <2> TAKE y \in S
  <2>1. x \in Nat /\ y \in Nat OBVIOUS
  <2>2. y < x => <<y, x>> \in LessThan BY <2>1
  <2> HIDE DEF LessThan
  <2> QED BY <1>2, <2>1, <2>2
<1> QED BY <1>2, <1>3

\* One of a set, and the others.
Pick(s) == CHOOSE x \in s : TRUE
Rest(s) == s \ {Pick(s)}

\* The subsets of up to n elements are added up, one element at a time.
Sums(f, set, n, g) ==
  \A s \in SUBSET set :
    Cardinality(s) <= n => g[s] = IF s = {} THEN 0 ELSE f[Pick(s)] + g[Rest(s)]

\* One element less.
LEMMA Rests ==
  ASSUME NEW set, IsFiniteSet(set), NEW s \in SUBSET set
  PROVE  /\ Cardinality(s) \in Nat /\ Cardinality(s) <= Cardinality(set)
         /\ s # {} => /\ Pick(s) \in s /\ Rest(s) \in SUBSET set
                      /\ Cardinality(Rest(s)) = Cardinality(s) - 1 /\ Cardinality(s) > 0
<1>1. IsFiniteSet(s) /\ Cardinality(s) \in Nat /\ Cardinality(s) <= Cardinality(set)
  BY FS_Subset, FS_CardinalityType
<1>2. ASSUME s # {} PROVE Pick(s) \in s
  BY <1>2 DEF Pick
<1>3. ASSUME s # {} PROVE Cardinality(Rest(s)) = Cardinality(s) - 1 /\ Cardinality(s) > 0
  <2>1. Cardinality(s \ {Pick(s)}) = Cardinality(s) - 1
    BY <1>1, <1>2, <1>3, FS_RemoveElement
  <2>2. Cardinality(s) # 0
    BY <1>1, <1>3, FS_EmptySet
  <2> QED BY <1>1, <2>1, <2>2 DEF Rest
<1> QED BY <1>1, <1>2, <1>3 DEF Rest

\* The sums exist for every finite set.
LEMMA SumsExist ==
  ASSUME NEW set, IsFiniteSet(set), NEW f
  PROVE  \A n \in Nat : \E g : Sums(f, set, n, g)
<1> DEFINE S == {n \in Nat : ~\E g : Sums(f, set, n, g)}
<1> SUFFICES ASSUME S # {} PROVE FALSE
  OBVIOUS
<1>1. PICK m \in S : \A y \in S : m <= y
  BY EarliestFailure
<1>2. CASE m = 0
  <2>1. Sums(f, set, 0, [s \in SUBSET set |-> 0])
    <3>1. ASSUME NEW s \in SUBSET set, Cardinality(s) <= 0 PROVE s = {}
      BY <3>1, Rests
    <3> QED BY <3>1 DEF Sums
  <2> QED BY <1>2, <2>1
<1>3. CASE m # 0
  <2>1. m - 1 \in Nat /\ m - 1 \notin S
    BY <1>1, <1>3
  <2>2. PICK g : Sums(f, set, m - 1, g)
    BY <2>1
  <2> DEFINE h == [s \in SUBSET set |-> IF s = {} THEN 0 ELSE f[Pick(s)] + g[Rest(s)]]
  <2>3. ASSUME NEW s \in SUBSET set, Cardinality(s) <= m
        PROVE  h[s] = IF s = {} THEN 0 ELSE f[Pick(s)] + h[Rest(s)]
    <3>1. CASE s = {}
      BY <3>1
    <3>2. CASE s # {}
      <4>1. Rest(s) \in SUBSET set /\ Cardinality(Rest(s)) <= m - 1
        BY <2>3, <3>2, Rests, <2>1
      <4>2. h[Rest(s)] = g[Rest(s)]
        BY <2>2, <4>1 DEF Sums
      <4> QED BY <3>2, <4>2
    <3> QED BY <3>1, <3>2
  <2>4. Sums(f, set, m, h)
    BY <2>3 DEF Sums
  <2> QED BY <2>4
<1> QED BY <1>2, <1>3

\* Sums of numbers are numbers, and no less when every number is no less.
LEMMA SumsOrdered ==
  ASSUME NEW set, IsFiniteSet(set), NEW e \in [set -> Nat], NEW f \in [set -> Nat],
         \A x \in set : e[x] <= f[x],
         NEW g, Sums(e, set, Cardinality(set), g), NEW h, Sums(f, set, Cardinality(set), h)
  PROVE  g[set] \in Nat /\ h[set] \in Nat /\ g[set] <= h[set]
<1> DEFINE Ordered(s) == g[s] \in Nat /\ h[s] \in Nat /\ g[s] <= h[s]
           S == {n \in Nat : \E s \in SUBSET set : Cardinality(s) = n /\ ~Ordered(s)}
<1>1. S = {}
  <2> SUFFICES ASSUME S # {} PROVE FALSE
    OBVIOUS
  <2>1. PICK m \in S : \A y \in S : m <= y
    BY EarliestFailure
  <2>2. PICK s \in SUBSET set : Cardinality(s) = m /\ ~Ordered(s)
    BY <2>1
  <2>3. g[s] = (IF s = {} THEN 0 ELSE e[Pick(s)] + g[Rest(s)])
        /\ h[s] = (IF s = {} THEN 0 ELSE f[Pick(s)] + h[Rest(s)])
    BY Rests DEF Sums
  <2>4. CASE s = {}
    BY <2>2, <2>3, <2>4
  <2>5. CASE s # {}
    <3>1. Rest(s) \in SUBSET set /\ Cardinality(Rest(s)) \in Nat /\ Cardinality(Rest(s)) < m /\ Pick(s) \in set
      BY <2>2, <2>5, Rests
    <3>2. Ordered(Rest(s))
      BY <2>1, <3>1
    <3>3. e[Pick(s)] \in Nat /\ f[Pick(s)] \in Nat /\ e[Pick(s)] <= f[Pick(s)]
      BY <3>1
    <3> QED BY <2>2, <2>3, <2>5, <3>2, <3>3
  <2> QED BY <2>4, <2>5
<1>2. Cardinality(set) \in Nat
  BY FS_CardinalityType
<1> QED BY <1>1, <1>2


\* What a fold over positions adds up.
LEMMA OpenLossIsSum ==
  ASSUME NEW side, IsFiniteSet(SameSide(side))
  PROVE  \E g : /\ Sums([p \in SameSide(side) |-> LossWhen(p)], SameSide(side),
                        Cardinality(SameSide(side)), g)
                /\ OpenLoss(side) = g[SameSide(side)]
<1> DEFINE set == SameSide(side)
           f == [p \in set |-> LossWhen(p)]
           step(g) == [s \in SUBSET set |-> IF s = {} THEN 0
                         ELSE LossWhen(CHOOSE x \in s : TRUE) + g[s \ {CHOOSE x \in s : TRUE}]]
           iter == CHOOSE g : g = step(g)
<1>1. OpenLoss(side) = iter[set]
  BY DEF OpenLoss, MapThenSumSet, MapThenFoldSet
<1> HIDE DEF set
<1>2. \E g : g = step(g)
  <2>1. PICK g : Sums(f, set, Cardinality(set), g)
    BY SumsExist, FS_CardinalityType DEF set
  <2> DEFINE h == [s \in SUBSET set |-> g[s]]
  <2>2. ASSUME NEW s \in SUBSET set
        PROVE  h[s] = IF s = {} THEN 0 ELSE LossWhen(CHOOSE x \in s : TRUE) + h[s \ {CHOOSE x \in s : TRUE}]
    <3>1. g[s] = IF s = {} THEN 0 ELSE f[Pick(s)] + g[Rest(s)]
      BY <2>1, Rests DEF Sums, set
    <3>2. s # {} => Pick(s) \in set /\ Rest(s) \in SUBSET set
      BY Rests DEF set
    <3> QED BY <3>1, <3>2 DEF Pick, Rest
  <2>3. h = step(h)
    BY <2>2
  <2> QED BY <2>3
<1>3. iter = step(iter)
  BY <1>2
<1>4. Sums(f, set, Cardinality(set), iter)
  <2> SUFFICES ASSUME NEW s \in SUBSET set
               PROVE  iter[s] = IF s = {} THEN 0 ELSE f[Pick(s)] + iter[Rest(s)]
    BY DEF Sums
  <2>1. iter[s] = step(iter)[s]
    BY <1>3
  <2> HIDE DEF iter
  <2>2. s # {} => f[Pick(s)] = LossWhen(Pick(s))
    BY Rests DEF set
  <2> QED BY <2>1, <2>2 DEF Pick, Rest
<1> QED BY <1>1, <1>4 DEF set

\* The risk reckoned for a position.
Reckoned(p) == LossDistance(p) * contract.size * p.vol

\* The same of the risk reckoned.
LEMMA ExistingRiskIsSum ==
  ASSUME NEW side, IsFiniteSet(SameSide(side))
  PROVE  \E g : /\ Sums([p \in SameSide(side) |-> Reckoned(p)], SameSide(side),
                        Cardinality(SameSide(side)), g)
                /\ ExistingRisk(side) = g[SameSide(side)]
<1> DEFINE set == SameSide(side)
           f == [p \in set |-> Reckoned(p)]
           step(g) == [s \in SUBSET set |-> IF s = {} THEN 0
                         ELSE Reckoned(CHOOSE x \in s : TRUE) + g[s \ {CHOOSE x \in s : TRUE}]]
           iter == CHOOSE g : g = step(g)
<1>1. ExistingRisk(side) = iter[set]
  BY DEF ExistingRisk, Reckoned, MapThenSumSet, MapThenFoldSet
<1> HIDE DEF set
<1>2. \E g : g = step(g)
  <2>1. PICK g : Sums(f, set, Cardinality(set), g)
    BY SumsExist, FS_CardinalityType DEF set
  <2> DEFINE h == [s \in SUBSET set |-> g[s]]
  <2>2. ASSUME NEW s \in SUBSET set
        PROVE  h[s] = IF s = {} THEN 0 ELSE Reckoned(CHOOSE x \in s : TRUE) + h[s \ {CHOOSE x \in s : TRUE}]
    <3>1. g[s] = IF s = {} THEN 0 ELSE f[Pick(s)] + g[Rest(s)]
      BY <2>1, Rests DEF Sums, set
    <3>2. s # {} => Pick(s) \in set /\ Rest(s) \in SUBSET set
      BY Rests DEF set
    <3> QED BY <3>1, <3>2 DEF Pick, Rest
  <2>3. h = step(h)
    BY <2>2
  <2> QED BY <2>3
<1>3. iter = step(iter)
  BY <1>2
<1>4. Sums(f, set, Cardinality(set), iter)
  <2> SUFFICES ASSUME NEW s \in SUBSET set
               PROVE  iter[s] = IF s = {} THEN 0 ELSE f[Pick(s)] + iter[Rest(s)]
    BY DEF Sums
  <2>1. iter[s] = step(iter)[s]
    BY <1>3
  <2> HIDE DEF iter
  <2>2. s # {} => f[Pick(s)] = Reckoned(Pick(s))
    BY Rests DEF set
  <2> QED BY <2>1, <2>2 DEF Pick, Rest
<1> QED BY <1>1, <1>4 DEF set

\* What the gate reads is of its type.
GateRead ==
  /\ settings \in Profiles /\ contract \in Contracts /\ funds \in Accounts
  /\ last \in {100 * p : p \in Prices}
  /\ ticket \in [side : Sides, type : {"market", "limit"}, price : Nat \ {0},
                 stop : Nat, tp : Nat, lev : Nat, riskPct : Nat, manual : BOOLEAN,
                 cross : BOOLEAN, vol : Nat]

\* The lesser and the larger of two numbers.
LEMMA Extremes ==
  ASSUME NEW a \in Int, NEW b \in Int
  PROVE  /\ Max({a, b}) = IF a >= b THEN a ELSE b
         /\ Min({a, b}) = IF a <= b THEN a ELSE b
         /\ Max({a}) = a /\ Min({a}) = a
  BY DEF Max, Min

\* And of one or both of them.
LEMMA ExtremesOf ==
  ASSUME NEW a \in Int, NEW b \in Int, NEW set \in SUBSET {a, b}, set # {}
  PROVE  /\ Max(set) \in set /\ \A x \in set : Max(set) >= x
         /\ Min(set) \in set /\ \A x \in set : Min(set) <= x
<1>1. (\E x \in set : \A y \in set : x >= y) /\ (\E x \in set : \A y \in set : x <= y)
  <2>1. a >= b \/ b >= a
    OBVIOUS
  <2>2. PICK c \in set : TRUE
    OBVIOUS
  <2>3. CASE set = {c}
    BY <2>2, <2>3
  <2>4. CASE set # {c}
    <3>1. set = {a, b}
      BY <2>2, <2>4
    <3> QED BY <2>1, <3>1
  <2> QED BY <2>3, <2>4
<1> QED BY <1>1 DEF Max, Min

\* A position gives way no further than the gate reckons with.
LEMMA LossReckoned ==
  ASSUME GateRead, NEW side \in Sides, ExistingKnown(side), NEW p \in SameSide(side)
  PROVE  LossWhen(p) \in Nat /\ Reckoned(p) \in Nat /\ LossWhen(p) <= Reckoned(p)
<1>1. /\ p \in [side : {"long", "short"}, entry : Nat, stop : Nat, liq : Nat, vol : Nat] /\ p.side = side
      /\ contract.size \in Nat
  BY GateAssumption DEF GateRead, SameSide
<1> DEFINE ends == {x \in {p.stop, p.liq} : x > 0 /\ (IF p.side = "long" THEN x <= p.entry ELSE x >= p.entry)}
           d == Abs(p.entry - (IF p.side = "long" THEN Max(ends) ELSE Min(ends)))
           D == LossDistance(p)
<1>2. Protective(p) \/ (p.liq > 0 /\ D > 0)
  BY DEF ExistingKnown
<1> DEFINE m == IF p.side = "long" THEN Max(ends) ELSE Min(ends)
<1>3. m \in ends /\ \A x \in ends : IF p.side = "long" THEN m >= x ELSE m <= x
  <2>1. ends # {}
    BY <1>1, <1>2 DEF Protective, LossDistance, Abs
  <2>2. ends \in SUBSET {p.stop, p.liq} /\ p.stop \in Int /\ p.liq \in Int
    BY <1>1
  <2> HIDE DEF ends
  <2> QED BY <2>1, <2>2, ExtremesOf
<1> HIDE DEF m
<1>4. m \in Nat /\ (IF p.side = "long" THEN m <= p.entry ELSE m >= p.entry)
  BY <1>1, <1>3
<1>5. d \in Nat /\ D \in Nat /\ d <= D
  <2>1. d = IF p.side = "long" THEN p.entry - m ELSE m - p.entry
    BY <1>1, <1>4 DEF Abs, m
  <2>2. CASE Protective(p)
    <3>1. p.stop \in ends /\ D = (IF p.side = "long" THEN p.entry - p.stop ELSE p.stop - p.entry)
      BY <1>1, <2>2 DEF Protective, LossDistance, Abs
    <3> HIDE DEF d, D, ends
    <3> QED BY <1>1, <1>3, <1>4, <2>1, <3>1
  <2>3. CASE ~Protective(p)
    <3>1. p.liq \in ends /\ D = (IF p.side = "long" THEN p.entry - p.liq ELSE p.liq - p.entry)
      BY <1>1, <1>2, <2>3 DEF LossDistance
    <3> HIDE DEF d, D, ends
    <3> QED BY <1>1, <1>3, <1>4, <2>1, <3>1
  <2> QED BY <2>2, <2>3
<1>6. LossWhen(p) = d * contract.size * p.vol /\ Reckoned(p) = D * contract.size * p.vol
  BY DEF LossWhen, Reckoned
<1> HIDE DEF d, D
<1>7. \A a, b, c, e \in Nat : a <= b => a * c * e \in Nat /\ b * c * e \in Nat /\ a * c * e <= b * c * e
  <2>1. \A a, b, c \in Nat : a <= b => a * c \in Nat /\ b * c \in Nat /\ a * c <= b * c
    OBVIOUS
  <2> QED BY <2>1
<1> QED BY <1>1, <1>5, <1>6, <1>7

\* So the positions of a side together.
LEMMA OpenWithin ==
  ASSUME GateRead, NEW side \in Sides, ExistingKnown(side)
  PROVE  OpenLoss(side) \in Nat /\ ExistingRisk(side) \in Nat /\ OpenLoss(side) <= ExistingRisk(side)
<1> DEFINE set == SameSide(side)
           e == [p \in set |-> LossWhen(p)]
           f == [p \in set |-> Reckoned(p)]
<1>1. IsFiniteSet(set)
  BY GateAssumption, FS_Subset DEF GateRead, SameSide
<1>2. \A p \in set : e[p] \in Nat /\ f[p] \in Nat /\ e[p] <= f[p]
  BY LossReckoned
<1>3. PICK g : Sums(e, set, Cardinality(set), g) /\ OpenLoss(side) = g[set]
  BY <1>1, OpenLossIsSum
<1>4. PICK h : Sums(f, set, Cardinality(set), h) /\ ExistingRisk(side) = h[set]
  BY <1>1, ExistingRiskIsSum
<1>5. e \in [set -> Nat] /\ f \in [set -> Nat]
  BY <1>2
<1> HIDE DEF set, e, f
<1> QED BY <1>1, <1>2, <1>3, <1>4, <1>5, SumsOrdered

\* The consequent of SentWithinBudget.
WithinBudget ==
  \A paid \in Fills(ticket) :
    100 * (RoundedVol(ticket) * contract.size * LossFrom(ticket, paid) + OpenLoss(ticket.side))
      <= funds.equity * settings.maxRisk

\* A ticket's rounded values and the price it is reckoned from.
LEMMA TicketRounded ==
  ASSUME GateRead
  PROVE  /\ RoundedVol(ticket) \in Nat /\ Stop(ticket) \in Int /\ EntryForRisk(ticket) \in Int
         /\ Fills(ticket) \subseteq Int
         /\ \A paid \in Fills(ticket) :
              IF ticket.side = "long" THEN paid <= EntryForRisk(ticket) ELSE paid >= EntryForRisk(ticket)
<1>1. /\ contract.priceUnit \in Nat /\ contract.volUnit \in Nat /\ settings.entrySlip \in 0..99
      /\ ticket.vol \in Nat /\ ticket.stop \in Nat /\ ticket.price \in Nat /\ last \in Nat
      /\ ticket.side \in {"long", "short"} /\ ticket.type \in {"market", "limit"}
  BY GateAssumption DEF GateRead, Sides
<1>2. ASSUME NEW x \in Int, NEW u \in Nat
      PROVE  RoundDown(x, u) \in Int /\ RoundUp(x, u) \in Int /\ RoundNearest(x, u) \in Int
             /\ (x \in Nat => RoundDown(x, u) \in Nat)
  <2>1. ASSUME NEW y \in Int PROVE RoundDown(y, u) \in Int /\ (y \in Nat => RoundDown(y, u) \in Nat)
    <3>1. CASE u = 0
      BY <3>1 DEF RoundDown
    <3>2. CASE u # 0
      <4>1. y \div u \in Int /\ (y \in Nat => y \div u \in Nat)
        BY <3>2
      <4>2. PICK q \in Int : q = y \div u
        BY <4>1
      <4>3. q * u \in Int /\ (q \in Nat => q * u \in Nat)
        OBVIOUS
      <4> QED BY <3>2, <4>1, <4>2, <4>3 DEF RoundDown
    <3> QED BY <3>1, <3>2
  <2>2. RoundUp(x, u) \in Int
    BY <2>1 DEF RoundUp
  <2> QED BY <2>1, <2>2 DEF RoundNearest
<1>3. Stop(ticket) \in Int /\ RoundedVol(ticket) \in Nat
  <2>1. /\ RoundDown(ticket.stop, contract.priceUnit) \in Int /\ RoundUp(ticket.stop, contract.priceUnit) \in Int
        /\ RoundDown(ticket.vol, contract.volUnit) \in Nat
    <3>1. ticket.stop \in Int /\ ticket.vol \in Int
      BY <1>1
    <3> QED BY <1>1, <1>2, <3>1
  <2> QED BY <2>1 DEF Stop, RoundTrigger, RoundedVol
<1>4. /\ AdverseEntry(last, "long") \in Int /\ AdverseEntry(last, "long") >= last
      /\ AdverseEntry(last, "short") \in Int /\ AdverseEntry(last, "short") <= last
  <2>1. PICK s \in 0..99 : s = settings.entrySlip
    BY <1>1
  <2>2. last * s \in Nat /\ last * (100 + s) = 100 * last + last * s /\ last * (100 - s) = 100 * last - last * s
    BY <1>1, <2>1
  <2>3. \A k \in Nat : (100 * last + k) \div 100 >= last /\ (100 * last - k) \div 100 <= last
                       /\ (100 * last + k) \div 100 \in Int /\ (100 * last - k) \div 100 \in Int
    BY <1>1
  <2> QED BY <2>1, <2>2, <2>3 DEF AdverseEntry
<1>5. CASE ticket.type = "market"
  BY <1>1, <1>3, <1>4, <1>5 DEF EntryForRisk, Fills
<1>6. CASE ticket.type = "limit"
  <2>1. RoundNearest(ticket.price, contract.priceUnit) \in Int
    <3>1. ticket.price \in Int
      BY <1>1
    <3> QED BY <1>1, <1>2, <3>1
  <2> QED BY <1>1, <1>3, <1>6, <2>1 DEF EntryForRisk, Fills
<1> QED BY <1>1, <1>5, <1>6

\* What an order without an error of the gate has.
LEMMA GatePasses ==
  ASSUME GateRead, ValidateOrder(ticket, TRUE) = {}, ticket.stop > 0 \/ ~settings.allowUnprotected
  PROVE  /\ ExistingKnown(ticket.side) /\ RoundedVol(ticket) > 0 /\ ticket.stop > 0
         /\ StopBeyond(ticket, Stop(ticket)) /\ funds.equity > 0
         /\ StopRisk(RoundedVol(ticket), EntryForRisk(ticket), Stop(ticket)) + 100 * ExistingRisk(ticket.side)
              <= funds.equity * settings.maxRisk
<1>1. ExistingKnown(ticket.side)
  BY DEF ValidateOrder
<1>2. VolumeErrors(ticket) = {} /\ StopErrors(ticket) = {} /\ RiskErrors(ticket) = {}
  BY <1>1 DEF ValidateOrder
<1>3. RoundedVol(ticket) > 0
  <2>1. ~(RoundedVol(ticket) < contract.minVol \/ RoundedVol(ticket) <= 0)
    BY <1>2 DEF VolumeErrors
  <2> QED BY <2>1, TicketRounded
<1>4. ticket.stop > 0
  <2>1. ~(ticket.stop <= 0 /\ ~settings.allowUnprotected)
    BY <1>2 DEF StopErrors
  <2> QED BY <2>1 DEF GateRead
<1>5. StopBeyond(ticket, Stop(ticket))
  BY <1>2, <1>4 DEF StopErrors
<1>6. funds.equity \in Int /\ settings.maxRisk \in Nat /\ settings.riskSlip \in Nat /\ contract.size \in Nat
  BY GateAssumption DEF GateRead
<1>7. funds.equity > 0
  BY <1>2, <1>6 DEF RiskErrors
<1>8. ~(StopRisk(RoundedVol(ticket), EntryForRisk(ticket), Stop(ticket)) + 100 * ExistingRisk(ticket.side)
              > funds.equity * settings.maxRisk)
  BY <1>2, <1>3, <1>4, <1>7, <1>6 DEF RiskErrors
<1>9. /\ StopRisk(RoundedVol(ticket), EntryForRisk(ticket), Stop(ticket)) \in Int
      /\ ExistingRisk(ticket.side) \in Int /\ funds.equity * settings.maxRisk \in Int
  <2>1. ExistingRisk(ticket.side) \in Int
    BY <1>1, OpenWithin DEF GateRead
  <2>2. StopRisk(RoundedVol(ticket), EntryForRisk(ticket), Stop(ticket)) \in Int
    BY <1>6, TicketRounded DEF StopRisk, Abs
  <2> QED BY <1>6, <2>1, <2>2
<1> QED BY <1>1, <1>3, <1>4, <1>5, <1>7, <1>8, <1>9

\* So it risks no more than the budget.
LEMMA GateHolds ==
  ASSUME GateRead, ValidateOrder(ticket, TRUE) = {}, ticket.stop > 0 \/ ~settings.allowUnprotected
  PROVE  WithinBudget
<1> SUFFICES ASSUME NEW paid \in Fills(ticket)
    PROVE  100 * (RoundedVol(ticket) * contract.size * LossFrom(ticket, paid) + OpenLoss(ticket.side))
             <= funds.equity * settings.maxRisk
  BY DEF WithinBudget
<1>1. PICK v \in Nat, z \in Nat, r \in Nat, open \in Nat, risk \in Nat, budget \in Int,
           e \in Int, s \in Int, f \in Int :
        /\ v = RoundedVol(ticket) /\ z = contract.size /\ r = settings.riskSlip
        /\ open = OpenLoss(ticket.side) /\ risk = ExistingRisk(ticket.side) /\ open <= risk
        /\ budget = funds.equity * settings.maxRisk
        /\ e = EntryForRisk(ticket) /\ s = Stop(ticket) /\ f = paid
  <2>1. OpenLoss(ticket.side) \in Nat /\ ExistingRisk(ticket.side) \in Nat
        /\ OpenLoss(ticket.side) <= ExistingRisk(ticket.side)
    BY GatePasses, OpenWithin DEF GateRead
  <2>2. contract.size \in Nat /\ settings.riskSlip \in Nat /\ funds.equity * settings.maxRisk \in Int
    BY GateAssumption DEF GateRead
  <2> QED BY <2>1, <2>2, TicketRounded
<1>2. PICK d \in Nat, l \in Nat : d = Abs(e - s) /\ l = LossFrom(ticket, paid) /\ l <= d
  <2>1. ticket.side \in {"long", "short"}
    BY DEF GateRead, Sides
  <2>2. IF ticket.side = "long" THEN f <= e /\ s < e ELSE f >= e /\ s > e
    BY <1>1, GatePasses, TicketRounded DEF StopBeyond
  <2>3. LossFrom(ticket, paid) =
          LET x == IF ticket.side = "long" THEN f - s ELSE s - f IN IF 0 >= x THEN 0 ELSE x
    <3>1. PICK x \in Int : x = IF ticket.side = "long" THEN f - s ELSE s - f
      <4>1. (IF ticket.side = "long" THEN f - s ELSE s - f) \in Int
        OBVIOUS
      <4> QED BY <4>1
    <3>2. Max({0, x}) = IF 0 >= x THEN 0 ELSE x
      <4>1. 0 \in Int
        OBVIOUS
      <4> QED BY <4>1, Extremes
    <3>3. LossFrom(ticket, paid) = Max({0, x})
      BY <1>1, <3>1 DEF LossFrom
    <3> QED BY <3>1, <3>2, <3>3
  <2> QED BY <1>1, <2>1, <2>2, <2>3 DEF Abs
<1>3. v * z * d * (100 + r) + 100 * risk <= budget
  BY <1>1, <1>2, GatePasses DEF StopRisk
<1>4. 100 * (v * z * l) <= v * z * d * (100 + r) /\ v * z * l \in Nat /\ v * z * d * (100 + r) \in Nat
  <2>1. PICK a \in Nat : a = v * z
    OBVIOUS
  <2>2. PICK b \in Nat : b = a * d
    OBVIOUS
  <2>3. a * l \in Nat /\ a * l <= b
    <3>1. PICK k \in Nat : d = l + k
      <4>1. d - l \in Nat /\ d = l + (d - l)
        BY <1>2
      <4> QED BY <4>1
    <3>2. a * d = a * l + a * k /\ a * k \in Nat /\ a * l \in Nat
      BY <3>1
    <3> QED BY <2>2, <3>2
  <2>4. b * (100 + r) = 100 * b + b * r /\ b * r \in Nat
    OBVIOUS
  <2> QED BY <2>1, <2>2, <2>3, <2>4
<1>5. 100 * (v * z * l + open) <= budget
  BY <1>1, <1>3, <1>4
<1> QED BY <1>1, <1>2, <1>5

\* Products of positive numbers.
LEMMA Products == \A x \in Nat \ {0}, y \in Nat \ {0} : x * y \in Nat \ {0}
  OBVIOUS

\* A suggestion is a volume.
LEMMA SuggestionTyped ==
  ASSUME GateRead, ~SuggestRefused(ticket)
  PROVE  SuggestVol(ticket) \in Nat
<1> DEFINE entry == SuggestEntry(ticket)
           budget == funds.equity * RiskPct(ticket) - 100 * ExistingRisk(ticket.side)
           perUnit == contract.size * contract.volUnit
           a == budget \div (perUnit * Abs(entry - ticket.stop) * (100 + settings.riskSlip))
           b == (funds.available * ticket.lev) \div (perUnit * entry)
           c == contract.maxVol \div contract.volUnit
           d == (funds.equity * settings.maxNotional) \div (100 * perUnit * entry)
           caps == {a, b, c} \cup (IF settings.maxNotional = 0 THEN {} ELSE {d})
           vol == Min(caps) * contract.volUnit
           beyond == (IF ticket.side = "long" THEN ticket.stop >= entry ELSE ticket.stop <= entry)
                     \/ budget <= 0 \/ funds.available <= 0
<1>1. SuggestVol(ticket) = IF beyond THEN 0 ELSE IF vol < contract.minVol THEN 0 ELSE vol
  BY DEF SuggestVol
<1>2. ASSUME ~beyond PROVE a \in Int /\ b \in Int /\ c \in Int /\ d \in Int
  <2>1. /\ contract.size \in Nat \ {0} /\ contract.volUnit \in Nat \ {0} /\ contract.maxVol \in Nat
        /\ settings.riskSlip \in Nat /\ settings.maxNotional \in Nat /\ settings.maxRisk \in Nat
        /\ ticket.lev \in Nat /\ ticket.stop \in Nat /\ ticket.riskPct \in Nat
        /\ funds.equity \in Int /\ funds.available \in Int
    BY GateAssumption DEF GateRead, SuggestRefused
  <2>2. entry \in Nat \ {0} /\ Abs(entry - ticket.stop) \in Nat \ {0}
    <3>1. entry \in Nat \ {0}
      <4>1. CASE ticket.type = "market"
        <5>1. PICK p \in Nat \ {0}, s \in 0..99 : last = 100 * p /\ s = settings.entrySlip
          BY GateAssumption DEF GateRead
        <5>2. AdverseEntry(last, ticket.side) = IF ticket.side = "long" THEN p * (100 + s) ELSE p * (100 - s)
          <6>1. PICK k \in Nat : k = p * (100 + s)
            BY <5>1
          <6>2. PICK m \in Nat : m = p * (100 - s)
            BY <5>1
          <6>3. (100 * p) * (100 + s) = 100 * k /\ (100 * p) * (100 - s) = 100 * m
            <7>1. \A x \in Nat : (100 * p) * x = 100 * (p * x)
              BY <5>1
            <7>2. 100 + s \in Nat /\ 100 - s \in Nat
              BY <5>1
            <7> QED BY <6>1, <6>2, <7>1, <7>2
          <6>4. (100 * k) \div 100 = k /\ (100 * m) \div 100 = m
            OBVIOUS
          <6> QED BY <5>1, <6>1, <6>2, <6>3, <6>4 DEF AdverseEntry
        <5>3. p * (100 + s) \in Nat \ {0} /\ p * (100 - s) \in Nat \ {0}
          <6>1. 100 + s \in Nat \ {0} /\ 100 - s \in Nat \ {0}
            BY <5>1
          <6> QED BY <5>1, <6>1, Products
        <5> QED BY <4>1, <5>2, <5>3 DEF SuggestEntry
      <4>2. CASE ticket.type = "limit"
        BY <4>2 DEF SuggestEntry, GateRead
      <4> QED BY <4>1, <4>2 DEF GateRead
    <3> HIDE DEF entry
    <3> QED BY <1>2, <2>1, <3>1 DEF Abs
  <2>3. budget \in Int
    <3>1. RiskPct(ticket) \in Int
      <4>1. Min({ticket.riskPct, settings.maxRisk}) \in Int
        <5>1. PICK x \in Int, y \in Int : x = ticket.riskPct /\ y = settings.maxRisk
          BY <2>1
        <5>2. Min({x, y}) \in Int
          BY Extremes
        <5> QED BY <5>1, <5>2
      <4> QED BY <2>1, <4>1 DEF RiskPct
    <3>2. ExistingRisk(ticket.side) \in Nat
      BY OpenWithin DEF GateRead, SuggestRefused
    <3> HIDE DEF entry
    <3> QED BY <2>1, <3>1, <3>2
  <2>4. perUnit \in Nat \ {0}
    BY <2>1, Products
  <2> HIDE DEF entry, budget, perUnit, beyond
  <2>5. /\ perUnit * Abs(entry - ticket.stop) * (100 + settings.riskSlip) \in Nat \ {0}
        /\ perUnit * entry \in Nat \ {0} /\ 100 * perUnit * entry \in Nat \ {0}
    <3>1. perUnit * Abs(entry - ticket.stop) \in Nat \ {0} /\ 100 + settings.riskSlip \in Nat \ {0}
          /\ perUnit * entry \in Nat \ {0} /\ 100 * perUnit \in Nat \ {0}
      BY <2>1, <2>2, <2>4, Products
    <3> QED BY <2>2, <3>1, Products
  <2>6. (funds.available * ticket.lev) \in Int /\ funds.equity * settings.maxNotional \in Int
    BY <2>1
  <2>7. \A x \in Int, y \in Nat \ {0} : x \div y \in Int
    OBVIOUS
  <2> QED BY <2>1, <2>3, <2>5, <2>6, <2>7
<1>3. ASSUME ~beyond PROVE Min(caps) \in Int
  <2> HIDE DEF a, b, c, d, beyond
  <2>1. \E x \in caps : \A y \in caps : x <= y
    <3>1. \E x \in {a, b, c} : \A y \in {a, b, c} : x <= y
      BY <1>2, <1>3
    <3>2. PICK x \in {a, b, c} : \A y \in {a, b, c} : x <= y
      BY <3>1
    <3>3. CASE settings.maxNotional = 0
      BY <3>2, <3>3
    <3>4. CASE settings.maxNotional # 0 /\ x <= d
      BY <3>2, <3>4
    <3>5. CASE settings.maxNotional # 0 /\ d <= x
      BY <1>2, <1>3, <3>2, <3>5
    <3> QED BY <1>2, <1>3, <3>3, <3>4, <3>5
  <2>2. Min(caps) \in caps
    BY <2>1 DEF Min
  <2> QED BY <1>2, <1>3, <2>2
<1>4. contract.volUnit \in Nat /\ contract.minVol \in Nat
  BY GateAssumption DEF GateRead
<1> HIDE DEF caps, beyond
<1> QED BY <1>1, <1>3, <1>4

\* A sent order passed the gate on what Confirm read, and the types.
GateInv == GateRead /\ GateTypeOK /\ SentWithinBudget

\* Nothing has been sent.
LEMMA GateInvInit == GateInit => GateInv
<1> SUFFICES ASSUME GateInit PROVE GateInv
  OBVIOUS
<1>1. ticket \in Tickets /\ ticket.vol = 0
  BY GateAssumption DEF GateInit
<1>2. [ticket EXCEPT !.vol = 0] = ticket
  BY <1>1, GateAssumption
<1>3. \A p \in Prices : 100 * p \in Nat
  BY GateAssumption
<1>4. GateRead
  BY <1>1, GateAssumption DEF GateInit, GateRead, Sides
<1>5. GateTypeOK
  BY <1>1, <1>2, <1>3 DEF GateInit, GateTypeOK
<1>6. SentWithinBudget
  BY DEF GateInit, SentWithinBudget
<1> QED BY <1>4, <1>5, <1>6 DEF GateInv

\* A volume put into the ticket.
LEMMA VolumeTyped ==
  ASSUME GateRead, GateTypeOK, NEW v \in Nat, ticket' = [ticket EXCEPT !.vol = v],
         UNCHANGED <<settings, contract, funds, last, previewLast>>,
         stage' \in {"suggested", "typed"}
  PROVE  GateInv'
<1>1. [ticket' EXCEPT !.vol = 0] = [ticket EXCEPT !.vol = 0] /\ ticket'.vol = v
  BY DEF GateRead
<1>2. GateRead'
  BY DEF GateRead
<1>3. GateTypeOK'
  BY <1>1 DEF GateTypeOK
<1>4. SentWithinBudget'
  BY DEF SentWithinBudget
<1> QED BY <1>2, <1>3, <1>4 DEF GateInv

\* Nothing that was sent changes.
LEMMA BudgetUnchanged ==
  ASSUME UNCHANGED <<settings, ticket, contract, funds, last>>
  PROVE  WithinBudget' <=> WithinBudget
  BY DEF WithinBudget, Fills, AdverseEntry, RoundNearest, RoundDown, RoundUp, RoundedVol, RoundTrigger,
         Stop, LossFrom, OpenLoss, SameSide, LossWhen, MapThenSumSet, MapThenFoldSet

\* A step of the ticket: only Confirm sends, and only what passed its gate.
LEMMA GateStep == GateInv /\ [GateNext]_gateVars => GateInv'
<1> SUFFICES ASSUME GateInv, [GateNext]_gateVars PROVE GateInv'
  OBVIOUS
<1>0. GateRead /\ GateTypeOK /\ SentWithinBudget
  BY DEF GateInv
<1>1. CASE Suggest
  BY <1>0, <1>1, SuggestionTyped, VolumeTyped DEF Suggest
<1>2. CASE TypeVolume
  BY <1>0, <1>2, VolumeTyped, GateAssumption DEF TypeVolume
<1>3. CASE Preview
  <2>1. GateRead' /\ GateTypeOK'
    BY <1>0, <1>3 DEF Preview, GateRead, GateTypeOK
  <2> QED BY <1>3, <2>1 DEF Preview, GateInv, SentWithinBudget
<1>4. CASE MarketMoves
  <2>1. \A p \in Prices : 100 * p \in Nat
    BY GateAssumption
  <2>2. GateRead' /\ GateTypeOK'
    BY <1>0, <1>4, <2>1 DEF MarketMoves, GateRead, GateTypeOK
  <2> QED BY <1>4, <2>2 DEF MarketMoves, GateInv, SentWithinBudget
<1>5. CASE Confirm
  <2>1. GateRead' /\ GateTypeOK'
    BY <1>0, <1>5 DEF Confirm, GateRead, GateTypeOK
  <2>2. SentWithinBudget'
    <3> SUFFICES ASSUME stage' = "sent", (ticket.stop > 0 \/ ~settings.allowUnprotected)'
                 PROVE  WithinBudget'
      BY DEF SentWithinBudget, WithinBudget
    <3>1. ValidateOrder(ticket, TRUE) = {}
      BY <1>5 DEF Confirm
    <3>2. ticket.stop > 0 \/ ~settings.allowUnprotected
      BY <1>5 DEF Confirm
    <3>3. WithinBudget
      BY <1>0, <3>1, <3>2, GateHolds
    <3> QED BY <1>5, <3>3, BudgetUnchanged DEF Confirm
  <2> QED BY <2>1, <2>2 DEF GateInv
<1>6. CASE UNCHANGED gateVars
  <2>1. GateRead' /\ GateTypeOK'
    BY <1>0, <1>6 DEF gateVars, GateRead, GateTypeOK
  <2>2. WithinBudget' <=> WithinBudget
    BY <1>6, BudgetUnchanged DEF gateVars
  <2> QED BY <1>0, <1>6, <2>1, <2>2 DEF gateVars, GateInv, SentWithinBudget, WithinBudget
<1> QED BY <1>1, <1>2, <1>3, <1>4, <1>5, <1>6 DEF GateNext

\* The ticket, the account and the prices keep their types, a suggested volume
\* included, for any configuration, metadata, account and ticket.
THEOREM GateTyped == GateSpec => []GateTypeOK
<1>1. GateInv => GateTypeOK
  BY DEF GateInv
<1> QED BY <1>1, GateInvInit, GateStep, PTL DEF GateSpec

\* No order sent with a stop risks more than MAX_RISK_PCT together with what is open
\* on its side, for any configuration, metadata, account, prices and tickets.
THEOREM BudgetOfSent == GateSpec => []SentWithinBudget
<1>1. GateInv => SentWithinBudget
  BY DEF GateInv
<1> QED BY <1>1, GateInvInit, GateStep, PTL DEF GateSpec

=============================================================================
