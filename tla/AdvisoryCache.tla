----------------------------- MODULE AdvisoryCache -----------------------------
(***************************************************************************)
(* Advisory requests (main.py: analyze, reevaluate, market and, like it,   *)
(* mini) against first-run setup and the hot swaps of the AI provider and  *)
(* key. A request takes the exchange client and the cache object of its    *)
(* moment, a cache generation, and gives up with 409 when either has been  *)
(* replaced before it answers. Requests for one key run one at a time      *)
(* behind a counted lock entry. Setup replaces the client under the trade  *)
(* lock the money actions take and closes the old one afterwards. A step   *)
(* is the code between two awaits. An entry's age (15 to 120 s) is left    *)
(* out: a stored result may be found too old at any lookup.                *)
(***************************************************************************)
EXTENDS Naturals, FiniteSets

CONSTANTS
  Analyses,       \* requests for an analysis
  Forced,         \* those of them that ask for a fresh one
  Reevaluations,  \* requests to judge an open position
  Snapshots,      \* requests for a market snapshot
  Savers,         \* submissions of the setup form; each builds client Savers
  Actions,        \* money actions
  Providers,      \* AI providers
  FirstClient,    \* the client of the start
  MaxSwaps,       \* bound on cache generations
  Nothing         \* no entry, no result

AdvisoryRequests == Analyses \cup Reevaluations \cup Snapshots
Clients == Savers \cup {FirstClient}
Contexts == [client : Clients, gen : 0..MaxSwaps, provider : Providers]

ASSUME AdvisoryAssumption ==
  /\ FirstClient \notin Savers /\ MaxSwaps \in Nat
  /\ Nothing \notin AdvisoryRequests /\ Nothing \notin Contexts

VARIABLES
  now,      \* active client, generation of the analysis cache, provider
  phase,    \* phase[r]: step of a request
  ctx,      \* ctx[r]: what was active when r began
  advice,   \* advice[r]: the context its answer was computed in
  entries,  \* entries[k]: the lock entry of key k, named by who created it
  entry,    \* entry[r]: the entry r waits for or holds
  stored,   \* stored[c]: the result cached in cell c
  open,     \* setup may still be saved
  saver,    \* saver[w]: step of a submission
  old,      \* old[w]: the client w replaced
  closedClients,  \* clients that were closed
  act,      \* act[m]: step of a money action
  uses      \* uses[m]: the client its service was made with

requestVars == <<phase, ctx, advice, entries, entry, stored>>
setupVars == <<open, saver, old, closedClients>>
actVars == <<act, uses>>
advisoryVars == <<now, requestVars, setupVars, actVars>>

Keys == Providers \cup {"snapshot"}
Cells == ({"snapshot"} \X Clients) \cup ({"analysis"} \X (0..MaxSwaps))
Running == {"fetch", "ask", "journal"}

AdvisoryTypeOK ==
  /\ now \in Contexts /\ ctx \in [AdvisoryRequests -> Contexts]
  /\ phase \in [AdvisoryRequests -> Running \cup {"idle", "wait", "done"}]
  /\ advice \in [AdvisoryRequests -> Contexts \cup {Nothing}]
  /\ entries \in [Keys -> AdvisoryRequests \cup {Nothing}]
  /\ entry \in [AdvisoryRequests -> AdvisoryRequests \cup {Nothing}]
  /\ stored \in [Cells -> Contexts \cup {Nothing}]
  /\ open \in BOOLEAN /\ closedClients \subseteq Clients
  /\ saver \in [Savers -> {"idle", "ready", "installed", "done", "lost"}]
  /\ old \in [Savers -> Clients]
  /\ act \in [Actions -> {"idle", "queued", "inside", "done"}]
  /\ uses \in [Actions -> Clients]

\* Any of them may never come.
AdvisoryInit ==
  /\ now \in {c \in Contexts : c.client = FirstClient /\ c.gen = 0}
  /\ phase \in [AdvisoryRequests -> {"idle", "done"}] /\ ctx = [r \in AdvisoryRequests |-> now]
  /\ advice = [r \in AdvisoryRequests |-> Nothing] /\ entry = [r \in AdvisoryRequests |-> Nothing]
  /\ entries = [k \in Keys |-> Nothing] /\ stored = [c \in Cells |-> Nothing]
  /\ open = TRUE /\ closedClients = {} /\ saver \in [Savers -> {"idle", "lost"}]
  /\ old = [w \in Savers |-> FirstClient]
  /\ act \in [Actions -> {"idle", "done"}] /\ uses = [m \in Actions |-> FirstClient]

-----------------------------------------------------------------------------
(* Requests *)

Cell(r, c) == IF r \in Snapshots THEN <<"snapshot", c.client>> ELSE <<"analysis", c.gen>>
Key(r, c) == IF r \in Snapshots THEN "snapshot" ELSE c.provider
Shared(r) == r \notin Forced \cup Reevaluations

\* _reject_changed_exchange, _reject_changed_advisory_context
Stale(r) ==
  \/ now.client # ctx[r].client
  \/ r \notin Snapshots /\ now.gen # ctx[r].gen

\* Faulty variant: the last holder drops the entry, whoever still waits for it.
DropsAlways(r) == entry[r] # Nothing /\ entries[Key(r, ctx[r])] = entry[r]

\* _keyed_singleflight_lock, on leaving: the count reached zero.
Drops(r) ==
  /\ entry[r] # Nothing /\ entries[Key(r, ctx[r])] = entry[r]
  /\ \A q \in AdvisoryRequests \ {r} : entry[q] # entry[r]

EndsWith(r, answer) ==
  /\ phase' = [phase EXCEPT ![r] = "done"] /\ advice' = [advice EXCEPT ![r] = answer]
  /\ entry' = [entry EXCEPT ![r] = Nothing]
  /\ entries' = IF Drops(r) THEN [entries EXCEPT ![Key(r, ctx[r])] = Nothing] ELSE entries

GoesTo(r, step) ==
  /\ phase' = [phase EXCEPT ![r] = step] /\ UNCHANGED <<advice, entry, entries>>

\* A request begins: an answer from the cache, a run of its own when forced,
\* or its place at the key's lock.
BeginAdvisory(r) ==
  /\ phase[r] = "idle" /\ ctx' = [ctx EXCEPT ![r] = now]
  /\ LET k == Key(r, now) IN
     \/ /\ Shared(r) /\ stored[Cell(r, now)] # Nothing
        /\ phase' = [phase EXCEPT ![r] = "done"]
        /\ advice' = [advice EXCEPT ![r] = stored[Cell(r, now)]]
        /\ UNCHANGED <<entry, entries>>
     \/ /\ Shared(r) /\ phase' = [phase EXCEPT ![r] = "wait"]
        /\ LET e == IF entries[k] = Nothing THEN r ELSE entries[k] IN
             entry' = [entry EXCEPT ![r] = e] /\ entries' = [entries EXCEPT ![k] = e]
        /\ UNCHANGED advice
     \/ ~Shared(r) /\ GoesTo(r, "fetch")
  /\ UNCHANGED <<now, stored, setupVars, actVars>>

Granted(r) ==
  /\ phase[r] = "wait" /\ \A q \in AdvisoryRequests \ {r} : entry[q] = entry[r] => phase[q] \notin Running

\* Faulty variant: the lock is taken and the cache read, nothing looked at.
EnterUnchecked(r) ==
  /\ Granted(r)
  /\ \/ stored[Cell(r, ctx[r])] # Nothing /\ EndsWith(r, stored[Cell(r, ctx[r])])
     \/ GoesTo(r, "fetch")
  /\ UNCHANGED <<now, ctx, stored, setupVars, actVars>>

\* The lock is ours: stale, answered by whoever ran before, or our own run.
Enter(r) ==
  /\ Granted(r)
  /\ \/ Stale(r) /\ EndsWith(r, Nothing)
     \/ ~Stale(r) /\ stored[Cell(r, ctx[r])] # Nothing /\ EndsWith(r, stored[Cell(r, ctx[r])])
     \/ ~Stale(r) /\ GoesTo(r, "fetch")
  /\ UNCHANGED <<now, ctx, stored, setupVars, actVars>>

\* An await of a run ends: the market data, the AI's answer, the journal row.
ContinueAnalysis(r) ==
  /\ phase[r] \in Running /\ ~Stale(r) /\ r \in Analyses
  /\ \/ phase[r] = "fetch" /\ GoesTo(r, "ask") /\ UNCHANGED stored
     \/ phase[r] = "ask" /\ GoesTo(r, "journal") /\ UNCHANGED stored
     \/ /\ phase[r] = "journal" /\ EndsWith(r, ctx[r])
        /\ stored' = [stored EXCEPT ![Cell(r, ctx[r])] = ctx[r]]
  /\ UNCHANGED <<now, ctx, setupVars, actVars>>

\* reevaluate stores nothing.
ContinueReevaluation(r) ==
  /\ phase[r] \in Running /\ ~Stale(r) /\ r \in Reevaluations
  /\ IF phase[r] = "fetch" THEN GoesTo(r, "ask") ELSE EndsWith(r, ctx[r])
  /\ UNCHANGED <<now, ctx, stored, setupVars, actVars>>

\* market, mini: the candles have arrived.
ContinueSnapshot(r) ==
  /\ phase[r] = "fetch" /\ ~Stale(r) /\ r \in Snapshots
  /\ EndsWith(r, ctx[r]) /\ stored' = [stored EXCEPT ![Cell(r, ctx[r])] = ctx[r]]
  /\ UNCHANGED <<now, ctx, setupVars, actVars>>

\* 409, 502, or the caller is gone.
GiveUp(r) ==
  /\ phase[r] \in Running \cup {"wait"} /\ EndsWith(r, Nothing)
  /\ UNCHANGED <<now, ctx, stored, setupVars, actVars>>

-----------------------------------------------------------------------------
(* llm_set, settings_llm_key, setup_save, _order_service *)

\* settings_llm_key; and llm_set when the provider changes.
SwapProvider ==
  /\ now.gen < MaxSwaps
  /\ \E p \in Providers : now' = [now EXCEPT !.gen = now.gen + 1, !.provider = p]
  /\ UNCHANGED <<requestVars, setupVars, actVars>>

\* The form is valid and its client is built.
Submit(w) ==
  /\ saver[w] = "idle" /\ open /\ saver' = [saver EXCEPT ![w] = "ready"]
  /\ UNCHANGED <<now, requestVars, open, old, closedClients, actVars>>

LockFree == \A m \in Actions : act[m] # "inside"

\* Faulty variant: the open window is not looked at again under the lock.
InstallAgain(w) ==
  /\ saver[w] = "ready" /\ LockFree /\ now.gen < MaxSwaps
  /\ open' = FALSE /\ saver' = [saver EXCEPT ![w] = "installed"]
  /\ old' = [old EXCEPT ![w] = now.client]
  /\ \E p \in Providers : now' = [client |-> w, gen |-> now.gen + 1, provider |-> p]
  /\ UNCHANGED <<requestVars, closedClients, actVars>>

\* Under the trade lock, without an await: the window is still open, .env is
\* replaced, settings, client and caches are swapped.
Install(w) ==
  /\ saver[w] = "ready" /\ LockFree /\ now.gen < MaxSwaps /\ open
  /\ open' = FALSE /\ saver' = [saver EXCEPT ![w] = "installed"]
  /\ old' = [old EXCEPT ![w] = now.client]
  /\ \E p \in Providers : now' = [client |-> w, gen |-> now.gen + 1, provider |-> p]
  /\ UNCHANGED <<requestVars, closedClients, actVars>>

\* Another save was faster, .env is locked, or the caller is gone.
Discard(w) ==
  /\ saver[w] = "ready" /\ saver' = [saver EXCEPT ![w] = "lost"]
  /\ closedClients' = closedClients \cup {w} /\ UNCHANGED <<now, requestVars, open, old, actVars>>

\* The old client is closed after the lock, shielded.
CloseOld(w) ==
  /\ saver[w] = "installed" /\ saver' = [saver EXCEPT ![w] = "done"]
  /\ closedClients' = closedClients \cup {old[w]} /\ UNCHANGED <<now, requestVars, open, old, actVars>>

Queue(m) ==
  /\ act[m] = "idle" /\ act' = [act EXCEPT ![m] = "queued"]
  /\ uses' = [uses EXCEPT ![m] = now.client]
  /\ UNCHANGED <<now, requestVars, setupVars>>

\* The lock is taken; a service whose client was replaced refuses.
TakeTradeLock(m) ==
  /\ act[m] = "queued" /\ LockFree
  /\ act' = [act EXCEPT ![m] = IF uses[m] = now.client THEN "inside" ELSE "done"]
  /\ UNCHANGED <<now, requestVars, setupVars, uses>>

LeaveTradeLock(m) ==
  /\ act[m] = "inside" /\ act' = [act EXCEPT ![m] = "done"]
  /\ UNCHANGED <<now, requestVars, setupVars, uses>>

AdvisoryNext ==
  \/ \E r \in AdvisoryRequests : \/ BeginAdvisory(r) \/ Enter(r) \/ GiveUp(r)
                        \/ ContinueAnalysis(r) \/ ContinueReevaluation(r) \/ ContinueSnapshot(r)
  \/ SwapProvider
  \/ \E w \in Savers : Submit(w) \/ Install(w) \/ Discard(w) \/ CloseOld(w)
  \/ \E m \in Actions : Queue(m) \/ TakeTradeLock(m) \/ LeaveTradeLock(m)

AdvisorySpec == AdvisoryInit /\ [][AdvisoryNext]_advisoryVars

-----------------------------------------------------------------------------
(* Properties *)

\* No answer is given out that was computed for a replaced exchange client or
\* AI configuration, from the cache or after a wait no more than from a run.
AdviceIsCurrent ==
  [][\A r \in AdvisoryRequests : advice'[r] \notin {advice[r], Nothing} =>
       /\ advice'[r].client = now'.client
       /\ r \notin Snapshots => advice'[r].gen = now'.gen]_advisoryVars

\* Two shared requests for one key never run at the same time.
OneFlight ==
  \A q, r \in AdvisoryRequests :
    (q # r /\ Shared(q) /\ Shared(r) /\ {phase[q], phase[r]} \subseteq Running) =>
      Key(q, ctx[q]) # Key(r, ctx[r])

\* One submission of the setup form is installed; the active client is never
\* closed, nor the one a money action inside the trade lock works on.
SetupOnce ==
  /\ Cardinality({w \in Savers : saver[w] \in {"installed", "done"}}) <= 1
  /\ now.client \notin closedClients
  /\ \A m \in Actions : act[m] = "inside" => uses[m] \notin closedClients

=============================================================================
