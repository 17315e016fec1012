----------------------------- MODULE AccountCache -----------------------------
(***************************************************************************)
(* The account reads of hyperliquid/client.py: a cache of the account's    *)
(* state and one of its fills, filled by worker threads. Display reads may *)
(* be served from a cache, fetch one at a time and ride out a failed fetch *)
(* of the state with what they found cached. Reads that decide about money *)
(* (fresh) always ask the exchange, and for the state do not wait for a    *)
(* display read. An acknowledged order moves the account to a new epoch    *)
(* and empties both caches; a fetch stores its result only if the epoch,   *)
(* and for the state the sequence number, are still its own.               *)
(*                                                                         *)
(* The account is a version number. Time is left out: a cached value may   *)
(* be too old at any look, and too old to ride out a failure.              *)
(***************************************************************************)
EXTENDS Integers

CONSTANTS
  Threads,     \* worker threads that read the account
  MaxVersion,  \* bound: changes of the account
  MaxReads,    \* bound: fetches (_user_state_fetch_seq)
  Idle         \* free fetch lock

ASSUME CacheBounds == MaxVersion \in Nat /\ MaxReads \in Nat /\ Idle \notin Threads

Caches == {"state", "fills"}
\* _user_state_cache_epoch and the version outlive the cached value.
Cached == [full : BOOLEAN, ver : Nat, epoch : Nat]
Reads == [at : {"idle", "look", "wait", "number", "ask", "store", "done"}, of : Caches,
          fresh : BOOLEAN, copy : Cached, epoch : Nat, seq : Nat, got : Nat, floor : Nat]

VARIABLES
  ver,      \* the account at the exchange
  sent,     \* an order of ours executed and not yet answered: its version, or 0
  epoch,    \* _account_cache_epoch
  seq,      \* _user_state_fetch_seq
  cache,    \* cache[k]: the two caches
  fetching, \* fetching[k]: thread holding the fetch lock
  read,     \* read[t]: the read thread t serves
  acked     \* history: version of the last acknowledged order

cacheVars == <<ver, sent, epoch, seq, cache, fetching, read, acked>>

Empty == [full |-> FALSE, ver |-> 0, epoch |-> 0]
NoRead == [at |-> "idle", of |-> "state", fresh |-> FALSE, copy |-> Empty, epoch |-> 0,
           seq |-> 0, got |-> 0, floor |-> 0]

CacheTypeOK ==
  /\ ver \in Nat /\ sent \in Nat /\ epoch \in Nat /\ seq \in Nat /\ acked \in Nat
  /\ cache \in [Caches -> Cached] /\ fetching \in [Caches -> Threads \cup {Idle}]
  /\ read \in [Threads -> Reads]

CacheInit ==
  /\ ver = 0 /\ sent = 0 /\ epoch = 0 /\ seq = 0 /\ cache = [k \in Caches |-> Empty]
  /\ fetching = [k \in Caches |-> Idle] /\ read = [t \in Threads |-> NoRead] /\ acked = 0

-----------------------------------------------------------------------------
(* A read *)

\* Read t moves to step `step` with the result r; the fetch lock is let go.
Ends(t, v) ==
  /\ read' = [read EXCEPT ![t].at = "done", ![t].got = v]
  /\ fetching' = [k \in Caches |-> IF fetching[k] = t THEN Idle ELSE fetching[k]]

\* A fresh read of the state takes its epoch and number at once.
StartFresh(t) ==
  /\ read[t].at = "idle" /\ seq < MaxReads /\ seq' = seq + 1
  /\ read' = [read EXCEPT ![t] = [NoRead EXCEPT !.at = "ask", !.fresh = TRUE, !.epoch = epoch,
                                               !.seq = seq + 1, !.floor = ver]]
  /\ UNCHANGED <<ver, sent, epoch, cache, fetching, acked>>

\* A display read, or a fresh read of the fills, looks at the cache first.
StartRead(t, k, fresh) ==
  /\ read[t].at = "idle" /\ (fresh => k = "fills")
  /\ read' = [read EXCEPT ![t] = [NoRead EXCEPT !.at = "look", !.of = k, !.fresh = fresh,
                                               !.floor = IF fresh THEN ver ELSE acked]]
  /\ UNCHANGED <<ver, sent, epoch, seq, cache, fetching, acked>>

\* The cached value of this epoch may be served.
Usable(c) == c.full /\ c.epoch = epoch

Hit(t) ==
  /\ read[t].at = "look" /\ ~read[t].fresh /\ Usable(cache[read[t].of])
  /\ Ends(t, cache[read[t].of].ver)
  /\ UNCHANGED <<ver, sent, epoch, seq, cache, acked>>

Miss(t) ==
  /\ read[t].at = "look" /\ read' = [read EXCEPT ![t].at = "wait"]
  /\ UNCHANGED <<ver, sent, epoch, seq, cache, fetching, acked>>

\* Under the fetch lock the cache is looked at again.
HitAfterWait(t) ==
  /\ read[t].at = "wait" /\ fetching[read[t].of] = Idle
  /\ ~read[t].fresh /\ Usable(cache[read[t].of]) /\ Ends(t, cache[read[t].of].ver)
  /\ UNCHANGED <<ver, sent, epoch, seq, cache, acked>>

TakeFetchLock(t) ==
  /\ read[t].at = "wait" /\ fetching[read[t].of] = Idle
  /\ fetching' = [fetching EXCEPT ![read[t].of] = t]
  /\ read' = [read EXCEPT ![t].copy = cache[read[t].of], ![t].epoch = epoch,
                          ![t].at = IF read[t].of = "state" THEN "number" ELSE "ask"]
  /\ UNCHANGED <<ver, sent, epoch, seq, cache, acked>>

TakeNumber(t) ==
  /\ read[t].at = "number" /\ seq < MaxReads /\ seq' = seq + 1
  /\ read' = [read EXCEPT ![t].at = "ask", ![t].seq = seq + 1]
  /\ UNCHANGED <<ver, sent, epoch, cache, fetching, acked>>

\* The exchange answers with the account of this moment.
Fetch(t) ==
  /\ read[t].at = "ask" /\ read' = [read EXCEPT ![t].at = "store", ![t].got = ver]
  /\ UNCHANGED <<ver, sent, epoch, seq, cache, fetching, acked>>

\* A display read of the state serves its copy if its epoch still is current.
RideOut(t) ==
  /\ read[t].at = "ask" /\ read[t].of = "state" /\ ~read[t].fresh
  /\ read[t].epoch = epoch /\ Usable(read[t].copy) /\ Ends(t, read[t].copy.ver)
  /\ UNCHANGED <<ver, sent, epoch, seq, cache, acked>>

FetchFails(t) ==
  /\ read[t].at = "ask" /\ read' = [read EXCEPT ![t] = NoRead]
  /\ fetching' = [k \in Caches |-> IF fetching[k] = t THEN Idle ELSE fetching[k]]
  /\ UNCHANGED <<ver, sent, epoch, seq, cache, acked>>

StoreIn(t) ==
  cache' = [cache EXCEPT ![read[t].of] = [full |-> TRUE, ver |-> read[t].got, epoch |-> epoch]]

\* Faulty variant: an older fetch that ends late is stored too.
StoreLate(t) ==
  /\ read[t].at = "store" /\ Ends(t, read[t].got)
  /\ IF read[t].epoch = epoch THEN StoreIn(t) ELSE UNCHANGED cache
  /\ UNCHANGED <<ver, sent, epoch, seq, acked>>

Store(t) ==
  /\ read[t].at = "store" /\ Ends(t, read[t].got)
  /\ IF read[t].epoch = epoch /\ (read[t].of = "state" => read[t].seq = seq)
     THEN StoreIn(t) ELSE UNCHANGED cache
  /\ UNCHANGED <<ver, sent, epoch, seq, acked>>

Return(t) ==
  /\ read[t].at = "done" /\ read' = [read EXCEPT ![t] = NoRead]
  /\ UNCHANGED <<ver, sent, epoch, seq, cache, fetching, acked>>

-----------------------------------------------------------------------------
(* The account *)

OthersMove ==
  /\ ver < MaxVersion /\ ver' = ver + 1
  /\ UNCHANGED <<sent, epoch, seq, cache, fetching, read, acked>>

\* An order, cancel or close of ours takes effect (one at a time, trade lock).
OrderExecutes ==
  /\ sent = 0 /\ ver < MaxVersion /\ ver' = ver + 1 /\ sent' = ver + 1
  /\ UNCHANGED <<epoch, seq, cache, fetching, read, acked>>

\* Faulty variant: the caches are emptied within the same epoch.
InvalidateInEpoch ==
  /\ sent # 0 /\ sent' = 0 /\ acked' = sent
  /\ cache' = [k \in Caches |-> [cache[k] EXCEPT !.full = FALSE]]
  /\ UNCHANGED <<ver, epoch, seq, fetching, read>>

\* The order is acknowledged: _invalidate_user_state_cache.
Acknowledged ==
  /\ sent # 0 /\ sent' = 0 /\ acked' = sent /\ epoch' = epoch + 1
  /\ cache' = [k \in Caches |-> [cache[k] EXCEPT !.full = FALSE]]
  /\ UNCHANGED <<ver, seq, fetching, read>>

\* Its answer is an error or lost: the caches stay as they are.
Unacknowledged ==
  /\ sent # 0 /\ sent' = 0 /\ UNCHANGED <<ver, epoch, seq, cache, fetching, read, acked>>

-----------------------------------------------------------------------------
ReadStep(t) ==
  \/ StartFresh(t) \/ Hit(t) \/ Miss(t) \/ HitAfterWait(t) \/ TakeFetchLock(t) \/ TakeNumber(t)
  \/ Fetch(t) \/ RideOut(t) \/ FetchFails(t) \/ Store(t) \/ Return(t)
  \/ \E k \in Caches, fresh \in BOOLEAN : StartRead(t, k, fresh)

CacheNext ==
  \/ \E t \in Threads : ReadStep(t)
  \/ OthersMove \/ OrderExecutes \/ Acknowledged \/ Unacknowledged

CacheSpec == CacheInit /\ [][CacheNext]_cacheVars

-----------------------------------------------------------------------------
(* Properties *)

\* A display read shows every order acknowledged before it began, a fresh
\* read everything that happened before it began, whatever reads overlap
\* (_user_state_cached, _invalidate_user_state_cache).
ReadsSeeTrades == \A t \in Threads : read[t].at = "done" => read[t].got >= read[t].floor

\* A cache never goes back to an older account, in whatever order overlapping
\* reads end (the sequence number of _user_state_cached).
CacheNeverBack == [][\A k \in Caches : cache'[k].ver >= cache[k].ver]_cacheVars

=============================================================================
