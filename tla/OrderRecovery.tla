----------------------------- MODULE OrderRecovery -----------------------------
(***************************************************************************)
(* What Confirm learns of an order whose submission failed (service.py     *)
(* confirm, MexcClient and HyperliquidClient order_by_external_oid).       *)
(*                                                                         *)
(* A definite refusal ends the entry.  After a timeout, a lost connection, *)
(* a server error or an unreadable answer the order may be live, and       *)
(* Confirm looks it up by its client id: at MEXC by a direct endpoint that *)
(* may not exist and then, in a few rounds, in the pages of the history    *)
(* and in the list of open orders; at Hyperliquid by its cloid and then in *)
(* the open orders.  Meanwhile the order arrives, fills, ends, and enters  *)
(* the history late, and other orders of the symbol push it back.  One     *)
(* action is one request.                                                  *)
(***************************************************************************)
EXTENDS Naturals

CONSTANTS
  Rounds,     \* rounds of the settle retry
  PageSize,   \* rows of a history page
  MaxPages,   \* pages a scan reads
  MaxListed   \* bound: other rows of the symbol's history

ASSUME RecoveryAssumption ==
  Rounds \in Nat \ {0} /\ PageSize \in Nat \ {0} /\ MaxPages \in Nat \ {0} /\ MaxListed \in Nat

VARIABLES
  exch,      \* exchange of the client: "mexc" or "hl"
  book,      \* the order at the exchange: where it is, how much filled, ended early
  older,     \* history rows behind the order's row
  newer,     \* history rows before it
  lookup,    \* request that is next: "send" "direct" "cloid" "history" "open"
  round,     \* round of the settle retry
  page,      \* history page that is next
  hit,       \* the scan has met the order's row
  failing,   \* what went wrong since the round began
  track,     \* history: what the order did since the last requests for it began
  verdict    \* what Confirm concludes

recoveryVars == <<exch, book, older, newer, lookup, round, page, hit, failing, track, verdict>>

Size == 2
Places == {"nowhere", "flight", "open", "lagging", "history"}
Lookups == {"send", "direct", "cloid", "history", "open"}

\* It stayed where it was; it moved; its row was read, where it is now.
Tracks == {"stayed", "moved", "read"}

\* How the exchange tells of the order: as it is; with an id, client id or symbol
\* that conflicts; with a size, side or type, or with a price, leverage or stop, that
\* was not sent; without its filled volume.
Tellings == {"plain", "conflict", "size", "price", "unsized"}

RecoveryTypeOK ==
  /\ exch \in {"mexc", "hl"}
  /\ book \in [at : Places, fill : 0..Size, dead : BOOLEAN]
  /\ older \in 0..MaxListed /\ newer \in 0..MaxListed
  /\ lookup \in Lookups
  /\ round \in 1..Rounds /\ page \in 1..MaxPages
  /\ hit \in BOOLEAN /\ track \in Tracks
  /\ failing \subseteq {"cloid", "history", "open", "answer"}
  /\ verdict \in {"pending", "accepted", "failed", "recovered", "unknown"}

RecoveryInit ==
  /\ exch \in {"mexc", "hl"}
  /\ book = [at |-> "nowhere", fill |-> 0, dead |-> FALSE]
  /\ older \in 0..MaxListed /\ newer = 0
  /\ lookup = "send" /\ round = 1 /\ page = 1
  /\ hit = FALSE /\ failing = {} /\ track = "stayed"
  /\ verdict = "pending"

Reached == book.at \in {"open", "lagging", "history"}
ZeroFill == book.dead /\ book.fill = 0

-----------------------------------------------------------------------------
(* The exchange. *)

Move(b) ==
  /\ verdict = "pending" /\ book' = b /\ track' = "moved"
  /\ UNCHANGED <<exch, older, newer, lookup, round, page, hit, failing, verdict>>

\* A request that timed out reaches the exchange late, or never.
Arrives == book.at = "flight" /\ Move([book EXCEPT !.at = "open"])

PartFills == /\ book.at = "open" /\ book.fill + 1 < Size
             /\ Move([book EXCEPT !.fill = @ + 1])

\* The order fills or is cancelled; the history shows it later.
OrderEnds == /\ book.at = "open"
        /\ \E cancelled \in BOOLEAN :
             Move([at |-> "lagging", fill |-> IF cancelled THEN book.fill ELSE Size, dead |-> cancelled])

Listed == book.at = "lagging" /\ Move([book EXCEPT !.at = "history"])

\* Another order of the symbol ends; the history is newest first.
OtherListed ==
  /\ verdict = "pending" /\ exch = "mexc" /\ older + newer < MaxListed
  /\ IF book.at = "history" THEN newer' = newer + 1 /\ UNCHANGED older
                            ELSE older' = older + 1 /\ UNCHANGED newer
  /\ UNCHANGED <<exch, book, lookup, round, page, hit, failing, track, verdict>>

Rows == newer + older + (IF book.at = "history" THEN 1 ELSE 0)

-----------------------------------------------------------------------------
(* Confirm. *)

Conclude(v, faults) ==
  /\ verdict' = v /\ failing' = failing \cup faults
  /\ UNCHANGED <<exch, older, newer, lookup, round, page, hit>>

\* The request is taken, refused for certain, or its outcome is not known.
Send ==
  /\ lookup = "send" /\ verdict = "pending" /\ UNCHANGED track
  /\ \/ /\ book' = [book EXCEPT !.at = "open"]
        /\ Conclude("accepted", {})
     \/ Conclude("failed", {}) /\ UNCHANGED book
     \/ /\ book' = [book EXCEPT !.at = "flight"]
        /\ lookup' = IF exch = "mexc" THEN "direct" ELSE "cloid"
        /\ UNCHANGED <<exch, older, newer, round, page, hit, failing, verdict>>

\* A faulty variant of ProvenDead: the cancelled state alone taken for the proof.
DeadByState(told) == book.dead

\* A cancelled order whose size does not show is not known to be without a fill.
ProvenDead(told) == book.dead /\ told # "unsized" /\ book.fill = 0

Identified(told) == told # "conflict"

\* Hyperliquid's evidence is compared by side, size and reduce-only alone.
MexcTerms(told) == told \notin {"size", "price"}
HlTerms(told) == told # "size"
TermsSent(told) == IF exch = "mexc" THEN MexcTerms(told) ELSE HlTerms(told)

\* A row of the order was read: a conflicting identity raises, a dead order and
\* terms that were not sent count as not found.
Read(told) ==
  /\ UNCHANGED book /\ track' = "read"
  /\ \/ Identified(told) /\ ~ProvenDead(told) /\ TermsSent(told) /\ Conclude("recovered", {})
     \/ Identified(told) /\ ProvenDead(told) /\ Conclude("unknown", {})
     \/ Identified(told) /\ ~ProvenDead(told) /\ ~TermsSent(told) /\ Conclude("unknown", {"answer"})
     \/ ~Identified(told) /\ Conclude("unknown", {"answer"})

AskNext(to, faults) ==
  /\ lookup' = to /\ failing' = failing \cup faults
  /\ page' = 1 /\ hit' = FALSE
  /\ UNCHANGED <<exch, book, older, newer, round, verdict>>

Asking(l) == verdict = "pending" /\ lookup = l

\* A direct lookup that fails or answers of something else is no news.
Direct ==
  /\ Asking("direct")
  /\ \/ /\ track' = "stayed" /\ lookup' = "history"
        /\ UNCHANGED <<exch, book, older, newer, round, page, hit, failing, verdict>>
     \/ Reached /\ \E told \in Tellings : Read(told)

\* The lookup by cloid is final when it finds the order.
Cloid ==
  /\ Asking("cloid")
  /\ \/ AskNext("open", {"cloid"}) /\ track' = "stayed"
     \/ ~Reached /\ AskNext("open", {}) /\ track' = "stayed"
     \/ Reached /\ \E told \in Tellings : Read(told)

\* A page that fails leaves the open orders to ask, unless the scan has met the
\* order: a scan that met it must be complete.
PageFails ==
  /\ Asking("history")
  /\ IF hit THEN Conclude("unknown", {"history"}) /\ UNCHANGED <<book, track>>
            ELSE AskNext("open", {"history"}) /\ UNCHANGED track

OnPage == /\ book.at = "history"
          /\ (page - 1) * PageSize <= newer /\ newer < page * PageSize

PageRead ==
  /\ Asking("history")
  /\ LET met == hit \/ OnPage
     IN \/ Rows < page * PageSize /\ met /\ \E told \in Tellings : Read(told)
        \/ Rows < page * PageSize /\ ~met /\ AskNext("open", {}) /\ UNCHANGED track
        \/ /\ Rows >= page * PageSize /\ page < MaxPages
           /\ page' = page + 1 /\ hit' = met
           /\ UNCHANGED <<exch, book, older, newer, lookup, round, failing, track, verdict>>
        \/ Rows >= page * PageSize /\ page = MaxPages /\ met
             /\ Conclude("unknown", {}) /\ UNCHANGED <<book, track>>
        \/ Rows >= page * PageSize /\ page = MaxPages /\ ~met /\ AskNext("open", {}) /\ UNCHANGED track

NotFound(faults) ==
  IF exch = "mexc" /\ round < Rounds
    THEN /\ round' = round + 1 /\ lookup' = "history" /\ page' = 1 /\ hit' = FALSE
         /\ failing' = {} /\ track' = "stayed"
         /\ UNCHANGED <<exch, book, older, newer, verdict>>
    ELSE Conclude("unknown", faults) /\ UNCHANGED <<book, track>>

Open ==
  /\ Asking("open")
  /\ \/ NotFound({"open"})
     \/ book.at # "open" /\ NotFound({})
     \/ book.at = "open" /\ \E told \in Tellings : Read(told)

RecoveryNext ==
  \/ Arrives \/ PartFills \/ OrderEnds \/ Listed \/ OtherListed
  \/ Send \/ Direct \/ Cloid \/ PageFails \/ PageRead \/ Open

RecoverySpec == RecoveryInit /\ [][RecoveryNext]_recoveryVars

-----------------------------------------------------------------------------
(* Why an order that stayed where it was, through the cloid request and the    *)
(* next or through a whole round, was not found: the list it is in could not   *)
(* be read, or is longer than the scan.                                        *)
Excused ==
  IF exch = "hl"
    THEN "cloid" \in failing /\ (book.at # "open" \/ "open" \in failing)
    ELSE \/ book.at \in {"open", "history"} /\ book.at \in failing
         \/ book.at = "history" /\ Rows >= PageSize * MaxPages
         \/ book.at = "lagging"

\* Recovery tells the truth: an entry is declared failed only when nothing was
\* sent, recovered only for an order that reached the exchange with the terms
\* sent, and unknown - which keeps the reservation and asks the trader - only for
\* an order that is absent, without any fill, wrongly reported, on the move while
\* it was looked for, or not read for one of the reasons above.  An order whose row
\* was read has no such excuse, whichever request read it: one that was cancelled
\* after a partial fill is never taken for one without a fill.
RecoveryTells ==
  /\ verdict = "failed" => book.at = "nowhere"
  /\ verdict = "recovered" => Reached /\ "answer" \notin failing
  /\ verdict = "unknown" /\ Reached /\ ~ZeroFill =>
       \/ "answer" \in failing
       \/ track = "moved"
       \/ track = "stayed" /\ Excused

=============================================================================
