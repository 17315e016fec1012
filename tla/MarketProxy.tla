----------------------------- MODULE MarketProxy -----------------------------
(****************************************************************************)
(* The realtime stream of one browser (/ws/market): on Hyperliquid a proxy  *)
(* of the public websocket that reconnects behind the browser's back        *)
(* (realtime/hl_proxy.py), on MEXC a poll of the ticker (main.py). A        *)
(* reconnect keeps the chronology of what the browser has been shown, and   *)
(* failures in a row are spaced further and further apart.                  *)
(*                                                                          *)
(* Times are positions of a small clock, `Interval` of them a candle; 0 is  *)
(* an event without a plausible time. Prices are left out.                  *)
(****************************************************************************)
EXTENDS Integers, FiniteSets, FiniteSetsExt

CONSTANTS MaxClock,        \* bound: how far the market's clock runs
          Interval,        \* length of a candle
          MaxFlaps,        \* bound of the history counter
          Slowest          \* HL_BACKOFF_CAP, MEXC_POLL_MAX_DELAY_S

ASSUME ProxyBounds == MaxClock \in Nat \ {0} /\ Interval \in Nat \ {0} /\ MaxFlaps \in Nat /\ Slowest \in Nat \ {0}

VARIABLES venue,      \* "hyperliquid" or "mexc"
          clock,      \* the market's time
          browser,    \* the browser is connected
          link,       \* where the loop is
          tasks,      \* tasks of this socket that are alive
          timeline,   \* newest [bucket, candle, tick] forwarded, 0 for none
          delay,      \* the next pause
          healthy,    \* this session forwarded data
          displayed,  \* history: the dated events last displayed
          flaps       \* history: failures in a row, capped

proxyVars == <<venue, clock, browser, link, tasks, timeline, delay, healthy, displayed, flaps>>

Fastest == 1   \* HL_BACKOFF_START, MEXC_POLL_BASE_DELAY_S
\* A time before the exchange's first day or in the future counts as none.
Stamps == 0..clock
Bucket(time) == (time + Interval - 1) \div Interval
Undated == [bucket |-> 0, candle |-> 0, tick |-> 0]
Slower(d) == Min({2 * d, Slowest})
Counted(n) == Min({n + 1, MaxFlaps})

ProxyInit ==
  /\ venue \in {"hyperliquid", "mexc"} /\ clock = 1 /\ browser = TRUE
  /\ link = IF venue = "mexc" THEN "poll" ELSE "connect"
  /\ tasks = IF venue = "mexc" THEN {"client", "pump"} ELSE {"client"}
  /\ timeline = Undated /\ delay = Fastest /\ healthy = FALSE
  /\ displayed = Undated /\ flaps = 0

-----------------------------------------------------------------------------
(* Hyperliquid                                                              *)

\* Faulty variant: every session starts its own chronology.
ConnectAfresh ==
  /\ link = "connect" /\ browser
  /\ link' = "live" /\ tasks' = tasks \cup {"pump", "heartbeat"} /\ healthy' = FALSE
  /\ timeline' = Undated
  /\ UNCHANGED <<venue, clock, browser, delay, displayed, flaps>>

\* The handshake and the subscriptions; an acknowledged subscription is no data.
Connect ==
  /\ link = "connect" /\ browser
  /\ link' = "live" /\ tasks' = tasks \cup {"pump", "heartbeat"} /\ healthy' = FALSE
  /\ UNCHANGED <<venue, clock, browser, timeline, delay, displayed, flaps>>

ConnectFails ==
  /\ link = "connect" /\ browser /\ link' = "degraded" /\ healthy' = FALSE
  /\ flaps' = Counted(flaps)
  /\ UNCHANGED <<venue, clock, browser, tasks, timeline, delay, displayed>>

\* One event out of a frame: its newest row. A frame with two candles of one
\* bucket is rejected whole.
Newest(type, times) ==
  IF type = "candle" /\ \E a, b \in times : a # b /\ Bucket(a) = Bucket(b) THEN {}
  ELSE {Max(times)}

\* An event behind the chart, or behind an event of its own type, is dropped.
Behind(type, time) ==
  time # 0 /\ (Bucket(time) < timeline.bucket \/ time < timeline[type])

\* A frame of candles or ticks, of this or an earlier moment of the market.
Frame(type, times) ==
  /\ link = "live" /\ browser
  /\ \E time \in Newest(type, times) :
       /\ ~Behind(type, time)
       /\ timeline' = IF time = 0 THEN timeline
                      ELSE [timeline EXCEPT !.bucket = Max({Bucket(time), @}), ![type] = Max({time, @})]
       /\ displayed' = IF time = 0 THEN displayed
                   ELSE [displayed EXCEPT !.bucket = Bucket(time), ![type] = time]
  /\ healthy' = TRUE /\ flaps' = 0
  /\ UNCHANGED <<venue, clock, browser, link, tasks, delay>>

\* Faulty variant: a session that only connected resets the pause.
SessionForgives ==
  /\ link = "live" /\ browser /\ link' = "degraded"
  /\ tasks' = tasks \ {"pump", "heartbeat"} /\ delay' = Fastest
  /\ flaps' = IF healthy THEN 0 ELSE Counted(flaps)
  /\ UNCHANGED <<venue, clock, browser, timeline, healthy, displayed>>

\* A session that forwarded data starts the pauses afresh.
AfterSession == IF healthy THEN Fastest ELSE delay

\* Closed, failed, or silent for too long: the session's own tasks end with it.
SessionEnds ==
  /\ link = "live" /\ browser /\ link' = "degraded"
  /\ tasks' = tasks \ {"pump", "heartbeat"}
  /\ delay' = AfterSession
  /\ flaps' = IF healthy THEN 0 ELSE Counted(flaps)
  /\ UNCHANGED <<venue, clock, browser, timeline, healthy, displayed>>

\* The browser is told, then the loop sleeps and doubles the next pause.
Sleep ==
  /\ link = "degraded" /\ link' = IF browser THEN "sleep" ELSE "ended"
  /\ tasks' = IF browser THEN tasks ELSE {}
  /\ UNCHANGED <<venue, clock, browser, timeline, delay, healthy, displayed, flaps>>
Wake ==
  /\ link = "sleep" /\ link' = "connect" /\ delay' = Slower(delay)
  /\ UNCHANGED <<venue, clock, browser, tasks, timeline, healthy, displayed, flaps>>

-----------------------------------------------------------------------------
(* MEXC                                                                     *)

\* The ticker is read: a time before the last one counts as a failure, and so
\* does a ticker that cannot be read.
PollShows ==
  /\ link = "poll" /\ browser /\ link' = "rest"
  /\ \E time \in Stamps :
       /\ time = 0 \/ time >= timeline.tick
       /\ timeline' = IF time = 0 THEN timeline ELSE [timeline EXCEPT !.tick = time]
       /\ displayed' = IF time = 0 THEN displayed ELSE [displayed EXCEPT !.bucket = Bucket(time), !.tick = time]
  /\ delay' = Fastest /\ flaps' = 0
  /\ UNCHANGED <<venue, clock, browser, tasks, healthy>>
PollFails ==
  /\ link = "poll" /\ browser /\ link' = "rest"
  /\ delay' = Slower(delay) /\ flaps' = Counted(flaps)
  /\ UNCHANGED <<venue, clock, browser, tasks, timeline, healthy, displayed>>
PollAgain ==
  /\ link = "rest" /\ browser /\ link' = "poll"
  /\ UNCHANGED <<venue, clock, browser, tasks, timeline, delay, healthy, displayed, flaps>>

-----------------------------------------------------------------------------
MarketMovesOn ==
  /\ clock < MaxClock /\ clock' = clock + 1
  /\ UNCHANGED <<venue, browser, link, tasks, timeline, delay, healthy, displayed, flaps>>

\* The reader of the browser's pings is the first to know.
BrowserLeaves ==
  /\ browser /\ browser' = FALSE /\ tasks' = tasks \ {"client"}
  /\ UNCHANGED <<venue, clock, link, timeline, delay, healthy, displayed, flaps>>

\* Found at the head of the loop or in a session, whose tasks end with it.
ProxyEnds ==
  /\ ~browser /\ link \in {"connect", "live"} /\ link' = "ended" /\ tasks' = {}
  /\ UNCHANGED <<venue, clock, browser, timeline, delay, healthy, displayed, flaps>>

\* The first of the two MEXC tasks to end takes the other with it.
PollEnds ==
  /\ ~browser /\ link \in {"poll", "rest"} /\ link' = "ended" /\ tasks' = {}
  /\ UNCHANGED <<venue, clock, browser, timeline, delay, healthy, displayed, flaps>>

ProxyNext ==
  \/ Connect \/ ConnectFails \/ SessionEnds \/ Sleep \/ Wake
  \/ \E type \in {"candle", "tick"}, a, b \in Stamps : Frame(type, {a, b})
  \/ PollShows \/ PollFails \/ PollAgain
  \/ MarketMovesOn \/ BrowserLeaves \/ ProxyEnds \/ PollEnds

ProxySpec == ProxyInit /\ [][ProxyNext]_proxyVars

-----------------------------------------------------------------------------
ProxyTypeOK ==
  /\ venue \in {"hyperliquid", "mexc"} /\ clock \in 1..MaxClock /\ browser \in BOOLEAN
  /\ link \in {"connect", "live", "degraded", "sleep", "poll", "rest", "ended"}
  /\ tasks \subseteq {"client", "pump", "heartbeat"}
  /\ timeline \in [bucket : Nat, candle : Nat, tick : Nat] /\ displayed \in [bucket : Nat, candle : Nat, tick : Nat]
  /\ delay \in Fastest..Slowest /\ healthy \in BOOLEAN /\ flaps \in 0..MaxFlaps

\* What the browser displays never goes back to an earlier candle, nor an event of
\* one kind behind an earlier one of that kind, however often the proxy reconnected
\* in between and whatever the venue delivers late (hl_proxy.py, "timeline").
FeedNeverRewinds ==
  [][/\ displayed'.bucket >= displayed.bucket
     /\ displayed'.candle >= displayed.candle /\ displayed'.tick >= displayed.tick]_proxyVars

\* The pause after n failures in a row: doubled each time.
Doubled[n \in Nat] == IF n = 0 THEN 1 ELSE 2 * Doubled[n - 1]

\* Failures in a row, a handshake that only succeeds among them, are met with a
\* doubled pause each, up to the cap; and a socket that ended leaves no task behind
\* (_reset_backoff_after_session, _run_upstream_session, _mexc_poll_fallback).
FlappingBacksOff ==
  /\ link = "sleep" => delay >= Min({Doubled[Max({flaps - 1, 0})], Slowest})
  /\ link = "rest" => delay >= Min({Doubled[flaps], Slowest})
  /\ link \in {"degraded", "sleep", "ended"} => tasks \subseteq {"client"} /\ (link = "ended" => tasks = {})

=============================================================================
