-------------------------- MODULE HistoryCollector --------------------------
(***************************************************************************)
(* MarketDataCoordinator of collectors.py, the half that collects history: *)
(* the startup preseed, the history loop with its two workers and its    *)
(* retry-only mode for the USD hubs, and what a catalog handoff leaves of  *)
(* their state.                                                            *)
(*                                                                         *)
(* What a fetch returns is reduced to what the loops look at: for daily   *)
(* bars whether the one-year cutoff is covered ("full"), some bars came    *)
(* ("short") or none; for minute bars whether the interval failed.         *)
(***************************************************************************)
EXTENDS Integers, FiniteSets

CONSTANTS
  Hubs,          \* FX_HUB_SYMBOLS
  Regulars,      \* every other symbol with history
  LoopCatalogs,      \* sets of listed symbols a handoff may install
  HistoryPoll, RetryAfter, RefreshAfter, PrefixRetry, \* seconds of the history loop
  HistoryWorkers,
  LTime, LHandoffs  \* bounds: clock, handoffs

ASSUME LoopAssumption ==
  /\ {HistoryPoll, RetryAfter, RefreshAfter, PrefixRetry} \subseteq Nat \ {0}
  /\ HistoryWorkers \in Nat \ {0} /\ LTime \in Nat
  /\ Hubs \cap Regulars = {} /\ LoopCatalogs \subseteq SUBSET (Hubs \cup Regulars)

VARIABLES
  lNow, listed, handoffs,
  cycle,        \* the history cycle under way
  regularDue,   \* _history_next_regular_refresh_at
  fx,           \* _next_fx_history_refresh_at, _fx_history_retry_only
  dailyRetry,   \* _fx_daily_retry_symbols
  failedIntervals, \* _fx_failed_history_intervals
  prefixRetry,  \* _daily_prefix_retry_at, 0 where there is no entry
  bars,         \* the daily bars held for each symbol
  lastBad       \* hub intervals whose last fetch failed, "1d" also if it left none

loopVars == <<lNow, listed, handoffs, cycle, regularDue, fx, dailyRetry, failedIntervals,
              prefixRetry, bars, lastBad>>

retryState == <<dailyRetry, failedIntervals, prefixRetry, bars, lastBad>>
historyState == <<cycle, regularDue, fx, retryState>>

Symbols == Hubs \cup Regulars
MinuteBars == {"1m", "5m"}
Resting == [pc |-> "resting"]
Outcomes == {"none", "short", "full"}

LoopInit ==
  /\ lNow = 0 /\ listed \in LoopCatalogs /\ handoffs = 0
  /\ cycle = [pc |-> "preseed", todo |-> Hubs \cap listed]
  /\ regularDue = [s \in Regulars |-> 0]
  /\ fx = [due |-> 0, retryOnly |-> FALSE]
  /\ dailyRetry = {} /\ failedIntervals = {} /\ lastBad = {}
  /\ prefixRetry = [s \in Symbols |-> 0]
  /\ bars \in {[s \in Symbols |-> IF s \in restored THEN "full" ELSE "none"] : restored \in SUBSET Hubs}

(***************************************************************************)
(* Daily bars                                                              *)
(***************************************************************************)
Combined(old, new) == IF "full" \in {old, new} THEN "full" ELSE IF "short" \in {old, new} THEN "short" ELSE "none"

\* _backfill_daily_interval asks upstream unless the prefix is complete and
\* need not be refreshed, or is known to be unavailable for now.
DailyAsks(s, refresh, force) ==
  IF bars[s] = "full" THEN refresh ELSE force \/ lNow >= prefixRetry[s]

PrefixAfter(s, asked, result) ==
  IF ~asked THEN prefixRetry[s]
  ELSE CASE result = "full" -> 0 [] result = "short" -> lNow + PrefixRetry [] OTHER -> prefixRetry[s]

\* Mutant: a request that brought nothing is not retried before the next
\* regular refresh.
DailyRetryIfFailed(s, failed, result, retryAt) == IF failed THEN dailyRetry \cup {s} ELSE dailyRetry \ {s}

\* The exception path, and _update_fx_daily_retry_state.
DailyRetry(s, failed, result, retryAt) ==
  IF failed \/ (result # "full" /\ lNow >= retryAt) THEN dailyRetry \cup {s} ELSE dailyRetry \ {s}

\* One hub's daily work, before the workers start or in the preseed.
HubDaily(h, force, failed, got) ==
  LET asked == DailyAsks(h, FALSE, force)
      result == IF asked THEN Combined(bars[h], got) ELSE bars[h]
      retryAt == IF failed THEN prefixRetry[h] ELSE PrefixAfter(h, asked, result)
  IN  /\ failed => asked /\ got = "none"
      /\ ~asked => got = "none"
      /\ bars' = [bars EXCEPT ![h] = result]
      /\ prefixRetry' = [prefixRetry EXCEPT ![h] = retryAt]
      /\ dailyRetry' = DailyRetry(h, failed, result, retryAt)
      /\ lastBad' = IF ~asked THEN lastBad
                    ELSE IF failed \/ result = "none" THEN lastBad \cup {<<h, "1d">>} ELSE lastBad \ {<<h, "1d">>}

\* _startup_preseed_fx_daily: all hubs at once, within a deadline that leaves
\* the others as they were.
Preseed(h, failed, got) ==
  /\ cycle.pc = "preseed" /\ h \in cycle.todo
  /\ HubDaily(h, TRUE, failed, got)
  /\ cycle' = [cycle EXCEPT !.todo = @ \ {h}]
  /\ UNCHANGED <<lNow, listed, handoffs, regularDue, fx, failedIntervals>>

PreseedEnds ==
  /\ cycle.pc = "preseed" /\ cycle' = Resting
  /\ UNCHANGED <<lNow, listed, handoffs, regularDue, fx, retryState>>

(***************************************************************************)
(* The history loop                                                        *)
(***************************************************************************)
Broken(h) == h \in dailyRetry \/ \E i \in MinuteBars : <<h, i>> \in failedIntervals

\* _fx_history_intervals_for_cycle.
CycleIntervals(h) == {i \in MinuteBars : fx.retryOnly => <<h, i>> \in failedIntervals}

\* What is due, and what _backfill_history selects of it.
StartCycle ==
  LET withFx == lNow >= fx.due
      due == {s \in Regulars \cap listed : lNow >= regularDue[s]}
      hubs == IF withFx THEN {h \in Hubs \cap listed : fx.retryOnly => Broken(h)} ELSE {}
  IN  /\ cycle.pc = "resting" /\ (withFx \/ due # {})
      /\ cycle' = [pc |-> "daily", withFx |-> withFx, due |-> due, retry |-> fx.retryOnly,
                   todo |-> {h \in hubs : fx.retryOnly => h \in dailyRetry},
                   work |-> due \cup hubs, busy |-> {},
                   intervals |-> [h \in hubs |-> CycleIntervals(h)]]
      /\ UNCHANGED <<lNow, listed, handoffs, regularDue, fx, retryState>>

\* Daily work precedes minute bars, one hub after the other.
DailyStep(h, failed, got) ==
  /\ cycle.pc = "daily" /\ h \in cycle.todo
  /\ HubDaily(h, FALSE, failed, got)
  /\ cycle' = [cycle EXCEPT !.todo = @ \ {h}]
  /\ UNCHANGED <<lNow, listed, handoffs, regularDue, fx, failedIntervals>>

StartWorkers ==
  /\ cycle.pc = "daily" /\ cycle.todo = {}
  /\ cycle' = [cycle EXCEPT !.pc = "minutes"]
  /\ UNCHANGED <<lNow, listed, handoffs, regularDue, fx, retryState>>

\* A worker takes the next symbol; a hub without intervals is passed over.
WorkerTakes(s) ==
  LET passed == s \in Hubs /\ cycle.intervals[s] = {}
  IN  /\ cycle.pc = "minutes" /\ s \in cycle.work /\ Cardinality(cycle.busy) < HistoryWorkers
      /\ cycle' = [cycle EXCEPT !.work = @ \ {s},
                                !.busy = IF passed THEN @ ELSE @ \cup {s}]
      /\ UNCHANGED <<lNow, listed, handoffs, regularDue, fx, retryState>>

FailedAfter(h, tried, bad) == (failedIntervals \ {<<h, i>> : i \in tried}) \cup {<<h, i>> : i \in bad}

\* _backfill_symbol of a hub: the intervals in bad failed.
HubWorkerDone(h, bad) ==
  LET tried == cycle.intervals[h]
  IN  /\ cycle.pc = "minutes" /\ h \in cycle.busy \cap Hubs /\ bad \subseteq tried
      /\ failedIntervals' = FailedAfter(h, tried, bad)
      /\ lastBad' = (lastBad \ {<<h, i>> : i \in tried}) \cup {<<h, i>> : i \in bad}
      /\ cycle' = [cycle EXCEPT !.busy = @ \ {h}]
      /\ UNCHANGED <<lNow, listed, handoffs, regularDue, fx, dailyRetry, prefixRetry, bars>>

\* Any other symbol: minute bars and, with a refresh of the newest day, daily
\* bars; failures are recorded and the worker goes on.
RegularWorkerDone(s, failed, got) ==
  LET asked == ~failed /\ DailyAsks(s, TRUE, FALSE)
      result == IF asked THEN Combined(bars[s], got) ELSE bars[s]
  IN  /\ cycle.pc = "minutes" /\ s \in cycle.busy \cap Regulars
      /\ ~asked => got = "none"
      /\ bars' = [bars EXCEPT ![s] = result]
      /\ prefixRetry' = [prefixRetry EXCEPT ![s] = PrefixAfter(s, asked, result)]
      /\ cycle' = [cycle EXCEPT !.busy = @ \ {s}]
      /\ UNCHANGED <<lNow, listed, handoffs, regularDue, fx, dailyRetry, failedIntervals, lastBad>>

FxComplete == dailyRetry = {} /\ failedIntervals = {}

\* The rest of _history_loop: new due times, and retry-only mode while any
\* hub has something to retry.
EndCycle ==
  /\ cycle.pc = "minutes" /\ cycle.work = {} /\ cycle.busy = {}
  /\ regularDue' = [s \in Regulars |-> IF s \in cycle.due THEN lNow + HistoryPoll ELSE regularDue[s]]
  /\ fx' = IF cycle.withFx
           THEN [retryOnly |-> ~FxComplete, due |-> lNow + (IF FxComplete THEN RefreshAfter ELSE RetryAfter)]
           ELSE fx
  /\ cycle' = Resting
  /\ UNCHANGED <<lNow, listed, handoffs, retryState>>

(***************************************************************************)
(* A catalog handoff cancels the loop and starts it for the new            *)
(* registry; kept says whose routes and policies are the same.             *)
(***************************************************************************)
HandOff(new, kept) ==
  /\ cycle.pc # "preseed" /\ handoffs < LHandoffs /\ new # listed /\ kept \subseteq new \cap listed
  /\ handoffs' = handoffs + 1 /\ listed' = new /\ cycle' = Resting
  /\ regularDue' = [s \in Regulars |-> IF s \in kept THEN regularDue[s] ELSE 0]
  /\ UNCHANGED <<lNow, fx, retryState>>

LTick ==
  /\ lNow < LTime /\ lNow' = lNow + 1
  /\ UNCHANGED <<listed, handoffs, historyState>>

LoopNext ==
  \/ \E h \in Hubs, failed \in BOOLEAN, got \in Outcomes : Preseed(h, failed, got) \/ DailyStep(h, failed, got)
  \/ PreseedEnds \/ StartCycle \/ StartWorkers \/ EndCycle
  \/ \E s \in Symbols : WorkerTakes(s)
  \/ \E h \in Hubs, bad \in SUBSET MinuteBars : HubWorkerDone(h, bad)
  \/ \E s \in Regulars, failed \in BOOLEAN, got \in Outcomes : RegularWorkerDone(s, failed, got)
  \/ \E new \in LoopCatalogs : \E kept \in SUBSET new : HandOff(new, kept)
  \/ LTick

(***************************************************************************)
(* Properties                                                              *)
(***************************************************************************)
\* Types of the loops' state (collectors.py, MarketDataCoordinator.__init__).
LoopTypeOK ==
  /\ listed \in LoopCatalogs /\ cycle.pc \in {"preseed", "resting", "daily", "minutes"}
  /\ dailyRetry \subseteq Hubs /\ failedIntervals \subseteq Hubs \X MinuteBars
  /\ bars \in [Symbols -> Outcomes]

\* An interval of a listed hub whose last fetch failed, or a daily history
\* still empty after a fetch, is asked for again within the retry delay:
\* whichever worker met the failure, in the preseed too, and also when a
\* handoff cancelled the cycle that met it (_backfill_history, _history_loop,
\* _update_fx_daily_retry_state).
FailureRetriedSoon ==
  cycle = Resting =>
    \A h \in Hubs \cap listed, i \in MinuteBars \cup {"1d"} : <<h, i>> \in lastBad =>
      /\ fx.due <= lNow + RetryAfter
      /\ IF i = "1d" THEN h \in dailyRetry ELSE <<h, i>> \in failedIntervals

=============================================================================
