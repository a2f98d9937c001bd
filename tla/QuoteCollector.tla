--------------------------- MODULE QuoteCollector ---------------------------
(***************************************************************************)
(* MarketDataCoordinator of collectors.py, the half that collects quotes:  *)
(* its life cycle, the quote scheduler, the stream of one provider, the    *)
(* coalescing of quotes before publication, and the handoff of a running   *)
(* coordinator to another catalog (reconcile, confirm, roll back).         *)
(*                                                                         *)
(* Everything runs on one event loop: a step is the code between two       *)
(* awaits.  The history and metadata loops are in HistoryCollector.        *)
(***************************************************************************)
EXTENDS Integers, FiniteSets, FiniteSetsExt

CONSTANTS
  CSyms,
  CCatalogs,      \* the definitions of each catalog, Absent where not listed
  Primary, Spare, \* the two providers of every quote chain; Primary streams
  Suppression, Recheck,   \* stream_poll_suppression_seconds, stream_poll_recheck_seconds
  MinimumPoll, ClosedPoll, Floor, \* per provider, 0 where it declares none
  Hint,           \* quote_failure_retry_after_seconds of Spare, 0 is None
  QuoteSlots,     \* 32 polls at once
  MaxDelay,       \* 60 seconds between two connection attempts
  Lags,           \* how old a quote may be when it arrives
  QTime, QHandoffs, QFailures  \* bounds: clock, handoffs, component failures

Providers == {Primary, Spare}
Absent == [poll |-> 0]
Definitions == [poll : Nat \ {0}, stale : Nat, head : Providers, equity : BOOLEAN]

ASSUME CollectorAssumption ==
  /\ QuoteSlots \in Nat \ {0} /\ MaxDelay \in Nat \ {0} /\ QTime \in Nat
  /\ Suppression \in Nat /\ Recheck \in Nat /\ Hint \in Nat /\ Lags \subseteq Nat
  /\ {MinimumPoll, ClosedPoll, Floor} \subseteq [Providers -> Nat]
  /\ 1 \in DOMAIN CCatalogs
  /\ \A cat \in DOMAIN CCatalogs, s \in CSyms : CCatalogs[cat][s] \in Definitions \cup {Absent}

VARIABLES
  qNow,
  life,      \* phase of the supervisor, stop(), fatal error, catalog held
  due,       \* _quote_next_refresh_at, -1 where there is no entry
  queue, inflight, \* the scheduler's heap and its running polls
  skipped,   \* queued symbols whose last poll was suppressed by the stream
  stream,    \* the task of the primary provider's stream
  observed,  \* _stream_observed_at of the live provider instance
  pending, published, \* quotes waiting, and the newest the service took
  token,     \* the CollectorReconciliation under way
  bound      \* handoffs and component failures so far

collectorVars == <<qNow, life, due, queue, inflight, skipped, stream, observed,
                   pending, published, token, bound>>

quotes == <<pending, published>>
schedule == <<due, queue, inflight, skipped>>

Never == -1
NoToken == [pc |-> "none"]
Off == [state |-> "off", delay |-> 1, wake |-> 0]
Nothing == [s \in CSyms |-> Never]
Later(x, y) == IF x >= y THEN x ELSE y
Sooner(x, y) == IF x <= y THEN x ELSE y

Active(cat) == {s \in CSyms : CCatalogs[cat][s] # Absent}
Def(s) == CCatalogs[life.cat][s]

\* A stream is asked for the symbols whose chain its provider heads.
StreamSymbols(cat) == {s \in Active(cat) : CCatalogs[cat][s].head = Primary}
Chain(d) == IF d.head = Primary THEN Providers ELSE {Spare}

Running == life.phase = "running" /\ life.sched = "on"

CollectorInit ==
  /\ qNow = 0
  /\ life = [phase |-> "new", stop |-> FALSE, closed |-> FALSE, fatal |-> FALSE, cat |-> 1, sched |-> "off"]
  /\ due = Nothing /\ queue = {} /\ inflight = {} /\ skipped = {}
  /\ stream = Off /\ observed = Nothing
  /\ pending = Nothing /\ published = Nothing
  /\ token = NoToken /\ bound = [handoffs |-> 0, failures |-> 0]

(***************************************************************************)
(* Coalescing and publication                                              *)
(***************************************************************************)
\* Mutant: the quote received last replaces a newer one.
QueuedLast(p, s, t) == [p EXCEPT ![s] = t]

\* _queue_quote keeps the newest quote of a symbol.
Queued(p, s, t) == [p EXCEPT ![s] = Later(@, t)]

\* _flush_pending.  The service takes a quote of a listed symbol; one dated
\* in the future, which it would refuse, is not among those that arrive.
Flushed ==
  /\ pending' = Nothing
  /\ published' = [s \in CSyms |-> Later(published[s], pending[s])]

\* Between the swap of a handoff and its publication the new publish loop is
\* still in its first sleep.
PublishLoop ==
  /\ Running /\ pending # Nothing /\ token.pc # "swapped"
  /\ Flushed
  /\ UNCHANGED <<qNow, life, schedule, stream, observed, token, bound>>

(***************************************************************************)
(* Life cycle                                                              *)
(***************************************************************************)
Prepare ==
  /\ life.phase = "new" /\ ~life.closed
  /\ life' = [life EXCEPT !.phase = "prepared"]
  /\ UNCHANGED <<qNow, schedule, stream, observed, quotes, token, bound>>

\* activate(gated): the supervisor waits for its gate, or begins the preseed.
Activate(gated) ==
  /\ life.phase = "prepared" /\ ~life.closed
  /\ life' = [life EXCEPT !.phase = IF gated /\ ~life.stop THEN "gated" ELSE "preseed"]
  /\ UNCHANGED <<qNow, schedule, stream, observed, quotes, token, bound>>

ReleaseActivation ==
  /\ life.phase = "gated"
  /\ life' = [life EXCEPT !.phase = "preseed"]
  /\ UNCHANGED <<qNow, schedule, stream, observed, quotes, token, bound>>

\* The first part of _quote_scheduler_loop: every active symbol is queued, at
\* the due time it kept or at once.
Scheduled(cat, kept) ==
  /\ due' = [s \in CSyms |-> IF s \notin Active(cat) THEN Never ELSE IF kept[s] # Never THEN kept[s] ELSE qNow]
  /\ queue' = Active(cat) /\ inflight' = {}

StreamTask(cat) == IF StreamSymbols(cat) = {} THEN Off ELSE [Off EXCEPT !.state = "connecting"]

\* _run after the preseed: a stop that came meanwhile ends it.
RunCollectors ==
  /\ life.phase = "preseed"
  /\ IF life.stop
       THEN /\ life' = [life EXCEPT !.phase = "done"]
            /\ UNCHANGED <<schedule, stream>>
       ELSE /\ life' = [life EXCEPT !.phase = "running", !.sched = "on"]
            /\ Scheduled(life.cat, due) /\ skipped' = {}
            /\ stream' = StreamTask(life.cat)
  /\ UNCHANGED <<qNow, observed, quotes, token, bound>>

\* Every task of the group is cancelled and joined; polls in flight too.
AllEnd(stop, fatal) ==
  /\ life' = [life EXCEPT !.phase = "done", !.sched = "off", !.stop = stop, !.fatal = fatal]
  /\ queue' = {} /\ inflight' = {} /\ skipped' = {} /\ stream' = Off
  /\ UNCHANGED due

\* stop() sets the event and opens the gate.  A running group is cancelled one
\* turn later; what runs in that turn could as well have run before.
RequestStop ==
  /\ ~life.stop /\ ~life.closed
  /\ IF life.phase = "running" THEN AllEnd(TRUE, FALSE)
     ELSE /\ life' = [life EXCEPT !.stop = TRUE, !.phase = IF @ = "gated" THEN "preseed" ELSE @]
          /\ UNCHANGED <<schedule, stream>>
  /\ UNCHANGED <<qNow, observed, quotes, token, bound>>

\* After 15 seconds stop() cancels a supervisor that is still in its preseed.
CancelPreseed ==
  /\ life.stop /\ life.phase = "preseed"
  /\ AllEnd(TRUE, FALSE)
  /\ UNCHANGED <<qNow, observed, quotes, token, bound>>

\* The rest of stop(): flush, checkpoints, graph.
Close ==
  /\ life.stop /\ ~life.closed /\ life.phase \in {"new", "prepared", "done"}
  /\ life' = [life EXCEPT !.closed = TRUE]
  /\ Flushed
  /\ UNCHANGED <<qNow, schedule, stream, observed, token, bound>>

(***************************************************************************)
(* Polls                                                                   *)
(***************************************************************************)
\* stream_suppression_seconds of the provider at the head of the chain.
SuppressionOf(d) == IF d.head = Primary THEN Sooner(d.stale, Suppression) ELSE 0

Suppressed(s) ==
  /\ SuppressionOf(Def(s)) > 0 /\ observed[s] # Never
  /\ qNow - observed[s] < SuppressionOf(Def(s))

SkipInterval(s) ==
  LET base == Later(Def(s).poll, MinimumPoll[Primary])
      remaining == SuppressionOf(Def(s)) - (qNow - observed[s])
  IN  IF Recheck = 0 THEN base ELSE Sooner(Later(base, Recheck), remaining)

FallbackProbe(d) == Max({d.poll} \cup {MinimumPoll[p] : p \in Chain(d)})
FallbackClosed(d) == Max({0} \cup {ClosedPoll[p] : p \in Chain(d)})

\* The wait after a quote of provider p; closed is its market status, and
\* calendar what scheduled_market_status says.
QuoteInterval(d, p, closed, calendar) ==
  LET fallback == p # d.head
      base == IF fallback THEN Later(d.poll, FallbackProbe(d)) ELSE d.poll
      open == Later(base, MinimumPoll[p])
  IN  IF ~d.equity THEN Later(d.poll, Floor[p])
      ELSE IF closed /\ (fallback => calendar)
           THEN Max({open, ClosedPoll[p], IF fallback THEN FallbackClosed(d) ELSE 0})
           ELSE open

\* The wait after a failure of every provider.
FailureInterval(d, calendar) ==
  LET base == IF d.equity THEN Later(FallbackProbe(d), IF calendar THEN FallbackClosed(d) ELSE 0) ELSE d.poll
  IN  IF Hint > 0 THEN Sooner(base, Hint) ELSE base

\* The earliest due symbols first, as many as there are free slots.
Poppable(s) ==
  /\ Running /\ s \in queue /\ due[s] <= qNow /\ Cardinality(inflight) < QuoteSlots
  /\ \A o \in queue : due[s] <= due[o]

SkipPoll(s) ==
  /\ Poppable(s) /\ Suppressed(s)
  /\ due' = [due EXCEPT ![s] = qNow + Later(1, SkipInterval(s))]
  /\ skipped' = skipped \cup {s}
  /\ UNCHANGED <<qNow, life, queue, inflight, stream, observed, quotes, token, bound>>

StartPoll(s) ==
  /\ Poppable(s) /\ ~Suppressed(s)
  /\ queue' = queue \ {s} /\ inflight' = inflight \cup {s} /\ skipped' = skipped \ {s}
  /\ UNCHANGED <<qNow, life, due, stream, observed, quotes, token, bound>>

\* The poll's task is done: the scheduler queues the symbol again.
PollDone(s, wait) ==
  /\ Running /\ s \in inflight
  /\ inflight' = inflight \ {s} /\ queue' = queue \cup {s}
  /\ due' = [due EXCEPT ![s] = qNow + Later(1, wait)]
  /\ UNCHANGED <<qNow, life, skipped, stream, observed, token, bound>>

PollAnswers(s, p, t, closed, calendar) ==
  /\ s \in inflight /\ p \in Chain(Def(s))
  /\ PollDone(s, QuoteInterval(Def(s), p, closed, calendar))
  /\ pending' = Queued(pending, s, t)
  /\ UNCHANGED published

PollFails(s, calendar) ==
  /\ PollDone(s, FailureInterval(Def(s), calendar))
  /\ UNCHANGED quotes

(***************************************************************************)
(* The stream of the primary provider                                      *)
(***************************************************************************)
StreamMessage(s, t) ==
  /\ stream.state \in {"connecting", "up"} /\ s \in StreamSymbols(life.cat)
  /\ stream' = [stream EXCEPT !.state = "up", !.delay = 1]
  /\ observed' = [observed EXCEPT ![s] = IF qNow - t <= Def(s).stale THEN t ELSE Never]
  /\ pending' = Queued(pending, s, t)
  /\ UNCHANGED <<qNow, life, schedule, published, token, bound>>

NextDelay(delay) == Sooner(MaxDelay, 2 * delay)

\* The connection fails or ends: observations go, the delay doubles.
StreamEnds ==
  /\ stream.state \in {"connecting", "up"}
  /\ stream' = [stream EXCEPT !.state = "waiting", !.wake = qNow + stream.delay, !.delay = NextDelay(@)]
  /\ observed' = Nothing
  /\ UNCHANGED <<qNow, life, schedule, quotes, token, bound>>

StreamRetries ==
  /\ stream.state = "waiting" /\ stream.wake <= qNow
  /\ stream' = [stream EXCEPT !.state = "connecting"]
  /\ UNCHANGED <<qNow, life, schedule, observed, quotes, token, bound>>

(***************************************************************************)
(* The handoff of a running coordinator to another catalog                 *)
(***************************************************************************)
\* Mutant: a symbol keeps its due time although its definition changed.
PreservedCommon(old, new) == Active(old) \cap Active(new)

\* _preserved_scheduler_symbols: the same scheduling inputs and the same
\* provider instances in the chain.
Preserved(old, new) ==
  {s \in Active(old) \cap Active(new) :
     /\ CCatalogs[old][s] = CCatalogs[new][s]
     /\ token.reuse \/ CCatalogs[new][s].head # Primary}

Quiesced == queue' = {} /\ inflight' = {} /\ skipped' = {}

\* reconcile_generation up to its first await: what a rollback needs is kept
\* and the schedulers are cancelled.  The stream stays if its provider is
\* transferred and its symbols are the same.
BeginHandoff(new, reuse) ==
  LET retained == reuse /\ stream.state # "off" /\ StreamSymbols(new) = StreamSymbols(life.cat)
  IN  /\ Running /\ token = NoToken /\ new # life.cat /\ bound.handoffs < QHandoffs
      /\ token' = [pc |-> "quiescing", old |-> life.cat, new |-> new, reuse |-> reuse,
                   retained |-> retained, streamed |-> stream.state # "off",
                   due |-> due, observed |-> observed]
      /\ bound' = [bound EXCEPT !.handoffs = @ + 1]
      /\ life' = [life EXCEPT !.sched = "off"]
      /\ Quiesced
      /\ stream' = IF retained THEN stream ELSE Off
      /\ UNCHANGED <<qNow, due, observed, quotes>>

\* The assignment block between the flush and the start of the new tasks.
Swap ==
  /\ token.pc = "quiescing" /\ life.phase = "running"
  /\ Flushed
  /\ Scheduled(token.new, [s \in CSyms |-> IF s \in Preserved(token.old, token.new) THEN due[s] ELSE Never])
  /\ skipped' = {}
  /\ observed' = [s \in CSyms |-> IF token.reuse /\ s \in Active(token.new) THEN observed[s] ELSE Never]
  /\ life' = [life EXCEPT !.cat = token.new, !.sched = "on"]
  /\ stream' = IF token.retained THEN stream ELSE StreamTask(token.new)
  /\ token' = [token EXCEPT !.pc = "swapped"]
  /\ UNCHANGED <<qNow, bound>>

Healthy == life.phase = "running" /\ life.sched = "on"

\* One turn later the service publishes the generation; confirm_reconciliation
\* looks once more and the catalog is committed in the same step.
ServiceSwitches ==
  /\ token.pc = "swapped" /\ Healthy
  /\ token' = [token EXCEPT !.pc = "switched"]
  /\ UNCHANGED <<qNow, life, schedule, stream, observed, quotes, bound>>

ConfirmHandoff ==
  /\ token.pc = "switched" /\ Healthy
  /\ token' = [token EXCEPT !.pc = "committed"]
  /\ UNCHANGED <<qNow, life, schedule, stream, observed, quotes, bound>>

Held == life.sched = "held"

\* finalize_reconciliation: held failures are raised in their tasks.
FinalizeHandoff ==
  /\ token.pc = "committed" /\ token' = NoToken
  /\ IF Held THEN AllEnd(life.stop, TRUE) ELSE UNCHANGED <<life, schedule, stream>>
  /\ UNCHANGED <<qNow, observed, quotes, bound>>

\* A component task raises.  One started by a handoff is held by its guard
\* until the handoff is decided; any other ends the whole group.
ComponentFails ==
  /\ Running /\ bound.failures < QFailures
  /\ bound' = [bound EXCEPT !.failures = @ + 1]
  /\ IF token.pc \in {"swapped", "switched", "committed"}
       THEN /\ life' = [life EXCEPT !.sched = "held"]
            /\ Quiesced /\ UNCHANGED <<due, stream>>
       ELSE AllEnd(life.stop, TRUE)
  /\ UNCHANGED <<qNow, observed, quotes, token>>

\* rollback_reconciliation cancels what the handoff started ...
BeginRollback ==
  /\ \/ token.pc \in {"swapped", "switched"}
     \/ token.pc = "quiescing" /\ life.phase # "running"
  /\ token' = [token EXCEPT !.pc = "undoing"]
  /\ life' = [life EXCEPT !.sched = "off"]
  /\ Quiesced
  /\ stream' = IF token.retained THEN stream ELSE Off
  /\ UNCHANGED <<qNow, due, observed, quotes, bound>>

\* Mutant: the observations made meanwhile stay, their quotes do not.
ObservedKept == observed

ObservedBefore == token.observed

\* ... drops what they queued, restores the token and starts the previous
\* components again, which fails if the coordinator has stopped.
FinishRollback ==
  /\ token.pc = "undoing" /\ token' = NoToken
  /\ pending' = Nothing
  /\ observed' = ObservedBefore /\ skipped' = {}
  /\ IF life.phase = "running"
       THEN /\ Scheduled(token.old, token.due)
            /\ life' = [life EXCEPT !.cat = token.old, !.sched = "on"]
            /\ stream' = IF token.retained \/ ~token.streamed THEN stream ELSE StreamTask(token.old)
       ELSE /\ due' = token.due
            /\ life' = [life EXCEPT !.cat = token.old]
            /\ UNCHANGED <<queue, inflight, stream>>
  /\ UNCHANGED <<qNow, published, bound>>

\* Nothing depends on time before the collectors run or after they ended.
QTick ==
  /\ life.phase = "running" /\ qNow < QTime /\ qNow' = qNow + 1
  /\ UNCHANGED <<life, schedule, stream, observed, quotes, token, bound>>

QClock == 0..QTime
Arriving == {qNow - lag : lag \in Lags} \cap Nat

CollectorNext ==
  \/ Prepare \/ \E gated \in BOOLEAN : Activate(gated)
  \/ ReleaseActivation \/ RunCollectors \/ RequestStop \/ CancelPreseed \/ Close
  \/ PublishLoop
  \/ \E s \in CSyms : SkipPoll(s) \/ StartPoll(s) \/ \E calendar \in BOOLEAN : PollFails(s, calendar)
  \/ \E s \in CSyms, p \in Providers, t \in Arriving, closed, calendar \in BOOLEAN :
       PollAnswers(s, p, t, closed, calendar)
  \/ \E s \in CSyms, t \in Arriving : StreamMessage(s, t)
  \/ StreamEnds \/ StreamRetries
  \/ \E new \in DOMAIN CCatalogs, reuse \in BOOLEAN : BeginHandoff(new, reuse)
  \/ Swap \/ ServiceSwitches \/ ConfirmHandoff \/ FinalizeHandoff
  \/ ComponentFails \/ BeginRollback \/ FinishRollback
  \/ QTick

(***************************************************************************)
(* Properties                                                              *)
(***************************************************************************)
Stamps == QClock \cup {Never}

\* Types of the coordinator's state (collectors.py, MarketDataCoordinator).
CollectorTypeOK ==
  /\ qNow \in QClock
  /\ life.phase \in {"new", "prepared", "gated", "preseed", "running", "done"}
  /\ life.sched \in {"off", "on", "held"} /\ life.cat \in DOMAIN CCatalogs
  /\ due \in [CSyms -> Int] /\ queue \subseteq CSyms /\ inflight \subseteq CSyms
  /\ \A f \in {observed, pending, published} : f \in [CSyms -> Stamps]
  /\ stream.state \in {"off", "connecting", "up", "waiting"} /\ stream.delay \in 1..MaxDelay

\* While the scheduler runs, every symbol of the catalog it was given is in
\* its heap or being polled, never in both and never in neither, whatever
\* polls failed and whatever handoffs were rolled back
\* (_quote_scheduler_loop).
NoSymbolLost ==
  Running => queue \cup inflight = Active(life.cat) /\ queue \cap inflight = {}

Newest(s) == Later(pending[s], published[s])

\* Without a recheck interval (Alpaca, Finnhub) a suppressed poll waits for
\* an ordinary interval, whatever is left of the quote's time.
Overrun(d) == IF Recheck > 0 THEN 0 ELSE Later(d.poll, MinimumPoll[Primary])

\* A poll suppressed by the stream is looked at again before the quote that
\* suppressed it goes stale, or one ordinary interval later where the
\* provider names no recheck interval, even if the stream falls silent,
\* disconnects or delivers out of order (_poll_quote_once; README of Binance
\* and Kraken: suppression "is bounded by the quote source time and the
\* instrument staleness threshold").
SuppressionBounded ==
  \A s \in queue \cap skipped :
    due[s] <= Newest(s) + Sooner(Def(s).stale, Suppression) + Overrun(Def(s))

\* The longest wait a definition allows between two polls.
Longest(d) ==
  Max({d.poll, IF d.head = Primary THEN Later(Recheck, MinimumPoll[Primary]) ELSE 0,
       IF d.equity THEN Later(FallbackProbe(d), FallbackClosed(d)) ELSE Max({Floor[p] : p \in Chain(d)})})

\* No symbol waits longer than its present definition allows: a due time
\* carried over a handoff, or restored by a rollback, fits the definition it
\* now serves (_preserved_scheduler_symbols).
ScheduleFitsDefinition ==
  \A s \in queue : due[s] <= qNow + Longest(Def(s))

\* Polls are suppressed only by a stream quote that is waiting for publication
\* or was handed to the service: a rollback that drops queued quotes also takes back the
\* observations made with them (rollback_reconciliation, _flush_pending).
ObservationBacked ==
  life.phase = "running" =>
    \A s \in CSyms : observed[s] # Never => observed[s] <= Newest(s)

\* A running coordinator outside a handoff has all its components: a task
\* that died under the guard was rolled back or ended the coordinator
\* (_guard_reconciled_component, finalize_reconciliation).
ComponentsAlive ==
  life.phase = "running" /\ token = NoToken => life.sched = "on"

\* Collection goes on for every symbol (MarketDataCoordinator): through
\* failures, handoffs and rollbacks the scheduler lives, holds each symbol of
\* its catalog once, and lets none wait longer than its definition says.
CollectionGoesOn == NoSymbolLost /\ ScheduleFitsDefinition /\ ComponentsAlive

\* A stream stands in for polls only as long as it may, and only with quotes
\* that reached the service or will (_poll_quote_once, rollback_reconciliation).
SuppressionSound == SuppressionBounded /\ ObservationBacked
=============================================================================
