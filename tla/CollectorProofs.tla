-------------------------- MODULE CollectorProofs --------------------------
(***************************************************************************)
(* Proofs about the collectors: what the quote scheduler keeps through     *)
(* failures, handoffs and rollbacks, and that what failed is retried soon. *)
(***************************************************************************)
EXTENDS Collectors, TLAPS

(***************************************************************************)
(* The quote scheduler and its handoff                                     *)
(***************************************************************************)
Phases == {"new", "prepared", "gated", "preseed", "running", "done"}
Lives == [phase : Phases, stop : BOOLEAN, closed : BOOLEAN, fatal : BOOLEAN,
          cat : DOMAIN CCatalogs, sched : {"off", "on", "held"}]
Streams == [state : {"off", "connecting", "up", "waiting"}, delay : 1..MaxDelay, wake : Int]
Tokens == [pc : {"quiescing", "swapped", "switched", "committed", "undoing"},
           old : DOMAIN CCatalogs, new : DOMAIN CCatalogs,
           reuse : BOOLEAN, retained : BOOLEAN, streamed : BOOLEAN,
           due : [CSyms -> Int], observed : [CSyms -> Stamps]]
Bounds == [handoffs : Int, failures : Int]

\* Types, with the records' fields (MarketDataCoordinator.__init__).
TypesInv ==
  /\ qNow \in QClock /\ life \in Lives /\ stream \in Streams /\ bound \in Bounds
  /\ due \in [CSyms -> Int] /\ queue \in SUBSET CSyms /\ inflight \in SUBSET CSyms
  /\ skipped \in SUBSET CSyms
  /\ observed \in [CSyms -> Stamps] /\ pending \in [CSyms -> Stamps] /\ published \in [CSyms -> Stamps]
  /\ token \in Tokens \cup {NoToken}

\* The scheduler is off exactly while a handoff has it cancelled, and held
\* only in one that is not decided.
LifeInv ==
  /\ life.phase = "running" =>
       /\ life.sched = "on" => token.pc \notin {"quiescing", "undoing"}
       /\ life.sched = "off" => token.pc \in {"quiescing", "undoing"}
       /\ life.sched = "held" => token.pc \in {"swapped", "switched", "committed"}
  /\ life.phase \in {"new", "prepared", "gated", "preseed"} =>
       token = NoToken /\ due = Nothing /\ observed = Nothing /\ stream = Off

\* A running scheduler holds each symbol once, due in time; any other holds none.
HeapInv ==
  IF Running
  THEN /\ queue \cup inflight = Active(life.cat) /\ queue \cap inflight = {} /\ skipped \subseteq queue
       /\ \A s \in Active(life.cat) : due[s] <= qNow + Longest(Def(s))
  ELSE queue = {} /\ inflight = {} /\ skipped = {}

\* What the token kept for a rollback is still fit for it: the due times, and
\* the observations, whose quotes are published by the swap.
TokenInv ==
  token # NoToken =>
    /\ token.pc = "quiescing" => life.cat = token.old /\ due = token.due
    /\ life.phase = "running" =>
         /\ \A s \in Active(token.old) : token.due[s] <= qNow + Longest(CCatalogs[token.old][s])
         /\ \A s \in CSyms :
              token.observed[s] <= IF token.pc = "quiescing" THEN Newest(s) ELSE published[s]

ObservedInv == life.phase = "running" => \A s \in CSyms : observed[s] <= Newest(s)

SkippedInv ==
  \A s \in skipped : due[s] <= Newest(s) + Sooner(Def(s).stale, Suppression) + Overrun(Def(s))

QuotesInv == TypesInv /\ LifeInv /\ HeapInv /\ TokenInv /\ ObservedInv /\ SkippedInv

(***************************************************************************)
(* The history loop                                                        *)
(***************************************************************************)
Cycles == [pc : {"daily", "minutes"}, withFx : BOOLEAN, due : SUBSET Regulars, retry : BOOLEAN,
           todo : SUBSET Hubs, work : SUBSET Symbols, busy : SUBSET Symbols,
           intervals : UNION {[hubs -> SUBSET MinuteBars] : hubs \in SUBSET Hubs}]
Preseeds == [pc : {"preseed"}, todo : SUBSET Hubs]

LoopTypes ==
  /\ lNow \in Nat /\ handoffs \in Nat /\ listed \in LoopCatalogs
  /\ cycle \in Cycles \cup Preseeds \cup {Resting}
  /\ regularDue \in [Regulars -> Nat] /\ fx \in [due : Nat, retryOnly : BOOLEAN]
  /\ dailyRetry \subseteq Hubs /\ failedIntervals \subseteq Hubs \X MinuteBars
  /\ prefixRetry \in [Symbols -> Nat] /\ bars \in [Symbols -> Outcomes]
  /\ lastBad \subseteq Hubs \X (MinuteBars \cup {"1d"})

\* Only a cycle that includes the hubs, or the preseed, works on one, and it
\* does not begin before the hubs are due.
CycleInv ==
  /\ cycle.pc \in {"daily", "minutes"} =>
       IF cycle.withFx THEN fx.due <= lNow
       ELSE cycle.todo = {} /\ (cycle.work \cup cycle.busy) \cap Hubs = {}
  /\ cycle.pc = "preseed" => fx.due = 0 /\ \A h \in cycle.todo : prefixRetry[h] = 0

\* What failed is on record, and due soon.
BadInv ==
  /\ \A h \in Hubs, i \in MinuteBars : <<h, i>> \in lastBad => <<h, i>> \in failedIntervals
  /\ \A h \in Hubs : <<h, "1d">> \in lastBad =>
       h \in dailyRetry /\ bars[h] # "full" /\ prefixRetry[h] <= lNow
  /\ lastBad # {} => fx.due <= lNow + RetryAfter

HistoryInv == LoopTypes /\ CycleInv /\ BadInv

(***************************************************************************)
(* The metadata loop                                                       *)
(***************************************************************************)
MetadataInv ==
  /\ yNow \in Nat /\ yHandoffs \in Nat /\ yListed \in YCatalogs /\ degraded \subseteq YSyms
  /\ meta \in [due : [YSyms -> Nat], todo : SUBSET YSyms, busy : SUBSET YSyms]
  /\ DegradedRetriedEarly

(***************************************************************************)
(* Waiting times                                                           *)
(***************************************************************************)
\* A set of integers that has a largest element has it as its maximum.
LEMMA MaxBounds ==
  ASSUME NEW S \in SUBSET Int, \E m \in S : \A y \in S : m >= y
  PROVE  Max(S) \in S /\ \A y \in S : Max(S) >= y
<1> DEFINE c == CHOOSE x \in S : \A y \in S : x >= y
<1>1. c \in S /\ \A y \in S : c >= y
  OBVIOUS
<1>2. Max(S) = c
  BY DEF Max
<1> QED BY <1>1, <1>2

\* MinimumPoll, ClosedPoll and Floor are natural numbers of both providers.
LEMMA WaitsAreNatural ==
  /\ \A p \in Providers : MinimumPoll[p] \in Nat /\ ClosedPoll[p] \in Nat /\ Floor[p] \in Nat
  /\ Primary \in Providers /\ Spare \in Providers
BY CollectorAssumption DEF Providers

\* The chain's maximum, together with a value of the definition, bounds both.
LEMMA ChainMax ==
  ASSUME NEW d \in Definitions, NEW f \in [Providers -> Nat], NEW x \in Nat
  PROVE  /\ Max({x} \cup {f[p] : p \in Chain(d)}) \in Nat
         /\ Max({x} \cup {f[p] : p \in Chain(d)}) >= x
         /\ \A q \in Chain(d) : Max({x} \cup {f[p] : p \in Chain(d)}) >= f[q]
         /\ Max({f[p] : p \in Chain(d)}) \in Nat
         /\ \A q \in Chain(d) : Max({f[p] : p \in Chain(d)}) >= f[q]
<1> DEFINE A == {x} \cup {f[p] : p \in Chain(d)}
           B == {f[p] : p \in Chain(d)}
<1>1. f[Primary] \in Nat /\ f[Spare] \in Nat
  BY DEF Providers
<1> SUFFICES /\ Max(A) \in Nat /\ Max(A) >= x /\ \A p \in Chain(d) : Max(A) >= f[p]
             /\ Max(B) \in Nat /\ \A p \in Chain(d) : Max(B) >= f[p]
  OBVIOUS
<1>2. CASE d.head = Primary
  <2>1. Chain(d) = {Primary, Spare}
    BY <1>2 DEF Chain, Providers
  <2>2. A = {x, f[Primary], f[Spare]} /\ B = {f[Primary], f[Spare], f[Spare]}
    BY <2>1
  <2> HIDE DEF A, B
  <2>3. Max(A) \in {x, f[Primary], f[Spare]} /\ Max(A) >= x /\ Max(A) >= f[Primary] /\ Max(A) >= f[Spare]
    <3>1. A \in SUBSET Int /\ \E m \in A : \A y \in A : m >= y
      BY <1>1, <2>2
    <3> QED BY <2>2, <3>1, MaxBounds
  <2>4. Max(B) \in {f[Primary], f[Spare]} /\ Max(B) >= f[Primary] /\ Max(B) >= f[Spare]
    <3>1. B \in SUBSET Int /\ \E m \in B : \A y \in B : m >= y
      BY <1>1, <2>2
    <3> QED BY <2>2, <3>1, MaxBounds
  <2> QED BY <1>1, <2>1, <2>3, <2>4
<1>3. CASE d.head # Primary
  <2>1. Chain(d) = {Spare}
    BY <1>3 DEF Chain
  <2>2. A = {x, f[Spare], f[Spare]} /\ B = {f[Spare], f[Spare], f[Spare]}
    BY <2>1
  <2> HIDE DEF A, B
  <2>3. Max(A) \in {x, f[Spare]} /\ Max(A) >= x /\ Max(A) >= f[Spare]
    <3>1. A \in SUBSET Int /\ \E m \in A : \A y \in A : m >= y
      BY <1>1, <2>2
    <3> QED BY <2>2, <3>1, MaxBounds
  <2>4. Max(B) \in {f[Spare]} /\ Max(B) >= f[Spare]
    <3>1. B \in SUBSET Int /\ \E m \in B : \A y \in B : m >= y
      BY <1>1, <2>2
    <3> QED BY <2>2, <3>1, MaxBounds
  <2> QED BY <1>1, <2>1, <2>3, <2>4
<1> QED BY <1>2, <1>3

\* FallbackProbe and FallbackClosed bound the intervals of the whole chain.
LEMMA FallbackBounds ==
  ASSUME NEW d \in Definitions
  PROVE  /\ FallbackProbe(d) \in Nat /\ FallbackClosed(d) \in Nat /\ FallbackProbe(d) >= d.poll
         /\ \A p \in Chain(d) : FallbackProbe(d) >= MinimumPoll[p] /\ FallbackClosed(d) >= ClosedPoll[p]
<1>1. d.poll \in Nat
  BY DEF Definitions
<1>2. MinimumPoll \in [Providers -> Nat] /\ ClosedPoll \in [Providers -> Nat]
  BY CollectorAssumption
<1>3. 0 \in Nat
  OBVIOUS
<1> QED BY ONLY <1>1, <1>2, <1>3, ChainMax, d \in Definitions DEF FallbackProbe, FallbackClosed

\* What the longest wait of a definition covers.
LEMMA LongestBounds ==
  ASSUME NEW d \in Definitions
  PROVE  /\ Longest(d) \in Nat /\ Longest(d) >= d.poll /\ Longest(d) >= 1
         /\ d.head = Primary => Longest(d) >= Recheck /\ Longest(d) >= MinimumPoll[Primary]
         /\ d.equity => Longest(d) >= FallbackProbe(d) /\ Longest(d) >= FallbackClosed(d)
         /\ ~d.equity => \A p \in Chain(d) : Longest(d) >= Floor[p]
<1> DEFINE x == d.poll
           y == IF d.head = Primary THEN Later(Recheck, MinimumPoll[Primary]) ELSE 0
           z == IF d.equity THEN Later(FallbackProbe(d), FallbackClosed(d)) ELSE Max({Floor[p] : p \in Chain(d)})
<1>1. x \in Nat /\ x >= 1
  BY DEF Definitions
<1>2. y \in Nat /\ (d.head = Primary => y >= Recheck /\ y >= MinimumPoll[Primary])
  BY CollectorAssumption, WaitsAreNatural DEF Later
<1>3. /\ Max({Floor[p] : p \in Chain(d)}) \in Nat
      /\ \A q \in Chain(d) : Max({Floor[p] : p \in Chain(d)}) >= Floor[q]
  <2>1. Floor \in [Providers -> Nat] /\ 0 \in Nat
    BY CollectorAssumption
  <2> QED BY ONLY <2>1, ChainMax, d \in Definitions
<1>4. FallbackProbe(d) \in Nat /\ FallbackClosed(d) \in Nat
  BY FallbackBounds
<1>5. d.equity => z \in Nat /\ z >= FallbackProbe(d) /\ z >= FallbackClosed(d)
  BY <1>4 DEF Later
<1>6. ~d.equity => z \in Nat /\ \A p \in Chain(d) : z >= Floor[p]
  BY <1>3
<1>7. z \in Nat
  BY <1>5, <1>6
<1>8. Longest(d) = Max({x, y, z})
  BY DEF Longest
<1> HIDE DEF x, y, z
<1>9. Longest(d) \in {x, y, z} /\ Longest(d) >= x /\ Longest(d) >= y /\ Longest(d) >= z
  <2> DEFINE S == {x, y, z}
  <2>1. S \in SUBSET Int /\ \E m \in S : \A w \in S : m >= w
    BY <1>1, <1>2, <1>7
  <2>2. x \in S /\ y \in S /\ z \in S /\ Longest(d) = Max(S)
    BY <1>8
  <2>3. Max(S) \in S /\ \A w \in S : Max(S) >= w
    <3> HIDE DEF S
    <3> QED BY <2>1, MaxBounds
  <2> QED BY <2>2, <2>3
<1>10. Longest(d) \in Nat
  BY <1>1, <1>2, <1>7, <1>9
<1>11. Longest(d) >= 1 /\ (d.head = Primary => Longest(d) >= Recheck /\ Longest(d) >= MinimumPoll[Primary])
  BY <1>1, <1>2, <1>9, <1>10, CollectorAssumption, WaitsAreNatural
<1>12. d.equity => Longest(d) >= FallbackProbe(d) /\ Longest(d) >= FallbackClosed(d)
  BY <1>4, <1>5, <1>9, <1>10
<1>13. ASSUME ~d.equity, NEW p \in Chain(d) PROVE Longest(d) >= Floor[p]
  <2>1. p \in Providers
    BY DEF Chain, Providers
  <2> QED BY <1>6, <1>9, <1>10, <1>13, <2>1, WaitsAreNatural
<1> QED BY <1>9, <1>10, <1>11, <1>12, <1>13 DEF x

\* The wait after an answer fits the definition.
LEMMA QuoteIntervalFits ==
  ASSUME NEW d \in Definitions, NEW p \in Chain(d), NEW closed \in BOOLEAN, NEW calendar \in BOOLEAN
  PROVE  QuoteInterval(d, p, closed, calendar) \in Int /\ QuoteInterval(d, p, closed, calendar) <= Longest(d)
<1>1. p \in Providers
  BY DEF Chain, Providers
<1>2. MinimumPoll[p] \in Nat /\ ClosedPoll[p] \in Nat /\ Floor[p] \in Nat /\ d.poll \in Nat
  BY <1>1, WaitsAreNatural DEF Definitions
<1>3. /\ FallbackProbe(d) \in Nat /\ FallbackClosed(d) \in Nat /\ FallbackProbe(d) >= d.poll
      /\ FallbackProbe(d) >= MinimumPoll[p] /\ FallbackClosed(d) >= ClosedPoll[p]
  BY FallbackBounds
<1>4. /\ Longest(d) \in Nat /\ Longest(d) >= d.poll
      /\ d.equity => Longest(d) >= FallbackProbe(d) /\ Longest(d) >= FallbackClosed(d)
      /\ ~d.equity => Longest(d) >= Floor[p]
  BY LongestBounds
<1>5. CASE ~d.equity
  BY <1>2, <1>4, <1>5 DEF QuoteInterval, Later
<1>6. CASE d.equity
  <2> DEFINE fallback == p # d.head
             base == IF fallback THEN Later(d.poll, FallbackProbe(d)) ELSE d.poll
             open == Later(base, MinimumPoll[p])
             other == IF fallback THEN FallbackClosed(d) ELSE 0
  <2>1. base \in Nat /\ base <= Longest(d)
    BY <1>2, <1>3, <1>4, <1>6 DEF Later
  <2>2. open \in Nat /\ open <= Longest(d)
    <3> HIDE DEF base
    <3> QED BY <1>2, <1>3, <1>4, <1>6, <2>1 DEF Later
  <2>3. other \in Nat /\ other <= Longest(d) /\ ClosedPoll[p] <= Longest(d)
    BY <1>2, <1>3, <1>4, <1>6
  <2>4. QuoteInterval(d, p, closed, calendar) =
          IF closed /\ (fallback => calendar) THEN Max({open, ClosedPoll[p], other}) ELSE open
    BY <1>6 DEF QuoteInterval
  <2> HIDE DEF fallback, base, open, other
  <2>5. Max({open, ClosedPoll[p], other}) \in {open, ClosedPoll[p], other}
    <3> DEFINE S == {open, ClosedPoll[p], other}
    <3>1. S \in SUBSET Int /\ \E m \in S : \A w \in S : m >= w
      BY <1>2, <2>2, <2>3
    <3>2. Max(S) \in S
      <4> HIDE DEF S
      <4> QED BY <3>1, MaxBounds
    <3> QED BY <3>2
  <2> QED BY <1>2, <2>2, <2>3, <2>4, <2>5
<1> QED BY <1>5, <1>6 DEF Definitions

\* The wait after a failure fits the definition.
LEMMA FailureIntervalFits ==
  ASSUME NEW d \in Definitions, NEW calendar \in BOOLEAN
  PROVE  FailureInterval(d, calendar) \in Int /\ FailureInterval(d, calendar) <= Longest(d)
<1>1. /\ FallbackProbe(d) \in Nat /\ FallbackClosed(d) \in Nat /\ d.poll \in Nat /\ Hint \in Nat
      /\ Longest(d) \in Nat /\ Longest(d) >= d.poll
      /\ d.equity => Longest(d) >= FallbackProbe(d) /\ Longest(d) >= FallbackClosed(d)
  BY FallbackBounds, LongestBounds, CollectorAssumption DEF Definitions
<1> QED BY <1>1 DEF FailureInterval, Later, Sooner

\* A suppressed poll fits the definition too, and stays within the time of the
\* quote that suppressed it.
LEMMA SkipIntervalFits ==
  ASSUME NEW s \in CSyms, Def(s) \in Definitions, qNow \in Nat, observed[s] \in Int, Suppressed(s)
  PROVE  /\ SkipInterval(s) \in Int
         /\ Later(1, SkipInterval(s)) <= Longest(Def(s))
         /\ qNow + Later(1, SkipInterval(s))
              <= observed[s] + Sooner(Def(s).stale, Suppression) + Overrun(Def(s))
<1> DEFINE d == Def(s)
           limit == Sooner(d.stale, Suppression)
           base == Later(d.poll, MinimumPoll[Primary])
           remaining == limit - (qNow - observed[s])
<1>1. d.head = Primary /\ SuppressionOf(d) = limit /\ limit > 0 /\ qNow - observed[s] < limit
  BY DEF Suppressed, SuppressionOf
<1>2. d.poll \in Nat /\ d.poll >= 1 /\ d.stale \in Nat /\ MinimumPoll[Primary] \in Nat
      /\ Recheck \in Nat /\ Suppression \in Nat
  BY WaitsAreNatural, CollectorAssumption DEF Definitions
<1>3. limit \in Nat
  BY <1>2 DEF Sooner
<1>4. Longest(d) \in Nat /\ Longest(d) >= d.poll /\ Longest(d) >= Recheck /\ Longest(d) >= MinimumPoll[Primary]
  BY <1>1, LongestBounds
<1>5. base \in Nat /\ base >= 1 /\ base <= Longest(d)
  BY <1>2, <1>4 DEF Later
<1>6. remaining \in Int /\ remaining >= 1 /\ qNow + remaining = observed[s] + limit
  BY <1>1, <1>3
<1>7. SkipInterval(s) = IF Recheck = 0 THEN base ELSE Sooner(Later(base, Recheck), remaining)
  BY <1>1 DEF SkipInterval
<1>8. Overrun(d) = IF Recheck > 0 THEN 0 ELSE base
  BY DEF Overrun
<1> HIDE DEF limit, base, remaining
<1>9. CASE Recheck = 0
  <2>1. SkipInterval(s) = base /\ Overrun(d) = base
    BY <1>2, <1>7, <1>8, <1>9
  <2>2. qNow <= observed[s] + limit
    BY <1>1, <1>3
  <2> QED BY <1>3, <1>5, <2>1, <2>2 DEF Later, limit
<1>10. CASE Recheck # 0
  <2>1. SkipInterval(s) = Sooner(Later(base, Recheck), remaining) /\ Overrun(d) = 0
    BY <1>2, <1>7, <1>8, <1>10
  <2>2. SkipInterval(s) \in Int /\ SkipInterval(s) <= remaining /\ SkipInterval(s) <= Longest(d)
    BY <1>2, <1>4, <1>5, <1>6, <2>1 DEF Later, Sooner
  <2>3. SkipInterval(s) >= 1
    BY <1>2, <1>5, <1>6, <2>1 DEF Later, Sooner
  <2>4. Later(1, SkipInterval(s)) = SkipInterval(s)
    BY <2>2, <2>3 DEF Later
  <2> QED BY <1>3, <1>6, <2>1, <2>2, <2>4 DEF limit
<1> QED BY <1>9, <1>10

(***************************************************************************)
(* The steps of the quote scheduler                                        *)
(***************************************************************************)
\* Definitions of listed symbols are definitions.
LEMMA ListedDefined ==
  ASSUME NEW cat \in DOMAIN CCatalogs, NEW s \in Active(cat)
  PROVE  s \in CSyms /\ CCatalogs[cat][s] \in Definitions /\ Longest(CCatalogs[cat][s]) \in Nat
<1>1. s \in CSyms /\ CCatalogs[cat][s] \in Definitions
  BY CollectorAssumption DEF Active
<1> QED BY <1>1, LongestBounds

\* The clock and the stamps are integers, none before Never.
LEMMA StampsAreIntegers ==
  ASSUME TypesInv
  PROVE  /\ qNow \in Nat /\ qNow \in Stamps
         /\ \A t \in Stamps : t \in Int /\ t >= Never
         /\ \A s \in CSyms : /\ due[s] \in Int /\ observed[s] \in Stamps
                             /\ pending[s] \in Stamps /\ published[s] \in Stamps
                             /\ Newest(s) \in Stamps /\ Newest(s) >= pending[s] /\ Newest(s) >= published[s]
<1>1. qNow \in Nat /\ qNow \in Stamps /\ Never \in Stamps
  BY CollectorAssumption DEF TypesInv, QClock, Stamps
<1>2. \A t \in Stamps : t \in Int /\ t >= Never
  BY CollectorAssumption DEF QClock, Stamps, Never
<1>3. ASSUME NEW s \in CSyms
      PROVE  /\ due[s] \in Int /\ observed[s] \in Stamps
             /\ pending[s] \in Stamps /\ published[s] \in Stamps
             /\ Newest(s) \in Stamps /\ Newest(s) >= pending[s] /\ Newest(s) >= published[s]
  <2>1. due[s] \in Int /\ observed[s] \in Stamps /\ pending[s] \in Stamps /\ published[s] \in Stamps
    BY DEF TypesInv
  <2>2. pending[s] \in Int /\ published[s] \in Int
    BY <1>2, <2>1
  <2> QED BY <2>1, <2>2 DEF Newest, Later
<1> QED BY <1>1, <1>2, <1>3

\* The initial state satisfies the invariant.
LEMMA QuotesInitially == CollectorInit => QuotesInv
<1> SUFFICES ASSUME CollectorInit PROVE QuotesInv
  OBVIOUS
<1>1. Nothing \in [CSyms -> Stamps] /\ Nothing \in [CSyms -> Int] /\ Off \in Streams
  BY CollectorAssumption DEF Nothing, Stamps, Never, Off, Streams
<1>2. TypesInv
  BY <1>1, CollectorAssumption DEF CollectorInit, TypesInv, Lives, Phases, Bounds, QClock
<1>3. LifeInv /\ HeapInv /\ TokenInv /\ ObservedInv /\ SkippedInv
  BY DEF CollectorInit, LifeInv, HeapInv, TokenInv, ObservedInv, SkippedInv, Running
<1> QED BY <1>2, <1>3 DEF QuotesInv

\* Before the collectors run: the supervisor's phase moves on.
LEMMA StartupKeeps ==
  ASSUME QuotesInv, Prepare \/ (\E gated \in BOOLEAN : Activate(gated)) \/ ReleaseActivation
  PROVE  QuotesInv'
<1>1. /\ life.phase \in {"new", "prepared", "gated"}
      /\ life' = [life EXCEPT !.phase = life'.phase] /\ life'.phase \in {"prepared", "gated", "preseed"}
      /\ UNCHANGED <<qNow, due, queue, inflight, skipped, stream, observed, pending, published, token, bound>>
  BY DEF QuotesInv, TypesInv, Lives, Prepare, Activate, ReleaseActivation, schedule, quotes
<1>2. life' \in Lives /\ life.phase # "running" /\ life'.phase # "running"
  BY <1>1 DEF QuotesInv, TypesInv, Lives, Phases
<1>3. TypesInv'
  BY <1>1, <1>2 DEF QuotesInv, TypesInv
<1>4. LifeInv'
  BY <1>1, <1>2 DEF QuotesInv, LifeInv, Nothing, Off
<1>5. HeapInv' /\ TokenInv' /\ ObservedInv' /\ SkippedInv'
  BY <1>1, <1>2 DEF QuotesInv, LifeInv, HeapInv, TokenInv, ObservedInv, SkippedInv, Running
<1> QED BY <1>3, <1>4, <1>5 DEF QuotesInv

\* A freshly started scheduler holds every listed symbol, due at once or when
\* it was due before.
LEMMA ScheduledFits ==
  ASSUME QuotesInv, NEW cat \in DOMAIN CCatalogs, NEW kept \in [CSyms -> Int], Scheduled(cat, kept), UNCHANGED qNow,
         \A s \in Active(cat) : kept[s] # Never => kept[s] <= qNow + Longest(CCatalogs[cat][s])
  PROVE  /\ due' \in [CSyms -> Int] /\ queue' \in SUBSET CSyms /\ inflight' \in SUBSET CSyms
         /\ queue' \cup inflight' = Active(cat) /\ queue' \cap inflight' = {}
         /\ \A s \in Active(cat) : due'[s] <= qNow' + Longest(CCatalogs[cat][s])
<1>1. qNow \in Int /\ qNow \in Nat /\ Never \in Int
  BY StampsAreIntegers DEF QuotesInv, Never
<1>2. Active(cat) \subseteq CSyms
  BY DEF Active
<1>3. due' \in [CSyms -> Int] /\ queue' = Active(cat) /\ inflight' = {}
  BY <1>1 DEF Scheduled
<1>4. ASSUME NEW s \in Active(cat) PROVE due'[s] <= qNow' + Longest(CCatalogs[cat][s])
  <2>1. s \in CSyms /\ Longest(CCatalogs[cat][s]) \in Nat
    BY ListedDefined
  <2>2. due'[s] = IF kept[s] # Never THEN kept[s] ELSE qNow
    BY <2>1 DEF Scheduled
  <2> QED BY <1>1, <2>1, <2>2
<1> QED BY <1>2, <1>3, <1>4

\* The collectors start, unless a stop came before.
LEMMA RunCollectorsKeeps ==
  ASSUME QuotesInv, RunCollectors
  PROVE  QuotesInv'
<1> USE DEF QuotesInv
<1>1. /\ life.phase = "preseed" /\ life \in Lives /\ token = NoToken /\ due = Nothing
      /\ UNCHANGED <<qNow, observed, pending, published, token, bound>>
  BY DEF RunCollectors, LifeInv, TypesInv, quotes
<1>2. CASE life.stop
  <2>1. life' = [life EXCEPT !.phase = "done"] /\ UNCHANGED <<due, queue, inflight, skipped, stream>>
    BY <1>2 DEF RunCollectors, schedule
  <2>2. life' \in Lives /\ life'.phase = "done" /\ life.phase # "running"
    BY <1>1, <2>1 DEF Lives, Phases
  <2>3. TypesInv' /\ LifeInv'
    BY <1>1, <2>1, <2>2 DEF TypesInv, LifeInv
  <2>4. HeapInv' /\ TokenInv' /\ ObservedInv' /\ SkippedInv'
    BY <1>1, <2>1, <2>2 DEF HeapInv, TokenInv, ObservedInv, SkippedInv, Running
  <2> QED BY <2>3, <2>4
<1>3. CASE ~life.stop
  <2>1. /\ life' = [life EXCEPT !.phase = "running", !.sched = "on"] /\ Scheduled(life.cat, due)
        /\ skipped' = {} /\ stream' = StreamTask(life.cat)
    BY <1>3 DEF RunCollectors
  <2>2. /\ life' \in Lives /\ life'.phase = "running" /\ life'.sched = "on" /\ life'.cat = life.cat
        /\ life.cat \in DOMAIN CCatalogs
    BY <1>1, <2>1 DEF Lives, Phases
  <2>3. due \in [CSyms -> Int] /\ \A s \in Active(life.cat) : due[s] = Never
    BY <1>1 DEF TypesInv, Nothing, Active
  <2>4. /\ due' \in [CSyms -> Int] /\ queue' \in SUBSET CSyms /\ inflight' \in SUBSET CSyms
        /\ queue' \cup inflight' = Active(life.cat) /\ queue' \cap inflight' = {}
        /\ \A s \in Active(life.cat) : due'[s] <= qNow' + Longest(CCatalogs[life.cat][s])
    BY <1>1, <2>1, <2>2, <2>3, ScheduledFits
  <2>5. stream' \in Streams
    BY <2>1, CollectorAssumption DEF StreamTask, Off, Streams
  <2>6. TypesInv'
    BY <1>1, <2>1, <2>2, <2>4, <2>5 DEF TypesInv
  <2>7. LifeInv'
    BY <1>1, <2>2 DEF LifeInv, NoToken
  <2>8. HeapInv'
    BY <2>1, <2>2, <2>4 DEF HeapInv, Running, Def
  <2>9. TokenInv' /\ SkippedInv'
    BY <1>1, <2>1 DEF TokenInv, SkippedInv
  <2>10. ObservedInv'
    <3> SUFFICES ASSUME NEW s \in CSyms PROVE (observed[s] <= Newest(s))'
      BY DEF ObservedInv
    <3>1. observed = Nothing
      BY <1>1 DEF LifeInv
    <3>2. observed[s] = Never /\ Newest(s) \in Int /\ Newest(s) >= Never
      BY <3>1, StampsAreIntegers DEF Nothing
    <3>3. observed'[s] = observed[s] /\ Newest(s)' = Newest(s)
      BY <1>1 DEF Newest
    <3> QED BY <3>2, <3>3 DEF Never
  <2> QED BY <2>6, <2>7, <2>8, <2>9, <2>10
<1> QED BY <1>2, <1>3

\* A step that leaves the scheduler, its catalog and the token alone, and lets
\* time, quotes and observations only move on.
LEMMA QuotesMoveOn ==
  ASSUME QuotesInv, UNCHANGED <<due, queue, inflight, skipped, token, bound>>,
         life' \in Lives, life'.phase = life.phase, life'.sched = life.sched, life'.cat = life.cat,
         qNow' \in QClock, qNow' >= qNow, stream' \in Streams,
         observed' \in [CSyms -> Stamps], pending' \in [CSyms -> Stamps], published' \in [CSyms -> Stamps],
         \A s \in CSyms : Newest(s)' >= Newest(s) /\ published'[s] >= published[s],
         life.phase = "running" => \A s \in CSyms : observed'[s] <= Newest(s)',
         life.phase \in {"new", "prepared", "gated", "preseed"} => observed' = observed /\ stream' = stream
  PROVE  QuotesInv'
<1>1. TypesInv /\ TypesInv'
  BY DEF QuotesInv, TypesInv
<1>2. LifeInv'
  BY DEF QuotesInv, LifeInv, Nothing, Off
<1>3. qNow \in Int /\ qNow' \in Int
  BY <1>1, StampsAreIntegers, CollectorAssumption DEF QClock
<1>4. ASSUME NEW s \in CSyms
      PROVE  Newest(s) \in Int /\ published[s] \in Int /\ Newest(s)' \in Int /\ published'[s] \in Int /\ due[s] \in Int
  <2>1. pending[s] \in Int /\ published[s] \in Int /\ due[s] \in Int /\ Newest(s) \in Int
    BY <1>1, StampsAreIntegers
  <2>2. pending'[s] \in Stamps /\ published'[s] \in Stamps
    OBVIOUS
  <2>3. pending'[s] \in Int /\ published'[s] \in Int
    BY <1>1, <2>2, StampsAreIntegers
  <2> QED BY <2>1, <2>3 DEF Newest, Later
<1>5. HeapInv'
  <2>1. Running' <=> Running
    BY DEF Running
  <2>2. CASE Running
    <3>1. ASSUME NEW s \in Active(life.cat) PROVE due[s] <= qNow' + Longest(Def(s))
      <4>1. s \in CSyms /\ Longest(Def(s)) \in Nat
        BY <1>1, ListedDefined DEF TypesInv, Lives, Def
      <4> QED BY <1>3, <1>4, <2>2, <4>1 DEF QuotesInv, HeapInv
    <3>2. \A s : Def(s)' = Def(s)
      BY DEF Def
    <3> QED BY <2>1, <2>2, <3>1, <3>2 DEF QuotesInv, HeapInv
  <2>3. CASE ~Running
    BY <2>1, <2>3 DEF QuotesInv, HeapInv
  <2> QED BY <2>2, <2>3
<1>6. TokenInv'
  <2> SUFFICES ASSUME token # NoToken
               PROVE  /\ token.pc = "quiescing" => life.cat = token.old /\ due = token.due
                      /\ life.phase = "running" =>
                           /\ \A s \in Active(token.old) : token.due[s] <= qNow' + Longest(CCatalogs[token.old][s])
                           /\ \A s \in CSyms :
                                token.observed[s] <= IF token.pc = "quiescing" THEN Newest(s)' ELSE published'[s]
    BY DEF TokenInv
  <2>1. token \in Tokens
    BY <1>1 DEF TypesInv
  <2>2. token.pc = "quiescing" => life.cat = token.old /\ due = token.due
    BY DEF QuotesInv, TokenInv
  <2>3. ASSUME life.phase = "running", NEW s \in Active(token.old)
        PROVE  token.due[s] <= qNow' + Longest(CCatalogs[token.old][s])
    <3>1. token.old \in DOMAIN CCatalogs /\ token.due \in [CSyms -> Int]
      BY <2>1 DEF Tokens
    <3>2. s \in CSyms /\ Longest(CCatalogs[token.old][s]) \in Nat /\ token.due[s] \in Int
      BY <3>1, ListedDefined
    <3> QED BY <1>3, <2>3, <3>2 DEF QuotesInv, TokenInv
  <2>4. ASSUME life.phase = "running", NEW s \in CSyms
        PROVE  token.observed[s] <= IF token.pc = "quiescing" THEN Newest(s)' ELSE published'[s]
    <3>1. token.observed[s] \in Stamps
      BY <2>1 DEF Tokens
    <3>2. token.observed[s] \in Int
      BY <1>1, <3>1, StampsAreIntegers
    <3>3. token.observed[s] <= IF token.pc = "quiescing" THEN Newest(s) ELSE published[s]
      BY <2>4 DEF QuotesInv, TokenInv
    <3> QED BY <1>4, <3>2, <3>3
  <2> QED BY <2>2, <2>3, <2>4
<1>7. ObservedInv'
  BY DEF ObservedInv
<1>8. SkippedInv'
  <2> SUFFICES ASSUME NEW s \in skipped
               PROVE  due[s] <= Newest(s)' + Sooner(Def(s).stale, Suppression) + Overrun(Def(s))
    BY DEF SkippedInv, Def
  <2>1. Running /\ s \in Active(life.cat)
    BY DEF QuotesInv, HeapInv
  <2>2. s \in CSyms /\ Def(s) \in Definitions
    BY <1>1, <2>1, ListedDefined DEF TypesInv, Lives, Def
  <2>3. Sooner(Def(s).stale, Suppression) \in Int /\ Overrun(Def(s)) \in Int
    BY <2>2, CollectorAssumption, WaitsAreNatural DEF Definitions, Sooner, Overrun, Later
  <2>4. due[s] <= Newest(s) + Sooner(Def(s).stale, Suppression) + Overrun(Def(s))
    BY DEF QuotesInv, SkippedInv
  <2> QED BY <1>4, <2>2, <2>3, <2>4
<1> QED BY <1>1, <1>2, <1>5, <1>6, <1>7, <1>8 DEF QuotesInv

\* A flush moves the newest quotes from one place to the other.
LEMMA FlushKeepsNewest ==
  ASSUME TypesInv, Flushed
  PROVE  /\ pending' \in [CSyms -> Stamps] /\ published' \in [CSyms -> Stamps] /\ pending' = Nothing
         /\ \A s \in CSyms : Newest(s)' = Newest(s) /\ published'[s] = Newest(s) /\ published'[s] >= published[s]
<1>1. \A s \in CSyms : published'[s] = Later(published[s], pending[s]) /\ pending'[s] = Never
  BY DEF Flushed, Nothing
<1>2. ASSUME NEW s \in CSyms
      PROVE  Newest(s)' = Newest(s) /\ published'[s] = Newest(s) /\ published'[s] >= published[s] /\ published'[s] \in Stamps
  <2>1. /\ pending[s] \in Stamps /\ published[s] \in Stamps
        /\ pending[s] \in Int /\ published[s] \in Int /\ pending[s] >= Never /\ published[s] >= Never /\ Never \in Int
    BY StampsAreIntegers DEF Never
  <2>2. published'[s] = Newest(s)
    BY <1>1, <2>1 DEF Newest, Later
  <2>3. published'[s] \in Stamps /\ published'[s] \in Int /\ published'[s] >= published[s] /\ published'[s] >= Never
    BY <2>1, <2>2 DEF Newest, Later
  <2>4. Newest(s)' = Later(Never, published'[s])
    BY <1>1 DEF Newest
  <2>5. Newest(s)' = published'[s]
    BY <2>1, <2>3, <2>4 DEF Later
  <2> QED BY <2>2, <2>3, <2>5
<1>3. pending' \in [CSyms -> Stamps] /\ published' \in [CSyms -> Stamps] /\ pending' = Nothing
  <2>1. Never \in Stamps
    BY DEF Stamps
  <2>2. DOMAIN published' = CSyms /\ published' = [s \in CSyms |-> published'[s]]
    BY DEF Flushed
  <2> QED BY <1>2, <2>1, <2>2 DEF Flushed, Nothing
<1> QED BY <1>2, <1>3

\* The publish loop and the last flush of stop().
LEMMA FlushingKeeps ==
  ASSUME QuotesInv, PublishLoop \/ Close
  PROVE  QuotesInv'
<1>1. TypesInv /\ Flushed /\ UNCHANGED <<qNow, due, queue, inflight, skipped, stream, observed, token, bound>>
  BY DEF QuotesInv, PublishLoop, Close, schedule
<1>2. life' \in Lives /\ life'.phase = life.phase /\ life'.sched = life.sched /\ life'.cat = life.cat
  BY DEF QuotesInv, TypesInv, Lives, PublishLoop, Close
<1>3. qNow' \in QClock /\ qNow' >= qNow /\ stream' \in Streams /\ observed' \in [CSyms -> Stamps]
  BY <1>1, StampsAreIntegers DEF TypesInv
<1>4. \A s \in CSyms : Newest(s)' >= Newest(s) /\ published'[s] >= published[s]
  BY <1>1, FlushKeepsNewest, StampsAreIntegers
<1>5. life.phase = "running" => \A s \in CSyms : observed'[s] <= Newest(s)'
  BY <1>1, FlushKeepsNewest DEF QuotesInv, ObservedInv
<1> QED BY <1>1, <1>2, <1>3, <1>4, <1>5, FlushKeepsNewest, QuotesMoveOn

\* Time passes.
LEMMA TickKeeps ==
  ASSUME QuotesInv, QTick
  PROVE  QuotesInv'
<1>1. TypesInv /\ UNCHANGED <<life, due, queue, inflight, skipped, stream, observed, pending, published, token, bound>>
  BY DEF QuotesInv, QTick, schedule, quotes
<1>2. qNow' \in QClock /\ qNow' >= qNow
  BY CollectorAssumption DEF QuotesInv, TypesInv, QTick, QClock
<1>3. /\ life' \in Lives /\ stream' \in Streams /\ observed' \in [CSyms -> Stamps]
      /\ pending' \in [CSyms -> Stamps] /\ published' \in [CSyms -> Stamps]
  BY <1>1 DEF TypesInv
<1>4. \A s \in CSyms : Newest(s)' >= Newest(s) /\ published'[s] >= published[s]
  <2>1. \A s \in CSyms : Newest(s)' = Newest(s) /\ Newest(s) \in Int /\ published[s] \in Int
    BY <1>1, StampsAreIntegers DEF Newest
  <2> QED BY <1>1, <2>1
<1>5. life.phase = "running" => \A s \in CSyms : observed'[s] <= Newest(s)'
  BY <1>1 DEF QuotesInv, ObservedInv, Newest
<1> QED BY <1>1, <1>2, <1>3, <1>4, <1>5, QuotesMoveOn

\* A quote that is queued leaves the newest no older, and no older than itself.
LEMMA QueuedIsNewest ==
  ASSUME TypesInv, NEW s \in CSyms, NEW t \in Stamps, pending' = Queued(pending, s, t), published' = published
  PROVE  /\ pending' \in [CSyms -> Stamps] /\ Newest(s)' >= t
         /\ \A o \in CSyms : Newest(o)' >= Newest(o)
<1>1. t \in Int /\ Later(pending[s], t) \in Stamps
  BY StampsAreIntegers DEF Later
<1>2. pending' \in [CSyms -> Stamps]
  BY <1>1 DEF TypesInv, Queued
<1>3. pending'[s] = Later(pending[s], t) /\ \A o \in CSyms \ {s} : pending'[o] = pending[o]
  BY DEF TypesInv, Queued
<1>4. ASSUME NEW o \in CSyms PROVE Newest(o)' >= Newest(o) /\ (o = s => Newest(o)' >= t)
  <2>1. pending[o] \in Int /\ published[o] \in Int /\ Newest(o)' = Later(pending'[o], published[o])
    BY StampsAreIntegers DEF Newest
  <2> QED BY <1>1, <1>3, <2>1 DEF Newest, Later
<1> QED BY <1>2, <1>4

\* The times of quotes that arrive are stamps.
LEMMA ArrivingIsStamp ==
  ASSUME TypesInv, NEW t \in Arriving
  PROVE  t \in Stamps /\ t \in Nat
<1>1. PICK lag \in Lags : t = qNow - lag
  BY DEF Arriving
<1>2. lag \in Nat /\ qNow \in 0..QTime /\ t \in Nat
  BY CollectorAssumption DEF TypesInv, QClock, Arriving
<1> QED BY <1>1, <1>2, CollectorAssumption DEF Stamps, QClock

\* A message of the stream: the observation comes with its quote.
LEMMA StreamMessageKeeps ==
  ASSUME QuotesInv, NEW s \in CSyms, NEW t \in Arriving, StreamMessage(s, t)
  PROVE  QuotesInv'
<1>1. /\ TypesInv /\ t \in Stamps /\ pending' = Queued(pending, s, t)
      /\ UNCHANGED <<qNow, life, due, queue, inflight, skipped, published, token, bound>>
  BY ArrivingIsStamp DEF QuotesInv, StreamMessage, schedule
<1>2. stream' \in Streams /\ stream.state # "off"
  <2>1. 1 \in 1..MaxDelay
    BY CollectorAssumption
  <2>2. stream \in Streams /\ stream.state # "off" /\ stream' = [stream EXCEPT !.state = "up", !.delay = 1]
    BY DEF QuotesInv, TypesInv, StreamMessage
  <2> QED BY <2>1, <2>2 DEF Streams
<1>3. life.phase \notin {"new", "prepared", "gated", "preseed"}
  BY <1>2 DEF QuotesInv, LifeInv, Off
<1>4. /\ observed' \in [CSyms -> Stamps] /\ observed'[s] \in {t, Never}
      /\ \A o \in CSyms \ {s} : observed'[o] = observed[o]
  BY <1>1 DEF TypesInv, StreamMessage, Stamps
<1>5. pending' \in [CSyms -> Stamps] /\ Newest(s)' >= t /\ \A o \in CSyms : Newest(o)' >= Newest(o)
  BY <1>1, QueuedIsNewest
<1>6. life.phase = "running" => \A o \in CSyms : observed'[o] <= Newest(o)'
  <2> SUFFICES ASSUME life.phase = "running", NEW o \in CSyms PROVE observed'[o] <= Newest(o)'
    OBVIOUS
  <2>1. /\ observed[o] \in Int /\ Newest(o) \in Int /\ Newest(o) >= Never /\ t \in Int /\ Never \in Int
        /\ observed[o] <= Newest(o)
    BY <1>1, StampsAreIntegers DEF QuotesInv, ObservedInv, Never
  <2>2. Newest(o)' \in Int
    <3>1. pending'[o] \in Int /\ published'[o] \in Int
      BY <1>1, <1>5, StampsAreIntegers
    <3> QED BY <3>1 DEF Newest, Later
  <2> QED BY <1>4, <1>5, <2>1, <2>2
<1>7. qNow' \in QClock /\ qNow' >= qNow /\ life' \in Lives /\ published' \in [CSyms -> Stamps]
      /\ \A o \in CSyms : published'[o] >= published[o]
  BY <1>1, StampsAreIntegers DEF TypesInv
<1> QED BY <1>1, <1>2, <1>3, <1>4, <1>5, <1>6, <1>7, QuotesMoveOn

\* The stream's connection ends, or is tried again.
LEMMA StreamTaskKeeps ==
  ASSUME QuotesInv, StreamEnds \/ StreamRetries
  PROVE  QuotesInv'
<1>1. TypesInv /\ UNCHANGED <<qNow, life, due, queue, inflight, skipped, pending, published, token, bound>>
  BY DEF QuotesInv, StreamEnds, StreamRetries, schedule, quotes
<1>2. stream \in Streams /\ stream.state # "off" /\ qNow \in Nat
  BY <1>1, StampsAreIntegers DEF TypesInv, StreamEnds, StreamRetries
<1>3. NextDelay(stream.delay) \in 1..MaxDelay
  BY <1>2, CollectorAssumption DEF Streams, NextDelay, Sooner
<1>4. stream' \in Streams
  <2>1. qNow + stream.delay \in Int
    BY <1>2 DEF Streams
  <2>2. \/ stream' = [stream EXCEPT !.state = "waiting", !.wake = qNow + stream.delay, !.delay = NextDelay(stream.delay)]
        \/ stream' = [stream EXCEPT !.state = "connecting"]
    BY DEF StreamEnds, StreamRetries
  <2> QED BY <1>2, <1>3, <2>1, <2>2 DEF Streams
<1>5. life.phase \notin {"new", "prepared", "gated", "preseed"}
  BY <1>2 DEF QuotesInv, LifeInv, Off
<1>6. observed' = observed \/ observed' = Nothing
  BY DEF StreamEnds, StreamRetries
<1>7. Nothing \in [CSyms -> Stamps] /\ \A s \in CSyms : Nothing[s] = Never
  BY DEF Nothing, Stamps
<1>8. /\ \A s \in CSyms : Newest(s)' = Newest(s) /\ Newest(s) \in Int /\ published[s] \in Int /\ Newest(s) >= Never
      /\ qNow' \in QClock /\ qNow' >= qNow /\ life' \in Lives
      /\ pending' \in [CSyms -> Stamps] /\ published' \in [CSyms -> Stamps]
  BY <1>1, StampsAreIntegers DEF Newest, TypesInv
<1>9. life.phase = "running" => \A s \in CSyms : observed'[s] <= Newest(s)'
  BY <1>6, <1>7, <1>8 DEF QuotesInv, ObservedInv, Never
<1>10. observed' \in [CSyms -> Stamps]
  BY <1>1, <1>6, <1>7 DEF TypesInv
<1>11. \A s \in CSyms : Newest(s)' >= Newest(s) /\ published'[s] >= published[s]
  BY <1>1, <1>8
<1> QED BY <1>1, <1>4, <1>5, <1>8, <1>9, <1>10, <1>11, QuotesMoveOn

\* The end of the group leaves nothing to keep but what a rollback restores.
LEMMA AllEndKeeps ==
  ASSUME QuotesInv, NEW stop \in BOOLEAN, NEW fatal \in BOOLEAN, AllEnd(stop, fatal),
         UNCHANGED <<qNow, observed, pending, published>>, token' \in {token, NoToken}, bound' \in Bounds
  PROVE  QuotesInv'
<1>1. /\ life' \in Lives /\ life'.phase = "done" /\ life'.cat = life.cat
      /\ queue' = {} /\ inflight' = {} /\ skipped' = {} /\ due' = due /\ stream' = Off
  BY DEF QuotesInv, TypesInv, Lives, Phases, AllEnd
<1>2. stream' \in Streams
  BY <1>1, CollectorAssumption DEF Off, Streams
<1>3. TypesInv'
  BY <1>1, <1>2 DEF QuotesInv, TypesInv
<1>4. LifeInv' /\ HeapInv' /\ ObservedInv' /\ SkippedInv'
  BY <1>1 DEF LifeInv, HeapInv, ObservedInv, SkippedInv, Running
<1>5. TokenInv'
  BY <1>1 DEF QuotesInv, TokenInv
<1> QED BY <1>3, <1>4, <1>5 DEF QuotesInv

\* stop(), before and while the collectors run, and its cancellation of a preseed.
LEMMA StopKeeps ==
  ASSUME QuotesInv, RequestStop \/ CancelPreseed
  PROVE  QuotesInv'
<1>1. UNCHANGED <<qNow, observed, pending, published, token, bound>> /\ bound' \in Bounds
  BY DEF QuotesInv, TypesInv, RequestStop, CancelPreseed, quotes
<1>2. CASE AllEnd(TRUE, FALSE)
  BY <1>1, <1>2, AllEndKeeps
<1>3. CASE ~AllEnd(TRUE, FALSE)
  <2>1. /\ life.phase # "running" /\ UNCHANGED <<due, queue, inflight, skipped, stream>>
        /\ life' = [life EXCEPT !.stop = TRUE, !.phase = IF @ = "gated" THEN "preseed" ELSE @]
    BY <1>3 DEF RequestStop, CancelPreseed, schedule
  <2>2. /\ life \in Lives /\ life' \in Lives /\ life'.phase # "running" /\ life'.cat = life.cat
        /\ life'.phase \in {"new", "prepared", "gated", "preseed"} =>
             life.phase \in {"new", "prepared", "gated", "preseed"}
    BY <2>1 DEF QuotesInv, TypesInv, Lives, Phases
  <2>3. TypesInv'
    BY <1>1, <2>1, <2>2 DEF QuotesInv, TypesInv
  <2>4. LifeInv'
    BY <1>1, <2>1, <2>2 DEF QuotesInv, LifeInv, Nothing, Off
  <2>5. HeapInv' /\ ObservedInv' /\ SkippedInv'
    BY <1>1, <2>1, <2>2 DEF QuotesInv, HeapInv, ObservedInv, SkippedInv, Running
  <2>6. TokenInv'
    BY <1>1, <2>1, <2>2 DEF QuotesInv, TokenInv
  <2> QED BY <2>3, <2>4, <2>5, <2>6 DEF QuotesInv
<1> QED BY <1>2, <1>3

\* While polls come and go the token, if there is one, is past its swap.
LEMMA PollingKeepsToken ==
  ASSUME QuotesInv, Running, UNCHANGED <<qNow, life, token, published>>
  PROVE  LifeInv' /\ TokenInv'
<1>1. life.phase = "running" /\ life.sched = "on" /\ token.pc # "quiescing"
  BY DEF QuotesInv, LifeInv, Running
<1>2. LifeInv'
  BY <1>1 DEF QuotesInv, LifeInv
<1>3. TokenInv'
  BY <1>1 DEF QuotesInv, TokenInv
<1> QED BY <1>2, <1>3

\* What the heap holds while the scheduler runs.
LEMMA HeapMember ==
  ASSUME QuotesInv, Running, NEW s \in queue \cup inflight
  PROVE  /\ s \in CSyms /\ s \in Active(life.cat) /\ Def(s) \in Definitions /\ Longest(Def(s)) \in Nat
         /\ life.phase = "running" /\ life.cat \in DOMAIN CCatalogs
<1>1. s \in Active(life.cat) /\ life.cat \in DOMAIN CCatalogs /\ life.phase = "running"
  BY DEF QuotesInv, HeapInv, TypesInv, Lives, Running
<1> QED BY <1>1, ListedDefined DEF Def

\* A due time changes to one that fits; the rest of the heap stays.
LEMMA DueFits ==
  ASSUME QuotesInv, Running, UNCHANGED <<qNow, life>>, NEW s \in Active(life.cat), NEW wait \in Int,
         wait <= Longest(Def(s)), due' = [due EXCEPT ![s] = qNow + Later(1, wait)]
  PROVE  /\ due' \in [CSyms -> Int]
         /\ \A o \in Active(life.cat) : due'[o] <= qNow' + Longest(Def(o)')
<1>1. /\ life.cat \in DOMAIN CCatalogs /\ qNow \in Nat /\ due \in [CSyms -> Int] /\ s \in CSyms
      /\ Active(life.cat) \subseteq CSyms
  BY StampsAreIntegers DEF QuotesInv, TypesInv, Lives, Active
<1>2. Def(s) \in Definitions
  BY <1>1, ListedDefined DEF Def
<1>3. Longest(Def(s)) \in Nat /\ Longest(Def(s)) >= 1
  BY <1>2, LongestBounds
<1>4. Later(1, wait) \in Int /\ Later(1, wait) <= Longest(Def(s))
  BY <1>3 DEF Later
<1>5. ASSUME NEW o \in Active(life.cat) PROVE due'[o] <= qNow' + Longest(Def(o)')
  <2>1. Def(o)' = Def(o) /\ o \in CSyms
    BY <1>1 DEF Def
  <2>2. due[o] <= qNow + Longest(Def(o))
    BY DEF QuotesInv, HeapInv
  <2> QED BY <1>1, <1>3, <1>4, <2>1, <2>2
<1> QED BY <1>1, <1>4, <1>5

\* A poll that the stream suppresses.
LEMMA SkipPollKeeps ==
  ASSUME QuotesInv, NEW s \in CSyms, SkipPoll(s)
  PROVE  QuotesInv'
<1>1. /\ Running /\ s \in queue /\ Suppressed(s) /\ skipped' = skipped \cup {s}
      /\ due' = [due EXCEPT ![s] = qNow + Later(1, SkipInterval(s))]
      /\ UNCHANGED <<qNow, life, queue, inflight, stream, observed, pending, published, token, bound>>
  BY DEF SkipPoll, Poppable, quotes
<1>2. /\ s \in Active(life.cat) /\ Def(s) \in Definitions /\ life.phase = "running"
      /\ qNow \in Nat /\ observed[s] \in Int
  BY <1>1, HeapMember, StampsAreIntegers DEF QuotesInv
<1>3. /\ SkipInterval(s) \in Int /\ Later(1, SkipInterval(s)) <= Longest(Def(s))
      /\ qNow + Later(1, SkipInterval(s)) <= observed[s] + Sooner(Def(s).stale, Suppression) + Overrun(Def(s))
  BY <1>1, <1>2, SkipIntervalFits
<1>4. SkipInterval(s) <= Longest(Def(s))
  BY <1>2, <1>3, LongestBounds DEF Later
<1>5. due' \in [CSyms -> Int] /\ \A o \in Active(life.cat) : due'[o] <= qNow' + Longest(Def(o)')
  BY <1>1, <1>2, <1>3, <1>4, DueFits
<1>6. TypesInv'
  BY <1>1, <1>5 DEF QuotesInv, TypesInv
<1>7. HeapInv'
  BY <1>1, <1>5 DEF QuotesInv, HeapInv, Running
<1>8. ObservedInv'
  BY <1>1 DEF QuotesInv, ObservedInv, Newest
<1>9. SkippedInv'
  <2> SUFFICES ASSUME NEW o \in skipped'
               PROVE  due'[o] <= Newest(o) + Sooner(Def(o).stale, Suppression) + Overrun(Def(o))
    BY <1>1 DEF SkippedInv, Newest, Def
  <2>1. CASE o = s
    <3>1. observed[s] <= Newest(s) /\ Newest(s) \in Int
      BY <1>2, StampsAreIntegers DEF QuotesInv, ObservedInv
    <3>2. due'[s] = qNow + Later(1, SkipInterval(s))
      BY <1>1 DEF QuotesInv, TypesInv
    <3>3. Sooner(Def(s).stale, Suppression) \in Int /\ Overrun(Def(s)) \in Int /\ Later(1, SkipInterval(s)) \in Int
      BY <1>2, <1>3, CollectorAssumption, WaitsAreNatural DEF Definitions, Sooner, Overrun, Later
    <3> QED BY <1>2, <1>3, <2>1, <3>1, <3>2, <3>3
  <2>2. CASE o # s
    <3>1. o \in skipped /\ o \in CSyms
      BY <1>1, <2>2 DEF QuotesInv, TypesInv
    <3>2. due'[o] = due[o]
      BY <1>1, <2>2, <3>1 DEF QuotesInv, TypesInv
    <3> QED BY <3>1, <3>2 DEF QuotesInv, SkippedInv
  <2> QED BY <2>1, <2>2
<1> QED BY <1>1, <1>6, <1>7, <1>8, <1>9, PollingKeepsToken DEF QuotesInv

\* A poll starts: the symbol leaves the heap for the running polls.
LEMMA StartPollKeeps ==
  ASSUME QuotesInv, NEW s \in CSyms, StartPoll(s)
  PROVE  QuotesInv'
<1>1. /\ Running /\ s \in queue
      /\ queue' = queue \ {s} /\ inflight' = inflight \cup {s} /\ skipped' = skipped \ {s}
      /\ UNCHANGED <<qNow, life, due, stream, observed, pending, published, token, bound>>
  BY DEF StartPoll, Poppable, quotes
<1>2. TypesInv'
  BY <1>1 DEF QuotesInv, TypesInv
<1>3. HeapInv'
  BY <1>1 DEF QuotesInv, HeapInv, Running, Def
<1>4. ObservedInv' /\ SkippedInv'
  BY <1>1 DEF QuotesInv, ObservedInv, SkippedInv, Newest, Def
<1> QED BY <1>1, <1>2, <1>3, <1>4, PollingKeepsToken DEF QuotesInv

\* A poll ends: the symbol is queued again at a time that fits.
LEMMA PollDoneKeeps ==
  ASSUME QuotesInv, NEW s \in CSyms, NEW wait \in Int, wait <= Longest(Def(s)), PollDone(s, wait),
         UNCHANGED published, pending' \in [CSyms -> Stamps], \A o \in CSyms : Newest(o)' >= Newest(o)
  PROVE  QuotesInv'
<1>1. /\ Running /\ s \in inflight
      /\ inflight' = inflight \ {s} /\ queue' = queue \cup {s} /\ due' = [due EXCEPT ![s] = qNow + Later(1, wait)]
      /\ UNCHANGED <<qNow, life, skipped, stream, observed, published, token, bound>>
  BY DEF PollDone
<1>2. s \in Active(life.cat) /\ life.phase = "running"
  BY <1>1, HeapMember
<1>3. due' \in [CSyms -> Int] /\ \A o \in Active(life.cat) : due'[o] <= qNow' + Longest(Def(o)')
  BY <1>1, <1>2, DueFits
<1>4. TypesInv /\ TypesInv'
  BY <1>1, <1>3 DEF QuotesInv, TypesInv
<1>5. HeapInv'
  BY <1>1, <1>3 DEF QuotesInv, HeapInv, Running
<1>6. ASSUME NEW o \in CSyms PROVE Newest(o) \in Int /\ Newest(o)' \in Int /\ observed[o] \in Int /\ due[o] \in Int
  <2>1. pending'[o] \in Int /\ published'[o] \in Int
    BY <1>1, <1>4, StampsAreIntegers
  <2>2. Newest(o)' \in Int
    BY <2>1 DEF Newest, Later
  <2> QED BY <1>4, <2>2, StampsAreIntegers
<1>7. ObservedInv'
  BY <1>1, <1>2, <1>6 DEF QuotesInv, ObservedInv
<1>8. SkippedInv'
  <2> SUFFICES ASSUME NEW o \in skipped
               PROVE  due'[o] <= Newest(o)' + Sooner(Def(o).stale, Suppression) + Overrun(Def(o))
    BY <1>1 DEF SkippedInv, Def
  <2>1. o \in queue /\ o # s /\ o \in CSyms
    BY <1>1 DEF QuotesInv, HeapInv, TypesInv
  <2>2. due'[o] = due[o]
    BY <1>1, <1>4, <2>1 DEF TypesInv
  <2>3. Def(o) \in Definitions
    BY <1>1, <2>1, HeapMember
  <2>4. Sooner(Def(o).stale, Suppression) \in Int /\ Overrun(Def(o)) \in Int
    BY <2>3, CollectorAssumption, WaitsAreNatural DEF Definitions, Sooner, Overrun, Later
  <2>5. due[o] <= Newest(o) + Sooner(Def(o).stale, Suppression) + Overrun(Def(o))
    BY DEF QuotesInv, SkippedInv
  <2> QED BY <1>6, <2>1, <2>2, <2>4, <2>5
<1> QED BY <1>1, <1>4, <1>5, <1>7, <1>8, PollingKeepsToken DEF QuotesInv

\* A poll answers, or every provider fails.
LEMMA PollKeeps ==
  ASSUME QuotesInv, NEW s \in CSyms, NEW calendar \in BOOLEAN,
         \/ PollFails(s, calendar)
         \/ \E p \in Providers, t \in Arriving, closed \in BOOLEAN : PollAnswers(s, p, t, closed, calendar)
  PROVE  QuotesInv'
<1>1. Running /\ s \in inflight
  BY DEF PollFails, PollAnswers, PollDone
<1>2. Def(s) \in Definitions /\ TypesInv
  BY <1>1, HeapMember DEF QuotesInv
<1>3. CASE PollFails(s, calendar)
  <2>1. PollDone(s, FailureInterval(Def(s), calendar)) /\ UNCHANGED <<pending, published>>
    BY <1>3 DEF PollFails, quotes
  <2>2. FailureInterval(Def(s), calendar) \in Int /\ FailureInterval(Def(s), calendar) <= Longest(Def(s))
    BY <1>2, FailureIntervalFits
  <2>3. pending' \in [CSyms -> Stamps] /\ \A o \in CSyms : Newest(o)' >= Newest(o)
    <3>1. \A o \in CSyms : Newest(o)' = Newest(o) /\ Newest(o) \in Int
      BY <1>2, <2>1, StampsAreIntegers DEF Newest
    <3> QED BY <1>2, <2>1, <3>1 DEF TypesInv
  <2> QED BY <2>1, <2>2, <2>3, PollDoneKeeps
<1>4. CASE \E p \in Providers, t \in Arriving, closed \in BOOLEAN : PollAnswers(s, p, t, closed, calendar)
  <2>1. PICK p \in Providers, t \in Arriving, closed \in BOOLEAN : PollAnswers(s, p, t, closed, calendar)
    BY <1>4
  <2>2. /\ p \in Chain(Def(s)) /\ PollDone(s, QuoteInterval(Def(s), p, closed, calendar))
        /\ pending' = Queued(pending, s, t) /\ published' = published
    BY <2>1 DEF PollAnswers
  <2>3. /\ QuoteInterval(Def(s), p, closed, calendar) \in Int
        /\ QuoteInterval(Def(s), p, closed, calendar) <= Longest(Def(s))
    BY <1>2, <2>2, QuoteIntervalFits
  <2>4. pending' \in [CSyms -> Stamps] /\ \A o \in CSyms : Newest(o)' >= Newest(o)
    BY <1>2, <2>2, ArrivingIsStamp, QueuedIsNewest
  <2> QED BY <2>2, <2>3, <2>4, PollDoneKeeps
<1> QED BY <1>3, <1>4

\* The handoff begins: the token takes a copy of what a rollback will need.
LEMMA BeginHandoffKeeps ==
  ASSUME QuotesInv, NEW new \in DOMAIN CCatalogs, NEW reuse \in BOOLEAN, BeginHandoff(new, reuse)
  PROVE  QuotesInv'
<1> DEFINE retained == reuse /\ stream.state # "off" /\ StreamSymbols(new) = StreamSymbols(life.cat)
           streamed == stream.state # "off"
<1>1. /\ Running /\ token = NoToken
      /\ token' = [pc |-> "quiescing", old |-> life.cat, new |-> new, reuse |-> reuse,
                   retained |-> retained, streamed |-> streamed, due |-> due, observed |-> observed]
      /\ bound' = [bound EXCEPT !.handoffs = @ + 1] /\ life' = [life EXCEPT !.sched = "off"]
      /\ queue' = {} /\ inflight' = {} /\ skipped' = {} /\ stream' \in {stream, Off}
      /\ UNCHANGED <<qNow, due, observed, pending, published>>
  BY DEF BeginHandoff, Quiesced, quotes
<1>2. retained \in BOOLEAN /\ streamed \in BOOLEAN
  OBVIOUS
<1> HIDE DEF retained, streamed
<1>3. /\ life \in Lives /\ life' \in Lives /\ life'.phase = "running" /\ life'.sched = "off" /\ life'.cat = life.cat
      /\ life.phase = "running" /\ life.cat \in DOMAIN CCatalogs
  BY <1>1 DEF QuotesInv, TypesInv, Lives, Running
<1>4. token' \in Tokens
  BY <1>1, <1>2, <1>3 DEF QuotesInv, TypesInv, Tokens
<1>5. bound' \in Bounds /\ stream' \in Streams
  BY <1>1, CollectorAssumption DEF QuotesInv, TypesInv, Bounds, Off, Streams
<1>6. TypesInv'
  BY <1>1, <1>3, <1>4, <1>5 DEF QuotesInv, TypesInv
<1>7. LifeInv' /\ HeapInv' /\ SkippedInv'
  BY <1>1, <1>3 DEF LifeInv, HeapInv, SkippedInv, Running
<1>8. ObservedInv'
  BY <1>1, <1>3 DEF QuotesInv, ObservedInv, Newest
<1>9. TokenInv'
  <2>1. /\ token'.pc = "quiescing" /\ token'.old = life.cat /\ token'.due = due /\ token'.observed = observed
    BY <1>1
  <2>2. \A s \in Active(life.cat) : due[s] <= qNow + Longest(CCatalogs[life.cat][s])
    BY <1>1 DEF QuotesInv, HeapInv, Def
  <2>3. \A s \in CSyms : observed[s] <= Newest(s)
    BY <1>3 DEF QuotesInv, ObservedInv
  <2> QED BY <1>1, <1>3, <2>1, <2>2, <2>3 DEF TokenInv, Newest
<1> QED BY <1>6, <1>7, <1>8, <1>9 DEF QuotesInv

\* The swap: preserved symbols keep a due time that fits the new definition,
\* because it is the old one, and the token's observations become published.
LEMMA SwapKeeps ==
  ASSUME QuotesInv, Swap
  PROVE  QuotesInv'
<1> DEFINE kept == [s \in CSyms |-> IF s \in Preserved(token.old, token.new) THEN due[s] ELSE Never]
<1>1. /\ token.pc = "quiescing" /\ life.phase = "running" /\ Flushed /\ Scheduled(token.new, kept) /\ skipped' = {}
      /\ observed' = [s \in CSyms |-> IF token.reuse /\ s \in Active(token.new) THEN observed[s] ELSE Never]
      /\ life' = [life EXCEPT !.cat = token.new, !.sched = "on"]
      /\ stream' = (IF token.retained THEN stream ELSE StreamTask(token.new))
      /\ token' = [token EXCEPT !.pc = "swapped"] /\ UNCHANGED <<qNow, bound>>
  BY DEF Swap
<1>2. token # NoToken /\ token \in Tokens /\ TypesInv
  BY <1>1 DEF QuotesInv, TypesInv, NoToken
<1>3. /\ token.old \in DOMAIN CCatalogs /\ token.new \in DOMAIN CCatalogs /\ token' \in Tokens
      /\ token'.pc = "swapped" /\ token'.old = token.old /\ token'.due = token.due
      /\ token'.observed = token.observed /\ token.observed \in [CSyms -> Stamps]
  BY <1>1, <1>2 DEF Tokens
<1>4. life.cat = token.old /\ due = token.due
  BY <1>1, <1>2 DEF QuotesInv, TokenInv
<1>5. life' \in Lives /\ life'.phase = "running" /\ life'.sched = "on" /\ life'.cat = token.new
  BY <1>1, <1>3 DEF QuotesInv, TypesInv, Lives
<1>6. kept \in [CSyms -> Int]
  BY DEF QuotesInv, TypesInv, Never
<1>7. ASSUME NEW s \in Active(token.new), kept[s] # Never
      PROVE  kept[s] <= qNow + Longest(CCatalogs[token.new][s])
  <2>1. s \in Preserved(token.old, token.new) /\ kept[s] = due[s]
    BY <1>7 DEF Active
  <2>2. s \in Active(token.old) /\ CCatalogs[token.old][s] = CCatalogs[token.new][s]
    BY <2>1 DEF Preserved
  <2>3. token.due[s] <= qNow + Longest(CCatalogs[token.old][s])
    BY <1>1, <1>2, <2>2 DEF QuotesInv, TokenInv
  <2> QED BY <1>4, <2>1, <2>2, <2>3
<1>8. /\ due' \in [CSyms -> Int] /\ queue' \in SUBSET CSyms /\ inflight' \in SUBSET CSyms
      /\ queue' \cup inflight' = Active(token.new) /\ queue' \cap inflight' = {}
      /\ \A s \in Active(token.new) : due'[s] <= qNow' + Longest(CCatalogs[token.new][s])
  <2> HIDE DEF kept
  <2> QED BY <1>1, <1>3, <1>6, <1>7, ScheduledFits
<1>9. /\ pending' \in [CSyms -> Stamps] /\ published' \in [CSyms -> Stamps]
      /\ \A s \in CSyms : Newest(s)' = Newest(s) /\ published'[s] = Newest(s)
  BY <1>1, <1>2, FlushKeepsNewest
<1>10. observed' \in [CSyms -> Stamps] /\ stream' \in Streams
  <2>1. Never \in Stamps /\ StreamTask(token.new) \in Streams
    BY CollectorAssumption DEF Stamps, StreamTask, Off, Streams
  <2> QED BY <1>1, <2>1 DEF QuotesInv, TypesInv
<1>11. TypesInv'
  BY <1>1, <1>2, <1>3, <1>5, <1>8, <1>9, <1>10 DEF TypesInv
<1>12. LifeInv'
  BY <1>3, <1>5 DEF LifeInv
<1>13. HeapInv'
  BY <1>1, <1>5, <1>8 DEF HeapInv, Running, Def
<1>14. TokenInv'
  <2>1. \A s \in Active(token.old) : token.due[s] <= qNow' + Longest(CCatalogs[token.old][s])
    BY <1>1, <1>2 DEF QuotesInv, TokenInv
  <2>2. \A s \in CSyms : token.observed[s] <= published'[s]
    BY <1>1, <1>2, <1>9 DEF QuotesInv, TokenInv
  <2> QED BY <1>3, <2>1, <2>2 DEF TokenInv
<1>15. ObservedInv'
  <2> SUFFICES ASSUME NEW s \in CSyms PROVE observed'[s] <= Newest(s)'
    BY DEF ObservedInv
  <2>1. observed[s] <= Newest(s) /\ Newest(s) \in Int /\ Newest(s) >= Never /\ observed'[s] \in {observed[s], Never}
    BY <1>1, <1>2, StampsAreIntegers DEF QuotesInv, ObservedInv
  <2> QED BY <1>9, <2>1 DEF Never
<1>16. SkippedInv'
  BY <1>1 DEF SkippedInv
<1> QED BY <1>11, <1>12, <1>13, <1>14, <1>15, <1>16 DEF QuotesInv

\* The service's switch and the confirmation move the token only.
LEMMA ConfirmingKeeps ==
  ASSUME QuotesInv, ServiceSwitches \/ ConfirmHandoff
  PROVE  QuotesInv'
<1>1. /\ token.pc \in {"swapped", "switched"} /\ life.sched = "on" /\ life.phase = "running"
      /\ \E pc \in {"switched", "committed"} : token' = [token EXCEPT !.pc = pc]
      /\ UNCHANGED <<qNow, life, due, queue, inflight, skipped, stream, observed, pending, published, bound>>
  BY DEF ServiceSwitches, ConfirmHandoff, Healthy, schedule, quotes
<1>2. token \in Tokens /\ token # NoToken
  BY <1>1 DEF QuotesInv, TypesInv, NoToken
<1>3. /\ token' \in Tokens /\ token'.pc \in {"switched", "committed"}
      /\ token'.old = token.old /\ token'.due = token.due /\ token'.observed = token.observed
  BY <1>1, <1>2 DEF Tokens
<1>4. TypesInv'
  BY <1>1, <1>3 DEF QuotesInv, TypesInv
<1>5. LifeInv'
  BY <1>1, <1>3 DEF QuotesInv, LifeInv
<1>6. HeapInv'
  BY <1>1 DEF QuotesInv, HeapInv, Running, Def
<1>7. TokenInv'
  BY <1>1, <1>2, <1>3 DEF QuotesInv, TokenInv, Newest
<1>8. ObservedInv' /\ SkippedInv'
  BY <1>1 DEF QuotesInv, ObservedInv, SkippedInv, Newest, Def
<1> QED BY <1>4, <1>5, <1>6, <1>7, <1>8 DEF QuotesInv

\* The handoff is finalized; a held failure ends the group.
LEMMA FinalizeKeeps ==
  ASSUME QuotesInv, FinalizeHandoff
  PROVE  QuotesInv'
<1>1. token.pc = "committed" /\ token' = NoToken /\ UNCHANGED <<qNow, observed, pending, published, bound>>
  BY DEF FinalizeHandoff, quotes
<1>2. CASE Held
  BY <1>1, <1>2, AllEndKeeps DEF FinalizeHandoff, QuotesInv, TypesInv, Lives
<1>3. CASE ~Held
  <2>1. UNCHANGED <<life, due, queue, inflight, skipped, stream>>
    BY <1>3 DEF FinalizeHandoff, schedule
  <2>2. life.sched \in {"off", "on"}
    BY <1>3 DEF Held, QuotesInv, TypesInv, Lives
  <2>3. TypesInv'
    BY <1>1, <2>1 DEF QuotesInv, TypesInv
  <2>4. life.phase = "running" => life.sched = "on"
    BY <1>1, <2>2 DEF QuotesInv, LifeInv
  <2>5. LifeInv'
    BY <1>1, <2>1, <2>4 DEF QuotesInv, LifeInv, NoToken
  <2>6. HeapInv'
    BY <1>1, <2>1 DEF QuotesInv, HeapInv, Running, Def
  <2>7. TokenInv' /\ ObservedInv' /\ SkippedInv'
    BY <1>1, <2>1 DEF QuotesInv, TokenInv, ObservedInv, SkippedInv, Newest, Def
  <2> QED BY <2>3, <2>5, <2>6, <2>7 DEF QuotesInv
<1> QED BY <1>2, <1>3

\* A component dies: held by its guard during a handoff, or the end of all.
LEMMA ComponentFailsKeeps ==
  ASSUME QuotesInv, ComponentFails
  PROVE  QuotesInv'
<1>1. Running /\ bound' = [bound EXCEPT !.failures = @ + 1] /\ UNCHANGED <<qNow, observed, pending, published, token>>
  BY DEF ComponentFails, quotes
<1>2. bound' \in Bounds
  BY <1>1 DEF QuotesInv, TypesInv, Bounds
<1>3. CASE token.pc \in {"swapped", "switched", "committed"}
  <2>1. /\ life' = [life EXCEPT !.sched = "held"] /\ queue' = {} /\ inflight' = {} /\ skipped' = {}
        /\ UNCHANGED <<due, stream>>
    BY <1>3 DEF ComponentFails, Quiesced
  <2>2. /\ life' \in Lives /\ life'.phase = "running" /\ life'.sched = "held" /\ life'.cat = life.cat
        /\ life.phase = "running"
    BY <1>1, <2>1 DEF QuotesInv, TypesInv, Lives, Running
  <2>3. TypesInv'
    BY <1>1, <1>2, <2>1, <2>2 DEF QuotesInv, TypesInv
  <2>4. LifeInv' /\ HeapInv' /\ SkippedInv'
    BY <1>1, <1>3, <2>1, <2>2 DEF LifeInv, HeapInv, SkippedInv, Running
  <2>5. TokenInv' /\ ObservedInv'
    BY <1>1, <2>1, <2>2 DEF QuotesInv, TokenInv, ObservedInv, Newest
  <2> QED BY <2>3, <2>4, <2>5 DEF QuotesInv
<1>4. CASE token.pc \notin {"swapped", "switched", "committed"}
  <2>1. AllEnd(life.stop, TRUE) /\ life.stop \in BOOLEAN
    BY <1>4 DEF ComponentFails, QuotesInv, TypesInv, Lives
  <2> QED BY <1>1, <1>2, <2>1, AllEndKeeps
<1> QED BY <1>3, <1>4

\* The rollback begins with what the handoff started cancelled.
LEMMA BeginRollbackKeeps ==
  ASSUME QuotesInv, BeginRollback
  PROVE  QuotesInv'
<1>1. /\ token.pc \in {"swapped", "switched"} \/ (token.pc = "quiescing" /\ life.phase # "running")
      /\ token' = [token EXCEPT !.pc = "undoing"] /\ life' = [life EXCEPT !.sched = "off"]
      /\ queue' = {} /\ inflight' = {} /\ skipped' = {} /\ stream' \in {stream, Off}
      /\ UNCHANGED <<qNow, due, observed, pending, published, bound>>
  BY DEF BeginRollback, Quiesced, quotes
<1>2. token \in Tokens /\ token # NoToken
  BY <1>1 DEF QuotesInv, TypesInv, NoToken
<1>3. /\ token' \in Tokens /\ token'.pc = "undoing"
      /\ token'.old = token.old /\ token'.due = token.due /\ token'.observed = token.observed
  BY <1>1, <1>2 DEF Tokens
<1>4. life' \in Lives /\ life'.phase = life.phase /\ life'.sched = "off" /\ life'.cat = life.cat
  BY <1>1 DEF QuotesInv, TypesInv, Lives
<1>5. stream' \in Streams
  BY <1>1, CollectorAssumption DEF QuotesInv, TypesInv, Off, Streams
<1>6. TypesInv'
  BY <1>1, <1>3, <1>4, <1>5 DEF QuotesInv, TypesInv
<1>7. LifeInv'
  <2>1. life.phase \notin {"new", "prepared", "gated", "preseed"}
    BY <1>2 DEF QuotesInv, LifeInv
  <2> QED BY <1>3, <1>4, <2>1 DEF LifeInv
<1>8. HeapInv' /\ SkippedInv'
  BY <1>1, <1>4 DEF HeapInv, SkippedInv, Running
<1>9. TokenInv'
  BY <1>1, <1>2, <1>3, <1>4 DEF QuotesInv, TokenInv
<1>10. ObservedInv'
  BY <1>1, <1>4 DEF QuotesInv, ObservedInv, Newest
<1> QED BY <1>6, <1>7, <1>8, <1>9, <1>10 DEF QuotesInv

\* The rollback restores the token: its due times fit the old definitions, and
\* its observations are of quotes that the swap had published.
LEMMA FinishRollbackKeeps ==
  ASSUME QuotesInv, FinishRollback
  PROVE  QuotesInv'
<1>1. /\ token.pc = "undoing" /\ token' = NoToken /\ pending' = Nothing /\ observed' = token.observed
      /\ skipped' = {} /\ UNCHANGED <<qNow, published, bound>>
  BY DEF FinishRollback, ObservedBefore
<1>2. token \in Tokens /\ token # NoToken /\ TypesInv
  BY <1>1 DEF QuotesInv, TypesInv, NoToken
<1>3. token.old \in DOMAIN CCatalogs /\ token.due \in [CSyms -> Int] /\ token.observed \in [CSyms -> Stamps]
  BY <1>2 DEF Tokens
<1>4. pending' \in [CSyms -> Stamps]
  BY <1>1 DEF Nothing, Stamps
<1>5. TokenInv' /\ SkippedInv'
  BY <1>1 DEF TokenInv, SkippedInv
<1>6. CASE life.phase = "running"
  <2>1. /\ Scheduled(token.old, token.due) /\ life' = [life EXCEPT !.cat = token.old, !.sched = "on"]
        /\ stream' \in {stream, StreamTask(token.old)}
    BY <1>6 DEF FinishRollback
  <2>2. life' \in Lives /\ life'.phase = "running" /\ life'.sched = "on" /\ life'.cat = token.old
    BY <1>3, <1>6, <2>1 DEF QuotesInv, TypesInv, Lives
  <2>3. \A s \in Active(token.old) : token.due[s] <= qNow + Longest(CCatalogs[token.old][s])
    BY <1>2, <1>6 DEF QuotesInv, TokenInv
  <2>4. /\ due' \in [CSyms -> Int] /\ queue' \in SUBSET CSyms /\ inflight' \in SUBSET CSyms
        /\ queue' \cup inflight' = Active(token.old) /\ queue' \cap inflight' = {}
        /\ \A s \in Active(token.old) : due'[s] <= qNow' + Longest(CCatalogs[token.old][s])
    BY <1>1, <1>3, <2>1, <2>3, ScheduledFits
  <2>5. stream' \in Streams
    BY <2>1, CollectorAssumption DEF QuotesInv, TypesInv, StreamTask, Off, Streams
  <2>6. TypesInv'
    BY <1>1, <1>2, <1>3, <1>4, <2>2, <2>4, <2>5 DEF TypesInv
  <2>7. LifeInv'
    BY <1>1, <2>2 DEF LifeInv, NoToken
  <2>8. HeapInv'
    BY <1>1, <2>2, <2>4 DEF HeapInv, Running, Def
  <2>9. ObservedInv'
    <3> SUFFICES ASSUME NEW s \in CSyms PROVE observed'[s] <= Newest(s)'
      BY DEF ObservedInv
    <3>1. token.observed[s] <= published[s]
      BY <1>1, <1>2, <1>6 DEF QuotesInv, TokenInv
    <3>2. published[s] \in Int /\ published[s] >= Never
      BY <1>2, StampsAreIntegers
    <3>3. Newest(s)' = Later(Never, published[s])
      BY <1>1 DEF Newest, Nothing
    <3>4. Newest(s)' = published[s]
      BY <3>2, <3>3 DEF Later, Never
    <3> QED BY <1>1, <3>1, <3>4
  <2> QED BY <1>5, <2>6, <2>7, <2>8, <2>9 DEF QuotesInv
<1>7. CASE life.phase # "running"
  <2>1. due' = token.due /\ life' = [life EXCEPT !.cat = token.old] /\ UNCHANGED <<queue, inflight, stream>>
    BY <1>7 DEF FinishRollback
  <2>2. life' \in Lives /\ life'.phase = life.phase
    BY <1>3, <2>1 DEF QuotesInv, TypesInv, Lives
  <2>3. TypesInv'
    BY <1>1, <1>2, <1>3, <1>4, <2>1, <2>2 DEF TypesInv
  <2>4. life.phase \notin {"new", "prepared", "gated", "preseed"}
    BY <1>2 DEF QuotesInv, LifeInv
  <2>5. LifeInv' /\ HeapInv' /\ ObservedInv'
    BY <1>1, <1>7, <2>1, <2>2, <2>4 DEF QuotesInv, LifeInv, HeapInv, ObservedInv, Running
  <2> QED BY <1>5, <2>3, <2>5 DEF QuotesInv
<1> QED BY <1>6, <1>7

\* Every step of the quote collector keeps the invariant.
LEMMA QuotesNext ==
  QuotesInv /\ [CollectorNext]_collectorVars => QuotesInv'
<1> SUFFICES ASSUME QuotesInv, [CollectorNext]_collectorVars PROVE QuotesInv'
  OBVIOUS
<1>1. CASE UNCHANGED collectorVars
  BY <1>1 DEF collectorVars, QuotesInv, TypesInv, LifeInv, HeapInv, TokenInv, ObservedInv, SkippedInv,
               Running, Def, Newest, Active, Nothing, Off
<1>2. CASE CollectorNext
  BY <1>2, StartupKeeps, RunCollectorsKeeps, StopKeeps, FlushingKeeps, SkipPollKeeps, StartPollKeeps,
     PollKeeps, StreamMessageKeeps, StreamTaskKeeps, BeginHandoffKeeps, SwapKeeps, ConfirmingKeeps,
     FinalizeKeeps, ComponentFailsKeeps, BeginRollbackKeeps, FinishRollbackKeeps, TickKeeps
  DEF CollectorNext
<1> QED BY <1>1, <1>2

(***************************************************************************)
(* The steps of the history loop                                           *)
(***************************************************************************)
\* The initial state satisfies the invariant.
LEMMA HistoryInitially == LoopInit => HistoryInv
<1> SUFFICES ASSUME LoopInit PROVE HistoryInv
  OBVIOUS
<1>1. cycle \in Preseeds /\ cycle.pc = "preseed" /\ cycle.todo \subseteq Hubs
  BY DEF LoopInit, Preseeds
<1>2. bars \in [Symbols -> Outcomes]
  BY DEF LoopInit, Outcomes
<1>3. LoopTypes
  BY <1>1, <1>2 DEF LoopInit, LoopTypes
<1>4. CycleInv
  BY <1>1 DEF LoopInit, CycleInv, Symbols
<1>5. BadInv
  BY DEF LoopInit, BadInv
<1> QED BY <1>3, <1>4, <1>5 DEF HistoryInv

\* Daily work on a hub whose turn it is: a request that brought nothing, or
\* failed, is on record for a retry.
LEMMA HubDailyKeeps ==
  ASSUME HistoryInv, NEW h \in Hubs, NEW force \in BOOLEAN, NEW failed \in BOOLEAN, NEW got \in Outcomes,
         HubDaily(h, force, failed, got), force => prefixRetry[h] = 0, fx.due <= lNow,
         UNCHANGED <<lNow, fx, failedIntervals>>
  PROVE  /\ dailyRetry' \subseteq Hubs /\ bars' \in [Symbols -> Outcomes] /\ prefixRetry' \in [Symbols -> Nat]
         /\ lastBad' \subseteq Hubs \X (MinuteBars \cup {"1d"})
         /\ \A o \in Symbols \ {h} : prefixRetry'[o] = prefixRetry[o]
         /\ BadInv'
<1> DEFINE asked == DailyAsks(h, FALSE, force)
           result == IF asked THEN Combined(bars[h], got) ELSE bars[h]
           retryAt == IF failed THEN prefixRetry[h] ELSE PrefixAfter(h, asked, result)
<1>1. /\ failed => asked /\ got = "none"
      /\ ~asked => got = "none"
      /\ bars' = [bars EXCEPT ![h] = result] /\ prefixRetry' = [prefixRetry EXCEPT ![h] = retryAt]
      /\ dailyRetry' = (IF failed \/ (result # "full" /\ lNow >= retryAt) THEN dailyRetry \cup {h} ELSE dailyRetry \ {h})
      /\ lastBad' = IF ~asked THEN lastBad
                    ELSE IF failed \/ result = "none" THEN lastBad \cup {<<h, "1d">>} ELSE lastBad \ {<<h, "1d">>}
  BY DEF HubDaily, DailyRetry
<1>2. /\ lNow \in Nat /\ fx.due \in Nat /\ RetryAfter \in Nat /\ PrefixRetry \in Nat /\ h \in Symbols
      /\ prefixRetry \in [Symbols -> Nat] /\ bars \in [Symbols -> Outcomes]
      /\ prefixRetry[h] \in Nat /\ bars[h] \in Outcomes
      /\ dailyRetry \subseteq Hubs /\ lastBad \subseteq Hubs \X (MinuteBars \cup {"1d"})
  BY LoopAssumption DEF HistoryInv, LoopTypes, Symbols
<1>3. asked <=> bars[h] # "full" /\ (force \/ lNow >= prefixRetry[h])
  BY DEF DailyAsks
<1>4. asked => bars[h] # "full" /\ prefixRetry[h] <= lNow
  <2> HIDE DEF asked
  <2> QED BY <1>2, <1>3
<1>5. result \in Outcomes /\ (asked /\ got = "none" => result = bars[h]) /\ (~asked => result = bars[h])
  BY <1>2 DEF Combined, Outcomes
<1>6. /\ retryAt \in Nat
      /\ asked /\ ~failed /\ result = "none" => retryAt = prefixRetry[h]
      /\ ~asked \/ failed => retryAt = prefixRetry[h]
  <2> HIDE DEF asked, result
  <2>1. PrefixAfter(h, asked, result) \in {prefixRetry[h], 0, lNow + PrefixRetry}
    BY <1>5 DEF PrefixAfter, Outcomes
  <2>2. (~asked \/ result = "none") => PrefixAfter(h, asked, result) = prefixRetry[h]
    BY DEF PrefixAfter
  <2> QED BY <1>2, <2>1, <2>2
<1> HIDE DEF asked, result, retryAt
<1>7. /\ dailyRetry' \subseteq Hubs /\ bars' \in [Symbols -> Outcomes] /\ prefixRetry' \in [Symbols -> Nat]
      /\ lastBad' \subseteq Hubs \X (MinuteBars \cup {"1d"})
  BY <1>1, <1>2, <1>5, <1>6
<1>8. /\ \A o \in Symbols \ {h} : prefixRetry'[o] = prefixRetry[o] /\ bars'[o] = bars[o]
      /\ prefixRetry'[h] = retryAt /\ bars'[h] = result
  BY <1>1, <1>2
<1>9. ASSUME NEW o \in Hubs, NEW i \in MinuteBars, <<o, i>> \in lastBad'
      PROVE  <<o, i>> \in failedIntervals'
  <2>1. i # "1d"
    BY DEF MinuteBars
  <2>2. <<o, i>> \in lastBad
    BY <1>1, <1>9, <2>1
  <2> QED BY <2>2 DEF HistoryInv, BadInv
<1>10. ASSUME NEW o \in Hubs, <<o, "1d">> \in lastBad'
       PROVE  o \in dailyRetry' /\ bars'[o] # "full" /\ prefixRetry'[o] <= lNow'
  <2>1. CASE o # h
    <3>1. <<o, "1d">> \in lastBad /\ o \in Symbols
      BY <1>1, <1>10, <2>1 DEF Symbols
    <3>2. o \in dailyRetry /\ bars[o] # "full" /\ prefixRetry[o] <= lNow
      BY <3>1 DEF HistoryInv, BadInv
    <3> QED BY <1>1, <1>8, <2>1, <3>1, <3>2
  <2>2. CASE o = h /\ asked
    <3>1. failed \/ result = "none"
      BY <1>1, <1>10, <2>2
    <3>2. retryAt = prefixRetry[h] /\ result # "full" /\ lNow >= retryAt
      BY <1>1, <1>2, <1>4, <1>5, <1>6, <2>2, <3>1
    <3> QED BY <1>1, <1>8, <2>2, <3>2
  <2>3. CASE o = h /\ ~asked
    <3>1. <<h, "1d">> \in lastBad
      BY <1>1, <1>10, <2>3
    <3>2. bars[h] # "full" /\ prefixRetry[h] <= lNow
      BY <3>1 DEF HistoryInv, BadInv
    <3> QED BY <1>2, <1>3, <2>3, <3>2
  <2> QED BY <2>1, <2>2, <2>3
<1>11. fx'.due <= lNow' + RetryAfter
  BY <1>2
<1> QED BY <1>7, <1>8, <1>9, <1>10, <1>11 DEF BadInv

\* A hub's daily request, in the preseed or in a cycle.
LEMMA DailyKeeps ==
  ASSUME HistoryInv, NEW h \in Hubs, NEW failed \in BOOLEAN, NEW got \in Outcomes,
         Preseed(h, failed, got) \/ DailyStep(h, failed, got)
  PROVE  HistoryInv'
<1>1. /\ cycle.pc \in {"preseed", "daily"} /\ h \in cycle.todo
      /\ cycle' = [cycle EXCEPT !.todo = @ \ {h}]
      /\ UNCHANGED <<lNow, listed, handoffs, regularDue, fx, failedIntervals>>
      /\ HubDaily(h, cycle.pc = "preseed", failed, got)
  BY DEF Preseed, DailyStep
<1>2. cycle \in Cycles \cup Preseeds
  BY <1>1 DEF HistoryInv, LoopTypes, Resting
<1>3. /\ cycle' \in Cycles \cup Preseeds /\ cycle'.pc = cycle.pc /\ cycle'.todo = cycle.todo \ {h}
      /\ cycle.pc = "daily" => cycle'.withFx = cycle.withFx /\ cycle'.work = cycle.work /\ cycle'.busy = cycle.busy
      /\ cycle.todo \subseteq Hubs
  BY <1>1, <1>2 DEF Cycles, Preseeds
<1>4. fx.due <= lNow /\ (cycle.pc = "preseed" => prefixRetry[h] = 0)
  BY <1>1 DEF HistoryInv, CycleInv, LoopTypes
<1>5. /\ dailyRetry' \subseteq Hubs /\ bars' \in [Symbols -> Outcomes] /\ prefixRetry' \in [Symbols -> Nat]
      /\ lastBad' \subseteq Hubs \X (MinuteBars \cup {"1d"})
      /\ \A o \in Symbols \ {h} : prefixRetry'[o] = prefixRetry[o]
      /\ BadInv'
  <2>1. (cycle.pc = "preseed") \in BOOLEAN
    OBVIOUS
  <2> QED BY <1>1, <1>4, <2>1, HubDailyKeeps
<1>6. LoopTypes'
  BY <1>1, <1>3, <1>5 DEF HistoryInv, LoopTypes
<1>7. CycleInv'
  BY <1>1, <1>3, <1>5 DEF HistoryInv, CycleInv, Symbols
<1> QED BY <1>5, <1>6, <1>7 DEF HistoryInv

\* A new cycle works on hubs only when they are due.
LEMMA StartCycleKeeps ==
  ASSUME HistoryInv, StartCycle
  PROVE  HistoryInv'
<1> DEFINE withFx == lNow >= fx.due
           dues == {s \in Regulars \cap listed : lNow >= regularDue[s]}
           hubs == IF withFx THEN {h \in Hubs \cap listed : fx.retryOnly => Broken(h)} ELSE {}
           todo == {h \in hubs : fx.retryOnly => h \in dailyRetry}
           intervals == [h \in hubs |-> CycleIntervals(h)]
<1>1. /\ cycle' = [pc |-> "daily", withFx |-> withFx, due |-> dues, retry |-> fx.retryOnly,
                   todo |-> todo, work |-> dues \cup hubs, busy |-> {}, intervals |-> intervals]
      /\ UNCHANGED <<lNow, listed, handoffs, regularDue, fx, dailyRetry, failedIntervals, prefixRetry, bars, lastBad>>
  BY DEF StartCycle, retryState
<1>2. hubs \subseteq Hubs /\ todo \subseteq hubs /\ dues \subseteq Regulars /\ withFx \in BOOLEAN /\ (~withFx => hubs = {})
  OBVIOUS
<1>3. intervals \in [hubs -> SUBSET MinuteBars]
  BY DEF CycleIntervals
<1>4. fx.retryOnly \in BOOLEAN /\ lNow \in Nat /\ fx.due \in Nat /\ (withFx => fx.due <= lNow)
  BY DEF HistoryInv, LoopTypes
<1> HIDE DEF withFx, dues, hubs, todo, intervals
<1>5. intervals \in UNION {[H -> SUBSET MinuteBars] : H \in SUBSET Hubs}
  BY <1>2, <1>3
<1>6. cycle' \in Cycles
  BY <1>1, <1>2, <1>4, <1>5 DEF Cycles, Symbols
<1>7. LoopTypes'
  BY <1>1, <1>6 DEF HistoryInv, LoopTypes
<1>8. CycleInv'
  <2>1. /\ cycle'.pc = "daily" /\ cycle'.withFx = withFx /\ cycle'.todo = todo
        /\ cycle'.work = dues \cup hubs /\ cycle'.busy = {}
    BY <1>1
  <2>2. dues \cap Hubs = {}
    BY <1>2, LoopAssumption
  <2> QED BY <1>1, <1>2, <1>4, <2>1, <2>2 DEF CycleInv
<1>9. BadInv'
  BY <1>1 DEF HistoryInv, BadInv
<1> QED BY <1>7, <1>8, <1>9 DEF HistoryInv

\* Steps that only move a cycle on.
LEMMA CycleMovesOn ==
  ASSUME HistoryInv, PreseedEnds \/ StartWorkers \/ (\E s \in Symbols : WorkerTakes(s))
  PROVE  HistoryInv'
<1>1. UNCHANGED <<lNow, listed, handoffs, regularDue, fx, dailyRetry, failedIntervals, prefixRetry, bars, lastBad>>
  BY DEF PreseedEnds, StartWorkers, WorkerTakes, retryState
<1>2. BadInv'
  BY <1>1 DEF HistoryInv, BadInv
<1>3. CASE PreseedEnds
  <2>1. cycle' = Resting
    BY <1>3 DEF PreseedEnds
  <2> QED BY <1>1, <1>2, <2>1 DEF HistoryInv, LoopTypes, CycleInv, Resting
<1>4. CASE StartWorkers
  <2>1. cycle \in Cycles /\ cycle.pc = "daily" /\ cycle' = [cycle EXCEPT !.pc = "minutes"]
    BY <1>4 DEF StartWorkers, HistoryInv, LoopTypes, Resting, Preseeds
  <2>2. /\ cycle' \in Cycles /\ cycle'.pc = "minutes" /\ cycle'.withFx = cycle.withFx
        /\ cycle'.todo = cycle.todo /\ cycle'.work = cycle.work /\ cycle'.busy = cycle.busy
    BY <2>1 DEF Cycles
  <2> QED BY <1>1, <1>2, <2>1, <2>2 DEF HistoryInv, LoopTypes, CycleInv
<1>5. CASE \E s \in Symbols : WorkerTakes(s)
  <2>1. PICK s \in Symbols : WorkerTakes(s)
    BY <1>5
  <2> DEFINE passed == s \in Hubs /\ cycle.intervals[s] = {}
             busy == IF passed THEN cycle.busy ELSE cycle.busy \cup {s}
  <2>2. /\ cycle.pc = "minutes" /\ s \in cycle.work
        /\ cycle' = [cycle EXCEPT !.work = cycle.work \ {s}, !.busy = busy]
    BY <2>1 DEF WorkerTakes
  <2>3. cycle \in Cycles
    BY <2>2 DEF HistoryInv, LoopTypes, Resting, Preseeds
  <2>4. busy \in {cycle.busy, cycle.busy \cup {s}}
    OBVIOUS
  <2> HIDE DEF busy
  <2>5. /\ cycle' \in Cycles /\ cycle'.pc = "minutes" /\ cycle'.withFx = cycle.withFx
        /\ cycle'.todo = cycle.todo /\ cycle'.work \cup cycle'.busy \subseteq cycle.work \cup cycle.busy
    BY <2>2, <2>3, <2>4 DEF Cycles
  <2> QED BY <1>1, <1>2, <2>2, <2>5 DEF HistoryInv, LoopTypes, CycleInv
<1> QED BY <1>3, <1>4, <1>5

\* A worker returns a hub: what failed is recorded as it is.
LEMMA HubWorkerKeeps ==
  ASSUME HistoryInv, NEW h \in Hubs, NEW bad \in SUBSET MinuteBars, HubWorkerDone(h, bad)
  PROVE  HistoryInv'
<1> DEFINE tried == cycle.intervals[h]
           gone == {<<h, i>> : i \in tried}
           fresh == {<<h, i>> : i \in bad}
<1>1. /\ cycle.pc = "minutes" /\ h \in cycle.busy /\ failedIntervals' = (failedIntervals \ gone) \cup fresh
      /\ lastBad' = (lastBad \ gone) \cup fresh
      /\ cycle' = [cycle EXCEPT !.busy = @ \ {h}]
      /\ UNCHANGED <<lNow, listed, handoffs, regularDue, fx, dailyRetry, prefixRetry, bars>>
  BY DEF HubWorkerDone, FailedAfter
<1>2. fresh \subseteq Hubs \X MinuteBars
  OBVIOUS
<1>3. \A o \in Hubs : <<o, "1d">> \notin fresh
  BY <1>2 DEF MinuteBars
<1>4. cycle \in Cycles
  BY <1>1 DEF HistoryInv, LoopTypes, Resting, Preseeds
<1> HIDE DEF tried, gone, fresh
<1>5. /\ cycle' \in Cycles /\ cycle'.pc = "minutes" /\ cycle'.withFx = cycle.withFx
      /\ cycle'.todo = cycle.todo /\ cycle'.work = cycle.work /\ cycle'.busy \subseteq cycle.busy
  BY <1>1, <1>4 DEF Cycles
<1>6. LoopTypes'
  BY <1>1, <1>2, <1>5 DEF HistoryInv, LoopTypes
<1>7. CycleInv'
  BY <1>1, <1>5 DEF HistoryInv, CycleInv
<1>8. fx.due <= lNow
  BY <1>1 DEF HistoryInv, CycleInv
<1>9. BadInv'
  <2>1. \A o \in Hubs, i \in MinuteBars : <<o, i>> \in lastBad' => <<o, i>> \in failedIntervals'
    BY <1>1 DEF HistoryInv, BadInv
  <2>2. \A o \in Hubs : <<o, "1d">> \in lastBad' =>
          o \in dailyRetry' /\ bars'[o] # "full" /\ prefixRetry'[o] <= lNow'
    BY <1>1, <1>3 DEF HistoryInv, BadInv
  <2>3. fx'.due <= lNow' + RetryAfter
    BY <1>1, <1>8, LoopAssumption DEF HistoryInv, LoopTypes
  <2> QED BY <2>1, <2>2, <2>3 DEF BadInv
<1> QED BY <1>6, <1>7, <1>9 DEF HistoryInv

\* A worker returns any other symbol.
LEMMA RegularWorkerKeeps ==
  ASSUME HistoryInv, NEW s \in Regulars, NEW failed \in BOOLEAN, NEW got \in Outcomes, RegularWorkerDone(s, failed, got)
  PROVE  HistoryInv'
<1> DEFINE asked == ~failed /\ DailyAsks(s, TRUE, FALSE)
           result == IF asked THEN Combined(bars[s], got) ELSE bars[s]
<1>1. /\ cycle.pc = "minutes" /\ s \in cycle.busy
      /\ bars' = [bars EXCEPT ![s] = result]
      /\ prefixRetry' = [prefixRetry EXCEPT ![s] = PrefixAfter(s, asked, result)]
      /\ cycle' = [cycle EXCEPT !.busy = @ \ {s}]
      /\ UNCHANGED <<lNow, listed, handoffs, regularDue, fx, dailyRetry, failedIntervals, lastBad>>
  BY DEF RegularWorkerDone
<1>2. s \in Symbols /\ s \notin Hubs /\ lNow \in Nat /\ PrefixRetry \in Nat /\ prefixRetry[s] \in Nat /\ bars[s] \in Outcomes
  BY LoopAssumption DEF HistoryInv, LoopTypes, Symbols
<1>3. result \in Outcomes
  BY <1>2 DEF Combined, Outcomes
<1>4. cycle \in Cycles
  BY <1>1 DEF HistoryInv, LoopTypes, Resting, Preseeds
<1> HIDE DEF asked, result
<1>5. PrefixAfter(s, asked, result) \in Nat
  BY <1>2, <1>3 DEF PrefixAfter, Outcomes
<1>6. bars' \in [Symbols -> Outcomes] /\ prefixRetry' \in [Symbols -> Nat]
      /\ \A h \in Hubs : bars'[h] = bars[h] /\ prefixRetry'[h] = prefixRetry[h]
  BY <1>1, <1>2, <1>3, <1>5 DEF HistoryInv, LoopTypes, Symbols
<1>7. /\ cycle' \in Cycles /\ cycle'.pc = "minutes" /\ cycle'.withFx = cycle.withFx
      /\ cycle'.todo = cycle.todo /\ cycle'.work = cycle.work /\ cycle'.busy \subseteq cycle.busy
  BY <1>1, <1>4 DEF Cycles
<1>8. LoopTypes'
  BY <1>1, <1>6, <1>7 DEF HistoryInv, LoopTypes
<1>9. CycleInv'
  BY <1>1, <1>7 DEF HistoryInv, CycleInv
<1>10. BadInv'
  BY <1>1, <1>6 DEF HistoryInv, BadInv
<1> QED BY <1>8, <1>9, <1>10 DEF HistoryInv

\* The end of a cycle: the long delay is taken only when nothing is on record.
LEMMA EndCycleKeeps ==
  ASSUME HistoryInv, EndCycle
  PROVE  HistoryInv'
<1>1. /\ regularDue' = [s \in Regulars |-> IF s \in cycle.due THEN lNow + HistoryPoll ELSE regularDue[s]]
      /\ fx' = (IF cycle.withFx
                THEN [retryOnly |-> ~FxComplete, due |-> lNow + (IF FxComplete THEN RefreshAfter ELSE RetryAfter)]
                ELSE fx)
      /\ cycle' = Resting
      /\ UNCHANGED <<lNow, listed, handoffs, dailyRetry, failedIntervals, prefixRetry, bars, lastBad>>
  BY DEF EndCycle, retryState
<1>2. lNow \in Nat /\ {HistoryPoll, RetryAfter, RefreshAfter} \subseteq Nat
  BY LoopAssumption DEF HistoryInv, LoopTypes
<1>3. regularDue' \in [Regulars -> Nat]
  BY <1>1, <1>2 DEF HistoryInv, LoopTypes
<1>4. FxComplete \in BOOLEAN /\ lNow + RefreshAfter \in Nat /\ lNow + RetryAfter \in Nat
  BY <1>2 DEF FxComplete
<1>5. fx' \in [due : Nat, retryOnly : BOOLEAN]
  BY <1>1, <1>4 DEF HistoryInv, LoopTypes
<1>6. LoopTypes' /\ CycleInv'
  BY <1>1, <1>3, <1>5 DEF HistoryInv, LoopTypes, CycleInv, Resting
<1>7. lastBad # {} => ~FxComplete
  <2> SUFFICES ASSUME NEW b \in lastBad PROVE ~FxComplete
    OBVIOUS
  <2>1. PICK h \in Hubs, i \in MinuteBars \cup {"1d"} : b = <<h, i>>
    BY DEF HistoryInv, LoopTypes
  <2> QED BY <2>1 DEF HistoryInv, BadInv, FxComplete
<1>8. lastBad' # {} => fx'.due <= lNow' + RetryAfter
  <2> SUFFICES ASSUME lastBad # {} PROVE fx'.due <= lNow + RetryAfter
    BY <1>1
  <2>1. fx.due <= lNow + RetryAfter
    BY DEF HistoryInv, BadInv
  <2>2. ~FxComplete
    BY <1>7
  <2>3. CASE cycle.withFx
    <3>1. fx'.due = lNow + RetryAfter
      BY <1>1, <2>2, <2>3
    <3> QED BY <1>4, <3>1
  <2>4. CASE ~cycle.withFx
    BY <1>1, <2>1, <2>4
  <2> QED BY <2>3, <2>4
<1>9. BadInv'
  BY <1>1, <1>8 DEF HistoryInv, BadInv
<1> QED BY <1>6, <1>9 DEF HistoryInv

\* A handoff cancels the cycle and keeps every record of a failure.
LEMMA HandOffKeeps ==
  ASSUME HistoryInv, NEW new \in LoopCatalogs, NEW kept, HandOff(new, kept)
  PROVE  HistoryInv'
<1>1. /\ handoffs' = handoffs + 1 /\ listed' = new /\ cycle' = Resting
      /\ regularDue' = [s \in Regulars |-> IF s \in kept THEN regularDue[s] ELSE 0]
      /\ UNCHANGED <<lNow, fx, dailyRetry, failedIntervals, prefixRetry, bars, lastBad>>
  BY DEF HandOff, retryState
<1>2. LoopTypes' /\ CycleInv'
  BY <1>1 DEF HistoryInv, LoopTypes, CycleInv, Resting
<1>3. BadInv'
  BY <1>1 DEF HistoryInv, BadInv
<1> QED BY <1>2, <1>3 DEF HistoryInv

\* Time passes.
LEMMA LTickKeeps ==
  ASSUME HistoryInv, LTick
  PROVE  HistoryInv'
<1>1. lNow \in Nat /\ fx.due \in Nat /\ RetryAfter \in Nat /\ lNow' = lNow + 1
      /\ UNCHANGED <<listed, handoffs, cycle, regularDue, fx, dailyRetry, failedIntervals, prefixRetry, bars, lastBad>>
  BY LoopAssumption DEF HistoryInv, LoopTypes, LTick, historyState, retryState
<1>2. LoopTypes'
  BY <1>1 DEF HistoryInv, LoopTypes
<1>3. CycleInv'
  BY <1>1 DEF HistoryInv, CycleInv
<1>4. BadInv'
  <2>1. \A h \in Hubs : prefixRetry[h] \in Nat
    BY DEF HistoryInv, LoopTypes, Symbols
  <2> QED BY <1>1, <2>1 DEF HistoryInv, BadInv
<1> QED BY <1>2, <1>3, <1>4 DEF HistoryInv

\* Every step of the history loop keeps the invariant.
LEMMA HistoryNext ==
  HistoryInv /\ [LoopNext]_loopVars => HistoryInv'
<1> SUFFICES ASSUME HistoryInv, [LoopNext]_loopVars PROVE HistoryInv'
  OBVIOUS
<1>1. CASE UNCHANGED loopVars
  BY <1>1 DEF loopVars, HistoryInv, LoopTypes, CycleInv, BadInv
<1>2. CASE LoopNext
  BY <1>2, DailyKeeps, StartCycleKeeps, CycleMovesOn, HubWorkerKeeps, RegularWorkerKeeps, EndCycleKeeps,
     HandOffKeeps, LTickKeeps
  DEF LoopNext
<1> QED BY <1>1, <1>2

(***************************************************************************)
(* The steps of the metadata loop                                          *)
(***************************************************************************)
\* The initial state satisfies the invariant.
LEMMA MetadataInitially == MetadataInit => MetadataInv
BY MetadataAssumption DEF MetadataInit, MetadataInv, DegradedRetriedEarly

\* Every step of the metadata loop keeps it: a refresh sets the delay by the
\* same outcome that makes the symbol degraded.
LEMMA MetadataNextKeeps ==
  MetadataInv /\ [MetadataNext]_metadataVars => MetadataInv'
<1> SUFFICES ASSUME MetadataInv, [MetadataNext]_metadataVars PROVE MetadataInv'
  OBVIOUS
<1>1. /\ yNow \in Nat /\ MetadataRetry \in Nat /\ MetadataPoll \in Nat /\ yHandoffs \in Nat
      /\ yListed \in YCatalogs /\ yListed \subseteq YSyms /\ degraded \subseteq YSyms
      /\ meta \in [due : [YSyms -> Nat], todo : SUBSET YSyms, busy : SUBSET YSyms]
      /\ meta.due \in [YSyms -> Nat] /\ meta.todo \cap meta.busy = {}
      /\ \A s \in degraded \cap yListed : meta.due[s] <= yNow + MetadataRetry
  BY MetadataAssumption DEF MetadataInv, DegradedRetriedEarly
<1>2. CASE UNCHANGED metadataVars
  BY <1>2 DEF metadataVars, MetadataInv, DegradedRetriedEarly
<1>3. CASE StartMetadata
  <2>1. meta' = [meta EXCEPT !.todo = MetadataDue] /\ meta.busy = {} /\ UNCHANGED <<yNow, yListed, yHandoffs, degraded>>
    BY <1>3 DEF StartMetadata
  <2>2. MetadataDue \subseteq YSyms
    BY <1>1 DEF MetadataDue
  <2>3. /\ meta' \in [due : [YSyms -> Nat], todo : SUBSET YSyms, busy : SUBSET YSyms]
        /\ meta'.due = meta.due /\ meta'.busy = {}
    BY <1>1, <2>1, <2>2
  <2> QED BY <1>1, <2>1, <2>3 DEF MetadataInv, DegradedRetriedEarly
<1>4. ASSUME NEW s \in YSyms, MetadataTakes(s) PROVE MetadataInv'
  <2>1. /\ meta' = [meta EXCEPT !.todo = @ \ {s}, !.busy = @ \cup {s}]
        /\ UNCHANGED <<yNow, yListed, yHandoffs, degraded>>
    BY <1>4 DEF MetadataTakes
  <2>2. /\ meta' \in [due : [YSyms -> Nat], todo : SUBSET YSyms, busy : SUBSET YSyms]
        /\ meta'.due = meta.due /\ meta'.busy = meta.busy \cup {s} /\ meta'.todo = meta.todo \ {s}
    BY <1>1, <2>1
  <2> QED BY <1>1, <2>1, <2>2 DEF MetadataInv, DegradedRetriedEarly
<1>5. ASSUME NEW s \in YSyms, NEW dividend, NEW yield, MetadataDone(s, dividend, yield) PROVE MetadataInv'
  <2> DEFINE early == RetryEarly(dividend, yield)
             next == yNow + (IF early THEN MetadataRetry ELSE MetadataPoll)
  <2>1. /\ s \in meta.busy /\ meta' = [meta EXCEPT !.busy = @ \ {s}, !.due[s] = next]
        /\ degraded' = (IF early THEN degraded \cup {s} ELSE degraded \ {s})
        /\ UNCHANGED <<yNow, yListed, yHandoffs>>
    BY <1>5 DEF MetadataDone, RetryEarly
  <2>2. next \in Nat /\ (early => next = yNow + MetadataRetry)
    BY <1>1
  <2> HIDE DEF next, early
  <2>3. /\ meta' \in [due : [YSyms -> Nat], todo : SUBSET YSyms, busy : SUBSET YSyms]
        /\ meta'.due = [meta.due EXCEPT ![s] = next] /\ meta'.busy = meta.busy \ {s} /\ meta'.todo = meta.todo
    BY <1>1, <2>1, <2>2
  <2>4. ASSUME NEW o \in degraded' \cap yListed PROVE meta'.due[o] <= yNow + MetadataRetry
    <3>1. CASE o = s
      <4>1. early
        BY <2>1, <3>1
      <4>2. meta'.due[o] = yNow + MetadataRetry
        BY <1>1, <2>2, <2>3, <3>1, <4>1
      <4> QED BY <1>1, <4>2
    <3>2. CASE o # s
      BY <1>1, <2>1, <2>3, <3>2
    <3> QED BY <3>1, <3>2
  <2> QED BY <1>1, <2>1, <2>3, <2>4 DEF MetadataInv, DegradedRetriedEarly
<1>6. ASSUME NEW new \in YCatalogs, NEW kept \in SUBSET new, MetadataHandoff(new, kept) PROVE MetadataInv'
  <2> DEFINE dues == [s \in YSyms |-> IF s \in kept THEN meta.due[s] ELSE 0]
  <2>1. /\ yHandoffs' = yHandoffs + 1 /\ yListed' = new /\ kept \subseteq yListed
        /\ meta' = [due |-> dues, todo |-> {}, busy |-> {}] /\ UNCHANGED <<yNow, degraded>>
    BY <1>6 DEF MetadataHandoff
  <2>2. dues \in [YSyms -> Nat] /\ new \subseteq YSyms
    BY <1>1, MetadataAssumption
  <2>3. /\ meta' \in [due : [YSyms -> Nat], todo : SUBSET YSyms, busy : SUBSET YSyms]
        /\ meta'.due = dues /\ meta'.busy = {} /\ meta'.todo = {}
    BY <2>1, <2>2
  <2>4. ASSUME NEW o \in degraded \cap new PROVE dues[o] <= yNow + MetadataRetry
    <3>1. o \in YSyms
      BY <2>2
    <3>2. CASE o \in kept
      BY <1>1, <2>1, <3>1, <3>2
    <3>3. CASE o \notin kept
      BY <1>1, <3>1, <3>3
    <3> QED BY <3>2, <3>3
  <2> HIDE DEF dues
  <2> QED BY <1>1, <2>1, <2>3, <2>4 DEF MetadataInv, DegradedRetriedEarly
<1>7. CASE YTick
  <2>1. yNow' = yNow + 1 /\ UNCHANGED <<yListed, yHandoffs, meta, degraded>>
    BY <1>7 DEF YTick
  <2>2. \A s \in degraded \cap yListed : meta.due[s] <= yNow' + MetadataRetry
    BY <1>1, <2>1
  <2> QED BY <1>1, <2>1, <2>2 DEF MetadataInv, DegradedRetriedEarly
<1> QED BY <1>2, <1>3, <1>4, <1>5, <1>6, <1>7 DEF MetadataNext

(***************************************************************************)
(* The theorems                                                            *)
(***************************************************************************)
\* The invariants of the three loops hold together (collectors.py).
THEOREM CollectorsInvariant == CollectorsSpec => [](QuotesInv /\ HistoryInv /\ MetadataInv)
<1>1. CollectorsInit => QuotesInv /\ HistoryInv /\ MetadataInv
  BY QuotesInitially, HistoryInitially, MetadataInitially DEF CollectorsInit
<1>2. QuotesInv /\ HistoryInv /\ MetadataInv /\ [CollectorsNext]_loopsVars => (QuotesInv /\ HistoryInv /\ MetadataInv)'
  <2> SUFFICES ASSUME [CollectorsNext]_loopsVars
               PROVE  [CollectorNext]_collectorVars /\ [LoopNext]_loopVars /\ [MetadataNext]_metadataVars
    BY QuotesNext, HistoryNext, MetadataNextKeeps
  <2> QED BY DEF CollectorsNext, loopsVars
<1> QED BY <1>1, <1>2, PTL DEF CollectorsSpec

\* The coordinator's state is well typed (MarketDataCoordinator.__init__).
THEOREM CollectorTypeCorrect == CollectorsSpec => []CollectorTypeOK
<1>1. QuotesInv => CollectorTypeOK
  <2> SUFFICES ASSUME TypesInv PROVE CollectorTypeOK
    BY DEF QuotesInv
  <2>1. /\ life.phase \in {"new", "prepared", "gated", "preseed", "running", "done"}
        /\ life.sched \in {"off", "on", "held"} /\ life.cat \in DOMAIN CCatalogs
        /\ stream.state \in {"off", "connecting", "up", "waiting"} /\ stream.delay \in 1..MaxDelay
    BY DEF TypesInv, Lives, Phases, Streams
  <2> QED BY <2>1 DEF TypesInv, CollectorTypeOK
<1> QED BY <1>1, CollectorsInvariant, PTL

\* Through failures, handoffs and rollbacks the scheduler lives, holds each
\* symbol of its catalog once, and lets none wait longer than its definition
\* says (_quote_scheduler_loop, reconcile_generation, rollback_reconciliation).
THEOREM CollectionContinues == CollectorsSpec => []CollectionGoesOn
<1>1. QuotesInv => CollectionGoesOn
  <2> SUFFICES ASSUME QuotesInv PROVE CollectionGoesOn
    OBVIOUS
  <2>1. NoSymbolLost
    BY DEF QuotesInv, HeapInv, NoSymbolLost
  <2>2. ScheduleFitsDefinition
    BY DEF QuotesInv, HeapInv, ScheduleFitsDefinition
  <2>3. ComponentsAlive
    BY DEF QuotesInv, LifeInv, TypesInv, Lives, ComponentsAlive, NoToken
  <2> QED BY <2>1, <2>2, <2>3 DEF CollectionGoesOn
<1> QED BY <1>1, CollectorsInvariant, PTL

\* A stream stands in for polls no longer than it may, and only with quotes
\* that reached the service or will (_poll_quote_once, rollback_reconciliation).
THEOREM SuppressionIsSound == CollectorsSpec => []SuppressionSound
<1>1. QuotesInv => SuppressionSound
  BY DEF QuotesInv, SkippedInv, ObservedInv, SuppressionSound, SuppressionBounded, ObservationBacked
<1> QED BY <1>1, CollectorsInvariant, PTL

\* What failed upstream is asked for again within the retry time, in the
\* history loop and in the metadata loop (_history_loop, _refresh_metadata).
THEOREM FailuresAreRetried == CollectorsSpec => []RetriedSoon
<1>1. HistoryInv => FailureRetriedSoon
  <2> SUFFICES ASSUME HistoryInv, NEW h \in Hubs \cap listed, NEW i \in MinuteBars \cup {"1d"}, <<h, i>> \in lastBad
               PROVE  /\ fx.due <= lNow + RetryAfter
                      /\ IF i = "1d" THEN h \in dailyRetry ELSE <<h, i>> \in failedIntervals
    BY DEF FailureRetriedSoon
  <2> QED BY DEF HistoryInv, BadInv
<1>2. MetadataInv => DegradedRetriedEarly
  BY DEF MetadataInv
<1> QED BY <1>1, <1>2, CollectorsInvariant, PTL DEF RetriedSoon
=============================================================================
