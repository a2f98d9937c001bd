--------------------------- MODULE PlanningProofs ---------------------------
(***************************************************************************)
(* Proofs about what decides whether a price may be shown: the derived     *)
(* quotes (SyntheticPrices), the warm-up of a candidate catalog (WarmUp)   *)
(* and the market calendars with the freshness rules (MarketSessions).     *)
(*                                                                         *)
(* None of the properties is inductive.  LiveInv says that an inner quote  *)
(* is dated by the legs that are still there, WarmInv when each provider   *)
(* was last called and which answers an operation follows, and SessionInv  *)
(* that a status is never dated ahead; the calendars are exact because     *)
(* the clocks change on a closed Sunday.                                   *)
(***************************************************************************)
EXTENDS SyntheticPrices, WarmUp, MarketSessions, FiniteSetTheorems, SequenceTheorems, TLAPS

(***************************************************************************)
(* Derived quotes.                                                         *)
(***************************************************************************)
Quotes == [is : {"quote"}, at : Nat, status : LegStatuses]
Answers == {Pending, Error} \cup Quotes
InnerLegs == IF shape = "cross" THEN {"mid", "far"} ELSE {"far"}

(* An answer is dated by the oldest of the legs S and is as open as they.  *)
Oldest(at, S) == (\A x \in S : at <= leg[x].at) /\ \E x \in S : at = leg[x].at
AsOpen(status, S) ==
  /\ (status = "open") <=> (\A x \in S : leg[x].status = "open")
  /\ status = "closed" => \E x \in S : leg[x].status = "closed"
Based(q, S) == (\A x \in S : leg[x] \in Quotes) /\ Oldest(q.at, S) /\ AsOpen(q.status, S)

LiveInv ==
  /\ second \in Nat /\ shape \in {"cross", "inverse"} /\ leg \in [Legs -> Answers]
  /\ inner \in Answers /\ (inner \in Quotes => Based(inner, InnerLegs))
  /\ answeredAt \in Nat
  /\ Served => /\ outer.at \in Nat /\ Based(outer, Used)
               /\ kind = "recipe" => answeredAt - outer.at <= MaxAge

LEMMA MinIs ==
  ASSUME NEW S, S \subseteq Int, NEW m \in S, \A y \in S : m <= y PROVE Min(S) = m
<1>1. Min(S) \in S /\ \A y \in S : Min(S) <= y
  BY DEF Min
<1>2. Min(S) \in Int /\ m \in Int /\ Min(S) <= m /\ m <= Min(S)
  BY <1>1
<1> QED BY <1>2

LEMMA MinOfTwo ==
  ASSUME NEW a \in Nat, NEW b \in Nat PROVE Min({a, b}) = IF a <= b THEN a ELSE b
<1>1. CASE a <= b
  <2>1. {a, b} \subseteq Int /\ a \in {a, b} /\ \A y \in {a, b} : a <= y
    BY <1>1
  <2> QED BY <1>1, <2>1, MinIs
<1>2. CASE ~(a <= b)
  <2>1. {a, b} \subseteq Int /\ b \in {a, b} /\ \A y \in {a, b} : b <= y
    BY <1>2
  <2> QED BY <1>2, <2>1, MinIs
<1> QED BY <1>1, <1>2

LEMMA AnswerKinds ==
  /\ Pending \notin Quotes /\ Error \notin Quotes /\ Pending # Error
  /\ \A q \in Quotes : q.is = "quote" /\ q.at \in Nat /\ q.status \in LegStatuses
  /\ Pending.is = "pending" /\ Error.is = "error"
BY DEF Pending, Error, Quotes

\* What combining two quotes gives.
LEMMA CombinedFacts ==
  ASSUME NEW l \in Answers, NEW r \in Answers, NEW now \in Nat, Gathered(l, r)
  PROVE  /\ Combined(l, r, now) \in Quotes \cup {Error}
         /\ Combined(l, r, now) # Error =>
              /\ l \in Quotes /\ r \in Quotes /\ now - l.at <= MaxAge /\ now - r.at <= MaxAge
              /\ Combined(l, r, now).at = (IF l.at <= r.at THEN l.at ELSE r.at)
              /\ Combined(l, r, now).status = MarketStatus(l.status, r.status)
<1>1. CASE Error \in {l, r}
  BY <1>1 DEF Combined
<1>2. CASE Error \notin {l, r}
  <2>1. l \in Quotes /\ r \in Quotes
    BY <1>2 DEF Gathered, Answers
  <2>2. l.at \in Nat /\ r.at \in Nat /\ l.status \in LegStatuses /\ r.status \in LegStatuses
    BY <2>1, AnswerKinds
  <2>3. MarketStatus(l.status, r.status) \in LegStatuses
    BY <2>2 DEF MarketStatus, LegStatuses
  <2>4. Min({l.at, r.at}) = (IF l.at <= r.at THEN l.at ELSE r.at) /\ Min({l.at, r.at}) \in Nat
    BY <2>2, MinOfTwo
  <2>5. CASE Synthesized(l, r, now) = Error
    BY <1>2, <2>5 DEF Combined
  <2>6. CASE Synthesized(l, r, now) # Error
    <3>1. /\ InTime(l, now) /\ InTime(r, now)
          /\ Combined(l, r, now) = Observation(Min({l.at, r.at}), MarketStatus(l.status, r.status))
      BY <1>2, <2>6 DEF Combined, Synthesized
    <3>2. Observation(Min({l.at, r.at}), MarketStatus(l.status, r.status)) \in Quotes
      BY <2>3, <2>4 DEF Observation, Quotes
    <3> QED BY <2>1, <2>4, <3>1, <3>2 DEF InTime, Observation
  <2> QED BY <2>5, <2>6
<1> QED BY <1>1, <1>2

\* Two answers that rest on some legs each, combined, rest on all of them.
LEMMA CombinedBased ==
  ASSUME NEW S, NEW T, NEW l, NEW r, l.at \in Nat, r.at \in Nat, l.status \in LegStatuses, r.status \in LegStatuses,
         Based(l, S), Based(r, T), NEW q, q.at = (IF l.at <= r.at THEN l.at ELSE r.at),
         q.status = MarketStatus(l.status, r.status)
  PROVE  Based(q, S \cup T)
<1>1. \A x \in S \cup T : leg[x] \in Quotes /\ leg[x].at \in Nat
  BY AnswerKinds DEF Based
<1>2. Oldest(q.at, S \cup T)
  <2>1. CASE l.at <= r.at
    BY <1>1, <2>1 DEF Based, Oldest
  <2>2. CASE ~(l.at <= r.at)
    BY <1>1, <2>2 DEF Based, Oldest
  <2> QED BY <2>1, <2>2
<1>3. AsOpen(q.status, S \cup T)
  <2>1. (q.status = "open") <=> (l.status = "open" /\ r.status = "open")
    BY DEF MarketStatus, LegStatuses
  <2>2. q.status = "closed" => l.status = "closed" \/ r.status = "closed"
    BY DEF MarketStatus, LegStatuses
  <2> QED BY <2>1, <2>2 DEF Based, AsOpen
<1> QED BY <1>1, <1>2, <1>3 DEF Based

LEMMA OwnLeg ==
  ASSUME NEW x, leg[x] \in Quotes PROVE Based(leg[x], {x})
<1>1. leg[x].at \in Nat
  BY AnswerKinds
<1>2. Oldest(leg[x].at, {x})
  BY <1>1 DEF Oldest
<1>3. AsOpen(leg[x].status, {x})
  BY DEF AsOpen
<1> QED BY <1>2, <1>3 DEF Based

LEMMA LegStep ==
  ASSUME LiveInv, NEW x \in Legs, LegAnswers(x) \/ LegFails(x) PROVE LiveInv'
<1>1. /\ leg[x] = Pending /\ UNCHANGED <<second, kind, shape, inner, outer, answeredAt>> /\ second \in Nat
      /\ leg \in [Legs -> Answers]
  BY DEF LegAnswers, LegFails, LiveInv
<1>2. PICK a \in Answers : leg' = [leg EXCEPT ![x] = a]
  <2>1. CASE LegFails(x)
    BY <2>1 DEF LegFails, Answers
  <2>2. CASE LegAnswers(x)
    <3>1. PICK at \in 0..(second + Ahead + 1), status \in LegStatuses : leg' = [leg EXCEPT ![x] = Observation(at, status)]
      BY <2>2 DEF LegAnswers
    <3>2. at \in Nat
      BY <1>1, SyntheticAssumption
    <3>3. Observation(at, status) \in Answers
      BY <3>2 DEF Observation, Answers, Quotes
    <3> QED BY <3>1, <3>3
  <2> QED BY <2>1, <2>2
<1>3. leg' \in [Legs -> Answers]
  BY <1>1, <1>2
<1>4. ASSUME NEW S \in SUBSET Legs, \A y \in S : leg[y] \in Quotes PROVE \A y \in S : leg'[y] = leg[y]
  <2>1. x \notin S
    BY <1>1, <1>4, AnswerKinds
  <2> QED BY <1>1, <1>2, <2>1
<1>5. InnerLegs \subseteq Legs /\ Used \subseteq Legs /\ InnerLegs' = InnerLegs /\ Used' = Used /\ Served' = Served
  BY <1>1 DEF InnerLegs, Used, Legs, Served
<1>6. ASSUME inner \in Quotes PROVE Based(inner, InnerLegs)'
  <2>1. Based(inner, InnerLegs)
    BY <1>6 DEF LiveInv
  <2>2. \A y \in InnerLegs : leg'[y] = leg[y]
    BY <1>4, <1>5, <2>1 DEF Based
  <2> QED BY <1>1, <1>5, <2>1, <2>2 DEF Based, Oldest, AsOpen
<1>7. ASSUME Served PROVE Based(outer, Used)'
  <2>1. Based(outer, Used)
    BY <1>7 DEF LiveInv
  <2>2. \A y \in Used : leg'[y] = leg[y]
    BY <1>4, <1>5, <2>1 DEF Based
  <2> QED BY <1>1, <1>5, <2>1, <2>2 DEF Based, Oldest, AsOpen
<1> QED BY <1>1, <1>3, <1>5, <1>6, <1>7 DEF LiveInv

LEMMA InnerStep ==
  ASSUME LiveInv, InnerAnswers PROVE LiveInv'
<1>1. /\ UNCHANGED <<second, kind, shape, leg, outer, answeredAt>> /\ second \in Nat /\ leg \in [Legs -> Answers]
      /\ shape \in {"cross", "inverse"} /\ "mid" \in Legs /\ "far" \in Legs
  BY DEF InnerAnswers, LiveInv, Legs
<1>2. inner' \in Answers /\ (inner' \in Quotes => Based(inner', InnerLegs))
  <2>1. CASE shape = "cross"
    <3>1. /\ Gathered(leg["mid"], leg["far"]) /\ inner' = Combined(leg["mid"], leg["far"], second)
          /\ leg["mid"] \in Answers /\ leg["far"] \in Answers
      BY <1>1, <2>1 DEF InnerAnswers
    <3>2. /\ inner' \in Quotes \cup {Error}
          /\ inner' # Error =>
               /\ leg["mid"] \in Quotes /\ leg["far"] \in Quotes
               /\ inner'.at = (IF leg["mid"].at <= leg["far"].at THEN leg["mid"].at ELSE leg["far"].at)
               /\ inner'.status = MarketStatus(leg["mid"].status, leg["far"].status)
      BY <1>1, <3>1, CombinedFacts
    <3>3. ASSUME inner' \in Quotes PROVE Based(inner', InnerLegs)
      <4>1. inner' # Error
        BY <3>3, AnswerKinds
      <4>2. Based(leg["mid"], {"mid"}) /\ Based(leg["far"], {"far"})
        BY <3>2, <4>1, OwnLeg
      <4>3. Based(inner', {"mid"} \cup {"far"})
        BY <3>2, <4>1, <4>2, CombinedBased, AnswerKinds
      <4>4. {"mid"} \cup {"far"} = InnerLegs
        BY <2>1 DEF InnerLegs
      <4> QED BY <4>3, <4>4
    <3> QED BY <3>2, <3>3 DEF Answers
  <2>2. CASE shape = "inverse"
    <3>1. /\ leg["far"] # Pending /\ leg["far"] \in Answers
          /\ inner' = IF leg["far"] = Error THEN Error ELSE SynthesizedInverse(leg["far"], second)
      BY <1>1, <2>2 DEF InnerAnswers
    <3>2. inner' = Error \/ (inner' = leg["far"] /\ leg["far"] \in Quotes)
      BY <3>1 DEF SynthesizedInverse, Answers
    <3>3. InnerLegs = {"far"}
      BY <2>2 DEF InnerLegs
    <3> QED BY <3>2, <3>3, OwnLeg, AnswerKinds DEF Answers
  <2> QED BY <1>1, <2>1, <2>2
<1>3. ASSUME NEW q, NEW S, Based(q, S) PROVE Based(q, S)'
  BY <1>1, <1>3 DEF Based, Oldest, AsOpen
<1>4. InnerLegs' = InnerLegs /\ Used' = Used /\ Served' = Served
  BY <1>1 DEF InnerLegs, Used, Served
<1>5. inner' \in Quotes => Based(inner, InnerLegs)'
  BY <1>1, <1>2, <1>4 DEF Based, Oldest, AsOpen
<1>6. Based(outer, Used)' = Based(outer, Used)
  BY <1>1, <1>4 DEF Based, Oldest, AsOpen
<1> QED BY <1>1, <1>2, <1>4, <1>5, <1>6 DEF LiveInv

LEMMA OuterStep ==
  ASSUME LiveInv, OuterAnswers PROVE LiveInv'
<1>1. /\ UNCHANGED <<second, kind, shape, leg, inner>> /\ second \in Nat /\ leg \in [Legs -> Answers] /\ inner \in Answers
      /\ Gathered(leg["near"], inner) /\ leg["near"] \in Answers
  BY DEF OuterAnswers, LiveInv, Legs
<1>2. PICK now, c : now = ClockOf /\ c = Combined(leg["near"], inner, ClockOf)
  OBVIOUS
<1>3. now \in Nat /\ (kind = "recipe" => now = second)
  BY <1>1, <1>2 DEF ClockOf
<1>4. /\ c \in Quotes \cup {Error}
      /\ c # Error =>
           /\ leg["near"] \in Quotes /\ inner \in Quotes /\ now - leg["near"].at <= MaxAge /\ now - inner.at <= MaxAge
           /\ c.at = (IF leg["near"].at <= inner.at THEN leg["near"].at ELSE inner.at)
           /\ c.status = MarketStatus(leg["near"].status, inner.status)
  BY <1>1, <1>2, <1>3, CombinedFacts
<1>5. outer' = c /\ answeredAt' = second
  BY <1>2 DEF OuterAnswers
<1>7. Used' = Used /\ Served' = (c.is = "quote") /\ InnerLegs' = InnerLegs
  BY <1>1, <1>5 DEF Used, Served, InnerLegs
<1>8. ASSUME c.is = "quote"
      PROVE  c \in Quotes /\ c.at \in Nat /\ Based(c, Used) /\ (kind = "recipe" => second - c.at <= MaxAge)
  <2>1. c \in Quotes /\ c # Error
    BY <1>4, <1>8, AnswerKinds
  <2>2. leg["near"].at \in Nat /\ inner.at \in Nat /\ leg["near"].status \in LegStatuses /\ inner.status \in LegStatuses
    BY <1>4, <2>1, AnswerKinds
  <2>3. Based(leg["near"], {"near"}) /\ Based(inner, InnerLegs)
    BY <1>4, <2>1, OwnLeg DEF LiveInv
  <2>4. Based(c, {"near"} \cup InnerLegs)
    BY <1>4, <2>1, <2>2, <2>3, CombinedBased
  <2>5. {"near"} \cup InnerLegs = Used
    BY DEF InnerLegs, Used, Legs, LiveInv
  <2>6. kind = "recipe" => second - c.at <= MaxAge
    BY <1>3, <1>4, <2>1, <2>2
  <2> QED BY <2>1, <2>4, <2>5, <2>6, AnswerKinds
<1>9. ASSUME Served' PROVE Based(outer, Used)'
  <2>1. Based(c, Used)
    BY <1>7, <1>8, <1>9
  <2> QED BY <1>1, <1>5, <1>7, <2>1 DEF Based, Oldest, AsOpen
<1>10. Based(inner, InnerLegs)' = Based(inner, InnerLegs)
  BY <1>1, <1>7 DEF Based, Oldest, AsOpen
<1> QED BY <1>1, <1>5, <1>7, <1>8, <1>9, <1>10 DEF LiveInv

LEMMA LiveNextInv ==
  ASSUME LiveInv, [SyntheticNext]_syntheticVars PROVE LiveInv'
<1>1. CASE UNCHANGED liveVars
  BY <1>1 DEF liveVars, LiveInv, Based, Oldest, AsOpen, InnerLegs, Used, Served
<1>2. CASE Second
  <2>1. UNCHANGED <<kind, shape, leg, inner, outer, answeredAt>> /\ second' \in Nat
    BY <1>2 DEF Second, LiveInv
  <2>2. /\ InnerLegs' = InnerLegs /\ Used' = Used /\ Served' = Served
        /\ Based(inner, InnerLegs)' = Based(inner, InnerLegs) /\ Based(outer, Used)' = Based(outer, Used)
    BY <2>1 DEF Based, Oldest, AsOpen, InnerLegs, Used, Served
  <2> QED BY <2>1, <2>2 DEF LiveInv
<1>3. CASE \E x \in Legs : LegAnswers(x) \/ LegFails(x)
  BY <1>3, LegStep
<1>4. CASE InnerAnswers
  BY <1>4, InnerStep
<1>5. CASE OuterAnswers
  BY <1>5, OuterStep
<1> QED BY <1>1, <1>2, <1>3, <1>4, <1>5 DEF SyntheticNext, LiveNext, syntheticVars

LEMMA LiveInvSound ==
  ASSUME LiveInv PROVE DerivedSound
<1>1. CASE ~Served
  BY <1>1 DEF DerivedSound, DerivedLikeItsLegs, NoStaleLegServed
<1>2. CASE Served
  <2>1. /\ outer.at \in Nat /\ answeredAt \in Nat /\ (\A x \in Used : leg[x] \in Quotes)
        /\ (\A x \in Used : outer.at <= leg[x].at) /\ (\E x \in Used : outer.at = leg[x].at)
        /\ AsOpen(outer.status, Used) /\ (kind = "recipe" => answeredAt - outer.at <= MaxAge)
    BY <1>2 DEF LiveInv, Based, Oldest
  <2>2. \A x \in Used : leg[x].at \in Nat
    BY <2>1, AnswerKinds
  <2> DEFINE S == {leg[x].at : x \in Used}
  <2>3. S \subseteq Int /\ outer.at \in S /\ \A y \in S : outer.at <= y
    BY <2>1, <2>2
  <2>4. outer.at = Min(S)
    <3> HIDE DEF S
    <3> QED BY <2>3, MinIs
  <2>5. kind = "recipe" => \A x \in Used : answeredAt - leg[x].at <= MaxAge
    BY <2>1, <2>2, SyntheticAssumption
  <2> QED BY <2>1, <2>4, <2>5 DEF DerivedSound, DerivedLikeItsLegs, NoStaleLegServed, AsOpen
<1> QED BY <1>1, <1>2

(* A quote of a recipe, through every level of recipes, is as old as the   *)
(* oldest observation under it and no more open than its markets, and no   *)
(* leg of it is too old when it is served (synthetic.py:36-66).            *)
THEOREM DerivedQuotesSound == SyntheticSpec => []DerivedSound
<1>1. SyntheticInit => LiveInv
  BY AnswerKinds DEF SyntheticInit, LiveInv, Answers, Served, Quotes
<1>2. LiveInv /\ [SyntheticNext]_syntheticVars => LiveInv'
  BY LiveNextInv
<1>3. LiveInv => DerivedSound
  BY LiveInvSound
<1> QED BY <1>1, <1>2, <1>3, PTL DEF SyntheticSpec

(***************************************************************************)
(* The warm-up.                                                            *)
(***************************************************************************)
First(i) == ChainOf(work[i], task[i].op)[1]
Fetched(i, n) == \A k \in 1..n : Capabilities(work[i])[k] \in got[i]

(* An operation follows the answers of all those before it.                *)
TaskInv(i) ==
  /\ task[i] = [pc |-> task[i].pc, op |-> task[i].op, until |-> task[i].until]
  /\ task[i].pc \in {"pacing", "calling"} =>
       task[i].op \in DOMAIN Capabilities(work[i]) /\ ChainOf(work[i], task[i].op) # << >> /\ Fetched(i, task[i].op - 1)
  /\ task[i].pc = "done" => Fetched(i, Len(Capabilities(work[i])))

(* A task that waits for its instant has not missed it, the pacer went on  *)
(* from there, and every earlier call was a gap before.                    *)
PacedInv(i) ==
  task[i].pc = "pacing" =>
    /\ task[i].until \in Nat /\ wNow <= task[i].until /\ task[i].until + Gap[First(i)] <= nextAt[First(i)]
    /\ \A c \in lastCall[First(i)] : c + Gap[First(i)] <= task[i].until

ApartInv(i, j) ==
  (i # j /\ task[i].pc = "pacing" /\ task[j].pc = "pacing" /\ First(i) = First(j)) =>
    \/ task[i].until + Gap[First(i)] <= task[j].until
    \/ task[j].until + Gap[First(i)] <= task[i].until

WarmTypes ==
  /\ work \in Workloads /\ wNow \in Nat /\ DOMAIN task = DOMAIN work /\ DOMAIN got = DOMAIN work
  /\ task = [i \in DOMAIN work |-> task[i]] /\ got = [i \in DOMAIN work |-> got[i]]
  /\ nextAt \in [Gated -> Nat] /\ lastCall \in [Gated -> SUBSET Nat]

CallsInv == \A p \in Gated : \A c \in lastCall[p] : c + Gap[p] <= nextAt[p]

WarmInv ==
  /\ WarmTypes /\ CallsInv /\ RateGateKept
  /\ \A i \in DOMAIN work : TaskInv(i) /\ PacedInv(i)
  /\ \A i, j \in DOMAIN work : ApartInv(i, j)
  /\ outcome.is = "complete" => \A i \in DOMAIN work : task[i].pc = "done"

LEMMA OneWord ==
  ASSUME NEW S, NEW x \in S PROVE <<x>> \in Seq(S) /\ Len(<<x>>) = 1 /\ <<x>>[1] = x
OBVIOUS

LEMMA CapabilityFacts ==
  ASSUME NEW d, d.dividend \in BOOLEAN
  PROVE  /\ Len(Capabilities(d)) \in Nat \ {0} /\ DOMAIN Capabilities(d) = 1..Len(Capabilities(d))
         /\ \E k \in 1..Len(Capabilities(d)) : Capabilities(d)[k] = "quote"
         /\ (d.yield = "annualized" \/ d.dividend) => \E k \in 1..Len(Capabilities(d)) : Capabilities(d)[k] = "dividend"
         /\ d.yield = "metric" => \E k \in 1..Len(Capabilities(d)) : Capabilities(d)[k] = "yield"
<1> DEFINE W == {"quote", "dividend", "yield"}
<1>1. PICK b, c : /\ b = (IF d.dividend \/ d.yield = "annualized" THEN <<"dividend">> ELSE << >>)
                  /\ c = (IF d.yield = "metric" THEN <<"yield">> ELSE << >>)
  OBVIOUS
<1>2. PICK a, u, r : a = <<"quote">> /\ u = a \o b /\ r = u \o c
  OBVIOUS
<1>3. Capabilities(d) = r
  BY <1>1, <1>2 DEF Capabilities
<1>4. /\ a \in Seq(W) /\ Len(a) = 1 /\ a[1] = "quote"
      /\ b \in Seq(W) /\ Len(b) \in Nat /\ ((d.dividend \/ d.yield = "annualized") => Len(b) = 1 /\ b[1] = "dividend")
      /\ c \in Seq(W) /\ Len(c) \in Nat /\ (d.yield = "metric" => Len(c) = 1 /\ c[1] = "yield")
  <2>1. a \in Seq(W) /\ Len(a) = 1 /\ a[1] = "quote"
    <3>1. "quote" \in W
      OBVIOUS
    <3> HIDE DEF W
    <3> QED BY <1>2, <3>1, OneWord
  <2>3. b \in Seq(W) /\ Len(b) \in Nat /\ ((d.dividend \/ d.yield = "annualized") => Len(b) = 1 /\ b[1] = "dividend")
    <3>1. CASE b = << >> /\ ~(d.dividend \/ d.yield = "annualized")
      BY <3>1
    <3>2. CASE b = <<"dividend">>
      <4>1. "dividend" \in W
        OBVIOUS
      <4> HIDE DEF W
      <4> QED BY <3>2, <4>1, OneWord
    <3> QED BY <1>1, <3>1, <3>2
  <2>4. c \in Seq(W) /\ Len(c) \in Nat /\ (d.yield = "metric" => Len(c) = 1 /\ c[1] = "yield")
    <3>1. CASE c = << >> /\ d.yield # "metric"
      BY <3>1
    <3>2. CASE c = <<"yield">>
      <4>1. "yield" \in W
        OBVIOUS
      <4> HIDE DEF W
      <4> QED BY <3>2, <4>1, OneWord
    <3> QED BY <1>1, <3>1, <3>2
  <2> QED BY <2>1, <2>3, <2>4
<1> HIDE DEF W
<1>5. /\ u \in Seq(W) /\ Len(u) = 1 + Len(b) /\ u[1] = "quote" /\ (Len(b) = 1 => u[2] = b[1])
  BY <1>2, <1>4, ConcatProperties
<1>6. /\ r \in Seq(W) /\ Len(r) = Len(u) + Len(c) /\ (\A i \in 1..Len(u) : r[i] = u[i])
      /\ (Len(c) = 1 => r[Len(u) + 1] = c[1])
  BY <1>2, <1>4, <1>5, ConcatProperties
<1>7. Len(r) \in Nat \ {0} /\ DOMAIN r = 1..Len(r) /\ 1 \in 1..Len(r) /\ r[1] = "quote"
  BY <1>4, <1>5, <1>6
<1>8. ASSUME d.yield = "annualized" \/ d.dividend PROVE 2 \in 1..Len(r) /\ r[2] = "dividend"
  BY <1>4, <1>5, <1>6, <1>8
<1>9. ASSUME d.yield = "metric" PROVE Len(u) + 1 \in 1..Len(r) /\ r[Len(u) + 1] = "yield"
  <2>1. Len(c) = 1 /\ c[1] = "yield"
    BY <1>4, <1>9
  <2>2. Len(u) \in Nat /\ Len(r) = Len(u) + 1
    BY <1>4, <1>5, <1>6, <2>1
  <2> QED BY <1>6, <2>1, <2>2
<1> QED BY <1>3, <1>7, <1>8, <1>9

LEMMA WorkFacts ==
  ASSUME WarmTypes, NEW i \in DOMAIN work
  PROVE  /\ Len(Capabilities(work[i])) \in Nat \ {0} /\ DOMAIN Capabilities(work[i]) = 1..Len(Capabilities(work[i]))
         /\ \A op \in DOMAIN Capabilities(work[i]) :
              ChainOf(work[i], op) # << >> => ChainOf(work[i], op)[1] \in Gated
         /\ \A p \in Gated : Gap[p] \in Nat
<1>1. work[i].dividend \in BOOLEAN /\ \A op \in DOMAIN Capabilities(work[i]) : ChainOf(work[i], op) \in Seq(Gated)
  BY WorkloadAssumption DEF WarmTypes
<1>2. ASSUME NEW op \in DOMAIN Capabilities(work[i]), ChainOf(work[i], op) # << >> PROVE ChainOf(work[i], op)[1] \in Gated
  <2>1. ChainOf(work[i], op) \in Seq(Gated) /\ ChainOf(work[i], op) # << >>
    BY <1>1, <1>2
  <2> QED BY <2>1
<1> QED BY <1>1, <1>2, CapabilityFacts, WarmAssumption DEF Gated

LEMMA WarmInitInv ==
  ASSUME WarmInit PROVE WarmInv
<1>1. WarmTypes
  BY WarmAssumption DEF WarmInit, WarmTypes, Gated
<1>2. \A i \in DOMAIN work : task[i] = Queued
  BY DEF WarmInit
<1>3. \A i \in DOMAIN work : TaskInv(i) /\ PacedInv(i)
  BY <1>2 DEF TaskInv, PacedInv, Queued
<1>4. \A i, j \in DOMAIN work : ApartInv(i, j)
  BY <1>2 DEF ApartInv, Queued
<1>5. CallsInv /\ RateGateKept /\ outcome.is # "complete"
  BY DEF WarmInit, CallsInv, RateGateKept, Running
<1> QED BY <1>1, <1>3, <1>4, <1>5 DEF WarmInv

\* Answers only add to what an instrument has.
More == work' = work /\ DOMAIN got' = DOMAIN work /\ got' = [i \in DOMAIN work |-> got'[i]]
        /\ \A j \in DOMAIN work : got[j] \subseteq got'[j]

LEMMA FailsStep ==
  ASSUME WarmInv, More, wNow' = wNow, NEW i \in DOMAIN work, NEW op, Fails(i, op) PROVE WarmInv'
<1>0. WarmTypes /\ CallsInv /\ RateGateKept /\ \A j \in DOMAIN work : TaskInv(j)
  BY DEF WarmInv
<1>1. /\ work' = work /\ UNCHANGED <<nextAt, lastCall>> /\ outcome'.is = "failed"
      /\ task' = [j \in DOMAIN work |->
                    [task[j] EXCEPT !.pc = IF j = i THEN "failed" ELSE IF @ = "done" THEN @ ELSE "cancelled"]]
  BY DEF Fails, More
<1>2. ASSUME NEW j \in DOMAIN work
      PROVE  /\ task'[j] = [pc |-> task'[j].pc, op |-> task'[j].op, until |-> task'[j].until]
             /\ task'[j].pc \in {"failed", "done", "cancelled"} /\ (task'[j].pc = "done" => task[j].pc = "done")
  <2>1. task[j] = [pc |-> task[j].pc, op |-> task[j].op, until |-> task[j].until]
    BY <1>0 DEF TaskInv
  <2>2. task'[j] = [task[j] EXCEPT !.pc = IF j = i THEN "failed" ELSE IF @ = "done" THEN @ ELSE "cancelled"]
    BY <1>1
  <2> QED BY <2>1, <2>2
<1>3. WarmTypes' /\ CallsInv' /\ RateGateKept'
  BY <1>0, <1>1 DEF WarmTypes, CallsInv, RateGateKept, More
<1>4. ASSUME NEW j \in DOMAIN work PROVE TaskInv(j)' /\ PacedInv(j)'
  <2>1. task'[j].pc = "done" => Fetched(j, Len(Capabilities(work[j])))'
    BY <1>0, <1>1, <1>2 DEF TaskInv, Fetched, More
  <2> QED BY <1>1, <1>2, <2>1 DEF TaskInv, PacedInv
<1>5. ASSUME NEW j \in DOMAIN work, NEW k \in DOMAIN work PROVE ApartInv(j, k)'
  BY <1>2 DEF ApartInv
<1> QED BY <1>1, <1>3, <1>4, <1>5 DEF WarmInv

LEMMA OperateStep ==
  ASSUME WarmInv, More, wNow' = wNow, outcome' = outcome, outcome = Running,
         NEW i \in DOMAIN work, NEW op \in DOMAIN Capabilities(work[i]), Operate(i, op), task[i].pc \notin {"pacing", "done"},
         ChainOf(work[i], op) # << >>, \A k \in 1..(op - 1) : Capabilities(work[i])[k] \in got'[i]
  PROVE  WarmInv'
<1>0. /\ WarmTypes /\ CallsInv /\ RateGateKept /\ \A j \in DOMAIN work : TaskInv(j) /\ PacedInv(j)
      /\ \A j, k \in DOMAIN work : ApartInv(j, k)
  BY DEF WarmInv
<1>1. PICK p, t : p = ChainOf(work[i], op)[1] /\ t = Scheduled(p)
  OBVIOUS
<1>2. p \in Gated /\ Gap[p] \in Nat /\ nextAt[p] \in Nat /\ wNow \in Nat /\ t \in Nat /\ wNow <= t /\ nextAt[p] <= t
  <2>1. p \in Gated /\ Gap[p] \in Nat /\ nextAt[p] \in Nat /\ wNow \in Nat
    BY <1>0, <1>1, WorkFacts DEF WarmTypes
  <2> QED BY <1>1, <2>1 DEF Scheduled, Larger
<1>3. /\ work' = work /\ UNCHANGED lastCall
      /\ task' = [task EXCEPT ![i] = IF Gap[p] = 0 THEN [pc |-> "calling", op |-> op, until |-> CallFor(ChainOf(work[i], op))]
                                                  ELSE [pc |-> "pacing", op |-> op, until |-> t]]
      /\ nextAt' = IF Gap[p] = 0 THEN nextAt ELSE [nextAt EXCEPT ![p] = t + Gap[p]]
  BY <1>1 DEF Operate, More, Booked
<1>4. /\ task'[i] = [pc |-> task'[i].pc, op |-> op, until |-> task'[i].until] /\ task'[i].op = op
      /\ task'[i].pc \in {"pacing", "calling"} /\ (task'[i].pc = "pacing" => task'[i].until = t /\ nextAt'[p] = t + Gap[p])
      /\ \A j \in DOMAIN work : j # i => task'[j] = task[j]
      /\ DOMAIN task' = DOMAIN work /\ task' = [j \in DOMAIN work |-> task'[j]]
  BY <1>0, <1>2, <1>3 DEF WarmTypes
<1>5. nextAt' \in [Gated -> Nat] /\ \A q \in Gated : nextAt[q] <= nextAt'[q]
  <2>1. nextAt \in [Gated -> Nat] /\ t + Gap[p] \in Nat /\ nextAt[p] <= t + Gap[p]
    BY <1>0, <1>2 DEF WarmTypes
  <2> QED BY <1>2, <1>3, <2>1
<1>6. WarmTypes'
  BY <1>0, <1>3, <1>4, <1>5 DEF WarmTypes, More
<1>7. CallsInv'
  <2> SUFFICES ASSUME NEW q \in Gated, NEW c \in lastCall[q] PROVE c + Gap[q] <= nextAt'[q]
    BY <1>3 DEF CallsInv
  <2>1. c \in Nat /\ Gap[q] \in Nat /\ nextAt[q] \in Nat /\ nextAt'[q] \in Nat /\ c + Gap[q] <= nextAt[q] /\ nextAt[q] <= nextAt'[q]
    BY <1>0, <1>5, WarmAssumption DEF WarmTypes, CallsInv, Gated
  <2> QED BY <2>1
<1>8. RateGateKept'
  BY <1>0, <1>3 DEF RateGateKept
<1>9. ASSUME NEW j \in DOMAIN work PROVE TaskInv(j)' /\ PacedInv(j)'
  <2>1. CASE j = i
    <3>1. First(i)' = p
      BY <1>1, <1>3, <1>4 DEF First
    <3>2. Fetched(i, op - 1)'
      BY <1>3 DEF Fetched
    <3>3. TaskInv(i)'
      BY <1>3, <1>4, <3>2 DEF TaskInv
    <3>4. ASSUME task'[i].pc = "pacing" PROVE \A c \in lastCall[p] : c + Gap[p] <= t
      <4> SUFFICES ASSUME NEW c \in lastCall[p] PROVE c + Gap[p] <= t
        OBVIOUS
      <4>1. c \in Nat /\ c + Gap[p] <= nextAt[p]
        BY <1>0, <1>2 DEF WarmTypes, CallsInv
      <4> QED BY <1>2, <4>1
    <3>5. PacedInv(i)'
      BY <1>2, <1>3, <1>4, <3>1, <3>4 DEF PacedInv
    <3> QED BY <2>1, <3>3, <3>5
  <2>2. CASE j # i
    <3>1. task'[j] = task[j] /\ First(j)' = First(j)
      BY <1>3, <1>4, <2>2 DEF First
    <3>2. TaskInv(j) /\ PacedInv(j)
      BY <1>0
    <3>3. \A n : Fetched(j, n) => Fetched(j, n)'
      BY <1>3 DEF Fetched, More
    <3>4. TaskInv(j)'
      BY <1>3, <3>1, <3>2, <3>3 DEF TaskInv
    <3>5. ASSUME task[j].pc = "pacing" PROVE PacedInv(j)'
      <4>1. First(j) \in Gated /\ Gap[First(j)] \in Nat
        BY <1>0, <3>2, <3>5, WorkFacts DEF TaskInv, First
      <4>2. nextAt[First(j)] \in Nat /\ nextAt'[First(j)] \in Nat /\ nextAt[First(j)] <= nextAt'[First(j)]
        BY <1>0, <1>5, <4>1 DEF WarmTypes
      <4> QED BY <1>3, <3>1, <3>2, <3>5, <4>1, <4>2 DEF PacedInv
    <3>6. ASSUME task[j].pc # "pacing" PROVE PacedInv(j)'
      BY <3>1, <3>6 DEF PacedInv
    <3> QED BY <3>4, <3>5, <3>6
  <2> QED BY <2>1, <2>2
<1>10. ASSUME NEW j \in DOMAIN work, j # i, task[j].pc = "pacing", First(j)' = p, task'[i].pc = "pacing"
       PROVE  task'[j].until + Gap[p] <= task'[i].until
  <2>1. task'[j] = task[j] /\ First(j) = p
    BY <1>3, <1>4, <1>10 DEF First
  <2>2. task[j].until \in Nat /\ task[j].until + Gap[p] <= nextAt[p]
    BY <1>0, <1>10, <2>1 DEF PacedInv
  <2> QED BY <1>2, <1>4, <1>10, <2>1, <2>2
<1>11. ASSUME NEW j \in DOMAIN work, NEW k \in DOMAIN work PROVE ApartInv(j, k)'
  <2> SUFFICES ASSUME j # k, task'[j].pc = "pacing", task'[k].pc = "pacing", First(j)' = First(k)'
               PROVE  \/ task'[j].until + Gap[First(j)'] <= task'[k].until
                      \/ task'[k].until + Gap[First(j)'] <= task'[j].until
    BY DEF ApartInv
  <2>1. First(i)' = p
    BY <1>1, <1>3, <1>4 DEF First
  <2>2. CASE j = i
    BY <1>4, <1>10, <2>1, <2>2
  <2>3. CASE k = i
    BY <1>4, <1>10, <2>1, <2>3
  <2>4. CASE j # i /\ k # i
    <3>1. task'[j] = task[j] /\ task'[k] = task[k] /\ First(j)' = First(j) /\ First(k)' = First(k)
      BY <1>3, <1>4, <2>4 DEF First
    <3> QED BY <1>0, <3>1 DEF ApartInv
  <2> QED BY <2>2, <2>3, <2>4
<1>12. outcome'.is # "complete"
  BY DEF Running
<1> QED BY <1>3, <1>6, <1>7, <1>8, <1>9, <1>11, <1>12 DEF WarmInv

LEMMA BeginStep ==
  ASSUME WarmInv, More, UNCHANGED wNow, outcome = Running,
         NEW i \in DOMAIN work, NEW op \in DOMAIN Capabilities(work[i]), Begin(i, op), task[i].pc \notin {"pacing", "done"},
         \A k \in 1..(op - 1) : Capabilities(work[i])[k] \in got'[i]
  PROVE  WarmInv'
<1>1. CASE ChainOf(work[i], op) # << >> /\ Operate(i, op) /\ UNCHANGED outcome
  BY <1>1, OperateStep
<1>2. CASE Fails(i, op)
  BY <1>2, FailsStep
<1> QED BY <1>1, <1>2 DEF Begin

LEMMA EnterStep ==
  ASSUME WarmInv, NEW i \in DOMAIN work, Enter(i) PROVE WarmInv'
<1>1. WarmTypes
  BY DEF WarmInv
<1>2. outcome = Running /\ Begin(i, 1) /\ UNCHANGED <<work, wNow, got>> /\ task[i].pc = "queued"
  BY DEF Enter, MayEnter, Waiting
<1>3. More
  BY <1>1, <1>2 DEF More, WarmTypes
<1>4. 1 \in DOMAIN Capabilities(work[i]) /\ 1..(1 - 1) = {}
  BY <1>1, WorkFacts
<1> QED BY <1>2, <1>3, <1>4, BeginStep

LEMMA CalledStep ==
  ASSUME WarmInv, NEW i \in DOMAIN work, Called(i) PROVE WarmInv'
<1>0. /\ WarmTypes /\ CallsInv /\ RateGateKept /\ \A j \in DOMAIN work : TaskInv(j) /\ PacedInv(j)
      /\ \A j, k \in DOMAIN work : ApartInv(j, k)
  BY DEF WarmInv
<1>1. PICK p, n : p = First(i) /\ n = CallFor(ChainOf(work[i], task[i].op))
  OBVIOUS
<1>2. /\ outcome = Running /\ task[i].pc = "pacing" /\ wNow >= task[i].until
      /\ task' = [task EXCEPT ![i] = [@ EXCEPT !.pc = "calling", !.until = n]]
      /\ lastCall' = [lastCall EXCEPT ![p] = @ \cup {wNow}]
      /\ UNCHANGED <<work, wNow, nextAt, got, outcome>>
  BY <1>1 DEF Called, First
<1>3. /\ p \in Gated /\ Gap[p] \in Nat /\ wNow \in Nat /\ nextAt[p] \in Nat
      /\ task[i].op \in DOMAIN Capabilities(work[i]) /\ ChainOf(work[i], task[i].op) # << >>
  BY <1>0, <1>1, <1>2, WorkFacts DEF TaskInv, First, WarmTypes
<1>4. /\ task[i].until = wNow /\ wNow + Gap[p] <= nextAt[p] /\ \A c \in lastCall[p] : c + Gap[p] <= wNow
  BY <1>0, <1>1, <1>2, <1>3 DEF PacedInv
<1>5. /\ task'[i].pc = "calling" /\ task'[i].op = task[i].op
      /\ task'[i] = [pc |-> task'[i].pc, op |-> task'[i].op, until |-> task'[i].until]
      /\ \A j \in DOMAIN work : j # i => task'[j] = task[j]
      /\ DOMAIN task' = DOMAIN work /\ task' = [j \in DOMAIN work |-> task'[j]]
  <2>1. task[i] = [pc |-> task[i].pc, op |-> task[i].op, until |-> task[i].until]
    BY <1>0 DEF TaskInv
  <2>2. task'[i] = [task[i] EXCEPT !.pc = "calling", !.until = n]
    BY <1>0, <1>2 DEF WarmTypes
  <2>3. task'[i] = [pc |-> "calling", op |-> task[i].op, until |-> n]
    BY <2>1, <2>2
  <2>4. DOMAIN task' = DOMAIN work /\ task' = [j \in DOMAIN work |-> task'[j]] /\ \A j \in DOMAIN work : j # i => task'[j] = task[j]
    BY <1>0, <1>2 DEF WarmTypes
  <2> QED BY <2>3, <2>4
<1>6. /\ lastCall' \in [Gated -> SUBSET Nat] /\ lastCall'[p] = lastCall[p] \cup {wNow}
      /\ \A q \in Gated : q # p => lastCall'[q] = lastCall[q]
  BY <1>0, <1>2, <1>3 DEF WarmTypes
<1>7. WarmTypes'
  BY <1>0, <1>2, <1>5, <1>6 DEF WarmTypes
<1>8. CallsInv'
  BY <1>0, <1>2, <1>4, <1>6 DEF CallsInv
<1>9. RateGateKept'
  <2> SUFFICES ASSUME NEW q \in Gated, NEW a \in lastCall'[q], NEW b \in lastCall'[q], a # b
               PROVE  a - b >= Gap[q] \/ b - a >= Gap[q]
    BY DEF RateGateKept
  <2>1. CASE q # p
    BY <1>0, <1>6, <2>1 DEF RateGateKept
  <2>2. CASE q = p
    <3>1. \A c \in lastCall[p] : c \in Nat /\ wNow - c >= Gap[p]
      <4> SUFFICES ASSUME NEW c \in lastCall[p] PROVE c \in Nat /\ wNow - c >= Gap[p]
        OBVIOUS
      <4>1. c \in Nat /\ c + Gap[p] <= wNow
        BY <1>0, <1>3, <1>4 DEF WarmTypes
      <4> QED BY <1>3, <4>1
    <3>2. CASE a \in lastCall[p] /\ b \in lastCall[p]
      BY <1>0, <1>3, <2>2, <3>2 DEF RateGateKept
    <3>3. CASE a = wNow /\ b \in lastCall[p]
      BY <2>2, <3>1, <3>3
    <3>4. CASE b = wNow /\ a \in lastCall[p]
      BY <2>2, <3>1, <3>4
    <3> QED BY <1>6, <2>2, <3>2, <3>3, <3>4
  <2> QED BY <2>1, <2>2
<1>10. ASSUME NEW j \in DOMAIN work PROVE TaskInv(j)' /\ PacedInv(j)'
  <2>1. TaskInv(j) /\ PacedInv(j) /\ \A m : Fetched(j, m)' = Fetched(j, m)
    BY <1>0, <1>2 DEF Fetched
  <2>2. CASE j = i
    <3>1. TaskInv(i)'
      BY <1>2, <1>3, <1>5, <2>1, <2>2 DEF TaskInv
    <3> QED BY <1>5, <2>2, <3>1 DEF PacedInv
  <2>3. CASE j # i
    <3>1. task'[j] = task[j] /\ First(j)' = First(j)
      BY <1>2, <1>5, <2>3 DEF First
    <3>2. TaskInv(j)'
      BY <1>2, <2>1, <3>1 DEF TaskInv
    <3>3. CASE task[j].pc # "pacing"
      BY <3>1, <3>2, <3>3 DEF PacedInv
    <3>4. CASE task[j].pc = "pacing" /\ First(j) # p
      <4>1. First(j) \in Gated
        BY <1>0, <2>1, <3>4, WorkFacts DEF TaskInv, First
      <4>2. lastCall'[First(j)] = lastCall[First(j)]
        BY <1>6, <3>4, <4>1
      <4> QED BY <1>2, <2>1, <3>1, <3>2, <4>2 DEF PacedInv
    <3>5. CASE task[j].pc = "pacing" /\ First(j) = p
      <4>1. task[j].until \in Nat /\ wNow <= task[j].until
        BY <2>1, <3>5 DEF PacedInv
      <4>2. task[i].until + Gap[p] <= task[j].until \/ task[j].until + Gap[p] <= task[i].until
        BY <1>0, <1>1, <1>2, <2>3, <3>5 DEF ApartInv
      <4>3. wNow + Gap[p] <= task[j].until
        BY <1>3, <1>4, <4>1, <4>2
      <4> QED BY <1>2, <1>6, <2>1, <3>1, <3>2, <3>5, <4>3 DEF PacedInv
    <3> QED BY <3>3, <3>4, <3>5
  <2> QED BY <2>2, <2>3
<1>11. ASSUME NEW j \in DOMAIN work, NEW k \in DOMAIN work PROVE ApartInv(j, k)'
  <2>1. CASE j = i \/ k = i
    BY <1>5, <2>1 DEF ApartInv
  <2>2. CASE j # i /\ k # i
    <3>1. task'[j] = task[j] /\ task'[k] = task[k] /\ First(j)' = First(j) /\ First(k)' = First(k) /\ ApartInv(j, k)
      BY <1>0, <1>2, <1>5, <2>2 DEF First
    <3> QED BY <3>1 DEF ApartInv
  <2> QED BY <2>1, <2>2
<1>12. outcome'.is # "complete"
  BY <1>2 DEF Running
<1> QED BY <1>2, <1>7, <1>8, <1>9, <1>10, <1>11, <1>12 DEF WarmInv

LEMMA AnsweredStep ==
  ASSUME WarmInv, NEW i \in DOMAIN work, Answered(i) PROVE WarmInv'
<1>0. /\ WarmTypes /\ CallsInv /\ RateGateKept /\ \A j \in DOMAIN work : TaskInv(j) /\ PacedInv(j)
      /\ \A j, k \in DOMAIN work : ApartInv(j, k)
  BY DEF WarmInv
<1>1. PICK op, n : op = task[i].op /\ n = Len(Capabilities(work[i]))
  OBVIOUS
<1>2. /\ outcome = Running /\ task[i].pc = "calling" /\ UNCHANGED <<work, wNow>>
      /\ got' = [got EXCEPT ![i] = @ \cup {Capabilities(work[i])[op]}]
      /\ \/ op # n /\ Begin(i, op + 1)
         \/ /\ op = n /\ task' = [task EXCEPT ![i].pc = "done"] /\ UNCHANGED <<nextAt, lastCall>>
            /\ outcome' = IF \A j \in DOMAIN work : j = i \/ task[j].pc = "done" THEN [is |-> "complete"] ELSE Running
  BY <1>1 DEF Answered
<1>3. /\ n \in Nat \ {0} /\ DOMAIN Capabilities(work[i]) = 1..n /\ op \in 1..n /\ Fetched(i, op - 1)
  BY <1>0, <1>1, <1>2, WorkFacts DEF TaskInv
<1>4. More /\ got'[i] = got[i] \cup {Capabilities(work[i])[op]}
  BY <1>0, <1>2 DEF More, WarmTypes
<1>5. \A k \in 1..op : Capabilities(work[i])[k] \in got'[i]
  <2> SUFFICES ASSUME NEW k \in 1..op PROVE Capabilities(work[i])[k] \in got'[i]
    OBVIOUS
  <2>1. k = op \/ k \in 1..(op - 1)
    BY <1>3
  <2> QED BY <1>3, <1>4, <2>1 DEF Fetched
<1>6. CASE op # n /\ Begin(i, op + 1)
  <2>1. op + 1 \in DOMAIN Capabilities(work[i]) /\ 1..((op + 1) - 1) = 1..op
    BY <1>3, <1>6
  <2> QED BY <1>2, <1>4, <1>5, <1>6, <2>1, BeginStep
<1>7. CASE /\ op = n /\ task' = [task EXCEPT ![i].pc = "done"] /\ UNCHANGED <<nextAt, lastCall>>
           /\ outcome' = IF \A j \in DOMAIN work : j = i \/ task[j].pc = "done" THEN [is |-> "complete"] ELSE Running
  <2>1. /\ task'[i].pc = "done" /\ task'[i] = [pc |-> task'[i].pc, op |-> task'[i].op, until |-> task'[i].until]
        /\ \A j \in DOMAIN work : j # i => task'[j] = task[j]
        /\ DOMAIN task' = DOMAIN work /\ task' = [j \in DOMAIN work |-> task'[j]]
    <3>1. task[i] = [pc |-> task[i].pc, op |-> task[i].op, until |-> task[i].until]
      BY <1>0 DEF TaskInv
    <3>2. task'[i] = [task[i] EXCEPT !.pc = "done"]
      BY <1>0, <1>7 DEF WarmTypes
    <3>3. task'[i] = [pc |-> "done", op |-> task[i].op, until |-> task[i].until]
      BY <3>1, <3>2
    <3>4. DOMAIN task' = DOMAIN work /\ task' = [j \in DOMAIN work |-> task'[j]] /\ \A j \in DOMAIN work : j # i => task'[j] = task[j]
      BY <1>0, <1>7 DEF WarmTypes
    <3> QED BY <3>3, <3>4
  <2>2. WarmTypes' /\ CallsInv' /\ RateGateKept'
    BY <1>0, <1>2, <1>4, <1>7, <2>1 DEF WarmTypes, CallsInv, RateGateKept, More
  <2>3. ASSUME NEW j \in DOMAIN work PROVE TaskInv(j)' /\ PacedInv(j)'
    <3>1. CASE j = i
      <4>1. Fetched(i, n)'
        BY <1>2, <1>5, <1>7 DEF Fetched
      <4>2. TaskInv(i)'
        BY <1>1, <1>2, <2>1, <4>1 DEF TaskInv
      <4> QED BY <2>1, <3>1, <4>2 DEF PacedInv
    <3>2. CASE j # i
      <4>1. task'[j] = task[j] /\ First(j)' = First(j) /\ TaskInv(j) /\ PacedInv(j)
        BY <1>0, <1>2, <2>1, <3>2 DEF First
      <4>2. \A m : Fetched(j, m) => Fetched(j, m)'
        BY <1>2, <1>4 DEF Fetched, More
      <4>3. TaskInv(j)'
        BY <1>2, <4>1, <4>2 DEF TaskInv
      <4> QED BY <1>2, <1>7, <4>1, <4>3 DEF PacedInv
    <3> QED BY <3>1, <3>2
  <2>4. ASSUME NEW j \in DOMAIN work, NEW k \in DOMAIN work PROVE ApartInv(j, k)'
    <3>1. CASE j = i \/ k = i
      BY <2>1, <3>1 DEF ApartInv
    <3>2. CASE j # i /\ k # i
      <4>1. task'[j] = task[j] /\ task'[k] = task[k] /\ First(j)' = First(j) /\ First(k)' = First(k) /\ ApartInv(j, k)
        BY <1>0, <1>2, <2>1, <3>2 DEF First
      <4> QED BY <4>1 DEF ApartInv
    <3> QED BY <3>1, <3>2
  <2>5. outcome'.is = "complete" => \A j \in DOMAIN work : task'[j].pc = "done"
    BY <1>7, <2>1 DEF Running
  <2> QED BY <1>2, <2>2, <2>3, <2>4, <2>5 DEF WarmInv
<1> QED BY <1>2, <1>6, <1>7

LEMMA SleepStep ==
  ASSUME WarmInv, Sleep PROVE WarmInv'
<1>0. /\ WarmTypes /\ CallsInv /\ RateGateKept /\ \A j \in DOMAIN work : TaskInv(j) /\ PacedInv(j)
      /\ \A j, k \in DOMAIN work : ApartInv(j, k)
  BY DEF WarmInv
<1>1. /\ UNCHANGED <<work, task, nextAt, got, lastCall, outcome>> /\ wNow' = wNow + 1 /\ wNow \in Nat
      /\ \A i \in DOMAIN work : task[i].pc = "pacing" => wNow < task[i].until
  BY <1>0 DEF Sleep, Idle, WarmTypes
<1>2. WarmTypes' /\ CallsInv' /\ RateGateKept'
  BY <1>0, <1>1 DEF WarmTypes, CallsInv, RateGateKept
<1>3. ASSUME NEW j \in DOMAIN work PROVE TaskInv(j)' /\ PacedInv(j)'
  <2>1. TaskInv(j)' = TaskInv(j) /\ First(j)' = First(j)
    BY <1>1 DEF TaskInv, Fetched, First
  <2>2. PacedInv(j)'
    BY <1>0, <1>1, <2>1 DEF PacedInv
  <2> QED BY <1>0, <2>1, <2>2
<1>4. ASSUME NEW j \in DOMAIN work, NEW k \in DOMAIN work PROVE ApartInv(j, k)'
  BY <1>0, <1>1 DEF ApartInv, First
<1> QED BY <1>1, <1>2, <1>3, <1>4 DEF WarmInv

LEMMA ExpireStep ==
  ASSUME WarmInv, Expire PROVE WarmInv'
<1>0. WarmTypes /\ CallsInv /\ RateGateKept /\ \A j \in DOMAIN work : TaskInv(j)
  BY DEF WarmInv
<1>1. /\ UNCHANGED <<work, wNow, nextAt, got, lastCall>> /\ outcome'.is = "timeout"
      /\ task' = [j \in DOMAIN work |-> [task[j] EXCEPT !.pc = IF @ = "done" THEN @ ELSE "cancelled"]]
  BY DEF Expire
<1>2. ASSUME NEW j \in DOMAIN work
      PROVE  /\ task'[j] = [pc |-> task'[j].pc, op |-> task'[j].op, until |-> task'[j].until]
             /\ task'[j].pc \in {"done", "cancelled"} /\ (task'[j].pc = "done" => task[j].pc = "done")
  <2>1. task[j] = [pc |-> task[j].pc, op |-> task[j].op, until |-> task[j].until]
    BY <1>0 DEF TaskInv
  <2>2. task'[j] = [task[j] EXCEPT !.pc = IF @ = "done" THEN @ ELSE "cancelled"]
    BY <1>1
  <2> QED BY <2>1, <2>2
<1>3. WarmTypes' /\ CallsInv' /\ RateGateKept'
  BY <1>0, <1>1 DEF WarmTypes, CallsInv, RateGateKept
<1>4. ASSUME NEW j \in DOMAIN work PROVE TaskInv(j)' /\ PacedInv(j)'
  <2>1. task'[j].pc = "done" => Fetched(j, Len(Capabilities(work[j])))'
    BY <1>0, <1>1, <1>2 DEF TaskInv, Fetched
  <2> QED BY <1>1, <1>2, <2>1 DEF TaskInv, PacedInv
<1>5. ASSUME NEW j \in DOMAIN work, NEW k \in DOMAIN work PROVE ApartInv(j, k)'
  BY <1>2 DEF ApartInv
<1> QED BY <1>1, <1>3, <1>4, <1>5 DEF WarmInv

LEMMA WarmNextInv ==
  ASSUME WarmInv, [WarmNext]_warmVars PROVE WarmInv'
<1>0. WarmTypes
  BY DEF WarmInv
<1>1. ASSUME NEW i \in DOMAIN work, Enter(i) \/ Called(i) \/ Answered(i) PROVE WarmInv'
  BY <1>1, EnterStep, CalledStep, AnsweredStep
<1>2. ASSUME NEW i \in DOMAIN work, AttemptRefused(i) PROVE WarmInv'
  <2>1. Fails(i, task[i].op) /\ UNCHANGED <<work, wNow, got>>
    BY <1>2 DEF AttemptRefused
  <2>2. More
    BY <1>0, <2>1 DEF More, WarmTypes
  <2> QED BY <2>1, <2>2, FailsStep
<1>3. CASE Sleep \/ Expire
  BY <1>3, SleepStep, ExpireStep
<1>4. CASE UNCHANGED warmVars
  BY <1>4 DEF warmVars, WarmInv, WarmTypes, CallsInv, RateGateKept, TaskInv, PacedInv, ApartInv, First, Fetched
<1> QED BY <1>1, <1>2, <1>3, <1>4 DEF WarmNext

(* Two requests of a warm-up to a rate-gated provider are a gap apart, and *)
(* a warm-up that succeeded has everything that is needed to serve each of *)
(* its instruments (_warm, _WarmRatePacer), for every workload, number of  *)
(* slots and gap.                                                          *)
THEOREM WarmUpKeepsRates == WarmSpec => [](RateGateKept /\ CompleteIsServable)
<1>1. WarmInit => WarmInv
  BY WarmInitInv
<1>2. WarmInv /\ [WarmNext]_warmVars => WarmInv'
  BY WarmNextInv
<1>3. WarmInv => RateGateKept /\ CompleteIsServable
  <2> SUFFICES ASSUME WarmInv, outcome.is = "complete", NEW i \in DOMAIN work
               PROVE  /\ "quote" \in got[i]
                      /\ (work[i].yield = "annualized" \/ work[i].dividend) => "dividend" \in got[i]
                      /\ work[i].yield = "metric" => "yield" \in got[i]
    BY DEF WarmInv, CompleteIsServable
  <2>1. Fetched(i, Len(Capabilities(work[i])))
    BY DEF WarmInv, TaskInv
  <2>2. work[i].dividend \in BOOLEAN
    BY WorkloadAssumption DEF WarmInv, WarmTypes
  <2>3. \A k \in 1..Len(Capabilities(work[i])) : Capabilities(work[i])[k] \in got[i]
    BY <2>1 DEF Fetched
  <2> QED BY <2>2, <2>3, CapabilityFacts
<1> QED BY <1>1, <1>2, <1>3, PTL DEF WarmSpec

(***************************************************************************)
(* The market calendars.  A week has 336 half hours; m counts them from    *)
(* Monday 00:00 in New York.                                               *)
(***************************************************************************)
Timed == {"us_equity", "fx_24x5"}
Week == 0..335

OpenAt(c, m) ==
  IF c = "us_equity" THEN m \in 19..31 \/ m \in 67..79 \/ m \in 115..127 \/ m \in 163..175 \/ m \in 211..223
                     ELSE m < 226 \/ m >= 322

\* The last close, counted from the same Monday.
CloseAt(c, m) ==
  IF c = "us_equity"
    THEN IF m < 32 THEN -112 ELSE IF m < 80 THEN 32 ELSE IF m < 128 THEN 80 ELSE IF m < 176 THEN 128
         ELSE IF m < 224 THEN 176 ELSE 224
    ELSE IF m < 226 THEN -110 ELSE 226

NextOpenAt(m) ==
  IF m < 19 THEN 19 ELSE IF m < 67 THEN 67 ELSE IF m < 115 THEN 115 ELSE IF m < 163 THEN 163
  ELSE IF m < 211 THEN 211 ELSE 355

LEMMA DayCoords ==
  ASSUME NEW K \in Int, NEW d \in 0..6, NEW s \in 0..47
  PROVE  /\ Weekday(336 * K + 48 * d + s) = d /\ Slot(336 * K + 48 * d + s) = s
         /\ Midnight(336 * K + 48 * d + s) = 336 * K + 48 * d
<1>1. PICK w, q : w = 336 * K + 48 * d + s /\ q = 7 * K + d
  OBVIOUS
<1>2. w = 48 * q + s /\ q \in Int /\ w \in Int
  BY <1>1
<1>3. w % 48 = s /\ w \div 48 = q
  BY <1>2
<1>4. q % 7 = d
  BY <1>1
<1> QED BY <1>1, <1>2, <1>3, <1>4 DEF Weekday, Slot, Midnight, Day

LEMMA WeekOf ==
  ASSUME NEW w \in Int
  PROVE  \E K \in Int, d \in 0..6, s \in 0..47 : w = 336 * K + 48 * d + s
<1>1. PICK q, r : q = w \div 48 /\ r = w % 48
  OBVIOUS
<1>2. q \in Int /\ r \in 0..47 /\ w = 48 * q + r
  BY <1>1
<1>3. PICK K, d : K = q \div 7 /\ d = q % 7
  OBVIOUS
<1>4. K \in Int /\ d \in 0..6 /\ q = 7 * K + d
  BY <1>2, <1>3
<1>5. w = 336 * K + 48 * d + r
  BY <1>2, <1>4
<1> QED BY <1>2, <1>4, <1>5

\* Where an instant is in its week.
LEMMA LocalWeek ==
  ASSUME NEW t \in Int PROVE Local(t) \in Int /\ \E K \in Int, m \in Week : Local(t) = 336 * K + m
<1>1. Local(t) \in Int
  BY ClockAssumption DEF Local
<1>2. PICK K \in Int, d \in 0..6, s \in 0..47 : Local(t) = 336 * K + 48 * d + s
  BY <1>1, WeekOf, ZenonT(60)
<1>3. 48 * d + s \in Week /\ Local(t) = 336 * K + (48 * d + s)
  BY <1>2 DEF Week
<1> QED BY <1>1, <1>2, <1>3, ZenonT(60)

LEMMA DayOf ==
  ASSUME NEW m \in Week PROVE \E d \in 0..6, s \in 0..47 : m = 48 * d + s
<1>1. m \in Int
  BY DEF Week
<1>2. PICK K \in Int, d \in 0..6, s \in 0..47 : m = 336 * K + 48 * d + s
  BY <1>1, WeekOf, ZenonT(60)
<1>3. K = 0
  BY <1>2 DEF Week
<1> QED BY <1>2, <1>3

LEMMA StatusAt ==
  ASSUME NEW c \in Timed, NEW t \in Int, NEW K \in Int, NEW m \in Week, Local(t) = 336 * K + m
  PROVE  ScheduledMarketStatus(c, t) = IF OpenAt(c, m) THEN "open" ELSE "closed"
<1>1. PICK d \in 0..6, s \in 0..47 : m = 48 * d + s
  BY DayOf
<1>2. Local(t) = 336 * K + 48 * d + s
  BY <1>1
<1>3. Weekday(Local(t)) = d /\ Slot(Local(t)) = s
  BY <1>2, DayCoords
<1>4. CASE c = "us_equity"
  <2>1. OpenAt(c, m) <=> d < 5 /\ s \in 19..31
    BY <1>1, <1>4 DEF OpenAt
  <2> QED BY <1>3, <1>4, <2>1 DEF ScheduledMarketStatus, EquityOpen, EquityClose
<1>5. CASE c = "fx_24x5"
  <2>1. OpenAt(c, m) <=> (d = 6 /\ s >= 34) \/ d \in 0..3 \/ (d = 4 /\ s < 34)
    BY <1>1, <1>5 DEF OpenAt
  <2> QED BY <1>3, <1>5, <2>1 DEF ScheduledMarketStatus, FxClose
<1> QED BY <1>4, <1>5 DEF Timed

\* The end of the day d - back, on the calendar of the week.
LEMMA DayBack ==
  ASSUME NEW K \in Int, NEW d \in 0..6, NEW back \in 0..7, NEW at \in 0..47, NEW x, x = 336 * K + 48 * d - 48 * back + at
  PROVE  IF back <= d THEN Weekday(x) = d - back ELSE Weekday(x) = d - back + 7
<1>1. CASE back <= d
  <2>1. d - back \in 0..6 /\ x = 336 * K + 48 * (d - back) + at
    BY <1>1
  <2> QED BY <1>1, <2>1, DayCoords
<1>2. CASE ~(back <= d)
  <2>1. PICK K1, d1 : K1 = K - 1 /\ d1 = d - back + 7
    OBVIOUS
  <2>2. K1 \in Int /\ d1 \in 0..6 /\ x = 336 * K1 + 48 * d1 + at
    BY <1>2, <2>1
  <2>3. Weekday(336 * K1 + 48 * d1 + at) = d1
    BY <2>2, DayCoords
  <2> QED BY <1>2, <2>1, <2>2, <2>3
<1> QED BY <1>1, <1>2

LEMMA LastCloseAt ==
  ASSUME NEW c \in Timed, NEW t \in Int, NEW K \in Int, NEW m \in Week, Local(t) = 336 * K + m
  PROVE  MostRecentScheduledClose(c, t) = Utc(336 * K + CloseAt(c, m))
<1>1. PICK d \in 0..6, s \in 0..47 : m = 48 * d + s
  BY DayOf
<1>2. Local(t) = 336 * K + 48 * d + s /\ Midnight(Local(t)) = 336 * K + 48 * d
  BY <1>1, DayCoords
<1>3. PICK at, days, y, found : /\ at = (IF c = "us_equity" THEN 32 ELSE 34) /\ days = (IF c = "us_equity" THEN 0..4 ELSE {4})
                                /\ y = 336 * K + CloseAt(c, m) /\ found = CloseCandidates(c, t)
  BY ZenonT(30)
<1>4. at \in 0..47 /\ at \in Int
  BY <1>3
<1>5. \A x : x \in found <=>
         \E back \in 0..7 : x = 336 * K + 48 * d - 48 * back + at /\ Weekday(x) \in days /\ x <= 336 * K + 48 * d + s
  BY <1>2, <1>3 DEF CloseCandidates, EquityClose, FxClose, Day
<1>6. y \in found
  <2>1. PICK back \in 0..7 : /\ y = 336 * K + 48 * d - 48 * back + at /\ y <= 336 * K + 48 * d + s
                             /\ (IF back <= d THEN d - back ELSE d - back + 7) \in days
    <3>1. CASE c = "us_equity"
      <4>1. PICK back \in 0..7 : back = (IF d <= 4 /\ s >= 32 THEN 0 ELSE IF d = 0 THEN 3 ELSE IF d = 6 THEN 2 ELSE 1)
        OBVIOUS
      <4> QED BY <1>1, <1>3, <3>1, <4>1 DEF CloseAt
    <3>2. CASE c = "fx_24x5"
      <4>1. PICK back \in 0..7 : back = (IF d = 4 /\ s >= 34 THEN 0 ELSE IF d = 4 THEN 7 ELSE IF d > 4 THEN d - 4 ELSE d + 3)
        OBVIOUS
      <4> QED BY <1>1, <1>3, <3>2, <4>1 DEF CloseAt
    <3> QED BY <3>1, <3>2 DEF Timed
  <2>2. Weekday(y) \in days
    BY <1>4, <2>1, DayBack, SMTT(30)
  <2> QED BY <1>5, <2>1, <2>2
<1>7. ASSUME NEW x \in found PROVE x <= y /\ x \in Int
  <2>1. PICK back \in 0..7 : x = 336 * K + 48 * d - 48 * back + at /\ Weekday(x) \in days /\ x <= 336 * K + 48 * d + s
    BY <1>5
  <2>2. (IF back <= d THEN d - back ELSE d - back + 7) \in days
    BY <1>4, <2>1, DayBack, SMTT(30)
  <2>3. CASE c = "us_equity"
    BY <1>1, <1>3, <2>1, <2>2, <2>3 DEF CloseAt
  <2>4. CASE c = "fx_24x5"
    BY <1>1, <1>3, <2>1, <2>2, <2>4 DEF CloseAt
  <2> QED BY <2>3, <2>4 DEF Timed
<1>8. (CHOOSE x \in found : \A z \in found : z <= x) = y
  <2>1. \E x \in found : \A z \in found : z <= x
    BY <1>6, <1>7
  <2>2. PICK x : x = CHOOSE v \in found : \A z \in found : z <= v
    OBVIOUS
  <2>3. x \in found /\ \A z \in found : z <= x
    BY <2>1, <2>2
  <2>4. x <= y /\ y <= x /\ x \in Int /\ y \in Int
    BY <1>6, <1>7, <2>3
  <2>5. x = y
    BY <2>4
  <2> QED BY <2>2, <2>5, ZenonT(30)
<1>9. c # "always_open" /\ found # {}
  BY <1>6 DEF Timed
<1> QED BY <1>3, <1>8, <1>9 DEF MostRecentScheduledClose

LEMMA NextOpeningAt ==
  ASSUME NEW t \in Int, NEW K \in Int, NEW m \in Week, Local(t) = 336 * K + m
  PROVE  UntilNextUsEquityOpen(t) = Utc(336 * K + NextOpenAt(m)) - t
<1>1. PICK d \in 0..6, s \in 0..47 : m = 48 * d + s
  BY DayOf
<1>2. Local(t) = 336 * K + 48 * d + s /\ Midnight(Local(t)) = 336 * K + 48 * d
  BY <1>1, DayCoords
<1>3. PICK y, found : y = 336 * K + NextOpenAt(m) /\ found = NextOpenCandidates(t)
  OBVIOUS
<1>4. \A x : x \in found <=>
         \E ahead \in 0..7 : x = 336 * K + 48 * d + 48 * ahead + 19 /\ Weekday(x) < 5 /\ x > 336 * K + 48 * d + s
  BY <1>2, <1>3 DEF NextOpenCandidates, EquityOpen, Day
<1>5. ASSUME NEW ahead \in 0..7, NEW x, x = 336 * K + 48 * d + 48 * ahead + 19
      PROVE  Weekday(x) = IF d + ahead <= 6 THEN d + ahead ELSE d + ahead - 7
  <2>1. CASE d + ahead <= 6
    <3>1. d + ahead \in 0..6 /\ x = 336 * K + 48 * (d + ahead) + 19 /\ 19 \in 0..47
      BY <1>5, <2>1
    <3> QED BY <2>1, <3>1, DayCoords
  <2>2. CASE ~(d + ahead <= 6)
    <3>1. PICK K1, d1 : K1 = K + 1 /\ d1 = d + ahead - 7
      OBVIOUS
    <3>2. K1 \in Int /\ d1 \in 0..6 /\ x = 336 * K1 + 48 * d1 + 19 /\ 19 \in 0..47
      BY <1>5, <2>2, <3>1
    <3>3. Weekday(x) = d1
      BY <3>2, DayCoords
    <3> QED BY <2>2, <3>1, <3>3
  <2> QED BY <2>1, <2>2
<1>6. y \in found
  <2>1. PICK ahead \in 0..7 : ahead = (IF d <= 4 /\ s < 19 THEN 0 ELSE IF d <= 3 THEN 1 ELSE 7 - d)
    OBVIOUS
  <2>2. /\ y = 336 * K + 48 * d + 48 * ahead + 19 /\ y > 336 * K + 48 * d + s
        /\ (IF d + ahead <= 6 THEN d + ahead ELSE d + ahead - 7) < 5
    BY <1>1, <1>3, <2>1 DEF NextOpenAt
  <2> QED BY <1>4, <1>5, <2>2
<1>7. ASSUME NEW x \in found PROVE y <= x /\ x \in Int
  <2>1. PICK ahead \in 0..7 : x = 336 * K + 48 * d + 48 * ahead + 19 /\ Weekday(x) < 5 /\ x > 336 * K + 48 * d + s
    BY <1>4
  <2>2. (IF d + ahead <= 6 THEN d + ahead ELSE d + ahead - 7) < 5
    BY <1>5, <2>1
  <2> QED BY <1>1, <1>3, <2>1, <2>2 DEF NextOpenAt
<1>8. (CHOOSE x \in found : \A z \in found : x <= z) = y
  <2>1. \E x \in found : \A z \in found : x <= z
    BY <1>6, <1>7
  <2>2. PICK x : x = CHOOSE v \in found : \A z \in found : v <= z
    OBVIOUS
  <2>3. x \in found /\ \A z \in found : x <= z
    BY <2>1, <2>2
  <2>4. x <= y /\ y <= x /\ x \in Int /\ y \in Int
    BY <1>6, <1>7, <2>3
  <2>5. x = y
    BY <2>4
  <2> QED BY <2>2, <2>5, ZenonT(30)
<1> QED BY <1>3, <1>8, ZenonT(30) DEF UntilNextUsEquityOpen

(***************************************************************************)
(* What the closes and the openings of a week are.                         *)
(***************************************************************************)
LEMMA CloseRange ==
  ASSUME NEW c \in Timed, NEW m \in Week
  PROVE  CloseAt(c, m) \in -112..226 /\ CloseAt(c, m) <= m /\ CloseAt(c, m) \notin -109..31
BY DEF CloseAt, Week, Timed

\* Just before the last close the market was open.
LEMMA OpenBeforeClose ==
  ASSUME NEW c \in Timed, NEW K \in Int, NEW m \in Week, NEW L \in Int, NEW n \in Week,
         336 * K + CloseAt(c, m) - 1 = 336 * L + n
  PROVE  OpenAt(c, n)
BY DEF CloseAt, OpenAt, Week, Timed

\* From the last close up to a closed instant the market is closed.
LEMMA ClosedSinceClose ==
  ASSUME NEW c \in Timed, NEW K \in Int, NEW m \in Week, ~ OpenAt(c, m), NEW L \in Int, NEW n \in Week,
         336 * K + CloseAt(c, m) <= 336 * L + n, 336 * L + n <= 336 * K + m
  PROVE  ~ OpenAt(c, n)
BY DEF CloseAt, OpenAt, Week, Timed

LEMMA ClosesInOrder ==
  ASSUME NEW c \in Timed, NEW K \in Int, NEW m \in Week, NEW L \in Int, NEW n \in Week, 336 * K + m <= 336 * L + n
  PROVE  336 * K + CloseAt(c, m) <= 336 * L + CloseAt(c, n)
BY DEF CloseAt, Week, Timed

\* The first closed half hour is the close.
LEMMA CloseIsFirst ==
  ASSUME NEW c \in Timed, NEW K \in Int, NEW m \in Week, NEW L \in Int, NEW n \in Week,
         336 * K + m + 1 = 336 * L + n, OpenAt(c, m), ~ OpenAt(c, n)
  PROVE  336 * L + CloseAt(c, n) = 336 * L + n
BY SMTT(30) DEF CloseAt, OpenAt, Week, Timed

LEMMA OpeningRange ==
  ASSUME NEW m \in Week
  PROVE  NextOpenAt(m) \in 19..355 /\ NextOpenAt(m) > m /\ NextOpenAt(m) \notin 212..354
BY DEF NextOpenAt, Week

LEMMA OpensAtOpening ==
  ASSUME NEW K \in Int, NEW m \in Week, NEW L \in Int, NEW n \in Week, 336 * K + NextOpenAt(m) = 336 * L + n
  PROVE  OpenAt("us_equity", n)
BY DEF NextOpenAt, OpenAt, Week

LEMMA ClosedBeforeOpening ==
  ASSUME NEW K \in Int, NEW m \in Week, NEW L \in Int, NEW n \in Week, 336 * K + NextOpenAt(m) - 1 = 336 * L + n
  PROVE  ~ OpenAt("us_equity", n)
BY DEF NextOpenAt, OpenAt, Week

\* No half hour between now and the next opening is an opening.
LEMMA NoEarlierOpening ==
  ASSUME NEW K \in Int, NEW m \in Week, NEW L \in Int, NEW n \in Week, NEW J \in Int, NEW j \in Week,
         336 * J + j + 1 = 336 * L + n, 336 * K + m < 336 * L + n, 336 * L + n < 336 * K + NextOpenAt(m),
         OpenAt("us_equity", n)
  PROVE  OpenAt("us_equity", j)
<1>1. n >= 19
  BY DEF OpenAt, Week
<1>2. J = L /\ j = n - 1
  BY <1>1 DEF Week
<1>3. CASE L = K
  <2>1. m < n /\ n < NextOpenAt(m)
    BY <1>3 DEF NextOpenAt, Week
  <2> QED BY <1>2, <2>1 DEF NextOpenAt, OpenAt, Week
<1>4. CASE L # K
  <2>1. PICK y \in Int : y = NextOpenAt(m) /\ y <= 355
    BY OpeningRange
  <2>2. L = K + 1
    BY <1>4, <2>1 DEF Week
  <2>3. n < 19
    BY <2>1, <2>2 DEF Week
  <2> QED BY <1>1, <2>3 DEF Week
<1> QED BY <1>3, <1>4

(***************************************************************************)
(* The change of the clocks, on the Sunday of week S.                      *)
(***************************************************************************)
LEMMA SwitchWeek ==
  \E S \in Int : Switch + Before = 336 * S + 292
<1>1. Switch + Before \in Int
  BY ClockAssumption
<1>2. PICK K \in Int, d \in 0..6, s \in 0..47 : Switch + Before = 336 * K + 48 * d + s
  BY <1>1, WeekOf, ZenonT(60)
<1>3. d = 6 /\ s = 4
  BY <1>2, DayCoords, ClockAssumption
<1> QED BY <1>2, <1>3

\* Where the change leaves the wall clock.
LEMMA LocalOf ==
  ASSUME NEW S \in Int, Switch + Before = 336 * S + 292, NEW t \in Int
  PROVE  /\ Local(t) \in Int
         /\ t < Switch => Local(t) = t + Before /\ Local(t) < 336 * S + 292
         /\ t >= Switch => Local(t) = t + After /\ Local(t) >= 336 * S + 290
         /\ t = Switch => Local(t) \in {336 * S + 290, 336 * S + 294}
BY ClockAssumption DEF Local

\* The wall clock repeats or skips no close and no opening.
LEMMA UtcOf ==
  ASSUME NEW S \in Int, Switch + Before = 336 * S + 292, NEW x \in Int,
         x <= 336 * S + 226 \/ x >= 336 * S + 355
  PROVE  /\ Utc(x) \in Int /\ Local(Utc(x)) = x /\ Local(Utc(x) - 1) = x - 1
         /\ x <= 336 * S + 226 => Utc(x) < Switch /\ Utc(x) = x - Before
         /\ x >= 336 * S + 355 => Utc(x) > Switch /\ Utc(x) = x - After
BY ClockAssumption DEF Local, Utc

LEMMA CloseAside ==
  ASSUME NEW S \in Int, NEW c \in Timed, NEW K \in Int, NEW m \in Week, NEW x, x = 336 * K + CloseAt(c, m)
  PROVE  x \in Int /\ (x <= 336 * S + 226 \/ x >= 336 * S + 355)
<1>1. PICK y \in Int : y = CloseAt(c, m) /\ y >= -112 /\ y <= 226 /\ (y <= -110 \/ y >= 32)
  BY CloseRange
<1> QED BY <1>1

LEMMA OpeningAside ==
  ASSUME NEW S \in Int, NEW K \in Int, NEW m \in Week, NEW x, x = 336 * K + NextOpenAt(m)
  PROVE  x \in Int /\ (x <= 336 * S + 226 \/ x >= 336 * S + 355)
<1>1. PICK y \in Int : y = NextOpenAt(m) /\ y >= 19 /\ (y <= 211 \/ y = 355)
  BY OpeningRange
<1> QED BY <1>1

LEMMA WeekendClosed ==
  ASSUME NEW c \in Timed, NEW m \in 290..295
  PROVE  m \in Week /\ ~ OpenAt(c, m) /\ CloseAt(c, m) = CloseAt(c, 295) /\ CloseAt(c, 295) \in {224, 226}
BY DEF CloseAt, OpenAt, Week, Timed

\* The last close of an instant is not after it.
LEMMA ClosePast ==
  ASSUME NEW c \in Timed, NEW t \in Int
  PROVE  /\ MostRecentScheduledClose(c, t) \in Int /\ MostRecentScheduledClose(c, t) <= t
         /\ MostRecentScheduledClose(c, t) >= t - 450
<1>1. PICK S \in Int : Switch + Before = 336 * S + 292
  BY SwitchWeek
<1>2. PICK K \in Int, m \in Week : Local(t) = 336 * K + m
  BY LocalWeek
<1>3. PICK x, w, u : x = 336 * K + CloseAt(c, m) /\ w = Local(t) /\ u = Utc(x)
  OBVIOUS
<1>4. u = MostRecentScheduledClose(c, t)
  BY <1>2, <1>3, LastCloseAt
<1>5. x \in Int /\ w \in Int /\ x <= w /\ w - x <= 447
  <2>1. PICK y \in Int : y = CloseAt(c, m) /\ y >= -112 /\ y <= m
    BY CloseRange
  <2> QED BY <1>2, <1>3, <2>1 DEF Week
<1>6. x <= 336 * S + 226 \/ x >= 336 * S + 355
  BY <1>3, CloseAside
<1>7. /\ u \in Int
      /\ x <= 336 * S + 226 => u < Switch /\ u = x - Before
      /\ x >= 336 * S + 355 => u > Switch /\ u = x - After
  BY <1>1, <1>3, <1>5, <1>6, UtcOf
<1>8. /\ t < Switch => w = t + Before /\ w < 336 * S + 292
      /\ t >= Switch => w = t + After /\ w >= 336 * S + 290
  BY <1>1, <1>3, LocalOf
<1>9. u <= t /\ u >= t - 450
  BY <1>1, <1>5, <1>6, <1>7, <1>8, ClockAssumption
<1> QED BY <1>4, <1>7, <1>9

\* While the schedule says closed, the last close begins the closed interval.
LEMMA CloseBegins ==
  ASSUME NEW c \in Timed, NEW t \in Int, ScheduledMarketStatus(c, t) = "closed"
  PROVE  LET close == MostRecentScheduledClose(c, t)
         IN /\ ScheduledMarketStatus(c, close - 1) = "open"
            /\ \A v \in close..t : ScheduledMarketStatus(c, v) = "closed"
<1>1. PICK S \in Int : Switch + Before = 336 * S + 292
  BY SwitchWeek
<1>2. PICK K \in Int, m \in Week : Local(t) = 336 * K + m
  BY LocalWeek
<1>3. PICK x, w, u : x = 336 * K + CloseAt(c, m) /\ w = Local(t) /\ u = Utc(x)
  OBVIOUS
<1>4. u = MostRecentScheduledClose(c, t) /\ u \in Int /\ u <= t
  <2>1. u = MostRecentScheduledClose(c, t)
    BY <1>2, <1>3, LastCloseAt
  <2> QED BY <2>1, ClosePast
<1>5. ~ OpenAt(c, m)
  BY <1>2, StatusAt
<1>6. x \in Int /\ (x <= 336 * S + 226 \/ x >= 336 * S + 355)
  BY <1>3, CloseAside
<1>7. /\ Local(u - 1) = x - 1
      /\ x <= 336 * S + 226 => u < Switch /\ u = x - Before
      /\ x >= 336 * S + 355 => u > Switch /\ u = x - After
  BY <1>1, <1>3, <1>6, UtcOf
<1>8. ScheduledMarketStatus(c, u - 1) = "open"
  <2>1. u - 1 \in Int
    BY <1>4
  <2>2. PICK L \in Int, n \in Week : Local(u - 1) = 336 * L + n
    BY <2>1, LocalWeek
  <2>3. x - 1 = 336 * L + n
    BY <1>7, <2>2
  <2>4. 336 * K + CloseAt(c, m) - 1 = 336 * L + n
    <3>1. PICK y \in Int : y = CloseAt(c, m)
      BY CloseRange
    <3>2. x = 336 * K + y
      BY <1>3, <3>1
    <3>3. n \in Int
      BY DEF Week
    <3>4. 336 * K + y - 1 = 336 * L + n
      BY <1>6, <2>3, <3>2, <3>3
    <3> QED BY <3>1, <3>4
  <2>5. OpenAt(c, n)
    BY <2>4, OpenBeforeClose
  <2> QED BY <2>1, <2>2, <2>5, StatusAt
<1>9. ASSUME NEW v \in u..t PROVE ScheduledMarketStatus(c, v) = "closed"
  <2>1. v \in Int /\ u <= v /\ v <= t
    BY <1>4
  <2>2. PICK L \in Int, n \in Week : Local(v) = 336 * L + n
    BY <2>1, LocalWeek
  <2>3. PICK z : z = Local(v)
    OBVIOUS
  <2>4. /\ t < Switch => w = t + Before /\ w < 336 * S + 292
        /\ t >= Switch => w = t + After /\ w >= 336 * S + 290
        /\ w \in Int
    BY <1>1, <1>3, LocalOf
  <2>5. /\ v < Switch => z = v + Before /\ z < 336 * S + 292
        /\ v >= Switch => z = v + After /\ z >= 336 * S + 290
        /\ z \in Int
    BY <1>1, <2>1, <2>3, LocalOf
  <2>6. x <= z
    BY <1>6, <1>7, <1>4, <2>1, <2>5, ClockAssumption
  <2>7. CASE z <= w
    <3>1. 336 * K + CloseAt(c, m) <= 336 * L + n /\ 336 * L + n <= 336 * K + m
      BY <1>2, <1>3, <2>2, <2>3, <2>6, <2>7
    <3>2. ~ OpenAt(c, n)
      BY <1>5, <3>1, ClosedSinceClose
    <3> QED BY <2>1, <2>2, <3>2, StatusAt
  <2>8. CASE w < z
    <3>1. z \in {336 * S + 290, 336 * S + 291}
      BY <2>1, <2>4, <2>5, <2>8, ClockAssumption
    <3>2. L = S /\ n \in 290..295
      BY <2>2, <2>3, <3>1 DEF Week
    <3>3. ~ OpenAt(c, n)
      BY <3>2, WeekendClosed
    <3> QED BY <2>1, <2>2, <3>3, StatusAt
  <2> QED BY <2>4, <2>5, <2>7, <2>8
<1> QED BY <1>4, <1>8, <1>9

\* The promised opening is the next one.
LEMMA OpensThen ==
  ASSUME NEW t \in Int
  PROVE  LET next == t + UntilNextUsEquityOpen(t)
             opens(v) == /\ ScheduledMarketStatus("us_equity", v) = "open"
                         /\ ScheduledMarketStatus("us_equity", v - 1) = "closed"
         IN /\ next > t /\ opens(next)
            /\ \A v \in (t + 1)..(next - 1) : ~ opens(v)
<1> DEFINE Is(v, s) == ScheduledMarketStatus("us_equity", v) = s
<1>0. "us_equity" \in Timed
  BY DEF Timed
<1>1. PICK S \in Int : Switch + Before = 336 * S + 292
  BY SwitchWeek
<1>2. PICK K \in Int, m \in Week : Local(t) = 336 * K + m
  BY LocalWeek
<1>3. PICK y, w, u : y = 336 * K + NextOpenAt(m) /\ w = Local(t) /\ u = Utc(y)
  OBVIOUS
<1>4. y \in Int /\ (y <= 336 * S + 226 \/ y >= 336 * S + 355)
  BY <1>3, OpeningAside
<1>5. /\ u \in Int /\ Local(u) = y /\ Local(u - 1) = y - 1
      /\ y <= 336 * S + 226 => u < Switch /\ u = y - Before
      /\ y >= 336 * S + 355 => u > Switch /\ u = y - After
  BY <1>1, <1>3, <1>4, UtcOf
<1>6. t + UntilNextUsEquityOpen(t) = u
  <2>1. UntilNextUsEquityOpen(t) = u - t
    BY <1>2, <1>3, NextOpeningAt
  <2> QED BY <1>5, <2>1
<1>7. w \in Int /\ w < y
  <2>1. PICK o \in Int : o = NextOpenAt(m) /\ o > m
    BY OpeningRange
  <2> QED BY <1>2, <1>3, <2>1 DEF Week
<1>8. /\ t < Switch => w = t + Before /\ w < 336 * S + 292
      /\ t >= Switch => w = t + After /\ w >= 336 * S + 290
  BY <1>1, <1>3, LocalOf
<1>9. u > t
  BY <1>4, <1>5, <1>7, <1>8, ClockAssumption
<1>10. Is(u, "open")
  <2>1. PICK L \in Int, n \in Week : Local(u) = 336 * L + n
    BY <1>5, LocalWeek
  <2>2. OpenAt("us_equity", n)
    BY <1>3, <1>5, <2>1, OpensAtOpening
  <2> QED BY <1>0, <1>5, <2>1, <2>2, StatusAt
<1>11. Is(u - 1, "closed")
  <2>0. u - 1 \in Int
    BY <1>5
  <2>1. PICK L \in Int, n \in Week : Local(u - 1) = 336 * L + n
    BY <2>0, LocalWeek
  <2>2. y - 1 = 336 * L + n
    BY <1>5, <2>1
  <2>3. 336 * K + NextOpenAt(m) - 1 = 336 * L + n
    <3>1. PICK z \in Int : z = NextOpenAt(m)
      BY OpeningRange
    <3>2. y = 336 * K + z
      BY <1>3, <3>1
    <3>3. n \in Int
      BY DEF Week
    <3>4. 336 * K + z - 1 = 336 * L + n
      BY <1>4, <2>2, <3>2, <3>3
    <3> QED BY <3>1, <3>4
  <2>4. ~ OpenAt("us_equity", n)
    BY <2>3, ClosedBeforeOpening
  <2> QED BY <1>0, <2>0, <2>1, <2>4, StatusAt
<1>12. ASSUME NEW v \in (t + 1)..(u - 1), Is(v, "open"), Is(v - 1, "closed") PROVE FALSE
  <2>1. v \in Int /\ v - 1 \in Int /\ t < v /\ v < u
    BY <1>5
  <2>2. PICK L \in Int, n \in Week : Local(v) = 336 * L + n
    BY <2>1, LocalWeek
  <2>3. PICK J \in Int, j \in Week : Local(v - 1) = 336 * J + j
    BY <2>1, LocalWeek
  <2>4. OpenAt("us_equity", n)
    BY <1>0, <1>12, <2>1, <2>2, StatusAt
  <2>5. ~ OpenAt("us_equity", j)
    BY <1>0, <1>12, <2>1, <2>3, StatusAt
  <2>6. PICK z : z = Local(v)
    OBVIOUS
  <2>7. /\ v < Switch => z = v + Before /\ z < 336 * S + 292
        /\ v >= Switch => z = v + After /\ z >= 336 * S + 290
        /\ z \in Int
    BY <1>1, <2>1, <2>6, LocalOf
  <2>8. ~(z >= 336 * S + 290 /\ z <= 336 * S + 295)
    <3>1. SUFFICES ASSUME z >= 336 * S + 290, z <= 336 * S + 295 PROVE FALSE
      OBVIOUS
    <3>2. L = S /\ n \in 290..295
      BY <2>2, <2>6, <3>1 DEF Week
    <3> QED BY <1>0, <2>4, <3>2, WeekendClosed
  <2>9. v # Switch
    BY <2>7, <2>8, <1>1, <2>1, ClockAssumption
  <2>10. Local(v - 1) = z - 1
    BY <2>1, <2>6, <2>9, ClockAssumption DEF Local
  <2>11. w < z
    BY <1>7, <1>8, <2>1, <2>7, <2>8, ClockAssumption
  <2>12. z < y
    BY <1>4, <1>5, <2>1, <2>7, ClockAssumption
  <2>13. /\ 336 * J + j + 1 = 336 * L + n /\ 336 * K + m < 336 * L + n
         /\ 336 * L + n < 336 * K + NextOpenAt(m)
    BY <1>2, <1>3, <2>2, <2>3, <2>6, <2>7, <2>10, <2>11, <2>12 DEF Week
  <2> QED BY <2>4, <2>5, <2>13, NoEarlierOpening
<1> QED BY <1>6, <1>9, <1>10, <1>11, <1>12

(***************************************************************************)
(* What a quote is measured from never moves back.                         *)
(***************************************************************************)
LEMMA Measured ==
  ASSUME NEW c \in {"us_equity", "fx_24x5", "always_open"}, NEW t \in Nat
  PROVE  /\ MeasuredFrom(c, t) \in Int /\ MeasuredFrom(c, t) <= t
         /\ c \in Timed => MeasuredFrom(c, t) = MostRecentScheduledClose(c, t)
         /\ c = "always_open" => ScheduledMarketStatus(c, t) = "open"
<1>1. CASE c = "always_open"
  BY <1>1 DEF MeasuredFrom, MostRecentScheduledClose, ScheduledMarketStatus, Timed
<1>2. CASE c \in Timed
  <2>1. PICK close : close = MostRecentScheduledClose(c, t)
    OBVIOUS
  <2>2. close \in Int /\ close <= t /\ close >= t - 450
    BY <1>2, <2>1, ClosePast
  <2>3. MeasuredFrom(c, t) = close
    BY <2>1, <2>2 DEF MeasuredFrom, Never
  <2> QED BY <1>2, <2>1, <2>2, <2>3 DEF Timed
<1> QED BY <1>1, <1>2 DEF Timed

LEMMA ClosesAdvance ==
  ASSUME NEW c \in Timed, NEW t \in Int
  PROVE  MostRecentScheduledClose(c, t) <= MostRecentScheduledClose(c, t + 1)
<1>1. PICK S \in Int : Switch + Before = 336 * S + 292
  BY SwitchWeek
<1>2. PICK K \in Int, m \in Week : Local(t) = 336 * K + m
  BY LocalWeek
<1>3. PICK s \in Int : s = t + 1
  OBVIOUS
<1>4. PICK L \in Int, n \in Week : Local(s) = 336 * L + n
  BY LocalWeek
<1>5. PICK x, y, u, v : x = 336 * K + CloseAt(c, m) /\ y = 336 * L + CloseAt(c, n) /\ u = Utc(x) /\ v = Utc(y)
  OBVIOUS
<1>6. MostRecentScheduledClose(c, t) = u /\ MostRecentScheduledClose(c, s) = v
  BY <1>2, <1>4, <1>5, LastCloseAt
<1>7. x \in Int /\ (x <= 336 * S + 226 \/ x >= 336 * S + 355)
  BY <1>5, CloseAside
<1>8. y \in Int /\ (y <= 336 * S + 226 \/ y >= 336 * S + 355)
  BY <1>5, CloseAside
<1>9. x <= y
  <2>1. CASE s = Switch
    <3>1. Local(t) = 336 * S + 291 /\ Local(s) \in {336 * S + 290, 336 * S + 294}
      BY <1>1, <1>3, <2>1, ClockAssumption DEF Local
    <3>2. K = S /\ L = S /\ m \in 290..295 /\ n \in 290..295
      BY <1>2, <1>4, <3>1 DEF Week
    <3>3. CloseAt(c, m) = CloseAt(c, n)
      BY <3>2, WeekendClosed
    <3> QED BY <1>5, <1>7, <3>2, <3>3
  <2>2. CASE s # Switch
    <3>1. 336 * K + m <= 336 * L + n
      BY <1>2, <1>3, <1>4, <2>2, ClockAssumption DEF Local, Week
    <3> QED BY <1>5, <3>1, ClosesInOrder
  <2> QED BY <2>1, <2>2
<1>10. /\ u \in Int
       /\ x <= 336 * S + 226 => u < Switch /\ u = x - Before
       /\ x >= 336 * S + 355 => u > Switch /\ u = x - After
  BY <1>1, <1>5, <1>7, UtcOf
<1>11. /\ v \in Int
       /\ y <= 336 * S + 226 => v < Switch /\ v = y - Before
       /\ y >= 336 * S + 355 => v > Switch /\ v = y - After
  BY <1>1, <1>5, <1>8, UtcOf
<1>12. u <= v
  BY <1>7, <1>8, <1>9, <1>10, <1>11, ClockAssumption
<1> QED BY <1>3, <1>6, <1>12

\* The first closed instant is its own last close.
LEMMA ClosesNow ==
  ASSUME NEW c \in Timed, NEW t \in Int, ScheduledMarketStatus(c, t) = "open",
         ScheduledMarketStatus(c, t + 1) = "closed"
  PROVE  MostRecentScheduledClose(c, t + 1) = t + 1
<1>1. PICK close : close = MostRecentScheduledClose(c, t + 1)
  OBVIOUS
<1>2. PICK s \in Int : s = t + 1
  OBVIOUS
<1>3. close \in Int /\ close <= s
  BY <1>1, <1>2, ClosePast
<1>4. \A v \in close..s : ScheduledMarketStatus(c, v) = "closed"
  <2>1. ScheduledMarketStatus(c, s) = "closed" /\ close = MostRecentScheduledClose(c, s)
    BY <1>1, <1>2
  <2> QED BY <2>1, CloseBegins
<1>5. ~(t \in close..s)
  BY <1>4
<1> QED BY <1>1, <1>2, <1>3, <1>5

Threshold(c, t) == IF ScheduledMarketStatus(c, t) = "closed" THEN MeasuredFrom(c, t) ELSE t

LEMMA ThresholdAdvances ==
  ASSUME NEW c \in {"us_equity", "fx_24x5", "always_open"}, NEW t \in Nat
  PROVE  /\ Threshold(c, t) \in Int /\ Threshold(c, t + 1) \in Int
         /\ Threshold(c, t) <= Threshold(c, t + 1)
<1>1. PICK s \in Nat : s = t + 1
  OBVIOUS
<1>2. PICK from, to : from = MeasuredFrom(c, t) /\ to = MeasuredFrom(c, s)
  OBVIOUS
<1>3. from \in Int /\ from <= t /\ to \in Int /\ to <= s
  BY <1>2, Measured
<1>4. CASE ScheduledMarketStatus(c, s) # "closed"
  BY <1>1, <1>2, <1>3, <1>4 DEF Threshold
<1>5. CASE ScheduledMarketStatus(c, s) = "closed"
  <2>1. c \in Timed
    BY <1>5, Measured DEF Timed
  <2>2. from = MostRecentScheduledClose(c, t) /\ to = MostRecentScheduledClose(c, s)
    BY <1>2, <2>1, Measured
  <2>3. CASE ScheduledMarketStatus(c, t) = "closed"
    <3>1. from <= to
      BY <1>1, <2>1, <2>2, ClosesAdvance
    <3> QED BY <1>1, <1>2, <1>3, <1>5, <2>3, <3>1 DEF Threshold
  <2>4. CASE ScheduledMarketStatus(c, t) # "closed"
    <3>1. ScheduledMarketStatus(c, t) = "open"
      BY <2>4 DEF ScheduledMarketStatus
    <3>2. to = s
      BY <1>1, <1>5, <2>1, <2>2, <3>1, ClosesNow
    <3> QED BY <1>1, <1>2, <1>5, <2>4, <3>2 DEF Threshold
  <2> QED BY <2>3, <2>4
<1> QED BY <1>4, <1>5

(***************************************************************************)
(* The inductive invariant.                                                *)
(***************************************************************************)
HeldInv ==
  /\ clock \in Nat /\ calendar \in Calendars
  /\ held \in [asOf : Int, status : {"unknown", "open", "closed"}, statusAt : Int]
  /\ held.statusAt <= clock

SessionInv == HeldInv /\ StaleIsFinal

\* Without a current observation the schedule decides.
LEMMA StaleBySchedule ==
  ASSUME NEW q \in [asOf : Int, status : {"unknown", "open", "closed"}, statusAt : Int],
         NEW c, NEW t \in Int, q.status # "open"
  PROVE  Stale(q, c, t) <=> ~(q.status = "closed" /\ StatusCurrent(q, t)) /\ q.asOf < Threshold(c, t) - StaleAfter
BY DEF Stale, EffectiveMarketStatus, Threshold

LEMMA StaleStays ==
  ASSUME NEW q \in [asOf : Int, status : {"unknown", "open", "closed"}, statusAt : Int],
         NEW c \in {"us_equity", "fx_24x5", "always_open"}, NEW t \in Nat, q.status # "open", q.statusAt <= t,
         Stale(q, c, t)
  PROVE  Stale(q, c, t + 1)
<1>1. PICK s \in Nat : s = t + 1
  OBVIOUS
<1>2. PICK a, b : a = Threshold(c, t) /\ b = Threshold(c, s)
  OBVIOUS
<1>3. a \in Int /\ b \in Int /\ a <= b
  BY <1>1, <1>2, ThresholdAdvances
<1>4. ~(q.status = "closed" /\ StatusCurrent(q, t)) /\ q.asOf < a - StaleAfter
  BY <1>2, StaleBySchedule
<1>5. StatusCurrent(q, s) => StatusCurrent(q, t)
  BY <1>1, SessionAssumption DEF StatusCurrent
<1>6. q.asOf < b - StaleAfter
  BY <1>3, <1>4, SessionAssumption
<1>7. Stale(q, c, s)
  BY <1>2, <1>4, <1>5, <1>6, StaleBySchedule
<1> QED BY <1>1, <1>7

LEMMA SessionInitHolds == SessionInit => SessionInv
BY DEF SessionInit, SessionInv, HeldInv, StaleIsFinal, None, Never

LEMMA SessionStep == SessionInv /\ [SessionNext]_sessionVars => SessionInv'
<1> SUFFICES ASSUME SessionInv, [SessionNext]_sessionVars PROVE SessionInv'
  OBVIOUS
<1> USE DEF SessionInv
<1>1. CASE Arrive
  <2>1. PICK age \in Ages, s \in Statuses(clock) :
          /\ held' = [asOf |-> clock - age, status |-> s[1], statusAt |-> s[2]]
          /\ wasStale' = Stale([asOf |-> clock - age, status |-> s[1], statusAt |-> s[2]], calendar, clock)
    BY <1>1 DEF Arrive
  <2>2. UNCHANGED <<clock, calendar>>
    BY <1>1 DEF Arrive
  <2>3. s[1] \in {"unknown", "open", "closed"} /\ s[2] \in Int /\ s[2] <= clock
    BY DEF HeldInv, Statuses, Never
  <2>4. age \in Int
    BY SessionAssumption
  <2>5. HeldInv'
    BY <2>1, <2>2, <2>3, <2>4 DEF HeldInv
  <2>6. wasStale' = Stale(held', calendar', clock')
    BY <2>1, <2>2
  <2>7. StaleIsFinal'
    BY <2>6 DEF StaleIsFinal, Stale, EffectiveMarketStatus, StatusCurrent, MeasuredFrom
  <2> QED BY <2>5, <2>7
<1>2. CASE Pass
  <2>1. HeldInv'
    BY <1>2 DEF Pass, HeldInv
  <2>2. held' = held /\ calendar' = calendar /\ clock' = clock + 1 /\ clock \in Nat
    BY <1>2 DEF Pass, HeldInv
  <2>3. ASSUME wasStale', held.status # "open" PROVE Stale(held, calendar, clock + 1)
    <3>1. CASE Stale(held, calendar, clock + 1)
      BY <3>1
    <3>2. CASE wasStale
      <4>1. Stale(held, calendar, clock)
        BY <2>3, <3>2 DEF StaleIsFinal
      <4>2. calendar \in {"us_equity", "fx_24x5", "always_open"} /\ held.statusAt <= clock
        BY ClockAssumption DEF HeldInv
      <4> QED BY <2>2, <2>3, <4>1, <4>2, StaleStays DEF HeldInv
    <3> QED BY <1>2, <2>3, <3>1, <3>2 DEF Pass
  <2>4. StaleIsFinal'
    BY <2>2, <2>3 DEF StaleIsFinal
  <2> QED BY <2>1, <2>4
<1>3. CASE UNCHANGED sessionVars
  BY <1>3 DEF sessionVars, HeldInv, StaleIsFinal
<1> QED BY <1>1, <1>2, <1>3 DEF SessionNext

LEMMA SessionInvariant == SessionSpec => []SessionInv
BY SessionInitHolds, SessionStep, PTL DEF SessionSpec

LEMMA SessionFacts == SessionInv => SessionsSound
<1> SUFFICES ASSUME SessionInv PROVE SessionsSound
  OBVIOUS
<1>1. /\ clock \in Nat /\ calendar \in {"us_equity", "fx_24x5", "always_open"}
      /\ held \in [asOf : Int, status : {"unknown", "open", "closed"}, statusAt : Int]
  BY ClockAssumption DEF SessionInv, HeldInv
<1>2. CloseBeginsInterval
  <2>1. CASE calendar = "always_open"
    BY <2>1 DEF CloseBeginsInterval, ScheduledMarketStatus
  <2>2. CASE calendar \in Timed
    BY <1>1, <2>2, CloseBegins DEF CloseBeginsInterval
  <2> QED BY <1>1, <2>1, <2>2 DEF Timed
<1>3. OpensWhenPromised
  BY <1>1, OpensThen DEF OpensWhenPromised
<1>4. AcceptedStaleOnlyClosed
  <2>1. SUFFICES ASSUME FitForActivation(held, calendar, clock), Stale(held, calendar, clock),
                        ScheduledMarketStatus(calendar, clock) # "closed"
                 PROVE  FALSE
    BY DEF AcceptedStaleOnlyClosed
  <2>2. clock - held.asOf <= StaleAfter
    BY <2>1 DEF FitForActivation, Stale
  <2>3. PICK from : from = MeasuredFrom(calendar, clock)
    OBVIOUS
  <2>4. from \in Int /\ from <= clock
    BY <1>1, <2>3, Measured
  <2>5. held.asOf < from - StaleAfter \/ held.asOf < clock - StaleAfter
    BY <2>1, <2>3 DEF Stale
  <2>6. held.asOf \in Int /\ clock \in Int /\ StaleAfter \in Int
    BY <1>1, SessionAssumption
  <2> QED BY <2>2, <2>4, <2>5, <2>6
<1> QED BY <1>2, <1>3, <1>4 DEF SessionsSound, SessionInv

(***************************************************************************)
(* The calendars of market.py are exact across weekends and the change of  *)
(* the clocks, and what _quality and _validate_quote make of them neither  *)
(* rejuvenates a stale quote nor accepts an old one in an open market, for *)
(* every offset, allowance and arrival.                                    *)
(***************************************************************************)
THEOREM SessionsAreSound == SessionSpec => []SessionsSound
BY SessionInvariant, SessionFacts, PTL
=============================================================================
