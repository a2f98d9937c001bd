--------------------------- MODULE SyntheticPrices ---------------------------
(***************************************************************************)
(* Prices derived from other prices (providers/synthetic.py and            *)
(* providers/fx.py).  The first part is one live request for a recipe      *)
(* whose right input is itself a recipe: the legs are fetched              *)
(* concurrently, and time passes until the slower one has answered.  The   *)
(* second part is a history of two legs that the collector fetches page by *)
(* page.  Prices are left out: what matters is which observations meet.    *)
(***************************************************************************)
EXTENDS Integers, Sequences, FiniteSets, FiniteSetsExt, SequencesExt

CONSTANTS
  LastSecond,  \* bound: seconds of a live request
  Ahead,       \* how far an observation may be ahead of the clock (5 s)
  LiveSkew,    \* max_skew of the live recipes
  MaxAge,      \* input_max_age_seconds
  Step,        \* seconds between two bars
  LastBar,     \* end of the history that is fetched
  BarSkew,     \* max_skew of the history recipe
  Window,      \* page_bar_limit: bars of one request
  PageCap      \* bars the adapter of a leg returns at most

ASSUME SyntheticAssumption ==
  /\ {LastSecond, Ahead, LiveSkew, MaxAge, BarSkew} \subseteq Nat
  /\ {Step, LastBar, Window, PageCap} \subseteq Nat \ {0}

VARIABLES
  second,      \* the clock
  kind,        \* the outer recipe: "recipe" (synthetic.py) or "hub" (fx.py)
  shape,       \* the inner recipe: "cross" or "inverse"
  leg,         \* answers of the market sources: near, mid, far
  inner,       \* answer of the inner recipe
  outer,       \* answer of the request
  answeredAt,  \* history: when the request was answered
  bars,        \* times of the bars of the two legs
  cursor, output, fetch

liveVars == <<second, kind, shape, leg, inner, outer, answeredAt>>
barVars == <<bars, cursor, output, fetch>>
syntheticVars == <<liveVars, barVars>>

(***************************************************************************)
(* Live quotes                                                             *)
(***************************************************************************)
Legs == {"near", "mid", "far"}
LegStatuses == {"open", "closed", "unknown"}
Pending == [is |-> "pending"]
Error == [is |-> "error"]
Observation(at, status) == [is |-> "quote", at |-> at, status |-> status]

MarketStatus(l, r) ==
  IF l = r THEN l ELSE IF "unknown" \in {l, r} THEN "unknown" ELSE "closed"

\* Ages and future dates are judged at the instant the caller read the clock.
InTime(quote, clock) == quote.at <= clock + Ahead /\ clock - quote.at <= MaxAge

Synthesized(l, r, clock) ==
  IF Max({l.at - r.at, r.at - l.at}) <= LiveSkew /\ InTime(l, clock) /\ InTime(r, clock)
    THEN Observation(Min({l.at, r.at}), MarketStatus(l.status, r.status)) ELSE Error

SynthesizedInverse(source, clock) == IF InTime(source, clock) THEN source ELSE Error

\* asyncio.gather: the first error ends the request.
Gathered(l, r) == Error \in {l, r} \/ Pending \notin {l, r}
Combined(l, r, clock) == IF Error \in {l, r} THEN Error ELSE Synthesized(l, r, clock)

\* An adapter answers with an observation it dated itself, or fails.
LegAnswers(x) ==
  /\ leg[x] = Pending
  /\ \E at \in 0..(second + Ahead + 1), status \in LegStatuses :
        leg' = [leg EXCEPT ![x] = Observation(at, status)]
  /\ UNCHANGED <<second, kind, shape, inner, outer, answeredAt>>

LegFails(x) ==
  /\ leg[x] = Pending
  /\ leg' = [leg EXCEPT ![x] = Error]
  /\ UNCHANGED <<second, kind, shape, inner, outer, answeredAt>>

InnerAnswers ==
  /\ inner = Pending
  /\ \/ /\ shape = "cross" /\ Gathered(leg["mid"], leg["far"])
        /\ inner' = Combined(leg["mid"], leg["far"], second)
     \/ /\ shape = "inverse" /\ leg["far"] # Pending
        /\ inner' = IF leg["far"] = Error THEN Error ELSE SynthesizedInverse(leg["far"], second)
  /\ UNCHANGED <<second, kind, shape, leg, outer, answeredAt>>

\* The recipe reads the clock when both legs are there, the USD hub read it
\* before it asked for them.
ClockOfBefore == 0 \* mutant: every cross judges its legs by the time of asking

ClockOf == IF kind = "recipe" THEN second ELSE 0

OuterAnswers ==
  /\ outer = Pending
  /\ Gathered(leg["near"], inner)
  /\ outer' = Combined(leg["near"], inner, ClockOf) /\ answeredAt' = second
  /\ UNCHANGED <<second, kind, shape, leg, inner>>

Second ==
  /\ second < LastSecond /\ outer = Pending
  /\ second' = second + 1
  /\ UNCHANGED <<kind, shape, leg, inner, outer, answeredAt>>

(***************************************************************************)
(* Histories                                                               *)
(***************************************************************************)
Grid == {t \in 0..LastBar : t % Step = 0}

\* What the adapter of a leg returns for a range: its oldest bars first, and
\* no more than asked for or than it ever returns.
Answer(leg1, from, to, limit) ==
  LET all == {t \in leg1 : from <= t /\ t <= to}
  IN {t \in all : Cardinality({u \in all : u < t}) < Min({limit, PageCap})}

\* synthesize_history: one pass over the left bars with a pointer into the
\* right ones; the last right bar at or before the left one is used.
Merged(left, right) ==
  LET ls == SetToSortSeq(left, <)
      rs == SetToSortSeq(right, <)
      passed(k, t) == LET later == {j \in (k + 1)..Len(rs) : rs[j] > t}
                      IN IF later = {} THEN Len(rs) ELSE Min(later) - 1
      index[i \in 0..Len(ls)] == IF i = 0 THEN 0 ELSE passed(index[i - 1], ls[i])
  IN {[at |-> ls[i], with |-> rs[index[i]]] :
        i \in {i \in 1..Len(ls) : index[i] > 0 /\ ls[i] - rs[index[i]] <= BarSkew}}

\* The right leg is asked from one skew earlier, for one bar more.
RightAnswerSame(from, to) == Answer(bars.right, from, to, Window + 1) \* mutant: the same range for both

RightAnswer(from, to) == Answer(bars.right, from - BarSkew, to, Window + 1)

PageEnd == Min({LastBar, cursor + Step * (Window - 1)})
Page == Merged(Answer(bars.left, cursor, PageEnd, Window), RightAnswer(cursor, PageEnd))
NoOverlap == Page = {} /\ Answer(bars.left, cursor, PageEnd, Window) # {} /\ RightAnswer(cursor, PageEnd) # {}

\* _fetch_history_pages goes on after the last bar it got, or after an empty page.
NextCursor ==
  IF Page = {} THEN PageEnd + Step
  ELSE Min({Max({p.at : p \in Page}), PageEnd}) + Step

FetchPage ==
  /\ fetch = "running"
  /\ IF NoOverlap
       THEN fetch' = "failed" /\ UNCHANGED <<cursor, output>>
       ELSE /\ output' = output \cup Page
            /\ cursor' = NextCursor
            /\ fetch' = IF NextCursor > LastBar THEN "done" ELSE "running"
  /\ UNCHANGED bars

-----------------------------------------------------------------------------
SyntheticInit ==
  /\ second = 0 /\ kind \in {"recipe", "hub"} /\ shape \in {"cross", "inverse"}
  /\ leg = [x \in Legs |-> Pending] /\ inner = Pending /\ outer = Pending /\ answeredAt = 0
  /\ bars \in [left : SUBSET Grid, right : SUBSET Grid]
  /\ cursor = 0 /\ output = {} /\ fetch = "running"

LiveNext ==
  \/ \E x \in Legs : LegAnswers(x) \/ LegFails(x)
  \/ InnerAnswers \/ OuterAnswers \/ Second

SyntheticNext ==
  \/ LiveNext /\ UNCHANGED barVars
  \/ FetchPage /\ UNCHANGED liveVars

SyntheticSpec == SyntheticInit /\ [][SyntheticNext]_syntheticVars

(***************************************************************************)
(* Properties                                                              *)
(***************************************************************************)
Used == IF shape = "cross" THEN Legs ELSE Legs \ {"mid"}
Served == outer.is = "quote"

\* synthetic.py:47-57: a derived quote is as old as the oldest observation
\* under it, through every level of recipes, and its market is open exactly
\* if the markets of all of them are.
DerivedLikeItsLegs ==
  Served => /\ outer.at = Min({leg[x].at : x \in Used})
            /\ (outer.status = "open") = (\A x \in Used : leg[x].status = "open")
            /\ outer.status = "closed" => \E x \in Used : leg[x].status = "closed"

\* synthetic.py:42-46: when a recipe answers, no observation under it is older
\* than the input age the operator set, however long the other leg took.
NoStaleLegServed ==
  Served /\ kind = "recipe" => \A x \in Used : answeredAt - leg[x].at <= MaxAge

\* What the history of the recipe is: each left bar with the last right bar at
\* or before it, unless that one is too old.
Reference ==
  {[at |-> t, with |-> Max({u \in bars.right : u <= t})] :
     t \in {t \in bars.left : \E u \in bars.right : u <= t /\ t - u <= BarSkew}}

\* synthetic.py:324: "Combine ordered history using the last right value
\* at/before each left value", also where a page begins or ends.
PagesPairLatest == output \subseteq Reference

\* A history that was fetched without an error has no hole at the joints.
PagesComplete == fetch = "done" => output = Reference

\* collectors.py:1721-1724: forward windows remain "compatible with smaller
\* provider page limits (for example Binance's 1000 klines)": where both legs
\* have data for each other the fetch does not fail, and pairs each bar with the
\* latest one of the other leg.
PageLimitCompatible ==
  Reference # {} /\ bars.left \subseteq bars.right => fetch # "failed" /\ output \subseteq Reference

\* A derived quote (synthetic.py) claims neither a later time nor a market more
\* open than its legs, and rests on no leg that is too old when it is served.
DerivedSound == DerivedLikeItsLegs /\ NoStaleLegServed

\* A history fetched page by page (_fetch_history_pages, collectors.py) is the
\* one a single request would give: no hole at the joints, no wrong pair.
PagedLikeWhole == PagesPairLatest /\ PagesComplete
=============================================================================
