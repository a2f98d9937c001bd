---------------------------- MODULE HistoryCache ----------------------------
(***************************************************************************)
(* The in-memory price history of cache.py: per symbol a 1-minute, a       *)
(* 5-minute and a daily ring, virtual histories of synthetic symbols, and  *)
(* the cached predecessors that the rolling changes are computed from.     *)
(*                                                                         *)
(* A ring is a partial function from bucket times to the point kept there; *)
(* a point is named by the time it was observed.  Bucket times are unique  *)
(* and the code keeps them sorted, so the deque is the function.  Daily    *)
(* points fall on whole minutes, as every provider's do.  All methods run  *)
(* under one lock, so each is one step.                                    *)
(***************************************************************************)
EXTENDS Integers, Sequences, FiniteSets, Functions, FiniteSetsExt

CONSTANTS
  HSymbols,
  Minute, Five,          \* ticks in a minute and in a 5-minute bucket
  OneHour, OtherWindows, \* WINDOWS
  OneRetention, FiveRetention, DailyRetention,
  MaxSkew,               \* max_skew of a recipe
  LateBy,                \* how far a live point may trail the newest one
  RecipeChoices,         \* the recipes collectors may register: <<symbol, recipe>>
  Backfills,             \* the histories that may arrive: <<symbol, interval, times>>
  Catalogs,              \* the sets of symbols a catalog may keep
  HTime, HOps            \* bounds: last tick, number of operations

ASSUME HistoryAssumption ==
  /\ Minute \in Nat \ {0} /\ Five % Minute = 0 /\ Five > 0
  /\ LateBy + Five <= OneHour
  /\ \A w \in OtherWindows : w >= OneHour

VARIABLES
  one, five, daily,   \* the rings, by symbol
  refs,               \* _reference_cache
  recipes,            \* _synthetic_recipes
  dependents,         \* _synthetic_dependents
  hNow, hOps

histVars == <<one, five, daily, refs, recipes, dependents, hNow, hOps>>
rings == <<one, five, daily>>

Windows == {OneHour} \cup OtherWindows
Ticks == 0..HTime
Intervals == {"1m", "5m", "1d"}
NoRing == << >>
NoEntry == [asOf |-> -1, at |-> << >>]
NoPoint == [interval |-> "none", time |-> -1, of |-> -1, with |-> -1]
NoRecipe == [op |-> "none", inputs |-> << >>]

Bucket(t, size) == t - (t % size)

HistoryInit ==
  /\ one = [s \in HSymbols |-> NoRing] /\ five = one /\ daily = one
  /\ refs = [s \in HSymbols |-> NoEntry]
  /\ recipes = [s \in HSymbols |-> NoRecipe]
  /\ dependents = [s \in HSymbols |-> {}]
  /\ hNow = 0 /\ hOps = 0

(***************************************************************************)
(* Rings                                                                   *)
(***************************************************************************)
Upsert(ring, bucket, point) == [t \in DOMAIN ring \cup {bucket} |-> IF t = bucket THEN point ELSE ring[t]]

From(ring, cutoff) == Restrict(ring, {t \in DOMAIN ring : t >= cutoff})

\* Existing points win a bucket collision with a backfill.
Merged(ring, incoming) ==
  [t \in DOMAIN ring \cup DOMAIN incoming |-> IF t \in DOMAIN ring THEN ring[t] ELSE incoming[t]]

\* The incoming points, sorted by time, one per bucket: the latest is kept.
Bucketed(times, size) ==
  [b \in {Bucket(t, size) : t \in times} |-> Max({t \in times : Bucket(t, size) = b})]

LatestAt(ring, cutoff) ==
  LET before == {t \in DOMAIN ring : t <= cutoff}
  IN  IF before = {} THEN -1 ELSE Max(before)

Point(interval, ring, t) == [interval |-> interval, time |-> t, of |-> ring[t], with |-> -1]

RingOf(interval, s) == CASE interval = "1m" -> one[s] [] interval = "5m" -> five[s] [] interval = "1d" -> daily[s]

(***************************************************************************)
(* References                                                              *)
(***************************************************************************)
\* points(): the coarser ring up to where the finer one begins.
PointsOf(s) ==
  LET cut(ring, finer) ==
        IF DOMAIN finer = {} THEN DOMAIN ring ELSE {t \in DOMAIN ring : t < Min(DOMAIN finer)}
      d == {Point("1d", daily[s], t) : t \in cut(daily[s], five[s])}
      f == {Point("5m", five[s], t) : t \in DOMAIN five[s]}
      merged == d \cup f
  IN  {p \in merged : DOMAIN one[s] = {} \/ p.time < Min(DOMAIN one[s])}
        \cup {Point("1m", one[s], t) : t \in DOMAIN one[s]}

\* The finest ring that reaches back to the cutoff answers.
Select(s, cutoff) ==
  LET reaches(i) == LatestAt(RingOf(i, s), cutoff) # -1
      i == CASE reaches("1m") -> "1m" [] ~reaches("1m") /\ reaches("5m") -> "5m" [] OTHER -> "1d"
  IN  IF reaches(i) THEN Point(i, RingOf(i, s), LatestAt(RingOf(i, s), cutoff)) ELSE NoPoint

\* The right iterator is advanced past the points newer than the left one.
Advance(right, l) == {t \in DOMAIN right : t <= l}

\* The loop over left points, newest first, with the right iterator moving
\* along: f[n] is the answer when the left points before time n remain.
PairAt(i, left, right, cutoff) ==
  LET f[n \in 0..(HTime + 1)] ==
        IF n = 0 THEN NoPoint
        ELSE LET l == n - 1
                 remaining == Advance(right, l)
             IN  IF l \notin DOMAIN left THEN f[n - 1]
                 ELSE IF remaining = {} THEN NoPoint
                 ELSE IF l - Max(remaining) > MaxSkew THEN f[n - 1]
                 ELSE [interval |-> i, time |-> l, of |-> left[l], with |-> right[Max(remaining)]]
  IN  f[IF cutoff < 0 THEN 0 ELSE cutoff + 1]

\* Prices are positive, so a quotient or product of two always exists.
SyntheticIn(i, recipe, cutoff) ==
  LET left == RingOf(i, recipe.inputs[1])
  IN  IF recipe.op = "inverse"
        THEN LET t == LatestAt(left, cutoff) IN IF t = -1 THEN NoPoint ELSE Point(i, left, t)
        ELSE PairAt(i, left, RingOf(i, recipe.inputs[2]), cutoff)

SyntheticReferenceAt(recipe, cutoff) ==
  LET found == SelectSeq(<<"1m", "5m", "1d">>, LAMBDA i : SyntheticIn(i, recipe, cutoff) # NoPoint)
  IN  IF found = << >> THEN NoPoint ELSE SyntheticIn(found[1], recipe, cutoff)

ReferenceAt(s, cutoff) ==
  IF recipes[s] # NoRecipe THEN SyntheticReferenceAt(recipes[s], cutoff) ELSE Select(s, cutoff)

(***************************************************************************)
(* Invalidation                                                            *)
(***************************************************************************)
\* The symbols reached from s along the given dependents.
Reached(deps, s) ==
  LET grow[n \in 0..Cardinality(HSymbols)] ==
        IF n = 0 THEN {s} ELSE grow[n - 1] \cup UNION {deps[d] : d \in grow[n - 1]}
  IN  grow[Cardinality(HSymbols)]

\* Mutant: only the symbol itself, not what is derived from it.
DroppedOwn(cache, deps, s, t) ==
  [cache EXCEPT ![s] = IF t = -1 \/ (@ # NoEntry /\ t <= @.asOf - OneHour) THEN NoEntry ELSE @]

\* _invalidate_references_locked: t = -1 is None, everything goes; otherwise
\* an entry goes when t is old enough to be one of its references.
Dropped(cache, deps, s, t) ==
  [d \in HSymbols |->
     IF d \in Reached(deps, s) /\ (t = -1 \/ (cache[d] # NoEntry /\ t <= cache[d].asOf - OneHour))
     THEN NoEntry ELSE cache[d]]

\* _prune_symbol_locked invalidates only if it removed something.
PruneDrops(cache, deps, s, removed) == IF removed THEN Dropped(cache, deps, s, -1) ELSE cache

Kept(o, f, d, now) == <<From(o, now - OneRetention), From(f, now - FiveRetention), From(d, now - DailyRetention)>>

(***************************************************************************)
(* Operations                                                              *)
(***************************************************************************)
Counted == hOps < HOps /\ hOps' = hOps + 1

\* add() of a live point: its 1-minute bucket and its 5-minute bucket.
Add(s, t) ==
  LET o == Upsert(one[s], Bucket(t, Minute), t)
      f == Upsert(five[s], Bucket(t, Five), t)
      kept == Kept(o, f, daily[s], t)
      removed == kept # <<o, f, daily[s]>>
  IN  /\ Counted /\ t % Minute = 0 /\ t \in (hNow - LateBy)..hNow
      /\ one' = [one EXCEPT ![s] = kept[1]]
      /\ five' = [five EXCEPT ![s] = kept[2]]
      /\ daily' = [daily EXCEPT ![s] = kept[3]]
      /\ refs' = Dropped(PruneDrops(refs, dependents, s, removed), dependents, s, t)
      /\ UNCHANGED <<recipes, dependents, hNow>>

\* load() of a backfill or of the restored history of one symbol.
Load(s, interval, times) ==
  LET o == Merged(one[s], IF interval = "1m" THEN Bucketed(times, Minute) ELSE NoRing)
      f == Merged(five[s], IF interval = "1d" THEN NoRing ELSE Bucketed(times, Five))
      d == Merged(daily[s], IF interval = "1d" THEN [t \in times |-> t] ELSE NoRing)
      kept == Kept(o, f, d, Max(DOMAIN o \cup DOMAIN f \cup DOMAIN d))
  IN  /\ Counted /\ times # {} /\ \A t \in times : t <= hNow
      /\ interval = "1d" => \A t \in times : t % Minute = 0
      /\ one' = [one EXCEPT ![s] = kept[1]]
      /\ five' = [five EXCEPT ![s] = kept[2]]
      /\ daily' = [daily EXCEPT ![s] = kept[3]]
      /\ refs' = Dropped(refs, dependents, s, -1)
      /\ UNCHANGED <<recipes, dependents, hNow>>

\* prune() of every symbol with the collectors' clock.
Prune ==
  LET kept == [s \in HSymbols |-> Kept(one[s], five[s], daily[s], hNow)]
      shrunk == {s \in HSymbols : kept[s] # <<one[s], five[s], daily[s]>>}
  IN  /\ Counted /\ shrunk # {}
      /\ one' = [s \in HSymbols |-> kept[s][1]]
      /\ five' = [s \in HSymbols |-> kept[s][2]]
      /\ daily' = [s \in HSymbols |-> kept[s][3]]
      /\ refs' = [d \in HSymbols |-> IF \E s \in shrunk : PruneDrops(refs, dependents, s, TRUE)[d] = NoEntry
                                     THEN NoEntry ELSE refs[d]]
      /\ UNCHANGED <<recipes, dependents, hNow>>

\* The retained symbols with everything their recipes need.
InputsClosure(symbols) ==
  LET inputsOf(s) == Range(recipes[s].inputs)
      grow[n \in 0..Cardinality(HSymbols)] ==
        IF n = 0 THEN symbols ELSE grow[n - 1] \cup UNION {inputsOf(s) : s \in grow[n - 1]}
  IN  grow[Cardinality(HSymbols)]

Present(s) == one[s] # NoRing \/ five[s] # NoRing \/ daily[s] # NoRing

RetainSymbols(symbols) ==
  LET kept == InputsClosure(symbols)
      gone == {s \in HSymbols \ kept : Present(s) \/ recipes[s] # NoRecipe}
      dropped(ring) == [s \in HSymbols |-> IF s \in kept THEN ring[s] ELSE NoRing]
  IN  /\ Counted
      /\ one' = dropped(one) /\ five' = dropped(five) /\ daily' = dropped(daily)
      /\ refs' = [s \in HSymbols |-> IF s \in gone THEN NoEntry ELSE refs[s]]
      /\ recipes' = [s \in HSymbols |-> IF s \in kept THEN recipes[s] ELSE NoRecipe]
      /\ dependents' = [s \in HSymbols |->
           dependents[s] \ {d \in HSymbols \ kept : s \in Range(recipes[d].inputs)}]
      /\ UNCHANGED hNow

\* reaches_target of every input.
Acyclic(s, recipe) == s \notin InputsClosure(Range(recipe.inputs))

RegisterSyntheticHistory(s, recipe) ==
  LET old == Range(recipes[s].inputs)
      new == Range(recipe.inputs)
      deps == [d \in HSymbols |->
                 IF d \in new THEN dependents[d] \cup {s} ELSE IF d \in old THEN dependents[d] \ {s} ELSE dependents[d]]
  IN  /\ Counted /\ Acyclic(s, recipe) /\ recipes[s] # recipe
      /\ recipes' = [recipes EXCEPT ![s] = recipe]
      /\ dependents' = deps
      /\ one' = [one EXCEPT ![s] = NoRing]
      /\ five' = [five EXCEPT ![s] = NoRing]
      /\ daily' = [daily EXCEPT ![s] = NoRing]
      /\ refs' = Dropped(refs, deps, s, -1)
      /\ UNCHANGED hNow

\* change_references for a quote of time t: one entry per quote minute.
ChangeReferences(s, t) ==
  /\ Counted /\ t \in (hNow - LateBy)..hNow
  /\ refs[s] = NoEntry \/ Bucket(refs[s].asOf, Minute) # Bucket(t, Minute)
  /\ refs' = [refs EXCEPT ![s] = [asOf |-> t, at |-> [w \in Windows |-> ReferenceAt(s, t - w)]]]
  /\ UNCHANGED <<rings, recipes, dependents, hNow>>

HTick ==
  /\ hNow < HTime /\ hNow' = hNow + 1
  /\ UNCHANGED <<rings, refs, recipes, dependents, hOps>>

HistoryNext ==
  \/ \E s \in HSymbols, t \in Ticks : Add(s, t)
  \/ \E b \in Backfills : Load(b[1], b[2], b[3])
  \/ Prune
  \/ \E symbols \in Catalogs : RetainSymbols(symbols)
  \/ \E choice \in RecipeChoices : RegisterSyntheticHistory(choice[1], choice[2])
  \/ \E s \in HSymbols, t \in Ticks : ChangeReferences(s, t)
  \/ HTick

(***************************************************************************)
(* Properties                                                              *)
(***************************************************************************)
\* Type invariant: rings hold points in their own buckets, and a cached entry
\* covers the six windows.
HistoryTypeOK ==
  /\ hNow \in Ticks /\ hOps \in 0..HOps
  /\ \A s \in HSymbols :
       /\ \A t \in DOMAIN one[s] : t \in Ticks /\ Bucket(one[s][t], Minute) = t
       /\ \A t \in DOMAIN five[s] : t \in Ticks /\ Bucket(five[s][t], Five) = t
       /\ \A t \in DOMAIN daily[s] : daily[s][t] = t
       /\ refs[s] # NoEntry => DOMAIN refs[s].at = Windows
       /\ recipes[s] = NoRecipe \/ <<s, recipes[s]>> \in RecipeChoices
       /\ dependents[s] \in SUBSET HSymbols

\* The reference chosen without copying is the one a full scan of points()
\* would choose, whatever the overlap of the rings and whatever the cutoff.
ReferenceMatchesPoints ==
  \A s \in HSymbols, cutoff \in Ticks :
    LET before == {p \in PointsOf(s) : p.time <= cutoff}
    IN  Select(s, cutoff) = IF before = {} THEN NoPoint
                            ELSE CHOOSE p \in before : \A q \in before : q.time <= p.time

\* The two iterators find the newest left point that has a right one at most
\* MaxSkew older, paired with the newest such right one.
PairMatchesDefinition ==
  \A s \in HSymbols, i \in Intervals, cutoff \in Ticks :
    Len(recipes[s].inputs) = 2 =>
      LET left == RingOf(i, recipes[s].inputs[1])
          right == RingOf(i, recipes[s].inputs[2])
          pairs == {p \in (DOMAIN left) \X (DOMAIN right) : p[1] <= cutoff /\ p[1] - p[2] \in 0..MaxSkew}
      IN  PairAt(i, left, right, cutoff) =
            IF pairs = {} THEN NoPoint
            ELSE LET p == CHOOSE p \in pairs : \A q \in pairs : q[1] < p[1] \/ (q[1] = p[1] /\ q[2] <= p[2])
                 IN  [interval |-> i, time |-> p[1], of |-> left[p[1]], with |-> right[p[2]]]

\* A cached entry answers for its whole quote minute: at every moment of that
\* minute it holds what a fresh search would find, through late live points,
\* backfills, pruning, catalog changes and changes of a component's history.
CachedReferencesCurrent ==
  \A s \in HSymbols : refs[s] # NoEntry =>
    \A t \in Ticks : Bucket(t, Minute) = Bucket(refs[s].asOf, Minute) =>
      \A w \in Windows : refs[s].at[w] = ReferenceAt(s, t - w)

\* The dependents are the recipes read backwards, and no symbol is derived
\* from itself, so invalidation reaches every derived history and ends.
DependentsMirrorRecipes ==
  \A s \in HSymbols :
    /\ dependents[s] = {d \in HSymbols : s \in Range(recipes[d].inputs)}
    /\ s \notin InputsClosure(Range(recipes[s].inputs))

\* The references of the rolling changes (cache.py) are those a search of the
\* whole history finds: searched through the rings, paired for a recipe, or
\* taken from the cache.
ReferencesExact ==
  ReferenceMatchesPoints /\ PairMatchesDefinition /\ CachedReferencesCurrent /\ DependentsMirrorRecipes
=============================================================================
