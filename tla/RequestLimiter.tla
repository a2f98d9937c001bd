--------------------------- MODULE RequestLimiter ---------------------------
(***************************************************************************)
(* Rate limits of client requests (auth.py): two tables of token buckets,  *)
(* one for known keys and one, by address, for requests that fail to       *)
(* authenticate.  A table forgets a bucket that was idle for a while, and  *)
(* the least recently used one when it is full.  authenticate() runs on    *)
(* the event loop, so a request is one step.  The unit of time is chosen   *)
(* so that RatePerTick tokens accrue in it.                                *)
(***************************************************************************)
EXTENDS Integers, Sequences, FiniteSetsExt, SequencesExt

CONSTANTS
  Tables,         \* the limiters: "valid" for keys, "invalid" for addresses
  Identities,     \* digests of keys or addresses
  RatePerTick,    \* _rate_per_second
  BucketSize,     \* _capacity
  MaxIdentities,  \* _max_identities
  IdleTtl,        \* _idle_ttl_seconds
  LimiterTime     \* bound: time that passes

\* An idle bucket is full again by the time it is forgotten: true of the
\* defaults (20 tokens, 120 a minute, 600 seconds), enforced nowhere.
ASSUME LimiterAssumption ==
  /\ RatePerTick \in Nat \ {0} /\ BucketSize \in Nat \ {0} /\ MaxIdentities \in Nat \ {0}
  /\ IdleTtl \in Nat /\ LimiterTime \in Nat /\ BucketSize <= RatePerTick * IdleTtl

VARIABLES
  lNow,
  buckets,   \* the two OrderedDicts, oldest first
  ideal      \* reference: a bucket per identity that is never forgotten

limiterVars == <<lNow, buckets, ideal>>

Buckets == [id : Identities, tokens : 0..BucketSize, at : 0..LimiterTime]

Full(id) == [id |-> id, tokens |-> BucketSize, at |-> lNow]
Refilled(b) == [b EXCEPT !.at = lNow,
                         !.tokens = Min({BucketSize, @ + (lNow - b.at) * RatePerTick})]
Spent(b) == IF b.tokens >= 1 THEN [b EXCEPT !.tokens = @ - 1] ELSE b

\* The loop stops at the first bucket that is not stale.
Unstale(q) ==
  LET fresh == {i \in 1..Len(q) : q[i].at >= lNow - IdleTtl}
  IN IF fresh = {} THEN << >> ELSE SubSeq(q, Min(fresh), Len(q))

Has(q, id) == \E i \in 1..Len(q) : q[i].id = id
Place(q, id) == CHOOSE i \in 1..Len(q) : q[i].id = id
Entry(q, id) == q[Place(q, id)]
Evicts(q, id) == ~Has(q, id) /\ Len(q) >= MaxIdentities

\* Mutant: the time of the last refill is not moved forward.
TouchedWithoutTime(q, id) ==
  IF Has(q, id)
    THEN Append(RemoveAt(q, Place(q, id)),
                [Spent(Refilled(Entry(q, id))) EXCEPT !.at = Entry(q, id).at])
    ELSE Append(IF Evicts(q, id) THEN Tail(q) ELSE q, Spent(Full(id)))

\* consume(): the bucket of id moves to the end, after making room if needed.
Touched(q, id) ==
  IF Has(q, id) THEN Append(RemoveAt(q, Place(q, id)), Spent(Refilled(Entry(q, id))))
  ELSE Append(IF Evicts(q, id) THEN Tail(q) ELSE q, Spent(Full(id)))

LimiterInit ==
  /\ lNow = 0
  /\ buckets = [t \in Tables |-> << >>]
  /\ ideal = [t \in Tables |-> [id \in Identities |-> Full(id)]]

\* authenticate(): a known key uses up its own limit, a failed attempt that of
\* the address.  The reference bucket of an evicted identity starts again.
Authenticate(t, id) ==
  LET q == Unstale(buckets[t])
  IN /\ buckets' = [buckets EXCEPT ![t] = Touched(q, id)]
     /\ ideal' = [ideal EXCEPT ![t] =
          [i \in Identities |-> CASE i = id -> Spent(Refilled(ideal[t][i]))
                                  [] i # id /\ Evicts(q, id) /\ i = Head(q).id -> Full(i)
                                  [] OTHER -> ideal[t][i]]]
     /\ UNCHANGED lNow

LimiterTick == lNow < LimiterTime /\ lNow' = lNow + 1 /\ UNCHANGED <<buckets, ideal>>

LimiterNext == LimiterTick \/ \E t \in Tables, id \in Identities : Authenticate(t, id)

LimiterSpec == LimiterInit /\ [][LimiterNext]_limiterVars

-----------------------------------------------------------------------------
\* The tables stay within their bound, hold one bucket per identity, and are
\* in the order of last use on which the pruning loop relies.
LimiterTypeOK ==
  \A t \in Tables :
    LET q == buckets[t]
    IN /\ q \in Seq(Buckets) /\ Len(q) <= MaxIdentities
       /\ \A i, j \in 1..Len(q) : i < j => q[i].id # q[j].id /\ q[i].at <= q[j].at

\* Forgetting idle buckets is invisible: every identity has exactly the tokens
\* of a bucket of its own, unless it was evicted from a full table, which is
\* the only way to a fresh allowance (TokenBucketLimiter.consume).
LimitIsPerIdentity ==
  \A t \in Tables, id \in Identities :
    Refilled(ideal[t][id]).tokens =
      IF Has(buckets[t], id) THEN Refilled(Entry(buckets[t], id)).tokens ELSE BucketSize
=============================================================================
