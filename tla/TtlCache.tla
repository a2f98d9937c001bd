------------------------------ MODULE TtlCache ------------------------------
(***************************************************************************)
(* One key of AsyncTtlCache (providers/_ttl.py): callers that miss wait on *)
(* an asyncio.Lock, look again, and the first one loads.  Values and       *)
(* expected provider failures are kept, each for its own time.             *)
(***************************************************************************)
EXTENDS Integers, Sequences, FiniteSets, Functions

CONSTANTS
  TtlCallers,
  Ttl, ErrorTtl,   \* ttl_seconds, error_ttl_seconds
  TtlTime          \* bound: time that passes

ASSUME TtlAssumption == Ttl \in Nat \ {0} /\ ErrorTtl \in Nat \ {0} /\ TtlTime \in Nat

VARIABLES
  tNow,
  expires,   \* expires_at of the entry, 0 if there is none
  tLine,     \* the lock: the first holds it
  tpc,
  started,   \* started_at of the load under way
  due        \* history: before this time nobody needs to load

ttlVars == <<tNow, expires, tLine, tpc, started, due>>

TtlInit ==
  /\ tNow = 0 /\ expires = 0 /\ tLine = << >> /\ started = 0 /\ due = 0
  /\ tpc = [c \in TtlCallers |-> "idle"]

TtlTypeOK ==
  /\ tNow \in 0..TtlTime /\ expires \in Nat /\ due \in Nat
  /\ tpc \in [TtlCallers -> {"idle", "waiting", "loading"}]
  /\ Range(tLine) = {c \in TtlCallers : tpc[c] # "idle"}

Fresh == tNow < expires
Holder(c) == tLine # << >> /\ Head(tLine) = c

GetOrLoad(c) ==
  /\ tpc[c] = "idle" /\ ~Fresh
  /\ tpc' = [tpc EXCEPT ![c] = "waiting"]
  /\ tLine' = Append(tLine, c)
  /\ UNCHANGED <<tNow, expires, started, due>>

\* Mutant: the entry is not read again under the lock.
LoadsUnchecked == TRUE

\* The entry is read again under the lock.
Loads == ~Fresh

TtlEnter(c) ==
  /\ Holder(c) /\ tpc[c] = "waiting"
  /\ IF Loads
       THEN tpc' = [tpc EXCEPT ![c] = "loading"] /\ started' = tNow /\ UNCHANGED tLine
       ELSE tpc' = [tpc EXCEPT ![c] = "idle"] /\ tLine' = Tail(tLine) /\ UNCHANGED started
  /\ UNCHANGED <<tNow, expires, due>>

\* The load ends; its lifetime counts from the moment it was started.
Loaded(c, ttl) ==
  /\ tpc[c] = "loading"
  /\ expires' = started + ttl /\ due' = started + ttl
  /\ tpc' = [tpc EXCEPT ![c] = "idle"] /\ tLine' = Tail(tLine)
  /\ UNCHANGED <<tNow, started>>

LoadSucceeds(c) == Loaded(c, Ttl)
LoadFails(c) == Loaded(c, ErrorTtl)

\* Cancelled, or an error that is not a ProviderError: nothing is kept.
LoadAbandoned(c) ==
  /\ tpc[c] = "loading"
  /\ tpc' = [tpc EXCEPT ![c] = "idle"] /\ tLine' = Tail(tLine)
  /\ UNCHANGED <<tNow, expires, started, due>>

Discard == expires # 0 /\ expires' = 0 /\ due' = 0 /\ UNCHANGED <<tNow, tLine, tpc, started>>

TtlTick == tNow < TtlTime /\ tNow' = tNow + 1 /\ UNCHANGED <<expires, tLine, tpc, started, due>>

TtlStep(c) == TtlEnter(c) \/ LoadSucceeds(c) \/ LoadFails(c) \/ LoadAbandoned(c)

TtlNext == TtlTick \/ Discard \/ \E c \in TtlCallers : GetOrLoad(c) \/ TtlStep(c)

TtlSpec == TtlInit /\ [][TtlNext]_ttlVars

-----------------------------------------------------------------------------
\* _ttl.py:21-28: concurrent misses collapse into one load, and neither a
\* value nor a failure is loaded again within its lifetime: a broken vendor is
\* not probed by every caller that waited for the failed attempt.
LoadsAreSpaced ==
  [][\A c \in TtlCallers :
       tpc[c] = "waiting" /\ tpc'[c] = "loading" =>
         tNow >= due /\ \A o \in TtlCallers : tpc[o] # "loading"]_ttlVars

=============================================================================
