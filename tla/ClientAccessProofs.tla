------------------------- MODULE ClientAccessProofs -------------------------
(***************************************************************************)
(* Proofs about the components in front of the data that clients ask for:  *)
(* their credentials (ApiKeys), the rate limits (RequestLimiter), the      *)
(* cache of one upstream value (TtlCache) and the stream of log events     *)
(* (LogBroker), for every number of keys, identities, requests, callers,   *)
(* viewers and events.                                                     *)
(***************************************************************************)
EXTENDS ApiKeys, RequestLimiter, TtlCache, LogBroker, FiniteSetTheorems, SequenceTheorems,
        WellFoundedInduction, TLAPS

-----------------------------------------------------------------------------
(* An asyncio.Lock is a line: the first holds it, the others wait.         *)

Distinct(q) == \A i, j \in 1..Len(q) : q[i] = q[j] => i = j
InLine(q, x) == \E i \in 1..Len(q) : q[i] = x
IsFirst(q, x) == q # << >> /\ Head(q) = x

LEMMA EmptyLine ==
  /\ \A S : << >> \in Seq(S)
  /\ Distinct(<< >>) /\ \A x : ~InLine(<< >>, x) /\ ~IsFirst(<< >>, x)
BY DEF Distinct, InLine, IsFirst

LEMMA JoinLine ==
  ASSUME NEW S, NEW q \in Seq(S), NEW a \in S, Distinct(q), ~InLine(q, a)
  PROVE  /\ Append(q, a) \in Seq(S) /\ Distinct(Append(q, a))
         /\ \A x : InLine(Append(q, a), x) <=> InLine(q, x) \/ x = a
         /\ \A x : IsFirst(q, x) => IsFirst(Append(q, a), x)
<1> DEFINE r == Append(q, a)
<1>1. /\ r \in Seq(S) /\ Len(r) = Len(q) + 1 /\ Len(q) \in Nat /\ r[Len(q) + 1] = a
      /\ \A i \in 1..Len(q) : r[i] = q[i]
  OBVIOUS
<1>2. \A x : IsFirst(q, x) => IsFirst(r, x)
  BY DEF IsFirst
<1> HIDE DEF r
<1>3. \A x : InLine(r, x) <=> InLine(q, x) \/ x = a
  BY <1>1 DEF InLine
<1>4. Distinct(r)
  <2> SUFFICES ASSUME NEW i \in 1..Len(r), NEW j \in 1..Len(r), r[i] = r[j] PROVE i = j
    BY DEF Distinct
  <2>1. (i \in 1..Len(q) \/ i = Len(q) + 1) /\ (j \in 1..Len(q) \/ j = Len(q) + 1)
    BY <1>1
  <2> QED BY <1>1, <2>1 DEF Distinct, InLine
<1> QED BY <1>1, <1>2, <1>3, <1>4 DEF r

LEMMA LeaveLine ==
  ASSUME NEW S, NEW q \in Seq(S), q # << >>, Distinct(q)
  PROVE  /\ Tail(q) \in Seq(S) /\ Distinct(Tail(q))
         /\ \A x : InLine(Tail(q), x) <=> InLine(q, x) /\ x # Head(q)
<1> DEFINE r == Tail(q)
<1>1. /\ r \in Seq(S) /\ Len(q) \in Nat \ {0} /\ Len(r) = Len(q) - 1 /\ Head(q) = q[1]
      /\ \A i \in 1..Len(r) : r[i] = q[i + 1]
  OBVIOUS
<1> HIDE DEF r
<1>2. Distinct(r)
  <2> SUFFICES ASSUME NEW i \in 1..Len(r), NEW j \in 1..Len(r), r[i] = r[j] PROVE i = j
    BY DEF Distinct
  <2>1. i + 1 \in 1..Len(q) /\ j + 1 \in 1..Len(q) /\ q[i + 1] = q[j + 1]
    BY <1>1
  <2>2. i + 1 = j + 1
    BY <2>1 DEF Distinct
  <2> QED BY <2>2, <1>1
<1>3. ASSUME NEW x, InLine(r, x) PROVE InLine(q, x) /\ x # Head(q)
  <2>1. PICK i \in 1..Len(r) : r[i] = x
    BY <1>3 DEF InLine
  <2>2. i + 1 \in 1..Len(q) /\ q[i + 1] = x /\ 1 \in 1..Len(q) /\ i + 1 # 1
    BY <2>1, <1>1
  <2> QED BY <2>2, <1>1 DEF InLine, Distinct
<1>4. ASSUME NEW x, InLine(q, x), x # Head(q) PROVE InLine(r, x)
  <2>1. PICK i \in 1..Len(q) : q[i] = x
    BY <1>4 DEF InLine
  <2>2. i # 1 /\ i - 1 \in 1..Len(r)
    BY <2>1, <1>1, <1>4
  <2>3. r[i - 1] = x
    BY <2>1, <2>2, <1>1
  <2> QED BY <2>2, <2>3 DEF InLine
<1> QED BY <1>1, <1>2, <1>3, <1>4 DEF r

-----------------------------------------------------------------------------
(* The cache of one value.                                                 *)

TtlInv ==
  /\ tNow \in 0..TtlTime /\ expires \in Nat /\ started \in Nat /\ due = expires
  /\ tpc \in [TtlCallers -> {"idle", "waiting", "loading"}]
  /\ tLine \in Seq(TtlCallers) /\ Distinct(tLine)
  /\ \A c \in TtlCallers : InLine(tLine, c) <=> tpc[c] # "idle"
  /\ \A c \in TtlCallers : tpc[c] = "loading" => IsFirst(tLine, c)

\* The holder leaves the lock.
LEMMA TtlLeaves ==
  ASSUME TtlInv, NEW c \in TtlCallers, IsFirst(tLine, c),
         tpc' = [tpc EXCEPT ![c] = "idle"], tLine' = Tail(tLine)
  PROVE  /\ tpc' \in [TtlCallers -> {"idle", "waiting", "loading"}]
         /\ tLine' \in Seq(TtlCallers) /\ Distinct(tLine')
         /\ \A o \in TtlCallers : InLine(tLine', o) <=> tpc'[o] # "idle"
         /\ \A o \in TtlCallers : tpc'[o] # "loading"
<1>1. tLine # << >> /\ Head(tLine) = c
  BY DEF IsFirst
<1>2. /\ tLine' \in Seq(TtlCallers) /\ Distinct(tLine')
      /\ \A x : InLine(tLine', x) <=> InLine(tLine, x) /\ x # c
  BY <1>1, LeaveLine DEF TtlInv
<1>3. \A o \in TtlCallers : tpc[o] = "loading" => o = c
  BY <1>1 DEF TtlInv, IsFirst
<1> QED BY <1>2, <1>3 DEF TtlInv

LEMMA TtlStepKeeps ==
  ASSUME TtlInv, TtlNext PROVE TtlInv'
<1>1. CASE TtlTick
  BY <1>1, TtlAssumption DEF TtlTick, TtlInv
<1>2. CASE Discard
  BY <1>2 DEF Discard, TtlInv
<1>3. ASSUME NEW c \in TtlCallers, GetOrLoad(c) PROVE TtlInv'
  <2>1. ~InLine(tLine, c)
    BY <1>3 DEF GetOrLoad, TtlInv
  <2>2. /\ tLine' \in Seq(TtlCallers) /\ Distinct(tLine')
        /\ \A x : InLine(tLine', x) <=> InLine(tLine, x) \/ x = c
        /\ \A x : IsFirst(tLine, x) => IsFirst(tLine', x)
    BY <1>3, <2>1, JoinLine DEF GetOrLoad, TtlInv
  <2> QED BY <1>3, <2>2 DEF GetOrLoad, TtlInv
<1>4. ASSUME NEW c \in TtlCallers, TtlEnter(c) PROVE TtlInv'
  <2>1. IsFirst(tLine, c)
    BY <1>4 DEF TtlEnter, Holder, IsFirst
  <2>2. CASE Loads
    BY <1>4, <2>1, <2>2, TtlAssumption DEF TtlEnter, TtlInv
  <2>3. CASE ~Loads
    BY <1>4, <2>1, <2>3, TtlLeaves DEF TtlEnter, TtlInv
  <2> QED BY <2>2, <2>3
<1>5. ASSUME NEW c \in TtlCallers, NEW ttl \in Nat, Loaded(c, ttl) PROVE TtlInv'
  <2>1. IsFirst(tLine, c)
    BY <1>5 DEF Loaded, TtlInv
  <2>2. expires' \in Nat /\ due' = expires' /\ tNow' = tNow /\ started' = started
    BY <1>5 DEF Loaded, TtlInv
  <2> QED BY <1>5, <2>1, <2>2, TtlLeaves DEF Loaded, TtlInv
<1>6. ASSUME NEW c \in TtlCallers, LoadAbandoned(c) PROVE TtlInv'
  <2>1. IsFirst(tLine, c)
    BY <1>6 DEF LoadAbandoned, TtlInv
  <2> QED BY <1>6, <2>1, TtlLeaves DEF LoadAbandoned, TtlInv
<1> QED BY <1>1, <1>2, <1>3, <1>4, <1>5, <1>6, TtlAssumption
        DEF TtlNext, TtlStep, LoadSucceeds, LoadFails

\* TtlInv is inductive.
THEOREM TtlInvariant == TtlSpec => []TtlInv
<1>1. TtlInit => TtlInv
  BY EmptyLine, TtlAssumption DEF TtlInit, TtlInv
<1>2. TtlInv /\ [TtlNext]_ttlVars => TtlInv'
  <2>1. TtlInv /\ UNCHANGED ttlVars => TtlInv'
    BY DEF TtlInv, ttlVars
  <2> QED BY <2>1, TtlStepKeeps
<1> QED BY <1>1, <1>2, PTL DEF TtlSpec

\* Concurrent misses of AsyncTtlCache collapse into one load, and nothing is
\* loaded again within its lifetime, for any number of callers (_ttl.py).
THEOREM LoadingIsSpaced == TtlSpec => LoadsAreSpaced
<1> DEFINE Spaced ==
             \A c \in TtlCallers : tpc[c] = "waiting" /\ tpc'[c] = "loading" =>
                                     tNow >= due /\ \A o \in TtlCallers : tpc[o] # "loading"
<1>1. ASSUME TtlInv, [TtlNext]_ttlVars PROVE Spaced
  <2> SUFFICES ASSUME NEW c \in TtlCallers, tpc[c] = "waiting", tpc'[c] = "loading"
               PROVE  tNow >= due /\ \A o \in TtlCallers : tpc[o] # "loading"
    OBVIOUS
  <2>1. TtlEnter(c) /\ Loads
    <3>1. tpc \in [TtlCallers -> {"idle", "waiting", "loading"}]
      BY <1>1 DEF TtlInv
    <3>2. ASSUME NEW d \in TtlCallers, TtlEnter(d) PROVE d = c /\ Loads
      BY <3>1, <3>2 DEF TtlEnter
    <3>3. ASSUME NEW d \in TtlCallers, NEW ttl, Loaded(d, ttl) PROVE FALSE
      BY <3>1, <3>3 DEF Loaded
    <3>4. ASSUME NEW d \in TtlCallers, LoadAbandoned(d) \/ GetOrLoad(d) PROVE FALSE
      BY <3>1, <3>4 DEF LoadAbandoned, GetOrLoad
    <3>5. ~TtlTick /\ ~Discard /\ ~UNCHANGED ttlVars
      BY DEF TtlTick, Discard, ttlVars
    <3> QED BY <1>1, <3>2, <3>3, <3>4, <3>5 DEF TtlNext, TtlStep, LoadSucceeds, LoadFails
  <2>2. tNow >= due
    BY <1>1, <2>1, TtlAssumption DEF TtlInv, Loads, Fresh
  <2>3. \A o \in TtlCallers : tpc[o] # "loading"
    BY <1>1, <2>1 DEF TtlInv, TtlEnter, Holder, IsFirst
  <2> QED BY <2>2, <2>3
<1>2. TtlInv /\ [TtlNext]_ttlVars => [Spaced]_ttlVars
  BY <1>1
<1> QED BY TtlInvariant, <1>2, PTL DEF TtlSpec, LoadsAreSpaced

-----------------------------------------------------------------------------
(* Credentials.                                                            *)

Requests == [op : {"none", "add", "expiry", "rename", "revoke"}, ds : SUBSET Digests,
             exp : 0..Forever]

IsTable(tbl) == DOMAIN tbl \subseteq Digests /\ \A d \in DOMAIN tbl : tbl[d] \in Records

KeysTypes ==
  /\ kNow \in 0..KeyTime /\ marker \in BOOLEAN
  /\ IsTable(table) /\ IsTable(records)
  /\ phase \in {"down", "bootstrap", "reload", "up"}
  /\ legacy \subseteq Digests
  /\ kpc \in [Admins -> {"idle", "waiting", "writing", "written"}]
  /\ req \in [Admins -> Requests]

\* Requests are in the line from the moment they ask until they are answered,
\* and only the first one is past the lock.
KeysLineInv ==
  /\ line \in Seq(Admins) /\ Distinct(line)
  /\ \A a \in Admins : InLine(line, a) <=> kpc[a] # "idle"
  /\ \A a \in Admins : kpc[a] \in {"writing", "written"} => IsFirst(line, a)

\* Until start() is through, nobody asks and nobody is let in, and the legacy
\* hashes are only written when no start before did so.
StartInv ==
  /\ phase # "up" => /\ line = << >> /\ DOMAIN records = {}
                     /\ \A a \in Admins : kpc[a] = "idle"
  /\ phase = "bootstrap" => ~marker

\* Between its commit and its publication a change is all that separates the
\* memory from the table.
MirrorInv ==
  phase = "up" =>
    /\ (\A a \in Admins : kpc[a] # "written") => records = table
    /\ \A a \in Admins : kpc[a] = "written" => table = Changed(records, req[a])

RevokedIn(tbl, ds) == \A d \in ds : d \in DOMAIN tbl /\ tbl[d].revoked

RevocationInv ==
  /\ RevokedIn(table, answered)
  /\ phase = "up" => RevokedIn(records, answered)
  /\ \A a \in Admins : kpc[a] = "written" /\ req[a].op = "revoke" => RevokedIn(table, req[a].ds)

AdmissionInv == DOMAIN table \subseteq admitted /\ DOMAIN records \subseteq admitted

KeysInv == KeysTypes /\ KeysLineInv /\ StartInv /\ MirrorInv /\ RevocationInv /\ AdmissionInv

LEMMA RecordFields ==
  ASSUME NEW r \in Records
  PROVE  /\ r.exp \in 0..Forever /\ r.revoked \in BOOLEAN
         /\ \A e \in 0..Forever : /\ [r EXCEPT !.exp = e] \in Records
                                  /\ [r EXCEPT !.exp = e].revoked = r.revoked
         /\ [r EXCEPT !.revoked = TRUE] \in Records /\ [r EXCEPT !.revoked = TRUE].revoked
BY DEF Records

LEMMA NewRecordIsRecord ==
  ASSUME NEW e \in 0..Forever PROVE NewRecord(e) \in Records
BY DEF NewRecord, Records

LEMMA AddedFacts ==
  ASSUME NEW tbl, IsTable(tbl), NEW ds \in SUBSET Digests, NEW e \in 0..Forever
  PROVE  /\ IsTable(Added(tbl, ds, e)) /\ DOMAIN Added(tbl, ds, e) = DOMAIN tbl \cup ds
         /\ \A d \in DOMAIN tbl : Added(tbl, ds, e)[d] = tbl[d]
BY NewRecordIsRecord DEF Added, IsTable

\* A change removes no key and takes no revocation back.
LEMMA ChangedFacts ==
  ASSUME NEW tbl, IsTable(tbl), NEW r \in Requests
  PROVE  LET new == Changed(tbl, r)
         IN  /\ IsTable(new)
             /\ DOMAIN new = IF r.op = "add" THEN DOMAIN tbl \cup r.ds ELSE DOMAIN tbl
             /\ \A d \in DOMAIN tbl : tbl[d].revoked => new[d].revoked
             /\ r.op = "revoke" => \A d \in DOMAIN tbl \cap r.ds : new[d].revoked
<1> DEFINE new == Changed(tbl, r)
<1>1. r.ds \in SUBSET Digests /\ r.exp \in 0..Forever
  BY DEF Requests
<1>2. CASE r.op = "add"
  <2>1. new = Added(tbl, r.ds, r.exp)
    BY <1>2 DEF Changed
  <2>2. /\ IsTable(new) /\ DOMAIN new = DOMAIN tbl \cup r.ds
        /\ \A d \in DOMAIN tbl : new[d] = tbl[d]
    BY <1>1, <2>1, AddedFacts
  <2> HIDE DEF new
  <2>3. \A d \in DOMAIN tbl : tbl[d].revoked => new[d].revoked
    BY <2>2
  <2> QED BY <1>2, <2>2, <2>3 DEF new
<1>3. CASE r.op = "revoke"
  <2>1. new = [d \in DOMAIN tbl |-> IF d \in r.ds THEN [tbl[d] EXCEPT !.revoked = TRUE] ELSE tbl[d]]
    BY <1>3 DEF Changed
  <2> HIDE DEF new
  <2>2. DOMAIN new = DOMAIN tbl
    BY <2>1
  <2>3. ASSUME NEW d \in DOMAIN tbl
        PROVE  /\ new[d] \in Records /\ (tbl[d].revoked => new[d].revoked)
               /\ d \in r.ds => new[d].revoked
    <3>1. tbl[d] \in Records
      BY DEF IsTable
    <3>2. CASE d \in r.ds
      BY <2>1, <3>1, <3>2, RecordFields
    <3>3. CASE d \notin r.ds
      BY <2>1, <3>1, <3>3
    <3> QED BY <3>2, <3>3
  <2>4. IsTable(new)
    BY <2>2, <2>3 DEF IsTable
  <2> QED BY <1>3, <2>2, <2>3, <2>4 DEF new
<1>4. CASE r.op # "add" /\ r.op # "revoke"
  <2>1. new = [d \in DOMAIN tbl |-> IF d \in r.ds THEN [tbl[d] EXCEPT !.exp = r.exp] ELSE tbl[d]]
    BY <1>4 DEF Changed
  <2> HIDE DEF new
  <2>2. DOMAIN new = DOMAIN tbl
    BY <2>1
  <2>3. ASSUME NEW d \in DOMAIN tbl
        PROVE  new[d] \in Records /\ (tbl[d].revoked => new[d].revoked)
    <3>1. tbl[d] \in Records
      BY DEF IsTable
    <3>2. CASE d \in r.ds
      <4>1. new[d] = [tbl[d] EXCEPT !.exp = r.exp]
        BY <2>1, <3>2
      <4>2. [tbl[d] EXCEPT !.exp = r.exp] \in Records
            /\ [tbl[d] EXCEPT !.exp = r.exp].revoked = tbl[d].revoked
        BY <3>1, <1>1, RecordFields
      <4> QED BY <4>1, <4>2
    <3>3. CASE d \notin r.ds
      BY <2>1, <3>1, <3>3
    <3> QED BY <3>2, <3>3
  <2>4. IsTable(new)
    BY <2>2, <2>3 DEF IsTable
  <2> QED BY <1>4, <2>2, <2>3, <2>4 DEF new
<1> QED BY <1>2, <1>3, <1>4

\* While the first in line is not past its commit, memory and table agree.
LEMMA NobodyWritten ==
  ASSUME KeysInv, NEW a \in Admins, IsFirst(line, a)
  PROVE  /\ phase = "up"
         /\ \A c \in Admins : c # a => kpc[c] \in {"idle", "waiting"}
         /\ kpc[a] # "written" => records = table
<1>1. \A c \in Admins : c # a => kpc[c] \in {"idle", "waiting"}
  BY DEF KeysInv, KeysTypes, KeysLineInv, IsFirst
<1>2. phase = "up"
  BY DEF KeysInv, StartInv, IsFirst
<1> QED BY <1>1, <1>2 DEF KeysInv, MirrorInv

LEMMA NoReqIsRequest == NoReq \in Requests
<1>1. 0 \in 0..Forever
  BY KeysAssumption DEF Forever
<1> QED BY <1>1 DEF NoReq, Requests

LEMMA LeaveKeeps ==
  ASSUME KeysInv, NEW a \in Admins, IsFirst(line, a), Leave(a)
  PROVE  /\ kpc' \in [Admins -> {"idle", "waiting", "writing", "written"}]
         /\ req' \in [Admins -> Requests]
         /\ KeysLineInv'
         /\ \A c \in Admins : kpc'[c] \in {"idle", "waiting"}
<1>1. /\ line' = Tail(line) /\ kpc' = [kpc EXCEPT ![a] = "idle"]
      /\ req' = [req EXCEPT ![a] = NoReq] /\ line # << >> /\ Head(line) = a
  BY DEF Leave, IsFirst
<1>2. /\ kpc \in [Admins -> {"idle", "waiting", "writing", "written"}]
      /\ req \in [Admins -> Requests]
      /\ line \in Seq(Admins) /\ Distinct(line)
      /\ \A c \in Admins : InLine(line, c) <=> kpc[c] # "idle"
  BY DEF KeysInv, KeysTypes, KeysLineInv
<1>3. /\ line' \in Seq(Admins) /\ Distinct(line')
      /\ \A x : InLine(line', x) <=> InLine(line, x) /\ x # a
  BY <1>1, <1>2, LeaveLine
<1>4. \A c \in Admins : kpc'[c] \in {"idle", "waiting"}
  BY <1>1, <1>2, NobodyWritten
<1>5. \A c \in Admins : InLine(line', c) <=> kpc'[c] # "idle"
  BY <1>1, <1>2, <1>3
<1>6. KeysLineInv'
  BY <1>3, <1>4, <1>5 DEF KeysLineInv, Distinct, InLine
<1>7. req' \in [Admins -> Requests]
  BY <1>1, <1>2, NoReqIsRequest
<1> QED BY <1>1, <1>2, <1>4, <1>6, <1>7

\* Starting, stopping and the clock.
LEMMA StartStep ==
  ASSUME KeysInv,
         (\E env \in SUBSET Digests : Start(env)) \/ Bootstrap \/ Reload \/ Stop \/ KeyTick
  PROVE  KeysInv'
<1>1. ASSUME NEW env \in SUBSET Digests, Start(env) PROVE KeysInv'
  <2>1. /\ phase = "down" /\ legacy' = env /\ phase' = IF marker THEN "reload" ELSE "bootstrap"
        /\ kNow' = kNow /\ table' = table /\ marker' = marker /\ records' = records
        /\ line' = line /\ kpc' = kpc /\ req' = req /\ answered' = answered /\ admitted' = admitted
    BY <1>1 DEF Start
  <2>2. KeysTypes' /\ KeysLineInv'
    BY <2>1 DEF KeysInv, KeysTypes, KeysLineInv
  <2>3. StartInv' /\ MirrorInv'
    BY <2>1 DEF KeysInv, KeysTypes, StartInv, MirrorInv
  <2>4. RevocationInv' /\ AdmissionInv'
    BY <2>1 DEF KeysInv, KeysTypes, RevocationInv, AdmissionInv
  <2> QED BY <2>2, <2>3, <2>4 DEF KeysInv
<1>2. CASE Bootstrap
  <2> DEFINE new == Added(table, legacy, Forever)
  <2>1. /\ phase = "bootstrap" /\ table' = new /\ marker' = TRUE /\ phase' = "reload"
        /\ admitted' = admitted \cup legacy
        /\ kNow' = kNow /\ legacy' = legacy /\ records' = records
        /\ line' = line /\ kpc' = kpc /\ req' = req /\ answered' = answered
    BY <1>2 DEF Bootstrap, KeysInv, StartInv
  <2>2. /\ IsTable(new) /\ DOMAIN new = DOMAIN table \cup legacy
        /\ \A d \in DOMAIN table : new[d] = table[d]
    <3>1. Forever \in 0..Forever
      BY KeysAssumption DEF Forever
    <3> QED BY <3>1, AddedFacts DEF KeysInv, KeysTypes
  <2> HIDE DEF new
  <2>3. KeysTypes'
    BY <2>1, <2>2 DEF KeysInv, KeysTypes, IsTable
  <2>4. KeysLineInv'
    BY <2>1 DEF KeysInv, KeysLineInv
  <2>5. StartInv' /\ MirrorInv'
    BY <2>1 DEF KeysInv, StartInv, MirrorInv
  <2>6. \A a \in Admins : kpc[a] = "idle"
    BY <2>1 DEF KeysInv, StartInv
  <2>7. RevocationInv'
    BY <2>1, <2>2, <2>6 DEF KeysInv, RevocationInv, RevokedIn
  <2>8. AdmissionInv'
    BY <2>1, <2>2 DEF KeysInv, AdmissionInv
  <2> QED BY <2>3, <2>4, <2>5, <2>7, <2>8 DEF KeysInv
<1>3. CASE Reload
  <2>1. /\ phase = "reload" /\ table' = table /\ records' = table /\ phase' = "up"
        /\ admitted' = admitted /\ marker' = marker
        /\ kNow' = kNow /\ legacy' = legacy
        /\ line' = line /\ kpc' = kpc /\ req' = req /\ answered' = answered
    BY <1>3 DEF Reload
  <2>2. KeysTypes' /\ KeysLineInv'
    BY <2>1 DEF KeysInv, KeysTypes, KeysLineInv, IsTable
  <2>3. StartInv' /\ MirrorInv'
    BY <2>1 DEF KeysInv, StartInv, MirrorInv
  <2>4. RevocationInv' /\ AdmissionInv'
    BY <2>1 DEF KeysInv, RevocationInv, RevokedIn, AdmissionInv
  <2> QED BY <2>2, <2>3, <2>4 DEF KeysInv
<1>4. CASE Stop
  <2>1. /\ phase' = "down" /\ records' = << >> /\ line' = << >>
        /\ kpc' = [a \in Admins |-> "idle"] /\ req' = [a \in Admins |-> NoReq]
        /\ kNow' = kNow /\ table' = table /\ marker' = marker /\ legacy' = legacy
        /\ answered' = answered /\ admitted' = admitted
    BY <1>4 DEF Stop
  <2>2. DOMAIN records' = {}
    BY <2>1
  <2>3. KeysTypes'
    BY <2>1, <2>2, NoReqIsRequest DEF KeysInv, KeysTypes, IsTable
  <2>4. KeysLineInv'
    BY <2>1, EmptyLine DEF KeysLineInv
  <2>5. StartInv' /\ MirrorInv'
    BY <2>1, <2>2 DEF StartInv, MirrorInv
  <2>6. RevocationInv' /\ AdmissionInv'
    BY <2>1, <2>2 DEF KeysInv, RevocationInv, RevokedIn, AdmissionInv
  <2> QED BY <2>3, <2>4, <2>5, <2>6 DEF KeysInv
<1>5. CASE KeyTick
  <2>1. /\ kNow' \in 0..KeyTime /\ table' = table /\ marker' = marker /\ records' = records
        /\ phase' = phase /\ legacy' = legacy /\ line' = line /\ kpc' = kpc /\ req' = req
        /\ answered' = answered /\ admitted' = admitted
    BY <1>5, KeysAssumption DEF KeyTick, KeysInv, KeysTypes
  <2>2. KeysTypes' /\ KeysLineInv'
    BY <2>1 DEF KeysInv, KeysTypes, KeysLineInv
  <2>3. StartInv' /\ MirrorInv' /\ RevocationInv' /\ AdmissionInv'
    BY <2>1 DEF KeysInv, StartInv, MirrorInv, RevocationInv, AdmissionInv
  <2> QED BY <2>2, <2>3 DEF KeysInv
<1> QED BY <1>1, <1>2, <1>3, <1>4, <1>5

\* A request joins the line and has changed nothing yet.
LEMMA AskStep ==
  ASSUME KeysInv, NEW a \in Admins, NEW op \in {"add", "expiry", "rename", "revoke"},
         NEW ds \in SUBSET Digests, NEW e \in 0..Forever, Ask(a, op, ds, e)
  PROVE  KeysInv'
<1> DEFINE r == [op |-> op, ds |-> ds, exp |-> e]
<1>1. /\ phase = "up" /\ kpc[a] = "idle" /\ kpc' = [kpc EXCEPT ![a] = "waiting"]
      /\ req' = [req EXCEPT ![a] = r] /\ line' = Append(line, a)
      /\ kNow' = kNow /\ table' = table /\ marker' = marker /\ records' = records
      /\ phase' = phase /\ legacy' = legacy /\ answered' = answered /\ admitted' = admitted
  BY DEF Ask
<1>2. r \in Requests
  BY DEF Requests
<1> HIDE DEF r
<1>3. /\ kpc \in [Admins -> {"idle", "waiting", "writing", "written"}]
      /\ req \in [Admins -> Requests]
      /\ line \in Seq(Admins) /\ Distinct(line)
      /\ \A c \in Admins : InLine(line, c) <=> kpc[c] # "idle"
      /\ \A c \in Admins : kpc[c] \in {"writing", "written"} => IsFirst(line, c)
  BY DEF KeysInv, KeysTypes, KeysLineInv
<1>4. /\ line' \in Seq(Admins) /\ Distinct(line')
      /\ \A x : InLine(line', x) <=> InLine(line, x) \/ x = a
      /\ \A x : IsFirst(line, x) => IsFirst(line', x)
  BY <1>1, <1>3, JoinLine
<1>5. KeysTypes'
  BY <1>1, <1>2 DEF KeysInv, KeysTypes
<1>6. KeysLineInv'
  BY <1>1, <1>3, <1>4 DEF KeysLineInv
<1>7. \A c \in Admins : kpc'[c] = "written" => kpc[c] = "written" /\ req'[c] = req[c]
  BY <1>1, <1>3
<1>8. \A c \in Admins : kpc[c] = "written" => kpc'[c] = "written"
  BY <1>1, <1>3
<1>9. StartInv' /\ AdmissionInv'
  BY <1>1 DEF KeysInv, StartInv, AdmissionInv
<1>10. MirrorInv'
  BY <1>1, <1>7, <1>8 DEF KeysInv, MirrorInv
<1>11. RevocationInv'
  BY <1>1, <1>7 DEF KeysInv, RevocationInv
<1> QED BY <1>5, <1>6, <1>9, <1>10, <1>11 DEF KeysInv

\* A request that gives up leaves memory and table in agreement.
LEMMA QuitStep ==
  ASSUME KeysInv, NEW a \in Admins, IsFirst(line, a), kpc[a] # "written", Leave(a),
         UNCHANGED <<kNow, table, marker, records, phase, legacy, answered, admitted>>
  PROVE  KeysInv'
<1>1. /\ kpc' \in [Admins -> {"idle", "waiting", "writing", "written"}]
      /\ req' \in [Admins -> Requests] /\ KeysLineInv'
      /\ \A c \in Admins : kpc'[c] \in {"idle", "waiting"}
  BY LeaveKeeps
<1>2. phase = "up" /\ records = table
  BY NobodyWritten
<1>3. KeysTypes'
  BY <1>1 DEF KeysInv, KeysTypes
<1>4. StartInv' /\ MirrorInv' /\ RevocationInv' /\ AdmissionInv'
  BY <1>1, <1>2 DEF KeysInv, StartInv, MirrorInv, RevocationInv, AdmissionInv
<1> QED BY <1>1, <1>3, <1>4 DEF KeysInv

LEMMA EnterStep ==
  ASSUME KeysInv, NEW a \in Admins, Enter(a) PROVE KeysInv'
<1>1. IsFirst(line, a) /\ kpc[a] = "waiting"
  BY DEF Enter, Holds, IsFirst
<1>2. CASE Permitted(a)
  <2>1. /\ kpc' = [kpc EXCEPT ![a] = "writing"] /\ line' = line /\ req' = req
        /\ kNow' = kNow /\ table' = table /\ marker' = marker /\ records' = records
        /\ phase' = phase /\ legacy' = legacy /\ answered' = answered /\ admitted' = admitted
    BY <1>2 DEF Enter
  <2>2. KeysTypes' /\ KeysLineInv'
    BY <1>1, <2>1 DEF KeysInv, KeysTypes, KeysLineInv
  <2>3. StartInv' /\ AdmissionInv'
    BY <2>1, <1>1, NobodyWritten DEF KeysInv, StartInv, AdmissionInv
  <2>4. records = table /\ \A c \in Admins : kpc'[c] # "written"
    BY <1>1, <2>1, NobodyWritten DEF KeysInv, KeysTypes
  <2>5. MirrorInv' /\ RevocationInv'
    BY <2>1, <2>4 DEF KeysInv, MirrorInv, RevocationInv
  <2> QED BY <2>2, <2>3, <2>5 DEF KeysInv
<1>3. CASE ~Permitted(a)
  BY <1>1, <1>3, QuitStep DEF Enter
<1> QED BY <1>2, <1>3

LEMMA CommitStep ==
  ASSUME KeysInv, NEW a \in Admins, Commit(a) PROVE KeysInv'
<1> DEFINE r == req[a]  new == Changed(table, r)
<1>1. /\ kpc[a] = "writing" /\ Applies(r) /\ table' = new
      /\ admitted' = IF r.op = "add" THEN admitted \cup r.ds ELSE admitted
      /\ kpc' = [kpc EXCEPT ![a] = "written"] /\ line' = line /\ req' = req
      /\ kNow' = kNow /\ marker' = marker /\ records' = records
      /\ phase' = phase /\ legacy' = legacy /\ answered' = answered
  BY DEF Commit
<1>2. IsFirst(line, a) /\ IsTable(table) /\ r \in Requests
  BY <1>1 DEF KeysInv, KeysTypes, KeysLineInv
<1>3. /\ phase = "up" /\ records = table
      /\ \A c \in Admins : c # a => kpc[c] \in {"idle", "waiting"}
  BY <1>1, <1>2, NobodyWritten
<1>4. /\ IsTable(new)
      /\ DOMAIN new = IF r.op = "add" THEN DOMAIN table \cup r.ds ELSE DOMAIN table
      /\ \A d \in DOMAIN table : table[d].revoked => new[d].revoked
      /\ r.op = "revoke" => \A d \in DOMAIN table \cap r.ds : new[d].revoked
  BY <1>2, ChangedFacts
<1>5. new = Changed(records, r)
  BY <1>3
<1>6. /\ kpc'[a] = "written" /\ \A c \in Admins : c # a => kpc'[c] \in {"idle", "waiting"}
      /\ kpc' \in [Admins -> {"idle", "waiting", "writing", "written"}]
  BY <1>1, <1>3 DEF KeysInv, KeysTypes
<1>7. r.op = "revoke" => r.ds \subseteq DOMAIN table
  BY <1>1 DEF Applies
<1> HIDE DEF new
<1>8. KeysTypes'
  BY <1>1, <1>4, <1>6 DEF KeysInv, KeysTypes, IsTable
<1>9. KeysLineInv'
  BY <1>1, <1>2, <1>6 DEF KeysInv, KeysTypes, KeysLineInv
<1>10. StartInv' /\ AdmissionInv'
  BY <1>1, <1>3, <1>4 DEF KeysInv, StartInv, AdmissionInv
<1>11. MirrorInv'
  BY <1>1, <1>5, <1>6 DEF MirrorInv
<1>12. RevocationInv'
  BY <1>1, <1>3, <1>4, <1>6, <1>7 DEF KeysInv, RevocationInv, RevokedIn
<1> QED BY <1>8, <1>9, <1>10, <1>11, <1>12 DEF KeysInv

LEMMA PublishStep ==
  ASSUME KeysInv, NEW a \in Admins, Publish(a) PROVE KeysInv'
<1>1. /\ kpc[a] = "written" /\ records' = Changed(records, req[a]) /\ Leave(a)
      /\ answered' = IF req[a].op = "revoke" THEN answered \cup req[a].ds ELSE answered
      /\ kNow' = kNow /\ table' = table /\ marker' = marker /\ phase' = phase
      /\ legacy' = legacy /\ admitted' = admitted
  BY DEF Publish
<1>2. IsFirst(line, a) /\ phase = "up"
  BY <1>1, NobodyWritten DEF KeysInv, KeysLineInv
<1>3. records' = table
  BY <1>1, <1>2 DEF KeysInv, MirrorInv
<1>4. /\ kpc' \in [Admins -> {"idle", "waiting", "writing", "written"}]
      /\ req' \in [Admins -> Requests] /\ KeysLineInv'
      /\ \A c \in Admins : kpc'[c] \in {"idle", "waiting"}
  BY <1>1, <1>2, LeaveKeeps
<1>5. KeysTypes'
  BY <1>1, <1>3, <1>4 DEF KeysInv, KeysTypes, IsTable
<1>6. StartInv' /\ MirrorInv' /\ AdmissionInv'
  BY <1>1, <1>2, <1>3, <1>4 DEF KeysInv, StartInv, MirrorInv, AdmissionInv
<1>7. RevokedIn(table, answered')
  BY <1>1 DEF KeysInv, RevocationInv, RevokedIn
<1>8. RevocationInv'
  BY <1>1, <1>3, <1>4, <1>7 DEF RevocationInv, RevokedIn
<1> QED BY <1>4, <1>5, <1>6, <1>8 DEF KeysInv

LEMMA WriteFailsStep ==
  ASSUME KeysInv, NEW a \in Admins, WriteFails(a) PROVE KeysInv'
<1>1. IsFirst(line, a) /\ kpc[a] = "writing"
  BY DEF WriteFails, KeysInv, KeysLineInv
<1> QED BY <1>1, QuitStep DEF WriteFails

LEMMA KeysStep ==
  ASSUME KeysInv, KeysNext PROVE KeysInv'
<1>1. ASSUME NEW a \in Admins, NEW d \in Digests, NEW e \in (kNow + 1)..Forever,
             Create(a, d, e) \/ SetExpiry(a, d, e)
      PROVE  KeysInv'
  <2>1. {d} \in SUBSET Digests /\ e \in 0..Forever
    BY KeysAssumption DEF KeysInv, KeysTypes, Forever
  <2> QED BY <1>1, <2>1, AskStep DEF Create, SetExpiry
<1>2. ASSUME NEW a \in Admins, NEW ds \in SUBSET Digests, NEW e \in (kNow + 1)..Forever,
             ImportMany(a, ds, e)
      PROVE  KeysInv'
  <2>1. e \in 0..Forever
    BY KeysAssumption DEF KeysInv, KeysTypes, Forever
  <2> QED BY <1>2, <2>1, AskStep DEF ImportMany
<1>3. ASSUME NEW a \in Admins, NEW d \in Digests, Rename(a, d) PROVE KeysInv'
  <2>1. records[d] \in Records
    BY <1>3 DEF Rename, Listed, KeysInv, KeysTypes, IsTable
  <2>2. {d} \in SUBSET Digests /\ records[d].exp \in 0..Forever
    BY <2>1, RecordFields
  <2> QED BY <1>3, <2>2, AskStep DEF Rename
<1>4. ASSUME NEW a \in Admins, NEW d \in Digests, Revoke(a, d) PROVE KeysInv'
  <2>1. {d} \in SUBSET Digests /\ 0 \in 0..Forever
    BY KeysAssumption DEF Forever
  <2> QED BY <1>4, <2>1, AskStep DEF Revoke
<1>5. ASSUME NEW a \in Admins, KeyStep(a) PROVE KeysInv'
  BY <1>5, EnterStep, CommitStep, WriteFailsStep, PublishStep DEF KeyStep
<1> QED BY <1>1, <1>2, <1>3, <1>4, <1>5, StartStep DEF KeysNext

\* KeysInv is inductive.
THEOREM KeysInvariant == KeysSpec => []KeysInv
<1>1. KeysInit => KeysInv
  <2> SUFFICES ASSUME KeysInit PROVE KeysInv
    OBVIOUS
  <2>1. DOMAIN table = {} /\ DOMAIN records = {}
    BY DEF KeysInit
  <2>2. KeysTypes
    <3>1. IsTable(table) /\ IsTable(records)
      BY <2>1 DEF IsTable
    <3>2. req \in [Admins -> Requests]
      BY NoReqIsRequest DEF KeysInit
    <3>3. kNow \in 0..KeyTime
      BY KeysAssumption DEF KeysInit
    <3>4. marker \in BOOLEAN /\ legacy \subseteq Digests
      BY DEF KeysInit
    <3>5. /\ phase \in {"down", "bootstrap", "reload", "up"}
          /\ kpc \in [Admins -> {"idle", "waiting", "writing", "written"}]
      BY DEF KeysInit
    <3> QED BY <3>1, <3>2, <3>3, <3>4, <3>5 DEF KeysTypes
  <2>3. KeysLineInv
    BY EmptyLine DEF KeysInit, KeysLineInv
  <2>4. StartInv /\ MirrorInv /\ RevocationInv /\ AdmissionInv
    BY <2>1 DEF KeysInit, StartInv, MirrorInv, RevocationInv, RevokedIn, AdmissionInv
  <2> QED BY <2>2, <2>3, <2>4 DEF KeysInv
<1>2. KeysInv /\ [KeysNext]_keyVars => KeysInv'
  <2>1. ASSUME KeysInv, UNCHANGED keyVars PROVE KeysInv'
    BY <2>1 DEF keyVars, KeysInv, KeysTypes, KeysLineInv, StartInv, MirrorInv, RevocationInv,
                AdmissionInv
  <2> QED BY <2>1, KeysStep
<1> QED BY <1>1, <1>2, PTL DEF KeysSpec

\* Every variable keeps its type, and the requests that are under way are
\* exactly those in the line of _write_lock, each once.
THEOREM KeysTypeCorrect == KeysSpec => []KeysTypeOK
<1>1. ASSUME KeysInv PROVE KeysTypeOK
  <2>1. Range(table) \subseteq Records /\ Range(records) \subseteq Records
    BY <1>1 DEF KeysInv, KeysTypes, IsTable, Range
  <2>2. Range(line) = {a \in Admins : kpc[a] # "idle"}
    <3>1. line \in Seq(Admins) /\ \A a \in Admins : InLine(line, a) <=> kpc[a] # "idle"
      BY <1>1 DEF KeysInv, KeysLineInv
    <3>2. Range(line) = {a \in Admins : InLine(line, a)}
      BY <3>1 DEF Range, InLine
    <3> QED BY <3>1, <3>2
  <2> QED BY <1>1, <2>1, <2>2 DEF KeysInv, KeysTypes, KeysLineInv, IsTable, Distinct, KeysTypeOK
<1> QED BY KeysInvariant, <1>1, PTL

\* Clients are let in by durable, admitted and unrevoked keys only, for any
\* number of concurrent changes, failed writes and restarts (ApiKeyManager,
\* api_keys.py).
THEOREM CredentialsFollowDecisions == KeysSpec => []CredentialsAsDecided
<1>1. ASSUME KeysInv PROVE CredentialsAsDecided
  <2>1. MemoryMirrors
    BY <1>1 DEF KeysInv, MirrorInv, MemoryMirrors
  <2>2. RevokedStaysRevoked
    BY <1>1 DEF KeysInv, RevocationInv, RevokedIn, RevokedStaysRevoked, Authenticates, IsActive
  <2>3. NoSilentCredential
    BY <1>1 DEF KeysInv, AdmissionInv, NoSilentCredential
  <2> QED BY <2>1, <2>2, <2>3 DEF CredentialsAsDecided
<1> QED BY KeysInvariant, <1>1, PTL

-----------------------------------------------------------------------------
(* Rate limits.                                                            *)

\* The tokens of a bucket at a time, before they are capped.
Level(b, t) == b.tokens + (t - b.at) * RatePerTick

\* A table of buckets at a time: one per identity, in the order of last use.
IsBuckets(q, t) ==
  /\ q \in Seq(Buckets)
  /\ \A i \in 1..Len(q) : q[i].at <= t
  /\ \A i, j \in 1..Len(q) : i < j => q[i].id # q[j].id /\ q[i].at <= q[j].at

\* The table agrees with the buckets that are never forgotten: those it holds
\* are the same, and the others are full.
Agrees(q, all, t) ==
  /\ \A i \in 1..Len(q) : all[q[i].id] = q[i]
  /\ \A id \in Identities : ~Has(q, id) => Level(all[id], t) >= BucketSize

IsIdeal(all, t) ==
  /\ all \in [Identities -> Buckets]
  /\ \A id \in Identities : all[id].id = id /\ all[id].at <= t

Fits(q, all, t) ==
  IsBuckets(q, t) /\ Len(q) <= MaxIdentities /\ IsIdeal(all, t) /\ Agrees(q, all, t)

LimiterInv ==
  /\ lNow \in 0..LimiterTime
  /\ buckets \in [Tables -> Seq(Buckets)]
  /\ ideal \in [Tables -> [Identities -> Buckets]]
  /\ \A t \in Tables : Fits(buckets[t], ideal[t], lNow)

LEMMA BucketFields ==
  ASSUME NEW b \in Buckets
  PROVE  /\ b.id \in Identities /\ b.tokens \in Nat /\ b.tokens <= BucketSize /\ b.at \in Nat
         /\ b.at \in 0..LimiterTime
         /\ b = [id |-> b.id, tokens |-> b.tokens, at |-> b.at]
BY LimiterAssumption DEF Buckets

LEMMA BucketMade ==
  ASSUME NEW id \in Identities, NEW n \in Nat, n <= BucketSize, NEW t \in 0..LimiterTime
  PROVE  [id |-> id, tokens |-> n, at |-> t] \in Buckets
BY LimiterAssumption DEF Buckets

LEMMA MinOfTwo ==
  ASSUME NEW x \in Int, NEW y \in Int PROVE Min({x, y}) = IF x <= y THEN x ELSE y
<1> DEFINE m == IF x <= y THEN x ELSE y
<1>1. m \in {x, y} /\ \A z \in {x, y} : m <= z
  OBVIOUS
<1>2. Min({x, y}) \in {x, y} /\ \A z \in {x, y} : Min({x, y}) <= z
  BY <1>1 DEF Min
<1> QED BY <1>1, <1>2

\* Waiting longer never leaves less.
LEMMA Accrues ==
  ASSUME NEW a \in Nat, NEW b \in Nat, a <= b, NEW r \in Nat
  PROVE  a * r \in Nat /\ b * r \in Nat /\ a * r <= b * r
<1>1. PICK c \in Nat : b = a + c
  BY b - a \in Nat
<1>2. (a + c) * r = a * r + c * r /\ a * r \in Nat /\ c * r \in Nat
  OBVIOUS
<1> QED BY <1>1, <1>2

LEMMA LevelFacts ==
  ASSUME NEW b \in Buckets, NEW t \in Nat, NEW u \in Nat, b.at <= t, t <= u
  PROVE  Level(b, t) \in Nat /\ Level(b, t) <= Level(b, u)
<1>1. b.at \in Nat /\ b.tokens \in Nat
  BY BucketFields
<1>2. t - b.at \in Nat /\ u - b.at \in Nat /\ t - b.at <= u - b.at
  BY <1>1
<1>3. /\ (t - b.at) * RatePerTick \in Nat /\ (u - b.at) * RatePerTick \in Nat
      /\ (t - b.at) * RatePerTick <= (u - b.at) * RatePerTick
  BY <1>2, Accrues, LimiterAssumption
<1> QED BY <1>1, <1>3 DEF Level

\* A bucket that was idle for longer than the limit would be full.
LEMMA StaleIsFull ==
  ASSUME NEW b \in Buckets, NEW t \in Nat, b.at < t - IdleTtl
  PROVE  Level(b, t) >= BucketSize
<1>1. b.at \in Nat /\ b.tokens \in Nat
  BY BucketFields
<1>2. IdleTtl \in Nat /\ t - b.at \in Nat /\ IdleTtl <= t - b.at
  BY <1>1, LimiterAssumption
<1>3. (t - b.at) * RatePerTick \in Nat /\ IdleTtl * RatePerTick <= (t - b.at) * RatePerTick
      /\ IdleTtl * RatePerTick \in Nat
  BY <1>2, Accrues, LimiterAssumption
<1>4. IdleTtl * RatePerTick = RatePerTick * IdleTtl
  BY LimiterAssumption
<1> QED BY <1>1, <1>3, <1>4, LimiterAssumption DEF Level

LEMMA RefilledFacts ==
  ASSUME NEW b \in Buckets, lNow \in 0..LimiterTime, b.at <= lNow
  PROVE  /\ Refilled(b) \in Buckets /\ Refilled(b).id = b.id /\ Refilled(b).at = lNow
         /\ Refilled(b).tokens = IF BucketSize <= Level(b, lNow) THEN BucketSize
                                                                  ELSE Level(b, lNow)
<1> DEFINE n == Min({BucketSize, b.tokens + (lNow - b.at) * RatePerTick})
           l == Level(b, lNow)
<1>1. l \in Nat /\ BucketSize \in Nat
  BY LevelFacts, LimiterAssumption
<1>2. n = IF BucketSize <= l THEN BucketSize ELSE l
  BY <1>1, MinOfTwo DEF Level
<1>3. n \in Nat /\ n <= BucketSize
  BY <1>1, <1>2
<1>4. Refilled(b) = [id |-> b.id, tokens |-> n, at |-> lNow]
  <2>1. Refilled(b) = [b EXCEPT !.at = lNow, !.tokens = n]
    BY DEF Refilled, Buckets
  <2> HIDE DEF n
  <2> QED BY <2>1 DEF Buckets
<1> HIDE DEF n, l
<1>5. Refilled(b) \in Buckets
  BY <1>3, <1>4, BucketFields, BucketMade
<1> QED BY <1>2, <1>4, <1>5 DEF l

LEMMA SpentFacts ==
  ASSUME NEW b \in Buckets
  PROVE  Spent(b) \in Buckets /\ Spent(b).id = b.id /\ Spent(b).at = b.at
<1>1. CASE b.tokens >= 1
  <2>1. Spent(b) = [id |-> b.id, tokens |-> b.tokens - 1, at |-> b.at]
    BY <1>1, BucketFields DEF Spent
  <2>2. b.tokens - 1 \in Nat /\ b.tokens - 1 <= BucketSize
    BY <1>1, BucketFields, LimiterAssumption
  <2> QED BY <2>1, <2>2, BucketFields, BucketMade
<1>2. CASE ~(b.tokens >= 1)
  BY <1>2 DEF Spent
<1> QED BY <1>1, <1>2

LEMMA FullFacts ==
  ASSUME NEW id \in Identities, lNow \in 0..LimiterTime
  PROVE  /\ Full(id) \in Buckets /\ Full(id).id = id /\ Full(id).at = lNow
         /\ Level(Full(id), lNow) = BucketSize
<1>1. Full(id) \in Buckets
  BY BucketMade, LimiterAssumption DEF Full
<1>2. lNow \in Nat /\ (lNow - lNow) * RatePerTick = 0
  BY LimiterAssumption
<1> QED BY <1>1, <1>2, LimiterAssumption DEF Full, Level

\* A set of natural numbers has a least element.
LEMMA LeastExists ==
  ASSUME NEW T \in SUBSET Nat, T # {} PROVE \E x \in T : \A y \in T : x <= y
<1>1. PICK x \in T : \A y \in T : ~ (<<y, x>> \in OpToRel(<, Nat))
  BY NatLessThanWellFounded, WFMin
<1>2. ASSUME NEW y \in T PROVE x <= y
  <2>1. <<y, x>> \in Nat \X Nat /\ <<y, x>>[1] = y /\ <<y, x>>[2] = x
    OBVIOUS
  <2>2. ~(y < x)
    BY <2>1, <1>1 DEF OpToRel
  <2> QED BY <2>2
<1> QED BY <1>2

LEMMA MinFacts ==
  ASSUME NEW T \in SUBSET Nat, T # {} PROVE Min(T) \in T /\ \A y \in T : Min(T) <= y
<1>1. \E x \in T : \A y \in T : x <= y
  BY LeastExists
<1> QED BY <1>1 DEF Min

\* The loop drops only buckets that would be full.
LEMMA UnstaleFits ==
  ASSUME lNow \in 0..LimiterTime, NEW q, NEW all, Fits(q, all, lNow)
  PROVE  Fits(Unstale(q), all, lNow)
<1> DEFINE fresh == {i \in 1..Len(q) : q[i].at >= lNow - IdleTtl}
           u == Unstale(q)
<1>1. /\ q \in Seq(Buckets) /\ Len(q) \in Nat /\ Len(q) <= MaxIdentities /\ IsIdeal(all, lNow)
      /\ \A i \in 1..Len(q) : q[i] \in Buckets /\ q[i].at <= lNow /\ all[q[i].id] = q[i]
      /\ \A i, j \in 1..Len(q) : i < j => q[i].id # q[j].id /\ q[i].at <= q[j].at
      /\ \A id \in Identities : ~Has(q, id) => Level(all[id], lNow) >= BucketSize
  BY DEF Fits, IsBuckets, Agrees
<1>2. lNow \in Nat /\ IdleTtl \in Nat /\ MaxIdentities \in Nat
  BY LimiterAssumption
<1>3. \A i \in 1..Len(q) : i \notin fresh => Level(all[q[i].id], lNow) >= BucketSize
  <2> SUFFICES ASSUME NEW i \in 1..Len(q), i \notin fresh PROVE Level(q[i], lNow) >= BucketSize
    BY <1>1
  <2>1. q[i].at < lNow - IdleTtl
    BY <1>1, <1>2, BucketFields
  <2> QED BY <2>1, <1>1, <1>2, StaleIsFull
<1>4. CASE fresh = {}
  <2>1. u = << >>
    BY <1>4 DEF Unstale
  <2>2. u \in Seq(Buckets) /\ Len(u) = 0
    BY <2>1
  <2>3. \A id \in Identities : Level(all[id], lNow) >= BucketSize
    BY <1>1, <1>3, <1>4 DEF Has
  <2> HIDE DEF u
  <2> QED BY <1>1, <1>2, <2>2, <2>3 DEF Fits, IsBuckets, Agrees, u
<1>5. CASE fresh # {}
  <2> DEFINE m == Min(fresh)
  <2>1. m \in fresh /\ \A y \in fresh : m <= y
    <3>1. fresh \in SUBSET Nat
      BY <1>1
    <3> HIDE DEF fresh
    <3> QED BY <3>1, <1>5, MinFacts
  <2>2. u = SubSeq(q, m, Len(q))
    BY <1>5 DEF Unstale
  <2> HIDE DEF m
  <2>3. m \in 1..Len(q) /\ \A i \in 1..Len(q) : i < m => i \notin fresh
    <3>1. m \in 1..Len(q)
      BY <2>1
    <3>2. ASSUME NEW i \in 1..Len(q), i < m, i \in fresh PROVE FALSE
      <4>1. m <= i
        BY <2>1, <3>2
      <4> QED BY <3>1, <3>2, <4>1
    <3> QED BY <3>1, <3>2
  <2> HIDE DEF fresh, u
  <2>4. /\ u \in Seq(Buckets) /\ Len(u) = Len(q) - m + 1
        /\ \A i \in 1..Len(u) : u[i] = q[i + m - 1] /\ i + m - 1 \in 1..Len(q)
    BY <1>1, <2>2, <2>3
  <2>5. IsBuckets(u, lNow) /\ Len(u) <= MaxIdentities
    <3>1. Len(u) <= MaxIdentities
      BY <1>1, <1>2, <2>3, <2>4
    <3>2. ASSUME NEW i \in 1..Len(u), NEW j \in 1..Len(u), i < j
          PROVE  u[i].id # u[j].id /\ u[i].at <= u[j].at
      <4>1. /\ i + m - 1 \in 1..Len(q) /\ j + m - 1 \in 1..Len(q) /\ i + m - 1 < j + m - 1
            /\ u[i] = q[i + m - 1] /\ u[j] = q[j + m - 1]
        BY <2>3, <2>4, <3>2
      <4> QED BY <1>1, <4>1
    <3>3. \A i \in 1..Len(u) : u[i].at <= lNow
      BY <1>1, <2>4
    <3> QED BY <2>4, <3>1, <3>2, <3>3 DEF IsBuckets
  <2>6. \A i \in 1..Len(u) : all[u[i].id] = u[i]
    BY <1>1, <2>4
  <2>7. ASSUME NEW id \in Identities, ~Has(u, id) PROVE Level(all[id], lNow) >= BucketSize
    <3>1. CASE ~Has(q, id)
      BY <1>1, <3>1
    <3>2. CASE Has(q, id)
      <4>1. PICK i \in 1..Len(q) : q[i].id = id
        BY <3>2 DEF Has
      <4>2. i < m
        <5>1. SUFFICES ASSUME i >= m PROVE FALSE
          BY <2>3
        <5>2. i - m + 1 \in 1..Len(u) /\ (i - m + 1) + m - 1 = i
          BY <5>1, <2>3, <2>4, <1>1
        <5>3. u[i - m + 1] = q[i]
          BY <5>2, <2>4
        <5> QED BY <5>2, <5>3, <4>1, <2>7 DEF Has
      <4> QED BY <4>1, <4>2, <2>3, <1>3
    <3> QED BY <3>1, <3>2
  <2> QED BY <1>1, <2>5, <2>6, <2>7 DEF Fits, Agrees, u
<1> QED BY <1>4, <1>5

\* A table without its element m.
Drops(r, q, m) ==
  /\ Len(r) = Len(q) - 1
  /\ \A k \in 1..Len(r) : r[k] = IF k < m THEN q[k] ELSE q[k + 1]

LEMMA DropsFacts ==
  ASSUME NEW t \in Nat, NEW q, IsBuckets(q, t), NEW m \in 1..Len(q),
         NEW r \in Seq(Buckets), Drops(r, q, m)
  PROVE  /\ IsBuckets(r, t)
         /\ \A k \in 1..Len(r) : \E i \in 1..Len(q) : i # m /\ r[k] = q[i]
         /\ \A id : Has(r, id) <=> Has(q, id) /\ id # q[m].id
<1>1. /\ q \in Seq(Buckets) /\ Len(q) \in Nat /\ Len(r) = Len(q) - 1
      /\ \A i \in 1..Len(q) : q[i].at <= t
      /\ \A i, j \in 1..Len(q) : i < j => q[i].id # q[j].id /\ q[i].at <= q[j].at
      /\ \A k \in 1..Len(r) : /\ k < m => k \in 1..Len(q) /\ r[k] = q[k]
                              /\ k >= m => k + 1 \in 1..Len(q) /\ r[k] = q[k + 1]
  BY DEF IsBuckets, Drops
<1>2. \A k \in 1..Len(r) : \E i \in 1..Len(q) : i # m /\ r[k] = q[i]
  <2> TAKE k \in 1..Len(r)
  <2>1. CASE k < m
    BY <1>1, <2>1
  <2>2. CASE k >= m
    BY <1>1, <2>2
  <2> QED BY <2>1, <2>2, <1>1
<1>3. ASSUME NEW i \in 1..Len(r), NEW j \in 1..Len(r), i < j
      PROVE  r[i].id # r[j].id /\ r[i].at <= r[j].at
  <2>1. CASE j < m
    BY <1>1, <1>3, <2>1
  <2>2. CASE i < m /\ j >= m
    <3>1. /\ i \in 1..Len(q) /\ j + 1 \in 1..Len(q) /\ i < j + 1
          /\ r[i] = q[i] /\ r[j] = q[j + 1]
      BY <1>1, <1>3, <2>2
    <3> QED BY <1>1, <3>1
  <2>3. CASE i >= m
    <3>1. /\ i + 1 \in 1..Len(q) /\ j + 1 \in 1..Len(q) /\ i + 1 < j + 1
          /\ r[i] = q[i + 1] /\ r[j] = q[j + 1]
      BY <1>1, <1>3, <2>3
    <3> QED BY <1>1, <3>1
  <2> QED BY <1>1, <1>3, <2>1, <2>2, <2>3
<1>4. IsBuckets(r, t)
  BY <1>1, <1>2, <1>3 DEF IsBuckets
<1>5. ASSUME NEW id, Has(r, id) PROVE Has(q, id) /\ id # q[m].id
  <2>1. PICK k \in 1..Len(r) : r[k].id = id
    BY <1>5 DEF Has
  <2>2. PICK i \in 1..Len(q) : i # m /\ r[k] = q[i]
    BY <1>2
  <2>3. q[i].id # q[m].id
    BY <1>1, <2>2
  <2> QED BY <2>1, <2>2, <2>3 DEF Has
<1>6. ASSUME NEW id, Has(q, id), id # q[m].id PROVE Has(r, id)
  <2>1. PICK i \in 1..Len(q) : q[i].id = id
    BY <1>6 DEF Has
  <2>2. CASE i < m
    <3>1. i \in 1..Len(r) /\ r[i] = q[i]
      BY <1>1, <2>2
    <3> QED BY <3>1, <2>1 DEF Has
  <2>3. CASE i > m
    <3>1. i - 1 \in 1..Len(r) /\ i - 1 >= m /\ (i - 1) + 1 = i
      BY <1>1, <2>3
    <3>2. r[i - 1] = q[i]
      BY <1>1, <3>1
    <3> QED BY <3>1, <3>2, <2>1 DEF Has
  <2> QED BY <1>1, <1>6, <2>1, <2>2, <2>3
<1> QED BY <1>2, <1>4, <1>5, <1>6

LEMMA TailDrops ==
  ASSUME NEW q \in Seq(Buckets), q # << >>
  PROVE  Tail(q) \in Seq(Buckets) /\ Drops(Tail(q), q, 1) /\ 1 \in 1..Len(q)
BY DEF Drops

LEMMA RemoveAtDrops ==
  ASSUME NEW q \in Seq(Buckets), NEW m \in 1..Len(q)
  PROVE  RemoveAt(q, m) \in Seq(Buckets) /\ Drops(RemoveAt(q, m), q, m)
<1> DEFINE a == SubSeq(q, 1, m - 1)  b == SubSeq(q, m + 1, Len(q))
<1>1. /\ a \in Seq(Buckets) /\ Len(a) = m - 1 /\ \A k \in 1..(m - 1) : a[k] = q[k]
  OBVIOUS
<1>2. /\ b \in Seq(Buckets) /\ Len(b) = Len(q) - m /\ \A k \in 1..(Len(q) - m) : b[k] = q[m + k]
  OBVIOUS
<1>3. RemoveAt(q, m) = a \o b
  BY DEF RemoveAt
<1> HIDE DEF a, b
<1>4. /\ a \o b \in Seq(Buckets) /\ Len(a \o b) = Len(a) + Len(b)
      /\ \A k \in 1 .. Len(a) + Len(b) :
           (a \o b)[k] = IF k <= Len(a) THEN a[k] ELSE b[k - Len(a)]
  BY ONLY <1>1, <1>2, ConcatProperties
<1>5. ASSUME NEW k \in 1..(Len(q) - 1)
      PROVE  (a \o b)[k] = IF k < m THEN q[k] ELSE q[k + 1]
  <2>1. CASE k < m
    BY <1>1, <1>4, <2>1
  <2>2. CASE k >= m
    <3>1. k > Len(a) /\ k - Len(a) \in 1..(Len(q) - m) /\ m + (k - Len(a)) = k + 1
      BY <1>1, <1>2, <2>2
    <3>2. (a \o b)[k] = b[k - Len(a)]
      BY <1>1, <1>2, <1>4, <3>1
    <3>3. b[k - Len(a)] = q[m + (k - Len(a))]
      BY <1>2, <3>1
    <3>4. (a \o b)[k] = q[k + 1] /\ ~(k < m)
      BY <3>1, <3>2, <3>3, <2>2
    <3> QED BY <3>4
  <2>3. k < m \/ k >= m
    OBVIOUS
  <2> QED BY <2>1, <2>2, <2>3
<1>6. Len(a \o b) = Len(q) - 1
  BY <1>1, <1>2, <1>4
<1> QED BY <1>3, <1>4, <1>5, <1>6 DEF Drops

\* A bucket that was just used goes to the end of the table.
LEMMA PutFits ==
  ASSUME NEW t \in 0..LimiterTime, NEW r, IsBuckets(r, t), Len(r) < MaxIdentities,
         NEW b \in Buckets, b.at = t, ~Has(r, b.id),
         NEW all, IsIdeal(all, t), all[b.id] = b,
         \A i \in 1..Len(r) : all[r[i].id] = r[i],
         \A id \in Identities : ~Has(r, id) /\ id # b.id => Level(all[id], t) >= BucketSize
  PROVE  Fits(Append(r, b), all, t)
<1> DEFINE p == Append(r, b)
<1>1. /\ r \in Seq(Buckets) /\ Len(r) \in Nat
      /\ \A i \in 1..Len(r) : r[i] \in Buckets /\ r[i].at <= t /\ r[i].id # b.id
      /\ \A i, j \in 1..Len(r) : i < j => r[i].id # r[j].id /\ r[i].at <= r[j].at
  BY DEF IsBuckets, Has
<1>2. /\ p \in Seq(Buckets) /\ Len(p) = Len(r) + 1 /\ p[Len(r) + 1] = b
      /\ \A i \in 1..Len(r) : p[i] = r[i]
  BY <1>1
<1> HIDE DEF p
<1>3. \A i \in 1..Len(p) : i \in 1..Len(r) \/ i = Len(r) + 1
  BY <1>1, <1>2
<1>4. \A i \in 1..Len(p) : p[i].at <= t /\ all[p[i].id] = p[i]
  BY <1>1, <1>2, <1>3
<1>5. ASSUME NEW i \in 1..Len(p), NEW j \in 1..Len(p), i < j
      PROVE  p[i].id # p[j].id /\ p[i].at <= p[j].at
  <2>1. i \in 1..Len(r)
    BY <1>1, <1>2, <1>5
  <2>2. CASE j \in 1..Len(r)
    BY <1>1, <1>2, <1>5, <2>1, <2>2
  <2>3. CASE j = Len(r) + 1
    BY <1>1, <1>2, <2>1, <2>3
  <2> QED BY <1>3, <2>2, <2>3
<1>6. ASSUME NEW id \in Identities, ~Has(p, id) PROVE Level(all[id], t) >= BucketSize
  <2>1. Len(r) + 1 \in 1..Len(p) /\ \A i \in 1..Len(r) : i \in 1..Len(p)
    BY <1>1, <1>2
  <2>2. ~Has(r, id) /\ id # b.id
    BY <1>2, <1>6, <2>1 DEF Has
  <2> QED BY <2>2
<1>7. Len(p) <= MaxIdentities
  BY <1>1, <1>2, LimiterAssumption
<1> QED BY <1>2, <1>4, <1>5, <1>6, <1>7 DEF Fits, IsBuckets, Agrees, p

\* What authenticate() leaves of the buckets that are never forgotten.
Remembered(q, all, id) ==
  [i \in Identities |-> CASE i = id -> Spent(Refilled(all[i]))
                          [] i # id /\ Evicts(q, id) /\ i = Head(q).id -> Full(i)
                          [] OTHER -> all[i]]

LEMMA TouchedFits ==
  ASSUME lNow \in 0..LimiterTime, NEW q, NEW all, Fits(q, all, lNow), NEW id \in Identities
  PROVE  Fits(Touched(q, id), Remembered(q, all, id), lNow)
<1> DEFINE new == Remembered(q, all, id)  b == Spent(Refilled(all[id]))
<1>1. /\ IsBuckets(q, lNow) /\ Len(q) <= MaxIdentities /\ q \in Seq(Buckets) /\ Len(q) \in Nat
      /\ lNow \in Nat /\ MaxIdentities \in Nat \ {0}
  BY LimiterAssumption DEF Fits, IsBuckets
<1>2. /\ all \in [Identities -> Buckets]
      /\ \A x \in Identities : all[x] \in Buckets /\ all[x].id = x /\ all[x].at <= lNow
      /\ \A i \in 1..Len(q) : all[q[i].id] = q[i]
      /\ \A x \in Identities : ~Has(q, x) => Level(all[x], lNow) >= BucketSize
  BY DEF Fits, IsIdeal, Agrees
<1>3. /\ Refilled(all[id]) \in Buckets /\ Refilled(all[id]).id = id /\ Refilled(all[id]).at = lNow
  BY <1>2, RefilledFacts
<1>4. b \in Buckets /\ b.id = id /\ b.at = lNow
  BY <1>3, SpentFacts
<1>5. /\ new[id] = b
      /\ \A x \in Identities : x # id /\ ~(Evicts(q, id) /\ x = Head(q).id) => new[x] = all[x]
      /\ \A x \in Identities : x # id /\ Evicts(q, id) /\ x = Head(q).id => new[x] = Full(x)
      /\ DOMAIN new = Identities
  BY DEF Remembered
<1>6. new \in [Identities -> Buckets] /\ new = [x \in Identities |-> new[x]]
  BY <1>2, <1>4, FullFacts DEF Remembered
<1> HIDE DEF new, b
<1>7. IsIdeal(new, lNow)
  <2> SUFFICES ASSUME NEW x \in Identities PROVE new[x].id = x /\ new[x].at <= lNow
    BY <1>6 DEF IsIdeal
  <2>1. CASE x = id
    BY <2>1, <1>1, <1>4, <1>5
  <2>2. CASE x # id /\ Evicts(q, id) /\ x = Head(q).id
    BY <2>2, <1>1, <1>5, FullFacts
  <2>3. CASE x # id /\ ~(Evicts(q, id) /\ x = Head(q).id)
    BY <2>3, <1>2, <1>5
  <2> QED BY <2>1, <2>2, <2>3
<1>8. CASE Has(q, id)
  <2> DEFINE m == Place(q, id)  r == RemoveAt(q, m)
  <2>1. m \in 1..Len(q) /\ q[m].id = id
    BY <1>8 DEF Has, Place
  <2>2. q[m] = all[id]
    BY <2>1, <1>2
  <2>3. Touched(q, id) = Append(r, b)
    BY <1>8, <2>2 DEF Touched, Entry, b
  <2> HIDE DEF m
  <2>4. r \in Seq(Buckets) /\ Drops(r, q, m)
    BY <1>1, <2>1, RemoveAtDrops
  <2> HIDE DEF r
  <2>5. /\ IsBuckets(r, lNow)
        /\ \A k \in 1..Len(r) : \E i \in 1..Len(q) : i # m /\ r[k] = q[i]
        /\ \A x : Has(r, x) <=> Has(q, x) /\ x # id
    BY <1>1, <2>1, <2>4, DropsFacts
  <2>6. Len(r) < MaxIdentities
    BY <1>1, <2>4 DEF Drops
  <2>7. ~Evicts(q, id)
    BY <1>8 DEF Evicts
  <2>8. ASSUME NEW k \in 1..Len(r) PROVE new[r[k].id] = r[k]
    <3>1. PICK i \in 1..Len(q) : r[k] = q[i]
      BY <2>5
    <3>2. r[k].id # id
      BY <2>5 DEF Has
    <3>3. r[k].id \in Identities
      BY <2>4, BucketFields
    <3> QED BY <3>1, <3>2, <3>3, <2>7, <1>2, <1>5
  <2>9. \A x \in Identities : ~Has(r, x) /\ x # id => Level(new[x], lNow) >= BucketSize
    BY <2>5, <2>7, <1>2, <1>5
  <2>10. Fits(Append(r, b), new, lNow)
    BY <1>4, <1>5, <1>7, <2>5, <2>6, <2>8, <2>9, PutFits
  <2> QED BY <2>3, <2>10 DEF new
<1>9. CASE ~Has(q, id)
  <2>1. Level(all[id], lNow) >= BucketSize /\ Level(all[id], lNow) \in Nat
    BY <1>1, <1>2, <1>9, LevelFacts
  <2>2. Refilled(all[id]).tokens = BucketSize
    BY <2>1, <1>2, RefilledFacts, LimiterAssumption
  <2>3. Refilled(all[id]) = Full(id)
    <3>1. Refilled(all[id]) = [id |-> id, tokens |-> BucketSize, at |-> lNow]
      BY <1>3, <2>2, BucketFields
    <3> QED BY <3>1 DEF Full
  <2>4. b = Spent(Full(id))
    BY <2>3 DEF b
  <2>5. CASE Evicts(q, id)
    <3> DEFINE r == Tail(q)
    <3>1. q # << >> /\ Head(q) = q[1]
      BY <1>1, <2>5 DEF Evicts
    <3>2. Touched(q, id) = Append(r, b)
      BY <1>9, <2>4, <2>5 DEF Touched
    <3>3. r \in Seq(Buckets) /\ Drops(r, q, 1) /\ 1 \in 1..Len(q)
      BY <1>1, <3>1, TailDrops
    <3> HIDE DEF r
    <3>4. /\ IsBuckets(r, lNow)
          /\ \A k \in 1..Len(r) : \E i \in 1..Len(q) : i # 1 /\ r[k] = q[i]
          /\ \A x : Has(r, x) <=> Has(q, x) /\ x # q[1].id
      BY <1>1, <3>3, DropsFacts
    <3>5. Len(r) < MaxIdentities
      BY <1>1, <3>3 DEF Drops
    <3>6. ASSUME NEW k \in 1..Len(r) PROVE new[r[k].id] = r[k]
      <4>1. PICK i \in 1..Len(q) : r[k] = q[i]
        BY <3>4
      <4>2. Has(r, r[k].id)
        BY DEF Has
      <4>3. r[k].id # id /\ r[k].id # Head(q).id
        BY <4>2, <3>1, <3>4, <1>9
      <4>4. r[k].id \in Identities
        BY <3>3, BucketFields
      <4> QED BY <4>1, <4>3, <4>4, <1>2, <1>5
    <3>7. ASSUME NEW x \in Identities, ~Has(r, x), x # id PROVE Level(new[x], lNow) >= BucketSize
      <4>1. CASE x = Head(q).id
        BY <4>1, <3>7, <2>5, <1>5, FullFacts, LimiterAssumption
      <4>2. CASE x # Head(q).id
        BY <4>2, <3>1, <3>4, <3>7, <1>2, <1>5
      <4> QED BY <4>1, <4>2
    <3>8. ~Has(r, id)
      BY <3>4, <1>9
    <3>9. Fits(Append(r, b), new, lNow)
      BY <1>4, <1>5, <1>7, <3>4, <3>5, <3>6, <3>7, <3>8, PutFits
    <3> QED BY <3>2, <3>9 DEF new
  <2>6. CASE ~Evicts(q, id)
    <3>1. Touched(q, id) = Append(q, b)
      BY <1>9, <2>4, <2>6 DEF Touched
    <3>2. Len(q) < MaxIdentities
      BY <1>1, <1>9, <2>6 DEF Evicts
    <3>3. ASSUME NEW k \in 1..Len(q) PROVE new[q[k].id] = q[k]
      <4>1. q[k].id # id
        BY <1>9 DEF Has
      <4>2. q[k].id \in Identities
        BY <1>1, BucketFields
      <4> QED BY <4>1, <4>2, <2>6, <1>2, <1>5
    <3>4. \A x \in Identities : ~Has(q, x) /\ x # id => Level(new[x], lNow) >= BucketSize
      BY <2>6, <1>2, <1>5
    <3>5. Fits(Append(q, b), new, lNow)
      BY <1>1, <1>4, <1>5, <1>7, <1>9, <3>2, <3>3, <3>4, PutFits
    <3> QED BY <3>1, <3>5 DEF new
  <2> QED BY <2>5, <2>6
<1> QED BY <1>8, <1>9

LEMMA AuthenticateStep ==
  ASSUME LimiterInv, NEW t \in Tables, NEW id \in Identities, Authenticate(t, id)
  PROVE  LimiterInv'
<1> DEFINE q == Unstale(buckets[t])  all == ideal[t]
<1>1. /\ buckets' = [buckets EXCEPT ![t] = Touched(q, id)]
      /\ ideal' = [ideal EXCEPT ![t] = Remembered(q, all, id)]
      /\ lNow' = lNow
  BY DEF Authenticate, Remembered
<1>2. Fits(q, all, lNow)
  BY UnstaleFits DEF LimiterInv
<1> HIDE DEF q, all
<1>3. Fits(Touched(q, id), Remembered(q, all, id), lNow)
  BY <1>2, TouchedFits DEF LimiterInv
<1>4. Touched(q, id) \in Seq(Buckets) /\ Remembered(q, all, id) \in [Identities -> Buckets]
  BY <1>3 DEF Fits, IsBuckets, IsIdeal
<1>5. /\ lNow \in 0..LimiterTime /\ buckets \in [Tables -> Seq(Buckets)]
      /\ ideal \in [Tables -> [Identities -> Buckets]]
      /\ \A u \in Tables : Fits(buckets[u], ideal[u], lNow)
  BY DEF LimiterInv
<1>6. buckets' \in [Tables -> Seq(Buckets)] /\ ideal' \in [Tables -> [Identities -> Buckets]]
  BY <1>1, <1>4, <1>5
<1>7. ASSUME NEW u \in Tables PROVE Fits(buckets'[u], ideal'[u], lNow')
  <2>1. CASE u = t
    <3>1. buckets'[u] = Touched(q, id) /\ ideal'[u] = Remembered(q, all, id)
      BY <1>1, <1>5, <2>1
    <3> QED BY <3>1, <1>1, <1>3
  <2>2. CASE u # t
    <3>1. buckets'[u] = buckets[u] /\ ideal'[u] = ideal[u]
      BY <1>1, <1>5, <2>2
    <3> QED BY <3>1, <1>1, <1>5
  <2> QED BY <2>1, <2>2
<1> QED BY <1>1, <1>5, <1>6, <1>7 DEF LimiterInv

LEMMA LimiterTickStep ==
  ASSUME LimiterInv, LimiterTick PROVE LimiterInv'
<1>1. /\ lNow \in Nat /\ lNow' = lNow + 1 /\ lNow' \in 0..LimiterTime
      /\ buckets' = buckets /\ ideal' = ideal
  BY LimiterAssumption DEF LimiterInv, LimiterTick
<1>2. ASSUME NEW u \in Tables PROVE Fits(buckets[u], ideal[u], lNow')
  <2> DEFINE q == buckets[u]  all == ideal[u]
  <2>1. Fits(q, all, lNow)
    BY DEF LimiterInv
  <2> HIDE DEF q, all
  <2>2. /\ q \in Seq(Buckets) /\ all \in [Identities -> Buckets]
        /\ \A i \in 1..Len(q) : q[i] \in Buckets /\ q[i].at <= lNow /\ q[i].at \in Nat
        /\ \A x \in Identities : all[x] \in Buckets /\ all[x].at <= lNow /\ all[x].at \in Nat
    BY <2>1, BucketFields DEF Fits, IsBuckets, IsIdeal
  <2>3. IsBuckets(q, lNow')
    <3>1. \A i \in 1..Len(q) : q[i].at <= lNow'
      <4> SUFFICES ASSUME NEW i \in 1..Len(q) PROVE q[i].at <= lNow'
        OBVIOUS
      <4>1. q[i].at <= lNow /\ q[i].at \in Nat
        BY <2>2
      <4> QED BY <1>1, <4>1
    <3>2. \A i, j \in 1..Len(q) : i < j => q[i].id # q[j].id /\ q[i].at <= q[j].at
      BY <2>1 DEF Fits, IsBuckets
    <3> QED BY <2>2, <3>1, <3>2 DEF IsBuckets
  <2>4. IsIdeal(all, lNow')
    BY <1>1, <2>1, <2>2 DEF Fits, IsIdeal
  <2>5. ASSUME NEW x \in Identities, ~Has(q, x) PROVE Level(all[x], lNow') >= BucketSize
    <3>1. Level(all[x], lNow) >= BucketSize
      BY <2>1, <2>5 DEF Fits, Agrees
    <3>2. lNow' \in Nat /\ lNow <= lNow'
      BY <1>1
    <3>3. all[x] \in Buckets /\ all[x].at <= lNow /\ all[x].at <= lNow'
      BY <1>1, <2>2
    <3>4. Level(all[x], lNow) \in Nat /\ Level(all[x], lNow) <= Level(all[x], lNow')
      BY <1>1, <3>2, <3>3, LevelFacts
    <3>5. Level(all[x], lNow') \in Nat
      BY <3>2, <3>3, LevelFacts
    <3> QED BY <3>1, <3>4, <3>5, LimiterAssumption
  <2> QED BY <2>1, <2>3, <2>4, <2>5 DEF Fits, Agrees, q, all
<1> QED BY <1>1, <1>2 DEF LimiterInv

\* LimiterInv is inductive.
THEOREM LimiterInvariant == LimiterSpec => []LimiterInv
<1>1. LimiterInit => LimiterInv
  <2> SUFFICES ASSUME LimiterInit PROVE LimiterInv
    OBVIOUS
  <2>1. lNow = 0 /\ lNow \in 0..LimiterTime /\ \A id \in Identities : Full(id) \in Buckets
    BY FullFacts, LimiterAssumption DEF LimiterInit
  <2>2. ASSUME NEW t \in Tables PROVE Fits(buckets[t], ideal[t], lNow)
    <3> DEFINE q == buckets[t]  all == ideal[t]
    <3>1. q = << >> /\ all = [id \in Identities |-> Full(id)]
      BY DEF LimiterInit
    <3>2. q \in Seq(Buckets) /\ Len(q) = 0
      BY <3>1
    <3> HIDE DEF q, all
    <3>3. \A id \in Identities : all[id] = Full(id)
      BY <3>1
    <3>4. IsIdeal(all, lNow)
      BY <2>1, <3>1, <3>3, FullFacts DEF IsIdeal
    <3>5. \A id \in Identities : Level(all[id], lNow) >= BucketSize
      BY <2>1, <3>3, FullFacts, LimiterAssumption
    <3> QED BY <3>2, <3>4, <3>5, LimiterAssumption DEF Fits, IsBuckets, Agrees, q, all
  <2>3. /\ buckets \in [Tables -> Seq(Buckets)]
        /\ ideal \in [Tables -> [Identities -> Buckets]]
    BY <2>1 DEF LimiterInit
  <2> QED BY <2>1, <2>2, <2>3 DEF LimiterInv
<1>2. LimiterInv /\ [LimiterNext]_limiterVars => LimiterInv'
  <2>1. ASSUME LimiterInv, UNCHANGED limiterVars PROVE LimiterInv'
    BY <2>1 DEF LimiterInv, limiterVars
  <2> QED BY <2>1, AuthenticateStep, LimiterTickStep DEF LimiterNext
<1> QED BY <1>1, <1>2, PTL DEF LimiterSpec

\* Both tables of TokenBucketLimiter stay within _max_identities, hold one
\* bucket per identity, and are in the order of last use that consume()'s
\* pruning loop relies on to stop at the first bucket that is not stale.
THEOREM LimiterTypeCorrect == LimiterSpec => []LimiterTypeOK
<1>1. LimiterInv => LimiterTypeOK
  BY DEF LimiterInv, Fits, IsBuckets, LimiterTypeOK
<1> QED BY LimiterInvariant, <1>1, PTL

\* Every identity is limited as by a bucket of its own that is never
\* forgotten, for any number of identities, unless it was evicted from a
\* full table (TokenBucketLimiter.consume, auth.py).
THEOREM LimitsArePerIdentity == LimiterSpec => []LimitIsPerIdentity
<1>1. ASSUME LimiterInv PROVE LimitIsPerIdentity
  <2> SUFFICES ASSUME NEW t \in Tables, NEW id \in Identities
               PROVE  Refilled(ideal[t][id]).tokens =
                        IF Has(buckets[t], id) THEN Refilled(Entry(buckets[t], id)).tokens
                                               ELSE BucketSize
    BY DEF LimitIsPerIdentity
  <2> DEFINE q == buckets[t]  all == ideal[t]
  <2>1. Fits(q, all, lNow) /\ lNow \in 0..LimiterTime /\ lNow \in Nat
    BY <1>1, LimiterAssumption DEF LimiterInv
  <2> HIDE DEF q, all
  <2>2. all[id] \in Buckets /\ all[id].at <= lNow
    BY <2>1 DEF Fits, IsIdeal
  <2>3. CASE Has(q, id)
    <3>1. Place(q, id) \in 1..Len(q) /\ q[Place(q, id)].id = id
      BY <2>3 DEF Has, Place
    <3>2. Entry(q, id) = all[id]
      BY <2>1, <3>1 DEF Fits, Agrees, Entry
    <3> QED BY <2>3, <3>2 DEF q, all
  <2>4. CASE ~Has(q, id)
    <3>1. Level(all[id], lNow) >= BucketSize /\ Level(all[id], lNow) \in Nat
      BY <2>1, <2>2, <2>4, LevelFacts DEF Fits, Agrees
    <3>2. Refilled(all[id]).tokens = BucketSize
      BY <2>1, <2>2, <3>1, RefilledFacts, LimiterAssumption
    <3> QED BY <2>4, <3>2 DEF q, all
  <2> QED BY <2>3, <2>4
<1> QED BY LimiterInvariant, <1>1, PTL

-----------------------------------------------------------------------------
(***************************************************************************)
(* The log broker.                                                         *)
(***************************************************************************)
Streams == 1..Len(queue)
Calls == [to : Streams, id : Nat]

(* The backlog is the end of the events that were numbered. *)
EventsInv ==
  /\ events \in Seq(Nat) /\ Len(events) <= Backlog /\ Len(events) < nextEvent
  /\ nextEvent > 1 => events # << >>
  /\ \A i \in 1..Len(events) : events[i] = nextEvent - 1 - Len(events) + i

BrokerTypes ==
  /\ nextEvent \in Nat \ {0}
  /\ queue \in Seq(Seq(Nat)) /\ callbacks \in Seq(Calls)
  /\ subscribers \subseteq Streams /\ cut \subseteq Streams
  /\ stream \in [Viewers -> 0..Len(queue)]
  /\ lastSeen \in [Viewers -> Nat]
  /\ emitting = Idle \/ (emitting \in [id : {nextEvent - 1}, to : SUBSET Streams] /\ nextEvent > 1)

(* Nothing under way is newer than the newest event, and no two viewers    *)
(* share a stream.                                                         *)
BoundsInv ==
  /\ \A i \in 1..Len(callbacks) : callbacks[i].id < nextEvent /\ (emitting # Idle => callbacks[i].id < emitting.id)
  /\ \A s \in Streams : \A i \in 1..Len(queue[s]) : queue[s][i] < nextEvent
  /\ \A v \in Viewers : lastSeen[v] < nextEvent
  /\ \A v, w \in Viewers : stream[v] = stream[w] /\ stream[v] # 0 => v = w

OrderInv == \A s \in Streams : ComingInOrder(s)

(* What is on its way to the stream of a viewer is new to the viewer, ends *)
(* with the newest event and, unless a bound was hit, has all of them.     *)
Whole(v) ==
  stream[v] \in subscribers =>
    /\ \A e \in Coming(stream[v]) : e > lastSeen[v]
    /\ nextEvent - 1 \in Coming(stream[v]) \/ nextEvent - 1 = lastSeen[v]
    /\ stream[v] \notin cut => (lastSeen[v] + 1)..(nextEvent - 1) \subseteq Coming(stream[v])

BrokerInv == BrokerTypes /\ EventsInv /\ BoundsInv /\ OrderInv /\ \A v \in Viewers : Whole(v)

-----------------------------------------------------------------------------
LEMMA LastOfFacts ==
  ASSUME NEW S, NEW q \in Seq(S), NEW n \in Nat
  PROVE  /\ LastOf(q, n) \in Seq(S) /\ Len(LastOf(q, n)) = (IF Len(q) <= n THEN Len(q) ELSE n)
         /\ \A i \in 1..Len(LastOf(q, n)) : LastOf(q, n)[i] = q[Len(q) - Len(LastOf(q, n)) + i]
<1>1. Len(q) \in Nat /\ \A i \in 1..Len(q) : q[i] \in S
  OBVIOUS
<1>2. CASE Len(q) <= n
  BY <1>1, <1>2 DEF LastOf
<1>3. CASE ~(Len(q) <= n)
  <2> DEFINE m == Len(q) - n + 1
  <2>1. m \in Int /\ Len(q) \in Int /\ Len(q) - m + 1 = n /\ \A i \in m..Len(q) : q[i] \in S
    BY <1>1, <1>3
  <2>2. LastOf(q, n) = SubSeq(q, m, Len(q))
    BY <1>3 DEF LastOf
  <2> HIDE DEF m
  <2>3. /\ SubSeq(q, m, Len(q)) \in Seq(S) /\ Len(SubSeq(q, m, Len(q))) = (IF m <= Len(q) THEN n ELSE 0)
        /\ \A i \in 1..n : SubSeq(q, m, Len(q))[i] = q[m + i - 1]
    BY <2>1, SubSeqProperties
  <2>4. (m <= Len(q) <=> n > 0) /\ \A i \in 1..n : m + i - 1 = Len(q) - n + i
    BY <1>1, <1>3 DEF m
  <2>5. Len(SubSeq(q, m, Len(q))) = n
    BY <1>1, <1>3, <2>3, <2>4
  <2>6. \A i \in 1..n : SubSeq(q, m, Len(q))[i] = q[Len(q) - n + i]
    BY <2>3, <2>4
  <2> QED BY <1>3, <2>2, <2>3, <2>5, <2>6
<1> QED BY <1>2, <1>3

LEMMA FunctionIsSequence ==
  ASSUME NEW S, NEW n \in Nat, NEW f \in [1..n -> S] PROVE f \in Seq(S) /\ Len(f) = n
OBVIOUS

LEMMA ConcatFacts ==
  ASSUME NEW S, NEW a \in Seq(S), NEW b \in Seq(S)
  PROVE  /\ a \o b \in Seq(S) /\ Len(a \o b) = Len(a) + Len(b) /\ Len(a) \in Nat /\ Len(b) \in Nat
         /\ \A i \in 1..Len(a) : i \in 1..Len(a \o b) /\ (a \o b)[i] = a[i]
         /\ \A k \in 1..Len(b) : Len(a) + k \in 1..Len(a \o b) /\ (a \o b)[Len(a) + k] = b[k]
         /\ \A i \in 1..Len(a \o b) : i \in 1..Len(a) \/ \E k \in 1..Len(b) : i = Len(a) + k
<1>1. a \o b \in Seq(S) /\ Len(a \o b) = Len(a) + Len(b) /\ Len(a) \in Nat /\ Len(b) \in Nat
  BY ConcatProperties
<1>2. ASSUME NEW i \in 1..Len(a) PROVE i \in 1..Len(a \o b) /\ (a \o b)[i] = a[i]
  BY <1>1, ConcatProperties
<1>3. ASSUME NEW k \in 1..Len(b) PROVE Len(a) + k \in 1..Len(a \o b) /\ (a \o b)[Len(a) + k] = b[k]
  BY <1>1, ConcatProperties
<1>4. ASSUME NEW i \in 1..Len(a \o b), i \notin 1..Len(a) PROVE \E k \in 1..Len(b) : i = Len(a) + k
  <2>1. i - Len(a) \in 1..Len(b) /\ i = Len(a) + (i - Len(a))
    BY <1>1, <1>4
  <2> QED BY <2>1
<1> QED BY <1>1, <1>2, <1>3, <1>4

\* A finite set laid out in a sequence: each element once.
LEMMA LaidOut ==
  ASSUME NEW S, IsFiniteSet(S), NEW q \in SetToSeqs(S)
  PROVE  /\ q \in Seq(S) /\ \A x \in S : \E i \in 1..Len(q) : q[i] = x
         /\ \A i, j \in 1..Len(q) : i # j => q[i] # q[j]
<1> DEFINE n == Cardinality(S)
           D == 1..n
<1>1. n \in Nat
  BY FS_CardinalityType
<1>2. q \in [D -> S] /\ \A i, j \in D : i # j => q[i] # q[j]
  BY DEF SetToSeqs
<1>3. q \in Seq(S) /\ Len(q) = n
  BY <1>1, <1>2
<1>4. q \in Injection(D, S)
  BY <1>2 DEF Injection, IsInjective
<1>5. Cardinality(D) = n
  BY <1>1, FS_Interval
<1>6. q \in Surjection(D, S)
  BY <1>4, <1>5, FS_Injection
<1> QED BY <1>2, <1>3, <1>6 DEF Surjection

LEMMA BrokerFacts ==
  ASSUME BrokerInv
  PROVE  /\ Len(queue) \in Nat /\ Len(callbacks) \in Nat /\ nextEvent \in Nat /\ nextEvent >= 1
         /\ \A s \in Streams : queue[s] \in Seq(Nat) /\ Len(queue[s]) \in Nat
         /\ \A s \in Streams : \A i \in 1..Len(queue[s]) : queue[s][i] \in Nat
         /\ \A i \in 1..Len(callbacks) : callbacks[i].to \in Streams /\ callbacks[i].id \in Nat
         /\ Idle.to = {} /\ Idle.id = 0 /\ emitting.to \subseteq Streams /\ emitting.id \in Nat
         /\ emitting # Idle => emitting.id = nextEvent - 1
<1>1. /\ Len(queue) \in Nat /\ Len(callbacks) \in Nat /\ nextEvent \in Nat /\ nextEvent >= 1
      /\ \A s \in Streams : queue[s] \in Seq(Nat) /\ Len(queue[s]) \in Nat
  BY DEF BrokerInv, BrokerTypes, Streams
<1>5. \A i \in 1..Len(callbacks) : callbacks[i].to \in Streams /\ callbacks[i].id \in Nat
  <2>1. callbacks \in Seq(Calls)
    BY DEF BrokerInv, BrokerTypes
  <2>2. \A i \in 1..Len(callbacks) : callbacks[i] \in Calls
    BY <2>1
  <2> QED BY <2>2 DEF Calls
<1>2. \A s \in Streams : \A i \in 1..Len(queue[s]) : queue[s][i] \in Nat
  BY <1>1
<1>3. Idle.to = {} /\ Idle.id = 0
  BY DEF Idle
<1>4. emitting.to \subseteq Streams /\ emitting.id \in Nat /\ (emitting # Idle => emitting.id = nextEvent - 1)
  BY <1>1, <1>3 DEF BrokerInv, BrokerTypes
<1> QED BY <1>1, <1>5, <1>2, <1>3, <1>4

\* Nothing on its way is newer than the newest event.
LEMMA ComingBelow ==
  ASSUME BrokerInv, NEW s \in Streams, NEW e \in Coming(s) PROVE e \in Nat /\ e < nextEvent
<1>1. CASE \E i \in 1..Len(queue[s]) : e = queue[s][i]
  BY <1>1, BrokerFacts DEF BrokerInv, BoundsInv
<1>2. CASE \E i \in CallbacksTo(s) : e = callbacks[i].id
  BY <1>2, BrokerFacts DEF BrokerInv, BoundsInv, CallbacksTo
<1>3. CASE s \in emitting.to /\ e = emitting.id
  BY <1>3, BrokerFacts
<1> QED BY <1>1, <1>2, <1>3 DEF Coming

LEMMA BrokerInitInv ==
  ASSUME BrokerInit PROVE BrokerInv
<1>1. Streams = {} /\ Len(queue) = 0 /\ Len(callbacks) = 0 /\ Len(events) = 0
  BY DEF BrokerInit, Streams
<1>2. BrokerTypes
  BY <1>1 DEF BrokerInit, BrokerTypes, Calls
<1>3. EventsInv
  BY <1>1, BrokerAssumption DEF BrokerInit, EventsInv
<1> QED BY <1>1, <1>2, <1>3 DEF BrokerInit, BrokerInv, BoundsInv, OrderInv, Whole

\* A viewer whose stream is not touched by a step that emits nothing.
LEMMA UntouchedViewer ==
  ASSUME BrokerInv, NEW v \in Viewers, Whole(v), stream'[v] = stream[v], lastSeen'[v] = lastSeen[v],
         nextEvent' = nextEvent, stream[v] \in subscribers' => stream[v] \in subscribers,
         stream[v] \in Streams => Coming(stream[v])' = Coming(stream[v]),
         stream[v] \notin cut' => stream[v] \notin cut
  PROVE  Whole(v)'
<1>1. subscribers \subseteq Streams
  BY DEF BrokerInv, BrokerTypes
<1> QED BY <1>1 DEF Whole

\* A stream that no part of a step concerns.
LEMMA UntouchedStream ==
  ASSUME NEW s, queue'[s] = queue[s], callbacks' = callbacks, emitting' = emitting
  PROVE  Coming(s)' = Coming(s) /\ ComingInOrder(s)' = ComingInOrder(s)
BY DEF Coming, CallbacksTo, ComingInOrder

-----------------------------------------------------------------------------
(* Emitting.                                                               *)

LEMMA EmitRecordStep ==
  ASSUME BrokerInv, EmitRecord PROVE BrokerInv'
<1> DEFINE more == Append(events, nextEvent)
<1>0. BrokerTypes /\ EventsInv /\ BoundsInv /\ OrderInv /\ \A v \in Viewers : Whole(v)
  BY DEF BrokerInv
<1>1. /\ emitting = Idle /\ nextEvent' = nextEvent + 1 /\ emitting' = [id |-> nextEvent, to |-> subscribers]
      /\ events' = LastOf(more, Backlog)
      /\ UNCHANGED <<callbacks, subscribers, queue, stream, sending, lastSeen, cut>>
  BY DEF EmitRecord
<1>2. emitting'.id = nextEvent /\ emitting'.to = subscribers /\ emitting' # Idle /\ emitting.to = {}
      /\ nextEvent \in Nat /\ nextEvent >= 1 /\ Streams' = Streams
  BY <1>0, <1>1, BrokerFacts DEF Idle, BrokerTypes, Streams
<1>3. BrokerTypes'
  <2>1. emitting' \in [id : {nextEvent' - 1}, to : SUBSET Streams'] /\ nextEvent' > 1 /\ nextEvent' \in Nat \ {0}
    BY <1>0, <1>1, <1>2 DEF BrokerTypes
  <2> QED BY <1>0, <1>1, <1>2, <2>1 DEF BrokerTypes, Calls
<1>4. EventsInv'
  <2>1. /\ more \in Seq(Nat) /\ Len(more) = Len(events) + 1 /\ Len(events) \in Nat
        /\ \A i \in 1..Len(events) : more[i] = events[i]
        /\ more[Len(events) + 1] = nextEvent
    BY <1>0, <1>2 DEF EventsInv
  <2>2. \A i \in 1..Len(more) : more[i] = nextEvent - Len(more) + i
    BY <1>0, <1>2, <2>1 DEF EventsInv
  <2> HIDE DEF more
  <2>3. /\ events' \in Seq(Nat) /\ Len(events') = (IF Len(more) <= Backlog THEN Len(more) ELSE Backlog)
        /\ \A i \in 1..Len(events') : events'[i] = more[Len(more) - Len(events') + i]
    <3>1. Backlog \in Nat /\ more \in Seq(Nat)
      BY <2>1, BrokerAssumption
    <3>2. /\ LastOf(more, Backlog) \in Seq(Nat)
          /\ Len(LastOf(more, Backlog)) = (IF Len(more) <= Backlog THEN Len(more) ELSE Backlog)
          /\ \A i \in 1..Len(LastOf(more, Backlog)) :
               LastOf(more, Backlog)[i] = more[Len(more) - Len(LastOf(more, Backlog)) + i]
      BY <3>1, LastOfFacts, Zenon
    <3> QED BY <1>1, <3>2
  <2>4. Len(events') \in Nat /\ 1 <= Len(events') /\ Len(events') <= Len(more) /\ Len(events') <= Backlog
    BY <2>1, <2>3, BrokerAssumption
  <2>5. \A i \in 1..Len(events') : events'[i] = nextEvent' - 1 - Len(events') + i
    <3> SUFFICES ASSUME NEW i \in 1..Len(events') PROVE events'[i] = nextEvent' - 1 - Len(events') + i
      OBVIOUS
    <3>1. Len(more) - Len(events') + i \in 1..Len(more)
      BY <2>1, <2>4
    <3>2. events'[i] = nextEvent - Len(more) + (Len(more) - Len(events') + i)
      BY <2>2, <2>3, <3>1
    <3> QED BY <1>1, <1>2, <2>1, <2>4, <3>2
  <2>6. Len(events') < nextEvent' /\ events' # << >>
    BY <1>0, <1>1, <1>2, <2>1, <2>4 DEF EventsInv
  <2> QED BY <2>3, <2>4, <2>5, <2>6 DEF EventsInv
<1>5. BoundsInv'
  <2>1. ASSUME NEW i \in 1..Len(callbacks) PROVE callbacks[i].id < nextEvent' /\ callbacks[i].id < emitting'.id
    BY <1>0, <1>1, <1>2, BrokerFacts DEF BoundsInv
  <2>2. ASSUME NEW s \in Streams, NEW i \in 1..Len(queue[s]) PROVE queue[s][i] < nextEvent'
    BY <1>0, <1>1, <1>2, BrokerFacts DEF BoundsInv
  <2>3. ASSUME NEW v \in Viewers PROVE lastSeen[v] < nextEvent'
    BY <1>0, <1>1, <1>2 DEF BoundsInv, BrokerTypes
  <2> QED BY <1>0, <1>1, <1>2, <2>1, <2>2, <2>3 DEF BoundsInv
<1>6. OrderInv'
  <2> SUFFICES ASSUME NEW s \in Streams PROVE ComingInOrder(s)'
    BY <1>2 DEF OrderInv
  <2>1. ComingInOrder(s)
    BY <1>0 DEF OrderInv
  <2> QED BY <1>0, <1>1, <1>2, <2>1 DEF ComingInOrder, CallbacksTo, BoundsInv
<1>7. ASSUME NEW v \in Viewers PROVE Whole(v)'
  <2> SUFFICES ASSUME stream[v] \in subscribers
               PROVE  (/\ \A e \in Coming(stream[v]) : e > lastSeen[v]
                       /\ nextEvent - 1 \in Coming(stream[v]) \/ nextEvent - 1 = lastSeen[v]
                       /\ stream[v] \notin cut => (lastSeen[v] + 1)..(nextEvent - 1) \subseteq Coming(stream[v]))'
    BY <1>1 DEF Whole
  <2> DEFINE s == stream[v]
  <2>1. Coming(s)' = Coming(s) \cup {nextEvent}
    BY <1>1, <1>2 DEF Coming, CallbacksTo
  <2>2. /\ \A e \in Coming(s) : e > lastSeen[v]
        /\ s \notin cut => (lastSeen[v] + 1)..(nextEvent - 1) \subseteq Coming(s)
    BY <1>0 DEF Whole
  <2>3. lastSeen[v] \in Nat /\ lastSeen[v] < nextEvent
    BY <1>0 DEF BrokerTypes, BoundsInv
  <2>4. (lastSeen[v] + 1)..(nextEvent' - 1) = ((lastSeen[v] + 1)..(nextEvent - 1)) \cup {nextEvent}
    BY <1>1, <1>2, <2>3
  <2>5. nextEvent' - 1 = nextEvent
    BY <1>1, <1>2
  <2> QED BY <1>1, <2>1, <2>2, <2>3, <2>4, <2>5
<1> QED BY <1>3, <1>4, <1>5, <1>6, <1>7 DEF BrokerInv

LEMMA EmitScheduleStep ==
  ASSUME BrokerInv, EmitSchedule, IsFiniteSet(emitting.to) PROVE BrokerInv'
<1>0. BrokerTypes /\ EventsInv /\ BoundsInv /\ OrderInv /\ \A v \in Viewers : Whole(v)
  BY DEF BrokerInv
<1>1. PICK to \in SetToSeqs(emitting.to) :
        callbacks' = callbacks \o [i \in DOMAIN to |-> [to |-> to[i], id |-> emitting.id]]
  BY DEF EmitSchedule, Recipients
<1>2. /\ emitting # Idle /\ emitting' = Idle
      /\ UNCHANGED <<nextEvent, events, subscribers, queue, stream, sending, lastSeen, cut>>
  BY DEF EmitSchedule
<1> DEFINE m == Len(callbacks)
           n == Len(to)
           calls == [i \in DOMAIN to |-> [to |-> to[i], id |-> emitting.id]]
<1>3. /\ to \in Seq(emitting.to) /\ n \in Nat /\ DOMAIN to = 1..n
      /\ \A x \in emitting.to : \E i \in 1..n : to[i] = x
      /\ \A i, j \in 1..n : i # j => to[i] # to[j]
      /\ \A i \in 1..n : to[i] \in emitting.to
  BY LaidOut, SMTT(30)
<1>4. /\ emitting.to \subseteq Streams /\ emitting.id \in Nat /\ emitting.id = nextEvent - 1 /\ m \in Nat
      /\ nextEvent \in Nat /\ Streams' = Streams
  BY <1>2, BrokerFacts DEF Streams
<1>5. calls \in Seq(Calls) /\ Len(calls) = n /\ \A i \in 1..n : calls[i].to = to[i] /\ calls[i].id = emitting.id
  <2>1. \A i \in 1..n : [to |-> to[i], id |-> emitting.id] \in Calls
    BY <1>3, <1>4 DEF Calls
  <2>2. calls \in [1..n -> Calls]
    BY <1>3, <2>1
  <2> QED BY <1>3, <2>2
<1> HIDE DEF calls
<1>6. callbacks \in Seq(Calls) /\ callbacks' = callbacks \o calls
  BY <1>0, <1>1 DEF BrokerTypes, calls
<1>7. /\ callbacks' \in Seq(Calls) /\ Len(callbacks') = m + n
      /\ \A i \in 1..m : i \in 1..(m + n) /\ callbacks'[i] = callbacks[i]
      /\ \A k \in 1..n : m + k \in 1..(m + n) /\ callbacks'[m + k].to = to[k] /\ callbacks'[m + k].id = emitting.id
      /\ \A i \in 1..(m + n) : i \in 1..m \/ \E k \in 1..n : i = m + k
  <2> DEFINE r == callbacks \o calls
  <2>0. calls \in Seq(Calls) /\ callbacks \in Seq(Calls)
    BY <1>5, <1>6
  <2>1. /\ r \in Seq(Calls) /\ Len(r) = Len(callbacks) + Len(calls)
        /\ \A i \in 1..Len(callbacks) : i \in 1..Len(r) /\ r[i] = callbacks[i]
        /\ \A k \in 1..Len(calls) : Len(callbacks) + k \in 1..Len(r) /\ r[Len(callbacks) + k] = calls[k]
        /\ \A i \in 1..Len(r) : i \in 1..Len(callbacks) \/ \E k \in 1..Len(calls) : i = Len(callbacks) + k
    <3> HIDE DEF m, n
    <3>1. r \in Seq(Calls) /\ Len(r) = Len(callbacks) + Len(calls)
      BY <2>0, ConcatFacts
    <3>2. \A i \in 1..Len(callbacks) : i \in 1..Len(r) /\ r[i] = callbacks[i]
      BY <2>0, ConcatFacts, SMTT(30)
    <3>3. \A k \in 1..Len(calls) : Len(callbacks) + k \in 1..Len(r) /\ r[Len(callbacks) + k] = calls[k]
      <4> SUFFICES ASSUME NEW k \in 1..Len(calls)
                   PROVE  Len(callbacks) + k \in 1..Len(r) /\ r[Len(callbacks) + k] = calls[k]
        OBVIOUS
      <4> QED BY <2>0, <3>1, ConcatProperties
    <3>4. \A i \in 1..Len(r) : i \in 1..Len(callbacks) \/ \E k \in 1..Len(calls) : i = Len(callbacks) + k
      <4> SUFFICES ASSUME NEW i \in 1..Len(r), i \notin 1..Len(callbacks)
                   PROVE  \E k \in 1..Len(calls) : i = Len(callbacks) + k
        OBVIOUS
      <4>1. i - Len(callbacks) \in 1..Len(calls) /\ i = Len(callbacks) + (i - Len(callbacks))
        BY <2>0, <3>1
      <4> QED BY <4>1
    <3> QED BY <3>1, <3>2, <3>3, <3>4
  <2>2. Len(callbacks) = m /\ Len(calls) = n /\ callbacks' = r
    BY <1>5, <1>6
  <2> HIDE DEF m, n, r
  <2> QED BY <1>5, <2>1, <2>2, SMTT(30)
<1> HIDE DEF m, n
<1>8. ASSUME NEW s
      PROVE  /\ \A i \in CallbacksTo(s) : i \in 1..m
             /\ \A i \in CallbacksTo(s) : i \in CallbacksTo(s)'
             /\ \A j \in CallbacksTo(s)' : j \in CallbacksTo(s) \/ (j > m /\ s \in emitting.to /\ callbacks'[j].id = emitting.id)
             /\ \A j, k \in CallbacksTo(s)' : j > m /\ k > m => j = k
             /\ s \in emitting.to => \E j \in CallbacksTo(s)' : callbacks'[j].id = emitting.id
  <2>1. \A i \in CallbacksTo(s) : i \in 1..m /\ i \in CallbacksTo(s)'
    BY <1>7 DEF CallbacksTo, m
  <2>2. ASSUME NEW j \in CallbacksTo(s)'
        PROVE  j \in CallbacksTo(s) \/ (j > m /\ s \in emitting.to /\ callbacks'[j].id = emitting.id)
    <3>1. j \in 1..(m + n) /\ callbacks'[j].to = s
      BY <1>7 DEF CallbacksTo
    <3>2. CASE j \in 1..m
      BY <1>7, <3>1, <3>2 DEF CallbacksTo, m
    <3>3. CASE \E k \in 1..n : j = m + k
      <4>1. PICK k \in 1..n : j = m + k
        BY <3>3
      <4>2. to[k] = s /\ callbacks'[j].id = emitting.id /\ j > m
        <5>1. callbacks'[m + k].to = to[k] /\ callbacks'[m + k].id = emitting.id
          BY <1>7
        <5>2. m \in Nat /\ k \in Nat /\ k >= 1
          BY <1>3, <1>4
        <5>3. j > m
          BY <4>1, <5>2
        <5> QED BY <3>1, <4>1, <5>1, <5>3
      <4> QED BY <1>3, <4>2
    <3> QED BY <1>7, <3>1, <3>2, <3>3
  <2>3. ASSUME NEW j \in CallbacksTo(s)', NEW k \in CallbacksTo(s)', j > m, k > m PROVE j = k
    <3>1. j \in 1..(m + n) /\ k \in 1..(m + n) /\ callbacks'[j].to = s /\ callbacks'[k].to = s
      BY <1>7 DEF CallbacksTo
    <3>2. j \notin 1..m /\ k \notin 1..m
      BY <1>4, <2>3
    <3>3. PICK jj \in 1..n : j = m + jj
      BY <1>7, <3>1, <3>2
    <3>4. PICK kk \in 1..n : k = m + kk
      BY <1>7, <3>1, <3>2
    <3>5. to[jj] = s /\ to[kk] = s
      BY <1>7, <3>1, <3>3, <3>4
    <3> QED BY <1>3, <3>3, <3>4, <3>5
  <2>4. ASSUME s \in emitting.to PROVE \E j \in CallbacksTo(s)' : callbacks'[j].id = emitting.id
    <3>1. PICK i \in 1..n : to[i] = s
      BY <1>3, <2>4
    <3>2. m + i \in CallbacksTo(s)' /\ callbacks'[m + i].id = emitting.id
      BY <1>7, <3>1 DEF CallbacksTo
    <3> QED BY <3>2
  <2> QED BY <2>1, <2>2, <2>3, <2>4
<1>9. BrokerTypes'
  <2>1. Calls' = Calls
    BY <1>4 DEF Calls
  <2> QED BY <1>0, <1>2, <1>4, <1>7, <2>1 DEF BrokerTypes
<1>10. EventsInv'
  BY <1>0, <1>2 DEF EventsInv
<1>11. BoundsInv'
  <2>1. \A i \in 1..Len(callbacks') : callbacks'[i].id < nextEvent
    <3> SUFFICES ASSUME NEW i \in 1..(m + n) PROVE callbacks'[i].id < nextEvent
      BY <1>7
    <3>1. CASE i \in 1..m
      BY <1>0, <1>7, <3>1 DEF BoundsInv, m
    <3>2. CASE \E k \in 1..n : i = m + k
      <4>1. callbacks'[i].id = emitting.id
        BY <1>7, <3>2
      <4> QED BY <1>4, <4>1
    <3> QED BY <1>7, <3>1, <3>2
  <2> QED BY <1>0, <1>2, <1>4, <2>1 DEF BoundsInv
<1>12. emitting'.to = {}
  BY <1>2, BrokerFacts
<1>13. OrderInv'
  <2> SUFFICES ASSUME NEW s \in Streams PROVE ComingInOrder(s)'
    BY <1>4 DEF OrderInv
  <2>1. ComingInOrder(s)
    BY <1>0 DEF OrderInv
  <2>2. \A i, j \in 1..Len(queue[s]) : i < j => queue[s][i] < queue[s][j]
    BY <2>1 DEF ComingInOrder
  <2>3. \A i \in 1..Len(queue[s]), j \in CallbacksTo(s)' : queue[s][i] < callbacks'[j].id
    BY <1>7, <1>8, <2>1 DEF ComingInOrder
  <2>4. ASSUME NEW i \in CallbacksTo(s)', NEW j \in CallbacksTo(s)', i < j PROVE callbacks'[i].id < callbacks'[j].id
    <3>1. i \in Nat /\ j \in Nat
      BY <1>3, <1>4, <1>7 DEF CallbacksTo
    <3>2. CASE i \in CallbacksTo(s) /\ j \in CallbacksTo(s)
      BY <1>7, <1>8, <2>1, <2>4, <3>2 DEF ComingInOrder
    <3>3. CASE i \in CallbacksTo(s) /\ j \notin CallbacksTo(s)
      BY <1>7, <1>8, <2>1, <3>3 DEF ComingInOrder
    <3>4. CASE i \notin CallbacksTo(s)
      <4>1. i > m /\ j > m
        BY <1>4, <1>8, <2>4, <3>1, <3>4
      <4> QED BY <1>8, <2>4, <3>1, <4>1
    <3> QED BY <3>2, <3>3, <3>4
  <2> QED BY <1>2, <1>12, <2>2, <2>3, <2>4 DEF ComingInOrder
<1>14. ASSUME NEW s PROVE Coming(s)' = Coming(s)
  <2>1. {callbacks'[i].id : i \in CallbacksTo(s)'}
          = {callbacks[i].id : i \in CallbacksTo(s)} \cup (IF s \in emitting.to THEN {emitting.id} ELSE {})
    <3>1. ASSUME NEW j \in CallbacksTo(s)'
          PROVE  callbacks'[j].id \in {callbacks[i].id : i \in CallbacksTo(s)} \cup (IF s \in emitting.to THEN {emitting.id} ELSE {})
      BY <1>7, <1>8
    <3>2. ASSUME NEW i \in CallbacksTo(s) PROVE callbacks[i].id \in {callbacks'[j].id : j \in CallbacksTo(s)'}
      BY <1>7, <1>8
    <3> QED BY <1>8, <3>1, <3>2
  <2> QED BY <1>2, <1>12, <2>1 DEF Coming
<1>15. ASSUME NEW v \in Viewers PROVE Whole(v)'
  <2>1. Coming(stream[v])' = Coming(stream[v])
    BY <1>2, <1>14
  <2> QED BY <1>0, <1>2, <2>1, UntouchedViewer
<1> QED BY <1>9, <1>10, <1>11, <1>13, <1>15 DEF BrokerInv

-----------------------------------------------------------------------------
(* Steps that put nothing on the way and take nothing from it.             *)

LEMMA QuietStep ==
  ASSUME BrokerInv, UNCHANGED <<nextEvent, events, emitting, callbacks, queue, lastSeen>>,
         subscribers' \subseteq subscribers, cut \subseteq cut', cut' \subseteq Streams,
         stream' \in [Viewers -> 0..Len(queue)], \A v \in Viewers : stream'[v] = stream[v] \/ stream'[v] = 0
  PROVE  BrokerInv'
<1>0. BrokerTypes /\ EventsInv /\ BoundsInv /\ OrderInv /\ \A v \in Viewers : Whole(v)
  BY DEF BrokerInv
<1>1. Streams' = Streams /\ Calls' = Calls
  BY DEF Streams, Calls
<1>2. BrokerTypes'
  BY <1>0, <1>1 DEF BrokerTypes
<1>3. EventsInv'
  BY <1>0 DEF EventsInv
<1>4. BoundsInv'
  BY <1>0, <1>1 DEF BoundsInv
<1>5. \A s : Coming(s)' = Coming(s) /\ ComingInOrder(s)' = ComingInOrder(s)
  BY DEF Coming, CallbacksTo, ComingInOrder
<1>6. OrderInv'
  BY <1>0, <1>1, <1>5 DEF OrderInv
<1>7. ASSUME NEW v \in Viewers PROVE Whole(v)'
  <2>1. CASE stream'[v] = stream[v]
    BY <1>0, <1>5, <2>1, UntouchedViewer
  <2>2. CASE stream'[v] = 0
    BY <1>0, <2>2, BrokerFacts DEF Whole, BrokerTypes, Streams
  <2> QED BY <2>1, <2>2
<1> QED BY <1>2, <1>3, <1>4, <1>6, <1>7 DEF BrokerInv

LEMMA EndingSteps ==
  ASSUME BrokerInv, CloseBroker \/ \E v \in Viewers : Sent(v) \/ DisconnectWaiting(v) \/ DisconnectSending(v)
  PROVE  BrokerInv'
<1>1. /\ subscribers \subseteq Streams /\ cut \subseteq Streams /\ Len(queue) \in Nat
      /\ stream \in [Viewers -> 0..Len(queue)]
  BY BrokerFacts DEF BrokerInv, BrokerTypes
<1>2. CASE CloseBroker
  BY <1>1, <1>2, QuietStep DEF CloseBroker
<1>3. ASSUME NEW v \in Viewers, Sent(v) PROVE BrokerInv'
  BY <1>1, <1>3, QuietStep DEF Sent
<1>4. ASSUME NEW v \in Viewers, DisconnectWaiting(v) PROVE BrokerInv'
  BY <1>1, <1>4, QuietStep DEF DisconnectWaiting
<1>5. ASSUME NEW v \in Viewers, DisconnectSending(v) PROVE BrokerInv'
  BY <1>1, <1>5, QuietStep DEF DisconnectSending
<1> QED BY <1>2, <1>3, <1>4, <1>5

-----------------------------------------------------------------------------
(* _offer.                                                                 *)

\* The queue r is q without its d oldest events and with e behind it.
Shifted(q, r, e, d) ==
  /\ d = 1 <=> Len(q) = ClientQueue
  /\ r \in Seq(Nat) /\ Len(r) = Len(q) - d + 1 /\ Len(q) - d \in Nat /\ r[Len(q) - d + 1] = e
  /\ \A i \in 1..(Len(q) - d) : r[i] = q[i + d] /\ i + d \in 1..Len(q)

LEMMA OfferedFacts ==
  ASSUME NEW q \in Seq(Nat), NEW e \in Nat
  PROVE  \E d \in {0, 1} : Shifted(q, Offered(q, e), e, d)
<1>1. Len(q) \in Nat /\ ClientQueue \in Nat /\ ClientQueue > 0
  BY BrokerAssumption
<1>2. CASE Len(q) = ClientQueue
  <2>1. /\ Tail(q) \in Seq(Nat) /\ Len(Tail(q)) = Len(q) - 1
        /\ \A i \in 1..(Len(q) - 1) : Tail(q)[i] = q[i + 1] /\ i + 1 \in 1..Len(q)
    BY <1>1, <1>2
  <2>2. Offered(q, e) = Append(Tail(q), e)
    BY <1>2 DEF Offered
  <2>3. Shifted(q, Offered(q, e), e, 1)
    BY <1>1, <1>2, <2>1, <2>2 DEF Shifted
  <2> QED BY <2>3
<1>3. CASE Len(q) # ClientQueue
  <2>1. Offered(q, e) = Append(q, e)
    BY <1>3 DEF Offered
  <2>2. Shifted(q, Offered(q, e), e, 0)
    BY <1>1, <1>3, <2>1 DEF Shifted
  <2> QED BY <2>2
<1> QED BY <1>2, <1>3

LEMMA OfferStep ==
  ASSUME BrokerInv, Offer PROVE BrokerInv'
<1>0. BrokerTypes /\ EventsInv /\ BoundsInv /\ OrderInv /\ \A v \in Viewers : Whole(v)
  BY DEF BrokerInv
<1>a. PICK s0, e0, q, r : s0 = callbacks[1].to /\ e0 = callbacks[1].id /\ q = queue[s0] /\ r = queue'[s0]
  OBVIOUS
<1>1. callbacks \in Seq(Calls) /\ callbacks # << >>
  BY <1>0 DEF Offer, BrokerTypes
<1>2. /\ callbacks' \in Seq(Calls) /\ Len(callbacks) \in Nat /\ Len(callbacks) > 0
      /\ Len(callbacks') = Len(callbacks) - 1 /\ callbacks' = Tail(callbacks)
      /\ \A i \in 1..Len(callbacks') : i + 1 \in 1..Len(callbacks) /\ callbacks'[i] = callbacks[i + 1]
      /\ 1 \in 1..Len(callbacks) /\ Head(callbacks) = callbacks[1]
  BY <1>1 DEF Offer
<1>3. s0 \in Streams /\ e0 \in Nat /\ e0 < nextEvent /\ nextEvent \in Nat /\ q \in Seq(Nat)
      /\ (emitting # Idle => e0 < emitting.id) /\ Len(q) \in Nat
  BY <1>0, <1>2, <1>a, BrokerFacts DEF BoundsInv
<1>4. /\ queue' = [queue EXCEPT ![s0] = Offered(q, e0)]
      /\ cut' = IF Len(q) = ClientQueue THEN cut \cup {s0} ELSE cut
      /\ UNCHANGED <<nextEvent, events, emitting, subscribers, stream, sending, lastSeen>>
  BY <1>2, <1>a DEF Offer
<1>5. queue \in Seq(Seq(Nat)) /\ Len(queue) \in Nat
  BY <1>0 DEF BrokerTypes
<1>6. r = Offered(q, e0) /\ \A s \in Streams : s # s0 => queue'[s] = queue[s]
  BY <1>3, <1>4, <1>5, <1>a DEF Streams
<1>b. PICK d \in {0, 1} : Shifted(q, r, e0, d)
  BY <1>3, <1>6, OfferedFacts
<1>7.   /\ d = 1 <=> Len(q) = ClientQueue
        /\ r \in Seq(Nat) /\ Len(r) = Len(q) - d + 1 /\ Len(q) - d \in Nat /\ r[Len(q) - d + 1] = e0
        /\ \A i \in 1..(Len(q) - d) : r[i] = q[i + d] /\ i + d \in 1..Len(q)
  BY <1>b DEF Shifted
<1>8. queue' \in Seq(Seq(Nat)) /\ Len(queue') = Len(queue) /\ Streams' = Streams /\ Calls' = Calls
  <2>1. queue \in [1..Len(queue) -> Seq(Nat)] /\ s0 \in 1..Len(queue) /\ Offered(q, e0) \in Seq(Nat)
    BY <1>3, <1>5, <1>6, <1>7 DEF Streams
  <2>2. queue' \in [1..Len(queue) -> Seq(Nat)]
    BY <1>4, <2>1
  <2>3. queue' \in Seq(Seq(Nat)) /\ Len(queue') = Len(queue)
    BY <1>5, <2>2, FunctionIsSequence
  <2> QED BY <2>3 DEF Streams, Calls
<1>9. ASSUME NEW s
      PROVE  /\ \A i \in CallbacksTo(s)' : i + 1 \in CallbacksTo(s) /\ i \in Nat /\ i >= 1 /\ callbacks'[i].id = callbacks[i + 1].id
             /\ \A j \in CallbacksTo(s) : (j = 1 /\ s = s0) \/ \E i \in CallbacksTo(s)' : j = i + 1
  <2>1. \A i \in CallbacksTo(s)' : i + 1 \in CallbacksTo(s) /\ i \in Nat /\ i >= 1 /\ callbacks'[i].id = callbacks[i + 1].id
    BY <1>2 DEF CallbacksTo
  <2>2. ASSUME NEW j \in CallbacksTo(s), j # 1 PROVE \E i \in CallbacksTo(s)' : j = i + 1
    <3>1. j - 1 \in 1..Len(callbacks') /\ j = (j - 1) + 1 /\ callbacks[j].to = s
      BY <1>2, <2>2 DEF CallbacksTo
    <3>2. callbacks'[j - 1] = callbacks[j]
      BY <1>2, <3>1
    <3> QED BY <3>1, <3>2 DEF CallbacksTo
  <2> QED BY <1>a, <2>1, <2>2 DEF CallbacksTo
<1>10. 1 \in CallbacksTo(s0)
  BY <1>2, <1>a DEF CallbacksTo
<1>11. \A j \in CallbacksTo(s0) : j \in Nat
  BY DEF CallbacksTo
<1>12. ComingInOrder(s0)
  BY <1>0, <1>3 DEF OrderInv
<1>13. /\ \A i, j \in 1..Len(q) : i < j => q[i] < q[j]
       /\ \A i \in 1..Len(q), j \in CallbacksTo(s0) : q[i] < callbacks[j].id
       /\ \A i, j \in CallbacksTo(s0) : i < j => callbacks[i].id < callbacks[j].id
       /\ s0 \in emitting.to => /\ \A i \in 1..Len(q) : q[i] < emitting.id
                                /\ \A i \in CallbacksTo(s0) : callbacks[i].id < emitting.id
  BY <1>a, <1>12 DEF ComingInOrder
<1>14. \A i \in 1..Len(q) : q[i] < e0
  BY <1>a, <1>10, <1>13
<1>15. ASSUME NEW i \in 1..Len(r) PROVE (i = Len(r) /\ r[i] = e0) \/ (i \in 1..(Len(q) - d) /\ r[i] = q[i + d] /\ i + d \in 1..Len(q))
  BY <1>3, <1>7, SMTT(30)
<1>16. ComingInOrder(s0)'
  <2>1. ASSUME NEW i \in 1..Len(r), NEW j \in 1..Len(r), i < j PROVE r[i] < r[j]
    <3>1. i # Len(r) /\ i \in Nat /\ j \in Nat /\ d \in Nat
      BY <1>3, <1>7, <2>1
    <3>2. r[i] = q[i + d] /\ i + d \in 1..Len(q)
      BY <1>15, <3>1
    <3>3. CASE j = Len(r) /\ r[j] = e0
      BY <1>14, <3>2, <3>3
    <3>4. CASE r[j] = q[j + d] /\ j + d \in 1..Len(q)
      BY <1>13, <2>1, <3>1, <3>2, <3>4
    <3> QED BY <1>15, <3>3, <3>4
  <2>2. ASSUME NEW i \in 1..Len(r), NEW j \in CallbacksTo(s0)' PROVE r[i] < callbacks'[j].id
    <3>1. j + 1 \in CallbacksTo(s0) /\ j \in Nat /\ j >= 1 /\ callbacks'[j].id = callbacks[j + 1].id
      BY <1>9
    <3>2. e0 < callbacks[j + 1].id
      BY <1>a, <1>10, <1>13, <3>1
    <3> QED BY <1>13, <1>15, <3>1, <3>2
  <2>3. ASSUME NEW i \in CallbacksTo(s0)', NEW j \in CallbacksTo(s0)', i < j PROVE callbacks'[i].id < callbacks'[j].id
    BY <1>9, <1>13, <2>3
  <2>4. ASSUME s0 \in emitting.to
        PROVE  /\ \A i \in 1..Len(r) : r[i] < emitting.id
               /\ \A i \in CallbacksTo(s0)' : callbacks'[i].id < emitting.id
    <3>1. e0 < emitting.id
      BY <1>a, <1>10, <1>13, <2>4
    <3> QED BY <1>9, <1>13, <1>15, <2>4, <3>1
  <2> QED BY <1>a, <1>4, <2>1, <2>2, <2>3, <2>4 DEF ComingInOrder
<1>17. ASSUME NEW s \in Streams, s # s0 PROVE ComingInOrder(s)' /\ Coming(s)' = Coming(s)
  <2>1. ComingInOrder(s)
    BY <1>0 DEF OrderInv
  <2>2. queue'[s] = queue[s]
    BY <1>6, <1>17
  <2>3. \A i, j \in CallbacksTo(s)' : i < j => callbacks'[i].id < callbacks'[j].id
    BY <1>9, <2>1 DEF ComingInOrder
  <2>4. \A i \in 1..Len(queue[s]), j \in CallbacksTo(s)' : queue[s][i] < callbacks'[j].id
    BY <1>9, <2>1 DEF ComingInOrder
  <2>5. s \in emitting.to => \A i \in CallbacksTo(s)' : callbacks'[i].id < emitting.id
    BY <1>9, <2>1 DEF ComingInOrder
  <2>6. ComingInOrder(s)'
    BY <1>4, <2>1, <2>2, <2>3, <2>4, <2>5 DEF ComingInOrder
  <2>7. {callbacks'[i].id : i \in CallbacksTo(s)'} = {callbacks[i].id : i \in CallbacksTo(s)}
    <3>1. ASSUME NEW i \in CallbacksTo(s)' PROVE callbacks'[i].id \in {callbacks[k].id : k \in CallbacksTo(s)}
      BY <1>9
    <3>2. ASSUME NEW j \in CallbacksTo(s) PROVE callbacks[j].id \in {callbacks'[k].id : k \in CallbacksTo(s)'}
      BY <1>9, <1>17
    <3> QED BY <3>1, <3>2
  <2> QED BY <1>4, <2>2, <2>6, <2>7 DEF Coming
<1>18. Coming(s0)' \subseteq Coming(s0)
  <2>1. \A i \in 1..Len(r) : r[i] \in Coming(s0)
    <3>1. e0 \in Coming(s0)
      BY <1>a, <1>10 DEF Coming
    <3> QED BY <1>a, <1>15, <3>1 DEF Coming
  <2>2. \A i \in CallbacksTo(s0)' : callbacks'[i].id \in Coming(s0)
    BY <1>9 DEF Coming
  <2>3. s0 \in emitting.to => emitting.id \in Coming(s0)
    BY DEF Coming
  <2> QED BY <1>a, <1>4, <2>1, <2>2, <2>3, SMTT(30) DEF Coming
<1>19. ASSUME NEW e \in Coming(s0) PROVE e \in Coming(s0)' \/ (Len(q) = ClientQueue /\ e < e0)
  <2>1. ASSUME NEW i \in 1..Len(q), e = q[i], Len(q) # ClientQueue PROVE e \in Coming(s0)'
    <3>1. d = 0 /\ i \in 1..Len(r) /\ r[i] = e
      BY <1>3, <1>7, <2>1
    <3> QED BY <1>a, <3>1 DEF Coming
  <2>2. ASSUME NEW j \in CallbacksTo(s0), e = callbacks[j].id PROVE e \in Coming(s0)'
    <3>1. CASE j = 1
      <4>1. Len(r) \in 1..Len(r) /\ r[Len(r)] = e
        BY <1>a, <1>3, <1>7, <2>2, <3>1
      <4> QED BY <1>a, <4>1 DEF Coming
    <3>2. CASE \E i \in CallbacksTo(s0)' : j = i + 1
      BY <1>9, <2>2, <3>2 DEF Coming
    <3> QED BY <1>9, <3>1, <3>2
  <2>3. ASSUME s0 \in emitting.to, e = emitting.id PROVE e \in Coming(s0)'
    BY <1>a, <1>4, <2>3 DEF Coming
  <2>4. (\E i \in 1..Len(q) : e = q[i]) \/ (\E j \in CallbacksTo(s0) : e = callbacks[j].id) \/ (s0 \in emitting.to /\ e = emitting.id)
    BY <1>a DEF Coming
  <2> QED BY <1>14, <2>1, <2>2, <2>3, <2>4
<1>20. BrokerTypes'
  BY <1>0, <1>2, <1>3, <1>4, <1>8 DEF BrokerTypes
<1>21. EventsInv'
  BY <1>0, <1>4 DEF EventsInv
<1>22. BoundsInv'
  <2>1. \A i \in 1..Len(callbacks') : callbacks'[i].id < nextEvent /\ (emitting # Idle => callbacks'[i].id < emitting.id)
    BY <1>0, <1>2 DEF BoundsInv
  <2>2. ASSUME NEW s \in Streams, NEW i \in 1..Len(queue'[s]) PROVE queue'[s][i] < nextEvent
    <3>1. CASE s = s0
      BY <1>a, <1>0, <1>3, <1>15, <3>1 DEF BoundsInv
    <3>2. CASE s # s0
      BY <1>0, <1>6, <3>2 DEF BoundsInv
    <3> QED BY <3>1, <3>2
  <2> QED BY <1>0, <1>4, <1>8, <2>1, <2>2 DEF BoundsInv
<1>23. OrderInv'
  BY <1>8, <1>16, <1>17 DEF OrderInv
<1>24. ASSUME NEW v \in Viewers PROVE Whole(v)'
  <2>1. CASE stream[v] # s0
    BY <1>0, <1>4, <1>17, <2>1, UntouchedViewer
  <2>2. CASE stream[v] = s0
    <3> SUFFICES ASSUME s0 \in subscribers
                 PROVE  (/\ \A e \in Coming(s0) : e > lastSeen[v]
                         /\ nextEvent - 1 \in Coming(s0) \/ nextEvent - 1 = lastSeen[v]
                         /\ s0 \notin cut => (lastSeen[v] + 1)..(nextEvent - 1) \subseteq Coming(s0))'
      BY <1>4, <2>2 DEF Whole
    <3>1. /\ \A e \in Coming(s0) : e > lastSeen[v]
          /\ nextEvent - 1 \in Coming(s0) \/ nextEvent - 1 = lastSeen[v]
          /\ s0 \notin cut => (lastSeen[v] + 1)..(nextEvent - 1) \subseteq Coming(s0)
      BY <1>0, <2>2 DEF Whole
    <3> QED BY <1>3, <1>4, <1>18, <1>19, <3>1
  <2> QED BY <2>1, <2>2
<1> QED BY <1>20, <1>21, <1>22, <1>23, <1>24 DEF BrokerInv

-----------------------------------------------------------------------------
(* subscribe and the streams.                                              *)

\* The end of a sequence behind one of its places, as far as it fits.
IsEndOf(E, seen, c, m, q) ==
  /\ Len(m) = Len(E) - seen /\ Len(m) \in Nat /\ q \in Seq(Nat) /\ Len(q) \in Nat /\ Len(q) <= Len(m)
  /\ Len(q) = (IF Len(m) <= c THEN Len(m) ELSE c)
  /\ \A i \in 1..Len(q) : Len(E) - Len(q) + i \in (seen + 1)..Len(E) /\ q[i] = E[Len(E) - Len(q) + i]

LEMMA EndOf ==
  ASSUME NEW E \in Seq(Nat), NEW seen \in 0..Len(E), NEW c \in Nat, NEW m, NEW q,
         m = SubSeq(E, seen + 1, Len(E)), q = LastOf(m, c)
  PROVE  IsEndOf(E, seen, c, m, q)
<1>1. PICK n : n = Len(E)
  OBVIOUS
<1>2. n \in Nat /\ seen \in 0..n /\ \A i \in 1..n : E[i] \in Nat
  BY <1>1
<1>3. /\ m \in Seq(Nat) /\ Len(m) = n - seen
      /\ \A i \in 1..(n - seen) : m[i] = E[seen + i]
  <2>1. seen + 1 \in Int /\ n \in Int /\ \A i \in (seen + 1)..n : E[i] \in Nat
    BY <1>2
  <2>2. /\ m \in Seq(Nat)
        /\ Len(m) = (IF seen + 1 <= n THEN n - (seen + 1) + 1 ELSE 0)
        /\ \A i \in 1..(n - (seen + 1) + 1) : m[i] = E[seen + 1 + i - 1]
    BY <1>1, <2>1, SubSeqProperties
  <2> QED BY <1>2, <2>2
<1>4. /\ LastOf(m, c) \in Seq(Nat) /\ Len(LastOf(m, c)) = (IF Len(m) <= c THEN Len(m) ELSE c)
      /\ \A i \in 1..Len(LastOf(m, c)) : LastOf(m, c)[i] = m[Len(m) - Len(LastOf(m, c)) + i]
  BY <1>3, LastOfFacts, Zenon
<1>5. /\ q \in Seq(Nat) /\ Len(q) = (IF Len(m) <= c THEN Len(m) ELSE c)
      /\ \A i \in 1..Len(q) : q[i] = m[Len(m) - Len(q) + i]
  BY <1>4
<1>6. PICK a, b : a = Len(m) /\ b = Len(q)
  OBVIOUS
<1>7. a \in Nat /\ b \in Nat /\ b <= a /\ a = n - seen
  BY <1>2, <1>3, <1>5, <1>6
<1>8. ASSUME NEW i \in 1..b PROVE n - b + i \in (seen + 1)..n /\ q[i] = E[n - b + i]
  <2>1. a - b + i \in 1..(n - seen) /\ seen + (a - b + i) = n - b + i /\ n - b + i \in (seen + 1)..n
    BY <1>2, <1>7
  <2>2. q[i] = m[a - b + i]
    BY <1>5, <1>6
  <2> QED BY <1>3, <2>1, <2>2
<1> QED BY <1>1, <1>5, <1>6, <1>7, <1>8 DEF IsEndOf

\* What subscribe() queues is the end of the numbered events.
Replay(v, missed, q) ==
  /\ q \in Seq(Nat) /\ Len(q) \in Nat /\ Len(missed) \in Nat /\ Len(q) < nextEvent
  /\ Len(q) = (IF Len(missed) <= ClientQueue THEN Len(missed) ELSE ClientQueue)
  /\ \A i \in 1..Len(q) : q[i] = nextEvent - 1 - Len(q) + i /\ q[i] > lastSeen[v]
  /\ Len(q) = 0 => nextEvent - 1 = lastSeen[v]

LEMMA MissedEvents ==
  ASSUME BrokerInv, NEW v \in Viewers, NEW seen \in 0..Len(events), NEW q,
         \A i \in DOMAIN events : events[i] > lastSeen[v] <=> i > seen,
         NEW missed, missed = SubSeq(events, seen + 1, Len(events)), q = LastOf(missed, ClientQueue)
  PROVE  Replay(v, missed, q)
<1>0. BrokerTypes /\ EventsInv /\ BoundsInv
  BY DEF BrokerInv
<1>a. PICK n, b, N, l : n = Len(events) /\ b = Len(q) /\ N = nextEvent - 1 /\ l = lastSeen[v]
  OBVIOUS
<1>1. /\ n \in Nat /\ n <= N /\ N \in Nat /\ (N > 0 => n > 0) /\ l \in Nat /\ l <= N /\ seen \in 0..n
      /\ events \in Seq(Nat)
  BY <1>0, <1>a, BrokerFacts DEF EventsInv, BrokerTypes, BoundsInv
<1>2. \A i \in 1..n : events[i] = N - n + i
  BY <1>0, <1>a DEF EventsInv
<1>3. \A i \in 1..n : events[i] > l <=> i > seen
  <2>1. DOMAIN events = 1..n
    BY <1>1, <1>a
  <2> QED BY <1>a, <2>1
<1>4. ClientQueue \in Nat /\ ClientQueue > 0
  BY BrokerAssumption
<1>5. /\ Len(missed) = n - seen /\ Len(missed) \in Nat /\ q \in Seq(Nat) /\ b \in Nat /\ b <= Len(missed)
      /\ b = (IF Len(missed) <= ClientQueue THEN Len(missed) ELSE ClientQueue)
      /\ \A i \in 1..b : n - b + i \in (seen + 1)..n /\ q[i] = events[n - b + i]
  <2>1. IsEndOf(events, seen, ClientQueue, missed, q)
    BY <1>1, <1>4, EndOf
  <2> QED BY <1>a, <2>1 DEF IsEndOf
<1>6. ASSUME NEW i \in 1..b PROVE q[i] = N - b + i /\ q[i] > l
  <2>1. n - b + i \in (seen + 1)..n /\ q[i] = events[n - b + i]
    BY <1>5
  <2>2. n - b + i \in 1..n /\ n - b + i > seen /\ N - n + (n - b + i) = N - b + i
    <3>1. n \in Nat /\ N \in Nat /\ seen \in Nat /\ b \in Nat /\ i \in Nat
      BY <1>1, <1>5
    <3>2. n - b + i \in Int /\ seen + 1 <= n - b + i /\ n - b + i <= n
      BY <2>1, <3>1
    <3> QED BY <3>1, <3>2
  <2> QED BY <1>2, <1>3, <2>1, <2>2
<1>7. ASSUME b = 0 PROVE N = l
  <2>1. seen = n
    BY <1>1, <1>4, <1>5, <1>7
  <2>2. CASE n = 0
    BY <1>1, <2>2
  <2>3. CASE n > 0
    <3>1. n \in 1..n /\ ~(n > seen) /\ N - n + n = N
      BY <1>1, <2>1, <2>3
    <3>2. ~(N > l)
      BY <1>2, <1>3, <3>1
    <3> QED BY <1>1, <3>2
  <2> QED BY <1>1, <2>2, <2>3
<1>8. b < nextEvent
  BY <1>1, <1>5, <1>a, BrokerFacts
<1> QED BY <1>5, <1>6, <1>7, <1>8, <1>a DEF Replay

LEMMA SubscribeStep ==
  ASSUME BrokerInv, NEW v \in Viewers, Subscribe(v) PROVE BrokerInv'
<1>0. BrokerTypes /\ EventsInv /\ BoundsInv /\ OrderInv /\ \A w \in Viewers : Whole(w)
  BY DEF BrokerInv
<1>a. PICK seen \in 0..Len(events) :
        /\ \A i \in DOMAIN events : events[i] > lastSeen[v] <=> i > seen
        /\ queue' = Append(queue, LastOf(SubSeq(events, seen + 1, Len(events)), ClientQueue))
        /\ subscribers' = subscribers \cup {Len(queue) + 1}
        /\ stream' = [stream EXCEPT ![v] = Len(queue) + 1]
        /\ cut' = IF \/ Len(SubSeq(events, seen + 1, Len(events))) > ClientQueue
                     \/ nextEvent - 1 - lastSeen[v] > Len(SubSeq(events, seen + 1, Len(events)))
                    THEN cut \cup {Len(queue) + 1} ELSE cut
        /\ UNCHANGED <<nextEvent, events, emitting, callbacks, sending, lastSeen>>
  BY DEF Subscribe
<1>b. PICK missed, q, k :
        missed = SubSeq(events, seen + 1, Len(events)) /\ q = LastOf(missed, ClientQueue) /\ k = Len(queue) + 1
  OBVIOUS
<1>1. /\ \A i \in DOMAIN events : events[i] > lastSeen[v] <=> i > seen
      /\ k = Len(queue) + 1
      /\ queue' = Append(queue, q) /\ subscribers' = subscribers \cup {k}
      /\ stream' = [stream EXCEPT ![v] = k]
      /\ cut' = IF Len(missed) > ClientQueue \/ nextEvent - 1 - lastSeen[v] > Len(missed) THEN cut \cup {k} ELSE cut
      /\ UNCHANGED <<nextEvent, events, emitting, callbacks, sending, lastSeen>>
  BY <1>a, <1>b
<1>2. /\ q \in Seq(Nat) /\ Len(q) \in Nat /\ Len(missed) \in Nat /\ Len(q) < nextEvent
      /\ Len(q) = (IF Len(missed) <= ClientQueue THEN Len(missed) ELSE ClientQueue)
      /\ \A i \in 1..Len(q) : q[i] = nextEvent - 1 - Len(q) + i /\ q[i] > lastSeen[v]
      /\ Len(q) = 0 => nextEvent - 1 = lastSeen[v]
  <2>1. Replay(v, missed, q)
    BY <1>1, <1>b, MissedEvents
  <2> QED BY <2>1 DEF Replay
<1>3. /\ queue \in Seq(Seq(Nat)) /\ Len(queue) \in Nat /\ subscribers \subseteq Streams /\ cut \subseteq Streams
      /\ stream \in [Viewers -> 0..Len(queue)] /\ lastSeen \in [Viewers -> Nat] /\ nextEvent \in Nat /\ nextEvent >= 1
  BY <1>0, BrokerFacts DEF BrokerTypes
<1>4. /\ queue' \in Seq(Seq(Nat)) /\ Len(queue') = k /\ queue'[k] = q /\ \A s \in Streams : queue'[s] = queue[s]
      /\ Streams' = Streams \cup {k} /\ k \notin Streams
  BY <1>1, <1>2, <1>3 DEF Streams
<1>5. CallbacksTo(k)' = {} /\ k \notin emitting.to
  BY <1>1, <1>4, BrokerFacts DEF CallbacksTo
<1>6. \A s \in Streams : Coming(s)' = Coming(s) /\ ComingInOrder(s)' = ComingInOrder(s)
  BY <1>1, <1>4, UntouchedStream
<1>7. Coming(k)' = {q[i] : i \in 1..Len(q)}
  BY <1>1, <1>4, <1>5 DEF Coming
<1>8. ComingInOrder(k)'
  <2>1. \A i, j \in 1..Len(q) : i < j => q[i] < q[j]
    BY <1>2, <1>3
  <2> QED BY <1>1, <1>4, <1>5, <2>1 DEF ComingInOrder
<1>9. OrderInv'
  BY <1>0, <1>4, <1>6, <1>8 DEF OrderInv
<1>10. BrokerTypes'
  <2>1. callbacks' \in Seq(Calls')
    <3>1. callbacks \in Seq(Calls)
      BY <1>0 DEF BrokerTypes
    <3>2. Calls \subseteq Calls'
      BY <1>4 DEF Calls
    <3>3. \A i \in 1..Len(callbacks) : callbacks[i] \in Calls'
      BY <3>1, <3>2
    <3> QED BY <1>1, <3>1, <3>3
  <2>2. stream' \in [Viewers -> 0..Len(queue')]
    BY <1>1, <1>3, <1>4
  <2>3. subscribers' \subseteq Streams' /\ cut' \subseteq Streams'
    BY <1>1, <1>3, <1>4
  <2>4. emitting' = Idle \/ (emitting' \in [id : {nextEvent' - 1}, to : SUBSET Streams'] /\ nextEvent' > 1)
    BY <1>0, <1>1, <1>4 DEF BrokerTypes
  <2> QED BY <1>0, <1>1, <1>4, <2>1, <2>2, <2>3, <2>4 DEF BrokerTypes
<1>11. EventsInv'
  BY <1>0, <1>1 DEF EventsInv
<1>12. BoundsInv'
  <2>1. ASSUME NEW s \in Streams', NEW i \in 1..Len(queue'[s]) PROVE queue'[s][i] < nextEvent
    <3>1. CASE s = k
      <4>1. i \in 1..Len(q) /\ queue'[s][i] = q[i] /\ q[i] = nextEvent - 1 - Len(q) + i
        BY <1>2, <1>4, <3>1
      <4>2. Len(q) \in Nat
        BY <1>2
      <4> QED BY <1>3, <4>1, <4>2
    <3>2. CASE s \in Streams
      BY <1>0, <1>4, <3>2 DEF BoundsInv
    <3> QED BY <1>4, <3>1, <3>2
  <2>2. ASSUME NEW u \in Viewers, NEW w \in Viewers, stream'[u] = stream'[w], stream'[u] # 0 PROVE u = w
    BY <1>0, <1>1, <1>3, <2>2 DEF BoundsInv
  <2> QED BY <1>0, <1>1, <2>1, <2>2 DEF BoundsInv
<1>13. Whole(v)'
  <2>1. stream'[v] = k
    BY <1>1, <1>3
  <2>2. \A e \in Coming(k)' : e > lastSeen[v]
    BY <1>2, <1>7
  <2>3. nextEvent - 1 \in Coming(k)' \/ nextEvent - 1 = lastSeen[v]
    <3>1. CASE Len(q) > 0
      <4>1. Len(q) \in 1..Len(q) /\ nextEvent - 1 - Len(q) + Len(q) = nextEvent - 1
        BY <1>2, <1>3, <3>1
      <4>2. q[Len(q)] = nextEvent - 1
        BY <1>2, <4>1
      <4> QED BY <1>7, <4>1, <4>2
    <3> QED BY <1>2, <3>1
  <2>4. ASSUME k \notin cut', NEW e \in (lastSeen[v] + 1)..(nextEvent - 1) PROVE e \in Coming(k)'
    <3>1. Len(q) = Len(missed) /\ nextEvent - 1 - lastSeen[v] <= Len(q) /\ lastSeen[v] \in Nat
      BY <1>1, <1>2, <1>3, <2>4, BrokerAssumption
    <3> DEFINE i == e - (nextEvent - 1 - Len(q))
    <3>2. i \in 1..Len(q) /\ nextEvent - 1 - Len(q) + i = e
      BY <1>2, <1>3, <2>4, <3>1, SMTT(30)
    <3> HIDE DEF i
    <3>3. q[i] = e
      BY <1>2, <3>2
    <3> QED BY <1>7, <3>2, <3>3
  <2> QED BY <1>1, <2>1, <2>2, <2>3, <2>4 DEF Whole
<1>14. ASSUME NEW w \in Viewers, w # v PROVE Whole(w)'
  <2>1. stream'[w] = stream[w] /\ stream[w] # k
    BY <1>1, <1>3, <1>14
  <2> QED BY <1>0, <1>1, <1>6, <2>1, UntouchedViewer
<1> QED BY <1>9, <1>10, <1>11, <1>12, <1>13, <1>14 DEF BrokerInv

LEMMA DeliverStep ==
  ASSUME BrokerInv, NEW v \in Viewers, Deliver(v) PROVE BrokerInv'
<1>0. BrokerTypes /\ EventsInv /\ BoundsInv /\ OrderInv /\ \A w \in Viewers : Whole(w)
  BY DEF BrokerInv
<1>1. PICK s0, q, h : s0 = stream[v] /\ q = queue[s0] /\ h = q[1]
  OBVIOUS
<1>2. /\ queue \in Seq(Seq(Nat)) /\ Len(queue) \in Nat /\ stream \in [Viewers -> 0..Len(queue)]
      /\ lastSeen \in [Viewers -> Nat] /\ nextEvent \in Nat /\ nextEvent >= 1
  BY <1>0, BrokerFacts DEF BrokerTypes
<1>3. s0 \in Streams /\ q \in Seq(Nat) /\ q # << >> /\ s0 # 0
  BY <1>1, <1>2 DEF Deliver, Streams
<1>4. /\ Len(q) \in Nat /\ 1 \in 1..Len(q) /\ h \in Nat /\ Head(q) = h /\ Tail(q) \in Seq(Nat) /\ Len(Tail(q)) = Len(q) - 1
      /\ \A i \in 1..Len(Tail(q)) : Tail(q)[i] = q[i + 1] /\ i + 1 \in 1..Len(q)
  BY <1>1, <1>3
<1>5. /\ queue' = [queue EXCEPT ![s0] = Tail(q)] /\ lastSeen' = [lastSeen EXCEPT ![v] = h]
      /\ UNCHANGED <<nextEvent, events, emitting, callbacks, subscribers, stream, cut>>
  BY <1>1, <1>4 DEF Deliver
<1>6. queue'[s0] = Tail(q) /\ \A s \in Streams : s # s0 => queue'[s] = queue[s]
  BY <1>2, <1>3, <1>5 DEF Streams
<1>7. queue' \in Seq(Seq(Nat)) /\ Len(queue') = Len(queue) /\ Streams' = Streams /\ Calls' = Calls
  <2>1. queue \in [1..Len(queue) -> Seq(Nat)] /\ s0 \in 1..Len(queue)
    BY <1>2, <1>3 DEF Streams
  <2>2. queue' \in [1..Len(queue) -> Seq(Nat)]
    BY <1>4, <1>5, <2>1
  <2>3. queue' \in Seq(Seq(Nat)) /\ Len(queue') = Len(queue)
    BY <1>2, <2>2, FunctionIsSequence
  <2> QED BY <2>3 DEF Streams, Calls
<1>8. ASSUME NEW s \in Streams, s # s0 PROVE Coming(s)' = Coming(s) /\ ComingInOrder(s)' = ComingInOrder(s)
  BY <1>5, <1>6, <1>8, UntouchedStream
<1>9. CallbacksTo(s0)' = CallbacksTo(s0)
  BY <1>5 DEF CallbacksTo
<1>10. ComingInOrder(s0)
  BY <1>0, <1>3 DEF OrderInv
<1>11. /\ \A i, j \in 1..Len(q) : i < j => q[i] < q[j]
       /\ \A i \in 1..Len(q), j \in CallbacksTo(s0) : q[i] < callbacks[j].id
       /\ \A i, j \in CallbacksTo(s0) : i < j => callbacks[i].id < callbacks[j].id
       /\ s0 \in emitting.to => /\ \A i \in 1..Len(q) : q[i] < emitting.id
                                /\ \A i \in CallbacksTo(s0) : callbacks[i].id < emitting.id
  BY <1>1, <1>10 DEF ComingInOrder
<1>12. ComingInOrder(s0)'
  <2>1. \A i, j \in 1..Len(Tail(q)) : i < j => Tail(q)[i] < Tail(q)[j]
    BY <1>4, <1>11
  <2>2. \A i \in 1..Len(Tail(q)), j \in CallbacksTo(s0) : Tail(q)[i] < callbacks[j].id
    BY <1>4, <1>11
  <2>3. s0 \in emitting.to => \A i \in 1..Len(Tail(q)) : Tail(q)[i] < emitting.id
    BY <1>4, <1>11
  <2> QED BY <1>5, <1>6, <1>9, <1>11, <2>1, <2>2, <2>3 DEF ComingInOrder
<1>13. OrderInv'
  BY <1>0, <1>7, <1>8, <1>12 DEF OrderInv
<1>14. h \in Coming(s0) /\ h < nextEvent
  BY <1>0, <1>1, <1>3, <1>4 DEF Coming, BoundsInv
<1>15. Coming(s0)' \subseteq Coming(s0) /\ \A e \in Coming(s0)' : e > h
  <2>1. \A i \in 1..Len(Tail(q)) : Tail(q)[i] \in Coming(s0) /\ Tail(q)[i] > h
    <3>1. ASSUME NEW i \in 1..Len(Tail(q)) PROVE Tail(q)[i] \in Coming(s0) /\ Tail(q)[i] > h
      <4>1. Tail(q)[i] = q[i + 1] /\ i + 1 \in 1..Len(q) /\ 1 < i + 1 /\ q[i + 1] \in Nat
        BY <1>3, <1>4
      <4>2. q[1] < q[i + 1]
        BY <1>4, <1>11, <4>1
      <4> QED BY <1>1, <1>4, <4>1, <4>2 DEF Coming
    <3> QED BY <3>1
  <2>2. \A j \in CallbacksTo(s0) : callbacks[j].id \in Coming(s0) /\ callbacks[j].id > h
    <3>1. \A j \in CallbacksTo(s0) : callbacks[j].id \in Nat
      BY BrokerFacts DEF CallbacksTo
    <3> QED BY <1>1, <1>4, <1>11, <3>1 DEF Coming
  <2>3. s0 \in emitting.to => emitting.id \in Coming(s0) /\ emitting.id > h
    BY <1>1, <1>4, <1>11, BrokerFacts DEF Coming
  <2>4. ASSUME NEW e \in Coming(s0)' PROVE e \in Coming(s0) /\ e > h
    <3>1. \/ \E i \in 1..Len(Tail(q)) : e = Tail(q)[i]
          \/ \E j \in CallbacksTo(s0) : e = callbacks[j].id
          \/ s0 \in emitting.to /\ e = emitting.id
      BY <1>5, <1>6, <1>9 DEF Coming
    <3> QED BY <2>1, <2>2, <2>3, <3>1
  <2> QED BY <2>4
<1>16. ASSUME NEW e \in Coming(s0), e # h PROVE e \in Coming(s0)'
  <2>1. ASSUME NEW i \in 1..Len(q), e = q[i] PROVE e \in Coming(s0)'
    <3>1. i # 1
      BY <1>1, <1>16, <2>1
    <3>2. i - 1 \in 1..Len(Tail(q)) /\ (i - 1) + 1 = i
      BY <1>4, <3>1
    <3>3. Tail(q)[i - 1] = e
      BY <1>4, <2>1, <3>2
    <3> QED BY <1>6, <3>2, <3>3 DEF Coming
  <2>2. ASSUME NEW j \in CallbacksTo(s0), e = callbacks[j].id PROVE e \in Coming(s0)'
    BY <1>5, <1>9, <2>2 DEF Coming
  <2>3. ASSUME s0 \in emitting.to, e = emitting.id PROVE e \in Coming(s0)'
    BY <1>5, <2>3 DEF Coming
  <2> QED BY <1>1, <2>1, <2>2, <2>3 DEF Coming
<1>17. BrokerTypes'
  BY <1>0, <1>2, <1>4, <1>5, <1>7 DEF BrokerTypes
<1>18. EventsInv'
  BY <1>0, <1>5 DEF EventsInv
<1>19. BoundsInv'
  <2>1. ASSUME NEW s \in Streams, NEW i \in 1..Len(queue'[s]) PROVE queue'[s][i] < nextEvent
    <3>1. CASE s = s0
      BY <1>0, <1>1, <1>4, <1>6, <3>1, ZenonT(60) DEF BoundsInv
    <3>2. CASE s # s0
      BY <1>0, <1>6, <3>2 DEF BoundsInv
    <3> QED BY <3>1, <3>2
  <2>2. \A w \in Viewers : lastSeen'[w] < nextEvent
    BY <1>0, <1>2, <1>5, <1>14 DEF BoundsInv
  <2> QED BY <1>0, <1>5, <1>7, <2>1, <2>2 DEF BoundsInv
<1>20. Whole(v)'
  <2> SUFFICES ASSUME s0 \in subscribers
               PROVE  /\ \A e \in Coming(s0)' : e > h
                      /\ nextEvent - 1 \in Coming(s0)' \/ nextEvent - 1 = h
                      /\ s0 \notin cut => (h + 1)..(nextEvent - 1) \subseteq Coming(s0)'
    BY <1>1, <1>2, <1>5 DEF Whole
  <2>1. /\ h > lastSeen[v] /\ (nextEvent - 1 \in Coming(s0) \/ nextEvent - 1 = lastSeen[v])
        /\ s0 \notin cut => (lastSeen[v] + 1)..(nextEvent - 1) \subseteq Coming(s0)
    BY <1>0, <1>1, <1>14 DEF Whole
  <2>2. nextEvent - 1 \in Coming(s0) /\ lastSeen[v] \in Nat
    BY <1>2, <1>4, <1>14, <2>1
  <2>3. ASSUME NEW e \in (h + 1)..(nextEvent - 1) PROVE e \in (lastSeen[v] + 1)..(nextEvent - 1) /\ e # h
    BY <1>2, <1>4, <2>1, <2>2
  <2> QED BY <1>15, <1>16, <2>1, <2>2, <2>3
<1>21. ASSUME NEW w \in Viewers, w # v PROVE Whole(w)'
  <2>1. stream[w] # s0
    BY <1>0, <1>1, <1>3, <1>21 DEF BoundsInv
  <2>2. stream[w] \in Streams => Coming(stream[w])' = Coming(stream[w])
    <3>1. PICK s : s = stream[w]
      OBVIOUS
    <3>2. Coming(stream[w])' = Coming(s)'
      BY <1>5, <3>1 DEF Coming, CallbacksTo
    <3> QED BY <1>8, <2>1, <3>1, <3>2
  <2> QED BY <1>0, <1>2, <1>5, <1>21, <2>2, UntouchedViewer
<1> QED BY <1>13, <1>17, <1>18, <1>19, <1>20, <1>21 DEF BrokerInv

-----------------------------------------------------------------------------
LEMMA BrokerNextInv ==
  ASSUME BrokerInv, [BrokerNext]_brokerVars PROVE BrokerInv'
<1>1. CASE UNCHANGED brokerVars
  BY <1>1, QuietStep DEF brokerVars, BrokerInv, BrokerTypes
<1>2. CASE EmitSchedule
  <2>1. 1 \in Int /\ Len(queue) \in Int /\ emitting.to \subseteq 1..Len(queue)
    BY BrokerFacts DEF Streams
  <2>3. IsFiniteSet(1..Len(queue))
    BY <2>1, FS_Interval
  <2>2. IsFiniteSet(emitting.to)
    BY <2>1, <2>3, FS_Subset
  <2> QED BY <1>2, <2>2, EmitScheduleStep
<1>3. CASE EmitRecord
  BY <1>3, EmitRecordStep
<1>4. CASE Offer
  BY <1>4, OfferStep
<1>5. CASE CloseBroker \/ \E v \in Viewers : Sent(v) \/ DisconnectWaiting(v) \/ DisconnectSending(v)
  BY <1>5, EndingSteps
<1>6. CASE \E v \in Viewers : Subscribe(v) \/ Deliver(v)
  BY <1>6, SubscribeStep, DeliverStep
<1> QED BY <1>1, <1>2, <1>3, <1>4, <1>5, <1>6 DEF BrokerNext

(* The inductive invariant of the broker holds, whatever threads, streams  *)
(* and viewers do.                                                         *)
THEOREM BrokerInvariant == BrokerSpec => []BrokerInv
<1>1. BrokerInit => BrokerInv
  BY BrokerInitInv
<1>2. BrokerInv /\ [BrokerNext]_brokerVars => BrokerInv'
  BY BrokerNextInv
<1> QED BY <1>1, <1>2, PTL DEF BrokerSpec

(* A viewer gets each event once and in order, across reconnects and while *)
(* threads emit; only a bound skips events and then the newest survive     *)
(* (dashboard_logs.py: emit, _offer, subscribe and the streams).           *)
THEOREM EventsArriveOnce == BrokerSpec => []NoEventLostOrRepeated
<1>1. BrokerInv => NoEventLostOrRepeated
  <2> SUFFICES ASSUME BrokerInv, NEW v \in Viewers, stream[v] \in subscribers
               PROVE  /\ ComingInOrder(stream[v])
                      /\ \A e \in Coming(stream[v]) : e > lastSeen[v]
                      /\ Coming(stream[v]) # {} =>
                           nextEvent - 1 \in Coming(stream[v]) /\ \A e \in Coming(stream[v]) : e < nextEvent
                      /\ stream[v] \notin cut => Coming(stream[v]) = (lastSeen[v] + 1)..(nextEvent - 1)
    BY DEF NoEventLostOrRepeated
  <2>1. PICK s : s = stream[v]
    OBVIOUS
  <2>2. s \in Streams /\ lastSeen[v] \in Nat /\ lastSeen[v] < nextEvent /\ nextEvent \in Nat
    BY <2>1, BrokerFacts DEF BrokerInv, BrokerTypes, BoundsInv
  <2>3. \A e \in Coming(s) : e \in Nat /\ e < nextEvent
    BY <2>2, ComingBelow
  <2>4. ComingInOrder(s)
    BY <2>2 DEF BrokerInv, OrderInv
  <2>5. /\ \A e \in Coming(s) : e > lastSeen[v]
        /\ nextEvent - 1 \in Coming(s) \/ nextEvent - 1 = lastSeen[v]
        /\ s \notin cut => (lastSeen[v] + 1)..(nextEvent - 1) \subseteq Coming(s)
    BY <2>1 DEF BrokerInv, Whole
  <2>6. Coming(s) # {} => nextEvent - 1 \in Coming(s)
    BY <2>2, <2>3, <2>5
  <2>7. \A e \in Coming(s) : e \in (lastSeen[v] + 1)..(nextEvent - 1)
    BY <2>2, <2>3, <2>5
  <2> QED BY <2>1, <2>3, <2>4, <2>5, <2>6, <2>7
<1> QED BY <1>1, BrokerInvariant, PTL
===============================================================================
