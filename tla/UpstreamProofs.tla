---------------------------- MODULE UpstreamProofs ----------------------------
(***************************************************************************)
(* Proofs about the calls to upstream services: who may call               *)
(* (QuotaLedger) and which provider is called (ProviderRouter).            *)
(***************************************************************************)
EXTENDS QuotaLedger, ProviderRouter, FiniteSetTheorems, SequenceTheorems, WellFoundedInduction, TLAPS

(***************************************************************************)
(* The quota ledger, for every set of limits and costs, every reserve,     *)
(* queue, and number of windows, instants and crashes.                     *)
(*                                                                         *)
(* The properties are not inductive: what has been granted is compared     *)
(* with the durable row, while between the two stand the counter, the      *)
(* reservation of a caller and the records on their way to SQLite.         *)
(* LedgerInv says that each of them covers the grants, and that the order  *)
(* of the instants keeps an old record from covering a newer one.          *)
(***************************************************************************)

\* A counter u of window s has counted everything in g, the grants by window.
Covers(g, s, u) ==
  \A w \in Windows : g[w] > 0 => s > w \/ (s = w /\ u >= g[w])

\* The record a waiting caller has sent.
HolderRecord == [start |-> start, used |-> used, limit |-> limit, at |-> holder.at]

\* The records that have not met the writer.
Pending == blocked \cup {queue[i] : i \in 1..Len(queue)}

\* Such a record is not from the future, and no record younger than the one
\* a caller waits for is under way.  While no start was refused it covers the
\* grants unless the upsert will ignore it.
SoundRecord(r) ==
  /\ r.at <= instant /\ r.start <= window
  /\ ~refused =>
       /\ r.limit = limit /\ r.used <= limit
       /\ r.at >= durable.at => Covers(granted, r.start, r.used)
       /\ holder # Idle => r.at <= holder.at /\ (r.at = holder.at => r = HolderRecord)

RecordsInv == \A r \in Pending : SoundRecord(r)

TimeInv ==
  /\ start <= window /\ durable.start <= window
  /\ durable.at <= instant /\ checkpoint <= instant
  /\ ~up => holder = Idle /\ blocked = {} /\ queue = <<>>
  /\ holder # Idle => holder.at <= instant /\ holder.start <= window

\* The row, the counter and, while a caller waits, the values a rollback
\* returns to.
CountersInv ==
  ~refused =>
    /\ bound
    /\ used <= limit
    /\ Covers(granted, durable.start, durable.used)
    /\ durable # NoRecord => durable.limit = limit /\ durable.used <= limit
    /\ up => Covers(granted, start, used)

HolderInv ==
  ~refused /\ holder # Idle =>
    /\ used >= granted[start] + holder.cost
    /\ holder.plain => used <= limit - Reserve
    /\ holder.used <= limit /\ Covers(granted, holder.start, holder.used)
    /\ durable.at <= holder.at
    /\ holder.phase = "committed" => durable = HolderRecord

GrantsInv ==
  ~refused => \A w \in Windows : /\ granted[w] <= limit
                                 /\ plain[w] <= granted[w] /\ plain[w] <= limit - Reserve

LedgerInv == QuotaTypeOK /\ TimeInv /\ RecordsInv /\ CountersInv /\ HolderInv /\ GrantsInv

-----------------------------------------------------------------------------
(* Types.                                                                  *)

\* What a record holds.
LEMMA RecordFields ==
  ASSUME NEW r \in Records
  PROVE  r.start \in Windows /\ r.used \in Nat /\ r.limit \in Limits /\ r.at \in 1..LastInstant
BY DEF Records

\* What the row holds.
LEMMA DurableFields ==
  ASSUME QuotaTypeOK
  PROVE  durable.start \in Windows /\ durable.used \in Nat /\ durable.at \in 0..LastInstant
BY QuotaAssumption, SMTT(30) DEF QuotaTypeOK, Records, NoRecord, Windows

\* What a waiting caller holds.
LEMMA HolderFields ==
  ASSUME QuotaTypeOK, holder # Idle
  PROVE  /\ holder.at \in 1..LastInstant /\ holder.cost \in Nat \ {0} /\ holder.cost \in Costs /\ holder.plain \in BOOLEAN
         /\ holder.start \in Windows /\ holder.used \in Nat
         /\ holder.phase \in {"waiting", "committed", "failed"}
BY QuotaAssumption DEF QuotaTypeOK, Holders

\* Queues stay queues of records.
LEMMA QueueOps ==
  ASSUME NEW q \in Seq(Records), NEW r \in Records
  PROVE  /\ Append(q, r) \in Seq(Records) /\ Len(Append(q, r)) = Len(q) + 1
         /\ \A i \in 1..Len(Append(q, r)) : Append(q, r)[i] = IF i <= Len(q) THEN q[i] ELSE r
         /\ \A i \in 1..Len(q) : q[i] \in Records
         /\ q # <<>> => /\ Tail(q) \in Seq(Records) /\ Len(Tail(q)) = Len(q) - 1
                         /\ Head(q) \in Records /\ Head(q) = q[1] /\ Len(q) \in Nat \ {0}
                         /\ \A i \in 1..Len(Tail(q)) : Tail(q)[i] = q[i + 1] /\ i + 1 \in 1..Len(q)
OBVIOUS

\* The writer answers a waiting caller, and changes nothing else of it.
LEMMA SettleHolder ==
  ASSUME QuotaTypeOK, NEW at, NEW o \in {"waiting", "committed", "failed"}, Settle(at, o)
  PROVE  /\ holder' \in Holders \cup {Idle} /\ (holder' = Idle <=> holder = Idle)
         /\ holder # Idle => /\ holder'.at = holder.at /\ holder'.cost = holder.cost
                             /\ holder'.plain = holder.plain /\ holder'.start = holder.start
                             /\ holder'.used = holder.used
                             /\ holder'.phase = IF holder.at = at THEN o ELSE holder.phase
<1>1. CASE holder = Idle
  BY <1>1 DEF Settle
<1>2. CASE holder # Idle
  <2>1. holder \in Holders
    BY <1>2 DEF QuotaTypeOK
  <2>2. holder' = IF holder.at = at THEN [holder EXCEPT !.phase = o] ELSE holder
    BY <1>2 DEF Settle
  <2>3. \A h \in Holders : h # Idle
    BY DEF Holders, Idle
  <2> QED BY <2>1, <2>2, <2>3, <1>2 DEF Holders
<1> QED BY <1>1, <1>2

\* A record that is put is in the queue, or waits for room.
LEMMA PutRecord ==
  ASSUME QuotaTypeOK, NEW r \in Records, Put(r)
  PROVE  /\ blocked' \subseteq Records /\ queue' \in Seq(Records) /\ Len(queue') <= Capacity
         /\ Pending' \subseteq Pending \cup {r}
<1>0. queue \in Seq(Records) /\ Len(queue) \in Nat /\ Len(queue) <= Capacity /\ Capacity \in Nat
  BY QuotaAssumption DEF QuotaTypeOK
<1>1. CASE Len(queue) < Capacity
  <2>1. queue' = Append(queue, r) /\ blocked' = blocked
    BY <1>1 DEF Put
  <2>2. /\ Append(queue, r) \in Seq(Records) /\ Len(Append(queue, r)) = Len(queue) + 1
        /\ \A i \in 1..Len(Append(queue, r)) :
             Append(queue, r)[i] = IF i <= Len(queue) THEN queue[i] ELSE r
    BY <1>0, QueueOps
  <2> QED BY <1>0, <1>1, <2>1, <2>2 DEF QuotaTypeOK, Pending
<1>2. CASE ~(Len(queue) < Capacity)
  <2>1. blocked' = blocked \cup {r} /\ queue' = queue
    BY <1>2 DEF Put
  <2> QED BY <1>0, <2>1 DEF QuotaTypeOK, Pending
<1> QED BY <1>1, <1>2

\* A record made from the counter is a record.
LEMMA RecordType ==
  ASSUME QuotaTypeOK, NEW u \in Nat, NEW at \in 1..LastInstant
  PROVE  Record(u, at) \in Records
BY DEF QuotaTypeOK, Record, Records

\* Every step keeps the types.
LEMMA TypeStep ==
  ASSUME QuotaTypeOK, [QuotaNext]_quotaVars PROVE QuotaTypeOK'
<1> USE QuotaAssumption DEF QuotaTypeOK, clock, ledger, storage, ghosts
<1> DEFINE Now == /\ window \in Windows /\ instant \in 0..LastInstant /\ crashes \in 0..Crashes
           Base == /\ up \in BOOLEAN /\ bound \in BOOLEAN /\ limit \in Limits
                   /\ start \in Windows /\ used \in Nat
           Wait == /\ holder \in Holders \cup {Idle}
                   /\ checkpoint \in 0..LastInstant
           Flow == /\ blocked \subseteq Records
                   /\ queue \in Seq(Records) /\ Len(queue) <= Capacity
                   /\ durable \in Records \cup {NoRecord}
           Past == /\ granted \in [Windows -> Nat] /\ plain \in [Windows -> Nat]
                   /\ refused \in BOOLEAN
<1>1. ASSUME NEW c \in Costs, NEW b \in BOOLEAN, Deny(c, b) PROVE QuotaTypeOK'
  <2>0. Now' BY <1>1 DEF Deny, LockFree, Rolled
  <2>1. Base' BY <1>1, HolderFields, DurableFields DEF Deny, LockFree, Rolled, Windows
  <2>2. Wait' BY <1>1 DEF Deny, LockFree, Rolled
  <2>3. Flow' BY <1>1, QueueOps DEF Deny, LockFree, Rolled
  <2>4. Past' BY <1>1 DEF Deny, LockFree, Rolled
  <2> QED BY <2>0, <2>1, <2>2, <2>3, <2>4
<1>2. ASSUME NEW c \in Costs, NEW b \in BOOLEAN, Reserving(c, b) PROVE QuotaTypeOK'
  <2>0. Now' BY <1>2 DEF Reserving, LockFree, TakeInstant, Put, Record, Rolled
  <2>1. Base' BY <1>2, HolderFields, DurableFields DEF Reserving, LockFree, TakeInstant, Put, Record, Rolled, Windows
  <2>2. Wait' 
    <3>1. Rolled \in Nat /\ instant' \in 1..LastInstant /\ start \in Windows /\ used \in Nat
      BY <1>2 DEF Reserving, TakeInstant, Rolled
    <3>2. holder' \in Holders
      BY <1>2, <3>1 DEF Reserving, Holders
    <3> QED BY <1>2, <3>2 DEF Reserving
  <2>3. Flow' 
    <3>1. Rolled + c \in Nat /\ instant' \in 1..LastInstant
      BY <1>2 DEF Reserving, TakeInstant, Rolled
    <3>2. Record(Rolled + c, instant') \in Records
      BY <3>1, RecordType
    <3>3. Put(Record(Rolled + c, instant')) /\ durable' = durable
      BY <1>2 DEF Reserving
    <3>4. blocked' \subseteq Records /\ queue' \in Seq(Records) /\ Len(queue') <= Capacity
      BY <3>2, <3>3, PutRecord
    <3> QED BY <3>3, <3>4
  <2>4. Past' BY <1>2 DEF Reserving, LockFree, TakeInstant, Put, Record, Rolled
  <2> QED BY <2>0, <2>1, <2>2, <2>3, <2>4
<1>3. ASSUME NEW c \in Costs, NEW b \in BOOLEAN, GrantUnbound(c, b) PROVE QuotaTypeOK'
  <2>0. Now' BY <1>3 DEF GrantUnbound, Count, LockFree, Rolled
  <2>1. Base' BY <1>3, HolderFields, DurableFields DEF GrantUnbound, Count, LockFree, Rolled, Windows
  <2>2. Wait' BY <1>3 DEF GrantUnbound, Count, LockFree, Rolled
  <2>3. Flow' BY <1>3, QueueOps DEF GrantUnbound, Count, LockFree, Rolled
  <2>4. Past' BY <1>3, SMTT(30) DEF GrantUnbound, Count, LockFree, Rolled
  <2> QED BY <2>0, <2>1, <2>2, <2>3, <2>4
<1>4. ASSUME Grant PROVE QuotaTypeOK'
  <2>0. Now' BY <1>4 DEF Grant, Count
  <2>1. Base' BY <1>4, HolderFields, DurableFields DEF Grant, Count, Windows
  <2>2. Wait' BY <1>4 DEF Grant, Count
  <2>3. Flow' BY <1>4, QueueOps DEF Grant, Count
  <2>4. Past' 
    <3>1. start \in Windows /\ holder.cost \in Nat
      BY <1>4, HolderFields DEF Grant
    <3>2. granted' = [granted EXCEPT ![start] = @ + holder.cost] /\ refused' = refused
      BY <1>4 DEF Grant, Count
    <3>3. plain' = [plain EXCEPT ![start] = @ + holder.cost] \/ plain' = plain
      BY <1>4 DEF Grant, Count
    <3>4. granted' \in [Windows -> Nat]
      BY <3>1, <3>2
    <3>5. [plain EXCEPT ![start] = @ + holder.cost] \in [Windows -> Nat]
      BY <3>1
    <3> QED BY <3>2, <3>3, <3>4, <3>5
  <2> QED BY <2>0, <2>1, <2>2, <2>3, <2>4
<1>5. ASSUME CancelAcquire PROVE QuotaTypeOK'
  <2>0. Now' BY <1>5 DEF CancelAcquire, RollBack
  <2>1. Base' BY <1>5, HolderFields, DurableFields DEF CancelAcquire, RollBack, Windows
  <2>2. Wait' BY <1>5 DEF CancelAcquire, RollBack
  <2>3. Flow' BY <1>5, QueueOps DEF CancelAcquire, RollBack
  <2>4. Past' BY <1>5 DEF CancelAcquire, RollBack
  <2> QED BY <2>0, <2>1, <2>2, <2>3, <2>4
<1>6. ASSUME Peek PROVE QuotaTypeOK'
  <2>0. Now' BY <1>6 DEF Peek, LockFree
  <2>1. Base' BY <1>6, HolderFields, DurableFields DEF Peek, LockFree, Windows
  <2>2. Wait' BY <1>6 DEF Peek, LockFree
  <2>3. Flow' BY <1>6, QueueOps DEF Peek, LockFree
  <2>4. Past' BY <1>6 DEF Peek, LockFree
  <2> QED BY <2>0, <2>1, <2>2, <2>3, <2>4
<1>7. ASSUME CheckpointBegin PROVE QuotaTypeOK'
  <2>0. Now' BY <1>7 DEF CheckpointBegin, TakeInstant
  <2>1. Base' BY <1>7, HolderFields, DurableFields DEF CheckpointBegin, TakeInstant, Windows
  <2>2. Wait' BY <1>7 DEF CheckpointBegin, TakeInstant
  <2>3. Flow' BY <1>7, QueueOps DEF CheckpointBegin, TakeInstant
  <2>4. Past' BY <1>7 DEF CheckpointBegin, TakeInstant
  <2> QED BY <2>0, <2>1, <2>2, <2>3, <2>4
<1>8. ASSUME CheckpointRead PROVE QuotaTypeOK'
  <2>0. Now' BY <1>8 DEF CheckpointRead, LockFree, Put, Record, Rolled
  <2>1. Base' BY <1>8, HolderFields, DurableFields DEF CheckpointRead, LockFree, Put, Record, Rolled, Windows
  <2>2. Wait' BY <1>8 DEF CheckpointRead, LockFree, Put, Record, Rolled
  <2>3. Flow' 
    <3>1. Rolled \in Nat /\ checkpoint \in 1..LastInstant
      BY <1>8 DEF CheckpointRead, Rolled
    <3>2. Record(Rolled, checkpoint) \in Records
      BY <3>1, RecordType
    <3>3. Put(Record(Rolled, checkpoint)) /\ durable' = durable
      BY <1>8 DEF CheckpointRead
    <3>4. blocked' \subseteq Records /\ queue' \in Seq(Records) /\ Len(queue') <= Capacity
      BY <3>2, <3>3, PutRecord
    <3> QED BY <3>3, <3>4
  <2>4. Past' BY <1>8 DEF CheckpointRead, LockFree, Put, Record, Rolled
  <2> QED BY <2>0, <2>1, <2>2, <2>3, <2>4
<1>9. ASSUME NEW r \in blocked, PutLands(r) PROVE QuotaTypeOK'
  <2>0. Now' BY <1>9 DEF PutLands
  <2>1. Base' BY <1>9, HolderFields, DurableFields DEF PutLands, Windows
  <2>2. Wait' BY <1>9 DEF PutLands
  <2>3. Flow' BY <1>9, QueueOps DEF PutLands
  <2>4. Past' BY <1>9 DEF PutLands
  <2> QED BY <2>0, <2>1, <2>2, <2>3, <2>4
<1>10. ASSUME NEW r \in blocked, PutTimesOut(r) PROVE QuotaTypeOK'
  <2>0. Now' BY <1>10 DEF PutTimesOut, Settle
  <2>1. Base' BY <1>10, HolderFields, DurableFields DEF PutTimesOut, Settle, Windows
  <2>2. Wait' BY <1>10, SettleHolder DEF PutTimesOut
  <2>3. Flow' BY <1>10, QueueOps DEF PutTimesOut, Settle
  <2>4. Past' BY <1>10 DEF PutTimesOut, Settle
  <2> QED BY <2>0, <2>1, <2>2, <2>3, <2>4
<1>11. ASSUME Commit PROVE QuotaTypeOK'
  <2>0. Now' BY <1>11 DEF Commit, Settle, Upsert
  <2>1. Base' BY <1>11, HolderFields, DurableFields DEF Commit, Settle, Upsert, Windows
  <2>2. Wait' BY <1>11, SettleHolder DEF Commit
  <2>3. Flow' BY <1>11, QueueOps, SMTT(30) DEF Commit, Settle, Upsert
  <2>4. Past' BY <1>11 DEF Commit, Settle, Upsert
  <2> QED BY <2>0, <2>1, <2>2, <2>3, <2>4
<1>12. ASSUME CommitFails PROVE QuotaTypeOK'
  <2>0. Now' BY <1>12 DEF CommitFails, Settle
  <2>1. Base' BY <1>12, HolderFields, DurableFields DEF CommitFails, Settle, Windows
  <2>2. Wait' BY <1>12, SettleHolder DEF CommitFails
  <2>3. Flow' BY <1>12, QueueOps, SMTT(30) DEF CommitFails, Settle
  <2>4. Past' BY <1>12 DEF CommitFails, Settle
  <2> QED BY <2>0, <2>1, <2>2, <2>3, <2>4
<1>13. ASSUME NextWindow PROVE QuotaTypeOK'
  <2>0. Now' BY <1>13 DEF NextWindow, Windows
  <2>1. Base' BY <1>13, HolderFields, DurableFields DEF NextWindow, Windows
  <2>2. Wait' BY <1>13 DEF NextWindow
  <2>3. Flow' BY <1>13, QueueOps DEF NextWindow
  <2>4. Past' BY <1>13 DEF NextWindow
  <2> QED BY <2>0, <2>1, <2>2, <2>3, <2>4
<1>14. ASSUME Crash PROVE QuotaTypeOK'
  <2>0. Now'
    <3>1. crashes' \in 0..Crashes /\ window' = window /\ instant' = instant
      BY <1>14 DEF Crash
    <3> QED BY <3>1
  <2>1. Base' BY <1>14, HolderFields, DurableFields DEF Crash, Windows
  <2>2. Wait' BY <1>14 DEF Crash
  <2>3. Flow' BY <1>14, QueueOps DEF Crash
  <2>4. Past' BY <1>14 DEF Crash
  <2> QED BY <2>0, <2>1, <2>2, <2>3, <2>4
<1>15. ASSUME NEW l \in Limits, Boot(l) PROVE QuotaTypeOK'
  <2>0. Now' BY <1>15 DEF Boot
  <2>1. Base' BY <1>15, HolderFields, DurableFields DEF Boot, Windows
  <2>2. Wait' BY <1>15 DEF Boot
  <2>3. Flow' BY <1>15, QueueOps DEF Boot
  <2>4. Past' BY <1>15 DEF Boot
  <2> QED BY <2>0, <2>1, <2>2, <2>3, <2>4
<1>16. ASSUME NEW l \in Limits, BootRefused(l) PROVE QuotaTypeOK'
  <2>0. Now' BY <1>16 DEF BootRefused, TakeInstant
  <2>1. Base' BY <1>16, HolderFields, DurableFields DEF BootRefused, TakeInstant, Windows
  <2>2. Wait' BY <1>16 DEF BootRefused, TakeInstant
  <2>3. Flow' 
    <3> DEFINE r == [start |-> window, used |-> 0, limit |-> l, at |-> instant']
    <3>1. r \in Records
      BY <1>16 DEF BootRefused, TakeInstant, Records
    <3>2. <<r>> \in Seq(Records) /\ Len(<<r>>) = 1
      BY <3>1
    <3> QED BY <1>16, <3>2 DEF BootRefused
  <2>4. Past' BY <1>16 DEF BootRefused, TakeInstant
  <2> QED BY <2>0, <2>1, <2>2, <2>3, <2>4
<1>17. CASE UNCHANGED quotaVars
  BY <1>17 DEF quotaVars
<1> QED
  <2>1. CASE QuotaNext
    BY <2>1, <1>1, <1>2, <1>3, <1>4, <1>5, <1>6, <1>7, <1>8, <1>9, <1>10, <1>11, <1>12, <1>13,
       <1>14, <1>15, <1>16 DEF QuotaNext, PutSettles, PersistFails, CancelAcquire
  <2> QED BY <2>1, <1>17

-----------------------------------------------------------------------------
(* What covers the grants.                                                 *)

\* A counter that covers the grants has counted those of its own window.
LEMMA CoversOwn ==
  ASSUME NEW g \in [Windows -> Nat], NEW s \in Windows, NEW u \in Nat, Covers(g, s, u)
  PROVE  g[s] <= u
BY QuotaAssumption DEF Covers, Windows

\* A larger counter of the same window, or any of a later one, covers more.
LEMMA CoversMore ==
  ASSUME NEW g \in [Windows -> Nat], NEW s \in Windows, NEW u \in Nat, Covers(g, s, u),
         NEW t \in Windows, NEW v \in Nat, t > s \/ (t = s /\ v >= u)
  PROVE  Covers(g, t, v)
BY QuotaAssumption DEF Covers, Windows

\* Credits may be granted if the counter has room for them already.
LEMMA CoversGrant ==
  ASSUME NEW g \in [Windows -> Nat], NEW s \in Windows, NEW u \in Nat, Covers(g, s, u),
         NEW c \in Nat, u >= g[s] + c
  PROVE  Covers([g EXCEPT ![s] = @ + c], s, u)
BY QuotaAssumption DEF Covers, Windows

\* The counter still covers the grants after _roll().
LEMMA RolledCovers ==
  ASSUME LedgerInv, up, ~refused
  PROVE  Rolled \in Nat /\ Covers(granted, window, Rolled) /\ granted[window] <= Rolled /\ Rolled <= limit
<1>1. /\ granted \in [Windows -> Nat] /\ start \in Windows /\ used \in Nat /\ window \in Windows
      /\ start <= window /\ used <= limit /\ Covers(granted, start, used) /\ Rolled \in Nat
      /\ limit \in Nat
  BY QuotaAssumption DEF LedgerInv, QuotaTypeOK, TimeInv, CountersInv, Rolled
<1>2. window > start \/ (window = start /\ Rolled >= used)
  BY <1>1, QuotaAssumption DEF Rolled, Windows
<1>3. Covers(granted, window, Rolled)
  BY <1>1, <1>2, CoversMore
<1> QED BY <1>1, <1>3, CoversOwn DEF Rolled

-----------------------------------------------------------------------------
(* Every step keeps the invariant.                                         *)

\* The numbers of a state.
LEMMA Numbers ==
  ASSUME QuotaTypeOK
  PROVE  /\ window \in Nat /\ instant \in Nat /\ start \in Nat /\ used \in Nat
         /\ limit \in Nat /\ Reserve \in Nat /\ Reserve < limit /\ checkpoint \in Nat
         /\ durable.start \in Nat /\ durable.used \in Nat /\ durable.at \in Nat
         /\ \A w \in Windows : granted[w] \in Nat /\ plain[w] \in Nat
         /\ Windows \subseteq Nat /\ LastInstant \in Nat /\ limit \in Limits
BY QuotaAssumption, DurableFields DEF QuotaTypeOK, Windows

\* Every pending record is a record.
LEMMA PendingType ==
  ASSUME QuotaTypeOK
  PROVE  /\ Pending \subseteq Records
         /\ \A r \in Pending : /\ r \in Records /\ r.start \in Nat /\ r.used \in Nat
                                /\ r.limit \in Nat /\ r.at \in Nat
<1>1. Pending \subseteq Records
  BY QueueOps DEF QuotaTypeOK, Pending
<1>2. Windows \subseteq Nat /\ Limits \subseteq Nat /\ 1..LastInstant \subseteq Nat
  BY QuotaAssumption DEF Windows
<1> QED BY <1>1, <1>2, RecordFields

\* The head of the queue is pending, and the rest stays so.
LEMMA PendingHead ==
  ASSUME QuotaTypeOK, queue # <<>>
  PROVE  /\ Head(queue) \in Pending
         /\ queue' = Tail(queue) /\ blocked' = blocked => Pending' \subseteq Pending
<1>1. /\ Len(queue) \in Nat \ {0} /\ Head(queue) = queue[1] /\ Len(Tail(queue)) = Len(queue) - 1
      /\ \A i \in 1..Len(Tail(queue)) : Tail(queue)[i] = queue[i + 1] /\ i + 1 \in 1..Len(queue)
  BY QueueOps DEF QuotaTypeOK
<1> QED BY <1>1 DEF Pending

\* A refusal only rolls the counter.
LEMMA DenyKeeps ==
  ASSUME LedgerInv, QuotaTypeOK', NEW c \in Costs, NEW b \in BOOLEAN, Deny(c, b) PROVE LedgerInv'
<1> USE DEF clock, ledger, storage, ghosts
<1>0. QuotaTypeOK BY DEF LedgerInv
<1>r. ~refused => /\ Rolled \in Nat /\ Covers(granted, window, Rolled)
                  /\ granted[window] <= Rolled /\ Rolled <= limit
  BY RolledCovers DEF LockFree, Deny
<1>q. Rolled \in Nat /\ window \in Windows /\ granted \in [Windows -> Nat]
  BY <1>0 DEF QuotaTypeOK, Rolled
<1>1. TimeInv'
  BY <1>0, Numbers, HolderFields, <1>r, <1>q DEF Deny, LockFree, LedgerInv, TimeInv
<1>2. RecordsInv'
  <2>1. Pending' \subseteq Pending
    BY DEF Deny, LockFree, Pending
  <2>2. ASSUME NEW r0 \in Pending PROVE SoundRecord(r0)'
    <3>1. SoundRecord(r0)
      BY DEF LedgerInv, RecordsInv
    <3> QED BY <1>0, Numbers, HolderFields, <1>r, <1>q, <3>1, PendingType DEF Deny, LockFree, LedgerInv, TimeInv, CountersInv, HolderInv, SoundRecord, HolderRecord
  <2> QED BY <2>1, <2>2 DEF RecordsInv
<1>3. CountersInv'
  BY <1>0, Numbers, HolderFields, <1>r, <1>q DEF Deny, LockFree, LedgerInv, TimeInv, CountersInv
<1>4. HolderInv'
  BY <1>0, Numbers, HolderFields, <1>r, <1>q DEF Deny, LockFree, LedgerInv, HolderInv, HolderRecord
<1>5. GrantsInv'
  BY <1>0, Numbers, HolderFields, <1>r, <1>q DEF Deny, LockFree, LedgerInv, GrantsInv
<1> QED BY <1>1, <1>2, <1>3, <1>4, <1>5 DEF LedgerInv

\* A reservation counts more than was granted, and its record is the youngest.
LEMMA ReservingKeeps ==
  ASSUME LedgerInv, QuotaTypeOK', NEW c \in Costs, NEW b \in BOOLEAN, Reserving(c, b) PROVE LedgerInv'
<1> USE DEF clock, ledger, storage, ghosts
<1>0. QuotaTypeOK BY DEF LedgerInv
<1>r. ~refused => /\ Rolled \in Nat /\ Covers(granted, window, Rolled)
                  /\ granted[window] <= Rolled /\ Rolled <= limit
  BY RolledCovers DEF LockFree, Reserving
<1>q. Rolled \in Nat /\ window \in Windows /\ granted \in [Windows -> Nat]
  BY <1>0 DEF QuotaTypeOK, Rolled
<1>n. c \in Nat /\ c > 0 /\ Rolled + c <= limit /\ (~b => Rolled + c <= limit - Reserve)
  BY <1>0, <1>q, QuotaAssumption, Numbers DEF Reserving, Ceiling
<1>p. /\ Pending' \subseteq Pending \cup {Record(Rolled + c, instant')}
  <2>1. instant' \in 1..LastInstant /\ Rolled + c \in Nat /\ Put(Record(Rolled + c, instant'))
    BY <1>0, <1>n, <1>q DEF Reserving, QuotaTypeOK, TakeInstant
  <2> QED BY <2>1, <1>0, PutRecord, RecordType
<1>h. /\ holder' # Idle /\ holder'.at = instant + 1 /\ holder'.cost = c /\ holder'.plain = ~b
      /\ holder'.start = start /\ holder'.used = used /\ holder'.phase = "waiting"
  BY DEF Reserving, TakeInstant, Idle
<1>v. /\ window' = window /\ instant' = instant + 1 /\ start' = window /\ used' = Rolled + c
      /\ limit' = limit /\ bound' = bound /\ checkpoint' = checkpoint /\ durable' = durable
      /\ granted' = granted /\ plain' = plain /\ refused' = refused /\ up /\ up' = up
      /\ holder = Idle
  BY DEF Reserving, TakeInstant, LockFree
<1>1. TimeInv'
  BY <1>0, <1>h, <1>v, Numbers DEF LedgerInv, TimeInv
<1>2. RecordsInv'
  <2>0. SUFFICES ASSUME NEW r0 \in Pending' PROVE SoundRecord(r0)'
    BY DEF RecordsInv
  <2>1. r0 \in Pending \/ r0 = Record(Rolled + c, instant')
    BY <1>p
  <2>2. CASE r0 \in Pending
    <3>1. SoundRecord(r0)
      BY <2>2 DEF LedgerInv, RecordsInv
    <3> QED BY <1>0, <1>h, <1>v, <3>1, <2>2, PendingType, Numbers DEF SoundRecord
  <2>3. CASE r0 = Record(Rolled + c, instant')
    <3>1. r0.start = window /\ r0.used = Rolled + c /\ r0.limit = limit /\ r0.at = instant + 1
      BY <2>3, <1>v DEF Record
    <3>2. r0 = HolderRecord'
      BY <2>3, <1>h, <1>v DEF Record, HolderRecord
    <3>3. ~refused => Covers(granted, window, Rolled + c)
      BY <1>r, <1>q, <1>n, CoversMore
    <3> QED BY <1>0, <1>n, <1>h, <1>v, <3>1, <3>2, <3>3, Numbers DEF SoundRecord
  <2> QED BY <2>1, <2>2, <2>3
<1>3. CountersInv'
  <2>1. ~refused => Covers(granted, window, Rolled + c)
    BY <1>r, <1>q, <1>n, CoversMore
  <2> QED BY <1>0, <1>n, <1>q, <1>v, <2>1, Numbers DEF LedgerInv, CountersInv
<1>4. HolderInv'
  <2>1. SUFFICES ASSUME ~refused
                 PROVE  /\ Rolled + c >= granted[window] + c
                        /\ ~b => Rolled + c <= limit - Reserve
                        /\ used <= limit /\ Covers(granted, start, used)
                        /\ durable.at <= instant + 1
    BY <1>h, <1>v DEF HolderInv
  <2>2. granted[window] \in Nat /\ granted[window] <= Rolled
    BY <2>1, <1>r, <1>q
  <2>3. durable.at <= instant /\ used <= limit /\ Covers(granted, start, used)
    BY <2>1, <1>v DEF LedgerInv, TimeInv, CountersInv
  <2> QED BY <1>0, <1>n, <1>q, <2>2, <2>3, Numbers
<1>5. GrantsInv'
  BY <1>v DEF LedgerInv, GrantsInv
<1> QED BY <1>1, <1>2, <1>3, <1>4, <1>5 DEF LedgerInv

\* Only a ledger that was refused grants without a record.
LEMMA GrantUnboundKeeps ==
  ASSUME LedgerInv, QuotaTypeOK', NEW c \in Costs, NEW b \in BOOLEAN, GrantUnbound(c, b) PROVE LedgerInv'
<1> USE DEF clock, ledger, storage, ghosts
<1>0. QuotaTypeOK BY DEF LedgerInv
<1>n. refused
  BY DEF GrantUnbound, LedgerInv, CountersInv
<1>1. TimeInv'
  BY <1>0, Numbers DEF GrantUnbound, LockFree, LedgerInv, TimeInv, Count
<1>2. RecordsInv'
  <2>1. Pending' \subseteq Pending
    BY DEF GrantUnbound, Count, LockFree, Pending
  <2>2. ASSUME NEW r0 \in Pending PROVE SoundRecord(r0)'
    <3>1. SoundRecord(r0)
      BY DEF LedgerInv, RecordsInv
    <3> QED BY <1>0, Numbers, HolderFields, <1>n, <3>1, PendingType DEF GrantUnbound, Count, LockFree, LedgerInv, TimeInv, CountersInv, HolderInv, SoundRecord, HolderRecord
  <2> QED BY <2>1, <2>2 DEF RecordsInv
<1>3. CountersInv'
  BY <1>0, Numbers, HolderFields, <1>n DEF GrantUnbound, Count, LockFree, LedgerInv, TimeInv, CountersInv
<1>4. HolderInv'
  BY <1>0, Numbers, HolderFields, <1>n DEF GrantUnbound, Count, LockFree, LedgerInv, HolderInv, HolderRecord
<1>5. GrantsInv'
  BY <1>0, Numbers, HolderFields, <1>n DEF GrantUnbound, Count, LockFree, LedgerInv, GrantsInv
<1> QED BY <1>1, <1>2, <1>3, <1>4, <1>5 DEF LedgerInv

\* A grant finds its own record in the row, so the row has room for it.
LEMMA GrantKeeps ==
  ASSUME LedgerInv, QuotaTypeOK', Grant PROVE LedgerInv'
<1> USE DEF clock, ledger, storage, ghosts
<1>0. QuotaTypeOK BY DEF LedgerInv
<1>n. /\ window' = window /\ instant' = instant /\ up' = up /\ limit' = limit /\ bound' = bound
      /\ start' = start /\ used' = used /\ checkpoint' = checkpoint /\ blocked' = blocked
      /\ queue' = queue /\ durable' = durable /\ refused' = refused /\ holder' = Idle
      /\ granted' = [granted EXCEPT ![start] = @ + holder.cost]
      /\ plain' = IF holder.plain THEN [plain EXCEPT ![start] = @ + holder.cost] ELSE plain
  BY DEF Grant, Count
<1>h. /\ holder # Idle /\ holder.cost \in Nat /\ holder.at \in Nat
      /\ start \in Windows /\ used \in Nat /\ granted \in [Windows -> Nat] /\ plain \in [Windows -> Nat]
  <2>1. holder # Idle
    BY DEF Grant
  <2>2. holder.cost \in Nat /\ holder.at \in 1..LastInstant
    BY <1>0, <2>1, HolderFields
  <2>3. /\ start \in Windows /\ used \in Nat /\ granted \in [Windows -> Nat] /\ plain \in [Windows -> Nat]
    BY <1>0 DEF QuotaTypeOK
  <2> QED BY <2>1, <2>2, <2>3
<1>d. ~refused => /\ durable.start = start /\ durable.used = used /\ durable.at = holder.at
                  /\ durable.limit = limit /\ used >= granted[start] + holder.cost
                  /\ (holder.plain => used <= limit - Reserve)
  BY <1>h DEF Grant, LedgerInv, HolderInv, HolderRecord
<1>c. ~refused => Covers(granted', start, used)
  BY <1>d, <1>n, <1>h, CoversGrant DEF LedgerInv, CountersInv
<1>1. TimeInv'
  BY <1>0, <1>n DEF LedgerInv, TimeInv
<1>2. RecordsInv'
  <2>1. Pending' = Pending
    BY <1>n DEF Pending
  <2>2. ASSUME NEW r0 \in Pending PROVE SoundRecord(r0)'
    <3>1. SoundRecord(r0)
      BY DEF LedgerInv, RecordsInv
    <3>2. ASSUME ~refused, r0.at >= durable.at PROVE Covers(granted', r0.start, r0.used)
      <4>1. r0 = HolderRecord
        BY <3>1, <3>2, <1>0, <1>h, <1>d, PendingType DEF SoundRecord
      <4> QED BY <3>2, <4>1, <1>c DEF HolderRecord
    <3> QED BY <1>n, <3>1, <3>2 DEF SoundRecord
  <2> QED BY <2>1, <2>2 DEF RecordsInv
<1>3. CountersInv'
  BY <1>n, <1>c, <1>d DEF LedgerInv, CountersInv
<1>4. HolderInv'
  BY <1>n DEF HolderInv
<1>5. GrantsInv'
  <2>1. SUFFICES ASSUME ~refused, NEW w \in Windows
                 PROVE  /\ granted'[w] <= limit
                        /\ plain'[w] <= granted'[w] /\ plain'[w] <= limit - Reserve
    BY <1>n DEF GrantsInv
  <2>2. /\ granted[w] <= limit /\ plain[w] <= granted[w] /\ plain[w] <= limit - Reserve
        /\ granted[w] \in Nat /\ plain[w] \in Nat
    BY <2>1, <1>h DEF LedgerInv, GrantsInv
  <2>3. CASE w = start
    <3>1. granted'[w] = granted[w] + holder.cost
      BY <1>n, <1>h, <2>3
    <3>2. plain'[w] = IF holder.plain THEN plain[w] + holder.cost ELSE plain[w]
      BY <1>n, <1>h, <2>3
    <3>3. used <= limit /\ limit \in Nat /\ Reserve \in Nat
      BY <2>1, <1>0, Numbers DEF LedgerInv, CountersInv
    <3> QED BY <2>1, <2>2, <2>3, <3>1, <3>2, <3>3, <1>d, <1>h
  <2>4. CASE w # start
    BY <2>2, <2>4, <1>n, <1>h
  <2> QED BY <2>3, <2>4
<1> QED BY <1>1, <1>2, <1>3, <1>4, <1>5 DEF LedgerInv

\* A rollback returns to a counter that covers the grants.
LEMMA CancelAcquireKeeps ==
  ASSUME LedgerInv, QuotaTypeOK', CancelAcquire PROVE LedgerInv'
<1> USE DEF clock, ledger, storage, ghosts
<1>0. QuotaTypeOK BY DEF LedgerInv
<1>1. TimeInv'
  BY <1>0, Numbers, HolderFields DEF CancelAcquire, RollBack, LedgerInv, TimeInv
<1>2. RecordsInv'
  <2>1. Pending' \subseteq Pending
    BY DEF CancelAcquire, RollBack, Pending
  <2>2. ASSUME NEW r0 \in Pending PROVE SoundRecord(r0)'
    <3>1. SoundRecord(r0)
      BY DEF LedgerInv, RecordsInv
    <3> QED BY <1>0, Numbers, HolderFields, <3>1, PendingType DEF CancelAcquire, RollBack, LedgerInv, TimeInv, CountersInv, HolderInv, SoundRecord, HolderRecord
  <2> QED BY <2>1, <2>2 DEF RecordsInv
<1>3. CountersInv'
  BY <1>0, Numbers, HolderFields DEF CancelAcquire, RollBack, LedgerInv, TimeInv, CountersInv, HolderInv
<1>4. HolderInv'
  BY <1>0, Numbers, HolderFields DEF CancelAcquire, RollBack, LedgerInv, HolderInv, HolderRecord
<1>5. GrantsInv'
  BY <1>0, Numbers, HolderFields DEF CancelAcquire, RollBack, LedgerInv, GrantsInv
<1> QED BY <1>1, <1>2, <1>3, <1>4, <1>5 DEF LedgerInv

\* Reading the counter rolls it.
LEMMA PeekKeeps ==
  ASSUME LedgerInv, QuotaTypeOK', Peek PROVE LedgerInv'
<1> USE DEF clock, ledger, storage, ghosts
<1>0. QuotaTypeOK BY DEF LedgerInv
<1>r. ~refused => /\ Rolled \in Nat /\ Covers(granted, window, Rolled)
                  /\ granted[window] <= Rolled /\ Rolled <= limit
  BY RolledCovers DEF LockFree, Peek
<1>q. Rolled \in Nat /\ window \in Windows /\ granted \in [Windows -> Nat]
  BY <1>0 DEF QuotaTypeOK, Rolled
<1>p. Rolled = 0
  BY DEF Peek, Rolled
<1>1. TimeInv'
  BY <1>0, Numbers, HolderFields, <1>r, <1>q, <1>p DEF Peek, LockFree, LedgerInv, TimeInv
<1>2. RecordsInv'
  <2>1. Pending' \subseteq Pending
    BY DEF Peek, LockFree, Pending
  <2>2. ASSUME NEW r0 \in Pending PROVE SoundRecord(r0)'
    <3>1. SoundRecord(r0)
      BY DEF LedgerInv, RecordsInv
    <3> QED BY <1>0, Numbers, HolderFields, <1>r, <1>q, <1>p, <3>1, PendingType DEF Peek, LockFree, LedgerInv, TimeInv, CountersInv, HolderInv, SoundRecord, HolderRecord
  <2> QED BY <2>1, <2>2 DEF RecordsInv
<1>3. CountersInv'
  BY <1>0, Numbers, HolderFields, <1>r, <1>q, <1>p DEF Peek, LockFree, LedgerInv, TimeInv, CountersInv
<1>4. HolderInv'
  BY <1>0, Numbers, HolderFields, <1>r, <1>q, <1>p DEF Peek, LockFree, LedgerInv, HolderInv, HolderRecord
<1>5. GrantsInv'
  BY <1>0, Numbers, HolderFields, <1>r, <1>q, <1>p DEF Peek, LockFree, LedgerInv, GrantsInv
<1> QED BY <1>1, <1>2, <1>3, <1>4, <1>5 DEF LedgerInv

\* A checkpoint takes an instant.
LEMMA CheckpointBeginKeeps ==
  ASSUME LedgerInv, QuotaTypeOK', CheckpointBegin PROVE LedgerInv'
<1> USE DEF clock, ledger, storage, ghosts
<1>0. QuotaTypeOK BY DEF LedgerInv
<1>1. TimeInv'
  BY <1>0, Numbers, HolderFields DEF CheckpointBegin, TakeInstant, LedgerInv, TimeInv
<1>2. RecordsInv'
  <2>1. Pending' \subseteq Pending
    BY DEF CheckpointBegin, TakeInstant, Pending
  <2>2. ASSUME NEW r0 \in Pending PROVE SoundRecord(r0)'
    <3>1. SoundRecord(r0)
      BY DEF LedgerInv, RecordsInv
    <3> QED BY <1>0, Numbers, HolderFields, <3>1, PendingType DEF CheckpointBegin, TakeInstant, LedgerInv, TimeInv, CountersInv, HolderInv, SoundRecord, HolderRecord
  <2> QED BY <2>1, <2>2 DEF RecordsInv
<1>3. CountersInv'
  BY <1>0, Numbers, HolderFields DEF CheckpointBegin, TakeInstant, LedgerInv, TimeInv, CountersInv
<1>4. HolderInv'
  BY <1>0, Numbers, HolderFields DEF CheckpointBegin, TakeInstant, LedgerInv, HolderInv, HolderRecord
<1>5. GrantsInv'
  BY <1>0, Numbers, HolderFields DEF CheckpointBegin, TakeInstant, LedgerInv, GrantsInv
<1> QED BY <1>1, <1>2, <1>3, <1>4, <1>5 DEF LedgerInv

\* A checkpoint records a counter that covers the grants, with an older instant.
LEMMA CheckpointReadKeeps ==
  ASSUME LedgerInv, QuotaTypeOK', CheckpointRead PROVE LedgerInv'
<1> USE DEF clock, ledger, storage, ghosts
<1>0. QuotaTypeOK BY DEF LedgerInv
<1>r. ~refused => /\ Rolled \in Nat /\ Covers(granted, window, Rolled)
                  /\ granted[window] <= Rolled /\ Rolled <= limit
  BY RolledCovers DEF LockFree, CheckpointRead
<1>q. Rolled \in Nat /\ window \in Windows /\ granted \in [Windows -> Nat]
  BY <1>0 DEF QuotaTypeOK, Rolled
<1>p. /\ Pending' \subseteq Pending \cup {Record(Rolled, checkpoint)}
  <2>1. checkpoint \in 1..LastInstant /\ Put(Record(Rolled, checkpoint))
    BY <1>0 DEF CheckpointRead, QuotaTypeOK
  <2> QED BY <2>1, <1>0, <1>q, PutRecord, RecordType
<1>1. TimeInv'
  BY <1>0, Numbers, HolderFields, <1>r, <1>q DEF CheckpointRead, LockFree, Record, LedgerInv, TimeInv
<1>2. RecordsInv'
  <2>0. SUFFICES ASSUME NEW r0 \in Pending' PROVE SoundRecord(r0)'
    BY DEF RecordsInv
  <2>1. r0 \in Pending \/ r0 = Record(Rolled, checkpoint)
    BY <1>p
  <2>2. CASE r0 \in Pending
    <3>1. SoundRecord(r0)
      BY <2>2 DEF LedgerInv, RecordsInv
    <3> QED BY <1>0, <3>1, <2>2, PendingType, Numbers DEF CheckpointRead, LockFree, TakeInstant, SoundRecord, HolderRecord
  <2>3. CASE r0 = Record(Rolled, checkpoint)
    BY <1>0, <1>r, <1>q, <2>3, Numbers DEF CheckpointRead, LockFree, TakeInstant, SoundRecord, HolderRecord, Record, Ceiling, LedgerInv, TimeInv
  <2> QED BY <2>1, <2>2, <2>3
<1>3. CountersInv'
  BY <1>0, Numbers, HolderFields, <1>r, <1>q DEF CheckpointRead, LockFree, Record, LedgerInv, TimeInv, CountersInv
<1>4. HolderInv'
  BY <1>0, Numbers, HolderFields, <1>r, <1>q DEF CheckpointRead, LockFree, Record, LedgerInv, HolderInv, HolderRecord
<1>5. GrantsInv'
  BY <1>0, Numbers, HolderFields, <1>r, <1>q DEF CheckpointRead, LockFree, Record, LedgerInv, GrantsInv
<1> QED BY <1>1, <1>2, <1>3, <1>4, <1>5 DEF LedgerInv

\* A waiting record moves to the queue.
LEMMA PutLandsKeeps ==
  ASSUME LedgerInv, QuotaTypeOK', NEW r \in blocked, PutLands(r) PROVE LedgerInv'
<1> USE DEF clock, ledger, storage, ghosts
<1>0. QuotaTypeOK BY DEF LedgerInv
<1>1. TimeInv'
  BY <1>0, Numbers, HolderFields DEF PutLands, LedgerInv, TimeInv
<1>2. RecordsInv'
  <2>1. Pending' \subseteq Pending
    <3>1. /\ queue \in Seq(Records) /\ r \in Records /\ Len(queue) \in Nat
        BY <1>0 DEF QuotaTypeOK, PutLands
    <3>2. /\ Len(Append(queue, r)) = Len(queue) + 1
          /\ \A i \in 1..Len(Append(queue, r)) : Append(queue, r)[i] = IF i <= Len(queue) THEN queue[i] ELSE r
      BY <3>1, QueueOps
    <3> QED BY <3>1, <3>2 DEF PutLands, Pending
  <2>2. ASSUME NEW r0 \in Pending PROVE SoundRecord(r0)'
    <3>1. SoundRecord(r0)
      BY DEF LedgerInv, RecordsInv
    <3> QED BY <1>0, Numbers, HolderFields, <3>1, PendingType DEF PutLands, LedgerInv, TimeInv, CountersInv, HolderInv, SoundRecord, HolderRecord
  <2> QED BY <2>1, <2>2 DEF RecordsInv
<1>3. CountersInv'
  BY <1>0, Numbers, HolderFields DEF PutLands, LedgerInv, TimeInv, CountersInv
<1>4. HolderInv'
  BY <1>0, Numbers, HolderFields DEF PutLands, LedgerInv, HolderInv, HolderRecord
<1>5. GrantsInv'
  BY <1>0, Numbers, HolderFields DEF PutLands, LedgerInv, GrantsInv
<1> QED BY <1>1, <1>2, <1>3, <1>4, <1>5 DEF LedgerInv

\* A record that finds no room is dropped, and its caller told.
LEMMA PutTimesOutKeeps ==
  ASSUME LedgerInv, QuotaTypeOK', NEW r \in blocked, PutTimesOut(r) PROVE LedgerInv'
<1> USE DEF clock, ledger, storage, ghosts
<1>0. QuotaTypeOK BY DEF LedgerInv
<1>n. /\ holder' = Idle <=> holder = Idle
      /\ holder # Idle => /\ holder'.at = holder.at /\ holder'.cost = holder.cost
                          /\ holder'.plain = holder.plain /\ holder'.start = holder.start
                          /\ holder'.used = holder.used
                          /\ holder'.phase = "committed" => holder.phase = "committed"
  BY <1>0, SettleHolder DEF PutTimesOut
<1>1. TimeInv'
  BY <1>0, <1>n, Numbers, HolderFields DEF PutTimesOut, LedgerInv, TimeInv
<1>2. RecordsInv'
  <2>1. Pending' \subseteq Pending
    BY DEF PutTimesOut, Pending
  <2>2. ASSUME NEW r0 \in Pending PROVE SoundRecord(r0)'
    <3>1. SoundRecord(r0)
      BY DEF LedgerInv, RecordsInv
    <3> QED BY <1>0, <1>n, Numbers, HolderFields, <3>1, PendingType DEF PutTimesOut, LedgerInv, TimeInv, CountersInv, HolderInv, SoundRecord, HolderRecord
  <2> QED BY <2>1, <2>2 DEF RecordsInv
<1>3. CountersInv'
  BY <1>0, <1>n, Numbers, HolderFields DEF PutTimesOut, LedgerInv, TimeInv, CountersInv
<1>4. HolderInv'
  BY <1>0, <1>n, Numbers, HolderFields DEF PutTimesOut, LedgerInv, HolderInv, HolderRecord
<1>5. GrantsInv'
  BY <1>0, <1>n, Numbers, HolderFields DEF PutTimesOut, LedgerInv, GrantsInv
<1> QED BY <1>1, <1>2, <1>3, <1>4, <1>5 DEF LedgerInv

\* The row is replaced by a record that covers the grants, or kept.
LEMMA CommitKeeps ==
  ASSUME LedgerInv, QuotaTypeOK', Commit PROVE LedgerInv'
<1> USE DEF clock, ledger, storage, ghosts
<1>0. QuotaTypeOK BY DEF LedgerInv
<1> DEFINE h == Head(queue)
<1>n. /\ holder' = Idle <=> holder = Idle
      /\ holder # Idle => /\ holder'.at = holder.at /\ holder'.cost = holder.cost
                          /\ holder'.plain = holder.plain /\ holder'.start = holder.start
                          /\ holder'.used = holder.used
                          /\ holder'.phase = IF holder.at = h.at THEN "committed" ELSE holder.phase
  BY <1>0, SettleHolder DEF Commit
<1>v. /\ window' = window /\ instant' = instant /\ up' = up /\ limit' = limit /\ bound' = bound
      /\ start' = start /\ used' = used /\ checkpoint' = checkpoint /\ blocked' = blocked
      /\ granted' = granted /\ plain' = plain /\ refused' = refused
      /\ queue' = Tail(queue) /\ queue # <<>> /\ durable' = IF h.at >= durable.at THEN h ELSE durable
  BY DEF Commit, Upsert
<1>h. h \in Pending /\ SoundRecord(h) /\ Pending' \subseteq Pending
  BY <1>0, <1>v, PendingHead DEF LedgerInv, RecordsInv
<1>t. h \in Records /\ h.start \in Nat /\ h.used \in Nat /\ h.limit \in Nat /\ h.at \in Nat
  BY <1>0, <1>h, PendingType
<1>a. durable.at <= durable'.at
  BY <1>0, <1>v, <1>t, Numbers, SMTT(30)
<1> HIDE DEF h
<1>1. TimeInv'
  <2>1. durable'.start <= window /\ durable'.at <= instant
    BY <1>h, <1>v DEF SoundRecord, LedgerInv, TimeInv
  <2>2. up
    BY <1>v DEF LedgerInv, TimeInv
  <2> QED BY <1>0, <1>n, <1>v, <2>1, <2>2 DEF LedgerInv, TimeInv
<1>2. RecordsInv'
  <2>2. ASSUME NEW r0 \in Pending PROVE SoundRecord(r0)'
    <3>1. SoundRecord(r0)
      BY DEF LedgerInv, RecordsInv
    <3>2. r0.at >= durable'.at => r0.at >= durable.at
      BY <1>0, <1>a, <1>v, <1>t, PendingType, Numbers, SMTT(30)
    <3> QED BY <1>n, <1>v, <3>1, <3>2 DEF SoundRecord, HolderRecord
  <2> QED BY <1>h, <2>2 DEF RecordsInv
<1>3. CountersInv'
  BY <1>h, <1>v DEF LedgerInv, CountersInv, SoundRecord
<1>4. HolderInv'
  <2>1. SUFFICES ASSUME ~refused, holder # Idle
                 PROVE  /\ durable'.at <= holder.at
                        /\ holder'.phase = "committed" => durable' = HolderRecord
    BY <1>n, <1>v DEF LedgerInv, HolderInv, HolderRecord
  <2>2. holder.at \in Nat /\ durable.at <= holder.at /\ h.at <= holder.at
    BY <1>0, <2>1, <1>h, HolderFields DEF LedgerInv, HolderInv, SoundRecord
  <2>3. durable'.at <= holder.at
    BY <1>v, <2>2
  <2>4. CASE holder.at = h.at
    <3>1. h = HolderRecord
      BY <2>1, <2>4, <1>h DEF SoundRecord
    <3>2. durable' = h
      BY <2>2, <2>4, <1>v, <1>0, Numbers
    <3> QED BY <2>3, <3>1, <3>2
  <2>5. CASE holder.at # h.at
    <3>1. ASSUME holder'.phase = "committed" PROVE durable' = HolderRecord
      <4>1. holder.phase = "committed" /\ durable = HolderRecord
        BY <3>1, <2>1, <2>5, <1>n DEF LedgerInv, HolderInv
      <4>2. durable.at = holder.at
        BY <4>1 DEF HolderRecord
      <4>3. ~(h.at >= durable.at)
        BY <4>2, <2>2, <2>5, <1>t
      <4> QED BY <4>1, <4>3, <1>v
    <3> QED BY <2>3, <3>1
  <2> QED BY <2>4, <2>5
<1>5. GrantsInv'
  BY <1>v DEF LedgerInv, GrantsInv
<1> QED BY <1>1, <1>2, <1>3, <1>4, <1>5 DEF LedgerInv

\* A record that the writer loses is dropped, and its caller told.
LEMMA CommitFailsKeeps ==
  ASSUME LedgerInv, QuotaTypeOK', CommitFails PROVE LedgerInv'
<1> USE DEF clock, ledger, storage, ghosts
<1>0. QuotaTypeOK BY DEF LedgerInv
<1>n. /\ holder' = Idle <=> holder = Idle
      /\ holder # Idle => /\ holder'.at = holder.at /\ holder'.cost = holder.cost
                          /\ holder'.plain = holder.plain /\ holder'.start = holder.start
                          /\ holder'.used = holder.used
                          /\ holder'.phase = "committed" => holder.phase = "committed"
  BY <1>0, SettleHolder DEF CommitFails
<1>1. TimeInv'
  BY <1>0, <1>n, Numbers, HolderFields DEF CommitFails, LedgerInv, TimeInv
<1>2. RecordsInv'
  <2>1. Pending' \subseteq Pending
    BY <1>0, PendingHead DEF CommitFails
  <2>2. ASSUME NEW r0 \in Pending PROVE SoundRecord(r0)'
    <3>1. SoundRecord(r0)
      BY DEF LedgerInv, RecordsInv
    <3> QED BY <1>0, <1>n, Numbers, HolderFields, <3>1, PendingType DEF CommitFails, LedgerInv, TimeInv, CountersInv, HolderInv, SoundRecord, HolderRecord
  <2> QED BY <2>1, <2>2 DEF RecordsInv
<1>3. CountersInv'
  BY <1>0, <1>n, Numbers, HolderFields DEF CommitFails, LedgerInv, TimeInv, CountersInv
<1>4. HolderInv'
  BY <1>0, <1>n, Numbers, HolderFields DEF CommitFails, LedgerInv, HolderInv, HolderRecord
<1>5. GrantsInv'
  BY <1>0, <1>n, Numbers, HolderFields DEF CommitFails, LedgerInv, GrantsInv
<1> QED BY <1>1, <1>2, <1>3, <1>4, <1>5 DEF LedgerInv

\* A new window has no grants.
LEMMA NextWindowKeeps ==
  ASSUME LedgerInv, QuotaTypeOK', NextWindow PROVE LedgerInv'
<1> USE DEF clock, ledger, storage, ghosts
<1>0. QuotaTypeOK BY DEF LedgerInv
<1>1. TimeInv'
  BY <1>0, Numbers, HolderFields, SMTT(30) DEF NextWindow, LedgerInv, TimeInv
<1>2. RecordsInv'
  <2>1. Pending' \subseteq Pending
    BY DEF NextWindow, Pending
  <2>2. ASSUME NEW r0 \in Pending PROVE SoundRecord(r0)'
    <3>1. SoundRecord(r0)
      BY DEF LedgerInv, RecordsInv
    <3> QED BY <1>0, Numbers, HolderFields, <3>1, PendingType DEF NextWindow, LedgerInv, TimeInv, CountersInv, HolderInv, SoundRecord, HolderRecord
  <2> QED BY <2>1, <2>2 DEF RecordsInv
<1>3. CountersInv'
  BY <1>0, Numbers, HolderFields DEF NextWindow, LedgerInv, TimeInv, CountersInv
<1>4. HolderInv'
  BY <1>0, Numbers, HolderFields DEF NextWindow, LedgerInv, HolderInv, HolderRecord
<1>5. GrantsInv'
  BY <1>0, Numbers, HolderFields DEF NextWindow, LedgerInv, GrantsInv
<1> QED BY <1>1, <1>2, <1>3, <1>4, <1>5 DEF LedgerInv

\* A crash loses the pending records, and no grant.
LEMMA CrashKeeps ==
  ASSUME LedgerInv, QuotaTypeOK', Crash PROVE LedgerInv'
<1> USE DEF clock, ledger, storage, ghosts
<1>0. QuotaTypeOK BY DEF LedgerInv
<1>1. TimeInv'
  BY <1>0, Numbers, HolderFields DEF Crash, LedgerInv, TimeInv
<1>2. RecordsInv'
  BY DEF Crash, Pending, RecordsInv
<1>3. CountersInv'
  BY <1>0, Numbers, HolderFields DEF Crash, LedgerInv, TimeInv, CountersInv
<1>4. HolderInv'
  BY <1>0, Numbers, HolderFields DEF Crash, LedgerInv, HolderInv, HolderRecord
<1>5. GrantsInv'
  BY <1>0, Numbers, HolderFields DEF Crash, LedgerInv, GrantsInv
<1> QED BY <1>1, <1>2, <1>3, <1>4, <1>5 DEF LedgerInv

\* A start restores what the row has counted.
LEMMA BootKeeps ==
  ASSUME LedgerInv, QuotaTypeOK', NEW l \in Limits, Boot(l) PROVE LedgerInv'
<1> USE DEF clock, ledger, storage, ghosts
<1>0. QuotaTypeOK BY DEF LedgerInv
<1>v. /\ window' = window /\ instant' = instant /\ up' = TRUE /\ limit' = l /\ bound' = TRUE
      /\ start' = window /\ used' = (IF durable.start = window THEN durable.used ELSE 0)
      /\ durable' = durable /\ granted' = granted /\ plain' = plain /\ refused' = refused
      /\ (durable = NoRecord \/ durable.limit = l)
  BY DEF Boot
<1>t. /\ granted \in [Windows -> Nat] /\ window \in Windows /\ durable.start \in Windows
      /\ l \in Nat /\ Reserve \in Nat /\ Reserve < l
  BY <1>0, DurableFields, QuotaAssumption DEF QuotaTypeOK
<1>w. ~refused => Covers(granted, window, used')
  <2>1. durable.start <= window
    BY DEF LedgerInv, TimeInv
  <2>2. used' \in Nat /\ (window > durable.start \/ (window = durable.start /\ used' >= durable.used))
    BY <1>0, <1>v, <2>1, Numbers
  <2> QED BY <1>0, <1>t, <2>2, Numbers, CoversMore DEF LedgerInv, CountersInv
<1>l. ~refused /\ durable # NoRecord => limit = l
  BY <1>v DEF LedgerInv, CountersInv
<1>z. ~refused /\ durable = NoRecord => \A w \in Windows : granted[w] = 0
  <2> SUFFICES ASSUME ~refused, durable = NoRecord, NEW w \in Windows PROVE granted[w] = 0
    OBVIOUS
  <2>1. durable.start = 0 /\ durable.used = 0 /\ Covers(granted, 0, 0)
    BY DEF NoRecord, LedgerInv, CountersInv
  <2>2. w \in Nat /\ granted[w] \in Nat
    BY <1>0, Numbers
  <2> QED BY <2>1, <2>2 DEF Covers
<1>s. durable = NoRecord => durable.used = 0
  BY DEF NoRecord
<1>1. TimeInv'
  BY <1>0, Numbers, HolderFields DEF Boot, LedgerInv, TimeInv
<1>2. RecordsInv'
  BY DEF Boot, LedgerInv, TimeInv, RecordsInv, Pending
<1>3. CountersInv'
  <2>1. ~refused => used' <= l
    BY <1>0, <1>v, <1>l, <1>t, <1>s, Numbers DEF LedgerInv, CountersInv
  <2> QED BY <1>v, <1>w, <1>l, <2>1 DEF LedgerInv, CountersInv
<1>4. HolderInv'
  BY DEF Boot, LedgerInv, TimeInv, HolderInv
<1>5. GrantsInv'
  <2>1. CASE durable = NoRecord
    BY <1>0, <1>v, <1>z, <1>t, <2>1, Numbers DEF LedgerInv, GrantsInv
  <2>2. CASE durable # NoRecord
    BY <1>v, <1>l, <2>2 DEF LedgerInv, GrantsInv
  <2> QED BY <2>1, <2>2
<1> QED BY <1>1, <1>2, <1>3, <1>4, <1>5 DEF LedgerInv

\* A refused start ends what the properties promise.
LEMMA BootRefusedKeeps ==
  ASSUME LedgerInv, QuotaTypeOK', NEW l \in Limits, BootRefused(l) PROVE LedgerInv'
<1> USE DEF clock, ledger, storage, ghosts
<1>0. QuotaTypeOK BY DEF LedgerInv
<1>n. ~up /\ blocked = {} /\ holder = Idle
  BY DEF BootRefused, LedgerInv, TimeInv
<1>1. TimeInv'
  BY <1>0, Numbers, HolderFields, <1>n DEF BootRefused, TakeInstant, LedgerInv, TimeInv
<1>2. RecordsInv'
  <2> DEFINE r0 == [start |-> window, used |-> 0, limit |-> l, at |-> instant']
  <2>1. Pending' = {r0}
    <3>1. queue' = <<r0>> /\ blocked' = {}
      BY <1>n DEF BootRefused
    <3> QED BY <3>1 DEF Pending
  <2>2. SUFFICES ASSUME NEW x \in Pending' PROVE SoundRecord(x)'
    BY DEF RecordsInv
  <2>3. x.at = instant' /\ x.start = window
    BY <2>1
  <2>4. window' = window /\ refused' = TRUE /\ window \in Nat /\ instant' \in Nat
    BY <1>0, Numbers DEF BootRefused, TakeInstant
  <2> QED BY <2>3, <2>4 DEF SoundRecord
<1>3. CountersInv'
  BY <1>0, Numbers, HolderFields, <1>n DEF BootRefused, TakeInstant, LedgerInv, TimeInv, CountersInv
<1>4. HolderInv'
  BY <1>0, Numbers, HolderFields, <1>n DEF BootRefused, TakeInstant, LedgerInv, HolderInv, HolderRecord
<1>5. GrantsInv'
  BY <1>0, Numbers, HolderFields, <1>n DEF BootRefused, TakeInstant, LedgerInv, GrantsInv
<1> QED BY <1>1, <1>2, <1>3, <1>4, <1>5 DEF LedgerInv

\* Every step keeps the invariant.
LEMMA LedgerStep ==
  ASSUME LedgerInv, [QuotaNext]_quotaVars PROVE LedgerInv'
<1>0. QuotaTypeOK /\ QuotaTypeOK'
  BY TypeStep DEF LedgerInv
<1>1. CASE UNCHANGED quotaVars
  BY <1>0, <1>1 DEF quotaVars, clock, ledger, storage, ghosts, LedgerInv, TimeInv, RecordsInv,
     Pending, SoundRecord, HolderRecord, CountersInv, HolderInv, GrantsInv
<1>2. ASSUME NEW c \in Costs, NEW b \in BOOLEAN, Deny(c, b) \/ Reserving(c, b) \/ GrantUnbound(c, b)
      PROVE  LedgerInv'
  BY <1>0, <1>2, DenyKeeps, ReservingKeeps, GrantUnboundKeeps
<1>3. CASE Grant \/ PersistFails \/ CancelAcquire \/ Peek
  BY <1>0, <1>3, GrantKeeps, CancelAcquireKeeps, PeekKeeps DEF PersistFails, CancelAcquire
<1>4. CASE CheckpointBegin \/ CheckpointRead
  BY <1>0, <1>4, CheckpointBeginKeeps, CheckpointReadKeeps
<1>5. CASE PutSettles \/ Commit \/ CommitFails
  BY <1>0, <1>5, PutLandsKeeps, PutTimesOutKeeps, CommitKeeps, CommitFailsKeeps DEF PutSettles
<1>6. CASE NextWindow \/ Crash
  BY <1>0, <1>6, NextWindowKeeps, CrashKeeps
<1>7. ASSUME NEW l \in Limits, Boot(l) \/ BootRefused(l) PROVE LedgerInv'
  BY <1>0, <1>7, BootKeeps, BootRefusedKeeps
<1> QED BY <1>1, <1>2, <1>3, <1>4, <1>5, <1>6, <1>7 DEF QuotaNext

\* The first state: nothing granted, nothing under way.
LEMMA LedgerStarts == QuotaInit => LedgerInv
<1> SUFFICES ASSUME QuotaInit PROVE LedgerInv
  OBVIOUS
<1>1. QuotaTypeOK
  <2>1. /\ window \in Windows /\ instant \in 0..LastInstant /\ crashes \in 0..Crashes
        /\ start \in Windows /\ used \in Nat /\ checkpoint \in 0..LastInstant
    BY QuotaAssumption DEF QuotaInit, Windows
  <2>2. queue \in Seq(Records) /\ Len(queue) <= Capacity
    BY QuotaAssumption DEF QuotaInit
  <2>3. granted \in [Windows -> Nat] /\ plain \in [Windows -> Nat]
    BY DEF QuotaInit
  <2> QED BY <2>1, <2>2, <2>3 DEF QuotaInit, QuotaTypeOK
<1>2. TimeInv /\ RecordsInv /\ HolderInv
  BY DEF QuotaInit, TimeInv, RecordsInv, HolderInv, Pending, NoRecord
<1>3. CountersInv /\ GrantsInv
  BY <1>1, QuotaAssumption, Numbers DEF QuotaInit, CountersInv, GrantsInv, Covers
<1> QED BY <1>1, <1>2, <1>3 DEF LedgerInv

\* Every state the ledger can reach satisfies the invariant.
THEOREM LedgerInvariant == QuotaSpec => []LedgerInv
<1>1. QuotaInit => LedgerInv
  BY LedgerStarts
<1>2. LedgerInv /\ [QuotaNext]_quotaVars => LedgerInv'
  BY LedgerStep
<1> QED BY <1>1, <1>2, PTL DEF QuotaSpec

-----------------------------------------------------------------------------
(* The results.                                                            *)

\* The fields of QuotaBudget, the records and the row keep their types.
THEOREM QuotaTypeCorrect == QuotaSpec => []QuotaTypeOK
<1>1. LedgerInv => QuotaTypeOK
  BY DEF LedgerInv
<1> QED BY <1>1, LedgerInvariant, PTL

\* quota.py, acquire(): however writes fail, callers are cancelled and the
\* process stops and starts, neither the limit nor the reserve for quotes is
\* exceeded in any window while no start has refused the row.
THEOREM BudgetIsKept == QuotaSpec => []BudgetKept
<1>1. LedgerInv => BudgetKept
  BY DEF LedgerInv, GrantsInv, BudgetKept, GrantsWithinLimit, ReserveKept
<1> QED BY <1>1, LedgerInvariant, PTL

\* quota.py, _persist_reservation before the grant: the row of SQLite has
\* counted every credit that was granted.
THEOREM GrantsAreDurable == QuotaSpec => []DurableCoversGrants
<1>1. LedgerInv => DurableCoversGrants
  BY DEF LedgerInv, CountersInv, DurableCoversGrants, Covers
<1> QED BY <1>1, LedgerInvariant, PTL

(***************************************************************************)
(* The provider router, for every chain of providers, every number of      *)
(* clients, keys and flights, and every threshold and backoff.             *)
(*                                                                         *)
(* The three properties hold together: a probe can only be traced to its   *)
(* flight if a flight that calls has a place in the chain, and a flight    *)
(* can only be traced to its key if nothing but an ended flight is ever    *)
(* forgotten.                                                              *)
(***************************************************************************)

CircuitStates == [fails : Nat, opens : Nat, until : 0..(LastTime + MaxBackoff), probing : BOOLEAN]

FlightStates == [key : Keys, state : States, at : 0..Len(Chain), partial : BOOLEAN, probe : BOOLEAN]

\* One circuit is open exactly when it has failed often enough.
OpensInTime(c) == c.until > 0 <=> c.fails >= Threshold

\* A flight that calls has a provider.
CallsArePlaced ==
  \A i \in 1..started : flight[i].state = "calling" => flight[i].at \in 1..Len(Chain)

\* Only flights that have ended wait for their cleanup.
CleanedHaveEnded == \A i \in cleanup : Done(i)

RouterInv ==
  /\ RouterTypeOK
  /\ CallsArePlaced
  /\ CleanedHaveEnded
  /\ ProbeIsUnderWay
  /\ OpenAfterThreshold
  /\ RunningIsShared

-----------------------------------------------------------------------------
(* Arithmetic.                                                             *)

\* A set of natural numbers has a least element.
LEMMA LeastExists ==
  ASSUME NEW T \in SUBSET Nat, T # {} PROVE \E x \in T : \A y \in T : x <= y
<1>1. PICK x \in T : \A y \in T : ~ (<<y, x>> \in OpToRel(<, Nat))
  BY NatLessThanWellFounded, WFMin
<1>2. ASSUME NEW y \in T PROVE x <= y
  <2>1. <<y, x>> \in Nat \X Nat /\ <<y, x>>[1] = y /\ <<y, x>>[2] = x
    OBVIOUS
  <2>2. ~(y < x)
    BY <2>1, <1>1 DEF OpToRel
  <2> QED BY <2>2
<1> QED BY <1>2

\* A power of two is positive.
LEMMA PowerPositive ==
  ASSUME NEW n \in Nat PROVE 2^n \in Nat \ {0}
<1>1. IsFiniteSet(1..n) /\ Cardinality(1..n) = n
  BY FS_Interval
<1>2. IsFiniteSet(SUBSET (1..n)) /\ Cardinality(SUBSET (1..n)) = 2^n
  BY <1>1, FS_SUBSET
<1>3. Cardinality(SUBSET (1..n)) \in Nat /\ Cardinality(SUBSET (1..n)) # 0
  BY <1>2, FS_CardinalityType, FS_EmptySet
<1> QED BY <1>2, <1>3

\* The exponential backoff is at least one time unit and at most the largest.
LEMMA BackoffBounds ==
  ASSUME NEW n \in Nat PROVE Min2(MaxBackoff, HalfOpenAfter * 2^n) \in 1..MaxBackoff
<1>1. PICK k \in Nat \ {0} : k = 2^n
  BY PowerPositive
<1>2. HalfOpenAfter * k \in Nat \ {0}
  BY RouterAssumption
<1>3. Min2(MaxBackoff, HalfOpenAfter * k) \in 1..MaxBackoff
  BY <1>2, RouterAssumption DEF Min2
<1> QED BY <1>1, <1>3

-----------------------------------------------------------------------------
(* Circuits.                                                               *)

\* The end of a call leaves a circuit that is not probed, and open exactly
\* when it has failed often enough.
LEMMA VerdictSound ==
  ASSUME now \in 1..LastTime, NEW c \in CircuitStates, OpensInTime(c), NEW n \in BOOLEAN
  PROVE  /\ Closed \in CircuitStates /\ ~Closed.probing /\ OpensInTime(Closed)
         /\ Unjudged(c) \in CircuitStates /\ ~Unjudged(c).probing /\ OpensInTime(Unjudged(c))
         /\ Failed(c, n) \in CircuitStates /\ ~Failed(c, n).probing /\ OpensInTime(Failed(c, n))
<1>0. c.fails \in Nat /\ c.opens \in Nat /\ c.until \in Nat /\ c.until \in 0..(LastTime + MaxBackoff)
      /\ LastTime \in Nat /\ MaxBackoff \in Nat /\ Threshold \in Nat \ {0}
  BY RouterAssumption DEF CircuitStates
<1>1. Closed \in CircuitStates /\ ~Closed.probing /\ OpensInTime(Closed)
  BY <1>0 DEF Closed, CircuitStates, OpensInTime
<1>2. Unjudged(c) \in CircuitStates /\ ~Unjudged(c).probing /\ OpensInTime(Unjudged(c))
  BY <1>0 DEF Unjudged, CircuitStates, OpensInTime
<1>3. Failed(c, n) \in CircuitStates /\ ~Failed(c, n).probing /\ OpensInTime(Failed(c, n))
  <2> DEFINE f == [c EXCEPT !.probing = FALSE, !.fails = @ + 1]
             delay == IF n THEN NetworkRetry ELSE Min2(MaxBackoff, HalfOpenAfter * 2^(c.opens))
  <2>1. delay \in 1..MaxBackoff
    BY <1>0, BackoffBounds, RouterAssumption
  <2>2. f \in CircuitStates /\ ~f.probing /\ f.fails = c.fails + 1 /\ f.until = c.until /\ f.opens = c.opens
    <3>1. \A d \in CircuitStates : [d EXCEPT !.fails = @ + 1] \in CircuitStates
      BY DEF CircuitStates
    <3>2. [c EXCEPT !.probing = FALSE] \in CircuitStates
      BY DEF CircuitStates
    <3>3. f = [[c EXCEPT !.probing = FALSE] EXCEPT !.fails = @ + 1]
      OBVIOUS
    <3>4. f \in CircuitStates
      BY <3>1, <3>2, <3>3
    <3> QED BY <3>4 DEF CircuitStates
  <2>3. Failed(c, n) = IF f.fails < Threshold /\ c.until <= 0 THEN f
                       ELSE [f EXCEPT !.opens = @ + 1, !.until = now + delay]
    BY DEF Failed
  <2> HIDE DEF f, delay
  <2>4. CASE f.fails < Threshold /\ c.until <= 0
    BY <1>0, <2>2, <2>3, <2>4 DEF OpensInTime
  <2>5. CASE ~(f.fails < Threshold /\ c.until <= 0)
    <3> DEFINE g == [f EXCEPT !.opens = @ + 1, !.until = now + delay]
    <3>1. now + delay \in 0..(LastTime + MaxBackoff) /\ now + delay > 0
      BY <2>1, <1>0
    <3>2. g \in CircuitStates /\ g.probing = f.probing /\ g.fails = f.fails /\ g.until = now + delay
      <4>1. \A d \in CircuitStates, u \in 0..(LastTime + MaxBackoff) : [d EXCEPT !.until = u] \in CircuitStates
        BY DEF CircuitStates
      <4>2. [f EXCEPT !.opens = @ + 1] \in CircuitStates
        BY <2>2 DEF CircuitStates
      <4>3. g = [[f EXCEPT !.opens = @ + 1] EXCEPT !.until = now + delay]
        OBVIOUS
      <4>4. g \in CircuitStates
        BY <3>1, <4>1, <4>2, <4>3
      <4> QED BY <2>2, <4>4 DEF CircuitStates
    <3>3. f.fails >= Threshold
      BY <1>0, <2>2, <2>5 DEF OpensInTime
    <3> QED BY <2>2, <2>3, <2>5, <3>1, <3>2, <3>3 DEF OpensInTime
  <2> QED BY <2>4, <2>5
<1> QED BY <1>1, <1>2, <1>3

\* A circuit that admits a call is probed only if it is open.
LEMMA AdmittedSound ==
  ASSUME NEW c \in CircuitStates, OpensInTime(c)
  PROVE  /\ Admitted(c) \in CircuitStates /\ OpensInTime(Admitted(c))
         /\ Admitted(c).probing => c.probing \/ c.until > 0
BY DEF Admitted, CircuitStates, OpensInTime

-----------------------------------------------------------------------------
(* Flights.                                                                *)

\* The next provider to call is a place in the chain, or past its end.
LEMMA NextPlace ==
  ASSUME NEW circuits, NEW j \in 1..(Len(Chain) + 1)
  PROVE  NextCallable(circuits, j) \in 1..(Len(Chain) + 1)
<1> DEFINE ok == {i \in j..Len(Chain) : Allows(circuits[Chain[i]])}
<1>0. Len(Chain) \in Nat
  BY RouterAssumption
<1>1. CASE ok = {}
  BY <1>0, <1>1 DEF NextCallable
<1>2. CASE ok # {}
  <2>1. ok \in SUBSET Nat /\ ok \subseteq 1..Len(Chain)
    BY <1>0
  <2>2. Min(ok) \in ok
    BY <1>2, <2>1, LeastExists DEF Min
  <2> QED BY <1>0, <1>2, <2>1, <2>2 DEF NextCallable
<1> QED BY <1>1, <1>2

\* A new flight is the last of the flights.
LEMMA AppendFlight ==
  ASSUME NEW S, NEW n \in Nat, NEW f \in [1..n -> S], NEW x \in S
  PROVE  Append(f, x) = [i \in 1..(n + 1) |-> IF i = n + 1 THEN x ELSE f[i]]
<1>1. f \in Seq(S) /\ Len(f) = n
  BY SeqDef, LenProperties
<1>2. /\ Append(f, x) \in Seq(S) /\ Len(Append(f, x)) = n + 1
      /\ \A i \in 1..(n + 1) : Append(f, x)[i] = IF i = n + 1 THEN x ELSE f[i]
  BY <1>1
<1>3. Append(f, x) \in [1..(n + 1) -> S]
  BY <1>2, LenProperties
<1> QED BY <1>2, <1>3

\* What the type invariant says in these names.
LEMMA RouterTypes ==
  RouterTypeOK <=> /\ now \in 1..LastTime
                   /\ circuit \in [Providers -> CircuitStates]
                   /\ flights \in [Keys -> 0..started]
                   /\ started \in 0..MaxFlights
                   /\ flight \in [1..started -> FlightStates]
                   /\ cleanup \subseteq 1..started
                   /\ client \in [Clients -> 0..started]
                   /\ closed \in BOOLEAN
BY DEF RouterTypeOK, CircuitStates, FlightStates

\* What flight i may leave behind when a call of it has ended: circuits that
\* open in time, and no mark of its own probe.
SoundCircuits(circuits, i) ==
  /\ circuits \in [Providers -> CircuitStates]
  /\ \A p \in Providers : OpensInTime(circuits[p])
  /\ \A p \in Providers : circuits[p].probing =>
        circuit[p].probing /\ ~(flight[i].state = "calling" /\ Chain[flight[i].at] = p)

\* Flight i changes, and the circuits with it; the map of the flights does not.
LEMMA FlightChange ==
  ASSUME RouterInv, NEW i \in 1..started, ~Done(i), NEW f \in FlightStates,
         UNCHANGED Elsewhere,
         flight' = [flight EXCEPT ![i] = f], f.key = flight[i].key,
         f.state = "calling" => f.at \in 1..Len(Chain),
         circuit' \in [Providers -> CircuitStates],
         \A p \in Providers : OpensInTime(circuit'[p]),
         \A p \in Providers : circuit'[p].probing =>
            \/ circuit[p].probing /\ ~(flight[i].state = "calling" /\ Chain[flight[i].at] = p)
            \/ f.state = "calling" /\ Chain[f.at] = p /\ f.probe,
         cleanup' = cleanup \/ (cleanup' = cleanup \cup {i} /\ f.state \in {"ok", "failed", "cancelled"})
  PROVE  RouterInv'
<1>0. /\ now' = now /\ flights' = flights /\ started' = started /\ client' = client /\ closed' = closed
      /\ started \in Nat /\ DOMAIN flight = 1..started /\ DOMAIN flight' = 1..started
      /\ flight'[i] = f /\ \A j \in 1..started : j # i => flight'[j] = flight[j]
  BY RouterTypes, RouterAssumption DEF Elsewhere, RouterInv
<1>1. RouterTypeOK'
  <2>1. flight' \in [1..started -> FlightStates] /\ cleanup' \subseteq 1..started
    BY RouterTypes DEF RouterInv
  <2> QED BY <1>0, <2>1, RouterTypes DEF RouterInv, RouterTypeOK, CircuitStates, FlightStates
<1>2. CallsArePlaced'
  BY <1>0 DEF RouterInv, CallsArePlaced
<1>3. CleanedHaveEnded'
  <2>1. \A j \in cleanup : j \in 1..started /\ j # i
    BY RouterTypes DEF RouterInv, CleanedHaveEnded
  <2> QED BY <1>0, <2>1 DEF RouterInv, CleanedHaveEnded, Done
<1>4. ProbeIsUnderWay'
  <2>1. SUFFICES ASSUME ~closed, NEW p \in Providers, circuit'[p].probing
                 PROVE  \E j \in DOMAIN flight' : /\ Calling(j)' /\ Provider(j)' = p
                                                  /\ flight'[j].probe
    BY <1>0 DEF ProbeIsUnderWay
  <2>2. CASE f.state = "calling" /\ Chain[f.at] = p /\ f.probe
    BY <1>0, <2>2 DEF Calling, Provider
  <2>3. CASE circuit[p].probing /\ ~(flight[i].state = "calling" /\ Chain[flight[i].at] = p)
    <3>1. PICK j \in DOMAIN flight : Calling(j) /\ Provider(j) = p /\ flight[j].probe
      BY <2>1, <2>3 DEF RouterInv, ProbeIsUnderWay
    <3>2. j # i
      BY <2>3, <3>1 DEF Calling, Provider
    <3> QED BY <1>0, <3>1, <3>2 DEF Calling, Provider
  <2> QED BY <2>1, <2>2, <2>3
<1>5. OpenAfterThreshold'
  BY DEF OpenAfterThreshold, OpensInTime
<1>6. RunningIsShared'
  <2>1. ASSUME NEW j \in DOMAIN flight', Running(j)' PROVE flights'[flight'[j].key] = j
    <3>1. j \in 1..started /\ flight'[j].key = flight[j].key
      BY <1>0, <2>1
    <3>2. Running(j)
      BY <1>0, <2>1, <3>1 DEF Running, Done
    <3> QED BY <1>0, <3>1, <3>2 DEF RouterInv, RunningIsShared
  <2> QED BY <2>1 DEF RunningIsShared
<1> QED BY <1>1, <1>2, <1>3, <1>4, <1>5, <1>6 DEF RouterInv

\* A flight that goes on: it calls the next provider, or has no more.
LEMMA ContinueKeeps ==
  ASSUME RouterInv, NEW i \in 1..started, ~Done(i), UNCHANGED Elsewhere,
         NEW circuits, SoundCircuits(circuits, i), NEW j \in 1..(Len(Chain) + 1),
         NEW partial \in BOOLEAN, Continue(i, circuits, j, partial)
  PROVE  RouterInv'
<1> DEFINE at == NextCallable(circuits, j)
           ended == at > Len(Chain)
           out == Ended(flight[i], IF partial THEN "ok" ELSE "failed")
           on == [flight[i] EXCEPT !.at = at, !.partial = partial, !.state = "calling",
                                   !.probe = circuits[Chain[at]].until > 0]
<1>0. /\ circuit' = IF ended THEN circuits ELSE [circuits EXCEPT ![Chain[at]] = Admitted(@)]
      /\ flight' = [flight EXCEPT ![i] = IF ended THEN out ELSE on]
      /\ cleanup' = IF ended THEN cleanup \cup {i} ELSE cleanup
  BY DEF Continue
<1>1. at \in 1..(Len(Chain) + 1) /\ Len(Chain) \in Nat /\ flight[i] \in FlightStates
  BY NextPlace, RouterTypes, RouterAssumption DEF RouterInv
<1> HIDE DEF at
<1>2. CASE ended
  <2>1. out \in FlightStates /\ out.key = flight[i].key /\ out.state \in {"ok", "failed"}
    BY <1>1 DEF Ended, FlightStates, States
  <2>2. out.state # "calling" /\ out.state \in {"ok", "failed", "cancelled"}
    BY <2>1
  <2>3. /\ circuit' = circuits /\ cleanup' = cleanup \cup {i}
        /\ flight' = [flight EXCEPT ![i] = out]
    BY <1>0, <1>2
  <2> HIDE DEF out, ended
  <2> QED BY <2>1, <2>2, <2>3, FlightChange DEF SoundCircuits
<1>3. CASE ~ended
  <2> DEFINE p == Chain[at]
  <2>1. at \in 1..Len(Chain) /\ p \in Providers
    BY <1>1, <1>3, RouterAssumption
  <2>2. /\ on \in FlightStates /\ on.key = flight[i].key /\ on.state = "calling" /\ on.at = at
        /\ on.probe = (circuits[p].until > 0)
    <3>1. \A g \in FlightStates : [g EXCEPT !.at = at] \in FlightStates
      BY <2>1 DEF FlightStates
    <3>2. \A g \in FlightStates : [g EXCEPT !.partial = partial] \in FlightStates
      BY DEF FlightStates
    <3>3. \A g \in FlightStates : [g EXCEPT !.state = "calling"] \in FlightStates
      BY DEF FlightStates, States
    <3>4. \A g \in FlightStates, b \in BOOLEAN : [g EXCEPT !.probe = b] \in FlightStates
      BY DEF FlightStates
    <3>5. on = [[[[flight[i] EXCEPT !.at = at] EXCEPT !.partial = partial]
                   EXCEPT !.state = "calling"] EXCEPT !.probe = circuits[Chain[at]].until > 0]
      OBVIOUS
    <3>6. on \in FlightStates
      <4>1. [[[flight[i] EXCEPT !.at = at] EXCEPT !.partial = partial]
               EXCEPT !.state = "calling"] \in FlightStates
        BY <1>1, <3>1, <3>2, <3>3
      <4>2. (circuits[Chain[at]].until > 0) \in BOOLEAN
        OBVIOUS
      <4> QED BY <3>4, <3>5, <4>1, <4>2
    <3>7. /\ on.key = flight[i].key /\ on.state = "calling" /\ on.at = at
          /\ on.probe = (circuits[p].until > 0)
      BY <1>1 DEF FlightStates
    <3> QED BY <3>6, <3>7
  <2>3. /\ circuit' = [circuits EXCEPT ![p] = Admitted(circuits[p])] /\ cleanup' = cleanup
        /\ flight' = [flight EXCEPT ![i] = on]
    BY <1>0, <1>3
  <2>4. /\ circuits[p] \in CircuitStates /\ OpensInTime(circuits[p])
        /\ circuits \in [Providers -> CircuitStates]
    BY <2>1 DEF SoundCircuits
  <2>5. /\ circuit' \in [Providers -> CircuitStates]
        /\ \A q \in Providers : OpensInTime(circuit'[q])
    BY <2>1, <2>3, <2>4, AdmittedSound DEF SoundCircuits
  <2>6. ASSUME NEW q \in Providers, circuit'[q].probing
        PROVE  \/ circuit[q].probing /\ ~(flight[i].state = "calling" /\ Chain[flight[i].at] = q)
               \/ on.state = "calling" /\ Chain[on.at] = q /\ on.probe
    <3>1. CASE q = p
      <4>1. circuit'[q] = Admitted(circuits[p])
        BY <2>1, <2>3, <2>4, <3>1
      <4>2. circuits[p].probing \/ circuits[p].until > 0
        BY <2>4, <2>6, <4>1, AdmittedSound
      <4> QED BY <2>2, <3>1, <4>2 DEF SoundCircuits
    <3>2. CASE q # p
      BY <2>3, <2>4, <2>6, <3>2 DEF SoundCircuits
    <3> QED BY <3>1, <3>2
  <2> HIDE DEF on, ended
  <2> QED BY <2>1, <2>2, <2>3, <2>5, <2>6, FlightChange
<1> QED BY <1>2, <1>3

\* A flight that ends.
LEMMA FinishKeeps ==
  ASSUME RouterInv, NEW i \in 1..started, ~Done(i), UNCHANGED Elsewhere,
         NEW circuits, SoundCircuits(circuits, i),
         NEW state \in {"ok", "failed"}, Finish(i, circuits, state)
  PROVE  RouterInv'
<1> DEFINE out == Ended(flight[i], state)
<1>1. flight[i] \in FlightStates
  BY RouterTypes DEF RouterInv
<1>2. out \in FlightStates /\ out.key = flight[i].key /\ out.state \in {"ok", "failed"}
  BY <1>1, RouterAssumption DEF Ended, FlightStates, States
<1>3. out.state # "calling" /\ out.state \in {"ok", "failed", "cancelled"}
  BY <1>2
<1>4. circuit' = circuits /\ cleanup' = cleanup \cup {i} /\ flight' = [flight EXCEPT ![i] = out]
  BY DEF Finish
<1> HIDE DEF out
<1> QED BY <1>2, <1>3, <1>4, FlightChange DEF SoundCircuits

\* The verdict on a call leaves sound circuits.
LEMMA VerdictCircuits ==
  ASSUME RouterInv, NEW i \in 1..started, Calling(i), NEW c \in CircuitStates,
         OpensInTime(c), ~c.probing
  PROVE  SoundCircuits(Circuits(i, c), i)
<1>1. /\ circuit \in [Providers -> CircuitStates] /\ Provider(i) \in Providers
      /\ \A p \in Providers : OpensInTime(circuit[p])
  <2>1. flight[i].at \in 1..Len(Chain)
    BY DEF RouterInv, CallsArePlaced, Calling
  <2> QED BY <2>1, RouterTypes, RouterAssumption DEF RouterInv, Provider, OpenAfterThreshold, OpensInTime
<1> QED BY <1>1 DEF SoundCircuits, Circuits, Provider

\* Every step of a flight keeps the invariant.
LEMMA FlightStep ==
  ASSUME RouterInv, NEW i \in Ids, FlightStarts(i) \/ CallEnds(i) PROVE RouterInv'
<1>0. /\ DOMAIN flight = 1..started /\ circuit \in [Providers -> CircuitStates]
      /\ now \in 1..LastTime /\ Len(Chain) \in Nat /\ Len(Chain) > 0
      /\ \A p \in Providers : OpensInTime(circuit[p])
  BY RouterTypes, RouterAssumption DEF RouterInv, OpenAfterThreshold, OpensInTime
<1>1. ASSUME FlightStarts(i) PROVE RouterInv'
  <2>1. i \in 1..started /\ flight[i].state = "new" /\ ~Done(i) /\ UNCHANGED Elsewhere
    BY <1>0, <1>1 DEF FlightStarts, Done
  <2>2. SoundCircuits(circuit, i)
    BY <1>0, <2>1 DEF SoundCircuits
  <2>3. 1 \in 1..(Len(Chain) + 1)
    BY <1>0
  <2>4. Continue(i, circuit, 1, FALSE)
    BY <1>1 DEF FlightStarts
  <2> QED BY <2>1, <2>2, <2>3, <2>4, ContinueKeeps
<1>2. ASSUME CallEnds(i) PROVE RouterInv'
  <2>1. /\ i \in 1..started /\ Calling(i) /\ ~Done(i) /\ UNCHANGED Elsewhere
    BY <1>0, <1>2 DEF CallEnds, CallSucceeds, CallIncomplete, CallFails, CallUnsupported, CallBusy,
                      Calling, Done
  <2>2. flight[i].at + 1 \in 1..(Len(Chain) + 1) /\ Provider(i) \in Providers
    BY <1>0, <2>1, RouterAssumption, SMTT(30) DEF RouterInv, CallsArePlaced, Calling, Provider
  <2>3. flight[i].partial \in BOOLEAN
    BY <2>1, RouterTypes DEF RouterInv, FlightStates
  <2>4. circuit[Provider(i)] \in CircuitStates /\ OpensInTime(circuit[Provider(i)])
    BY <1>0, <2>2
  <2>5. SoundCircuits(Circuits(i, Closed), i) /\ SoundCircuits(Circuits(i, Unjudged(circuit[Provider(i)])), i)
    BY <1>0, <2>1, <2>4, VerdictSound, VerdictCircuits
  <2>6. \A n \in BOOLEAN : SoundCircuits(Circuits(i, Failed(circuit[Provider(i)], n)), i)
    BY <1>0, <2>1, <2>4, VerdictSound, VerdictCircuits
  <2>7. CASE CallSucceeds(i)
    BY <2>1, <2>5, <2>7, FinishKeeps DEF CallSucceeds
  <2>8. CASE CallIncomplete(i)
    <3>1. PICK some \in BOOLEAN :
            Continue(i, Circuits(i, Closed), flight[i].at + 1, flight[i].partial \/ some)
      BY <2>8 DEF CallIncomplete
    <3>2. (flight[i].partial \/ some) \in BOOLEAN
      OBVIOUS
    <3> QED BY <2>1, <2>2, <2>5, <3>1, <3>2, ContinueKeeps
  <2>9. CASE CallFails(i)
    <3>1. PICK n \in BOOLEAN :
            Continue(i, Circuits(i, Failed(circuit[Provider(i)], n)), flight[i].at + 1, flight[i].partial)
      BY <2>9 DEF CallFails
    <3> QED BY <2>1, <2>2, <2>3, <2>6, <3>1, ContinueKeeps
  <2>10. CASE CallUnsupported(i)
    BY <2>1, <2>2, <2>3, <2>5, <2>10, ContinueKeeps DEF CallUnsupported
  <2>11. CASE CallBusy(i)
    BY <2>1, <2>5, <2>11, FinishKeeps DEF CallBusy
  <2> QED BY <1>2, <2>7, <2>8, <2>9, <2>10, <2>11 DEF CallEnds
<1> QED BY <1>1, <1>2

-----------------------------------------------------------------------------
(* Clients, the map of the flights, and close().                           *)

\* The flights stay as they are, and the map still leads to those that run.
LEMMA MapChange ==
  ASSUME RouterInv, RouterTypeOK', UNCHANGED <<circuit, started, flight>>,
         cleanup' \subseteq cleanup, closed' = closed,
         \A i \in 1..started : Running(i) => flights'[flight[i].key] = i
  PROVE  RouterInv'
<1>0. DOMAIN flight = 1..started
  BY RouterTypes DEF RouterInv
<1>1. CallsArePlaced' /\ CleanedHaveEnded' /\ OpenAfterThreshold'
  BY DEF RouterInv, CallsArePlaced, CleanedHaveEnded, OpenAfterThreshold, Done
<1>2. ProbeIsUnderWay'
  BY DEF RouterInv, ProbeIsUnderWay, Calling, Provider
<1>3. RunningIsShared'
  BY <1>0 DEF RunningIsShared, Running, Done
<1> QED BY <1>1, <1>2, <1>3 DEF RouterInv

\* Forgetting a flight that has ended leads nobody astray.
LEMMA ForgetKeeps ==
  ASSUME RouterInv, NEW i \in 1..started, Done(i), flights' = Forget(i)
  PROVE  /\ flights' \in [Keys -> 0..started]
         /\ \A j \in 1..started : Running(j) => flights'[flight[j].key] = j
<1>0. /\ flights \in [Keys -> 0..started] /\ DOMAIN flight = 1..started
      /\ \A j \in 1..started : flight[j].key \in Keys
      /\ started \in Nat
  BY RouterTypes, RouterAssumption DEF RouterInv, FlightStates
<1>1. flights' \in [Keys -> 0..started]
  BY <1>0 DEF Forget
<1>2. ASSUME NEW j \in 1..started, Running(j) PROVE flights'[flight[j].key] = j
  <2>1. j # i /\ flights[flight[j].key] = j
    BY <1>0, <1>2 DEF Running, RouterInv, RunningIsShared
  <2> QED BY <1>0, <2>1 DEF Forget
<1> QED BY <1>1, <1>2

\* A client that asks joins the flight of its key, or starts the only one.
LEMMA AskKeeps ==
  ASSUME RouterInv, NEW c \in Clients, NEW k \in Keys, Ask(c, k) PROVE RouterInv'
<1>0. /\ flights \in [Keys -> 0..started] /\ DOMAIN flight = 1..started /\ started \in Nat
      /\ \A j \in 1..started : flight[j].key \in Keys
      /\ client \in [Clients -> 0..started] /\ flight \in [1..started -> FlightStates]
      /\ MaxFlights \in Nat
  BY RouterTypes, RouterAssumption DEF RouterInv, FlightStates
<1>1. CASE flights[k] # 0
  <2>1. /\ client' = [client EXCEPT ![c] = flights[k]] /\ flights' = flights
        /\ UNCHANGED <<now, circuit, started, flight, cleanup, closed>>
    BY <1>1 DEF Ask
  <2>2. client' \in [Clients -> 0..started]
    BY <1>0, <2>1
  <2>3. RouterTypeOK'
    BY <2>1, <2>2, RouterTypes DEF RouterInv, RouterTypeOK
  <2>4. \A i \in 1..started : Running(i) => flights'[flight[i].key] = i
    BY <1>0, <2>1 DEF RouterInv, RunningIsShared
  <2> QED BY <2>1, <2>3, <2>4, MapChange
<1>2. CASE flights[k] = 0
  <2> DEFINE f == [key |-> k, state |-> "new", at |-> 0, partial |-> FALSE, probe |-> FALSE]
             n == started + 1
  <2>1. /\ started < MaxFlights /\ started' = n /\ flight' = Append(flight, f)
        /\ flights' = [flights EXCEPT ![k] = n] /\ client' = [client EXCEPT ![c] = n]
        /\ UNCHANGED <<now, circuit, cleanup, closed>>
    BY <1>2 DEF Ask
  <2>2. f \in FlightStates
    BY RouterAssumption DEF FlightStates, States
  <2>3. /\ flight' \in [1..n -> FlightStates] /\ DOMAIN flight' = 1..n
        /\ \A i \in 1..n : flight'[i] = IF i = n THEN f ELSE flight[i]
    <3> HIDE DEF f
    <3>1. Append(flight, f) = [i \in 1..(started + 1) |-> IF i = started + 1 THEN f ELSE flight[i]]
      <4>1. flight \in [1..started -> FlightStates] /\ started \in Nat
        BY <1>0
      <4> QED BY ONLY <2>2, <4>1, AppendFlight
    <3>2. flight' = [i \in 1..n |-> IF i = n THEN f ELSE flight[i]]
      BY <2>1, <3>1
    <3> QED BY <1>0, <2>2, <3>2
  <2>4. /\ n \in 0..MaxFlights /\ 0..started \subseteq 0..n /\ 1..started \subseteq 1..n
        /\ n \notin 1..started /\ n \in 1..n /\ \A i \in 1..n : i # n => i \in 1..started
    BY <1>0, <2>1
  <2>5. f.key = k /\ f.state = "new"
    OBVIOUS
  <2> HIDE DEF f, n
  <2>6. /\ flights' \in [Keys -> 0..n] /\ client' \in [Clients -> 0..n] /\ cleanup \subseteq 1..n
    BY <1>0, <2>1, <2>4, RouterTypes DEF RouterInv
  <2>7. RouterTypeOK'
    BY <2>1, <2>3, <2>4, <2>6, RouterTypes DEF RouterInv, RouterTypeOK, FlightStates
  <2>8. CallsArePlaced'
    BY <2>1, <2>3, <2>4, <2>5 DEF RouterInv, CallsArePlaced
  <2>9. CleanedHaveEnded'
    BY <2>1, <2>3, <2>4, RouterTypes DEF RouterInv, CleanedHaveEnded, Done
  <2>10. ProbeIsUnderWay'
    <3>1. SUFFICES ASSUME ~closed, NEW p \in Providers, circuit[p].probing
                   PROVE  \E j \in DOMAIN flight' : Calling(j)' /\ Provider(j)' = p /\ flight'[j].probe
      BY <2>1 DEF ProbeIsUnderWay
    <3>2. PICK j \in DOMAIN flight : Calling(j) /\ Provider(j) = p /\ flight[j].probe
      BY <3>1 DEF RouterInv, ProbeIsUnderWay
    <3>3. j \in 1..n /\ flight'[j] = flight[j]
      BY <1>0, <2>3, <2>4, <3>2
    <3> QED BY <2>3, <3>2, <3>3 DEF Calling, Provider
  <2>11. OpenAfterThreshold'
    BY <2>1 DEF RouterInv, OpenAfterThreshold
  <2>12. RunningIsShared'
    <3>1. SUFFICES ASSUME NEW i \in 1..n, Running(i)' PROVE flights'[flight'[i].key] = i
      BY <2>3 DEF RunningIsShared
    <3>2. CASE i = n
      BY <1>0, <2>1, <2>3, <2>5, <3>2
    <3>3. CASE i # n
      <4>1. i \in 1..started /\ flight'[i] = flight[i]
        BY <2>3, <2>4, <3>3
      <4>2. Running(i)
        BY <1>0, <3>1, <4>1 DEF Running, Done
      <4>3. flights[flight[i].key] = i /\ flight[i].key # k
        BY <1>0, <1>2, <4>1, <4>2 DEF RouterInv, RunningIsShared
      <4> QED BY <1>0, <2>1, <4>1, <4>3
    <3> QED BY <3>2, <3>3
  <2> QED BY <2>7, <2>8, <2>9, <2>10, <2>11, <2>12 DEF RouterInv
<1> QED BY <1>1, <1>2

\* A client that leaves, with or without an answer, and the cleanup task.
LEMMA LeaveKeeps ==
  ASSUME RouterInv, NEW c \in Clients, Answered(c) \/ CancelClient(c) PROVE RouterInv'
<1>0. /\ flights \in [Keys -> 0..started] /\ DOMAIN flight = 1..started /\ started \in Nat
      /\ client \in [Clients -> 0..started]
  BY RouterTypes, RouterAssumption DEF RouterInv
<1>1. client' \in [Clients -> 0..started] /\ UNCHANGED <<now, circuit, started, flight, cleanup, closed>>
  BY <1>0 DEF Answered, CancelClient
<1>2. flights' \in [Keys -> 0..started] /\ \A i \in 1..started : Running(i) => flights'[flight[i].key] = i
  <2>1. CASE Answered(c)
    <3>1. client[c] \in 1..started /\ Done(client[c]) /\ flights' = Forget(client[c])
      BY <1>0, <2>1 DEF Answered
    <3> QED BY <3>1, ForgetKeeps
  <2>2. CASE CancelClient(c)
    BY <1>0, <2>2 DEF CancelClient, RouterInv, RunningIsShared
  <2> QED BY <2>1, <2>2
<1>3. RouterTypeOK'
  BY <1>1, <1>2, RouterTypes DEF RouterInv, RouterTypeOK
<1> QED BY <1>1, <1>2, <1>3, MapChange

\* _cleanup_flight: only flights that have ended are forgotten.
LEMMA CleanUpKeeps ==
  ASSUME RouterInv, NEW i \in Ids, CleanUp(i) PROVE RouterInv'
<1>1. i \in cleanup /\ i \in 1..started /\ Done(i) /\ flights' = Forget(i)
  BY RouterTypes DEF CleanUp, RouterInv, CleanedHaveEnded
<1>2. cleanup' \subseteq cleanup /\ UNCHANGED <<now, circuit, started, flight, client, closed>>
  BY DEF CleanUp
<1>3. flights' \in [Keys -> 0..started] /\ \A j \in 1..started : Running(j) => flights'[flight[j].key] = j
  BY <1>1, ForgetKeeps
<1>4. RouterTypeOK'
  BY <1>2, <1>3, RouterTypes DEF RouterInv, RouterTypeOK
<1> QED BY <1>2, <1>3, <1>4, MapChange

\* close(): the map leads to every flight that runs, so none is left.
LEMMA CloseKeeps ==
  ASSUME RouterInv, Close PROVE RouterInv'
<1> DEFINE dying == {i \in Range(flights) : i # 0 /\ ~Done(i)}
<1>0. /\ flights \in [Keys -> 0..started] /\ DOMAIN flight = 1..started /\ started \in Nat
      /\ flight \in [1..started -> FlightStates] /\ cleanup \subseteq 1..started
      /\ \A j \in 1..started : flight[j].key \in Keys
  BY RouterTypes, RouterAssumption DEF RouterInv, FlightStates
<1>1. /\ flight' = [i \in 1..started |-> IF i \in dying THEN Ended(flight[i], "cancelled") ELSE flight[i]]
      /\ cleanup' = cleanup \cup dying /\ flights' = [k \in Keys |-> 0] /\ closed' = TRUE
      /\ UNCHANGED <<now, circuit, started, client>>
  BY <1>0 DEF Close
<1>2. dying \subseteq 1..started /\ \A j \in 1..started : Running(j) => j \in dying
  <2>1. Range(flights) \subseteq 0..started
    BY <1>0 DEF Range
  <2>2. ASSUME NEW j \in 1..started, Running(j) PROVE j \in dying
    <3>1. flights[flight[j].key] = j /\ flight[j].key \in DOMAIN flights
      BY <1>0, <2>2 DEF RouterInv, RunningIsShared
    <3> QED BY <1>0, <2>2, <3>1 DEF Range, Running
  <2> QED BY <1>0, <2>1, <2>2
<1> HIDE DEF dying
<1>3. \A f \in FlightStates : /\ Ended(f, "cancelled") \in FlightStates
                              /\ Ended(f, "cancelled").state = "cancelled"
  BY RouterAssumption DEF Ended, FlightStates, States
<1>4. RouterTypeOK'
  <2>1. flight' \in [1..started -> FlightStates] /\ cleanup' \subseteq 1..started
    BY <1>0, <1>1, <1>2, <1>3
  <2>2. flights' \in [Keys -> 0..started]
    BY <1>0, <1>1
  <2> QED BY <1>1, <2>1, <2>2, RouterTypes DEF RouterInv, RouterTypeOK, FlightStates
<1>5. \A i \in 1..started : flight'[i].state \in {"ok", "failed", "cancelled"}
  BY <1>0, <1>1, <1>2, <1>3 DEF Running, Done
<1>6. CallsArePlaced' /\ CleanedHaveEnded' /\ RunningIsShared'
  <2>1. started' = started /\ DOMAIN flight' = 1..started /\ cleanup' \subseteq 1..started
    BY <1>0, <1>1, <1>2
  <2> QED BY <1>5, <2>1 DEF CallsArePlaced, CleanedHaveEnded, RunningIsShared, Running, Done
<1>7. ProbeIsUnderWay' /\ OpenAfterThreshold'
  BY <1>1 DEF RouterInv, ProbeIsUnderWay, OpenAfterThreshold
<1> QED BY <1>4, <1>6, <1>7 DEF RouterInv

\* Every step keeps the invariant.
LEMMA RouterStep ==
  ASSUME RouterInv, [RouterNext]_routerVars PROVE RouterInv'
<1>1. CASE UNCHANGED routerVars
  BY <1>1 DEF routerVars, RouterInv, RouterTypeOK, CallsArePlaced, CleanedHaveEnded, ProbeIsUnderWay,
     OpenAfterThreshold, RunningIsShared, Running, Done, Calling, Provider
<1>2. CASE Tick
  <2>1. now' \in 1..LastTime
    BY <1>2, RouterTypes, RouterAssumption DEF RouterInv, Tick
  <2>2. RouterTypeOK'
    BY <1>2, <2>1, RouterTypes DEF RouterInv, RouterTypeOK, Tick
  <2>3. \A i \in 1..started : Running(i) => flights'[flight[i].key] = i
    BY <1>2 DEF Tick, RouterInv, RunningIsShared, Running
  <2> QED BY <1>2, <2>2, <2>3, MapChange DEF Tick
<1> QED BY <1>1, <1>2, AskKeeps, LeaveKeeps, FlightStep, CleanUpKeeps, CloseKeeps DEF RouterNext

\* The first state: no flight, and every circuit closed.
LEMMA RouterStarts == RouterInit => RouterInv
<1> SUFFICES ASSUME RouterInit PROVE RouterInv
  OBVIOUS
<1>1. Closed \in CircuitStates /\ ~Closed.probing /\ OpensInTime(Closed)
  BY RouterAssumption DEF Closed, CircuitStates, OpensInTime
<1>2. RouterTypeOK
  <2>1. started = 0 /\ 1..started = {} /\ flight \in [1..started -> FlightStates] /\ 0 \in 0..started
    BY DEF RouterInit
  <2>2. now \in 1..LastTime /\ started \in 0..MaxFlights
    BY RouterAssumption DEF RouterInit
  <2> QED BY <1>1, <2>1, <2>2, RouterTypes DEF RouterInit
<1>3. DOMAIN flight = {} /\ 1..started = {} /\ cleanup = {}
  BY DEF RouterInit
<1>4. CallsArePlaced /\ CleanedHaveEnded /\ RunningIsShared
  BY <1>3 DEF CallsArePlaced, CleanedHaveEnded, RunningIsShared
<1>5. ProbeIsUnderWay /\ OpenAfterThreshold
  BY <1>1 DEF RouterInit, ProbeIsUnderWay, OpenAfterThreshold, OpensInTime
<1> QED BY <1>2, <1>4, <1>5 DEF RouterInv

\* Every state the router can reach satisfies the invariant.
THEOREM RouterInvariant == RouterSpec => []RouterInv
<1>1. RouterInit => RouterInv
  BY RouterStarts
<1>2. RouterInv /\ [RouterNext]_routerVars => RouterInv'
  BY RouterStep
<1> QED BY <1>1, <1>2, PTL DEF RouterSpec

-----------------------------------------------------------------------------
(* The results.                                                            *)

\* The circuits, the flights and the map of router.py keep their types; in
\* particular no backoff outlasts max_backoff_seconds.
THEOREM RouterTypeCorrect == RouterSpec => []RouterTypeOK
<1>1. RouterInv => RouterTypeOK
  BY DEF RouterInv
<1> QED BY <1>1, RouterInvariant, PTL

\* router.py, _allow_call and _record_failure: a provider is never locked out
\* by a probe that nobody carries out, and opens at the threshold.
THEOREM CircuitsAreSound == RouterSpec => []CircuitsSound
<1>1. RouterInv => CircuitsSound
  BY DEF RouterInv, CircuitsSound
<1> QED BY <1>1, RouterInvariant, PTL

\* router.py, _execute: two flights of the same request never run at once.
THEOREM FlightsAreShared == RouterSpec => []RunningIsShared
<1>1. RouterInv => RunningIsShared
  BY DEF RouterInv
<1> QED BY <1>1, RouterInvariant, PTL
=============================================================================
