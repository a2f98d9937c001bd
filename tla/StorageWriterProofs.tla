------------------------ MODULE StorageWriterProofs ------------------------
(***************************************************************************)
(* Proofs about StorageWriter for every number of tasks, callers and       *)
(* writes and every queue and batch size: no accepted history write is     *)
(* lost silently.                                                          *)
(*                                                                         *)
(* LossReported is not inductive.  A barrier says something about the      *)
(* writes in front of it only because queue and batch keep their order,    *)
(* and stop() because nothing is queued behind its mark; WriterInv says    *)
(* where every write that was accepted is, and which task still has to     *)
(* answer for it.                                                          *)
(***************************************************************************)
EXTENDS StorageWriter, TLAPS, SequenceTheorems, WellFoundedInduction

-----------------------------------------------------------------------------
(* What the invariant says about a sequence of envelopes.                  *)

In(s, e) == \E i \in 1..Len(s) : s[i] = e

\* The envelopes that history task t sends.
Mine(e, t) == e.by = t /\ e.kind \in {"async", "barrier"}
Free(s, t) == \A i \in 1..Len(s) : ~Mine(s[i], t)

\* Behind its barrier a task has sent nothing.
EndsWithBarrier(s, t) ==
  \A i, j \in 1..Len(s) : s[i] = Barrier(t) /\ i < j => ~Mine(s[j], t)

\* Behind the mark of stop() there is no history write.
Clean(s) == \A i \in 1..Len(s) : s[i] \notin AsyncWrites
Closed(s) == \A i, j \in 1..Len(s) : s[i] = StopMark /\ i < j => s[j] \notin AsyncWrites

-----------------------------------------------------------------------------
(* The inductive invariant.                                                *)

\* A task that may still have to answer for one of its writes.
Liable == {"putting", "open", "waiting", "failed"}
Settled == durable \cup lost \cup reported

(* What a task's status says about the service and about an envelope of    *)
(* its that waits for room.                                                *)
TaskInv ==
  /\ thread = "none" => /\ stopper = "idle" /\ queue = <<>> /\ blocked = {} /\ reported = {}
                        /\ \A t \in Tasks : status[t] = "idle"
  /\ \A t \in Tasks :
       /\ status[t] # "cancelled"
       /\ status[t] = "idle" => sent[t] = 0
       /\ status[t] = "failed" => ~ready
       /\ \A n \in 1..Writes : Write(t, n) \in blocked => sent[t] + 1 = n
       /\ Barrier(t) \in blocked => sent[t] = Writes
  /\ \A e \in blocked : e.by \in Tasks => status[e.by] = "putting"

(* Where the writes that were accepted are. *)
WritesInv ==
  \A t \in Tasks : \A n \in 1..Writes :
    /\ n <= sent[t] =>
         Write(t, n) \in Settled \/ In(batch, Write(t, n)) \/ In(queue, Write(t, n))
    /\ In(batch, Write(t, n)) \/ In(queue, Write(t, n)) \/ Write(t, n) \in lost =>
         status[t] \in Liable

(* A barrier is the last envelope of its task. *)
BarrierInv ==
  \A t \in Tasks :
    /\ EndsWithBarrier(batch, t) /\ EndsWithBarrier(queue, t)
    /\ In(batch, Barrier(t)) => Free(queue, t)
    /\ In(batch, Barrier(t)) \/ In(queue, Barrier(t)) =>
         status[t] = "waiting" /\ sent[t] = Writes

(* A loss is unreported, or somebody knows of it. *)
LossInv ==
  /\ lost # {} => unreported
  /\ reported # {} => ~ready \/ \E t \in Tasks : status[t] = "refused"
  /\ FlushCovers

(* The writer has a batch while it collects or processes one.  stop()      *)
(* begins when no history task is under way, and nothing of theirs is      *)
(* queued behind its mark.                                                 *)
StopInv ==
  /\ batch = <<>> <=> thread \in {"none", "get", "exited"}
  /\ stopper \in {"idle", "putting"} =>
       thread # "exited" /\ ~stopSeen /\ ~In(queue, StopMark)
  /\ stopper \in {"putting", "joining"} => stopping
  /\ stopper \in {"putting", "joining", "ok"} => \A t \in Tasks : ~Outstanding(t)
  /\ stopper = "joining" =>
       Closed(queue) /\ (thread = "exited" \/ stopSeen => Clean(queue))
  /\ stopper = "ok" => thread = "exited" /\ StopReportsLoss

WriterInv == TypeOK /\ TaskInv /\ WritesInv /\ BarrierInv /\ LossInv /\ StopInv

-----------------------------------------------------------------------------
(* Envelopes.                                                              *)

(* Who sent an envelope and what kind it has. *)
LEMMA EnvelopeKinds ==
  /\ \A t \in Tasks : \A n \in 1..Writes :
       /\ Write(t, n) \in AsyncWrites /\ Write(t, n) \in Envelopes /\ Mine(Write(t, n), t)
       /\ Write(t, n).by = t /\ Write(t, n).kind = "async" /\ Write(t, n).n = n
       /\ Write(t, n) # StopMark /\ ~IsControl(Write(t, n))
  /\ \A t \in Tasks :
       /\ Barrier(t) \in Envelopes /\ Mine(Barrier(t), t) /\ Barrier(t) \notin AsyncWrites
       /\ Barrier(t).by = t /\ Barrier(t).kind = "barrier"
       /\ Barrier(t) # StopMark /\ IsControl(Barrier(t))
  /\ \A e \in Envelopes :
       /\ e # StopMark /\ e.kind \in {"async", "waited", "barrier", "checkpoint"}
       /\ e.by \in Everyone
       /\ e.kind = "async" => e \in AsyncWrites
       /\ e \in AsyncWrites => e.kind = "async" /\ e.by \in Tasks /\ e.n \in 1..Writes
                                 /\ e = Write(e.by, e.n)
       /\ e.kind = "barrier" => e.by \in Tasks /\ e = Barrier(e.by)
       /\ e.kind = "waited" => e.by \in Callers
       /\ e.kind = "checkpoint" => e.by \in Checkpointers
       /\ e.by \in Tasks => e.kind \in {"async", "barrier"}
  /\ \A t \in Tasks : ~Mine(StopMark, t)
  /\ StopMark \notin AsyncWrites /\ StopMark \notin Envelopes /\ AsyncWrites \subseteq Envelopes
<1>1. \A e \in Envelopes : \/ \E t \in Tasks, n \in 1..Writes : e = Write(t, n)
                           \/ \E t \in Tasks : e = Barrier(t)
                           \/ \E c \in Callers : e = Waited(c)
                           \/ \E c \in Checkpointers : e = Checkpoint(c)
  BY DEF Envelopes, AsyncWrites
<1>2. \A e \in AsyncWrites : \E t \in Tasks, n \in 1..Writes : e = Write(t, n)
  BY DEF AsyncWrites
<1>3. \A t \in Tasks : \A n \in 1..Writes : Write(t, n) \in AsyncWrites
  BY DEF AsyncWrites
<1>4. \A t \in Tasks : Barrier(t) \in Envelopes
  BY DEF Envelopes
<1>5. AsyncWrites \subseteq Envelopes
  BY DEF Envelopes
<1> QED
  BY <1>1, <1>2, <1>3, <1>4, <1>5, WriterAssumption
  DEF Everyone, Write, Waited, Barrier, Checkpoint, StopMark, Mine, IsControl

-----------------------------------------------------------------------------
(* Sequences of envelopes.                                                 *)

(* An envelope is put at the end. *)
LEMMA AppendFacts ==
  ASSUME NEW S, NEW s \in Seq(S), NEW e \in S
  PROVE  /\ Append(s, e) \in Seq(S) /\ Len(Append(s, e)) = Len(s) + 1 /\ Append(s, e) # s
         /\ \A x : In(Append(s, e), x) <=> In(s, x) \/ x = e
         /\ \A t : Free(Append(s, e), t) <=> Free(s, t) /\ ~Mine(e, t)
         /\ \A t : EndsWithBarrier(s, t) /\ (In(s, Barrier(t)) => ~Mine(e, t))
                     => EndsWithBarrier(Append(s, e), t)
         /\ Clean(Append(s, e)) <=> Clean(s) /\ e \notin AsyncWrites
         /\ Closed(s) /\ (e \notin AsyncWrites \/ ~In(s, StopMark)) => Closed(Append(s, e))
<1> DEFINE a == Append(s, e)
<1>1. /\ a \in Seq(S) /\ Len(a) = Len(s) + 1 /\ Len(s) \in Nat
      /\ \A i \in 1..Len(s) : a[i] = s[i]
      /\ a[Len(s) + 1] = e
  OBVIOUS
<1>2. /\ \A i \in 1..Len(a) : i \in 1..Len(s) \/ i = Len(s) + 1
      /\ \A i \in 1..Len(s) : i \in 1..Len(a) /\ i < Len(s) + 1
      /\ Len(s) + 1 \in 1..Len(a)
      /\ \A i, j \in 1..Len(a) : i < j => i \in 1..Len(s)
  BY <1>1
<1>3. a # s
  BY <1>1
<1> HIDE DEF a
<1>4. \A x : In(a, x) <=> In(s, x) \/ x = e
  BY <1>1, <1>2 DEF In
<1>5. \A t : Free(a, t) <=> Free(s, t) /\ ~Mine(e, t)
  BY <1>1, <1>2 DEF Free
<1>6. \A t : EndsWithBarrier(s, t) /\ (In(s, Barrier(t)) => ~Mine(e, t))
                => EndsWithBarrier(a, t)
  BY <1>1, <1>2 DEF EndsWithBarrier, In
<1>7. Clean(a) <=> Clean(s) /\ e \notin AsyncWrites
  BY <1>1, <1>2 DEF Clean
<1>8. Closed(s) /\ (e \notin AsyncWrites \/ ~In(s, StopMark)) => Closed(a)
  BY <1>1, <1>2 DEF Closed, In
<1> QED
  BY <1>1, <1>3, <1>4, <1>5, <1>6, <1>7, <1>8 DEF a

(* The first k envelopes are taken away. *)
LEMMA DropFacts ==
  ASSUME NEW S, NEW s \in Seq(S), NEW k \in 0..Len(s)
  PROVE  LET r == SubSeq(s, k + 1, Len(s)) IN
         /\ r \in Seq(S) /\ Len(r) = Len(s) - k
         /\ \A x : In(s, x) <=> In(r, x) \/ \E i \in 1..k : s[i] = x
         /\ \A t : Free(s, t) => Free(r, t)
         /\ \A t : EndsWithBarrier(s, t) =>
                     /\ EndsWithBarrier(r, t)
                     /\ (\E i \in 1..k : s[i] = Barrier(t)) => Free(r, t)
         /\ Clean(s) => Clean(r)
         /\ Closed(s) => Closed(r) /\ ((\E i \in 1..k : s[i] = StopMark) => Clean(r))
<1> DEFINE r == SubSeq(s, k + 1, Len(s))
<1>1. /\ r \in Seq(S) /\ Len(r) = Len(s) - k /\ Len(s) \in Nat /\ k \in Nat /\ k <= Len(s)
      /\ \A i \in 1..Len(r) : r[i] = s[i + k]
  OBVIOUS
<1>2. /\ \A i \in 1..Len(r) : i + k \in 1..Len(s)
      /\ \A i, j \in 1..Len(r) : i < j => i + k < j + k
      /\ \A i \in 1..k : i \in 1..Len(s) /\ \A j \in 1..Len(r) : i < j + k
  BY <1>1
<1>3. \A i \in 1..Len(s) : i \in 1..k \/ (i - k \in 1..Len(r) /\ r[i - k] = s[i])
  <2> SUFFICES ASSUME NEW i \in 1..Len(s), i \notin 1..k
               PROVE  i - k \in 1..Len(r) /\ r[i - k] = s[i]
    OBVIOUS
  <2>1. i - k \in 1..Len(r) /\ (i - k) + k = i
    BY <1>1
  <2> QED
    BY <1>1, <2>1
<1> HIDE DEF r
<1>4. \A x : In(s, x) <=> In(r, x) \/ \E i \in 1..k : s[i] = x
  BY <1>1, <1>2, <1>3 DEF In
<1>5. \A t : Free(s, t) => Free(r, t)
  BY <1>1, <1>2 DEF Free
<1>6. \A t : EndsWithBarrier(s, t) =>
               /\ EndsWithBarrier(r, t)
               /\ (\E i \in 1..k : s[i] = Barrier(t)) => Free(r, t)
  BY <1>1, <1>2 DEF EndsWithBarrier, Free
<1>7. Clean(s) => Clean(r)
  BY <1>1, <1>2 DEF Clean
<1>8. Closed(s) => Closed(r) /\ ((\E i \in 1..k : s[i] = StopMark) => Clean(r))
  BY <1>1, <1>2 DEF Closed, Clean
<1> QED
  BY <1>1, <1>4, <1>5, <1>6, <1>7, <1>8 DEF r

(* The first envelope is taken away. *)
LEMMA TailFacts ==
  ASSUME NEW S, NEW s \in Seq(S), s # <<>>
  PROVE  /\ Tail(s) \in Seq(S) /\ Len(Tail(s)) = Len(s) - 1 /\ Len(s) \in Nat \ {0}
         /\ Head(s) \in S /\ Head(s) = s[1] /\ In(s, Head(s))
         /\ \A x : In(s, x) <=> In(Tail(s), x) \/ x = Head(s)
         /\ \A t : Free(s, t) => Free(Tail(s), t) /\ ~Mine(Head(s), t)
         /\ \A t : EndsWithBarrier(s, t) =>
                     /\ EndsWithBarrier(Tail(s), t)
                     /\ Head(s) = Barrier(t) => Free(Tail(s), t)
         /\ Clean(s) => Clean(Tail(s)) /\ Head(s) \notin AsyncWrites
         /\ Closed(s) => Closed(Tail(s)) /\ (Head(s) = StopMark => Clean(Tail(s)))
<1>1. /\ Len(s) \in Nat \ {0} /\ 1 \in 0..Len(s) /\ Head(s) = s[1] /\ Head(s) \in S
      /\ Tail(s) = SubSeq(s, 1 + 1, Len(s)) /\ 1 \in 1..Len(s)
      /\ \A i \in 1..1 : i = 1
  BY EmptySeq, HeadTailProperties
<1>2. /\ \A t : Free(s, t) => ~Mine(Head(s), t)
      /\ Clean(s) => Head(s) \notin AsyncWrites
      /\ In(s, Head(s))
  BY <1>1 DEF Free, Clean, In
<1> DEFINE r == SubSeq(s, 1 + 1, Len(s))
<1>3. /\ r \in Seq(S) /\ Len(r) = Len(s) - 1
      /\ \A x : In(s, x) <=> In(r, x) \/ \E i \in 1..1 : s[i] = x
      /\ \A t : Free(s, t) => Free(r, t)
      /\ \A t : EndsWithBarrier(s, t) =>
                  /\ EndsWithBarrier(r, t)
                  /\ (\E i \in 1..1 : s[i] = Barrier(t)) => Free(r, t)
      /\ Clean(s) => Clean(r)
      /\ Closed(s) => Closed(r) /\ ((\E i \in 1..1 : s[i] = StopMark) => Clean(r))
  BY <1>1, DropFacts
<1>4. Tail(s) = r
  BY <1>1
<1> HIDE DEF r
<1>5. 1 \in 1..1
  OBVIOUS
<1> QED
  BY <1>1, <1>2, <1>3, <1>4, <1>5

(* A batch of one envelope. *)
LEMMA SingleFacts ==
  ASSUME NEW e
  PROVE  /\ <<e>> # <<>> /\ Len(<<e>>) = 1
         /\ \A x : In(<<e>>, x) <=> x = e
         /\ \A t : EndsWithBarrier(<<e>>, t)
  BY DEF In, EndsWithBarrier

(* The empty sequence. *)
LEMMA EmptyFacts ==
  /\ \A x : ~In(<<>>, x)
  /\ \A t : EndsWithBarrier(<<>>, t) /\ Free(<<>>, t)
  /\ Clean(<<>>) /\ Closed(<<>>)
  BY DEF In, EndsWithBarrier, Free, Clean, Closed

-----------------------------------------------------------------------------
(* The simple steps.                                                       *)

USE DEF writer, clients, facts, WriterInv

(* Start keeps the invariant. *)
LEMMA StartKeeps ==
  ASSUME WriterInv, Start PROVE WriterInv'
<1>1. TypeOK'
  BY WriterAssumption, EmptyFacts DEF TypeOK, Everyone, TaskInv, Start
<1>2. TaskInv'
  BY WriterAssumption, EmptyFacts DEF TaskInv, TypeOK, Everyone, Start
<1>3. WritesInv'
  BY WriterAssumption, EmptyFacts DEF WritesInv, Settled, Liable, TypeOK,
      Everyone, Start
<1>4. BarrierInv'
  BY WriterAssumption, EmptyFacts DEF BarrierInv, TypeOK, Everyone, Start
<1>5. LossInv'
  BY WriterAssumption, EmptyFacts DEF LossInv, FlushCovers, TaskInv, TypeOK,
      Everyone, Start
<1>6. StopInv'
  BY WriterAssumption, EmptyFacts DEF StopInv, StopReportsLoss, Outstanding,
      TaskInv, TypeOK, Everyone, Alive, Start
<1> QED BY <1>1, <1>2, <1>3, <1>4, <1>5, <1>6

(* Cancel keeps the invariant. *)
LEMMA CancelKeeps ==
  ASSUME WriterInv, NEW c \in Callers \cup Checkpointers, Cancel(c) PROVE WriterInv'
<1>1. TypeOK'
  BY WriterAssumption DEF TypeOK, Everyone, TaskInv, Cancel
<1>2. TaskInv'
  BY WriterAssumption DEF TaskInv, TypeOK, Everyone, Cancel
<1>3. WritesInv'
  BY WriterAssumption DEF WritesInv, Settled, Liable, TypeOK, Everyone, Cancel
<1>4. BarrierInv'
  BY WriterAssumption DEF BarrierInv, TypeOK, Everyone, Cancel
<1>5. LossInv'
  BY WriterAssumption DEF LossInv, FlushCovers, TaskInv, TypeOK, Everyone,
      Cancel
<1>6. StopInv'
  BY WriterAssumption DEF StopInv, StopReportsLoss, Outstanding, TaskInv,
      TypeOK, Everyone, Alive, Cancel
<1> QED BY <1>1, <1>2, <1>3, <1>4, <1>5, <1>6

(* Resume keeps the invariant. *)
LEMMA ResumeKeeps ==
  ASSUME WriterInv, NEW p \in Everyone, Resume(p) PROVE WriterInv'
<1>1. TypeOK'
  BY WriterAssumption DEF TypeOK, Everyone, TaskInv, Resume
<1>2. TaskInv'
  BY WriterAssumption DEF TaskInv, TypeOK, Everyone, Resume
<1>3. WritesInv'
  BY WriterAssumption DEF WritesInv, Settled, Liable, TypeOK, Everyone, Resume
<1>4. BarrierInv'
  BY WriterAssumption DEF BarrierInv, TypeOK, Everyone, Resume
<1>5. LossInv'
  BY WriterAssumption DEF LossInv, FlushCovers, TaskInv, TypeOK, Everyone,
      Resume
<1>6. StopInv'
  BY WriterAssumption DEF StopInv, StopReportsLoss, Outstanding, TaskInv,
      TypeOK, Everyone, Alive, Resume
<1> QED BY <1>1, <1>2, <1>3, <1>4, <1>5, <1>6

(* EndBatch keeps the invariant. *)
LEMMA EndBatchKeeps ==
  ASSUME WriterInv, EndBatch PROVE WriterInv'
<1>1. TypeOK'
  BY WriterAssumption DEF TypeOK, Everyone, TaskInv, EndBatch
<1>2. TaskInv'
  BY WriterAssumption DEF TaskInv, TypeOK, Everyone, EndBatch
<1>3. WritesInv'
  BY WriterAssumption DEF WritesInv, Settled, Liable, TypeOK, Everyone,
      EndBatch
<1>4. BarrierInv'
  BY WriterAssumption DEF BarrierInv, TypeOK, Everyone, EndBatch
<1>5. LossInv'
  BY WriterAssumption DEF LossInv, FlushCovers, TaskInv, TypeOK, Everyone,
      EndBatch
<1>6. StopInv'
  BY WriterAssumption DEF StopInv, StopReportsLoss, Outstanding, TaskInv,
      TypeOK, Everyone, Alive, EndBatch
<1> QED BY <1>1, <1>2, <1>3, <1>4, <1>5, <1>6

(* StopBegin keeps the invariant. *)
LEMMA StopBeginKeeps ==
  ASSUME WriterInv, StopBegin PROVE WriterInv'
<1>1. TypeOK'
  BY WriterAssumption DEF TypeOK, Everyone, TaskInv, StopBegin
<1>2. TaskInv'
  BY WriterAssumption DEF TaskInv, TypeOK, Everyone, StopBegin
<1>3. WritesInv'
  BY WriterAssumption DEF WritesInv, Settled, Liable, TypeOK, Everyone,
      StopBegin
<1>4. BarrierInv'
  BY WriterAssumption DEF BarrierInv, TypeOK, Everyone, StopBegin
<1>5. LossInv'
  BY WriterAssumption DEF LossInv, FlushCovers, TaskInv, TypeOK, Everyone,
      StopBegin
<1>6. StopInv'
  BY WriterAssumption DEF StopInv, StopReportsLoss, Outstanding, TaskInv,
      TypeOK, Everyone, Alive, StopBegin
<1> QED BY <1>1, <1>2, <1>3, <1>4, <1>5, <1>6

(* StopPut keeps the invariant. *)
LEMMA StopPutKeeps ==
  ASSUME WriterInv, StopPut PROVE WriterInv'
<1>q. /\ queue \in Seq(Envelopes \cup {StopMark}) /\ queue' = Append(queue, StopMark)
      /\ StopMark \in Envelopes \cup {StopMark}
  BY DEF TypeOK, StopPut
<1>v. /\ stopper = "putting" /\ stopper' = "joining" /\ Len(queue) < Capacity
      /\ UNCHANGED <<writer, stopping, blocked, clients, facts>>
  BY DEF StopPut
<1>a. /\ queue' \in Seq(Envelopes \cup {StopMark}) /\ Len(queue') = Len(queue) + 1
      /\ \A x : In(queue', x) <=> In(queue, x) \/ x = StopMark
      /\ \A t : Free(queue', t) <=> Free(queue, t) /\ ~Mine(StopMark, t)
      /\ \A t : EndsWithBarrier(queue, t) /\ (In(queue, Barrier(t)) => ~Mine(StopMark, t))
                  => EndsWithBarrier(queue', t)
      /\ Closed(queue) /\ (StopMark \notin AsyncWrites \/ ~In(queue, StopMark)) => Closed(queue')
  BY <1>q, AppendFacts
<1>k. /\ \A t \in Tasks : ~Mine(StopMark, t) /\ Barrier(t) # StopMark
      /\ \A t \in Tasks : \A n \in 1..Writes : Write(t, n) # StopMark
      /\ StopMark \notin AsyncWrites
  BY EnvelopeKinds
<1>1. TypeOK'
  BY WriterAssumption DEF TypeOK, Everyone, TaskInv, StopPut
<1>2. TaskInv'
  BY WriterAssumption DEF TaskInv, TypeOK, Everyone, StopPut
<1>3. WritesInv'
  BY <1>v, <1>a, <1>k DEF WritesInv, Settled, Liable
<1>4. BarrierInv'
  BY <1>v, <1>a, <1>k DEF BarrierInv
<1>5. LossInv'
  BY WriterAssumption DEF LossInv, FlushCovers, TaskInv, TypeOK, Everyone,
      StopPut
<1>6. StopInv'
  <2>1. Closed(queue)
    BY <1>v DEF StopInv, Closed, In
  <2>2. Closed(queue')
    BY <2>1, <1>a, <1>k
  <2> QED
    BY <2>2, <1>v DEF StopInv, Outstanding
<1> QED BY <1>1, <1>2, <1>3, <1>4, <1>5, <1>6

(* StopFull keeps the invariant. *)
LEMMA StopFullKeeps ==
  ASSUME WriterInv, StopFull PROVE WriterInv'
<1>1. TypeOK'
  BY WriterAssumption DEF TypeOK, Everyone, TaskInv, StopFull
<1>2. TaskInv'
  BY WriterAssumption DEF TaskInv, TypeOK, Everyone, StopFull
<1>3. WritesInv'
  BY WriterAssumption DEF WritesInv, Settled, Liable, TypeOK, Everyone,
      StopFull
<1>4. BarrierInv'
  BY WriterAssumption DEF BarrierInv, TypeOK, Everyone, StopFull
<1>5. LossInv'
  BY WriterAssumption DEF LossInv, FlushCovers, TaskInv, TypeOK, Everyone,
      StopFull
<1>6. StopInv'
  BY WriterAssumption DEF StopInv, StopReportsLoss, Outstanding, TaskInv,
      TypeOK, Everyone, Alive, StopFull
<1> QED BY <1>1, <1>2, <1>3, <1>4, <1>5, <1>6

(* StopJoinTimesOut keeps the invariant. *)
LEMMA StopJoinTimesOutKeeps ==
  ASSUME WriterInv, StopJoinTimesOut PROVE WriterInv'
<1>1. TypeOK'
  BY WriterAssumption DEF TypeOK, Everyone, TaskInv, StopJoinTimesOut
<1>2. TaskInv'
  BY WriterAssumption DEF TaskInv, TypeOK, Everyone, StopJoinTimesOut
<1>3. WritesInv'
  BY WriterAssumption DEF WritesInv, Settled, Liable, TypeOK, Everyone,
      StopJoinTimesOut
<1>4. BarrierInv'
  BY WriterAssumption DEF BarrierInv, TypeOK, Everyone, StopJoinTimesOut
<1>5. LossInv'
  BY WriterAssumption DEF LossInv, FlushCovers, TaskInv, TypeOK, Everyone,
      StopJoinTimesOut
<1>6. StopInv'
  BY WriterAssumption DEF StopInv, StopReportsLoss, Outstanding, TaskInv,
      TypeOK, Everyone, Alive, StopJoinTimesOut
<1> QED BY <1>1, <1>2, <1>3, <1>4, <1>5, <1>6

(* StopJoined keeps the invariant. *)
LEMMA StopJoinedKeeps ==
  ASSUME WriterInv, StopJoined PROVE WriterInv'
<1>v. /\ stopper = "joining" /\ thread = "exited" /\ stopping' = FALSE
      /\ stopper' = (IF unreported THEN "failed" ELSE "ok")
      /\ unreported' = FALSE
      /\ reported' = (IF unreported THEN reported \cup lost ELSE reported)
      /\ lost' = (IF unreported THEN {} ELSE lost)
      /\ UNCHANGED <<thread, batch, stopSeen, queue, blocked, clients, durable>>
  BY DEF StopJoined, TakeFailure
<1>r. ready => lost = {}
  <2> SUFFICES ASSUME lost # {} PROVE ~ready
    OBVIOUS
  <2>1. PICK t \in Tasks, n \in 1..Writes : Write(t, n) \in lost
    BY DEF TypeOK, AsyncWrites
  <2>2. status[t] \in Liable
    BY <2>1 DEF WritesInv
  <2>3. status[t] = "failed"
    BY <2>2, <1>v DEF StopInv, Outstanding, Liable
  <2> QED
    BY <2>3 DEF TaskInv
<1>1. TypeOK'
  BY WriterAssumption DEF TypeOK, Everyone, TaskInv, StopJoined, TakeFailure
<1>2. TaskInv'
  BY WriterAssumption DEF TaskInv, TypeOK, Everyone, StopJoined, TakeFailure
<1>3. WritesInv'
  BY WriterAssumption DEF WritesInv, Settled, Liable, TypeOK, Everyone,
      StopJoined, TakeFailure
<1>4. BarrierInv'
  BY WriterAssumption DEF BarrierInv, TypeOK, Everyone, StopJoined,
      TakeFailure
<1>5. LossInv'
  <2>1. ready => reported' = reported
    BY <1>r, <1>v
  <2> QED
    BY <2>1, <1>v DEF LossInv, FlushCovers, TypeOK
<1>6. StopInv'
  <2>1. batch = <<>> /\ Clean(queue)
    BY <1>v DEF StopInv
  <2>2. ~unreported => \A t \in Tasks : \A n \in 1..Writes :
                         n <= sent[t] => Write(t, n) \in durable \cup reported
    <3> SUFFICES ASSUME ~unreported, NEW t \in Tasks, NEW n \in 1..Writes, n <= sent[t]
                 PROVE  Write(t, n) \in durable \cup reported
      OBVIOUS
    <3>1. ~In(batch, Write(t, n))
      BY <2>1, EmptyFacts
    <3>2. ~In(queue, Write(t, n))
      BY <2>1, EnvelopeKinds DEF Clean, In
    <3>3. lost = {}
      BY DEF LossInv
    <3> QED
      BY <3>1, <3>2, <3>3 DEF WritesInv, Settled
  <2>3. \A t \in Tasks : sent[t] \in 0..Writes
    BY DEF TypeOK
  <2>4. ~unreported => StopReportsLoss'
    BY <2>2, <2>3, <1>v, WriterAssumption DEF StopReportsLoss
  <2> QED
    BY <2>4, <1>v DEF StopInv, Outstanding
<1> QED BY <1>1, <1>2, <1>3, <1>4, <1>5, <1>6

-----------------------------------------------------------------------------
(* The three ends of a put: refused, waiting for room, in the queue.       *)

(* A task whose put is refused has failed. *)
LEMMA RefusedKeeps ==
  ASSUME WriterInv, NEW p \in Everyone, status[p] \in {"idle", "open"}, thread # "none",
         status' = [status EXCEPT ![p] = "failed"],
         ready' \in BOOLEAN, ready' => ready, p \in Tasks => ~ready',
         p \notin Tasks => ready' = ready,
         UNCHANGED <<writer, stopping, queue, blocked, sent, stopper, facts>>
  PROVE  WriterInv'
<1>s. /\ status'[p] = "failed" /\ \A x \in Everyone : x # p => status'[x] = status[x]
      /\ status' \in [Everyone -> {"idle", "putting", "open", "waiting", "cancelled",
                                   "answered", "refused", "done", "failed"}]
      /\ Tasks \subseteq Everyone
  BY DEF TypeOK, Everyone
<1>1. TypeOK'
  BY <1>s DEF TypeOK
<1>2. TaskInv'
  BY <1>s DEF TaskInv
<1>3. WritesInv'
  BY <1>s DEF WritesInv, Settled, Liable
<1>4. BarrierInv'
  BY <1>s DEF BarrierInv
<1>5. LossInv'
  BY <1>s DEF LossInv, FlushCovers
<1>6. StopInv'
  BY <1>s DEF StopInv, StopReportsLoss, Outstanding
<1> QED BY <1>1, <1>2, <1>3, <1>4, <1>5, <1>6

(* A put that finds the queue full waits in its worker thread. *)
LEMMA BlockedKeeps ==
  ASSUME WriterInv, Accepting, NEW e \in Envelopes, status[e.by] \in {"idle", "open"},
         e \in AsyncWrites => e.n = sent[e.by] + 1,
         e.kind = "barrier" => sent[e.by] = Writes,
         status' = [status EXCEPT ![e.by] = "putting"], blocked' = blocked \cup {e},
         UNCHANGED <<writer, stopping, queue, sent, ready, stopper, facts>>
  PROVE  WriterInv'
<1>e. e.by \in Everyone /\ Tasks \subseteq Everyone
  BY EnvelopeKinds DEF Everyone
<1>s. /\ status'[e.by] = "putting" /\ \A x \in Everyone : x # e.by => status'[x] = status[x]
      /\ status' \in [Everyone -> {"idle", "putting", "open", "waiting", "cancelled",
                                   "answered", "refused", "done", "failed"}]
  BY <1>e DEF TypeOK
<1>t. thread # "none" /\ thread # "exited" /\ stopper \notin {"putting", "joining", "ok"}
  BY DEF Accepting, Alive, StopInv
<1>1. TypeOK'
  BY <1>s DEF TypeOK
<1>2. TaskInv'
  <2>1. \A t \in Tasks : /\ status'[t] # "cancelled" /\ (status'[t] = "idle" => sent'[t] = 0)
                         /\ status'[t] = "failed" => ~ready'
    BY <1>s, <1>e DEF TaskInv
  <2>2. \A t \in Tasks : \A n \in 1..Writes : Write(t, n) = e => sent[t] + 1 = n
    BY EnvelopeKinds
  <2>3. \A t \in Tasks : Barrier(t) = e => sent[t] = Writes
    BY EnvelopeKinds
  <2>4. \A x \in blocked' : x.by \in Tasks => status'[x.by] = "putting"
    BY <1>s, <1>e DEF TaskInv
  <2> QED
    BY <1>t, <2>1, <2>2, <2>3, <2>4 DEF TaskInv
<1>3. WritesInv'
  BY <1>s, <1>e DEF WritesInv, Settled, Liable
<1>4. BarrierInv'
  BY <1>s, <1>e DEF BarrierInv
<1>5. LossInv'
  BY <1>s, <1>e DEF LossInv, FlushCovers
<1>6. StopInv'
  BY <1>s, <1>e, <1>t DEF StopInv, StopReportsLoss, Outstanding
<1> QED BY <1>1, <1>2, <1>3, <1>4, <1>5, <1>6

(* An envelope enters the queue.  The sender is a task that goes on, or a  *)
(* caller that waits or has been cancelled meanwhile.                      *)
LEMMA EnqueuedKeeps ==
  ASSUME WriterInv, thread # "none", NEW e \in Envelopes, Len(queue) < Capacity,
         queue' = Append(queue, e), sent' = Counted(e),
         \/ status' = [status EXCEPT ![e.by] = After(e)]
         \/ status' = status /\ e.by \notin Tasks,
         e.by \in Tasks => /\ status[e.by] \in {"idle", "open", "putting"}
                           /\ stopper \notin {"putting", "joining", "ok"}
                           /\ \A x \in blocked' : x.by # e.by,
         e \in AsyncWrites => e.n = sent[e.by] + 1,
         e.kind = "barrier" => sent[e.by] = Writes,
         blocked' \subseteq blocked,
         UNCHANGED <<writer, stopping, ready, stopper, facts>>
  PROVE  WriterInv'
<1>e. /\ e.by \in Everyone /\ Tasks \subseteq Everyone
      /\ e.by \in Tasks => \/ /\ e.kind = "async" /\ e \in AsyncWrites /\ e = Write(e.by, e.n)
                              /\ e.n \in 1..Writes
                           \/ e.kind = "barrier" /\ e = Barrier(e.by)
      /\ e.by \notin Tasks => e.kind \in {"waited", "checkpoint"} /\ e \notin AsyncWrites
      /\ e # StopMark
  BY EnvelopeKinds DEF Everyone
<1>s. /\ \A x \in Everyone : x # e.by => status'[x] = status[x]
      /\ status' \in [Everyone -> {"idle", "putting", "open", "waiting", "cancelled",
                                   "answered", "refused", "done", "failed"}]
      /\ e.by \in Tasks => status'[e.by] = IF e.kind = "async" THEN "open" ELSE "waiting"
  BY <1>e DEF TypeOK, After
<1>c. /\ sent' \in [Tasks -> 0..Writes]
      /\ \A t \in Tasks : t # e.by \/ e.kind # "async" => sent'[t] = sent[t]
      /\ e \in AsyncWrites => sent'[e.by] = sent[e.by] + 1
  <2>1. CASE e.kind = "async"
    <3>1. e \in AsyncWrites /\ e.by \in Tasks /\ e.n \in 0..Writes
      BY <2>1, EnvelopeKinds, WriterAssumption
    <3> QED BY <2>1, <3>1 DEF TypeOK, Counted
  <2>2. CASE e.kind # "async"
    <3>1. e \notin AsyncWrites
      BY <2>2, EnvelopeKinds
    <3> QED BY <2>2, <3>1 DEF TypeOK, Counted
  <2> QED BY <2>1, <2>2
<1>a. /\ queue' \in Seq(Envelopes \cup {StopMark}) /\ Len(queue') = Len(queue) + 1
      /\ \A x : In(queue', x) <=> In(queue, x) \/ x = e
      /\ \A t : Free(queue', t) <=> Free(queue, t) /\ ~Mine(e, t)
      /\ \A t : EndsWithBarrier(queue, t) /\ (In(queue, Barrier(t)) => ~Mine(e, t))
                  => EndsWithBarrier(queue', t)
      /\ Clean(queue') <=> Clean(queue) /\ e \notin AsyncWrites
      /\ Closed(queue) /\ (e \notin AsyncWrites \/ ~In(queue, StopMark)) => Closed(queue')
  <2>1. queue \in Seq(Envelopes \cup {StopMark}) /\ e \in Envelopes \cup {StopMark}
    BY DEF TypeOK
  <2> QED BY <2>1, AppendFacts
<1>m. \A t \in Tasks : Mine(e, t) <=> t = e.by
  BY <1>e DEF Mine
<1>1. TypeOK'
  <2>1. Len(queue') <= Capacity
    BY <1>a, WriterAssumption DEF TypeOK
  <2> QED BY <2>1, <1>a, <1>s, <1>c DEF TypeOK
<1>2. TaskInv'
  <2>1. \A t \in Tasks : /\ status'[t] # "cancelled" /\ (status'[t] = "idle" => sent'[t] = 0)
                         /\ status'[t] = "failed" => ~ready'
    BY <1>s, <1>c, <1>e DEF TaskInv
  <2>2. \A x \in blocked' : x.by \in Tasks => status'[x.by] = "putting" /\ x.by # e.by
    BY <1>s, <1>e DEF TaskInv
  <2>3. \A t \in Tasks : t = e.by =>
          Barrier(t) \notin blocked' /\ \A n \in 1..Writes : Write(t, n) \notin blocked'
    BY <2>2, EnvelopeKinds
  <2>4. \A t \in Tasks : t # e.by => sent'[t] = sent[t]
    BY <1>c
  <2> QED
    BY <2>1, <2>2, <2>3, <2>4 DEF TaskInv
<1>3. WritesInv'
  <2> SUFFICES ASSUME NEW t \in Tasks, NEW n \in 1..Writes
               PROVE  /\ n <= sent'[t] =>
                           Write(t, n) \in Settled' \/ In(batch', Write(t, n))
                             \/ In(queue', Write(t, n))
                      /\ In(batch', Write(t, n)) \/ In(queue', Write(t, n))
                           \/ Write(t, n) \in lost' => status'[t] \in Liable
    BY DEF WritesInv
  <2>1. Settled' = Settled /\ batch' = batch /\ lost' = lost
    BY DEF Settled
  <2>2. n <= sent'[t] => n <= sent[t] \/ Write(t, n) = e
    BY <1>c, <1>e, WriterAssumption DEF TypeOK
  <2>3. Write(t, n) = e => t = e.by
    BY EnvelopeKinds
  <2>4. t = e.by => status'[t] \in Liable
    BY <1>s DEF Liable
  <2> QED
    BY <2>1, <2>2, <2>3, <2>4, <1>a, <1>s, <1>e DEF WritesInv
<1>4. BarrierInv'
  <2> SUFFICES ASSUME NEW t \in Tasks
               PROVE  /\ EndsWithBarrier(batch', t) /\ EndsWithBarrier(queue', t)
                      /\ In(batch', Barrier(t)) => Free(queue', t)
                      /\ In(batch', Barrier(t)) \/ In(queue', Barrier(t)) =>
                           status'[t] = "waiting" /\ sent'[t] = Writes
    BY DEF BarrierInv
  <2>1. CASE t # e.by
    <3>1. ~Mine(e, t) /\ Barrier(t) # e /\ status'[t] = status[t] /\ sent'[t] = sent[t]
      BY <2>1, <1>m, <1>s, <1>c, <1>e, EnvelopeKinds
    <3> QED BY <3>1, <1>a DEF BarrierInv
  <2>2. CASE t = e.by
    <3>1. ~In(batch, Barrier(t)) /\ ~In(queue, Barrier(t))
      BY <2>2 DEF BarrierInv
    <3>2. Barrier(t) = e => status'[t] = "waiting" /\ sent'[t] = Writes
      <4>1. Barrier(t) = e => e.kind = "barrier" /\ e.kind # "async"
        BY EnvelopeKinds
      <4> QED BY <4>1, <2>2, <1>s, <1>c
    <3> QED BY <3>1, <3>2, <1>a DEF BarrierInv
  <2> QED BY <2>1, <2>2
<1>5. LossInv'
  BY <1>s, <1>e DEF LossInv, FlushCovers
<1>6. StopInv'
  <2>1. CASE e.by \in Tasks
    BY <2>1, <1>a, <1>e DEF StopInv, StopReportsLoss
  <2>2. CASE e.by \notin Tasks
    <3>1. \A t \in Tasks : status'[t] = status[t] /\ sent'[t] = sent[t]
      BY <2>2, <1>s, <1>c, <1>e
    <3>2. StopReportsLoss => StopReportsLoss'
      BY <3>1 DEF StopReportsLoss
    <3> QED BY <2>2, <3>1, <3>2, <1>a, <1>e DEF StopInv, Outstanding
  <2> QED BY <2>1, <2>2
<1> QED BY <1>1, <1>2, <1>3, <1>4, <1>5, <1>6

(* _put() by a task that may send has one of the three ends. *)
LEMMA PutKeeps ==
  ASSUME WriterInv, NEW e \in Envelopes, status[e.by] \in {"idle", "open"}, thread # "none",
         e \in AsyncWrites => e.n = sent[e.by] + 1,
         e.kind = "barrier" => sent[e.by] = Writes,
         Put(e, e.by, After(e)),
         sent' = IF queue' # queue THEN Counted(e) ELSE sent,
         ready' = IF e.by \in Tasks THEN ready /\ status'[e.by] # "failed" ELSE ready,
         UNCHANGED <<writer, stopping, stopper, facts>>
  PROVE  WriterInv'
<1>e. e.by \in Everyone /\ Tasks \subseteq Everyone
  BY EnvelopeKinds DEF Everyone
<1>r. ready \in BOOLEAN /\ ready' \in BOOLEAN
  BY DEF TypeOK
<1>1. CASE ~Accepting
  <2>1. /\ status' = [status EXCEPT ![e.by] = "failed"] /\ queue' = queue
        /\ blocked' = blocked /\ sent' = sent
    BY <1>1 DEF Put, Fail
  <2>2. status'[e.by] = "failed"
    BY <2>1, <1>e DEF TypeOK
  <2>3. (ready' => ready) /\ (e.by \in Tasks => ~ready') /\ (e.by \notin Tasks => ready' = ready)
    BY <2>2, <1>r
  <2> QED
    BY <1>e, <1>r, <2>1, <2>3, RefusedKeeps
<1>2. CASE Accepting /\ Len(queue) < Capacity
  <2>1. /\ queue' = Append(queue, e) /\ blocked' = blocked
        /\ status' = [status EXCEPT ![e.by] = After(e)]
    BY <1>2 DEF Put
  <2>2. Append(queue, e) # queue
    <3>1. queue \in Seq(Envelopes \cup {StopMark}) /\ e \in Envelopes \cup {StopMark}
      BY DEF TypeOK
    <3> QED BY <3>1, AppendFacts
  <2>3. sent' = Counted(e)
    BY <2>1, <2>2
  <2>4. status'[e.by] # "failed"
    BY <2>1, <1>e DEF TypeOK, After
  <2>5. ready' = ready
    BY <2>4, <1>r
  <2>6. e.by \in Tasks => /\ stopper \notin {"putting", "joining", "ok"}
                          /\ \A x \in blocked' : x.by # e.by
    BY <1>2, <2>1 DEF Accepting, Alive, StopInv, TaskInv
  <2> QED
    BY <1>2, <2>1, <2>3, <2>5, <2>6, EnqueuedKeeps
<1>3. CASE Accepting /\ ~(Len(queue) < Capacity)
  <2>1. /\ queue' = queue /\ blocked' = blocked \cup {e} /\ sent' = sent
        /\ status' = [status EXCEPT ![e.by] = "putting"]
    BY <1>3 DEF Put
  <2>2. status'[e.by] # "failed"
    BY <2>1, <1>e DEF TypeOK
  <2>3. ready' = ready
    BY <2>2, <1>r
  <2> QED
    BY <1>3, <2>1, <2>3, BlockedKeeps
<1> QED BY <1>1, <1>2, <1>3

(* SendWrite keeps the invariant. *)
LEMMA SendWriteKeeps ==
  ASSUME WriterInv, NEW t \in Tasks, SendWrite(t) PROVE WriterInv'
<1> DEFINE e == Write(t, sent[t] + 1)
<1>1. sent[t] + 1 \in 1..Writes
  BY WriterAssumption DEF SendWrite, TypeOK
<1>2. /\ e \in Envelopes /\ e.by = t /\ e.kind = "async" /\ e.n = sent[t] + 1
  BY <1>1, EnvelopeKinds
<1>3. /\ Put(e, t, "open") /\ sent' = (IF queue' # queue THEN Counted(e) ELSE sent)
      /\ status[t] \in {"idle", "open"} /\ thread # "none"
      /\ ready' = (ready /\ status'[t] # "failed")
      /\ UNCHANGED <<writer, stopping, stopper, facts>>
  BY DEF SendWrite
<1> HIDE DEF e
<1>4. Put(e, e.by, After(e))
  BY <1>2, <1>3 DEF After
<1> QED
  BY <1>2, <1>3, <1>4, PutKeeps

(* SendBarrier keeps the invariant. *)
LEMMA SendBarrierKeeps ==
  ASSUME WriterInv, NEW t \in Tasks, SendBarrier(t) PROVE WriterInv'
<1> DEFINE e == Barrier(t)
<1>2. /\ e \in Envelopes /\ e.by = t /\ e.kind = "barrier" /\ e \notin AsyncWrites
  BY EnvelopeKinds
<1>3. /\ Put(e, t, "waiting") /\ sent' = sent /\ sent[t] = Writes
      /\ status[t] = "open" /\ ready' = (ready /\ status'[t] # "failed")
      /\ UNCHANGED <<writer, stopping, stopper, facts>>
  BY DEF SendBarrier
<1>5. thread # "none"
  BY <1>3 DEF TaskInv
<1> HIDE DEF e
<1>4. Put(e, e.by, After(e)) /\ Counted(e) = sent
  BY <1>2, <1>3 DEF After, Counted
<1> QED
  BY <1>2, <1>3, <1>4, <1>5, PutKeeps

(* SendWaited keeps the invariant. *)
LEMMA SendWaitedKeeps ==
  ASSUME WriterInv, NEW c \in Callers \cup Checkpointers, SendWaited(c) PROVE WriterInv'
<1> DEFINE e == IF c \in Callers THEN Waited(c) ELSE Checkpoint(c)
<1>2. /\ e \in Envelopes /\ e.by = c /\ e.kind \in {"waited", "checkpoint"}
  BY DEF Envelopes, Waited, Checkpoint
<1>3. /\ Put(e, c, "waiting") /\ sent' = sent /\ status[c] = "idle" /\ thread # "none"
      /\ ready' = ready /\ UNCHANGED <<writer, stopping, stopper, facts>>
  BY DEF SendWaited
<1>5. c \notin Tasks
  BY WriterAssumption
<1> HIDE DEF e
<1>4. Put(e, e.by, After(e)) /\ Counted(e) = sent /\ e \notin AsyncWrites
  BY <1>2, <1>3, EnvelopeKinds DEF After, Counted
<1> QED
  BY <1>2, <1>3, <1>4, <1>5, PutKeeps

(* A task has at most one envelope that waits for room. *)
LEMMA OneBlocked ==
  ASSUME WriterInv, NEW e \in blocked, NEW x \in blocked, x.by = e.by, e.by \in Tasks
  PROVE  x = e
<1>1. e \in Envelopes /\ x \in Envelopes
  BY DEF TypeOK
<1>2. /\ x.kind = "async" => x = Write(x.by, x.n) /\ x.n = sent[x.by] + 1 /\ x.n \in 1..Writes
      /\ e.kind = "async" => e = Write(e.by, e.n) /\ e.n = sent[e.by] + 1 /\ e.n \in 1..Writes
      /\ x.kind = "barrier" => x = Barrier(x.by) /\ sent[x.by] = Writes
      /\ e.kind = "barrier" => e = Barrier(e.by) /\ sent[e.by] = Writes
      /\ x.kind \in {"async", "barrier"} /\ e.kind \in {"async", "barrier"}
  BY <1>1, EnvelopeKinds DEF TaskInv
<1>3. sent[e.by] + 1 \in 1..Writes => sent[e.by] # Writes
  BY WriterAssumption DEF TypeOK
<1> QED
  BY <1>2, <1>3

(* PutLands keeps the invariant. *)
LEMMA PutLandsKeeps ==
  ASSUME WriterInv, NEW e \in blocked, PutLands(e) PROVE WriterInv'
<1>1. /\ Len(queue) < Capacity /\ queue' = Append(queue, e) /\ blocked' = blocked \ {e}
      /\ sent' = Counted(e)
      /\ status' = (IF status[e.by] = "putting" THEN [status EXCEPT ![e.by] = After(e)]
                                                ELSE status)
      /\ UNCHANGED <<writer, stopping, ready, stopper, facts>>
  BY DEF PutLands
<1>2. e \in Envelopes
  BY DEF TypeOK
<1>3. thread # "none"
  BY DEF TaskInv
<1>4. e.by \in Tasks => status[e.by] = "putting" /\ stopper \notin {"putting", "joining", "ok"}
  BY DEF TaskInv, StopInv, Outstanding
<1>5. (e \in AsyncWrites => e.n = sent[e.by] + 1) /\ (e.kind = "barrier" => sent[e.by] = Writes)
  BY <1>2, EnvelopeKinds DEF TaskInv
<1>6. e.by \in Tasks => \A x \in blocked' : x.by # e.by
  BY <1>1, OneBlocked
<1>7. \/ status' = [status EXCEPT ![e.by] = After(e)]
      \/ status' = status /\ e.by \notin Tasks
  BY <1>1, <1>4
<1> QED
  BY <1>1, <1>2, <1>3, <1>4, <1>5, <1>6, <1>7, EnqueuedKeeps

(* PutTimesOut keeps the invariant. *)
LEMMA PutTimesOutKeeps ==
  ASSUME WriterInv, NEW e \in blocked, PutTimesOut(e) PROVE WriterInv'
<1>e. e \in Envelopes /\ e.by \in Everyone /\ Tasks \subseteq Everyone
  BY EnvelopeKinds DEF TypeOK, Everyone
<1>v. /\ blocked' = blocked \ {e} /\ ready' = (ready /\ e.by \notin Tasks)
      /\ UNCHANGED <<writer, stopping, queue, sent, stopper, facts>>
  BY DEF PutTimesOut
<1>s. /\ \A x \in Everyone : x # e.by => status'[x] = status[x]
      /\ status' \in [Everyone -> {"idle", "putting", "open", "waiting", "cancelled",
                                   "answered", "refused", "done", "failed"}]
      /\ e.by \in Tasks => status'[e.by] = "failed" /\ ~ready' /\ status[e.by] = "putting"
      /\ e.by \notin Tasks => ready' = ready
      /\ ready' \in BOOLEAN /\ (ready' => ready)
  BY <1>e DEF TypeOK, TaskInv, PutTimesOut
<1>u. e.by \in Tasks => \A x \in blocked' : x.by # e.by
  BY <1>v, OneBlocked
<1>1. TypeOK'
  BY <1>s, <1>v DEF TypeOK
<1>2. TaskInv'
  <2>1. \A x \in blocked' : x.by \in Tasks => status'[x.by] = "putting"
    BY <1>s, <1>v, <1>u, <1>e DEF TaskInv
  <2>2. \A t \in Tasks : /\ status'[t] # "cancelled" /\ (status'[t] = "idle" => sent[t] = 0)
                         /\ status'[t] = "failed" => ~ready'
    BY <1>s, <1>e DEF TaskInv
  <2>3. thread # "none"
    BY DEF TaskInv
  <2> QED
    BY <1>v, <2>1, <2>2, <2>3 DEF TaskInv
<1>3. WritesInv'
  BY <1>s, <1>v, <1>e DEF WritesInv, Settled, Liable
<1>4. BarrierInv'
  BY <1>s, <1>v, <1>e DEF BarrierInv
<1>5. LossInv'
  BY <1>s, <1>v, <1>e DEF LossInv, FlushCovers
<1>6. StopInv'
  BY <1>s, <1>v, <1>e DEF StopInv, StopReportsLoss, Outstanding
<1> QED BY <1>1, <1>2, <1>3, <1>4, <1>5, <1>6

-----------------------------------------------------------------------------
(* The writer.                                                             *)

(* A set of naturals with a member has a least one. *)
LEMMA LeastExists ==
  ASSUME NEW T \in SUBSET Nat, T # {}
  PROVE  \E m \in T : \A k \in T : m <= k
<1>1. PICK m \in T : \A k \in T : ~(<<k, m>> \in OpToRel(<, Nat))
  BY NatLessThanWellFounded, WFMin
<1>2. ASSUME NEW k \in T PROVE m <= k
  <2>1. <<k, m>> \in Nat \X Nat /\ <<k, m>>[1] = k /\ <<k, m>>[2] = m
    OBVIOUS
  <2>2. ~(k < m)
    BY <2>1, <1>1 DEF OpToRel
  <2> QED BY <2>2
<1> QED BY <1>2

(* The segment is the part of the batch in front of its first control. *)
LEMMA SegmentFacts ==
  ASSUME TypeOK
  PROVE  \E k \in 0..Len(batch) :
           /\ Segment = SubSeq(batch, 1, k) /\ Len(Segment) = k
           /\ Members(Segment) = {batch[i] : i \in 1..k}
           /\ \A i \in 1..k : ~IsControl(batch[i])
<1> DEFINE Stops(k) == /\ \A i \in 1..k : ~IsControl(batch[i])
                       /\ k < Len(batch) => IsControl(batch[k + 1])
           Controls == {i \in 1..Len(batch) : IsControl(batch[i])}
<1>1. batch \in Seq(Envelopes) /\ Len(batch) \in Nat
  BY DEF TypeOK
<1>2. \E k \in 0..Len(batch) : Stops(k)
  <2>1. CASE Controls = {}
    <3>1. Len(batch) \in 0..Len(batch) /\ Stops(Len(batch))
      BY <1>1, <2>1
    <3> QED BY <3>1
  <2>2. CASE Controls # {}
    <3>1. Controls \in SUBSET Nat
      BY <1>1
    <3>2. PICK m \in Controls : \A i \in Controls : m <= i
      BY <2>2, <3>1, LeastExists
    <3>3. m - 1 \in 0..Len(batch) /\ Stops(m - 1)
      BY <1>1, <3>2
    <3> QED BY <3>3
  <2> QED BY <2>1, <2>2
<1> DEFINE k == CHOOSE k \in 0..Len(batch) : Stops(k)
<1>3. k \in 0..Len(batch) /\ Stops(k)
  BY <1>2
<1>4. Segment = SubSeq(batch, 1, k)
  BY DEF Segment
<1> HIDE DEF k
<1>5. /\ Len(SubSeq(batch, 1, k)) = k
      /\ \A i \in 1..k : SubSeq(batch, 1, k)[i] = batch[i]
      /\ DOMAIN SubSeq(batch, 1, k) = 1..k
  BY <1>1, <1>3
<1>6. Members(SubSeq(batch, 1, k)) = {batch[i] : i \in 1..k}
  BY <1>5 DEF Members
<1> QED
  BY <1>3, <1>4, <1>5, <1>6

(* Get keeps the invariant. *)
LEMMA GetKeeps ==
  ASSUME WriterInv, Get PROVE WriterInv'
<1>v. /\ thread = "get" /\ queue # <<>> /\ queue' = Tail(queue)
      /\ UNCHANGED <<stopSeen, unreported, stopping, blocked, clients, stopper, facts>>
      /\ \/ Head(queue) = StopMark /\ thread' = "exited" /\ batch' = batch
         \/ Head(queue) # StopMark /\ thread' = "fill" /\ batch' = <<Head(queue)>>
  BY DEF Get
<1>q. queue \in Seq(Envelopes \cup {StopMark}) /\ batch = <<>>
  BY <1>v DEF TypeOK, StopInv
<1>a. /\ queue' \in Seq(Envelopes \cup {StopMark}) /\ Len(queue') = Len(queue) - 1
      /\ Len(queue) \in Nat \ {0} /\ Head(queue) \in Envelopes \cup {StopMark}
      /\ \A x : In(queue, x) <=> In(queue', x) \/ x = Head(queue)
      /\ \A t : EndsWithBarrier(queue, t) =>
                  EndsWithBarrier(queue', t) /\ (Head(queue) = Barrier(t) => Free(queue', t))
      /\ Clean(queue) => Clean(queue')
      /\ Closed(queue) => Closed(queue') /\ (Head(queue) = StopMark => Clean(queue'))
  BY <1>q, <1>v, TailFacts
<1>b. /\ \A x : In(batch', x) <=> x = Head(queue) /\ Head(queue) # StopMark
      /\ \A t : EndsWithBarrier(batch', t)
      /\ batch' = <<>> <=> thread' = "exited"
  BY <1>v, <1>q, SingleFacts, EmptyFacts, SMTT(30)
<1>c. \A x : ~In(batch, x)
  BY <1>q, EmptyFacts
<1>k. /\ \A t \in Tasks : Barrier(t) # StopMark
      /\ \A t \in Tasks : \A n \in 1..Writes : Write(t, n) # StopMark
  BY EnvelopeKinds
<1>1. TypeOK'
  <2>1. batch' \in Seq(Envelopes) /\ Len(batch') <= BatchSize
    <3>1. CASE Head(queue) = StopMark
      BY <3>1, <1>v DEF TypeOK
    <3>2. CASE Head(queue) # StopMark
      <4>1. Head(queue) \in Envelopes
        BY <3>2, <1>a
      <4>2. <<Head(queue)>> \in Seq(Envelopes) /\ Len(<<Head(queue)>>) = 1
        BY <4>1
      <4>3. batch' = <<Head(queue)>>
        BY <3>2, <1>v
      <4>4. 1 <= BatchSize
        BY WriterAssumption
      <4> QED BY ONLY <4>2, <4>3, <4>4
    <3> QED BY <3>1, <3>2
  <2>2. Len(queue') <= Capacity
    BY <1>a, WriterAssumption DEF TypeOK
  <2> QED BY <2>1, <2>2, <1>v, <1>a DEF TypeOK
<1>2. TaskInv'
  BY <1>v DEF TaskInv
<1>3. WritesInv'
  BY <1>v, <1>a, <1>b, <1>c, <1>k DEF WritesInv, Settled
<1>4. BarrierInv'
  BY <1>v, <1>a, <1>b, <1>c, <1>k DEF BarrierInv
<1>5. LossInv'
  BY <1>v DEF LossInv, FlushCovers
<1>6. StopInv'
  BY <1>v, <1>a, <1>b DEF StopInv, StopReportsLoss, Outstanding
<1> QED BY <1>1, <1>2, <1>3, <1>4, <1>5, <1>6

(* Fill keeps the invariant. *)
LEMMA FillKeeps ==
  ASSUME WriterInv, Fill PROVE WriterInv'
<1>v. /\ thread = "fill" /\ Len(batch) < BatchSize /\ queue # <<>> /\ queue' = Tail(queue)
      /\ UNCHANGED <<unreported, stopping, blocked, clients, stopper, facts>>
      /\ thread' \in {"fill", "process"}
      /\ \/ Head(queue) = StopMark /\ stopSeen' = TRUE /\ batch' = batch
         \/ Head(queue) # StopMark /\ stopSeen' = stopSeen /\ batch' = Append(batch, Head(queue))
  BY DEF Fill
<1>q. queue \in Seq(Envelopes \cup {StopMark}) /\ batch \in Seq(Envelopes) /\ batch # <<>>
  BY <1>v DEF TypeOK, StopInv
<1>a. /\ queue' \in Seq(Envelopes \cup {StopMark}) /\ Len(queue') = Len(queue) - 1
      /\ Len(queue) \in Nat \ {0} /\ Head(queue) \in Envelopes \cup {StopMark}
      /\ \A x : In(queue, x) <=> In(queue', x) \/ x = Head(queue)
      /\ \A t : Free(queue, t) => Free(queue', t) /\ ~Mine(Head(queue), t)
      /\ \A t : EndsWithBarrier(queue, t) =>
                  EndsWithBarrier(queue', t) /\ (Head(queue) = Barrier(t) => Free(queue', t))
      /\ Clean(queue) => Clean(queue')
      /\ Closed(queue) => Closed(queue') /\ (Head(queue) = StopMark => Clean(queue'))
  BY <1>q, <1>v, TailFacts
<1>b. /\ \A x : In(batch', x) <=> In(batch, x) \/ (x = Head(queue) /\ Head(queue) # StopMark)
      /\ \A t : EndsWithBarrier(batch, t) /\ (In(batch, Barrier(t)) => ~Mine(Head(queue), t))
                  => EndsWithBarrier(batch', t)
      /\ batch' # <<>> /\ batch' \in Seq(Envelopes) /\ Len(batch') <= BatchSize
  <2>1. CASE Head(queue) = StopMark
    BY <2>1, <1>v, <1>q DEF TypeOK
  <2>2. CASE Head(queue) # StopMark
    <3>1. Head(queue) \in Envelopes
      BY <2>2, <1>a
    <3>2. /\ Append(batch, Head(queue)) \in Seq(Envelopes)
          /\ Len(Append(batch, Head(queue))) = Len(batch) + 1
          /\ \A x : In(Append(batch, Head(queue)), x) <=> In(batch, x) \/ x = Head(queue)
          /\ \A t : EndsWithBarrier(batch, t) /\ (In(batch, Barrier(t)) => ~Mine(Head(queue), t))
                      => EndsWithBarrier(Append(batch, Head(queue)), t)
      BY <3>1, <1>q, AppendFacts
    <3>3. Len(batch) + 1 <= BatchSize /\ Len(batch) + 1 # 0 /\ Len(<<>>) = 0
      BY <1>q, <1>v, WriterAssumption
    <3> QED BY <2>2, <3>2, <3>3, <1>v
  <2> QED BY <2>1, <2>2
<1>k. /\ \A t \in Tasks : Barrier(t) # StopMark
      /\ \A t \in Tasks : \A n \in 1..Writes : Write(t, n) # StopMark
  BY EnvelopeKinds
<1>1. TypeOK'
  <2>1. Len(queue') <= Capacity
    BY <1>a, WriterAssumption DEF TypeOK
  <2> QED BY <2>1, <1>v, <1>a, <1>b DEF TypeOK
<1>2. TaskInv'
  BY <1>v DEF TaskInv
<1>3. WritesInv'
  BY <1>v, <1>a, <1>b, <1>k DEF WritesInv, Settled
<1>4. BarrierInv'
  BY <1>v, <1>a, <1>b, <1>k DEF BarrierInv
<1>5. LossInv'
  BY <1>v DEF LossInv, FlushCovers
<1>6. StopInv'
  BY <1>v, <1>a, <1>b DEF StopInv, StopReportsLoss, Outstanding
<1> QED BY <1>1, <1>2, <1>3, <1>4, <1>5, <1>6

(* The first envelopes of the batch are processed, none of them a barrier: *)
(* the writes among them are durable now or lost and unreported.           *)
LEMMA ProcessedKeeps ==
  ASSUME WriterInv, thread = "process", NEW k \in 1..Len(batch), NEW es, NEW outcome,
         es = {batch[i] : i \in 1..k}, \A e \in es : e.kind # "barrier",
         outcome \in {"answered", "refused"}, Complete(es, outcome),
         Advance(SubSeq(batch, k + 1, Len(batch))),
         durable \subseteq durable', durable' \subseteq Envelopes,
         lost \subseteq lost', lost' \subseteq lost \cup (es \cap AsyncWrites),
         es \cap AsyncWrites \subseteq durable' \cup lost',
         unreported' \in BOOLEAN, lost' # {} => unreported',
         UNCHANGED <<stopSeen, stopping, queue, blocked, sent, ready, stopper, reported>>
  PROVE  WriterInv'
<1>q. batch \in Seq(Envelopes) /\ k \in 0..Len(batch) /\ Len(batch) \in Nat
  BY DEF TypeOK
<1>v. /\ batch' = SubSeq(batch, k + 1, Len(batch))
      /\ \/ batch' # <<>> /\ thread' = "process"
         \/ batch' = <<>> /\ stopSeen /\ thread' = "exited"
         \/ batch' = <<>> /\ ~stopSeen /\ thread' = "get"
  BY DEF Advance
<1>e. /\ \A i \in 1..k : batch[i] \in Envelopes
      /\ es \subseteq Envelopes
  BY <1>q
<1>s. /\ \A t \in Tasks : status'[t] = status[t]
      /\ status' \in [Everyone -> {"idle", "putting", "open", "waiting", "cancelled",
                                   "answered", "refused", "done", "failed"}]
  <2>1. \A t \in Tasks : ~\E e \in es : e.by = t /\ e.kind # "async"
    BY <1>e, EnvelopeKinds
  <2>2. Tasks \subseteq Everyone
    BY DEF Everyone
  <2> QED BY <2>1, <2>2 DEF Complete, TypeOK
<1>d. /\ batch' \in Seq(Envelopes) /\ Len(batch') = Len(batch) - k
      /\ \A x : In(batch, x) <=> In(batch', x) \/ x \in es
      /\ \A t : EndsWithBarrier(batch, t) => EndsWithBarrier(batch', t)
  <2> DEFINE r == SubSeq(batch, k + 1, Len(batch))
  <2>1. /\ r \in Seq(Envelopes) /\ Len(r) = Len(batch) - k
        /\ \A x : In(batch, x) <=> In(r, x) \/ \E i \in 1..k : batch[i] = x
        /\ \A t : EndsWithBarrier(batch, t) => EndsWithBarrier(r, t)
    BY <1>q, DropFacts
  <2>2. r = batch'
    BY <1>v
  <2> HIDE DEF r
  <2> QED BY <2>1, <2>2
<1>1. TypeOK'
  <2>1. Len(batch') <= BatchSize
    BY <1>d, <1>q, WriterAssumption DEF TypeOK
  <2>2. lost' \subseteq AsyncWrites
    BY DEF TypeOK
  <2> QED BY <2>1, <2>2, <1>d, <1>s, <1>v DEF TypeOK
<1>2. TaskInv'
  BY <1>s, <1>v DEF TaskInv
<1>3. WritesInv'
  <2> SUFFICES ASSUME NEW t \in Tasks, NEW n \in 1..Writes
               PROVE  /\ n <= sent[t] =>
                           Write(t, n) \in Settled' \/ In(batch', Write(t, n))
                             \/ In(queue, Write(t, n))
                      /\ In(batch', Write(t, n)) \/ In(queue, Write(t, n))
                           \/ Write(t, n) \in lost' => status'[t] \in Liable
    BY DEF WritesInv
  <2>1. Write(t, n) \in AsyncWrites
    BY EnvelopeKinds
  <2>2. Write(t, n) \in es => Write(t, n) \in Settled' /\ In(batch, Write(t, n))
    BY <2>1, <1>d DEF Settled
  <2>3. Settled \subseteq Settled'
    BY DEF Settled
  <2>4. In(batch', Write(t, n)) => In(batch, Write(t, n))
    BY <1>d
  <2>5. Write(t, n) \in lost' => Write(t, n) \in lost \/ In(batch, Write(t, n))
    BY <2>2
  <2> QED
    BY <2>2, <2>3, <2>4, <2>5, <1>d, <1>s DEF WritesInv
<1>4. BarrierInv'
  BY <1>d, <1>s DEF BarrierInv
<1>5. LossInv'
  BY <1>s DEF LossInv, FlushCovers
<1>6. StopInv'
  BY <1>v, <1>s DEF StopInv, StopReportsLoss, Outstanding
<1> QED BY <1>1, <1>2, <1>3, <1>4, <1>5, <1>6

(* CommitSegment keeps the invariant. *)
LEMMA CommitSegmentKeeps ==
  ASSUME WriterInv, CommitSegment PROVE WriterInv'
<1>1. PICK k \in 0..Len(batch) :
        /\ Segment = SubSeq(batch, 1, k) /\ Len(Segment) = k
        /\ Members(Segment) = {batch[i] : i \in 1..k}
        /\ \A i \in 1..k : ~IsControl(batch[i])
  BY SegmentFacts
<1>2. /\ thread = "process" /\ Segment # <<>>
      /\ durable' = durable \cup Members(Segment) /\ Complete(Members(Segment), "answered")
      /\ Advance(SubSeq(batch, k + 1, Len(batch)))
      /\ UNCHANGED <<stopSeen, unreported, stopping, queue, blocked, sent, ready, stopper,
                     lost, reported>>
  BY <1>1 DEF CommitSegment
<1>3. k \in 1..Len(batch) /\ batch \in Seq(Envelopes)
  BY <1>1, <1>2 DEF TypeOK
<1>4. \A e \in Members(Segment) : e \in Envelopes /\ e.kind # "barrier"
  BY <1>1, <1>3 DEF IsControl
<1>5. durable' \subseteq Envelopes /\ unreported' \in BOOLEAN /\ (lost # {} => unreported)
  BY <1>2, <1>4 DEF TypeOK, LossInv
<1> QED
  BY <1>1, <1>2, <1>3, <1>4, <1>5, ProcessedKeeps

(* RollBackSegment keeps the invariant. *)
LEMMA RollBackSegmentKeeps ==
  ASSUME WriterInv, RollBackSegment PROVE WriterInv'
<1>1. PICK k \in 0..Len(batch) :
        /\ Segment = SubSeq(batch, 1, k) /\ Len(Segment) = k
        /\ Members(Segment) = {batch[i] : i \in 1..k}
        /\ \A i \in 1..k : ~IsControl(batch[i])
  BY SegmentFacts
<1>2. /\ thread = "process" /\ Segment # <<>>
      /\ unreported' = (unreported \/ Members(Segment) \cap AsyncWrites # {})
      /\ lost' = lost \cup (Members(Segment) \cap AsyncWrites)
      /\ Complete(Members(Segment), "refused")
      /\ Advance(SubSeq(batch, k + 1, Len(batch)))
      /\ UNCHANGED <<stopSeen, stopping, queue, blocked, sent, ready, stopper,
                     durable, reported>>
  BY <1>1 DEF RollBackSegment, UnreportedAfter, Forgotten
<1>3. k \in 1..Len(batch) /\ batch \in Seq(Envelopes)
  BY <1>1, <1>2 DEF TypeOK
<1>4. \A e \in Members(Segment) : e \in Envelopes /\ e.kind # "barrier"
  BY <1>1, <1>3 DEF IsControl
<1>5. durable' \subseteq Envelopes /\ unreported' \in BOOLEAN /\ (lost' # {} => unreported')
  BY <1>2 DEF TypeOK, LossInv
<1> QED
  BY <1>1, <1>2, <1>3, <1>4, <1>5, ProcessedKeeps

(* RunCheckpoint keeps the invariant. *)
LEMMA RunCheckpointKeeps ==
  ASSUME WriterInv, RunCheckpoint PROVE WriterInv'
<1>1. PICK outcome \in {"answered", "refused"} : Complete({batch[1]}, outcome)
  BY DEF RunCheckpoint
<1>2. /\ thread = "process" /\ batch[1].kind = "checkpoint" /\ Advance(Tail(batch))
      /\ UNCHANGED <<stopSeen, unreported, stopping, queue, blocked, sent, ready, stopper, facts>>
  BY DEF RunCheckpoint
<1>3. batch \in Seq(Envelopes) /\ batch # <<>>
  BY <1>2 DEF TypeOK, StopInv
<1>4. 1 \in 1..Len(batch) /\ Tail(batch) = SubSeq(batch, 1 + 1, Len(batch)) /\ batch[1] \in Envelopes
  BY <1>3, EmptySeq, HeadTailProperties
<1>5. {batch[1]} = {batch[i] : i \in 1..1}
  OBVIOUS
<1>6. batch[1] \notin AsyncWrites
  BY <1>2, <1>4, EnvelopeKinds
<1>7. durable' \subseteq Envelopes /\ unreported' \in BOOLEAN /\ (lost # {} => unreported)
  BY <1>2 DEF TypeOK, LossInv
<1> QED
  BY <1>1, <1>2, <1>4, <1>5, <1>6, <1>7, ProcessedKeeps

(* RunBarrier keeps the invariant: in front of the barrier of a task its   *)
(* writes have been processed, and behind it the task has sent nothing.    *)
LEMMA RunBarrierKeeps ==
  ASSUME WriterInv, RunBarrier PROVE WriterInv'
<1>v. /\ thread = "process" /\ batch[1].kind = "barrier" /\ Advance(Tail(batch))
      /\ Complete({batch[1]}, IF unreported THEN "refused" ELSE "answered")
      /\ unreported' = FALSE
      /\ reported' = (IF unreported THEN reported \cup lost ELSE reported)
      /\ lost' = (IF unreported THEN {} ELSE lost)
      /\ UNCHANGED <<stopSeen, stopping, queue, blocked, sent, ready, stopper, durable>>
  BY DEF RunBarrier, TakeFailure
<1>q. batch \in Seq(Envelopes) /\ batch # <<>>
  BY <1>v DEF TypeOK, StopInv
<1>w. /\ batch' = Tail(batch)
      /\ \/ batch' # <<>> /\ thread' = "process"
         \/ batch' = <<>> /\ stopSeen /\ thread' = "exited"
         \/ batch' = <<>> /\ ~stopSeen /\ thread' = "get"
  BY <1>v DEF Advance
<1>d. /\ batch' \in Seq(Envelopes) /\ Len(batch') = Len(batch) - 1 /\ Len(batch) \in Nat
      /\ Head(batch) \in Envelopes /\ Head(batch) = batch[1] /\ In(batch, Head(batch))
      /\ \A x : In(batch, x) <=> In(batch', x) \/ x = Head(batch)
      /\ \A t : EndsWithBarrier(batch, t) =>
                  EndsWithBarrier(batch', t) /\ (Head(batch) = Barrier(t) => Free(batch', t))
  BY <1>w, <1>q, TailFacts
<1> DEFINE own == batch[1].by
<1>o. own \in Tasks /\ batch[1] = Barrier(own) /\ Tasks \subseteq Everyone
  BY <1>v, <1>d, EnvelopeKinds DEF Everyone
<1>b. /\ In(batch, Barrier(own)) /\ status[own] = "waiting" /\ sent[own] = Writes
      /\ Free(batch', own) /\ Free(queue, own)
  BY <1>o, <1>d DEF BarrierInv
<1>s. /\ status'[own] = (IF unreported THEN "refused" ELSE "answered")
      /\ \A p \in Everyone : p # own => status'[p] = status[p]
      /\ status' \in [Everyone -> {"idle", "putting", "open", "waiting", "cancelled",
                                   "answered", "refused", "done", "failed"}]
  BY <1>v, <1>o, <1>b DEF Complete, TypeOK
<1> HIDE DEF own
<1>f. /\ \A n \in 1..Writes : ~In(batch', Write(own, n)) /\ ~In(queue, Write(own, n))
      /\ ~In(batch', Barrier(own)) /\ ~In(queue, Barrier(own))
  BY <1>b, <1>o, EnvelopeKinds DEF Free, In
<1>n. \A t \in Tasks : \A n \in 1..Writes : Write(t, n) # Head(batch)
  BY <1>d, <1>o, EnvelopeKinds
<1>l. /\ durable' \cup lost' \cup reported' = durable \cup lost \cup reported
      /\ lost' = {} /\ reported \subseteq reported'
  BY <1>v DEF LossInv
<1>g. \A n \in 1..Writes : Write(own, n) \in durable' \cup reported'
  <2> SUFFICES ASSUME NEW n \in 1..Writes PROVE Write(own, n) \in durable' \cup reported'
    OBVIOUS
  <2>1. n <= sent[own]
    BY <1>b, WriterAssumption
  <2>2. ~In(batch, Write(own, n))
    BY <1>f, <1>n, <1>d, <1>o
  <2>3. Write(own, n) \in durable \cup lost \cup reported
    BY <2>1, <2>2, <1>f, <1>o DEF WritesInv, Settled
  <2> QED BY <2>3, <1>l
<1>1. TypeOK'
  <2>1. Len(batch') <= BatchSize
    BY <1>d, WriterAssumption DEF TypeOK
  <2> QED BY <2>1, <1>d, <1>s, <1>v, <1>w DEF TypeOK
<1>2. TaskInv'
  <2>1. \A e \in blocked : e.by \in Tasks => e.by # own
    BY <1>b DEF TaskInv
  <2> QED BY <2>1, <1>s, <1>v, <1>w, <1>o, <1>b DEF TaskInv
<1>3. WritesInv'
  <2> SUFFICES ASSUME NEW t \in Tasks, NEW n \in 1..Writes
               PROVE  /\ n <= sent[t] =>
                           Write(t, n) \in Settled' \/ In(batch', Write(t, n))
                             \/ In(queue, Write(t, n))
                      /\ In(batch', Write(t, n)) \/ In(queue, Write(t, n))
                           \/ Write(t, n) \in lost' => status'[t] \in Liable
    BY <1>v DEF WritesInv
  <2>1. Settled' = Settled
    BY <1>l DEF Settled
  <2>2. In(batch, Write(t, n)) <=> In(batch', Write(t, n))
    BY <1>d, <1>n
  <2>3. t = own \/ status'[t] = status[t]
    BY <1>s, <1>o
  <2> QED
    BY <2>1, <2>2, <2>3, <1>f, <1>l DEF WritesInv
<1>4. BarrierInv'
  <2> SUFFICES ASSUME NEW t \in Tasks
               PROVE  /\ EndsWithBarrier(batch', t) /\ EndsWithBarrier(queue, t)
                      /\ In(batch', Barrier(t)) => Free(queue, t)
                      /\ In(batch', Barrier(t)) \/ In(queue, Barrier(t)) =>
                           status'[t] = "waiting" /\ sent[t] = Writes
    BY <1>v DEF BarrierInv
  <2>1. t = own \/ status'[t] = status[t]
    BY <1>s, <1>o
  <2> QED BY <2>1, <1>d, <1>f DEF BarrierInv
<1>5. LossInv'
  <2>1. reported' # {} => ~ready \/ \E t \in Tasks : status'[t] = "refused"
    <3>1. CASE unreported
      BY <3>1, <1>s, <1>o
    <3>2. CASE ~unreported
      <4>1. reported' = reported
        BY <3>2, <1>v
      <4>2. \A t \in Tasks : status[t] = "refused" => status'[t] = "refused"
        BY <1>s, <1>b, <1>o
      <4> QED BY <4>1, <4>2 DEF LossInv
    <3> QED BY <3>1, <3>2
  <2>2. FlushCovers'
    <3> SUFFICES ASSUME NEW t \in Tasks, status'[t] \in {"answered", "done"}, NEW n \in 1..Writes
                 PROVE  Write(t, n) \in durable' \cup reported'
      BY DEF FlushCovers
    <3>1. CASE t = own
      BY <3>1, <1>g
    <3>2. CASE t # own
      <4>1. status[t] \in {"answered", "done"}
        BY <3>2, <1>s, <1>o
      <4>2. Write(t, n) \in durable \cup reported
        BY <4>1 DEF LossInv, FlushCovers
      <4> QED BY <4>2, <1>l, <1>v
    <3> QED BY <3>1, <3>2
  <2> QED BY <2>1, <2>2, <1>l, <1>v DEF LossInv
<1>6. StopInv'
  <2>1. stopper \notin {"putting", "joining", "ok"}
    BY <1>b, <1>o DEF StopInv, Outstanding
  <2> QED BY <2>1, <1>v, <1>w DEF StopInv
<1> QED BY <1>1, <1>2, <1>3, <1>4, <1>5, <1>6

-----------------------------------------------------------------------------
HIDE DEF writer, clients, facts, WriterInv

(* The invariant holds at the start. *)
LEMMA WriterInvInit == Init => WriterInv
<1> SUFFICES ASSUME Init PROVE WriterInv
  OBVIOUS
<1>1. TypeOK
  <2>1. /\ <<>> \in Seq(Envelopes) /\ <<>> \in Seq(Envelopes \cup {StopMark}) /\ Len(<<>>) = 0
        /\ 0 \in 0..Writes /\ 0 <= Capacity /\ 0 <= BatchSize
    BY WriterAssumption
  <2>2. /\ status \in [Everyone -> {"idle", "putting", "open", "waiting", "cancelled",
                                   "answered", "refused", "done", "failed"}]
        /\ sent \in [Tasks -> 0..Writes]
    BY <2>1 DEF Init
  <2> QED BY <2>1, <2>2 DEF Init, TypeOK
<1>2. TaskInv
  <2>1. \A t \in Tasks : status[t] = "idle" /\ sent[t] = 0
    BY DEF Init, Everyone
  <2> QED BY <2>1 DEF Init, TaskInv
<1>3. WritesInv
  BY EmptyFacts DEF Init, WritesInv
<1>4. BarrierInv
  BY EmptyFacts DEF Init, BarrierInv
<1>5. LossInv
  BY DEF Init, LossInv, FlushCovers, Everyone
<1>6. StopInv
  BY EmptyFacts DEF Init, StopInv
<1> QED BY <1>1, <1>2, <1>3, <1>4, <1>5, <1>6 DEF WriterInv

(* Every step keeps the invariant. *)
LEMMA WriterInvNext == ASSUME WriterInv, [Next]_vars PROVE WriterInv'
<1>1. CASE Next
  <2>1. CASE Start \/ ClientStep
    BY <2>1, StartKeeps, SendWriteKeeps, SendBarrierKeeps DEF ClientStep
  <2>2. CASE \E c \in Callers \cup Checkpointers : SendWaited(c) \/ Cancel(c)
    BY <2>2, SendWaitedKeeps, CancelKeeps
  <2>3. CASE PutSettles \/ \E p \in Everyone : Resume(p)
    BY <2>3, PutLandsKeeps, PutTimesOutKeeps, ResumeKeeps DEF PutSettles
  <2>4. CASE WriterStep
    BY <2>4, GetKeeps, FillKeeps, EndBatchKeeps, CommitSegmentKeeps, RollBackSegmentKeeps,
       RunBarrierKeeps, RunCheckpointKeeps
    DEF WriterStep, Process
  <2>5. CASE StopBegin \/ StopPut \/ StopFull \/ StopJoinTimesOut \/ StopJoined
    BY <2>5, StopBeginKeeps, StopPutKeeps, StopFullKeeps, StopJoinTimesOutKeeps, StopJoinedKeeps
  <2> QED BY <1>1, <2>1, <2>2, <2>3, <2>4, <2>5 DEF Next
<1>2. CASE UNCHANGED vars
  BY <1>2 DEF vars, writer, clients, facts, WriterInv, TypeOK, TaskInv, WritesInv, Settled,
     BarrierInv, LossInv, FlushCovers, StopInv, StopReportsLoss, Outstanding
<1> QED BY <1>1, <1>2

(* The inductive invariant holds in every reachable state. *)
THEOREM WriterInvariant == Spec => []WriterInv
  BY WriterInvInit, WriterInvNext, PTL DEF Spec

-----------------------------------------------------------------------------
(* Queue and batch stay within their bounds and every variable has its     *)
(* type.                                                                   *)
THEOREM WriterTypeCorrect == Spec => []TypeOK
<1>1. WriterInv => TypeOK
  BY DEF WriterInv
<1> QED BY <1>1, WriterInvariant, PTL

(* No accepted history write is lost silently: neither behind a flush that *)
(* succeeded, nor behind the service's readiness, nor behind stop().       *)
THEOREM LossIsReported == Spec => []LossReported
<1>1. ASSUME WriterInv PROVE LossReported
  <2> USE <1>1 DEF WriterInv
  <2>1. FlushCovers
    BY DEF LossInv
  <2>2. LossNoticed
    <3> SUFFICES ASSUME ready, \A t \in Tasks : ~Outstanding(t),
                        NEW t \in Tasks, NEW n \in 1..sent[t]
                 PROVE  Write(t, n) \in durable
      BY DEF LossNoticed
    <3>1. sent[t] \in 0..Writes /\ n \in 1..Writes
      BY WriterAssumption DEF TypeOK
    <3>2. reported = {}
      BY DEF LossInv, Outstanding
    <3>3. sent[t] # 0
      BY <3>1, WriterAssumption
    <3>4. status[t] = "done"
      BY <3>3 DEF TaskInv, Outstanding, TypeOK, Everyone
    <3> QED BY <2>1, <3>1, <3>2, <3>4 DEF FlushCovers
  <2>3. StopReportsLoss
    BY DEF StopInv, StopReportsLoss
  <2> QED BY <2>1, <2>2, <2>3 DEF LossReported
<1> QED BY <1>1, WriterInvariant, PTL
=============================================================================
