--------------------------- MODULE StorageWriter ---------------------------
(***************************************************************************)
(* The SQLite writer of storage/database.py and the tasks that use it: one *)
(* thread takes envelopes from a bounded queue in batches, commits each    *)
(* run of writes between two controls as one transaction, and completes    *)
(* the futures of those who wait.                                          *)
(*                                                                         *)
(* History tasks (service._persist_history) send writes nobody waits for   *)
(* and then a barrier; callers wait for a single write or a checkpoint.    *)
(* An envelope is the record [kind, by, n]: the n-th write of task `by`.   *)
(***************************************************************************)
EXTENDS Integers, Sequences, FiniteSets

CONSTANTS
  Tasks,         \* history tasks
  Writes,        \* writes of a history task before its barrier
  Callers,       \* tasks that wait for one write
  Checkpointers, \* tasks that wait for one WAL checkpoint
  Capacity,      \* queue_capacity
  BatchSize      \* batch_size

ASSUME WriterAssumption ==
  /\ Writes \in Nat \ {0} /\ Capacity \in Nat \ {0} /\ BatchSize \in Nat \ {0}
  /\ Tasks \cap Callers = {} /\ Checkpointers \cap (Tasks \cup Callers) = {}

VARIABLES
  thread,     \* _writer_thread: none, get, fill, process, exited
  stopping,   \* _stopping
  queue,      \* _queue
  batch,      \* envelopes the writer has taken and not yet processed
  stopSeen,   \* the local `stopping` of _writer_main
  unreported, \* _unreported_failure is set
  blocked,    \* envelopes whose put() waits in a worker thread
  status,     \* what each task is doing
  sent,       \* number of writes each history task has enqueued
  stopper,    \* the call of stop(): idle, putting, joining, ok, failed
  ready,      \* service._storage_ready
  durable,    \* writes that are committed
  lost,       \* history: fire-and-forget writes rolled back and not reported
  reported    \* history: ... and reported to somebody

writer  == <<thread, batch, stopSeen, unreported>>
clients == <<status, sent, ready>>
facts   == <<durable, lost, reported>>
vars    == <<writer, stopping, queue, blocked, clients, stopper, facts>>

Everyone == Tasks \cup Callers \cup Checkpointers
Write(t, n)  == [kind |-> "async", by |-> t, n |-> n]
Waited(c)    == [kind |-> "waited", by |-> c, n |-> 1]
Barrier(t)   == [kind |-> "barrier", by |-> t, n |-> 0]
Checkpoint(c) == [kind |-> "checkpoint", by |-> c, n |-> 0]
StopMark     == [kind |-> "stop", by |-> "stop", n |-> 0]

AsyncWrites == {Write(t, n) : t \in Tasks, n \in 1..Writes}
Envelopes == AsyncWrites \cup {Waited(c) : c \in Callers}
               \cup {Barrier(t) : t \in Tasks} \cup {Checkpoint(c) : c \in Checkpointers}

TypeOK ==
  /\ thread \in {"none", "get", "fill", "process", "exited"}
  /\ stopping \in BOOLEAN /\ stopSeen \in BOOLEAN /\ unreported \in BOOLEAN
  /\ queue \in Seq(Envelopes \cup {StopMark}) /\ Len(queue) <= Capacity
  /\ batch \in Seq(Envelopes) /\ Len(batch) <= BatchSize
  /\ blocked \subseteq Envelopes
  /\ status \in [Everyone -> {"idle", "putting", "open", "waiting", "cancelled",
                              "answered", "refused", "done", "failed"}]
  /\ sent \in [Tasks -> 0..Writes]
  /\ stopper \in {"idle", "putting", "joining", "ok", "failed"}
  /\ ready \in BOOLEAN
  /\ durable \subseteq Envelopes /\ lost \subseteq AsyncWrites
  /\ reported \subseteq AsyncWrites

-----------------------------------------------------------------------------
(* Start.                                                                  *)

Alive == thread \in {"get", "fill", "process"}

Start ==
  /\ thread = "none" /\ stopper = "idle"
  /\ thread' = "get" /\ ready' = TRUE
  /\ UNCHANGED <<stopping, queue, batch, stopSeen, unreported, blocked, status,
                 sent, stopper, facts>>

-----------------------------------------------------------------------------
(* Clients.                                                                *)

Fail(p) == status' = [status EXCEPT ![p] = "failed"]

\* _put() refuses when the writer is stopping or not alive.
Accepting == Alive /\ ~stopping

\* _put(e) for task p, which is in state `after` once e is in the queue.
Put(e, p, after) ==
  IF ~Accepting
    THEN Fail(p) /\ UNCHANGED <<queue, blocked>>
    ELSE IF Len(queue) < Capacity
           THEN /\ queue' = Append(queue, e) /\ UNCHANGED blocked
                /\ status' = [status EXCEPT ![p] = after]
           ELSE /\ blocked' = blocked \cup {e} /\ UNCHANGED queue
                /\ status' = [status EXCEPT ![p] = "putting"]

\* What task p is in once the put of e has returned: a history task goes on,
\* everybody else waits for the future.
After(e) == IF e.kind = "async" THEN "open" ELSE "waiting"

Counted(e) == IF e.kind = "async" THEN [sent EXCEPT ![e.by] = e.n] ELSE sent

\* _persist_history: the next write, then the barrier.
SendWrite(t) ==
  /\ thread # "none"
  /\ status[t] \in {"idle", "open"} /\ sent[t] < Writes
  /\ LET e == Write(t, sent[t] + 1) IN
       /\ Put(e, t, "open")
       /\ sent' = IF queue' # queue THEN Counted(e) ELSE sent
  /\ ready' = (ready /\ status'[t] # "failed")
  /\ UNCHANGED <<writer, stopping, stopper, facts>>

SendBarrier(t) ==
  /\ status[t] = "open" /\ sent[t] = Writes
  /\ Put(Barrier(t), t, "waiting")
  /\ ready' = (ready /\ status'[t] # "failed")
  /\ UNCHANGED <<writer, stopping, sent, stopper, facts>>

SendWaited(c) ==
  /\ thread # "none" /\ status[c] = "idle"
  /\ Put(IF c \in Callers THEN Waited(c) ELSE Checkpoint(c), c, "waiting")
  /\ UNCHANGED <<writer, stopping, sent, ready, stopper, facts>>

\* A caller (not a history task) is cancelled; its envelope stays.
Cancel(c) ==
  /\ status[c] \in {"putting", "waiting", "answered", "refused"}
  /\ status' = [status EXCEPT ![c] = "cancelled"]
  /\ UNCHANGED <<writer, stopping, queue, blocked, sent, ready, stopper, facts>>

PutLands(e) ==
  /\ e \in blocked /\ Len(queue) < Capacity
  /\ queue' = Append(queue, e) /\ blocked' = blocked \ {e}
  /\ sent' = Counted(e)
  /\ status' = IF status[e.by] = "putting"
                 THEN [status EXCEPT ![e.by] = After(e)] ELSE status
  /\ UNCHANGED <<writer, stopping, ready, stopper, facts>>

\* queue.Full after enqueue_timeout: the task fails.
PutTimesOut(e) ==
  /\ e \in blocked /\ Len(queue) = Capacity
  /\ blocked' = blocked \ {e}
  /\ status' = IF status[e.by] = "putting"
                 THEN [status EXCEPT ![e.by] = "failed"] ELSE status
  /\ ready' = (ready /\ e.by \notin Tasks)
  /\ UNCHANGED <<writer, stopping, queue, sent, stopper, facts>>

\* The event loop resumes a task whose future was completed; _persistence_done
\* of a history task looks at its result.
Resume(p) ==
  /\ status[p] \in {"answered", "refused"}
  /\ status' = [status EXCEPT ![p] = IF @ = "answered" THEN "done" ELSE "failed"]
  /\ ready' = (ready /\ ~(p \in Tasks /\ status[p] = "refused"))
  /\ UNCHANGED <<writer, stopping, queue, blocked, sent, stopper, facts>>

-----------------------------------------------------------------------------
(* _writer_main: collect a batch.                                          *)

IsControl(e) == e.kind \in {"barrier", "checkpoint"}

Get ==
  /\ thread = "get" /\ queue # <<>>
  /\ queue' = Tail(queue)
  /\ IF Head(queue) = StopMark
       THEN thread' = "exited" /\ UNCHANGED batch
       ELSE thread' = "fill" /\ batch' = <<Head(queue)>>
  /\ UNCHANGED <<stopSeen, unreported, stopping, blocked, clients, stopper, facts>>

\* A control that is not the first envelope ends the batch.
Fill ==
  /\ thread = "fill" /\ Len(batch) < BatchSize /\ queue # <<>>
  /\ queue' = Tail(queue)
  /\ IF Head(queue) = StopMark
       THEN stopSeen' = TRUE /\ thread' = "process" /\ UNCHANGED batch
       ELSE /\ batch' = Append(batch, Head(queue))
            /\ thread' = IF IsControl(Head(queue)) THEN "process" ELSE "fill"
            /\ UNCHANGED stopSeen
  /\ UNCHANGED <<unreported, stopping, blocked, clients, stopper, facts>>

\* The batch is full, or its interval is over.
EndBatch ==
  /\ thread = "fill"
  /\ thread' = "process"
  /\ UNCHANGED <<batch, stopSeen, unreported, stopping, queue, blocked, clients,
                 stopper, facts>>

-----------------------------------------------------------------------------
(* _process_envelopes: segments and controls in the order of the batch.    *)

\* The writes in front of the first control.
Segment ==
  LET k == CHOOSE k \in 0..Len(batch) :
             /\ \A i \in 1..k : ~IsControl(batch[i])
             /\ k < Len(batch) => IsControl(batch[k + 1])
  IN SubSeq(batch, 1, k)

Members(s) == {s[i] : i \in DOMAIN s}

\* Mutant: a rolled back segment leaves the futures alone.
CompleteAnswered(es, outcome) ==
  status' = [p \in Everyone |->
    IF /\ status[p] = "waiting" /\ outcome = "answered"
       /\ \E e \in es : e.by = p /\ e.kind # "async"
      THEN outcome ELSE status[p]]

\* set_result or set_exception of the futures of the envelopes es.
Complete(es, outcome) ==
  status' = [p \in Everyone |->
    IF status[p] = "waiting" /\ \E e \in es : e.by = p /\ e.kind # "async"
      THEN outcome ELSE status[p]]

\* The batch after its first envelopes es were processed; back to get() or out
\* of the loop when it is empty.
Advance(rest) ==
  /\ batch' = rest
  /\ thread' = IF rest # <<>> THEN "process" ELSE IF stopSeen THEN "exited" ELSE "get"

CommitSegment ==
  /\ thread = "process" /\ Segment # <<>>
  /\ durable' = durable \cup Members(Segment)
  /\ Complete(Members(Segment), "answered")
  /\ Advance(SubSeq(batch, Len(Segment) + 1, Len(batch)))
  /\ UNCHANGED <<stopSeen, unreported, stopping, queue, blocked, sent, ready,
                 stopper, lost, reported>>

\* The transaction is rolled back; only writes that nobody waits for make the
\* failure one that still has to be reported.
Forgotten(es) == es \cap AsyncWrites # {}

UnreportedAfter(es) == unreported \/ Forgotten(es)

RollBackSegment ==
  /\ thread = "process" /\ Segment # <<>>
  /\ unreported' = UnreportedAfter(Members(Segment))
  /\ lost' = lost \cup (Members(Segment) \cap AsyncWrites)
  /\ Complete(Members(Segment), "refused")
  /\ Advance(SubSeq(batch, Len(Segment) + 1, Len(batch)))
  /\ UNCHANGED <<stopSeen, stopping, queue, blocked, sent, ready, stopper,
                 durable, reported>>

\* Whoever takes the unreported failure learns of everything lost so far.
TakeFailure ==
  /\ unreported' = FALSE
  /\ reported' = IF unreported THEN reported \cup lost ELSE reported
  /\ lost' = IF unreported THEN {} ELSE lost

\* Mutant: the barrier clears the failure and does not raise it.
RunBarrierQuietly ==
  /\ thread = "process" /\ Segment = <<>> /\ batch[1].kind = "barrier"
  /\ Complete({batch[1]}, "answered")
  /\ unreported' = FALSE
  /\ Advance(Tail(batch))
  /\ UNCHANGED <<stopSeen, stopping, queue, blocked, sent, ready, stopper, facts>>

RunBarrier ==
  /\ thread = "process" /\ Segment = <<>> /\ batch[1].kind = "barrier"
  /\ Complete({batch[1]}, IF unreported THEN "refused" ELSE "answered")
  /\ TakeFailure
  /\ Advance(Tail(batch))
  /\ UNCHANGED <<stopSeen, stopping, queue, blocked, sent, ready, stopper, durable>>

RunCheckpoint ==
  /\ thread = "process" /\ Segment = <<>> /\ batch[1].kind = "checkpoint"
  /\ \E outcome \in {"answered", "refused"} : Complete({batch[1]}, outcome)
  /\ Advance(Tail(batch))
  /\ UNCHANGED <<stopSeen, unreported, stopping, queue, blocked, sent, ready,
                 stopper, facts>>

-----------------------------------------------------------------------------
(* stop(), called once the persistence tasks have been gathered.           *)

Outstanding(t) == status[t] \in {"putting", "open", "waiting", "answered", "refused"}

StopBegin ==
  /\ thread # "none" /\ stopper = "idle"
  /\ \A t \in Tasks : ~Outstanding(t)
  /\ stopping' = TRUE /\ stopper' = "putting"
  /\ UNCHANGED <<writer, queue, blocked, clients, facts>>

StopPut ==
  /\ stopper = "putting" /\ Len(queue) < Capacity
  /\ queue' = Append(queue, StopMark) /\ stopper' = "joining"
  /\ UNCHANGED <<writer, stopping, blocked, clients, facts>>

StopFull ==
  /\ stopper = "putting" /\ Len(queue) = Capacity
  /\ stopping' = FALSE /\ stopper' = "failed"
  /\ UNCHANGED <<writer, queue, blocked, clients, facts>>

StopJoinTimesOut ==
  /\ stopper = "joining" /\ Alive
  /\ stopper' = "failed"
  /\ UNCHANGED <<writer, stopping, queue, blocked, clients, facts>>

StopJoined ==
  /\ stopper = "joining" /\ thread = "exited"
  /\ stopping' = FALSE
  /\ stopper' = IF unreported THEN "failed" ELSE "ok"
  /\ TakeFailure
  /\ UNCHANGED <<thread, batch, stopSeen, queue, blocked, clients, durable>>

-----------------------------------------------------------------------------
Init ==
  /\ thread = "none" /\ stopping = FALSE /\ queue = <<>> /\ batch = <<>>
  /\ stopSeen = FALSE /\ unreported = FALSE /\ blocked = {}
  /\ status = [p \in Everyone |-> "idle"] /\ sent = [t \in Tasks |-> 0]
  /\ stopper = "idle" /\ ready = FALSE
  /\ durable = {} /\ lost = {} /\ reported = {}

PutSettles == \E e \in blocked : PutLands(e) \/ PutTimesOut(e)
Process == CommitSegment \/ RollBackSegment \/ RunBarrier \/ RunCheckpoint
WriterStep == Get \/ Fill \/ EndBatch \/ Process
ClientStep == \E t \in Tasks : SendWrite(t) \/ SendBarrier(t)

Next ==
  \/ Start \/ ClientStep
  \/ \E c \in Callers \cup Checkpointers : SendWaited(c) \/ Cancel(c)
  \/ PutSettles \/ \E p \in Everyone : Resume(p)
  \/ WriterStep
  \/ StopBegin \/ StopPut \/ StopFull \/ StopJoinTimesOut \/ StopJoined

\* The writer and the worker threads run; the event loop runs what is ready,
\* and a history task that has begun goes on.
Fairness ==
  /\ WF_vars(WriterStep) /\ WF_vars(PutSettles)
  /\ \A p \in Everyone : WF_vars(Resume(p))
  /\ \A t \in Tasks : WF_vars(status[t] = "open" /\ (SendWrite(t) \/ SendBarrier(t)))

Spec == Init /\ [][Next]_vars /\ Fairness

-----------------------------------------------------------------------------
(* Properties.                                                             *)

\* service.py:1719: a barrier turns a fire-and-forget rollback into an
\* exception.  When a history task has ended well, each of its writes is
\* durable or its loss was reported to somebody, whatever batches and
\* segments its envelopes were spread over.
FlushCovers ==
  \A t \in Tasks : status[t] \in {"answered", "done"} =>
    \A n \in 1..Writes : Write(t, n) \in durable \cup reported

\* service.py:981: "readiness exposes the failed durability invariant".  When
\* no history task is under way and the service calls its storage ready, no
\* history write that was accepted has been lost or is still queued.
LossNoticed ==
  (ready /\ \A t \in Tasks : ~Outstanding(t)) =>
    \A t \in Tasks : \A n \in 1..sent[t] : Write(t, n) \in durable

\* database.py:305: a stop() that returns normally has lost nothing silently:
\* every accepted history write is durable or its loss was reported.
StopReportsLoss ==
  stopper = "ok" => \A t \in Tasks : \A n \in 1..sent[t] :
                      Write(t, n) \in durable \cup reported

\* database.py:347: a caller that waits for its write or checkpoint gets an
\* answer, as does every history task, unless the service shuts down meanwhile.
WaiterAnswered ==
  \A p \in Everyone : status[p] \in {"putting", "waiting"}
                        ~> \/ status[p] \in {"done", "failed", "cancelled"}
                           \/ stopper # "idle"

\* No accepted history write is lost silently, neither behind a flush, nor
\* behind the service's readiness, nor behind stop() (_writer_main, database.py).
LossReported == FlushCovers /\ LossNoticed /\ StopReportsLoss
=============================================================================
