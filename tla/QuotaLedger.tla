---------------------------- MODULE QuotaLedger ----------------------------
(***************************************************************************)
(* The credit ledger of one metered provider: the counter of               *)
(* providers/quota.py, the record that the collectors write to SQLite      *)
(* before each grant, the periodic checkpoint of the same counter, and     *)
(* their recovery after a crash.                                           *)
(*                                                                         *)
(* Every record carries the wall-clock instant at which its caller asked   *)
(* for the time (updated_at).  Instants are numbered in the order in which *)
(* they were taken; the clock is assumed never to step back.  SQLite and   *)
(* its queue are reduced to what a record meets: a bounded FIFO, threads   *)
(* that wait for room in it, one writer that commits or rolls back.        *)
(***************************************************************************)
EXTENDS Integers, Sequences, FiniteSets, FiniteSetsExt

CONSTANTS
  Limits,        \* credits per window an operator may configure
  Reserve,       \* credits that only reserve traffic may use
  Costs,         \* credits one request costs
  Capacity,      \* records the writer's queue holds
  LastWindow,    \* bound: accounting windows 0..LastWindow
  LastInstant,   \* bound: instants that are ever taken
  Crashes        \* bound: how often the process stops

ASSUME QuotaAssumption ==
  /\ Limits \subseteq Nat \ {0}
  /\ Reserve \in Nat
  /\ \A l \in Limits : Reserve < l
  /\ Costs \subseteq Nat \ {0}
  /\ Capacity \in Nat \ {0}
  /\ LastWindow \in Nat /\ LastInstant \in Nat /\ Crashes \in Nat

VARIABLES
  window,     \* the window the wall clock is in
  instant,    \* the last instant taken
  crashes,    \* how often the process has stopped
  up,         \* the process is running
  limit,      \* QuotaBudget.limit of this process
  bound,      \* QuotaBudget._persistence is set
  start,      \* QuotaBudget._window_start
  used,       \* QuotaBudget._used
  holder,     \* the task inside acquire(), which holds QuotaBudget._lock
  checkpoint, \* instant of the checkpoint that waits for the lock, 0 if none
  blocked,    \* records whose put() waits in a worker thread for room
  queue,      \* the writer's queue
  durable,    \* the row of provider_checkpoints
  granted,    \* history: credits granted, by ledger window
  plain,      \* history: the part of them granted without the reserve
  refused     \* history: a start has refused the durable record

ledger  == <<limit, bound, start, used>>
storage == <<blocked, queue, durable>>
ghosts  == <<granted, plain, refused>>
clock   == <<window, instant, crashes, up>>
quotaVars    == <<clock, ledger, holder, checkpoint, storage, ghosts>>

Windows == 0..LastWindow
Records == [start : Windows, used : Nat, limit : Limits, at : 1..LastInstant]
NoRecord == [start |-> 0, used |-> 0, limit |-> 0, at |-> 0]
Idle == [at |-> 0]
Holders == [at : 1..LastInstant, cost : Costs, plain : BOOLEAN, start : Windows,
            used : Nat, phase : {"waiting", "committed", "failed"}]

QuotaTypeOK ==
  /\ window \in Windows /\ instant \in 0..LastInstant /\ crashes \in 0..Crashes
  /\ up \in BOOLEAN /\ bound \in BOOLEAN /\ limit \in Limits
  /\ start \in Windows /\ used \in Nat
  /\ holder \in Holders \cup {Idle}
  /\ checkpoint \in 0..LastInstant
  /\ blocked \subseteq Records
  /\ queue \in Seq(Records) /\ Len(queue) <= Capacity
  /\ durable \in Records \cup {NoRecord}
  /\ granted \in [Windows -> Nat] /\ plain \in [Windows -> Nat]
  /\ refused \in BOOLEAN

-----------------------------------------------------------------------------
(* The counter.                                                            *)

\* _roll(): a counter of an earlier window starts again at zero.
Rolled == IF window > start THEN 0 ELSE used

Ceiling(reserveAllowed) == IF reserveAllowed THEN limit ELSE limit - Reserve

LockFree == up /\ holder = Idle

TakeInstant == instant < LastInstant /\ instant' = instant + 1

Record(u, at) == [start |-> window, used |-> u, limit |-> limit, at |-> at]

\* _put(): straight into the queue, or a worker thread that waits for room.
Put(r) ==
  IF Len(queue) < Capacity
    THEN queue' = Append(queue, r) /\ UNCHANGED blocked
    ELSE blocked' = blocked \cup {r} /\ UNCHANGED queue

\* acquire(), no credits left: the window may have rolled, nothing else.
Deny(cost, reserveAllowed) ==
  /\ LockFree
  /\ Rolled + cost > Ceiling(reserveAllowed)
  /\ start' = window /\ used' = Rolled
  /\ UNCHANGED <<clock, limit, bound, holder, checkpoint, storage, ghosts>>

\* acquire(), up to the await of the persistence callback.
Reserving(cost, reserveAllowed) ==
  /\ LockFree /\ bound
  /\ Rolled + cost <= Ceiling(reserveAllowed)
  /\ TakeInstant
  /\ start' = window /\ used' = Rolled + cost
  /\ holder' = [at |-> instant', cost |-> cost, plain |-> ~reserveAllowed,
                start |-> start, used |-> used, phase |-> "waiting"]
  /\ Put(Record(Rolled + cost, instant'))
  /\ UNCHANGED <<window, crashes, up, limit, bound, checkpoint, durable, ghosts>>

Count(w, cost, isPlain) ==
  /\ granted' = [granted EXCEPT ![w] = @ + cost]
  /\ plain' = IF isPlain THEN [plain EXCEPT ![w] = @ + cost] ELSE plain
  /\ UNCHANGED refused

\* acquire() of a ledger that has no persistence callback.
GrantUnbound(cost, reserveAllowed) ==
  /\ LockFree /\ ~bound
  /\ Rolled + cost <= Ceiling(reserveAllowed)
  /\ start' = window /\ used' = Rolled + cost
  /\ Count(window, cost, ~reserveAllowed)
  /\ UNCHANGED <<clock, limit, bound, holder, checkpoint, storage>>

\* acquire() resumes after the record is durable, and grants the credits.
Grant ==
  /\ holder # Idle /\ holder.phase = "committed"
  /\ Count(start, holder.cost, holder.plain)
  /\ holder' = Idle
  /\ UNCHANGED <<clock, ledger, checkpoint, storage>>

\* The except BaseException branch of acquire(): the reservation is undone.
RollBack ==
  /\ start' = holder.start /\ used' = holder.used
  /\ holder' = Idle
  /\ UNCHANGED <<clock, limit, bound, checkpoint, storage, ghosts>>

\* The record could not be queued or was rolled back by the writer.
PersistFails == holder # Idle /\ holder.phase = "failed" /\ RollBack

\* The caller is cancelled, by the router's timeout or at shutdown: the wait
\* is shielded, so the record stays where it is.
CancelAcquire == holder # Idle /\ RollBack

\* can_acquire() and snapshot() roll the window and change nothing else.
Peek ==
  /\ LockFree /\ window > start
  /\ start' = window /\ used' = 0
  /\ UNCHANGED <<clock, limit, bound, holder, checkpoint, storage, ghosts>>

-----------------------------------------------------------------------------
(* Checkpoints: the instant is taken first, the counter is read when the   *)
(* lock is free, and the record is queued at once.                         *)

CheckpointBegin ==
  /\ up /\ checkpoint = 0
  /\ TakeInstant
  /\ checkpoint' = instant'
  /\ UNCHANGED <<window, crashes, up, ledger, holder, storage, ghosts>>

CheckpointRead ==
  /\ LockFree /\ checkpoint # 0
  /\ start' = window /\ used' = Rolled
  /\ Put(Record(Rolled, checkpoint))
  /\ checkpoint' = 0
  /\ UNCHANGED <<clock, limit, bound, holder, durable, ghosts>>

-----------------------------------------------------------------------------
(* The queue and its writer.                                               *)

\* Mutant: a failed write does not complete the future of its envelope.
SettleCommitted(at, outcome) ==
  holder' = IF holder # Idle /\ holder.at = at /\ outcome = "committed"
              THEN [holder EXCEPT !.phase = outcome] ELSE holder

Settle(at, outcome) ==
  holder' = IF holder # Idle /\ holder.at = at
              THEN [holder EXCEPT !.phase = outcome] ELSE holder

PutLands(r) ==
  /\ r \in blocked /\ Len(queue) < Capacity
  /\ queue' = Append(queue, r) /\ blocked' = blocked \ {r}
  /\ UNCHANGED <<clock, ledger, holder, checkpoint, durable, ghosts>>

PutTimesOut(r) ==
  /\ r \in blocked /\ Len(queue) = Capacity
  /\ blocked' = blocked \ {r}
  /\ Settle(r.at, "failed")
  /\ UNCHANGED <<clock, ledger, checkpoint, queue, durable, ghosts>>

\* Mutant: the upsert has no WHERE clause.
UpsertAlways(r) == r

\* The upsert keeps the newer of the two records; either way it succeeds.
Upsert(r) == IF r.at >= durable.at THEN r ELSE durable

Commit ==
  /\ queue # <<>>
  /\ durable' = Upsert(Head(queue))
  /\ queue' = Tail(queue)
  /\ Settle(Head(queue).at, "committed")
  /\ UNCHANGED <<clock, ledger, checkpoint, blocked, ghosts>>

CommitFails ==
  /\ queue # <<>>
  /\ queue' = Tail(queue)
  /\ Settle(Head(queue).at, "failed")
  /\ UNCHANGED <<clock, ledger, checkpoint, blocked, durable, ghosts>>

-----------------------------------------------------------------------------
(* Time, crashes and restarts.                                             *)

NextWindow ==
  /\ window < LastWindow
  /\ window' = window + 1
  /\ UNCHANGED <<instant, crashes, up, ledger, holder, checkpoint, storage, ghosts>>

Crash ==
  /\ up /\ crashes < Crashes
  /\ up' = FALSE /\ crashes' = crashes + 1
  /\ holder' = Idle /\ checkpoint' = 0
  /\ blocked' = {} /\ queue' = <<>>
  /\ UNCHANGED <<window, instant, ledger, durable, ghosts>>

\* Mutant: the counter of the current window is not restored.
BootEmpty(l) ==
  /\ ~up /\ up' = TRUE
  /\ durable = NoRecord \/ durable.limit = l
  /\ limit' = l /\ bound' = TRUE
  /\ start' = window /\ used' = 0
  /\ UNCHANGED <<window, instant, crashes, holder, checkpoint, storage, ghosts>>

\* A start that accepts the durable record, or finds none: the counter is
\* restored only if the record belongs to the current window.
Boot(l) ==
  /\ ~up /\ up' = TRUE
  /\ durable = NoRecord \/ durable.limit = l
  /\ limit' = l /\ bound' = TRUE
  /\ start' = window
  /\ used' = IF durable.start = window THEN durable.used ELSE 0
  /\ UNCHANGED <<window, instant, crashes, holder, checkpoint, storage, ghosts>>

\* A start that finds a record of another limit: restore() raises, so the
\* ledger, already shared, is neither restored nor bound, and stop() of the
\* failed coordinator writes a checkpoint of the empty counter.
BootRefused(l) ==
  /\ ~up /\ up' = TRUE
  /\ durable # NoRecord /\ durable.limit # l
  /\ TakeInstant
  /\ limit' = l /\ bound' = FALSE
  /\ start' = window /\ used' = 0
  /\ queue' = <<[start |-> window, used |-> 0, limit |-> l, at |-> instant']>>
  /\ refused' = TRUE
  /\ UNCHANGED <<window, crashes, holder, checkpoint, blocked, durable, granted, plain>>

-----------------------------------------------------------------------------
QuotaInit ==
  /\ window = 0 /\ instant = 0 /\ crashes = 0
  /\ up = TRUE /\ bound = TRUE /\ limit \in Limits
  /\ start = 0 /\ used = 0
  /\ holder = Idle /\ checkpoint = 0
  /\ blocked = {} /\ queue = <<>> /\ durable = NoRecord
  /\ granted = [w \in Windows |-> 0] /\ plain = [w \in Windows |-> 0]
  /\ refused = FALSE

PutSettles == \E r \in blocked : PutLands(r) \/ PutTimesOut(r)

QuotaNext ==
  \/ \E c \in Costs, b \in BOOLEAN : Deny(c, b) \/ Reserving(c, b) \/ GrantUnbound(c, b)
  \/ Grant \/ PersistFails \/ CancelAcquire \/ Peek
  \/ CheckpointBegin \/ CheckpointRead
  \/ PutSettles \/ Commit \/ CommitFails
  \/ NextWindow \/ Crash
  \/ \E l \in Limits : Boot(l) \/ BootRefused(l)

\* The writer thread, the worker threads and the event loop keep running.
QuotaFairness ==
  /\ WF_quotaVars(Commit \/ CommitFails)
  /\ WF_quotaVars(PutSettles)
  /\ WF_quotaVars(Grant \/ PersistFails)

QuotaSpec == QuotaInit /\ [][QuotaNext]_quotaVars /\ QuotaFairness

-----------------------------------------------------------------------------
(* Properties.                                                             *)

\* README.md:394: "all attempts remain subject to the hard local daily credit
\* budget".  Across failed writes, cancelled callers, crashes and restarts the
\* credits granted in one window never exceed the configured limit, as long
\* as no start had to refuse the durable record.
GrantsWithinLimit == ~refused => \A w \in Windows : granted[w] <= limit

\* The same statement without the exception: "hard" means that no restart and no
\* change of the plan makes the credits of a window available a second time.
HardBudget == \A w \in Windows : granted[w] <= Max(Limits)

\* docs/operations.md:388: general traffic "cannot consume the quote reserve",
\* also across restarts.
ReserveKept == ~refused => \A w \in Windows : plain[w] <= limit - Reserve

\* quota.py:76-86: a credit is durable before it is granted.  The durable row
\* therefore never counts fewer credits than were granted in its window, and
\* is never of an earlier window than one in which credits were granted,
\* however checkpoints, orphaned records and grants are reordered.
DurableCoversGrants ==
  ~refused => \A w \in Windows :
                granted[w] > 0 => \/ durable.start > w
                                  \/ durable.start = w /\ durable.used >= granted[w]

\* quota.py:68: the lock is released again: no write that hangs, fails or is
\* abandoned keeps every later request of the provider waiting.
LockReleased == holder # Idle ~> holder = Idle

\* The local budget of QuotaBudget.acquire, quota.py: neither the limit nor the
\* reserve for quotes is exceeded in any window.
BudgetKept == GrantsWithinLimit /\ ReserveKept
=============================================================================
