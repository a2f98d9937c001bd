-------------------------- MODULE CatalogActivation --------------------------
(***************************************************************************)
(* Hot activation of a catalog generation: the activation job              *)
(* (catalog_runtime.py, InstrumentCatalogRuntime._run_job), the commit     *)
(* that switches the file, the served generation and the collectors        *)
(* (service.py, _commit_catalog_activation), and the process around it     *)
(* (startup, shutdown with one cancellation, crash and restart).           *)
(*                                                                         *)
(* The job is one asyncio task; pc names the await it is suspended in.  A  *)
(* step is what runs between two awaits, or the effect of the worker       *)
(* thread it awaits.  Administrators' requests, history publications, the  *)
(* candidate collector and process exit interleave at every await.  I/O    *)
(* and collector failures are injected at most MaxFaults times.            *)
(***************************************************************************)
EXTENDS CatalogStore

CONSTANTS Admins,      \* administrators holding a revision they read
          MaxJobs,     \* jobs one process runs
          MaxBoots,    \* restarts after the first start
          MaxFaults    \* injected I/O or collector failures

ASSUME BoundsAssumption ==
    MaxJobs \in Nat /\ MaxBoots \in Nat /\ MaxFaults \in Nat

Ids == 0..MaxJobs      \* generation ids and collector objects of a process:
                       \* 0 belongs to startup, n to job n
NoCoordinator == -1
Ops == {"activate", "rollback"}

VARIABLES
    mode,         \* process: down, starting, serving, stopping
    served,       \* RuntimeGenerationManager._current: [id, gen]
    coordinator,  \* service._coordinator
    live,         \* coordinators whose supervisor runs
    pub,          \* coordinator.generation_id: the id its publications carry
    lock,         \* service._activation_lock
    background,   \* settings.background_enabled
    seen,         \* revision each administrator last read
    asked,        \* operation of a request whose revision was asserted
    n,            \* number of the last job of this process
    pc, op, rev, target, handoff, outcome,     \* that job
    prev, prevCoordinator,  \* previous, previous_coordinator
    token,        \* transition_token (the captured bytes) or NoFile
    written,      \* file_committed and file_snapshot are set
    adopted,      \* reconciliation_token is set
    result,       \* exception being handled: failed or cancelled
    preseed,      \* candidate's early history publication
    cancel,       \* cancellation by stop(): no, asked, taken
    orphan,       \* worker-thread call nobody awaits any more
    boots, faults,
    late,         \* ghost: a file write failed after replacing the file
    damaged       \* ghost: a rollback or retirement step itself failed

jobVars == <<n, pc, op, rev, target, handoff, outcome, prev,
             prevCoordinator, token, written, adopted, result, preseed,
             cancel, orphan>>
procVars == <<mode, served, coordinator, live, pub, lock, background>>
adminVars == <<seen, asked>>
boundVars == <<boots, faults, late, damaged>>
vars == <<storeVars, procVars, adminVars, jobVars, boundVars>>

-----------------------------------------------------------------------------
PreCommit == {"validate", "prepare", "warm", "lock"}
\* awaits of the commit that a cancellation interrupts; the lease and file
\* writes ("lease", "write") are shielded and joined first
Interruptible == {"leased", "start", "written", "mark", "marked",
                  "reconciled", "confirm"}
Unwinding == {"unreconcile", "stopcand", "restore", "remark", "abort"}
InCommit == Interruptible \cup Unwinding \cup {"lease", "write", "retire"}

NoCall == [call |-> "none", rev |-> NoFile]
Handoffs == {"reused", "reconciled", "reconnected", "disabled"}

StoreTypeOK ==
    /\ file \in Documents
    /\ lease \in Ids
    /\ runtimeActive \in Gens
    /\ seen \in [Admins -> Documents \cup {NoFile}]
    /\ asked \in [Admins -> Ops \cup {"none"}]

ProcessTypeOK ==
    /\ mode \in {"down", "starting", "serving", "stopping"}
    /\ served \in [id : Ids, gen : Gens]
    /\ coordinator \in Ids \cup {NoCoordinator}
    /\ live \in SUBSET Ids
    /\ pub \in [Ids -> Ids]
    /\ lock \in {"free", "commit", "history"}
    /\ boots \in 0..MaxBoots
    /\ faults \in 0..MaxFaults

JobTypeOK ==
    /\ n \in Ids
    /\ pc \in {"idle", "audit"} \cup PreCommit \cup InCommit
    /\ op \in Ops
    /\ rev \in Documents \cup {NoFile}
    /\ target \in Gens \cup {NoGen}
    /\ handoff \in Handoffs
    /\ outcome \in {"none", "running", "succeeded", "failed", "cancelled"}
    /\ cancel \in {"no", "asked", "taken"}

CommitTypeOK ==
    /\ prev \in [id : Ids, gen : Gens]
    /\ prevCoordinator \in Ids \cup {NoCoordinator}
    /\ token \in Documents \cup {NoFile}
    /\ result \in {"failed", "cancelled"}
    /\ preseed \in {"none", "waiting", "timedout"}
    /\ orphan \in [call : {"none", "mark", "unreconcile", "restore", "abort"},
                  rev : Documents \cup {NoFile}]

FlagTypeOK ==
    /\ background \in BOOLEAN
    /\ written \in BOOLEAN
    /\ adopted \in BOOLEAN
    /\ late \in BOOLEAN
    /\ damaged \in BOOLEAN

(* Every variable has its type; generations reach the file, the pointer    *)
(* and the mark only when they exist (never the null of an empty field).   *)
TypeOK ==
    /\ StoreTypeOK /\ ProcessTypeOK /\ JobTypeOK
    /\ CommitTypeOK /\ FlagTypeOK

(* A catalog file left by an earlier run of the program. *)
Init ==
    /\ file \in [active : Gens, staged : {NoGen}, lkg : Gens \cup {NoGen},
                 legacy : BOOLEAN]
    /\ lease = NoLease
    /\ runtimeActive = file.active
    /\ mode = "down"
    /\ served = [id |-> 0, gen |-> file.active]
    /\ prev = served
    /\ coordinator = NoCoordinator
    /\ live = {}
    /\ pub = [o \in Ids |-> o]
    /\ lock = "free"
    /\ background = FALSE
    /\ seen = [a \in Admins |-> NoFile]
    /\ asked = [a \in Admins |-> "none"]
    /\ n = 0 /\ pc = "idle" /\ op = "activate" /\ rev = NoFile
    /\ target = NoGen /\ handoff = "disabled" /\ outcome = "none"
    /\ prevCoordinator = NoCoordinator /\ token = NoFile
    /\ written = FALSE /\ adopted = FALSE /\ result = "failed"
    /\ preseed = "none" /\ cancel = "no" /\ orphan = NoCall
    /\ boots = 0 /\ faults = 0 /\ late = FALSE /\ damaged = FALSE

-----------------------------------------------------------------------------
(* The process.                                                            *)

(* create_app and service.start: the active generation of the file is      *)
(* served; collectors start in the background or are left out on failure.  *)
Boot ==
    /\ mode = "down"
    /\ mode' = "starting"
    /\ served' = [id |-> 0, gen |-> file.active]
    /\ prev' = served'
    /\ runtimeActive' = file.active
    /\ lease' = NoLease
    /\ background' \in BOOLEAN
    /\ \/ background' /\ coordinator' = 0 /\ live' = {0}
       \/ coordinator' = NoCoordinator /\ live' = {}
    /\ pub' = [o \in Ids |-> o]
    /\ lock' = "free"
    /\ n' = 0 /\ pc' = "idle" /\ op' = "activate" /\ rev' = NoFile
    /\ target' = NoGen /\ handoff' = "disabled" /\ outcome' = "none"
    /\ prevCoordinator' = NoCoordinator /\ token' = NoFile
    /\ written' = FALSE /\ adopted' = FALSE /\ result' = "failed"
    /\ preseed' = "none" /\ cancel' = "no" /\ orphan' = NoCall
    /\ late' = FALSE /\ damaged' = FALSE
    /\ UNCHANGED <<file, adminVars, boots, faults>>

(* The rest of the lifespan startup: persist_migration. *)
FinishStartup ==
    /\ mode = "starting"
    /\ PersistMigration
    /\ mode' = "serving"
    /\ UNCHANGED <<served, coordinator, live, pub, lock, background,
                   adminVars, jobVars, boundVars>>

(* Shutdown: InstrumentCatalogRuntime.stop cancels the active task. *)
Stop ==
    /\ mode = "serving"
    /\ boots < MaxBoots
    /\ mode' = "stopping"
    /\ cancel' = IF pc = "idle" THEN "no" ELSE "asked"
    /\ asked' = [a \in Admins |-> "none"]
    /\ UNCHANGED <<storeVars, served, coordinator, live, pub, lock,
                   background, seen, n, pc, op, rev, target, handoff,
                   outcome, prev, prevCoordinator, token, written, adopted,
                   result, preseed, orphan, boundVars>>

(* The joined task has ended and the executor's threads with it. *)
Exit ==
    /\ mode = "stopping"
    /\ pc = "idle"
    /\ orphan = NoCall
    /\ mode' = "down"
    /\ boots' = boots + 1
    /\ UNCHANGED <<storeVars, served, coordinator, live, pub, lock,
                   background, adminVars, jobVars, faults, late, damaged>>

(* Process loss at any moment: only the file survives. *)
Crash ==
    /\ mode # "down"
    /\ boots < MaxBoots
    /\ mode' = "down"
    /\ boots' = boots + 1
    /\ asked' = [a \in Admins |-> "none"]
    /\ UNCHANGED <<storeVars, served, coordinator, live, pub, lock,
                   background, seen, jobVars, faults, late, damaged>>

Up == mode \in {"serving", "stopping"}

(* A running collector ends with a fatal error (_supervise). *)
CollectorDies(o) ==
    /\ Up
    /\ faults < MaxFaults
    /\ o \in live
    /\ live' = live \ {o}
    /\ faults' = faults + 1
    /\ UNCHANGED <<storeVars, mode, served, coordinator, pub, lock,
                   background, adminVars, jobVars, boots, late, damaged>>

(* publish_history_async holds the activation lock across a thread call. *)
HistoryBegin ==
    /\ Up
    /\ lock = "free"
    /\ \E o \in live : pub[o] = served.id
    /\ lock' = "history"
    /\ UNCHANGED <<storeVars, mode, served, coordinator, live, pub,
                   background, adminVars, jobVars, boundVars>>

(* Mutant: the lock is not released. *)
HistoryKeepsLock ==
    /\ Up
    /\ lock = "history"
    /\ UNCHANGED vars

HistoryEnd ==
    /\ Up
    /\ lock = "history"
    /\ lock' = "free"
    /\ UNCHANGED <<storeVars, mode, served, coordinator, live, pub,
                   background, adminVars, jobVars, boundVars>>

-----------------------------------------------------------------------------
(* Administrators.  One administrator has one request under way at a time; *)
(* overlapping requests are those of two administrators.                   *)

AdminRead(a) ==
    /\ mode = "serving"
    /\ asked[a] = "none"
    /\ seen' = [seen EXCEPT ![a] = file]
    /\ UNCHANGED <<storeVars, procVars, asked, jobVars, boundVars>>

AdminStage(a, g) ==
    /\ mode = "serving"
    /\ asked[a] = "none"
    /\ StageDraft(seen[a], g)
    /\ seen' = [seen EXCEPT ![a] = file']
    /\ UNCHANGED <<procVars, asked, jobVars, boundVars>>

(* request_activation / request_rollback up to the awaited revision check. *)
RequestAssert(a, o) ==
    /\ mode = "serving"
    /\ asked[a] = "none"
    /\ RevisionMatches(seen[a])
    /\ asked' = [asked EXCEPT ![a] = o]
    /\ UNCHANGED <<storeVars, procVars, seen, jobVars, boundVars>>

(* ... and the rest: read the target again, then _request_job. *)
RequestJob(a) ==
    /\ mode = "serving"
    /\ asked[a] # "none"
    /\ asked' = [asked EXCEPT ![a] = "none"]
    /\ IF pc = "idle" /\ Target(file, asked[a]) # NoGen /\ n < MaxJobs
       THEN /\ n' = n + 1
            /\ pc' = "validate"
            /\ op' = asked[a]
            /\ rev' = seen[a]
            /\ target' = Target(file, asked[a])
            /\ outcome' = "running"
            /\ handoff' = "disabled"
            /\ token' = NoFile
            /\ written' = FALSE /\ adopted' = FALSE
            /\ preseed' = "none"
            /\ UNCHANGED <<prev, prevCoordinator, result, cancel, orphan>>
       ELSE UNCHANGED jobVars     \* no target, or CatalogActivationBusyError
    /\ UNCHANGED <<storeVars, procVars, seen, boundVars>>

-----------------------------------------------------------------------------
(* The job before its commit (_run_job).                                   *)

Resumes == Up /\ cancel # "asked"   \* the await returns normally
Keep == UNCHANGED <<n, op, rev, target, prev, prevCoordinator, orphan>>

(* validating and preparing: assert_runtime_target twice, around the       *)
(* compilation, the budget check and the preparation of a collector.       *)
Validate ==
    /\ Resumes
    /\ pc \in {"validate", "prepare"}
    /\ RuntimeTargetHolds(rev, op, target)
    /\ pc' = IF pc = "validate" THEN "prepare" ELSE "warm"
    /\ UNCHANGED <<handoff, outcome, token, written, adopted, result, preseed,
                   cancel, storeVars, procVars, adminVars, boundVars>>
    /\ Keep

(* warming done: choose how the collectors are handed over, and enter      *)
(* _commit_catalog_activation, which captures what it may have to restore. *)
ChooseHandoff(h) ==
    /\ Resumes
    /\ pc = "warm"
    /\ \/ h = "disabled" /\ ~background
       \/ h = "reconnected" /\ background
       \/ /\ h \in {"reused", "reconciled"} /\ background
          /\ coordinator # NoCoordinator /\ coordinator \in live
    /\ handoff' = h
    /\ prev' = served
    /\ prevCoordinator' = coordinator
    /\ pc' = "lock"
    /\ UNCHANGED <<n, op, rev, target, outcome, token, written, adopted,
                   result, preseed, cancel, orphan,
                   storeVars, procVars, adminVars, boundVars>>

(* A rejected, failed or cancelled job that never entered the commit. *)
EndBeforeCommit(how) ==
    /\ Up
    /\ pc \in PreCommit
    /\ \/ how = "failed" /\ cancel # "asked" /\ pc # "lock"
       \/ how = "cancelled" /\ cancel = "asked"
    /\ cancel' = IF how = "cancelled" THEN "taken" ELSE cancel
    /\ outcome' = how
    /\ pc' = "audit"
    /\ UNCHANGED <<handoff, token, written, adopted, result, preseed,
                   storeVars, procVars, adminVars, boundVars>>
    /\ Keep

(* assert_runtime_target refuses: a newer draft or another activation. *)
TargetChanged ==
    /\ pc \in {"validate", "prepare"}
    /\ ~RuntimeTargetHolds(rev, op, target)
    /\ EndBeforeCommit("failed")

AcquireLock ==
    /\ Resumes
    /\ pc = "lock"
    /\ lock = "free"
    /\ lock' = "commit"
    /\ pc' = "lease"
    /\ UNCHANGED <<handoff, outcome, token, written, adopted, result, preseed,
                   cancel, storeVars, mode, served, coordinator, live, pub,
                   background, adminVars, boundVars>>
    /\ Keep

-----------------------------------------------------------------------------
(* The commit (_commit_catalog_activation).                                *)

Expected == Switched(token, op)     \* file_snapshot["revision"]

(* Mutant: the handler forgets to serve the previous generation again. *)
RaiseWithoutPointer(how) ==
    /\ served' = served
    /\ result' = how
    /\ cancel' = IF cancel = "asked" THEN "taken" ELSE cancel
    /\ pc' = IF adopted THEN "unreconcile" ELSE "stopcand"

(* `except BaseException`, up to its first await: the previous generation  *)
(* is served again (its pointer may have been switched already).           *)
Raise(how) ==
    /\ served' = prev
    /\ result' = how
    /\ cancel' = IF cancel = "asked" THEN "taken" ELSE cancel
    /\ pc' = IF adopted THEN "unreconcile" ELSE "stopcand"

(* capture_transition in a worker thread. *)
CaptureLease ==
    /\ Up
    /\ pc = "lease"
    /\ CaptureTransition(n, rev)
    /\ token' = file
    /\ pc' = "leased"
    /\ UNCHANGED <<handoff, outcome, written, adopted, result, preseed, cancel,
                   procVars, adminVars, boundVars>>
    /\ Keep

(* The lease is refused: another write changed the file. *)
LeaseConflict ==
    /\ Up
    /\ pc = "lease"
    /\ lease # NoLease \/ ~RevisionMatches(rev)
    /\ Raise("failed")
    /\ UNCHANGED <<handoff, outcome, token, written, adopted, preseed,
                   storeVars, mode, coordinator, live, pub, lock, background,
                   adminVars, boundVars>>
    /\ Keep

(* Mutant: the candidate collector is built with the served generation's id. *)
PrepareStateSharedId ==
    /\ Resumes
    /\ pc = "leased"
    /\ IF handoff = "reconnected"
       THEN /\ pc' = "start"
            /\ live' = live \cup {n}
            /\ pub' = [pub EXCEPT ![n] = served.id]
            /\ preseed' \in {"none", "waiting"}
       ELSE pc' = "write" /\ UNCHANGED <<live, pub, preseed>>
    /\ UNCHANGED <<handoff, outcome, token, written, adopted, result, cancel,
                   storeVars, mode, served, coordinator, lock, background,
                   adminVars, boundVars>>
    /\ Keep

(* Mutant: the pointer is switched before the file is. *)
PrepareStateSwitchesEarly ==
    /\ Resumes
    /\ pc = "leased"
    /\ pc' = "write"
    /\ served' = [id |-> n, gen |-> target]
    /\ UNCHANGED <<handoff, outcome, token, written, adopted, result, preseed,
                   cancel, storeVars, mode, coordinator, live, pub, lock,
                   background, adminVars, boundVars>>
    /\ Keep

(* _prepare_runtime_state, then, for a fresh collector, activate,          *)
(* release_activation and the wait for its startup.  A collector with FX   *)
(* hubs first publishes their daily history, which needs the lock that the *)
(* commit is holding.                                                      *)
PrepareState ==
    /\ Resumes
    /\ pc = "leased"
    /\ IF handoff = "reconnected"
       THEN /\ pc' = "start"
            /\ live' = live \cup {n}
            /\ pub' = [pub EXCEPT ![n] = n]
            /\ preseed' \in {"none", "waiting"}
       ELSE pc' = "write" /\ UNCHANGED <<live, pub, preseed>>
    /\ UNCHANGED <<handoff, outcome, token, written, adopted, result, cancel,
                   storeVars, mode, served, coordinator, lock, background,
                   adminVars, boundVars>>
    /\ Keep

(* _startup_preseed_fx_daily gives up at its own deadline. *)
PreseedTimeout ==
    /\ Up
    /\ preseed = "waiting" /\ n \in live
    /\ preseed' = "timedout"
    /\ UNCHANGED <<pc, handoff, outcome, token, written, adopted, result,
                   cancel, storeVars, procVars, adminVars, boundVars>>
    /\ Keep

CandidateStarted ==
    /\ Resumes
    /\ pc = "start"
    /\ n \in live /\ preseed # "waiting"
    /\ pc' = "write"
    /\ UNCHANGED <<handoff, outcome, token, written, adopted, result, preseed,
                   cancel, storeVars, procVars, adminVars, boundVars>>
    /\ Keep

(* wait_started_or_failed sees the supervisor end. *)
CandidateFailed ==
    /\ Resumes
    /\ pc = "start"
    /\ n \notin live
    /\ Raise("failed")
    /\ UNCHANGED <<handoff, outcome, token, written, adopted, preseed,
                   storeVars, mode, coordinator, live, pub, lock, background,
                   adminVars, boundVars>>
    /\ Keep

(* activate_staged or rollback in a worker thread. *)
WriteFile ==
    /\ Up
    /\ pc = "write"
    /\ SwitchFile(n, rev, op, target)
    /\ written' = TRUE
    /\ pc' = "written"
    /\ UNCHANGED <<handoff, outcome, token, adopted, result, preseed, cancel,
                   procVars, adminVars, boundVars>>
    /\ Keep

(* _atomic_write raises after os.replace (directory fsync), or the re-read *)
(* behind it does: the file has changed but the caller sees a failure.     *)
WriteFailsLate ==
    /\ Up
    /\ pc = "write"
    /\ faults < MaxFaults
    /\ SwitchFile(n, rev, op, target)
    /\ Raise("failed")
    /\ faults' = faults + 1
    /\ late' = TRUE
    /\ UNCHANGED <<handoff, outcome, token, written, adopted, preseed, mode,
                   coordinator, live, pub, lock, background, adminVars,
                   boots, damaged>>
    /\ Keep

(* active_generation is the warmed target. *)
VerifyActive ==
    /\ Resumes
    /\ pc = "written"
    /\ file.active = target
    /\ pc' = "mark"
    /\ UNCHANGED <<handoff, outcome, token, written, adopted, result, preseed,
                   cancel, storeVars, procVars, adminVars, boundVars>>
    /\ Keep

(* mark_runtime_applied in a worker thread. *)
MarkApplied ==
    /\ Up
    /\ pc = "mark"
    /\ MarkRuntimeApplied(Expected)
    /\ pc' = "marked"
    /\ UNCHANGED <<handoff, outcome, token, written, adopted, result, preseed,
                   cancel, procVars, adminVars, boundVars>>
    /\ Keep

(* Pointer switch for a reused, fresh or absent collector.  No await       *)
(* separates adopt_generation, the switch and commit_transition.           *)
SwitchAndCommit ==
    /\ Resumes
    /\ pc = "marked"
    /\ handoff # "reconciled"
    /\ handoff = "reused" => coordinator \in live
    /\ CommitTransition(n, Expected)
    /\ served' = [id |-> n, gen |-> target]
    /\ \/ /\ handoff = "reused"
          /\ pub' = [pub EXCEPT ![coordinator] = n]
          /\ UNCHANGED coordinator
       \/ handoff = "reconnected" /\ coordinator' = n /\ UNCHANGED pub
       \/ handoff = "disabled" /\ coordinator' = NoCoordinator /\ UNCHANGED pub
    /\ token' = NoFile
    /\ IF handoff = "reconnected" /\ prevCoordinator # NoCoordinator
       THEN pc' = "retire" /\ UNCHANGED <<outcome, lock>>
       ELSE pc' = "audit" /\ outcome' = "succeeded" /\ lock' = "free"
    /\ UNCHANGED <<file, runtimeActive, handoff, written, adopted, result,
                   preseed, cancel, mode, live, background, adminVars,
                   boundVars>>
    /\ Keep

(* reconcile_generation: the running collector takes the new graph and id. *)
Reconcile ==
    /\ Resumes
    /\ pc = "marked"
    /\ handoff = "reconciled"
    /\ prevCoordinator \in live
    /\ pub' = [pub EXCEPT ![prevCoordinator] = n]
    /\ adopted' = TRUE
    /\ pc' = "reconciled"
    /\ UNCHANGED <<handoff, outcome, token, written, result, preseed, cancel,
                   storeVars, mode, served, coordinator, live, lock,
                   background, adminVars, boundVars>>
    /\ Keep

(* adopt_generation or reconcile_generation refuse a dead collector. *)
HandoffRefused ==
    /\ Resumes
    /\ \/ pc = "marked" /\ handoff \in {"reused", "reconciled"}
       \/ pc \in {"reconciled", "confirm"}
    /\ prevCoordinator \notin live
    /\ Raise("failed")
    /\ UNCHANGED <<handoff, outcome, token, written, adopted, preseed,
                   storeVars, mode, coordinator, live, pub, lock, background,
                   adminVars, boundVars>>
    /\ Keep

(* The reconciled collector's generation becomes the served one. *)
PublishReconciled ==
    /\ Resumes
    /\ pc = "reconciled"
    /\ prevCoordinator \in live
    /\ served' = [id |-> n, gen |-> target]
    /\ pc' = "confirm"
    /\ UNCHANGED <<handoff, outcome, token, written, adopted, result, preseed,
                   cancel, storeVars, mode, coordinator, live, pub, lock,
                   background, adminVars, boundVars>>
    /\ Keep

(* confirm_reconciliation and, without an await, commit_transition. *)
ConfirmAndCommit ==
    /\ Resumes
    /\ pc = "confirm"
    /\ prevCoordinator \in live
    /\ CommitTransition(n, Expected)
    /\ token' = NoFile
    /\ adopted' = FALSE
    /\ pc' = "retire"
    /\ UNCHANGED <<file, runtimeActive, handoff, outcome, written, result,
                   preseed, cancel, procVars, adminVars, boundVars>>
    /\ Keep

(* _retire_coordinator or finalize_reconciliation, shielded; a             *)
(* cancellation that arrives here is swallowed (uncancel).  Then the local *)
(* publication of the warmed values, the end of the lock and SUCCEEDED.    *)
RetireOld ==
    /\ Up
    /\ pc = "retire"
    /\ \/ live' = (IF handoff = "reconnected" THEN live \ {prevCoordinator}
                                              ELSE live)
          /\ UNCHANGED <<faults, damaged>>
       \/ /\ faults < MaxFaults          \* "remained active": logged only
          /\ faults' = faults + 1
          /\ damaged' = TRUE
          /\ UNCHANGED live
    /\ cancel' = IF cancel = "asked" THEN "taken" ELSE cancel
    /\ lock' = "free"
    /\ outcome' = "succeeded"
    /\ pc' = "audit"
    /\ UNCHANGED <<handoff, token, written, adopted, result, preseed,
                   storeVars, mode, served, coordinator, pub, background,
                   adminVars, boots, late>>
    /\ Keep

-----------------------------------------------------------------------------
(* Failure and cancellation of the commit.                                 *)

(* An awaited call of the commit raises without having had an effect. *)
StepFails ==
    /\ Up
    /\ pc \in Interruptible \cup {"lease", "write"}
    /\ cancel = "asked" => pc \in {"lease", "write"}
    /\ faults < MaxFaults
    /\ Raise("failed")
    /\ faults' = faults + 1
    /\ UNCHANGED <<handoff, outcome, token, written, adopted, preseed,
                   storeVars, mode, coordinator, live, pub, lock, background,
                   adminVars, boots, late, damaged>>
    /\ Keep

(* CancelledError at an await.  The thread behind mark_runtime_applied is  *)
(* not joined and may still run.                                           *)
CancelCommit ==
    /\ Up
    /\ cancel = "asked"
    /\ pc \in Interruptible
    /\ Raise("cancelled")
    /\ orphan' = IF pc = "mark" THEN [call |-> "mark", rev |-> Expected]
                                ELSE orphan
    /\ UNCHANGED <<n, op, rev, target, prev, prevCoordinator, handoff,
                   outcome, token, written, adopted, preseed, storeVars,
                   mode, coordinator, live, pub, lock, background, adminVars,
                   boundVars>>

(* Mutant: the collector keeps the id of the abandoned generation. *)
UnreconcileKeepsId ==
    /\ Resumes
    /\ pc = "unreconcile"
    /\ adopted' = FALSE
    /\ pc' = "stopcand"
    /\ UNCHANGED <<handoff, outcome, token, written, result, preseed, cancel,
                   storeVars, procVars, adminVars, boundVars>>
    /\ Keep

(* rollback_reconciliation; a failure of it is logged and skipped. *)
Unreconcile ==
    /\ Resumes
    /\ pc = "unreconcile"
    /\ \/ /\ pub' = [pub EXCEPT ![prevCoordinator] = prev.id]
          /\ UNCHANGED <<faults, damaged>>
       \/ /\ faults < MaxFaults
          /\ faults' = faults + 1
          /\ damaged' = TRUE
          /\ UNCHANGED pub
    /\ adopted' = FALSE
    /\ pc' = "stopcand"
    /\ UNCHANGED <<handoff, outcome, token, written, result, preseed, cancel,
                   storeVars, mode, served, coordinator, live, lock,
                   background, adminVars, boots, late>>
    /\ Keep

(* Reinstall the previous collector and stop the candidate, then decide    *)
(* what the lease still needs.                                             *)
StopCandidate ==
    /\ Resumes
    /\ pc = "stopcand"
    /\ coordinator' = prevCoordinator
    /\ \/ /\ live' = (IF handoff = "reconnected" THEN live \ {n} ELSE live)
          /\ UNCHANGED faults
       \/ /\ faults < MaxFaults
          /\ faults' = faults + 1
          /\ UNCHANGED live
    /\ pc' = IF written /\ token # NoFile THEN "restore" ELSE "abort"
    /\ UNCHANGED <<handoff, outcome, token, written, adopted, result, preseed,
                   cancel, storeVars, mode, served, pub, lock, background,
                   adminVars, boots, late, damaged>>
    /\ Keep

(* restore_transition in a worker thread. *)
Restore ==
    /\ Resumes
    /\ pc = "restore"
    /\ RestoreTransition(n, Expected, token)
    /\ pc' = "remark"
    /\ UNCHANGED <<handoff, outcome, token, written, adopted, result, preseed,
                   cancel, procVars, adminVars, boundVars>>
    /\ Keep

(* It fails, before or after replacing the file; the lease is kept. *)
RestoreFails ==
    /\ Resumes
    /\ pc = "restore"
    /\ faults < MaxFaults
    /\ faults' = faults + 1
    /\ damaged' = TRUE
    /\ file' \in {file, token}
    /\ pc' = "abort"
    /\ UNCHANGED <<lease, runtimeActive, handoff, outcome, token, written,
                   adopted, result, preseed, cancel, procVars, adminVars,
                   boots, late>>
    /\ Keep

(* mark_runtime_applied of the restored revision.  The lease is gone, so   *)
(* an administrator may have changed the file: the conflict is only logged.*)
Remark ==
    /\ Resumes
    /\ pc = "remark"
    /\ IF RevisionMatches(token)
       THEN MarkRuntimeApplied(token)
       ELSE UNCHANGED storeVars
    /\ token' = NoFile
    /\ pc' = "abort"
    /\ UNCHANGED <<handoff, outcome, written, adopted, result, preseed,
                   cancel, procVars, adminVars, boundVars>>
    /\ Keep

(* abort_transition if the lease is still ours; leave the lock and raise.  *)
FinishRollback ==
    /\ Resumes
    /\ pc = "abort"
    /\ IF token # NoFile
       THEN AbortTransition(n)
       ELSE UNCHANGED storeVars
    /\ token' = NoFile
    /\ lock' = "free"
    /\ outcome' = result
    /\ pc' = "audit"
    /\ UNCHANGED <<handoff, written, adopted, result, preseed, cancel, mode,
                   served, coordinator, live, pub, background, adminVars,
                   boundVars>>
    /\ Keep

(* A cancellation while a failure is being handled escapes the handler:    *)
(* its remaining steps are skipped, except for a call already running.     *)
AbandonRollback ==
    /\ Up
    /\ cancel = "asked"
    /\ pc \in Unwinding
    /\ cancel' = "taken"
    /\ orphan' =
         CASE pc = "unreconcile" -> [call |-> "unreconcile", rev |-> NoFile]
           [] pc = "restore" -> [call |-> "restore", rev |-> Expected]
           [] pc = "remark" -> [call |-> "mark", rev |-> token]
           [] pc = "abort" /\ token # NoFile -> [call |-> "abort", rev |-> NoFile]
           [] OTHER -> orphan
    /\ coordinator' = IF pc = "unreconcile" THEN coordinator
                                            ELSE prevCoordinator
    /\ lock' = "free"
    /\ outcome' = "cancelled"
    /\ pc' = "audit"
    /\ damaged' = TRUE
    /\ UNCHANGED <<n, op, rev, target, prev, prevCoordinator, handoff, token,
                   written, adopted, result, preseed, storeVars, mode, served,
                   live, pub, background, adminVars, boots, faults, late>>

(* The worker-thread call of a cancelled await, with its own checks. *)
OrphanRuns ==
    /\ Up
    /\ \/ /\ orphan.call = "mark"
          /\ IF RevisionMatches(orphan.rev)
             THEN MarkRuntimeApplied(orphan.rev)
             ELSE UNCHANGED storeVars
          /\ UNCHANGED pub
       \/ /\ orphan.call = "restore"
          /\ RestoreTransition(n, orphan.rev, token)
          /\ UNCHANGED pub
       \/ /\ orphan.call = "abort"
          /\ AbortTransition(n)
          /\ UNCHANGED pub
       \/ /\ orphan.call = "unreconcile"
          /\ pub' = [pub EXCEPT ![prevCoordinator] = prev.id]
          /\ UNCHANGED storeVars
    /\ orphan' = NoCall
    /\ UNCHANGED <<n, pc, op, rev, target, prev, prevCoordinator, handoff,
                   outcome, token, written, adopted, result, preseed, cancel,
                   mode, served, coordinator, live, lock, background,
                   adminVars, boundVars>>

-----------------------------------------------------------------------------
(* The audit event, then `finally`: a candidate that was not installed is  *)
(* stopped.  A cancellation during the audit of a success overwrites the   *)
(* job's state.                                                            *)
EndJob ==
    /\ Up
    /\ pc = "audit"
    /\ outcome' = IF cancel = "asked" /\ outcome = "succeeded"
                  THEN "cancelled" ELSE outcome
    /\ cancel' = IF cancel = "asked" THEN "taken" ELSE cancel
    /\ live' = IF coordinator = n THEN live ELSE live \ {n}
    /\ pc' = "idle"
    /\ UNCHANGED <<handoff, token, written, adopted, result, preseed,
                   storeVars, mode, served, coordinator, pub, lock,
                   background, adminVars, boundVars>>
    /\ Keep

JobStep ==
    \/ Validate \/ TargetChanged \/ \E h \in Handoffs : ChooseHandoff(h)
    \/ AcquireLock
    \/ CaptureLease \/ LeaseConflict \/ PrepareState
    \/ CandidateStarted \/ CandidateFailed
    \/ WriteFile \/ VerifyActive \/ MarkApplied
    \/ SwitchAndCommit \/ Reconcile \/ HandoffRefused
    \/ PublishReconciled \/ ConfirmAndCommit \/ RetireOld
    \/ CancelCommit \/ Unreconcile \/ StopCandidate
    \/ Restore \/ Remark \/ FinishRollback \/ AbandonRollback
    \/ EndBeforeCommit("cancelled") \/ EndJob

Fault ==
    \/ \E o \in Ids : CollectorDies(o)
    \/ EndBeforeCommit("failed")
    \/ WriteFailsLate \/ StepFails \/ RestoreFails

AdminStep ==
    \E a \in Admins :
        \/ AdminRead(a) \/ RequestJob(a)
        \/ \E g \in Gens : AdminStage(a, g)
        \/ \E o \in Ops : RequestAssert(a, o)

Next ==
    \/ Boot \/ FinishStartup \/ Stop \/ Exit \/ Crash
    \/ HistoryBegin \/ HistoryEnd
    \/ PreseedTimeout \/ OrphanRuns
    \/ AdminStep \/ JobStep \/ Fault

Spec == Init /\ [][Next]_vars

(* The event loop runs every ready task, worker threads finish, the        *)
(* preseed deadline fires, and asyncio.Lock wakes waiters in FIFO order.   *)
Fairness ==
    /\ WF_vars(JobStep) /\ SF_vars(AcquireLock)
    /\ WF_vars(HistoryEnd) /\ WF_vars(PreseedTimeout)
    /\ WF_vars(OrphanRuns) /\ WF_vars(Exit)
    /\ WF_vars(Boot) /\ WF_vars(FinishStartup)

FairSpec == Spec /\ Fairness

-----------------------------------------------------------------------------
(* Properties.                                                             *)

Settled == mode = "serving" /\ pc = "idle"

(* Whatever order collectors are started, retargeted and retired in, only  *)
(* the installed collector can pass the generation fence of the service,   *)
(* so a candidate or a retired collector never writes into public state.   *)
OnlyInstalledPublishes ==
    Up => \A o \in live : pub[o] = served.id => o = coordinator

(* While a transition holds the lease, the file is the captured document   *)
(* or the one document this transition writes: no administrator's draft    *)
(* can be interleaved and then be destroyed by the byte-exact restore.     *)
LeaseFreezesFile ==
    (Up /\ lease # NoLease) =>
        /\ token # NoFile
        /\ file \in {token, Switched(token, op)}

(* After a job, unless a rollback step failed as well, the lease and the   *)
(* lock are free, a running installed collector carries the served id (or  *)
(* its data would be fenced out for ever), nothing else runs, and a        *)
(* restart would serve what is served (unless the file write failed after  *)
(* replacing the file).                                                    *)
SettledConsistent ==
    (Settled /\ ~damaged) =>
        /\ lease = NoLease
        /\ lock # "commit"
        /\ live \subseteq {coordinator}
        /\ coordinator # NoCoordinator => pub[coordinator] = served.id
        /\ ~late => file.active = served.gen

(* A job reported as succeeded is being served, and a job reported as      *)
(* failed is not.                                                          *)
OutcomeTruthful ==
    (Up /\ pc \in {"audit", "idle"} /\ n > 0) =>
        /\ outcome = "succeeded" => served = [id |-> n, gen |-> target]
        /\ outcome = "failed" => served.id # n

(* The generation a job serves is the one its requester's revision names,  *)
(* although the target is read after that revision was checked.            *)
ServesWhatWasRequested ==
    (Up /\ n > 0 /\ served.id = n) => served.gen = Target(rev, op)

(* A transition that returns its lease without having been served leaves   *)
(* the file byte for byte as the requester read it, its draft included     *)
(* (unless the write failed late or a rollback step failed as well).       *)
FailureRestoresFile ==
    [][ (/\ Up /\ Up' /\ lease # NoLease /\ lease' = NoLease
         /\ served'.id # n /\ ~late /\ ~damaged)
        => file' = rev ]_vars

(* The activation implements the two-outcome switch of AtomicCatalog. *)
Atomic == INSTANCE AtomicCatalog
    WITH current <- served.gen, durable <- file.active, undo <- prev.gen
ImplementsAtomicCatalog == Atomic!Spec

JobEnds == (pc # "idle") ~> (pc = "idle")
LeaseReturned == (lease # NoLease) ~> (lease = NoLease \/ mode = "down")

(* A job that was accepted settles: it ends and its lease is given back,   *)
(* also when the process is stopped in the middle of it (_run_job).        *)
JobSettles == JobEnds /\ LeaseReturned
=============================================================================
