----------------------- MODULE CatalogActivationProofs -----------------------
(***************************************************************************)
(* Proofs about CatalogActivation for every set of generations and         *)
(* administrators and every number of jobs, restarts and failures.         *)
(*                                                                         *)
(* None of the properties is inductive: each of them depends on what the   *)
(* job has done so far, that is on pc.  IndInv adds, for every value of    *)
(* pc, who holds the lease, which document is on disk and whether the      *)
(* captured document is still known.                                       *)
(***************************************************************************)
EXTENDS CatalogActivation, TLAPS

Running == mode # "down"

BeforeWrite == {"leased", "start", "write"}
AfterWrite == {"written", "mark", "marked", "reconciled", "confirm"}

(* The transition of job n holds the lease and knows what to restore. *)
Held == /\ lease = n /\ token = rev /\ rev # NoFile
        /\ file \in {token, Switched(token, op)}

(* Shutdown comes before a cancellation, and abandoned calls after it. *)
ModeInv ==
    /\ mode = "stopping" => boots < MaxBoots
    /\ mode = "starting" => pc = "idle" /\ lease = NoLease
    /\ Running /\ cancel = "asked" => mode = "stopping"
    /\ Running /\ orphan.call \in {"restore", "abort"} =>
         mode = "stopping" /\ pc \in {"audit", "idle"} /\ damaged
    /\ Running /\ orphan.call = "restore" => token # NoFile

LeaseInv ==
    /\ pc # "idle" => n > 0
    /\ pc \in PreCommit \cup {"lease"} =>
         lease = NoLease /\ token = NoFile /\ ~written
    /\ pc \in BeforeWrite => Held /\ file = token /\ ~written
    /\ pc \in AfterWrite => Held /\ file = Switched(token, op) /\ written
    /\ pc \in {"unreconcile", "stopcand"} =>
         \/ token = NoFile /\ lease = NoLease
         \/ /\ Held
            /\ written => file = Switched(token, op)
            /\ ~written /\ ~late => file = token
    /\ pc = "restore" => Held /\ file = Switched(token, op)
    /\ pc = "remark" => lease = NoLease /\ token # NoFile
    /\ pc = "abort" =>
         \/ token = NoFile /\ lease = NoLease
         \/ Held /\ (~late /\ ~damaged => file = token)
    /\ pc = "retire" => lease = NoLease
    /\ pc \in {"audit", "idle"} =>
         lease = NoLease \/ (mode = "stopping" /\ Held)

JobInv ==
    /\ served.id <= n
    /\ pc \in PreCommit \cup {"lease"} \cup BeforeWrite
             \cup (AfterWrite \ {"confirm"}) => served.id < n
    /\ pc \in {"lock"} \cup (InCommit \ {"retire"}) => prev.id < n
    /\ pc = "confirm" => served.id = n
    /\ pc \notin {"idle", "audit"} => target \in Gens
    /\ pc \notin {"idle", "audit", "validate"} => target = Target(rev, op)
    /\ n > 0 /\ served.id = n => served.gen = Target(rev, op)

IndInv == /\ TypeOK
          /\ ModeInv
          /\ Running => LeaseInv /\ JobInv

USE DEF IndInv, TypeOK, Running, Held, BeforeWrite, AfterWrite,
        PreCommit, InCommit, Interruptible, Unwinding,
        Up, Resumes, Keep, NoLease, NoCall, NoCoordinator,
        storeVars, procVars, adminVars, jobVars, boundVars

(* Boot keeps the invariant. *)
LEMMA BootStep ==
  ASSUME IndInv, Boot PROVE IndInv'
<1>1. StoreTypeOK'
  BY BoundsAssumption DEF StoreTypeOK, Documents, Ids, Boot
<1>2. ProcessTypeOK'
  BY BoundsAssumption DEF ProcessTypeOK, Ids, Boot, StoreTypeOK, Documents
<1>3. JobTypeOK'
  BY BoundsAssumption DEF JobTypeOK, Ids, Ops, Boot, Handoffs
<1>4. CommitTypeOK'
  BY BoundsAssumption DEF CommitTypeOK, Boot, StoreTypeOK, Documents, Ids
<1>5. FlagTypeOK'
  BY DEF FlagTypeOK, Boot
<1>6. ModeInv'
  BY NoFileAssumption DEF FlagTypeOK, CommitTypeOK, JobTypeOK, ProcessTypeOK,
      ModeInv, LeaseInv, JobInv, Ids, Boot
<1>7. (Running => LeaseInv /\ JobInv)'
  BY NoFileAssumption DEF StoreTypeOK, ProcessTypeOK, JobTypeOK,
      CommitTypeOK, FlagTypeOK, ModeInv, LeaseInv, JobInv, Ids, Boot
<1> QED BY <1>1, <1>2, <1>3, <1>4, <1>5, <1>6, <1>7

(* FinishStartup keeps the invariant. *)
LEMMA FinishStartupStep ==
  ASSUME IndInv, FinishStartup PROVE IndInv'
<1>1. StoreTypeOK'
  BY DEF StoreTypeOK, Documents, Ids, FinishStartup, PersistMigration
<1>2. ProcessTypeOK'
  BY DEF ProcessTypeOK, Ids, FinishStartup, PersistMigration
<1>3. JobTypeOK'
  BY DEF JobTypeOK, Ids, Ops, FinishStartup, PersistMigration
<1>4. CommitTypeOK'
  BY DEF CommitTypeOK, FinishStartup, PersistMigration
<1>5. FlagTypeOK'
  BY DEF FlagTypeOK, FinishStartup, PersistMigration
<1>6. ModeInv'
  BY NoFileAssumption DEF FlagTypeOK, CommitTypeOK, JobTypeOK, ProcessTypeOK,
      ModeInv, LeaseInv, JobInv, Ids, FinishStartup, PersistMigration
<1>7. (Running => LeaseInv /\ JobInv)'
  BY NoFileAssumption DEF StoreTypeOK, ProcessTypeOK, JobTypeOK,
      CommitTypeOK, FlagTypeOK, ModeInv, LeaseInv, JobInv, Ids,
      FinishStartup, PersistMigration
<1> QED BY <1>1, <1>2, <1>3, <1>4, <1>5, <1>6, <1>7

(* Stop keeps the invariant. *)
LEMMA StopStep ==
  ASSUME IndInv, Stop PROVE IndInv'
<1>1. StoreTypeOK'
  BY DEF StoreTypeOK, Documents, Ids, Stop
<1>2. ProcessTypeOK'
  BY DEF ProcessTypeOK, Ids, Stop
<1>3. JobTypeOK'
  BY DEF JobTypeOK, Ids, Ops, Stop
<1>4. CommitTypeOK'
  BY DEF CommitTypeOK, Stop
<1>5. FlagTypeOK'
  BY DEF FlagTypeOK, Stop
<1>6. ModeInv'
  BY NoFileAssumption DEF FlagTypeOK, CommitTypeOK, JobTypeOK, ProcessTypeOK,
      ModeInv, LeaseInv, JobInv, Ids, Stop
<1>7. (Running => LeaseInv /\ JobInv)'
  BY NoFileAssumption DEF StoreTypeOK, ProcessTypeOK, JobTypeOK,
      CommitTypeOK, FlagTypeOK, ModeInv, LeaseInv, JobInv, Ids, Stop
<1> QED BY <1>1, <1>2, <1>3, <1>4, <1>5, <1>6, <1>7

(* Exit keeps the invariant. *)
LEMMA ExitStep ==
  ASSUME IndInv, Exit PROVE IndInv'
<1>1. StoreTypeOK'
  BY DEF StoreTypeOK, Documents, Ids, Exit
<1>2. ProcessTypeOK'
  BY BoundsAssumption DEF ProcessTypeOK, Ids, Exit, ModeInv
<1>3. JobTypeOK'
  BY DEF JobTypeOK, Ids, Ops, Exit
<1>4. CommitTypeOK'
  BY DEF CommitTypeOK, Exit
<1>5. FlagTypeOK'
  BY DEF FlagTypeOK, Exit
<1>6. ModeInv'
  BY NoFileAssumption DEF FlagTypeOK, CommitTypeOK, JobTypeOK, ProcessTypeOK,
      ModeInv, LeaseInv, JobInv, Ids, Exit
<1>7. (Running => LeaseInv /\ JobInv)'
  BY NoFileAssumption DEF StoreTypeOK, ProcessTypeOK, JobTypeOK,
      CommitTypeOK, FlagTypeOK, ModeInv, LeaseInv, JobInv, Ids, Exit
<1> QED BY <1>1, <1>2, <1>3, <1>4, <1>5, <1>6, <1>7

(* Crash keeps the invariant. *)
LEMMA CrashStep ==
  ASSUME IndInv, Crash PROVE IndInv'
<1>1. StoreTypeOK'
  BY DEF StoreTypeOK, Documents, Ids, Crash
<1>2. ProcessTypeOK'
  BY BoundsAssumption DEF ProcessTypeOK, Ids, Crash
<1>3. JobTypeOK'
  BY DEF JobTypeOK, Ids, Ops, Crash
<1>4. CommitTypeOK'
  BY DEF CommitTypeOK, Crash
<1>5. FlagTypeOK'
  BY DEF FlagTypeOK, Crash
<1>6. ModeInv'
  BY NoFileAssumption DEF FlagTypeOK, CommitTypeOK, JobTypeOK, ProcessTypeOK,
      ModeInv, LeaseInv, JobInv, Ids, Crash
<1>7. (Running => LeaseInv /\ JobInv)'
  BY NoFileAssumption DEF StoreTypeOK, ProcessTypeOK, JobTypeOK,
      CommitTypeOK, FlagTypeOK, ModeInv, LeaseInv, JobInv, Ids, Crash
<1> QED BY <1>1, <1>2, <1>3, <1>4, <1>5, <1>6, <1>7

(* HistoryBegin keeps the invariant. *)
LEMMA HistoryBeginStep ==
  ASSUME IndInv, HistoryBegin PROVE IndInv'
<1>1. StoreTypeOK'
  BY DEF StoreTypeOK, Documents, Ids, HistoryBegin
<1>2. ProcessTypeOK'
  BY DEF ProcessTypeOK, Ids, HistoryBegin
<1>3. JobTypeOK'
  BY DEF JobTypeOK, Ids, Ops, HistoryBegin
<1>4. CommitTypeOK'
  BY DEF CommitTypeOK, HistoryBegin
<1>5. FlagTypeOK'
  BY DEF FlagTypeOK, HistoryBegin
<1>6. ModeInv'
  BY NoFileAssumption DEF FlagTypeOK, CommitTypeOK, JobTypeOK, ProcessTypeOK,
      ModeInv, LeaseInv, JobInv, Ids, HistoryBegin
<1>7. (Running => LeaseInv /\ JobInv)'
  BY NoFileAssumption DEF StoreTypeOK, ProcessTypeOK, JobTypeOK,
      CommitTypeOK, FlagTypeOK, ModeInv, LeaseInv, JobInv, Ids, HistoryBegin
<1> QED BY <1>1, <1>2, <1>3, <1>4, <1>5, <1>6, <1>7

(* HistoryEnd keeps the invariant. *)
LEMMA HistoryEndStep ==
  ASSUME IndInv, HistoryEnd PROVE IndInv'
<1>1. StoreTypeOK'
  BY DEF StoreTypeOK, Documents, Ids, HistoryEnd
<1>2. ProcessTypeOK'
  BY DEF ProcessTypeOK, Ids, HistoryEnd
<1>3. JobTypeOK'
  BY DEF JobTypeOK, Ids, Ops, HistoryEnd
<1>4. CommitTypeOK'
  BY DEF CommitTypeOK, HistoryEnd
<1>5. FlagTypeOK'
  BY DEF FlagTypeOK, HistoryEnd
<1>6. ModeInv'
  BY NoFileAssumption DEF FlagTypeOK, CommitTypeOK, JobTypeOK, ProcessTypeOK,
      ModeInv, LeaseInv, JobInv, Ids, HistoryEnd
<1>7. (Running => LeaseInv /\ JobInv)'
  BY NoFileAssumption DEF StoreTypeOK, ProcessTypeOK, JobTypeOK,
      CommitTypeOK, FlagTypeOK, ModeInv, LeaseInv, JobInv, Ids, HistoryEnd
<1> QED BY <1>1, <1>2, <1>3, <1>4, <1>5, <1>6, <1>7

(* PreseedTimeout keeps the invariant. *)
LEMMA PreseedTimeoutStep ==
  ASSUME IndInv, PreseedTimeout PROVE IndInv'
<1>1. StoreTypeOK'
  BY DEF StoreTypeOK, Documents, Ids, PreseedTimeout
<1>2. ProcessTypeOK'
  BY DEF ProcessTypeOK, Ids, PreseedTimeout
<1>3. JobTypeOK'
  BY DEF JobTypeOK, Ids, Ops, PreseedTimeout
<1>4. CommitTypeOK'
  BY DEF CommitTypeOK, PreseedTimeout
<1>5. FlagTypeOK'
  BY DEF FlagTypeOK, PreseedTimeout
<1>6. ModeInv'
  BY NoFileAssumption DEF FlagTypeOK, CommitTypeOK, JobTypeOK, ProcessTypeOK,
      ModeInv, LeaseInv, JobInv, Ids, PreseedTimeout
<1>7. (Running => LeaseInv /\ JobInv)'
  BY NoFileAssumption DEF StoreTypeOK, ProcessTypeOK, JobTypeOK,
      CommitTypeOK, FlagTypeOK, ModeInv, LeaseInv, JobInv, Ids,
      PreseedTimeout
<1> QED BY <1>1, <1>2, <1>3, <1>4, <1>5, <1>6, <1>7

(* OrphanRuns keeps the invariant. *)
LEMMA OrphanRunsStep ==
  ASSUME IndInv, OrphanRuns PROVE IndInv'
<1>1. StoreTypeOK'
  BY BoundsAssumption DEF StoreTypeOK, Documents, Ids, OrphanRuns,
      RevisionMatches, MarkRuntimeApplied, RestoreTransition,
      AbortTransition, Switched, JobTypeOK, CommitTypeOK, ModeInv
<1>2. ProcessTypeOK'
  BY DEF ProcessTypeOK, Ids, OrphanRuns, RevisionMatches, MarkRuntimeApplied,
      RestoreTransition, AbortTransition, Switched, CommitTypeOK
<1>3. JobTypeOK'
  BY DEF JobTypeOK, Ids, Ops, OrphanRuns, RevisionMatches,
      MarkRuntimeApplied, RestoreTransition, AbortTransition, Switched
<1>4. CommitTypeOK'
  BY DEF CommitTypeOK, OrphanRuns, RevisionMatches, MarkRuntimeApplied,
      RestoreTransition, AbortTransition, Switched
<1>5. FlagTypeOK'
  BY DEF FlagTypeOK, OrphanRuns, RevisionMatches, MarkRuntimeApplied,
      RestoreTransition, AbortTransition, Switched
<1>6. ModeInv'
  BY NoFileAssumption DEF FlagTypeOK, CommitTypeOK, JobTypeOK, ProcessTypeOK,
      ModeInv, LeaseInv, JobInv, Ids, OrphanRuns, RevisionMatches,
      MarkRuntimeApplied, RestoreTransition, AbortTransition, Switched
<1>7. (Running => LeaseInv /\ JobInv)'
  BY NoFileAssumption, SMTT(30) DEF StoreTypeOK, ProcessTypeOK, JobTypeOK,
      CommitTypeOK, FlagTypeOK, ModeInv, LeaseInv, JobInv, Ids, OrphanRuns,
      RevisionMatches, MarkRuntimeApplied, RestoreTransition,
      AbortTransition, Switched
<1> QED BY <1>1, <1>2, <1>3, <1>4, <1>5, <1>6, <1>7

(* Validate keeps the invariant. *)
LEMMA ValidateStep ==
  ASSUME IndInv, Validate PROVE IndInv'
<1>1. StoreTypeOK'
  BY DEF StoreTypeOK, Documents, Ids, Validate, RuntimeTargetHolds,
      RevisionMatches
<1>2. ProcessTypeOK'
  BY DEF ProcessTypeOK, Ids, Validate, RuntimeTargetHolds, RevisionMatches
<1>3. JobTypeOK'
  BY DEF JobTypeOK, Ids, Ops, Validate, RuntimeTargetHolds, RevisionMatches
<1>4. CommitTypeOK'
  BY DEF CommitTypeOK, Validate, RuntimeTargetHolds, RevisionMatches
<1>5. FlagTypeOK'
  BY DEF FlagTypeOK, Validate, RuntimeTargetHolds, RevisionMatches
<1>6. ModeInv'
  BY NoFileAssumption DEF FlagTypeOK, CommitTypeOK, JobTypeOK, ProcessTypeOK,
      ModeInv, LeaseInv, JobInv, Ids, Validate, RuntimeTargetHolds,
      RevisionMatches
<1>7. (Running => LeaseInv /\ JobInv)'
  BY NoFileAssumption DEF StoreTypeOK, ProcessTypeOK, JobTypeOK,
      CommitTypeOK, FlagTypeOK, ModeInv, LeaseInv, JobInv, Ids, Validate,
      RuntimeTargetHolds, RevisionMatches
<1> QED BY <1>1, <1>2, <1>3, <1>4, <1>5, <1>6, <1>7

(* TargetChanged keeps the invariant. *)
LEMMA TargetChangedStep ==
  ASSUME IndInv, TargetChanged PROVE IndInv'
<1>1. StoreTypeOK'
  BY DEF StoreTypeOK, Documents, Ids, TargetChanged, EndBeforeCommit
<1>2. ProcessTypeOK'
  BY DEF ProcessTypeOK, Ids, TargetChanged, EndBeforeCommit
<1>3. JobTypeOK'
  BY DEF JobTypeOK, Ids, Ops, TargetChanged, EndBeforeCommit
<1>4. CommitTypeOK'
  BY DEF CommitTypeOK, TargetChanged, EndBeforeCommit
<1>5. FlagTypeOK'
  BY DEF FlagTypeOK, TargetChanged, EndBeforeCommit
<1>6. ModeInv'
  BY NoFileAssumption DEF FlagTypeOK, CommitTypeOK, JobTypeOK, ProcessTypeOK,
      ModeInv, LeaseInv, JobInv, Ids, TargetChanged, EndBeforeCommit
<1>7. (Running => LeaseInv /\ JobInv)'
  BY NoFileAssumption DEF StoreTypeOK, ProcessTypeOK, JobTypeOK,
      CommitTypeOK, FlagTypeOK, ModeInv, LeaseInv, JobInv, Ids,
      TargetChanged, EndBeforeCommit
<1> QED BY <1>1, <1>2, <1>3, <1>4, <1>5, <1>6, <1>7

(* AcquireLock keeps the invariant. *)
LEMMA AcquireLockStep ==
  ASSUME IndInv, AcquireLock PROVE IndInv'
<1>1. StoreTypeOK'
  BY DEF StoreTypeOK, Documents, Ids, AcquireLock
<1>2. ProcessTypeOK'
  BY DEF ProcessTypeOK, Ids, AcquireLock
<1>3. JobTypeOK'
  BY DEF JobTypeOK, Ids, Ops, AcquireLock
<1>4. CommitTypeOK'
  BY DEF CommitTypeOK, AcquireLock
<1>5. FlagTypeOK'
  BY DEF FlagTypeOK, AcquireLock
<1>6. ModeInv'
  BY NoFileAssumption DEF FlagTypeOK, CommitTypeOK, JobTypeOK, ProcessTypeOK,
      ModeInv, LeaseInv, JobInv, Ids, AcquireLock
<1>7. (Running => LeaseInv /\ JobInv)'
  BY NoFileAssumption DEF StoreTypeOK, ProcessTypeOK, JobTypeOK,
      CommitTypeOK, FlagTypeOK, ModeInv, LeaseInv, JobInv, Ids, AcquireLock
<1> QED BY <1>1, <1>2, <1>3, <1>4, <1>5, <1>6, <1>7

(* CaptureLease keeps the invariant. *)
LEMMA CaptureLeaseStep ==
  ASSUME IndInv, CaptureLease PROVE IndInv'
<1>1. StoreTypeOK'
  BY DEF StoreTypeOK, Documents, Ids, CaptureLease, CaptureTransition,
      RevisionMatches, JobTypeOK
<1>2. ProcessTypeOK'
  BY DEF ProcessTypeOK, Ids, CaptureLease, CaptureTransition, RevisionMatches
<1>3. JobTypeOK'
  BY DEF JobTypeOK, Ids, Ops, CaptureLease, CaptureTransition,
      RevisionMatches
<1>4. CommitTypeOK'
  BY DEF CommitTypeOK, CaptureLease, CaptureTransition, RevisionMatches,
      StoreTypeOK
<1>5. FlagTypeOK'
  BY DEF FlagTypeOK, CaptureLease, CaptureTransition, RevisionMatches
<1>6. ModeInv'
  BY NoFileAssumption DEF FlagTypeOK, CommitTypeOK, JobTypeOK, ProcessTypeOK,
      ModeInv, LeaseInv, JobInv, Ids, CaptureLease, CaptureTransition,
      RevisionMatches
<1>7. (Running => LeaseInv /\ JobInv)'
  BY NoFileAssumption DEF StoreTypeOK, ProcessTypeOK, JobTypeOK,
      CommitTypeOK, FlagTypeOK, ModeInv, LeaseInv, JobInv, Ids, CaptureLease,
      CaptureTransition, RevisionMatches
<1> QED BY <1>1, <1>2, <1>3, <1>4, <1>5, <1>6, <1>7

(* LeaseConflict keeps the invariant. *)
LEMMA LeaseConflictStep ==
  ASSUME IndInv, LeaseConflict PROVE IndInv'
<1>1. StoreTypeOK'
  BY DEF StoreTypeOK, Documents, Ids, LeaseConflict, Raise
<1>2. ProcessTypeOK'
  BY BoundsAssumption DEF ProcessTypeOK, Ids, LeaseConflict, Raise,
      CommitTypeOK
<1>3. JobTypeOK'
  BY DEF JobTypeOK, Ids, Ops, LeaseConflict, Raise
<1>4. CommitTypeOK'
  BY DEF CommitTypeOK, LeaseConflict, Raise
<1>5. FlagTypeOK'
  BY DEF FlagTypeOK, LeaseConflict, Raise
<1>6. ModeInv'
  BY NoFileAssumption DEF FlagTypeOK, CommitTypeOK, JobTypeOK, ProcessTypeOK,
      ModeInv, LeaseInv, JobInv, Ids, LeaseConflict, Raise
<1>7. (Running => LeaseInv /\ JobInv)'
  BY NoFileAssumption DEF StoreTypeOK, ProcessTypeOK, JobTypeOK,
      CommitTypeOK, FlagTypeOK, ModeInv, LeaseInv, JobInv, Ids,
      LeaseConflict, Raise
<1> QED BY <1>1, <1>2, <1>3, <1>4, <1>5, <1>6, <1>7

(* PrepareState keeps the invariant. *)
LEMMA PrepareStateStep ==
  ASSUME IndInv, PrepareState PROVE IndInv'
<1>1. StoreTypeOK'
  BY DEF StoreTypeOK, Documents, Ids, PrepareState
<1>2. ProcessTypeOK'
  BY DEF ProcessTypeOK, Ids, PrepareState, JobTypeOK
<1>3. JobTypeOK'
  BY DEF JobTypeOK, Ids, Ops, PrepareState
<1>4. CommitTypeOK'
  BY DEF CommitTypeOK, PrepareState
<1>5. FlagTypeOK'
  BY DEF FlagTypeOK, PrepareState
<1>6. ModeInv'
  BY NoFileAssumption DEF FlagTypeOK, CommitTypeOK, JobTypeOK, ProcessTypeOK,
      ModeInv, LeaseInv, JobInv, Ids, PrepareState
<1>7. (Running => LeaseInv /\ JobInv)'
  BY NoFileAssumption DEF StoreTypeOK, ProcessTypeOK, JobTypeOK,
      CommitTypeOK, FlagTypeOK, ModeInv, LeaseInv, JobInv, Ids, PrepareState
<1> QED BY <1>1, <1>2, <1>3, <1>4, <1>5, <1>6, <1>7

(* CandidateStarted keeps the invariant. *)
LEMMA CandidateStartedStep ==
  ASSUME IndInv, CandidateStarted PROVE IndInv'
<1>1. StoreTypeOK'
  BY DEF StoreTypeOK, Documents, Ids, CandidateStarted
<1>2. ProcessTypeOK'
  BY DEF ProcessTypeOK, Ids, CandidateStarted
<1>3. JobTypeOK'
  BY DEF JobTypeOK, Ids, Ops, CandidateStarted
<1>4. CommitTypeOK'
  BY DEF CommitTypeOK, CandidateStarted
<1>5. FlagTypeOK'
  BY DEF FlagTypeOK, CandidateStarted
<1>6. ModeInv'
  BY NoFileAssumption DEF FlagTypeOK, CommitTypeOK, JobTypeOK, ProcessTypeOK,
      ModeInv, LeaseInv, JobInv, Ids, CandidateStarted
<1>7. (Running => LeaseInv /\ JobInv)'
  BY NoFileAssumption DEF StoreTypeOK, ProcessTypeOK, JobTypeOK,
      CommitTypeOK, FlagTypeOK, ModeInv, LeaseInv, JobInv, Ids,
      CandidateStarted
<1> QED BY <1>1, <1>2, <1>3, <1>4, <1>5, <1>6, <1>7

(* CandidateFailed keeps the invariant. *)
LEMMA CandidateFailedStep ==
  ASSUME IndInv, CandidateFailed PROVE IndInv'
<1>1. StoreTypeOK'
  BY DEF StoreTypeOK, Documents, Ids, CandidateFailed, Raise
<1>2. ProcessTypeOK'
  BY BoundsAssumption DEF ProcessTypeOK, Ids, CandidateFailed, Raise,
      CommitTypeOK
<1>3. JobTypeOK'
  BY DEF JobTypeOK, Ids, Ops, CandidateFailed, Raise
<1>4. CommitTypeOK'
  BY DEF CommitTypeOK, CandidateFailed, Raise
<1>5. FlagTypeOK'
  BY DEF FlagTypeOK, CandidateFailed, Raise
<1>6. ModeInv'
  BY NoFileAssumption DEF FlagTypeOK, CommitTypeOK, JobTypeOK, ProcessTypeOK,
      ModeInv, LeaseInv, JobInv, Ids, CandidateFailed, Raise
<1>7. (Running => LeaseInv /\ JobInv)'
  BY NoFileAssumption DEF StoreTypeOK, ProcessTypeOK, JobTypeOK,
      CommitTypeOK, FlagTypeOK, ModeInv, LeaseInv, JobInv, Ids,
      CandidateFailed, Raise
<1> QED BY <1>1, <1>2, <1>3, <1>4, <1>5, <1>6, <1>7

(* WriteFile keeps the invariant. *)
LEMMA WriteFileStep ==
  ASSUME IndInv, WriteFile PROVE IndInv'
<1>1. StoreTypeOK'
  BY DEF StoreTypeOK, Documents, Ids, WriteFile, SwitchFile, RevisionMatches,
      Switched, Target, MayWrite
<1>2. ProcessTypeOK'
  BY DEF ProcessTypeOK, Ids, WriteFile, SwitchFile, RevisionMatches,
      Switched, Target, MayWrite
<1>3. JobTypeOK'
  BY DEF JobTypeOK, Ids, Ops, WriteFile, SwitchFile, RevisionMatches,
      Switched, Target, MayWrite
<1>4. CommitTypeOK'
  BY DEF CommitTypeOK, WriteFile, SwitchFile, RevisionMatches, Switched,
      Target, MayWrite
<1>5. FlagTypeOK'
  BY DEF FlagTypeOK, WriteFile, SwitchFile, RevisionMatches, Switched,
      Target, MayWrite
<1>6. ModeInv'
  BY NoFileAssumption DEF FlagTypeOK, CommitTypeOK, JobTypeOK, ProcessTypeOK,
      ModeInv, LeaseInv, JobInv, Ids, WriteFile, SwitchFile, RevisionMatches,
      Switched, Target, MayWrite
<1>7. (Running => LeaseInv /\ JobInv)'
  BY NoFileAssumption DEF StoreTypeOK, ProcessTypeOK, JobTypeOK,
      CommitTypeOK, FlagTypeOK, ModeInv, LeaseInv, JobInv, Ids, WriteFile,
      SwitchFile, RevisionMatches, Switched, Target, MayWrite
<1> QED BY <1>1, <1>2, <1>3, <1>4, <1>5, <1>6, <1>7

(* VerifyActive keeps the invariant. *)
LEMMA VerifyActiveStep ==
  ASSUME IndInv, VerifyActive PROVE IndInv'
<1>1. StoreTypeOK'
  BY DEF StoreTypeOK, Documents, Ids, VerifyActive
<1>2. ProcessTypeOK'
  BY DEF ProcessTypeOK, Ids, VerifyActive
<1>3. JobTypeOK'
  BY DEF JobTypeOK, Ids, Ops, VerifyActive
<1>4. CommitTypeOK'
  BY DEF CommitTypeOK, VerifyActive
<1>5. FlagTypeOK'
  BY DEF FlagTypeOK, VerifyActive
<1>6. ModeInv'
  BY NoFileAssumption DEF FlagTypeOK, CommitTypeOK, JobTypeOK, ProcessTypeOK,
      ModeInv, LeaseInv, JobInv, Ids, VerifyActive
<1>7. (Running => LeaseInv /\ JobInv)'
  BY NoFileAssumption DEF StoreTypeOK, ProcessTypeOK, JobTypeOK,
      CommitTypeOK, FlagTypeOK, ModeInv, LeaseInv, JobInv, Ids, VerifyActive
<1> QED BY <1>1, <1>2, <1>3, <1>4, <1>5, <1>6, <1>7

(* MarkApplied keeps the invariant. *)
LEMMA MarkAppliedStep ==
  ASSUME IndInv, MarkApplied PROVE IndInv'
<1>1. StoreTypeOK'
  BY DEF StoreTypeOK, Documents, Ids, MarkApplied, MarkRuntimeApplied
<1>2. ProcessTypeOK'
  BY DEF ProcessTypeOK, Ids, MarkApplied, MarkRuntimeApplied
<1>3. JobTypeOK'
  BY DEF JobTypeOK, Ids, Ops, MarkApplied, MarkRuntimeApplied
<1>4. CommitTypeOK'
  BY DEF CommitTypeOK, MarkApplied, MarkRuntimeApplied
<1>5. FlagTypeOK'
  BY DEF FlagTypeOK, MarkApplied, MarkRuntimeApplied
<1>6. ModeInv'
  BY NoFileAssumption DEF FlagTypeOK, CommitTypeOK, JobTypeOK, ProcessTypeOK,
      ModeInv, LeaseInv, JobInv, Ids, MarkApplied, MarkRuntimeApplied
<1>7. (Running => LeaseInv /\ JobInv)'
  BY NoFileAssumption DEF StoreTypeOK, ProcessTypeOK, JobTypeOK,
      CommitTypeOK, FlagTypeOK, ModeInv, LeaseInv, JobInv, Ids, MarkApplied,
      MarkRuntimeApplied
<1> QED BY <1>1, <1>2, <1>3, <1>4, <1>5, <1>6, <1>7

(* SwitchAndCommit keeps the invariant. *)
LEMMA SwitchAndCommitStep ==
  ASSUME IndInv, SwitchAndCommit PROVE IndInv'
<1>1. StoreTypeOK'
  BY BoundsAssumption DEF StoreTypeOK, Documents, Ids, SwitchAndCommit,
      CommitTransition
<1>2. ProcessTypeOK'
  BY DEF ProcessTypeOK, Ids, SwitchAndCommit, CommitTransition, JobTypeOK,
      LeaseInv, JobInv
<1>3. JobTypeOK'
  BY DEF JobTypeOK, Ids, Ops, SwitchAndCommit, CommitTransition
<1>4. CommitTypeOK'
  BY DEF CommitTypeOK, SwitchAndCommit, CommitTransition
<1>5. FlagTypeOK'
  BY DEF FlagTypeOK, SwitchAndCommit, CommitTransition
<1>6. ModeInv'
  BY NoFileAssumption DEF FlagTypeOK, CommitTypeOK, JobTypeOK, ProcessTypeOK,
      ModeInv, LeaseInv, JobInv, Ids, SwitchAndCommit, CommitTransition
<1>7. (Running => LeaseInv /\ JobInv)'
  BY NoFileAssumption DEF StoreTypeOK, ProcessTypeOK, JobTypeOK,
      CommitTypeOK, FlagTypeOK, ModeInv, LeaseInv, JobInv, Ids,
      SwitchAndCommit, CommitTransition
<1> QED BY <1>1, <1>2, <1>3, <1>4, <1>5, <1>6, <1>7

(* Reconcile keeps the invariant. *)
LEMMA ReconcileStep ==
  ASSUME IndInv, Reconcile PROVE IndInv'
<1>1. StoreTypeOK'
  BY DEF StoreTypeOK, Documents, Ids, Reconcile
<1>2. ProcessTypeOK'
  BY DEF ProcessTypeOK, Ids, Reconcile, JobTypeOK, CommitTypeOK
<1>3. JobTypeOK'
  BY DEF JobTypeOK, Ids, Ops, Reconcile
<1>4. CommitTypeOK'
  BY DEF CommitTypeOK, Reconcile
<1>5. FlagTypeOK'
  BY DEF FlagTypeOK, Reconcile
<1>6. ModeInv'
  BY NoFileAssumption DEF FlagTypeOK, CommitTypeOK, JobTypeOK, ProcessTypeOK,
      ModeInv, LeaseInv, JobInv, Ids, Reconcile
<1>7. (Running => LeaseInv /\ JobInv)'
  BY NoFileAssumption DEF StoreTypeOK, ProcessTypeOK, JobTypeOK,
      CommitTypeOK, FlagTypeOK, ModeInv, LeaseInv, JobInv, Ids, Reconcile
<1> QED BY <1>1, <1>2, <1>3, <1>4, <1>5, <1>6, <1>7

(* HandoffRefused keeps the invariant. *)
LEMMA HandoffRefusedStep ==
  ASSUME IndInv, HandoffRefused PROVE IndInv'
<1>1. StoreTypeOK'
  BY DEF StoreTypeOK, Documents, Ids, HandoffRefused, Raise
<1>2. ProcessTypeOK'
  BY BoundsAssumption DEF ProcessTypeOK, Ids, HandoffRefused, Raise,
      CommitTypeOK
<1>3. JobTypeOK'
  BY DEF JobTypeOK, Ids, Ops, HandoffRefused, Raise
<1>4. CommitTypeOK'
  BY DEF CommitTypeOK, HandoffRefused, Raise
<1>5. FlagTypeOK'
  BY DEF FlagTypeOK, HandoffRefused, Raise
<1>6. ModeInv'
  BY NoFileAssumption DEF FlagTypeOK, CommitTypeOK, JobTypeOK, ProcessTypeOK,
      ModeInv, LeaseInv, JobInv, Ids, HandoffRefused, Raise
<1>7. (Running => LeaseInv /\ JobInv)'
  BY NoFileAssumption DEF StoreTypeOK, ProcessTypeOK, JobTypeOK,
      CommitTypeOK, FlagTypeOK, ModeInv, LeaseInv, JobInv, Ids,
      HandoffRefused, Raise
<1> QED BY <1>1, <1>2, <1>3, <1>4, <1>5, <1>6, <1>7

(* PublishReconciled keeps the invariant. *)
LEMMA PublishReconciledStep ==
  ASSUME IndInv, PublishReconciled PROVE IndInv'
<1>1. StoreTypeOK'
  BY DEF StoreTypeOK, Documents, Ids, PublishReconciled
<1>2. ProcessTypeOK'
  BY DEF ProcessTypeOK, Ids, PublishReconciled, JobTypeOK, LeaseInv, JobInv
<1>3. JobTypeOK'
  BY DEF JobTypeOK, Ids, Ops, PublishReconciled
<1>4. CommitTypeOK'
  BY DEF CommitTypeOK, PublishReconciled
<1>5. FlagTypeOK'
  BY DEF FlagTypeOK, PublishReconciled
<1>6. ModeInv'
  BY NoFileAssumption DEF FlagTypeOK, CommitTypeOK, JobTypeOK, ProcessTypeOK,
      ModeInv, LeaseInv, JobInv, Ids, PublishReconciled
<1>7. (Running => LeaseInv /\ JobInv)'
  BY NoFileAssumption DEF StoreTypeOK, ProcessTypeOK, JobTypeOK,
      CommitTypeOK, FlagTypeOK, ModeInv, LeaseInv, JobInv, Ids,
      PublishReconciled
<1> QED BY <1>1, <1>2, <1>3, <1>4, <1>5, <1>6, <1>7

(* ConfirmAndCommit keeps the invariant. *)
LEMMA ConfirmAndCommitStep ==
  ASSUME IndInv, ConfirmAndCommit PROVE IndInv'
<1>1. StoreTypeOK'
  BY BoundsAssumption DEF StoreTypeOK, Documents, Ids, ConfirmAndCommit,
      CommitTransition
<1>2. ProcessTypeOK'
  BY DEF ProcessTypeOK, Ids, ConfirmAndCommit, CommitTransition
<1>3. JobTypeOK'
  BY DEF JobTypeOK, Ids, Ops, ConfirmAndCommit, CommitTransition
<1>4. CommitTypeOK'
  BY DEF CommitTypeOK, ConfirmAndCommit, CommitTransition
<1>5. FlagTypeOK'
  BY DEF FlagTypeOK, ConfirmAndCommit, CommitTransition
<1>6. ModeInv'
  BY NoFileAssumption DEF FlagTypeOK, CommitTypeOK, JobTypeOK, ProcessTypeOK,
      ModeInv, LeaseInv, JobInv, Ids, ConfirmAndCommit, CommitTransition
<1>7. (Running => LeaseInv /\ JobInv)'
  BY NoFileAssumption DEF StoreTypeOK, ProcessTypeOK, JobTypeOK,
      CommitTypeOK, FlagTypeOK, ModeInv, LeaseInv, JobInv, Ids,
      ConfirmAndCommit, CommitTransition
<1> QED BY <1>1, <1>2, <1>3, <1>4, <1>5, <1>6, <1>7

(* RetireOld keeps the invariant. *)
LEMMA RetireOldStep ==
  ASSUME IndInv, RetireOld PROVE IndInv'
<1>1. StoreTypeOK'
  BY DEF StoreTypeOK, Documents, Ids, RetireOld
<1>2. ProcessTypeOK'
  <2>1. live' \in SUBSET Ids
    BY DEF ProcessTypeOK, RetireOld
  <2>2. faults' \in 0..MaxFaults
    BY BoundsAssumption DEF ProcessTypeOK, RetireOld
  <2> QED BY <2>1, <2>2 DEF ProcessTypeOK, RetireOld
<1>3. JobTypeOK'
  BY DEF JobTypeOK, Ids, Ops, RetireOld
<1>4. CommitTypeOK'
  BY DEF CommitTypeOK, RetireOld
<1>5. FlagTypeOK'
  BY DEF FlagTypeOK, RetireOld
<1>6. ModeInv'
  BY NoFileAssumption DEF FlagTypeOK, CommitTypeOK, JobTypeOK, ProcessTypeOK,
      ModeInv, LeaseInv, JobInv, Ids, RetireOld
<1>7. (Running => LeaseInv /\ JobInv)'
  BY NoFileAssumption DEF StoreTypeOK, ProcessTypeOK, JobTypeOK,
      CommitTypeOK, FlagTypeOK, ModeInv, LeaseInv, JobInv, Ids, RetireOld
<1> QED BY <1>1, <1>2, <1>3, <1>4, <1>5, <1>6, <1>7

(* CancelCommit keeps the invariant. *)
LEMMA CancelCommitStep ==
  ASSUME IndInv, CancelCommit PROVE IndInv'
<1>1. StoreTypeOK'
  BY DEF StoreTypeOK, Documents, Ids, CancelCommit, Raise, Expected
<1>2. ProcessTypeOK'
  BY BoundsAssumption DEF ProcessTypeOK, Ids, CancelCommit, Raise, Expected,
      CommitTypeOK
<1>3. JobTypeOK'
  BY DEF JobTypeOK, Ids, Ops, CancelCommit, Raise, Expected
<1>4. CommitTypeOK'
  BY DEF CommitTypeOK, CancelCommit, Raise, Expected, StoreTypeOK, LeaseInv,
      JobInv
<1>5. FlagTypeOK'
  BY DEF FlagTypeOK, CancelCommit, Raise, Expected
<1>6. ModeInv'
  BY NoFileAssumption DEF FlagTypeOK, CommitTypeOK, JobTypeOK, ProcessTypeOK,
      ModeInv, LeaseInv, JobInv, Ids, CancelCommit, Raise, Expected
<1>7. (Running => LeaseInv /\ JobInv)'
  BY NoFileAssumption DEF StoreTypeOK, ProcessTypeOK, JobTypeOK,
      CommitTypeOK, FlagTypeOK, ModeInv, LeaseInv, JobInv, Ids, CancelCommit,
      Raise, Expected
<1> QED BY <1>1, <1>2, <1>3, <1>4, <1>5, <1>6, <1>7

(* Unreconcile keeps the invariant. *)
LEMMA UnreconcileStep ==
  ASSUME IndInv, Unreconcile PROVE IndInv'
<1>1. StoreTypeOK'
  BY DEF StoreTypeOK, Documents, Ids, Unreconcile
<1>2. ProcessTypeOK'
  <2>1. pub' \in [Ids -> Ids]
    BY DEF ProcessTypeOK, Unreconcile, CommitTypeOK
  <2>2. faults' \in 0..MaxFaults
    BY BoundsAssumption DEF ProcessTypeOK, Unreconcile
  <2> QED BY <2>1, <2>2 DEF ProcessTypeOK, Unreconcile, CommitTypeOK
<1>3. JobTypeOK'
  BY DEF JobTypeOK, Ids, Ops, Unreconcile
<1>4. CommitTypeOK'
  BY DEF CommitTypeOK, Unreconcile
<1>5. FlagTypeOK'
  BY DEF FlagTypeOK, Unreconcile
<1>6. ModeInv'
  BY NoFileAssumption DEF FlagTypeOK, CommitTypeOK, JobTypeOK, ProcessTypeOK,
      ModeInv, LeaseInv, JobInv, Ids, Unreconcile
<1>7. (Running => LeaseInv /\ JobInv)'
  BY NoFileAssumption DEF StoreTypeOK, ProcessTypeOK, JobTypeOK,
      CommitTypeOK, FlagTypeOK, ModeInv, LeaseInv, JobInv, Ids, Unreconcile
<1> QED BY <1>1, <1>2, <1>3, <1>4, <1>5, <1>6, <1>7

(* StopCandidate keeps the invariant. *)
LEMMA StopCandidateStep ==
  ASSUME IndInv, StopCandidate PROVE IndInv'
<1>1. StoreTypeOK'
  BY DEF StoreTypeOK, Documents, Ids, StopCandidate
<1>2. ProcessTypeOK'
  <2>1. live' \in SUBSET Ids
    BY DEF ProcessTypeOK, StopCandidate, CommitTypeOK
  <2>2. faults' \in 0..MaxFaults
    BY BoundsAssumption DEF ProcessTypeOK, StopCandidate
  <2> QED BY <2>1, <2>2 DEF ProcessTypeOK, StopCandidate, CommitTypeOK
<1>3. JobTypeOK'
  BY DEF JobTypeOK, Ids, Ops, StopCandidate
<1>4. CommitTypeOK'
  BY DEF CommitTypeOK, StopCandidate
<1>5. FlagTypeOK'
  BY DEF FlagTypeOK, StopCandidate
<1>6. ModeInv'
  BY NoFileAssumption DEF FlagTypeOK, CommitTypeOK, JobTypeOK, ProcessTypeOK,
      ModeInv, LeaseInv, JobInv, Ids, StopCandidate
<1>7. (Running => LeaseInv /\ JobInv)'
  BY NoFileAssumption DEF StoreTypeOK, ProcessTypeOK, JobTypeOK,
      CommitTypeOK, FlagTypeOK, ModeInv, LeaseInv, JobInv, Ids, StopCandidate
<1> QED BY <1>1, <1>2, <1>3, <1>4, <1>5, <1>6, <1>7

(* Restore keeps the invariant. *)
LEMMA RestoreStep ==
  ASSUME IndInv, Restore PROVE IndInv'
<1>1. StoreTypeOK'
  BY BoundsAssumption, NoFileAssumption DEF StoreTypeOK, Documents, Ids,
      Restore, RestoreTransition, CommitTypeOK, LeaseInv, JobInv
<1>2. ProcessTypeOK'
  BY DEF ProcessTypeOK, Ids, Restore, RestoreTransition
<1>3. JobTypeOK'
  BY DEF JobTypeOK, Ids, Ops, Restore, RestoreTransition
<1>4. CommitTypeOK'
  BY DEF CommitTypeOK, Restore, RestoreTransition
<1>5. FlagTypeOK'
  BY DEF FlagTypeOK, Restore, RestoreTransition
<1>6. ModeInv'
  BY NoFileAssumption DEF FlagTypeOK, CommitTypeOK, JobTypeOK, ProcessTypeOK,
      ModeInv, LeaseInv, JobInv, Ids, Restore, RestoreTransition
<1>7. (Running => LeaseInv /\ JobInv)'
  BY NoFileAssumption DEF StoreTypeOK, ProcessTypeOK, JobTypeOK,
      CommitTypeOK, FlagTypeOK, ModeInv, LeaseInv, JobInv, Ids, Restore,
      RestoreTransition
<1> QED BY <1>1, <1>2, <1>3, <1>4, <1>5, <1>6, <1>7

(* Remark keeps the invariant. *)
LEMMA RemarkStep ==
  ASSUME IndInv, Remark PROVE IndInv'
<1>1. StoreTypeOK'
  BY DEF StoreTypeOK, Documents, Ids, Remark, MarkRuntimeApplied
<1>2. ProcessTypeOK'
  BY DEF ProcessTypeOK, Ids, Remark, MarkRuntimeApplied
<1>3. JobTypeOK'
  BY DEF JobTypeOK, Ids, Ops, Remark, MarkRuntimeApplied
<1>4. CommitTypeOK'
  BY DEF CommitTypeOK, Remark, MarkRuntimeApplied
<1>5. FlagTypeOK'
  BY DEF FlagTypeOK, Remark, MarkRuntimeApplied
<1>6. ModeInv'
  BY NoFileAssumption DEF FlagTypeOK, CommitTypeOK, JobTypeOK, ProcessTypeOK,
      ModeInv, LeaseInv, JobInv, Ids, Remark, MarkRuntimeApplied
<1>7. (Running => LeaseInv /\ JobInv)'
  BY NoFileAssumption DEF StoreTypeOK, ProcessTypeOK, JobTypeOK,
      CommitTypeOK, FlagTypeOK, ModeInv, LeaseInv, JobInv, Ids, Remark,
      MarkRuntimeApplied
<1> QED BY <1>1, <1>2, <1>3, <1>4, <1>5, <1>6, <1>7

(* FinishRollback keeps the invariant. *)
LEMMA FinishRollbackStep ==
  ASSUME IndInv, FinishRollback PROVE IndInv'
<1>1. StoreTypeOK'
  BY BoundsAssumption DEF StoreTypeOK, Documents, Ids, FinishRollback,
      AbortTransition
<1>2. ProcessTypeOK'
  BY DEF ProcessTypeOK, Ids, FinishRollback, AbortTransition
<1>3. JobTypeOK'
  BY DEF JobTypeOK, Ids, Ops, FinishRollback, AbortTransition, CommitTypeOK
<1>4. CommitTypeOK'
  BY DEF CommitTypeOK, FinishRollback, AbortTransition
<1>5. FlagTypeOK'
  BY DEF FlagTypeOK, FinishRollback, AbortTransition
<1>6. ModeInv'
  BY NoFileAssumption DEF FlagTypeOK, CommitTypeOK, JobTypeOK, ProcessTypeOK,
      ModeInv, LeaseInv, JobInv, Ids, FinishRollback, AbortTransition
<1>7. (Running => LeaseInv /\ JobInv)'
  BY NoFileAssumption DEF StoreTypeOK, ProcessTypeOK, JobTypeOK,
      CommitTypeOK, FlagTypeOK, ModeInv, LeaseInv, JobInv, Ids,
      FinishRollback, AbortTransition
<1> QED BY <1>1, <1>2, <1>3, <1>4, <1>5, <1>6, <1>7

(* AbandonRollback keeps the invariant. *)
LEMMA AbandonRollbackStep ==
  ASSUME IndInv, AbandonRollback PROVE IndInv'
<1>1. StoreTypeOK'
  BY DEF StoreTypeOK, Documents, Ids, AbandonRollback, Expected
<1>2. ProcessTypeOK'
  BY BoundsAssumption DEF ProcessTypeOK, Ids, AbandonRollback, Expected,
      CommitTypeOK
<1>3. JobTypeOK'
  BY DEF JobTypeOK, Ids, Ops, AbandonRollback, Expected
<1>4. CommitTypeOK'
  BY DEF CommitTypeOK, AbandonRollback, Expected, StoreTypeOK, LeaseInv,
      JobInv
<1>5. FlagTypeOK'
  BY DEF FlagTypeOK, AbandonRollback, Expected
<1>6. ModeInv'
  BY NoFileAssumption DEF FlagTypeOK, CommitTypeOK, JobTypeOK, ProcessTypeOK,
      ModeInv, LeaseInv, JobInv, Ids, AbandonRollback, Expected
<1>7. (Running => LeaseInv /\ JobInv)'
  BY NoFileAssumption DEF StoreTypeOK, ProcessTypeOK, JobTypeOK,
      CommitTypeOK, FlagTypeOK, ModeInv, LeaseInv, JobInv, Ids,
      AbandonRollback, Expected
<1> QED BY <1>1, <1>2, <1>3, <1>4, <1>5, <1>6, <1>7

(* EndJob keeps the invariant. *)
LEMMA EndJobStep ==
  ASSUME IndInv, EndJob PROVE IndInv'
<1>1. StoreTypeOK'
  BY DEF StoreTypeOK, Documents, Ids, EndJob
<1>2. ProcessTypeOK'
  BY DEF ProcessTypeOK, Ids, EndJob
<1>3. JobTypeOK'
  BY DEF JobTypeOK, Ids, Ops, EndJob
<1>4. CommitTypeOK'
  BY DEF CommitTypeOK, EndJob
<1>5. FlagTypeOK'
  BY DEF FlagTypeOK, EndJob
<1>6. ModeInv'
  BY NoFileAssumption DEF FlagTypeOK, CommitTypeOK, JobTypeOK, ProcessTypeOK,
      ModeInv, LeaseInv, JobInv, Ids, EndJob
<1>7. (Running => LeaseInv /\ JobInv)'
  BY NoFileAssumption DEF StoreTypeOK, ProcessTypeOK, JobTypeOK,
      CommitTypeOK, FlagTypeOK, ModeInv, LeaseInv, JobInv, Ids, EndJob
<1> QED BY <1>1, <1>2, <1>3, <1>4, <1>5, <1>6, <1>7

(* WriteFailsLate keeps the invariant. *)
LEMMA WriteFailsLateStep ==
  ASSUME IndInv, WriteFailsLate PROVE IndInv'
<1>1. StoreTypeOK'
  BY DEF StoreTypeOK, Documents, Ids, WriteFailsLate, SwitchFile,
      RevisionMatches, Switched, Target, MayWrite, Raise
<1>2. ProcessTypeOK'
  BY BoundsAssumption, SMTT(30) DEF ProcessTypeOK, Ids, WriteFailsLate, SwitchFile,
      RevisionMatches, Switched, Target, MayWrite, Raise, CommitTypeOK
<1>3. JobTypeOK'
  BY DEF JobTypeOK, Ids, Ops, WriteFailsLate, SwitchFile, RevisionMatches,
      Switched, Target, MayWrite, Raise
<1>4. CommitTypeOK'
  BY DEF CommitTypeOK, WriteFailsLate, SwitchFile, RevisionMatches, Switched,
      Target, MayWrite, Raise
<1>5. FlagTypeOK'
  BY DEF FlagTypeOK, WriteFailsLate, SwitchFile, RevisionMatches, Switched,
      Target, MayWrite, Raise
<1>6. ModeInv'
  BY NoFileAssumption DEF FlagTypeOK, CommitTypeOK, JobTypeOK, ProcessTypeOK,
      ModeInv, LeaseInv, JobInv, Ids, WriteFailsLate, SwitchFile,
      RevisionMatches, Switched, Target, MayWrite, Raise
<1>7. (Running => LeaseInv /\ JobInv)'
  BY NoFileAssumption DEF StoreTypeOK, ProcessTypeOK, JobTypeOK,
      CommitTypeOK, FlagTypeOK, ModeInv, LeaseInv, JobInv, Ids,
      WriteFailsLate, SwitchFile, RevisionMatches, Switched, Target,
      MayWrite, Raise
<1> QED BY <1>1, <1>2, <1>3, <1>4, <1>5, <1>6, <1>7

(* StepFails keeps the invariant. *)
LEMMA StepFailsStep ==
  ASSUME IndInv, StepFails PROVE IndInv'
<1>1. StoreTypeOK'
  BY DEF StoreTypeOK, Documents, Ids, StepFails, Raise
<1>2. ProcessTypeOK'
  BY BoundsAssumption, SMTT(30) DEF ProcessTypeOK, Ids, StepFails, Raise, CommitTypeOK
<1>3. JobTypeOK'
  BY DEF JobTypeOK, Ids, Ops, StepFails, Raise
<1>4. CommitTypeOK'
  BY DEF CommitTypeOK, StepFails, Raise
<1>5. FlagTypeOK'
  BY DEF FlagTypeOK, StepFails, Raise
<1>6. ModeInv'
  BY NoFileAssumption DEF FlagTypeOK, CommitTypeOK, JobTypeOK, ProcessTypeOK,
      ModeInv, LeaseInv, JobInv, Ids, StepFails, Raise
<1>7. (Running => LeaseInv /\ JobInv)'
  BY NoFileAssumption DEF StoreTypeOK, ProcessTypeOK, JobTypeOK,
      CommitTypeOK, FlagTypeOK, ModeInv, LeaseInv, JobInv, Ids, StepFails,
      Raise
<1> QED BY <1>1, <1>2, <1>3, <1>4, <1>5, <1>6, <1>7

(* RestoreFails keeps the invariant. *)
LEMMA RestoreFailsStep ==
  ASSUME IndInv, RestoreFails PROVE IndInv'
<1>1. StoreTypeOK'
  BY DEF StoreTypeOK, Documents, Ids, RestoreFails, CommitTypeOK, LeaseInv,
      JobInv
<1>2. ProcessTypeOK'
  BY BoundsAssumption, SMTT(30) DEF ProcessTypeOK, Ids, RestoreFails, CommitTypeOK
<1>3. JobTypeOK'
  BY DEF JobTypeOK, Ids, Ops, RestoreFails
<1>4. CommitTypeOK'
  BY DEF CommitTypeOK, RestoreFails
<1>5. FlagTypeOK'
  BY DEF FlagTypeOK, RestoreFails
<1>6. ModeInv'
  BY NoFileAssumption DEF FlagTypeOK, CommitTypeOK, JobTypeOK, ProcessTypeOK,
      ModeInv, LeaseInv, JobInv, Ids, RestoreFails
<1>7. (Running => LeaseInv /\ JobInv)'
  BY NoFileAssumption DEF StoreTypeOK, ProcessTypeOK, JobTypeOK,
      CommitTypeOK, FlagTypeOK, ModeInv, LeaseInv, JobInv, Ids, RestoreFails
<1> QED BY <1>1, <1>2, <1>3, <1>4, <1>5, <1>6, <1>7

(* CollectorDies keeps the invariant. *)
LEMMA CollectorDiesStep ==
  ASSUME IndInv, NEW o \in Ids, CollectorDies(o) PROVE IndInv'
<1>1. StoreTypeOK'
  BY DEF StoreTypeOK, Documents, Ids, CollectorDies
<1>2. ProcessTypeOK'
  <2>1. live' \in SUBSET Ids
    BY DEF ProcessTypeOK, CollectorDies
  <2>2. faults' \in 0..MaxFaults
    BY BoundsAssumption DEF ProcessTypeOK, CollectorDies
  <2> QED BY <2>1, <2>2 DEF ProcessTypeOK, CollectorDies
<1>3. JobTypeOK'
  BY DEF JobTypeOK, Ids, Ops, CollectorDies
<1>4. CommitTypeOK'
  BY DEF CommitTypeOK, CollectorDies
<1>5. FlagTypeOK'
  BY DEF FlagTypeOK, CollectorDies
<1>6. ModeInv'
  BY NoFileAssumption DEF FlagTypeOK, CommitTypeOK, JobTypeOK, ProcessTypeOK,
      ModeInv, LeaseInv, JobInv, Ids, CollectorDies
<1>7. (Running => LeaseInv /\ JobInv)'
  BY NoFileAssumption DEF StoreTypeOK, ProcessTypeOK, JobTypeOK,
      CommitTypeOK, FlagTypeOK, ModeInv, LeaseInv, JobInv, Ids, CollectorDies
<1> QED BY <1>1, <1>2, <1>3, <1>4, <1>5, <1>6, <1>7

(* AdminRead keeps the invariant. *)
LEMMA AdminReadStep ==
  ASSUME IndInv, NEW a \in Admins, AdminRead(a) PROVE IndInv'
<1>1. StoreTypeOK'
  BY DEF StoreTypeOK, Documents, Ids, AdminRead
<1>2. ProcessTypeOK'
  BY DEF ProcessTypeOK, Ids, AdminRead
<1>3. JobTypeOK'
  BY DEF JobTypeOK, Ids, Ops, AdminRead
<1>4. CommitTypeOK'
  BY DEF CommitTypeOK, AdminRead
<1>5. FlagTypeOK'
  BY DEF FlagTypeOK, AdminRead
<1>6. ModeInv'
  BY NoFileAssumption DEF FlagTypeOK, CommitTypeOK, JobTypeOK, ProcessTypeOK,
      ModeInv, LeaseInv, JobInv, Ids, AdminRead
<1>7. (Running => LeaseInv /\ JobInv)'
  BY NoFileAssumption DEF StoreTypeOK, ProcessTypeOK, JobTypeOK,
      CommitTypeOK, FlagTypeOK, ModeInv, LeaseInv, JobInv, Ids, AdminRead
<1> QED BY <1>1, <1>2, <1>3, <1>4, <1>5, <1>6, <1>7

(* AdminStage keeps the invariant. *)
LEMMA AdminStageStep ==
  ASSUME IndInv, NEW a \in Admins, NEW g \in Gens, AdminStage(a, g) PROVE IndInv'
<1>1. StoreTypeOK'
  BY DEF StoreTypeOK, Documents, Ids, AdminStage, StageDraft,
      RevisionMatches, MayWrite, WithStaged
<1>2. ProcessTypeOK'
  BY DEF ProcessTypeOK, Ids, AdminStage, StageDraft, RevisionMatches,
      MayWrite, WithStaged
<1>3. JobTypeOK'
  BY DEF JobTypeOK, Ids, Ops, AdminStage, StageDraft, RevisionMatches,
      MayWrite, WithStaged
<1>4. CommitTypeOK'
  BY DEF CommitTypeOK, AdminStage, StageDraft, RevisionMatches, MayWrite,
      WithStaged
<1>5. FlagTypeOK'
  BY DEF FlagTypeOK, AdminStage, StageDraft, RevisionMatches, MayWrite,
      WithStaged
<1>6. ModeInv'
  BY NoFileAssumption DEF FlagTypeOK, CommitTypeOK, JobTypeOK, ProcessTypeOK,
      ModeInv, LeaseInv, JobInv, Ids, AdminStage, StageDraft,
      RevisionMatches, MayWrite, WithStaged
<1>7. (Running => LeaseInv /\ JobInv)'
  BY NoFileAssumption DEF StoreTypeOK, ProcessTypeOK, JobTypeOK,
      CommitTypeOK, FlagTypeOK, ModeInv, LeaseInv, JobInv, Ids, AdminStage,
      StageDraft, RevisionMatches, MayWrite, WithStaged
<1> QED BY <1>1, <1>2, <1>3, <1>4, <1>5, <1>6, <1>7

(* RequestAssert keeps the invariant. *)
LEMMA RequestAssertStep ==
  ASSUME IndInv, NEW a \in Admins, NEW o \in Ops, RequestAssert(a, o) PROVE IndInv'
<1>1. StoreTypeOK'
  BY DEF StoreTypeOK, Documents, Ids, RequestAssert, RevisionMatches
<1>2. ProcessTypeOK'
  BY DEF ProcessTypeOK, Ids, RequestAssert, RevisionMatches
<1>3. JobTypeOK'
  BY DEF JobTypeOK, Ids, Ops, RequestAssert, RevisionMatches
<1>4. CommitTypeOK'
  BY DEF CommitTypeOK, RequestAssert, RevisionMatches
<1>5. FlagTypeOK'
  BY DEF FlagTypeOK, RequestAssert, RevisionMatches
<1>6. ModeInv'
  BY NoFileAssumption DEF FlagTypeOK, CommitTypeOK, JobTypeOK, ProcessTypeOK,
      ModeInv, LeaseInv, JobInv, Ids, RequestAssert, RevisionMatches
<1>7. (Running => LeaseInv /\ JobInv)'
  BY NoFileAssumption DEF StoreTypeOK, ProcessTypeOK, JobTypeOK,
      CommitTypeOK, FlagTypeOK, ModeInv, LeaseInv, JobInv, Ids,
      RequestAssert, RevisionMatches
<1> QED BY <1>1, <1>2, <1>3, <1>4, <1>5, <1>6, <1>7

(* RequestJob keeps the invariant. *)
LEMMA RequestJobStep ==
  ASSUME IndInv, NEW a \in Admins, RequestJob(a) PROVE IndInv'
<1>1. StoreTypeOK'
  BY DEF StoreTypeOK, Documents, Ids, RequestJob, Target
<1>2. ProcessTypeOK'
  BY DEF ProcessTypeOK, Ids, RequestJob, Target
<1>3. JobTypeOK'
  <2>1. CASE pc = "idle" /\ Target(file, asked[a]) # NoGen /\ n < MaxJobs
    <3>1. n' \in Ids
      BY <2>1, BoundsAssumption DEF JobTypeOK, RequestJob, Ids
    <3>2. asked[a] \in Ops /\ seen[a] \in Documents \cup {NoFile}
      BY DEF StoreTypeOK, RequestJob
    <3>3. target' \in Gens \cup {NoGen}
      BY <2>1 DEF StoreTypeOK, RequestJob, Target, Documents
    <3> QED
      BY <2>1, <3>1, <3>2, <3>3
      DEF JobTypeOK, RequestJob, Handoffs
  <2>2. CASE ~(pc = "idle" /\ Target(file, asked[a]) # NoGen /\ n < MaxJobs)
    BY <2>2 DEF JobTypeOK, RequestJob
  <2> QED BY <2>1, <2>2
<1>4. CommitTypeOK'
  BY DEF CommitTypeOK, RequestJob, Target
<1>5. FlagTypeOK'
  BY DEF FlagTypeOK, RequestJob, Target
<1>6. ModeInv'
  BY NoFileAssumption DEF FlagTypeOK, CommitTypeOK, JobTypeOK, ProcessTypeOK,
      ModeInv, LeaseInv, JobInv, Ids, RequestJob, Target
<1>7. (Running => LeaseInv /\ JobInv)'
  <2>1. CASE pc = "idle" /\ Target(file, asked[a]) # NoGen /\ n < MaxJobs
    <3>1. lease = NoLease /\ served.id <= n /\ n \in Nat /\ served.id \in Int
      BY <2>1, BoundsAssumption
      DEF ProcessTypeOK, JobTypeOK, LeaseInv, JobInv, RequestJob, Ids
    <3>2. Target(file, asked[a]) \in Gens
      BY <2>1 DEF StoreTypeOK, Target, Documents
    <3>3. n' = n + 1 /\ pc' = "validate" /\ token' = NoFile /\ ~written'
          /\ target' = Target(file, asked[a]) /\ UNCHANGED <<served, lease>>
      BY <2>1 DEF RequestJob
    <3> QED
      BY <3>1, <3>2, <3>3
      DEF LeaseInv, JobInv
  <2>2. CASE ~(pc = "idle" /\ Target(file, asked[a]) # NoGen /\ n < MaxJobs)
    BY <2>2 DEF LeaseInv, JobInv, RequestJob
  <2> QED BY <2>1, <2>2
<1> QED BY <1>1, <1>2, <1>3, <1>4, <1>5, <1>6, <1>7

(* ChooseHandoff keeps the invariant. *)
LEMMA ChooseHandoffStep ==
  ASSUME IndInv, NEW h \in Handoffs, ChooseHandoff(h) PROVE IndInv'
<1>1. StoreTypeOK'
  BY DEF StoreTypeOK, Documents, Ids, ChooseHandoff
<1>2. ProcessTypeOK'
  BY DEF ProcessTypeOK, Ids, ChooseHandoff
<1>3. JobTypeOK'
  BY DEF JobTypeOK, Ids, Ops, ChooseHandoff
<1>4. CommitTypeOK'
  BY DEF CommitTypeOK, ChooseHandoff, ProcessTypeOK
<1>5. FlagTypeOK'
  BY DEF FlagTypeOK, ChooseHandoff
<1>6. ModeInv'
  BY NoFileAssumption DEF FlagTypeOK, CommitTypeOK, JobTypeOK, ProcessTypeOK,
      ModeInv, LeaseInv, JobInv, Ids, ChooseHandoff
<1>7. (Running => LeaseInv /\ JobInv)'
  BY NoFileAssumption DEF StoreTypeOK, ProcessTypeOK, JobTypeOK,
      CommitTypeOK, FlagTypeOK, ModeInv, LeaseInv, JobInv, Ids, ChooseHandoff
<1> QED BY <1>1, <1>2, <1>3, <1>4, <1>5, <1>6, <1>7

(* EndBeforeCommit keeps the invariant. *)
LEMMA EndBeforeCommitStep ==
  ASSUME IndInv, NEW how \in {"failed", "cancelled"}, EndBeforeCommit(how) PROVE IndInv'
<1>1. StoreTypeOK'
  BY DEF StoreTypeOK, Documents, Ids, EndBeforeCommit
<1>2. ProcessTypeOK'
  BY DEF ProcessTypeOK, Ids, EndBeforeCommit
<1>3. JobTypeOK'
  BY DEF JobTypeOK, Ids, Ops, EndBeforeCommit
<1>4. CommitTypeOK'
  BY DEF CommitTypeOK, EndBeforeCommit
<1>5. FlagTypeOK'
  BY DEF FlagTypeOK, EndBeforeCommit
<1>6. ModeInv'
  BY NoFileAssumption DEF FlagTypeOK, CommitTypeOK, JobTypeOK, ProcessTypeOK,
      ModeInv, LeaseInv, JobInv, Ids, EndBeforeCommit
<1>7. (Running => LeaseInv /\ JobInv)'
  BY NoFileAssumption DEF StoreTypeOK, ProcessTypeOK, JobTypeOK,
      CommitTypeOK, FlagTypeOK, ModeInv, LeaseInv, JobInv, Ids,
      EndBeforeCommit
<1> QED BY <1>1, <1>2, <1>3, <1>4, <1>5, <1>6, <1>7

-----------------------------------------------------------------------------
HIDE DEF IndInv, Running, Held, BeforeWrite, AfterWrite, Up, Resumes, Keep

(* The invariant is a state predicate of vars. *)
LEMMA StutterStep == ASSUME IndInv, UNCHANGED vars PROVE IndInv'
  BY DEF IndInv, Running, Held, BeforeWrite, AfterWrite, vars, TypeOK,
      StoreTypeOK, ProcessTypeOK, JobTypeOK, CommitTypeOK, FlagTypeOK, ModeInv,
      LeaseInv, JobInv

(* The invariant holds before the first start. *)
LEMMA IndInvInit == Init => IndInv
<1> SUFFICES ASSUME Init PROVE IndInv
  OBVIOUS
<1>1. file \in Documents /\ file.active \in Gens
  BY GensAssumption DEF Init, Documents
<1>2. StoreTypeOK
  BY <1>1, BoundsAssumption DEF Init, StoreTypeOK, Ids
<1>3. ProcessTypeOK
  BY <1>1, BoundsAssumption DEF Init, ProcessTypeOK, Ids
<1>4. JobTypeOK
  BY BoundsAssumption DEF Init, JobTypeOK, Ids, Ops, Handoffs
<1>5. CommitTypeOK
  BY <1>1, BoundsAssumption DEF Init, CommitTypeOK, Ids
<1>6. FlagTypeOK
  BY DEF Init, FlagTypeOK
<1>7. ModeInv /\ ~Running
  BY DEF Init, ModeInv, Running
<1> QED
  BY <1>2, <1>3, <1>4, <1>5, <1>6, <1>7 DEF IndInv, TypeOK

(* Every step of the job keeps the invariant. *)
LEMMA JobStepStep == ASSUME IndInv, JobStep PROVE IndInv'
  BY ValidateStep, TargetChangedStep, ChooseHandoffStep, AcquireLockStep,
     CaptureLeaseStep, LeaseConflictStep, PrepareStateStep,
     CandidateStartedStep, CandidateFailedStep, WriteFileStep,
     VerifyActiveStep, MarkAppliedStep, SwitchAndCommitStep, ReconcileStep,
     HandoffRefusedStep, PublishReconciledStep, ConfirmAndCommitStep,
     RetireOldStep, CancelCommitStep, UnreconcileStep, StopCandidateStep,
     RestoreStep, RemarkStep, FinishRollbackStep, AbandonRollbackStep,
     EndBeforeCommitStep, EndJobStep
  DEF JobStep

(* Every step of the system keeps the invariant. *)
LEMMA IndInvNext == ASSUME IndInv, [Next]_vars PROVE IndInv'
<1>1. CASE UNCHANGED vars
  BY <1>1, StutterStep
<1>2. CASE JobStep
  BY <1>2, JobStepStep
<1>3. CASE Fault
  BY <1>3, CollectorDiesStep, EndBeforeCommitStep, WriteFailsLateStep,
     StepFailsStep, RestoreFailsStep
  DEF Fault
<1>4. CASE AdminStep
  BY <1>4, AdminReadStep, RequestJobStep, AdminStageStep, RequestAssertStep
  DEF AdminStep
<1>5. CASE Boot \/ FinishStartup \/ Stop \/ Exit \/ Crash
  BY <1>5, BootStep, FinishStartupStep, StopStep, ExitStep, CrashStep
<1>6. CASE HistoryBegin \/ HistoryEnd \/ PreseedTimeout \/ OrphanRuns
  BY <1>6, HistoryBeginStep, HistoryEndStep, PreseedTimeoutStep,
     OrphanRunsStep
<1> QED
  BY <1>1, <1>2, <1>3, <1>4, <1>5, <1>6 DEF Next

(* The inductive invariant holds in every reachable state. *)
THEOREM IndInvHolds == Spec => []IndInv
  BY IndInvInit, IndInvNext, PTL DEF Spec

-----------------------------------------------------------------------------
(* Every reachable state is well typed: in particular the null of an empty *)
(* staged or last-known-good field never becomes the active generation.    *)
THEOREM TypeCorrect == Spec => []TypeOK
<1>1. IndInv => TypeOK
  BY DEF IndInv
<1> QED
  BY <1>1, IndInvHolds, PTL

(* While a transition holds the lease no other writer changes the file.    *)
THEOREM LeaseFreezes == Spec => []LeaseFreezesFile
<1>1. IndInv => LeaseFreezesFile
  <2> SUFFICES ASSUME IndInv, Up, lease # NoLease
               PROVE  token # NoFile /\ file \in {token, Switched(token, op)}
    BY DEF LeaseFreezesFile
  <2>1. Running /\ LeaseInv /\ JobTypeOK
    BY DEF IndInv, TypeOK, Up, Running
  <2>2. Held \/ lease = NoLease
    BY <2>1 DEF LeaseInv, JobTypeOK, PreCommit, InCommit, Interruptible,
                Unwinding, BeforeWrite, AfterWrite
  <2> QED
    BY <2>2 DEF Held
<1> QED
  BY <1>1, IndInvHolds, PTL

(* The generation a job serves is the one its requester's revision names.  *)
THEOREM ServesRequested == Spec => []ServesWhatWasRequested
<1>1. IndInv => ServesWhatWasRequested
  BY DEF IndInv, JobInv, Running, Up, ServesWhatWasRequested
<1> QED
  BY <1>1, IndInvHolds, PTL

(* A transition that returns its lease without being served restores the   *)
(* file.  Only seven actions change the lease; the two that commit serve   *)
(* the generation, and in the others IndInv says which document is on disk.*)
THEOREM FailureRestores == Spec => FailureRestoresFile
<1> DEFINE Returned ==
      (/\ Up /\ Up' /\ lease # NoLease /\ lease' = NoLease
       /\ served'.id # n /\ ~late /\ ~damaged) => file' = rev
<1>1. ASSUME IndInv, Next PROVE Returned
  <2> SUFFICES ASSUME Up, lease # NoLease, lease' # lease, served'.id # n,
                      ~late, ~damaged
               PROVE  file' = rev
    OBVIOUS
  <2>1. ModeInv /\ LeaseInv /\ JobInv /\ Running
    BY <1>1 DEF IndInv, Running, Up
  <2>2. CASE Boot \/ FinishStartup \/ Stop \/ Exit \/ Crash \/ HistoryBegin
             \/ HistoryEnd \/ PreseedTimeout \/ AdminStep \/ Fault
    BY <2>2 DEF Boot, FinishStartup, PersistMigration, Stop, Exit, Crash,
        HistoryBegin, HistoryEnd, PreseedTimeout, AdminStep, AdminRead,
        RequestJob, AdminStage, StageDraft, RequestAssert, Fault,
        CollectorDies, EndBeforeCommit, WriteFailsLate, SwitchFile, StepFails,
        RestoreFails, Up
  <2>3. CASE OrphanRuns
    BY <2>1, <2>3 DEF OrphanRuns, MarkRuntimeApplied, ModeInv
  <2>4. CASE JobStep
    <3>1. CASE Restore
      BY <2>1, <3>1 DEF Restore, RestoreTransition, LeaseInv, Held
    <3>2. CASE FinishRollback
      BY <2>1, <3>2 DEF FinishRollback, AbortTransition, LeaseInv, Held
    <3>3. CASE SwitchAndCommit
      BY <3>3 DEF SwitchAndCommit
    <3>4. CASE ConfirmAndCommit
      BY <2>1, <3>4 DEF ConfirmAndCommit, JobInv
    <3>5. CASE CaptureLease
      BY <3>5 DEF CaptureLease, CaptureTransition
    <3>6. CASE WriteFile \/ MarkApplied \/ Remark
      BY <3>6 DEF WriteFile, SwitchFile, MarkApplied, MarkRuntimeApplied,
                  Remark
    <3> QED
      BY <2>4, <3>1, <3>2, <3>3, <3>4, <3>5, <3>6
      DEF JobStep, Validate, TargetChanged, ChooseHandoff, AcquireLock,
          LeaseConflict, PrepareState, CandidateStarted, CandidateFailed,
          VerifyActive, Reconcile, HandoffRefused, PublishReconciled,
          RetireOld, CancelCommit, Unreconcile, StopCandidate,
          AbandonRollback, EndBeforeCommit, EndJob
  <2> QED
    BY <1>1, <2>2, <2>3, <2>4 DEF Next
<1>2. ASSUME IndInv, [Next]_vars PROVE [Returned]_vars
  BY <1>1, <1>2
<1> QED
  BY <1>2, IndInvHolds, PTL DEF Spec, FailureRestoresFile

-----------------------------------------------------------------------------
(***************************************************************************)
(* Which collector can publish, what a settled service looks like, what a  *)
(* job's outcome means, and that the activation implements AtomicCatalog.  *)
(*                                                                         *)
(* This rests on IndInv, which follows the file and its lease, and on what *)
(* SwitchInv adds to it, again by pc: where the served generation stands   *)
(* between the previous one and the target, which collectors may run and   *)
(* under which ids they publish, and, as long as no rollback step failed,  *)
(* that only the installed one runs.                                       *)
(***************************************************************************)

BeforeCandidate == PreCommit \cup {"lease", "leased"}
BeforeSwitch == {"start", "write", "written", "mark", "marked"}
Reconciling == {"reconciled", "confirm"}

(* Until the switch, and again after a failure, the generation that was    *)
(* served when the commit began is served.                                 *)
ServedInv ==
    /\ pc \in {"lock", "lease"} \cup BeforeWrite
             \cup (AfterWrite \ {"confirm"}) \cup Unwinding => served = prev
    /\ pc \in {"confirm", "retire"} => served = [id |-> n, gen |-> target]
    /\ orphan.call \in {"restore", "unreconcile"} =>
         /\ served = prev /\ mode = "stopping" /\ pc \in {"audit", "idle"}
    /\ pc \in {"audit", "idle"} /\ n > 0 =>
         /\ outcome = "succeeded" => served = [id |-> n, gen |-> target]
         /\ outcome = "failed" => served.id # n

(* The running collectors and the ids under which they publish. *)
CollectorInv ==
    /\ \A o \in live : o <= n /\ pub[o] <= n /\ (pub[o] = served.id => o = coordinator)
    /\ pc \in BeforeCandidate => \A o \in live : o < n /\ pub[o] < n
    /\ coordinator <= n /\ (pc \in BeforeCandidate => coordinator < n)
    /\ ~background => live = {} /\ coordinator = NoCoordinator
    /\ pc \in {"lock"} \cup InCommit => (handoff # "disabled") = background
    /\ pc \in {"lock"} \cup (InCommit \ {"retire"}) => coordinator = prevCoordinator
    /\ pc \in InCommit \ {"retire"} =>
         /\ n \in live => handoff = "reconnected" /\ pub[n] = n
         /\ \A o \in live : pub[o] = prev.id => o = prevCoordinator
    /\ pc \in BeforeSwitch =>
         /\ handoff = "reconnected" => pub[n] = n
         /\ \A o \in live : o # n => pub[o] < n
    /\ pc \in Reconciling \cup {"unreconcile"} =>
         handoff = "reconciled" /\ prevCoordinator \in Ids /\ adopted
    /\ pc \in Reconciling => pub[prevCoordinator] = n /\ \A o \in live : o # prevCoordinator => pub[o] < n
    /\ pc \in PreCommit \cup (InCommit \ (Reconciling \cup {"unreconcile"})) => ~adopted
    /\ pc \in {"lock"} \cup InCommit /\ handoff \in {"reused", "reconciled"} =>
         prevCoordinator \in Ids
    /\ pc = "retire" /\ handoff # "reconnected" => coordinator = prevCoordinator
    /\ orphan.call = "unreconcile" => coordinator = prevCoordinator /\ prevCoordinator \in Ids

(* As long as no rollback or retirement step has failed. *)
QuietInv ==
    /\ pc \notin InCommit => lock # "commit"
    /\ ~damaged =>
         /\ pc \in {"idle"} \cup BeforeCandidate \cup Reconciling => live \subseteq {coordinator}
         /\ pc \in {"audit", "unreconcile"} \cup BeforeSwitch \cup Unwinding =>
              live \subseteq {coordinator, n}
         /\ pc = "retire" =>
              IF handoff = "reconnected" THEN live \subseteq {prevCoordinator, coordinator}
                                         ELSE live \subseteq {coordinator}
         /\ coordinator # NoCoordinator =>
              /\ pc \notin Reconciling \cup {"unreconcile"} => pub[coordinator] = served.id
              /\ pc \in Reconciling => pub[coordinator] = n
    /\ ~damaged /\ ~late =>
         /\ pc \in {"idle", "audit", "retire", "remark", "lease"} \cup PreCommit =>
              file.active = served.gen
         /\ pc \in BeforeWrite \cup AfterWrite \cup {"restore"} => token.active = prev.gen
         /\ pc \in {"unreconcile", "stopcand", "abort"} =>
              IF token # NoFile THEN token.active = prev.gen ELSE file.active = served.gen

SwitchInv == Running => ServedInv /\ CollectorInv /\ QuietInv

USE DEF IndInv, TypeOK, Running, Held, BeforeWrite, AfterWrite,
        PreCommit, InCommit, Interruptible, Unwinding,
        BeforeCandidate, BeforeSwitch, Reconciling,
        Up, Resumes, Keep, NoLease, NoCall, NoCoordinator,
        storeVars, procVars, adminVars, jobVars, boundVars

(* Boot keeps the invariant. *)
LEMMA BootSwitch ==
  ASSUME IndInv, SwitchInv, Boot PROVE SwitchInv'
<1>1. (Running => ServedInv)'
  BY NoFileAssumption DEF StoreTypeOK, ProcessTypeOK, JobTypeOK,
      CommitTypeOK, FlagTypeOK, SwitchInv, ServedInv, LeaseInv, JobInv,
      ModeInv, Ids, Boot
<1>2. (Running => CollectorInv)'
  BY BoundsAssumption, SMTT(30) DEF StoreTypeOK, ProcessTypeOK, JobTypeOK,
      CommitTypeOK, FlagTypeOK, SwitchInv, ServedInv, CollectorInv, JobInv,
      Ids, Boot
<1>3. (Running => QuietInv)'
  <2>1. /\ 0 \in Ids /\ served' = [id |-> 0, gen |-> file.active] /\ file' = file
        /\ pc' = "idle" /\ lock' = "free" /\ pub' = [o \in Ids |-> o]
        /\ \/ coordinator' = 0 /\ live' = {0}
           \/ coordinator' = -1 /\ live' = {}
    BY BoundsAssumption DEF Boot, Ids
  <2>2. served'.id = 0 /\ served'.gen = file'.active /\ pub'[0] = 0
    BY <2>1
  <2> QED BY <2>1, <2>2 DEF QuietInv
<1> QED BY <1>1, <1>2, <1>3 DEF SwitchInv

(* FinishStartup keeps the invariant. *)
LEMMA FinishStartupSwitch ==
  ASSUME IndInv, SwitchInv, FinishStartup PROVE SwitchInv'
<1>1. (Running => ServedInv)'
  BY NoFileAssumption DEF StoreTypeOK, ProcessTypeOK, JobTypeOK,
      CommitTypeOK, FlagTypeOK, SwitchInv, ServedInv, LeaseInv, JobInv,
      ModeInv, Ids, FinishStartup, PersistMigration
<1>2. (Running => CollectorInv)'
  BY BoundsAssumption DEF StoreTypeOK, ProcessTypeOK, JobTypeOK,
      CommitTypeOK, FlagTypeOK, SwitchInv, ServedInv, CollectorInv, JobInv,
      Ids, FinishStartup, PersistMigration
<1>3. (Running => QuietInv)'
  BY NoFileAssumption DEF StoreTypeOK, ProcessTypeOK, JobTypeOK,
      CommitTypeOK, FlagTypeOK, SwitchInv, ServedInv, CollectorInv,
      QuietInv, LeaseInv, JobInv, ModeInv, Ids, FinishStartup,
      PersistMigration
<1> QED BY <1>1, <1>2, <1>3 DEF SwitchInv

(* Stop keeps the invariant. *)
LEMMA StopSwitch ==
  ASSUME IndInv, SwitchInv, Stop PROVE SwitchInv'
<1>1. (Running => ServedInv)'
  BY NoFileAssumption DEF StoreTypeOK, ProcessTypeOK, JobTypeOK,
      CommitTypeOK, FlagTypeOK, SwitchInv, ServedInv, LeaseInv, JobInv,
      ModeInv, Ids, Stop
<1>2. (Running => CollectorInv)'
  BY BoundsAssumption DEF StoreTypeOK, ProcessTypeOK, JobTypeOK,
      CommitTypeOK, FlagTypeOK, SwitchInv, ServedInv, CollectorInv, JobInv,
      Ids, Stop
<1>3. (Running => QuietInv)'
  BY NoFileAssumption DEF StoreTypeOK, ProcessTypeOK, JobTypeOK,
      CommitTypeOK, FlagTypeOK, SwitchInv, ServedInv, CollectorInv,
      QuietInv, LeaseInv, JobInv, ModeInv, Ids, Stop
<1> QED BY <1>1, <1>2, <1>3 DEF SwitchInv

(* Exit keeps the invariant. *)
LEMMA ExitSwitch ==
  ASSUME IndInv, SwitchInv, Exit PROVE SwitchInv'
<1>1. (Running => ServedInv)'
  BY NoFileAssumption DEF StoreTypeOK, ProcessTypeOK, JobTypeOK,
      CommitTypeOK, FlagTypeOK, SwitchInv, ServedInv, LeaseInv, JobInv,
      ModeInv, Ids, Exit
<1>2. (Running => CollectorInv)'
  BY BoundsAssumption DEF StoreTypeOK, ProcessTypeOK, JobTypeOK,
      CommitTypeOK, FlagTypeOK, SwitchInv, ServedInv, CollectorInv, JobInv,
      Ids, Exit
<1>3. (Running => QuietInv)'
  BY NoFileAssumption DEF StoreTypeOK, ProcessTypeOK, JobTypeOK,
      CommitTypeOK, FlagTypeOK, SwitchInv, ServedInv, CollectorInv,
      QuietInv, LeaseInv, JobInv, ModeInv, Ids, Exit
<1> QED BY <1>1, <1>2, <1>3 DEF SwitchInv

(* Crash keeps the invariant. *)
LEMMA CrashSwitch ==
  ASSUME IndInv, SwitchInv, Crash PROVE SwitchInv'
<1>1. (Running => ServedInv)'
  BY NoFileAssumption DEF StoreTypeOK, ProcessTypeOK, JobTypeOK,
      CommitTypeOK, FlagTypeOK, SwitchInv, ServedInv, LeaseInv, JobInv,
      ModeInv, Ids, Crash
<1>2. (Running => CollectorInv)'
  BY BoundsAssumption DEF StoreTypeOK, ProcessTypeOK, JobTypeOK,
      CommitTypeOK, FlagTypeOK, SwitchInv, ServedInv, CollectorInv, JobInv,
      Ids, Crash
<1>3. (Running => QuietInv)'
  BY NoFileAssumption DEF StoreTypeOK, ProcessTypeOK, JobTypeOK,
      CommitTypeOK, FlagTypeOK, SwitchInv, ServedInv, CollectorInv,
      QuietInv, LeaseInv, JobInv, ModeInv, Ids, Crash
<1> QED BY <1>1, <1>2, <1>3 DEF SwitchInv

(* HistoryBegin keeps the invariant. *)
LEMMA HistoryBeginSwitch ==
  ASSUME IndInv, SwitchInv, HistoryBegin PROVE SwitchInv'
<1>1. (Running => ServedInv)'
  BY NoFileAssumption DEF StoreTypeOK, ProcessTypeOK, JobTypeOK,
      CommitTypeOK, FlagTypeOK, SwitchInv, ServedInv, LeaseInv, JobInv,
      ModeInv, Ids, HistoryBegin
<1>2. (Running => CollectorInv)'
  BY BoundsAssumption DEF StoreTypeOK, ProcessTypeOK, JobTypeOK,
      CommitTypeOK, FlagTypeOK, SwitchInv, ServedInv, CollectorInv, JobInv,
      Ids, HistoryBegin
<1>3. (Running => QuietInv)'
  BY NoFileAssumption DEF StoreTypeOK, ProcessTypeOK, JobTypeOK,
      CommitTypeOK, FlagTypeOK, SwitchInv, ServedInv, CollectorInv,
      QuietInv, LeaseInv, JobInv, ModeInv, Ids, HistoryBegin
<1> QED BY <1>1, <1>2, <1>3 DEF SwitchInv

(* HistoryEnd keeps the invariant. *)
LEMMA HistoryEndSwitch ==
  ASSUME IndInv, SwitchInv, HistoryEnd PROVE SwitchInv'
<1>1. (Running => ServedInv)'
  BY NoFileAssumption DEF StoreTypeOK, ProcessTypeOK, JobTypeOK,
      CommitTypeOK, FlagTypeOK, SwitchInv, ServedInv, LeaseInv, JobInv,
      ModeInv, Ids, HistoryEnd
<1>2. (Running => CollectorInv)'
  BY BoundsAssumption DEF StoreTypeOK, ProcessTypeOK, JobTypeOK,
      CommitTypeOK, FlagTypeOK, SwitchInv, ServedInv, CollectorInv, JobInv,
      Ids, HistoryEnd
<1>3. (Running => QuietInv)'
  BY NoFileAssumption DEF StoreTypeOK, ProcessTypeOK, JobTypeOK,
      CommitTypeOK, FlagTypeOK, SwitchInv, ServedInv, CollectorInv,
      QuietInv, LeaseInv, JobInv, ModeInv, Ids, HistoryEnd
<1> QED BY <1>1, <1>2, <1>3 DEF SwitchInv

(* PreseedTimeout keeps the invariant. *)
LEMMA PreseedTimeoutSwitch ==
  ASSUME IndInv, SwitchInv, PreseedTimeout PROVE SwitchInv'
<1>1. (Running => ServedInv)'
  BY NoFileAssumption DEF StoreTypeOK, ProcessTypeOK, JobTypeOK,
      CommitTypeOK, FlagTypeOK, SwitchInv, ServedInv, LeaseInv, JobInv,
      ModeInv, Ids, PreseedTimeout
<1>2. (Running => CollectorInv)'
  BY BoundsAssumption DEF StoreTypeOK, ProcessTypeOK, JobTypeOK,
      CommitTypeOK, FlagTypeOK, SwitchInv, ServedInv, CollectorInv, JobInv,
      Ids, PreseedTimeout
<1>3. (Running => QuietInv)'
  BY NoFileAssumption DEF StoreTypeOK, ProcessTypeOK, JobTypeOK,
      CommitTypeOK, FlagTypeOK, SwitchInv, ServedInv, CollectorInv,
      QuietInv, LeaseInv, JobInv, ModeInv, Ids, PreseedTimeout
<1> QED BY <1>1, <1>2, <1>3 DEF SwitchInv

(* OrphanRuns keeps the invariant. *)
LEMMA OrphanRunsSwitch ==
  ASSUME IndInv, SwitchInv, OrphanRuns PROVE SwitchInv'
<1>0. SUFFICES ASSUME Running PROVE (ServedInv /\ CollectorInv /\ QuietInv)'
  BY DEF SwitchInv, OrphanRuns
<1>v. /\ UNCHANGED <<n, pc, op, rev, target, prev, prevCoordinator, handoff, outcome, token,
                    written, adopted, result, mode, served, coordinator, live, lock, background,
                    damaged, late>>
      /\ orphan'.call = "none"
  BY DEF OrphanRuns
<1>i. ServedInv /\ CollectorInv /\ QuietInv
  BY <1>0 DEF SwitchInv
<1>p. \/ pub' = pub
      \/ /\ orphan.call = "unreconcile" /\ pub' = [pub EXCEPT ![prevCoordinator] = prev.id]
         /\ served = prev /\ pc \in {"audit", "idle"} /\ coordinator = prevCoordinator
         /\ prevCoordinator \in Ids
  BY <1>i DEF OrphanRuns, ServedInv, CollectorInv
<1>q. pub' = pub \/ (pub'[coordinator] = served.id /\ \A o \in Ids : o # coordinator => pub'[o] = pub[o])
  BY <1>p DEF ProcessTypeOK
<1>f. file' = file \/ damaged
  BY DEF OrphanRuns, MarkRuntimeApplied, RestoreTransition, AbortTransition, ModeInv
<1>t. /\ served.id \in Nat /\ n \in Nat /\ live \subseteq Ids /\ Ids \subseteq Nat
      /\ \A o \in Ids : pub[o] \in Nat
      /\ served.id <= n
  BY <1>0, BoundsAssumption, SMTT(30) DEF ProcessTypeOK, JobTypeOK, JobInv, Ids
<1>1. (Running => ServedInv)'
  BY <1>i, <1>v DEF ServedInv
<1>2. (Running => CollectorInv)'
  <2>1. CASE pub' = pub
    BY <1>i, <1>v, <2>1 DEF CollectorInv
  <2>2. CASE pub' # pub
    <3>1. pc \in {"audit", "idle"}
      BY <1>p, <2>2
    <3>2. \A o \in live : o <= n /\ pub'[o] <= n /\ (pub'[o] = served.id => o = coordinator)
      BY <1>i, <1>q, <1>t, <2>2 DEF CollectorInv
    <3>3. coordinator <= n /\ (~background => live = {} /\ coordinator = -1)
      BY <1>i DEF CollectorInv
    <3> QED BY <1>v, <3>1, <3>2, <3>3 DEF CollectorInv
  <2> QED BY <2>1, <2>2
<1>3. (Running => QuietInv)'
  <2>1. CASE pub' = pub
    BY <1>i, <1>v, <1>f, <2>1 DEF QuietInv
  <2>2. CASE pub' # pub
    <3>1. pc \in {"audit", "idle"} /\ pub'[coordinator] = served.id
      BY <1>p, <1>q, <2>2
    <3> QED BY <1>i, <1>v, <1>f, <3>1 DEF QuietInv
  <2> QED BY <2>1, <2>2
<1> QED BY <1>0, <1>v, <1>1, <1>2, <1>3 DEF SwitchInv

(* Validate keeps the invariant. *)
LEMMA ValidateSwitch ==
  ASSUME IndInv, SwitchInv, Validate PROVE SwitchInv'
<1>1. (Running => ServedInv)'
  BY NoFileAssumption DEF StoreTypeOK, ProcessTypeOK, JobTypeOK,
      CommitTypeOK, FlagTypeOK, SwitchInv, ServedInv, LeaseInv, JobInv,
      ModeInv, Ids, Validate, RuntimeTargetHolds, RevisionMatches
<1>2. (Running => CollectorInv)'
  BY BoundsAssumption DEF StoreTypeOK, ProcessTypeOK, JobTypeOK,
      CommitTypeOK, FlagTypeOK, SwitchInv, ServedInv, CollectorInv, JobInv,
      Ids, Validate, RuntimeTargetHolds, RevisionMatches
<1>3. (Running => QuietInv)'
  BY NoFileAssumption DEF StoreTypeOK, ProcessTypeOK, JobTypeOK,
      CommitTypeOK, FlagTypeOK, SwitchInv, ServedInv, CollectorInv,
      QuietInv, LeaseInv, JobInv, ModeInv, Ids, Validate,
      RuntimeTargetHolds, RevisionMatches
<1> QED BY <1>1, <1>2, <1>3 DEF SwitchInv

(* TargetChanged keeps the invariant. *)
LEMMA TargetChangedSwitch ==
  ASSUME IndInv, SwitchInv, TargetChanged PROVE SwitchInv'
<1>1. (Running => ServedInv)'
  BY NoFileAssumption DEF StoreTypeOK, ProcessTypeOK, JobTypeOK,
      CommitTypeOK, FlagTypeOK, SwitchInv, ServedInv, LeaseInv, JobInv,
      ModeInv, Ids, TargetChanged, EndBeforeCommit
<1>2. (Running => CollectorInv)'
  BY BoundsAssumption DEF StoreTypeOK, ProcessTypeOK, JobTypeOK,
      CommitTypeOK, FlagTypeOK, SwitchInv, ServedInv, CollectorInv, JobInv,
      Ids, TargetChanged, EndBeforeCommit
<1>3. (Running => QuietInv)'
  BY NoFileAssumption DEF StoreTypeOK, ProcessTypeOK, JobTypeOK,
      CommitTypeOK, FlagTypeOK, SwitchInv, ServedInv, CollectorInv,
      QuietInv, LeaseInv, JobInv, ModeInv, Ids, TargetChanged,
      EndBeforeCommit
<1> QED BY <1>1, <1>2, <1>3 DEF SwitchInv

(* AcquireLock keeps the invariant. *)
LEMMA AcquireLockSwitch ==
  ASSUME IndInv, SwitchInv, AcquireLock PROVE SwitchInv'
<1>1. (Running => ServedInv)'
  BY NoFileAssumption DEF StoreTypeOK, ProcessTypeOK, JobTypeOK,
      CommitTypeOK, FlagTypeOK, SwitchInv, ServedInv, LeaseInv, JobInv,
      ModeInv, Ids, AcquireLock
<1>2. (Running => CollectorInv)'
  <2>1. /\ UNCHANGED <<n, prev, prevCoordinator, handoff, served, coordinator, live, pub, background,
                      orphan, adopted>>
        /\ pc = "lock" /\ pc' = "lease"
    BY DEF AcquireLock
  <2>2. served = prev /\ ServedInv /\ CollectorInv
    BY <2>1 DEF SwitchInv, ServedInv, AcquireLock
  <2>3. ~adopted
    BY <2>1, <2>2 DEF CollectorInv
  <2>4. n \notin live
    BY <2>1, <2>2, BoundsAssumption DEF CollectorInv, JobTypeOK, Ids
  <2> QED BY <2>1, <2>2, <2>3, <2>4 DEF CollectorInv
<1>3. (Running => QuietInv)'
  BY NoFileAssumption DEF StoreTypeOK, ProcessTypeOK, JobTypeOK,
      CommitTypeOK, FlagTypeOK, SwitchInv, ServedInv, CollectorInv,
      QuietInv, LeaseInv, JobInv, ModeInv, Ids, AcquireLock
<1> QED BY <1>1, <1>2, <1>3 DEF SwitchInv

(* CaptureLease keeps the invariant. *)
LEMMA CaptureLeaseSwitch ==
  ASSUME IndInv, SwitchInv, CaptureLease PROVE SwitchInv'
<1>1. (Running => ServedInv)'
  BY NoFileAssumption DEF StoreTypeOK, ProcessTypeOK, JobTypeOK,
      CommitTypeOK, FlagTypeOK, SwitchInv, ServedInv, LeaseInv, JobInv,
      ModeInv, Ids, CaptureLease, CaptureTransition, RevisionMatches
<1>2. (Running => CollectorInv)'
  BY BoundsAssumption DEF StoreTypeOK, ProcessTypeOK, JobTypeOK,
      CommitTypeOK, FlagTypeOK, SwitchInv, ServedInv, CollectorInv, JobInv,
      Ids, CaptureLease, CaptureTransition, RevisionMatches
<1>3. (Running => QuietInv)'
  BY NoFileAssumption DEF StoreTypeOK, ProcessTypeOK, JobTypeOK,
      CommitTypeOK, FlagTypeOK, SwitchInv, ServedInv, CollectorInv,
      QuietInv, LeaseInv, JobInv, ModeInv, Ids, CaptureLease,
      CaptureTransition, RevisionMatches
<1> QED BY <1>1, <1>2, <1>3 DEF SwitchInv

(* LeaseConflict keeps the invariant. *)
LEMMA LeaseConflictSwitch ==
  ASSUME IndInv, SwitchInv, LeaseConflict PROVE SwitchInv'
<1>1. (Running => ServedInv)'
  BY NoFileAssumption DEF StoreTypeOK, ProcessTypeOK, JobTypeOK,
      CommitTypeOK, FlagTypeOK, SwitchInv, ServedInv, LeaseInv, JobInv,
      ModeInv, Ids, LeaseConflict, Raise
<1>2. (Running => CollectorInv)'
  BY BoundsAssumption DEF StoreTypeOK, ProcessTypeOK, JobTypeOK,
      CommitTypeOK, FlagTypeOK, SwitchInv, ServedInv, CollectorInv, JobInv,
      Ids, LeaseConflict, Raise
<1>3. (Running => QuietInv)'
  BY NoFileAssumption DEF StoreTypeOK, ProcessTypeOK, JobTypeOK,
      CommitTypeOK, FlagTypeOK, SwitchInv, ServedInv, CollectorInv,
      QuietInv, LeaseInv, JobInv, ModeInv, Ids, LeaseConflict, Raise
<1> QED BY <1>1, <1>2, <1>3 DEF SwitchInv

(* PrepareState keeps the invariant. *)
LEMMA PrepareStateSwitch ==
  ASSUME IndInv, SwitchInv, PrepareState PROVE SwitchInv'
<1>0. SUFFICES ASSUME Running PROVE (ServedInv /\ CollectorInv /\ QuietInv)'
  BY DEF SwitchInv, PrepareState
<1>i. ServedInv /\ CollectorInv /\ QuietInv /\ LeaseInv /\ JobInv
  BY <1>0 DEF SwitchInv
<1>t. /\ served.id \in Nat /\ prev.id \in Nat /\ n \in Ids /\ n \in Nat /\ live \subseteq Ids
      /\ Ids \subseteq Nat /\ pub \in [Ids -> Ids] /\ \A o \in Ids : pub[o] \in Nat
      /\ prevCoordinator \in Ids \cup {-1} /\ coordinator \in Ids \cup {-1} /\ -1 \notin Ids
  BY <1>0, BoundsAssumption, SMTT(30) DEF ProcessTypeOK, JobTypeOK, CommitTypeOK, Ids
<1>v. /\ UNCHANGED <<n, prev, prevCoordinator, handoff, served, coordinator, orphan, adopted, mode, background,
                    token, file, lock, late, damaged, outcome, target>>
      /\ pc = "leased"
      /\ \/ /\ handoff = "reconnected" /\ pc' = "start" /\ live' = live \cup {n}
            /\ pub' = [pub EXCEPT ![n] = n]
         \/ handoff # "reconnected" /\ pc' = "write" /\ live' = live /\ pub' = pub
  BY DEF PrepareState
<1>s. /\ served = prev /\ served.id < n /\ coordinator = prevCoordinator /\ ~adopted
      /\ \A o \in live : o < n /\ pub[o] < n /\ (pub[o] = served.id => o = coordinator)
  BY <1>i, <1>v DEF ServedInv, CollectorInv, JobInv
<1>n. n \notin live /\ coordinator # n
  <2>1. n \notin live
    BY <1>s, <1>t
  <2>2. coordinator # n
    BY <1>i, <1>v, <1>t DEF CollectorInv
  <2> QED BY <2>1, <2>2
<1>p. /\ \A o \in live : pub'[o] = pub[o]
      /\ n \in live' => handoff = "reconnected" /\ pub'[n] = n
      /\ handoff = "reconnected" => pub'[n] = n
      /\ coordinator # -1 => pub'[coordinator] = pub[coordinator]
  BY <1>n, <1>t, <1>v
<1>1. (Running => ServedInv)'
  BY <1>i, <1>v DEF ServedInv
<1>2. (Running => CollectorInv)'
  <2>1. \A o \in live' : /\ o <= n /\ pub'[o] <= n /\ (o # n => pub'[o] < n)
                         /\ pub'[o] = served.id => o = coordinator
    <3> SUFFICES ASSUME NEW o \in live'
                 PROVE  /\ o <= n /\ pub'[o] <= n /\ (o # n => pub'[o] < n)
                        /\ pub'[o] = served.id => o = coordinator
      OBVIOUS
    <3>1. CASE o \in live
      BY <1>p, <1>s, <1>t, <3>1
    <3>2. CASE o \notin live
      <4>1. o = n /\ pub'[o] = n
        BY <1>v, <1>p, <3>2
      <4> QED BY <4>1, <1>s, <1>t
    <3> QED BY <3>1, <3>2
  <2> QED BY <2>1, <1>i, <1>v, <1>s, <1>p DEF CollectorInv
<1>3. (Running => QuietInv)'
  <2>1. live' \subseteq live \cup {n}
    BY <1>v
  <2> QED BY <2>1, <1>i, <1>v, <1>p DEF QuietInv
<1> QED BY <1>0, <1>v, <1>1, <1>2, <1>3 DEF SwitchInv

(* CandidateStarted keeps the invariant. *)
LEMMA CandidateStartedSwitch ==
  ASSUME IndInv, SwitchInv, CandidateStarted PROVE SwitchInv'
<1>1. (Running => ServedInv)'
  BY NoFileAssumption DEF StoreTypeOK, ProcessTypeOK, JobTypeOK,
      CommitTypeOK, FlagTypeOK, SwitchInv, ServedInv, LeaseInv, JobInv,
      ModeInv, Ids, CandidateStarted
<1>2. (Running => CollectorInv)'
  BY BoundsAssumption DEF StoreTypeOK, ProcessTypeOK, JobTypeOK,
      CommitTypeOK, FlagTypeOK, SwitchInv, ServedInv, CollectorInv, JobInv,
      Ids, CandidateStarted
<1>3. (Running => QuietInv)'
  BY NoFileAssumption DEF StoreTypeOK, ProcessTypeOK, JobTypeOK,
      CommitTypeOK, FlagTypeOK, SwitchInv, ServedInv, CollectorInv,
      QuietInv, LeaseInv, JobInv, ModeInv, Ids, CandidateStarted
<1> QED BY <1>1, <1>2, <1>3 DEF SwitchInv

(* CandidateFailed keeps the invariant. *)
LEMMA CandidateFailedSwitch ==
  ASSUME IndInv, SwitchInv, CandidateFailed PROVE SwitchInv'
<1>1. (Running => ServedInv)'
  BY NoFileAssumption DEF StoreTypeOK, ProcessTypeOK, JobTypeOK,
      CommitTypeOK, FlagTypeOK, SwitchInv, ServedInv, LeaseInv, JobInv,
      ModeInv, Ids, CandidateFailed, Raise
<1>2. (Running => CollectorInv)'
  BY BoundsAssumption DEF StoreTypeOK, ProcessTypeOK, JobTypeOK,
      CommitTypeOK, FlagTypeOK, SwitchInv, ServedInv, CollectorInv, JobInv,
      Ids, CandidateFailed, Raise
<1>3. (Running => QuietInv)'
  BY NoFileAssumption DEF StoreTypeOK, ProcessTypeOK, JobTypeOK,
      CommitTypeOK, FlagTypeOK, SwitchInv, ServedInv, CollectorInv,
      QuietInv, LeaseInv, JobInv, ModeInv, Ids, CandidateFailed, Raise
<1> QED BY <1>1, <1>2, <1>3 DEF SwitchInv

(* WriteFile keeps the invariant. *)
LEMMA WriteFileSwitch ==
  ASSUME IndInv, SwitchInv, WriteFile PROVE SwitchInv'
<1>1. (Running => ServedInv)'
  BY NoFileAssumption DEF StoreTypeOK, ProcessTypeOK, JobTypeOK,
      CommitTypeOK, FlagTypeOK, SwitchInv, ServedInv, LeaseInv, JobInv,
      ModeInv, Ids, WriteFile, SwitchFile, RevisionMatches, Switched,
      Target, MayWrite
<1>2. (Running => CollectorInv)'
  BY BoundsAssumption DEF StoreTypeOK, ProcessTypeOK, JobTypeOK,
      CommitTypeOK, FlagTypeOK, SwitchInv, ServedInv, CollectorInv, JobInv,
      Ids, WriteFile, SwitchFile, RevisionMatches, Switched, Target,
      MayWrite
<1>3. (Running => QuietInv)'
  BY NoFileAssumption DEF StoreTypeOK, ProcessTypeOK, JobTypeOK,
      CommitTypeOK, FlagTypeOK, SwitchInv, ServedInv, CollectorInv,
      QuietInv, LeaseInv, JobInv, ModeInv, Ids, WriteFile, SwitchFile,
      RevisionMatches, Switched, Target, MayWrite
<1> QED BY <1>1, <1>2, <1>3 DEF SwitchInv

(* VerifyActive keeps the invariant. *)
LEMMA VerifyActiveSwitch ==
  ASSUME IndInv, SwitchInv, VerifyActive PROVE SwitchInv'
<1>1. (Running => ServedInv)'
  BY NoFileAssumption DEF StoreTypeOK, ProcessTypeOK, JobTypeOK,
      CommitTypeOK, FlagTypeOK, SwitchInv, ServedInv, LeaseInv, JobInv,
      ModeInv, Ids, VerifyActive
<1>2. (Running => CollectorInv)'
  BY BoundsAssumption DEF StoreTypeOK, ProcessTypeOK, JobTypeOK,
      CommitTypeOK, FlagTypeOK, SwitchInv, ServedInv, CollectorInv, JobInv,
      Ids, VerifyActive
<1>3. (Running => QuietInv)'
  BY NoFileAssumption DEF StoreTypeOK, ProcessTypeOK, JobTypeOK,
      CommitTypeOK, FlagTypeOK, SwitchInv, ServedInv, CollectorInv,
      QuietInv, LeaseInv, JobInv, ModeInv, Ids, VerifyActive
<1> QED BY <1>1, <1>2, <1>3 DEF SwitchInv

(* MarkApplied keeps the invariant. *)
LEMMA MarkAppliedSwitch ==
  ASSUME IndInv, SwitchInv, MarkApplied PROVE SwitchInv'
<1>1. (Running => ServedInv)'
  BY NoFileAssumption DEF StoreTypeOK, ProcessTypeOK, JobTypeOK,
      CommitTypeOK, FlagTypeOK, SwitchInv, ServedInv, LeaseInv, JobInv,
      ModeInv, Ids, MarkApplied, MarkRuntimeApplied
<1>2. (Running => CollectorInv)'
  BY BoundsAssumption DEF StoreTypeOK, ProcessTypeOK, JobTypeOK,
      CommitTypeOK, FlagTypeOK, SwitchInv, ServedInv, CollectorInv, JobInv,
      Ids, MarkApplied, MarkRuntimeApplied
<1>3. (Running => QuietInv)'
  BY NoFileAssumption DEF StoreTypeOK, ProcessTypeOK, JobTypeOK,
      CommitTypeOK, FlagTypeOK, SwitchInv, ServedInv, CollectorInv,
      QuietInv, LeaseInv, JobInv, ModeInv, Ids, MarkApplied,
      MarkRuntimeApplied
<1> QED BY <1>1, <1>2, <1>3 DEF SwitchInv

(* SwitchAndCommit keeps the invariant. *)
LEMMA SwitchAndCommitSwitch ==
  ASSUME IndInv, SwitchInv, SwitchAndCommit PROVE SwitchInv'
<1>0. SUFFICES ASSUME Running PROVE (ServedInv /\ CollectorInv /\ QuietInv)'
  BY DEF SwitchInv, SwitchAndCommit
<1>i. ServedInv /\ CollectorInv /\ QuietInv /\ LeaseInv /\ JobInv
  BY <1>0 DEF SwitchInv
<1>t. /\ served.id \in Nat /\ prev.id \in Nat /\ n \in Ids /\ n \in Nat /\ live \subseteq Ids
      /\ Ids \subseteq Nat /\ pub \in [Ids -> Ids] /\ \A o \in Ids : pub[o] \in Nat
      /\ prevCoordinator \in Ids \cup {-1} /\ coordinator \in Ids \cup {-1} /\ -1 \notin Ids
  BY <1>0, BoundsAssumption, SMTT(30) DEF ProcessTypeOK, JobTypeOK, CommitTypeOK, Ids
<1>v. /\ UNCHANGED <<n, prev, prevCoordinator, handoff, orphan, adopted, mode, background, live, file, late,
                    damaged, target, cancel>>
      /\ pc = "marked" /\ handoff # "reconciled" /\ served' = [id |-> n, gen |-> target]
      /\ \/ handoff = "reused" /\ pub' = [pub EXCEPT ![coordinator] = n] /\ coordinator' = coordinator
         \/ handoff = "reconnected" /\ coordinator' = n /\ pub' = pub
         \/ handoff = "disabled" /\ coordinator' = -1 /\ pub' = pub
      /\ \/ /\ handoff = "reconnected" /\ prevCoordinator # -1 /\ pc' = "retire"
         \/ /\ handoff = "reconnected" => prevCoordinator = -1
            /\ pc' = "audit" /\ outcome' = "succeeded" /\ lock' = "free"
  BY DEF SwitchAndCommit
<1>w. served'.id = n /\ served'.gen = target /\ pc' \in {"retire", "audit"}
  BY <1>v
<1>s. /\ served = prev /\ coordinator = prevCoordinator /\ ~adopted
      /\ n \in live => handoff = "reconnected"
      /\ handoff = "reconnected" => pub[n] = n
      /\ handoff = "reused" => coordinator \in Ids
      /\ \A o \in live : o <= n /\ pub[o] <= n /\ (o # n => pub[o] < n)
      /\ ~damaged => live \subseteq {coordinator, n}
      /\ orphan.call \notin {"restore", "unreconcile"}
  BY <1>i, <1>v DEF ServedInv, CollectorInv, QuietInv
<1>p. /\ \A o \in live : pub'[o] = IF handoff = "reused" /\ o = coordinator THEN n ELSE pub[o]
      /\ coordinator' # -1 => pub'[coordinator'] = n
  BY <1>v, <1>s, <1>t
<1>1. (Running => ServedInv)'
  BY <1>i, <1>v, <1>w, <1>s, <1>t DEF ServedInv
<1>2. (Running => CollectorInv)'
  <2>1. ASSUME NEW o \in live
        PROVE  o <= n /\ pub'[o] <= n /\ (pub'[o] = n => o = coordinator')
    BY <2>1, <1>v, <1>s, <1>p, <1>t
  <2>2. /\ coordinator' <= n /\ (~background => live = {} /\ coordinator' = -1)
        /\ (handoff # "disabled") = background
    BY <1>i, <1>v, <1>t DEF CollectorInv, FlagTypeOK, JobTypeOK, Handoffs
  <2> QED BY <2>1, <2>2, <1>v, <1>w, <1>s DEF CollectorInv
<1>3. (Running => QuietInv)'
  <2>1. ~damaged /\ ~late => file.active = target
    BY <1>i, <1>v, NoFileAssumption DEF LeaseInv, JobInv, Switched, Target
  <2>2. ~damaged /\ pc' = "audit" => live \subseteq {coordinator', n}
    <3>1. CASE handoff = "disabled"
      <4>1. live = {}
        BY <1>i, <1>v, <3>1 DEF CollectorInv, FlagTypeOK
      <4> QED BY <4>1
    <3> QED BY <1>v, <1>s, <1>t, <3>1
  <2> QED BY <2>1, <2>2, <1>v, <1>w, <1>s, <1>p DEF QuietInv
<1> QED BY <1>0, <1>v, <1>1, <1>2, <1>3 DEF SwitchInv

(* Reconcile keeps the invariant. *)
LEMMA ReconcileSwitch ==
  ASSUME IndInv, SwitchInv, Reconcile PROVE SwitchInv'
<1>0. SUFFICES ASSUME Running PROVE (ServedInv /\ CollectorInv /\ QuietInv)'
  BY DEF SwitchInv, Reconcile
<1>i. ServedInv /\ CollectorInv /\ QuietInv /\ LeaseInv /\ JobInv
  BY <1>0 DEF SwitchInv
<1>t. /\ served.id \in Nat /\ prev.id \in Nat /\ n \in Ids /\ n \in Nat /\ live \subseteq Ids
      /\ Ids \subseteq Nat /\ pub \in [Ids -> Ids] /\ \A o \in Ids : pub[o] \in Nat
      /\ prevCoordinator \in Ids \cup {-1} /\ coordinator \in Ids \cup {-1} /\ -1 \notin Ids
  BY <1>0, BoundsAssumption, SMTT(30) DEF ProcessTypeOK, JobTypeOK, CommitTypeOK, Ids
<1>v. /\ UNCHANGED <<n, prev, prevCoordinator, handoff, served, coordinator, orphan, mode, background, live, token,
                    file, lock, late, damaged, outcome, target>>
      /\ pc = "marked" /\ handoff = "reconciled" /\ pub' = [pub EXCEPT ![prevCoordinator] = n]
      /\ adopted' = TRUE /\ pc' = "reconciled" /\ prevCoordinator \in live
  BY DEF Reconcile
<1>s. /\ served = prev /\ served.id < n /\ coordinator = prevCoordinator /\ n \notin live
      /\ \A o \in live : /\ o <= n /\ pub[o] <= n /\ (o # n => pub[o] < n)
                         /\ pub[o] = served.id => o = coordinator
  BY <1>i, <1>v DEF ServedInv, CollectorInv, JobInv
<1>p. /\ pub'[prevCoordinator] = n /\ \A o \in live : o # prevCoordinator => pub'[o] = pub[o]
      /\ prevCoordinator \in Ids
  BY <1>v, <1>t
<1>1. (Running => ServedInv)'
  BY <1>i, <1>v DEF ServedInv
<1>2. (Running => CollectorInv)'
  <2>1. ASSUME NEW o \in live
        PROVE  /\ o <= n /\ pub'[o] <= n /\ (o # prevCoordinator => pub'[o] < n)
               /\ pub'[o] = served.id => o = coordinator
    <3>1. o \in Nat /\ pub[o] \in Nat /\ o # n
      BY <1>s, <1>t
    <3>a. /\ o <= n /\ pub[o] < n /\ (pub[o] = served.id => o = coordinator)
          /\ n \in Nat /\ served.id \in Nat /\ served.id < n
      BY <1>s, <1>t, <3>1
    <3>2. CASE o = prevCoordinator
      <4>1. pub'[o] = n
        BY <1>p, <3>2
      <4> QED BY <4>1, <3>a, <3>2
    <3>3. CASE o # prevCoordinator
      <4>1. pub'[o] = pub[o]
        BY <1>p, <3>3
      <4> QED BY <4>1, <3>a, <3>1, <3>3
    <3> QED BY <3>2, <3>3
  <2>2. orphan.call # "unreconcile"
    BY <1>i, <1>v DEF ServedInv
  <2> QED BY <2>1, <2>2, <1>i, <1>v, <1>s, <1>p DEF CollectorInv
<1>3. (Running => QuietInv)'
  <2>1. ~damaged => live \subseteq {coordinator}
    BY <1>i, <1>v, <1>s DEF QuietInv
  <2> QED BY <2>1, <1>i, <1>v, <1>s, <1>p DEF QuietInv
<1> QED BY <1>0, <1>v, <1>1, <1>2, <1>3 DEF SwitchInv

(* HandoffRefused keeps the invariant. *)
LEMMA HandoffRefusedSwitch ==
  ASSUME IndInv, SwitchInv, HandoffRefused PROVE SwitchInv'
<1>1. (Running => ServedInv)'
  BY NoFileAssumption DEF StoreTypeOK, ProcessTypeOK, JobTypeOK,
      CommitTypeOK, FlagTypeOK, SwitchInv, ServedInv, LeaseInv, JobInv,
      ModeInv, Ids, HandoffRefused, Raise
<1>2. (Running => CollectorInv)'
  BY BoundsAssumption DEF StoreTypeOK, ProcessTypeOK, JobTypeOK,
      CommitTypeOK, FlagTypeOK, SwitchInv, ServedInv, CollectorInv, JobInv,
      Ids, HandoffRefused, Raise
<1>3. (Running => QuietInv)'
  BY NoFileAssumption DEF StoreTypeOK, ProcessTypeOK, JobTypeOK,
      CommitTypeOK, FlagTypeOK, SwitchInv, ServedInv, CollectorInv,
      QuietInv, LeaseInv, JobInv, ModeInv, Ids, HandoffRefused, Raise
<1> QED BY <1>1, <1>2, <1>3 DEF SwitchInv

(* PublishReconciled keeps the invariant. *)
LEMMA PublishReconciledSwitch ==
  ASSUME IndInv, SwitchInv, PublishReconciled PROVE SwitchInv'
<1>1. (Running => ServedInv)'
  BY NoFileAssumption DEF StoreTypeOK, ProcessTypeOK, JobTypeOK,
      CommitTypeOK, FlagTypeOK, SwitchInv, ServedInv, LeaseInv, JobInv,
      ModeInv, Ids, PublishReconciled
<1>2. (Running => CollectorInv)'
  BY BoundsAssumption, SMTT(30) DEF StoreTypeOK, ProcessTypeOK, JobTypeOK,
      CommitTypeOK, FlagTypeOK, SwitchInv, ServedInv, CollectorInv, JobInv,
      Ids, PublishReconciled
<1>3. (Running => QuietInv)'
  BY NoFileAssumption DEF StoreTypeOK, ProcessTypeOK, JobTypeOK,
      CommitTypeOK, FlagTypeOK, SwitchInv, ServedInv, CollectorInv,
      QuietInv, LeaseInv, JobInv, ModeInv, Ids, PublishReconciled
<1> QED BY <1>1, <1>2, <1>3 DEF SwitchInv

(* ConfirmAndCommit keeps the invariant. *)
LEMMA ConfirmAndCommitSwitch ==
  ASSUME IndInv, SwitchInv, ConfirmAndCommit PROVE SwitchInv'
<1>1. (Running => ServedInv)'
  BY NoFileAssumption DEF StoreTypeOK, ProcessTypeOK, JobTypeOK,
      CommitTypeOK, FlagTypeOK, SwitchInv, ServedInv, LeaseInv, JobInv,
      ModeInv, Ids, ConfirmAndCommit, CommitTransition
<1>2. (Running => CollectorInv)'
  BY BoundsAssumption DEF StoreTypeOK, ProcessTypeOK, JobTypeOK,
      CommitTypeOK, FlagTypeOK, SwitchInv, ServedInv, CollectorInv, JobInv,
      Ids, ConfirmAndCommit, CommitTransition
<1>3. (Running => QuietInv)'
  <2>0. SUFFICES ASSUME Running PROVE QuietInv'
    BY DEF ConfirmAndCommit
  <2>1. /\ UNCHANGED <<n, prev, prevCoordinator, handoff, served, coordinator, mode, live, pub, file,
                      lock, late, damaged, target>>
        /\ pc = "confirm" /\ pc' = "retire"
    BY DEF ConfirmAndCommit
  <2>2. ServedInv /\ CollectorInv /\ QuietInv /\ LeaseInv /\ JobInv
    BY <2>0 DEF SwitchInv
  <2>3. served.id = n /\ served.gen = target /\ handoff = "reconciled"
    BY <2>1, <2>2 DEF ServedInv, CollectorInv
  <2>4. file.active = target
    BY <2>1, <2>2 DEF LeaseInv, JobInv, Switched, Target
  <2> QED BY <2>1, <2>2, <2>3, <2>4 DEF QuietInv
<1> QED BY <1>1, <1>2, <1>3 DEF SwitchInv

(* RetireOld keeps the invariant. *)
LEMMA RetireOldSwitch ==
  ASSUME IndInv, SwitchInv, RetireOld PROVE SwitchInv'
<1>1. (Running => ServedInv)'
  BY NoFileAssumption DEF StoreTypeOK, ProcessTypeOK, JobTypeOK,
      CommitTypeOK, FlagTypeOK, SwitchInv, ServedInv, LeaseInv, JobInv,
      ModeInv, Ids, RetireOld
<1>2. (Running => CollectorInv)'
  BY BoundsAssumption DEF StoreTypeOK, ProcessTypeOK, JobTypeOK,
      CommitTypeOK, FlagTypeOK, SwitchInv, ServedInv, CollectorInv, JobInv,
      Ids, RetireOld
<1>3. (Running => QuietInv)'
  <2>0. SUFFICES ASSUME Running PROVE QuietInv'
    BY DEF RetireOld
  <2>1. /\ UNCHANGED <<n, prev, prevCoordinator, handoff, served, coordinator, mode, pub, file, late>>
        /\ pc = "retire" /\ pc' = "audit" /\ lock' = "free"
        /\ \/ /\ live' = (IF handoff = "reconnected" THEN live \ {prevCoordinator} ELSE live)
              /\ damaged' = damaged
           \/ damaged' = TRUE
    BY DEF RetireOld
  <2>2. QuietInv
    BY <2>0 DEF SwitchInv
  <2>3. ~damaged' => live' \subseteq {coordinator}
    BY <2>1, <2>2 DEF QuietInv, FlagTypeOK
  <2>4. ~damaged' => ~damaged
    BY <2>1
  <2> QED BY <2>1, <2>2, <2>3, <2>4 DEF QuietInv
<1> QED BY <1>1, <1>2, <1>3 DEF SwitchInv

(* CancelCommit keeps the invariant. *)
LEMMA CancelCommitSwitch ==
  ASSUME IndInv, SwitchInv, CancelCommit PROVE SwitchInv'
<1>1. (Running => ServedInv)'
  BY NoFileAssumption DEF StoreTypeOK, ProcessTypeOK, JobTypeOK,
      CommitTypeOK, FlagTypeOK, SwitchInv, ServedInv, LeaseInv, JobInv,
      ModeInv, Ids, CancelCommit, Raise, Expected
<1>2. (Running => CollectorInv)'
  BY BoundsAssumption DEF StoreTypeOK, ProcessTypeOK, JobTypeOK,
      CommitTypeOK, FlagTypeOK, SwitchInv, ServedInv, CollectorInv, JobInv,
      Ids, CancelCommit, Raise, Expected
<1>3. (Running => QuietInv)'
  BY NoFileAssumption DEF StoreTypeOK, ProcessTypeOK, JobTypeOK,
      CommitTypeOK, FlagTypeOK, SwitchInv, ServedInv, CollectorInv,
      QuietInv, LeaseInv, JobInv, ModeInv, Ids, CancelCommit, Raise,
      Expected
<1> QED BY <1>1, <1>2, <1>3 DEF SwitchInv

(* Unreconcile keeps the invariant. *)
LEMMA UnreconcileSwitch ==
  ASSUME IndInv, SwitchInv, Unreconcile PROVE SwitchInv'
<1>0. SUFFICES ASSUME Running PROVE (ServedInv /\ CollectorInv /\ QuietInv)'
  BY DEF SwitchInv, Unreconcile
<1>i. ServedInv /\ CollectorInv /\ QuietInv /\ LeaseInv /\ JobInv
  BY <1>0 DEF SwitchInv
<1>t. /\ served.id \in Nat /\ prev.id \in Nat /\ n \in Ids /\ n \in Nat /\ live \subseteq Ids
      /\ Ids \subseteq Nat /\ pub \in [Ids -> Ids] /\ \A o \in Ids : pub[o] \in Nat
      /\ prevCoordinator \in Ids \cup {-1} /\ coordinator \in Ids \cup {-1} /\ -1 \notin Ids
  BY <1>0, BoundsAssumption, SMTT(30) DEF ProcessTypeOK, JobTypeOK, CommitTypeOK, Ids
<1>v. /\ UNCHANGED <<n, prev, prevCoordinator, handoff, served, coordinator, orphan, mode, background, live, token,
                    file, lock, late, outcome, target>>
      /\ pc = "unreconcile" /\ pc' = "stopcand" /\ adopted' = FALSE
      /\ \/ pub' = [pub EXCEPT ![prevCoordinator] = prev.id] /\ damaged' = damaged
         \/ pub' = pub /\ damaged' = TRUE
  BY DEF Unreconcile
<1>s. /\ served = prev /\ prev.id < n /\ coordinator = prevCoordinator /\ prevCoordinator \in Ids
      /\ handoff = "reconciled" /\ n \notin live
      /\ \A o \in live : o <= n /\ pub[o] <= n /\ (pub[o] = served.id => o = coordinator)
  BY <1>i, <1>v DEF ServedInv, CollectorInv, JobInv
<1>p. /\ \A o \in live : o # prevCoordinator => pub'[o] = pub[o]
      /\ pub'[prevCoordinator] \in {prev.id, pub[prevCoordinator]}
      /\ ~damaged' => ~damaged /\ pub'[prevCoordinator] = prev.id
  BY <1>v, <1>s, <1>t
<1>1. (Running => ServedInv)'
  BY <1>i, <1>v DEF ServedInv
<1>2. (Running => CollectorInv)'
  <2>1. ASSUME NEW o \in live
        PROVE  o <= n /\ pub'[o] <= n /\ (pub'[o] = served.id => o = coordinator)
    BY <2>1, <1>s, <1>p, <1>t
  <2>2. orphan.call # "unreconcile"
    BY <1>i, <1>v DEF ServedInv
  <2>3. /\ coordinator <= n /\ (~background => live = {} /\ coordinator = -1)
        /\ (handoff # "disabled") = background
    BY <1>i, <1>v DEF CollectorInv
  <2> QED BY <2>1, <2>2, <2>3, <1>v, <1>s DEF CollectorInv
<1>3. (Running => QuietInv)'
  BY <1>i, <1>v, <1>s, <1>p DEF QuietInv
<1> QED BY <1>0, <1>v, <1>1, <1>2, <1>3 DEF SwitchInv

(* StopCandidate keeps the invariant. *)
LEMMA StopCandidateSwitch ==
  ASSUME IndInv, SwitchInv, StopCandidate PROVE SwitchInv'
<1>1. (Running => ServedInv)'
  BY NoFileAssumption DEF StoreTypeOK, ProcessTypeOK, JobTypeOK,
      CommitTypeOK, FlagTypeOK, SwitchInv, ServedInv, LeaseInv, JobInv,
      ModeInv, Ids, StopCandidate
<1>2. (Running => CollectorInv)'
  BY BoundsAssumption, ZenonT(60) DEF StoreTypeOK, ProcessTypeOK, JobTypeOK,
      CommitTypeOK, FlagTypeOK, SwitchInv, ServedInv, CollectorInv, JobInv,
      Ids, StopCandidate
<1>3. (Running => QuietInv)'
  BY NoFileAssumption DEF StoreTypeOK, ProcessTypeOK, JobTypeOK,
      CommitTypeOK, FlagTypeOK, SwitchInv, ServedInv, CollectorInv,
      QuietInv, LeaseInv, JobInv, ModeInv, Ids, StopCandidate
<1> QED BY <1>1, <1>2, <1>3 DEF SwitchInv

(* Restore keeps the invariant. *)
LEMMA RestoreSwitch ==
  ASSUME IndInv, SwitchInv, Restore PROVE SwitchInv'
<1>1. (Running => ServedInv)'
  BY NoFileAssumption DEF StoreTypeOK, ProcessTypeOK, JobTypeOK,
      CommitTypeOK, FlagTypeOK, SwitchInv, ServedInv, LeaseInv, JobInv,
      ModeInv, Ids, Restore, RestoreTransition
<1>2. (Running => CollectorInv)'
  BY BoundsAssumption DEF StoreTypeOK, ProcessTypeOK, JobTypeOK,
      CommitTypeOK, FlagTypeOK, SwitchInv, ServedInv, CollectorInv, JobInv,
      Ids, Restore, RestoreTransition
<1>3. (Running => QuietInv)'
  BY NoFileAssumption DEF StoreTypeOK, ProcessTypeOK, JobTypeOK,
      CommitTypeOK, FlagTypeOK, SwitchInv, ServedInv, CollectorInv,
      QuietInv, LeaseInv, JobInv, ModeInv, Ids, Restore, RestoreTransition
<1> QED BY <1>1, <1>2, <1>3 DEF SwitchInv

(* Remark keeps the invariant. *)
LEMMA RemarkSwitch ==
  ASSUME IndInv, SwitchInv, Remark PROVE SwitchInv'
<1>1. (Running => ServedInv)'
  BY NoFileAssumption DEF StoreTypeOK, ProcessTypeOK, JobTypeOK,
      CommitTypeOK, FlagTypeOK, SwitchInv, ServedInv, LeaseInv, JobInv,
      ModeInv, Ids, Remark, MarkRuntimeApplied
<1>2. (Running => CollectorInv)'
  BY BoundsAssumption DEF StoreTypeOK, ProcessTypeOK, JobTypeOK,
      CommitTypeOK, FlagTypeOK, SwitchInv, ServedInv, CollectorInv, JobInv,
      Ids, Remark, MarkRuntimeApplied
<1>3. (Running => QuietInv)'
  BY NoFileAssumption DEF StoreTypeOK, ProcessTypeOK, JobTypeOK,
      CommitTypeOK, FlagTypeOK, SwitchInv, ServedInv, CollectorInv,
      QuietInv, LeaseInv, JobInv, ModeInv, Ids, Remark, MarkRuntimeApplied
<1> QED BY <1>1, <1>2, <1>3 DEF SwitchInv

(* FinishRollback keeps the invariant. *)
LEMMA FinishRollbackSwitch ==
  ASSUME IndInv, SwitchInv, FinishRollback PROVE SwitchInv'
<1>1. (Running => ServedInv)'
  BY NoFileAssumption DEF StoreTypeOK, ProcessTypeOK, JobTypeOK,
      CommitTypeOK, FlagTypeOK, SwitchInv, ServedInv, LeaseInv, JobInv,
      ModeInv, Ids, FinishRollback, AbortTransition
<1>2. (Running => CollectorInv)'
  BY BoundsAssumption DEF StoreTypeOK, ProcessTypeOK, JobTypeOK,
      CommitTypeOK, FlagTypeOK, SwitchInv, ServedInv, CollectorInv, JobInv,
      Ids, FinishRollback, AbortTransition
<1>3. (Running => QuietInv)'
  BY NoFileAssumption DEF StoreTypeOK, ProcessTypeOK, JobTypeOK,
      CommitTypeOK, FlagTypeOK, SwitchInv, ServedInv, CollectorInv,
      QuietInv, LeaseInv, JobInv, ModeInv, Ids, FinishRollback,
      AbortTransition
<1> QED BY <1>1, <1>2, <1>3 DEF SwitchInv

(* AbandonRollback keeps the invariant. *)
LEMMA AbandonRollbackSwitch ==
  ASSUME IndInv, SwitchInv, AbandonRollback PROVE SwitchInv'
<1>1. (Running => ServedInv)'
  BY NoFileAssumption DEF StoreTypeOK, ProcessTypeOK, JobTypeOK,
      CommitTypeOK, FlagTypeOK, SwitchInv, ServedInv, LeaseInv, JobInv,
      ModeInv, Ids, AbandonRollback, Expected
<1>2. (Running => CollectorInv)'
  BY BoundsAssumption DEF StoreTypeOK, ProcessTypeOK, JobTypeOK,
      CommitTypeOK, FlagTypeOK, SwitchInv, ServedInv, CollectorInv, JobInv,
      Ids, AbandonRollback, Expected
<1>3. (Running => QuietInv)'
  BY NoFileAssumption DEF StoreTypeOK, ProcessTypeOK, JobTypeOK,
      CommitTypeOK, FlagTypeOK, SwitchInv, ServedInv, CollectorInv,
      QuietInv, LeaseInv, JobInv, ModeInv, Ids, AbandonRollback, Expected
<1> QED BY <1>1, <1>2, <1>3 DEF SwitchInv

(* EndJob keeps the invariant. *)
LEMMA EndJobSwitch ==
  ASSUME IndInv, SwitchInv, EndJob PROVE SwitchInv'
<1>1. (Running => ServedInv)'
  BY NoFileAssumption DEF StoreTypeOK, ProcessTypeOK, JobTypeOK,
      CommitTypeOK, FlagTypeOK, SwitchInv, ServedInv, LeaseInv, JobInv,
      ModeInv, Ids, EndJob
<1>2. (Running => CollectorInv)'
  BY BoundsAssumption DEF StoreTypeOK, ProcessTypeOK, JobTypeOK,
      CommitTypeOK, FlagTypeOK, SwitchInv, ServedInv, CollectorInv, JobInv,
      Ids, EndJob
<1>3. (Running => QuietInv)'
  BY NoFileAssumption DEF StoreTypeOK, ProcessTypeOK, JobTypeOK,
      CommitTypeOK, FlagTypeOK, SwitchInv, ServedInv, CollectorInv,
      QuietInv, LeaseInv, JobInv, ModeInv, Ids, EndJob
<1> QED BY <1>1, <1>2, <1>3 DEF SwitchInv

(* WriteFailsLate keeps the invariant. *)
LEMMA WriteFailsLateSwitch ==
  ASSUME IndInv, SwitchInv, WriteFailsLate PROVE SwitchInv'
<1>1. (Running => ServedInv)'
  BY NoFileAssumption DEF StoreTypeOK, ProcessTypeOK, JobTypeOK,
      CommitTypeOK, FlagTypeOK, SwitchInv, ServedInv, LeaseInv, JobInv,
      ModeInv, Ids, WriteFailsLate, SwitchFile, RevisionMatches, Switched,
      Target, MayWrite, Raise
<1>2. (Running => CollectorInv)'
  BY BoundsAssumption DEF StoreTypeOK, ProcessTypeOK, JobTypeOK,
      CommitTypeOK, FlagTypeOK, SwitchInv, ServedInv, CollectorInv, JobInv,
      Ids, WriteFailsLate, SwitchFile, RevisionMatches, Switched, Target,
      MayWrite, Raise
<1>3. (Running => QuietInv)'
  BY NoFileAssumption DEF StoreTypeOK, ProcessTypeOK, JobTypeOK,
      CommitTypeOK, FlagTypeOK, SwitchInv, ServedInv, CollectorInv,
      QuietInv, LeaseInv, JobInv, ModeInv, Ids, WriteFailsLate, SwitchFile,
      RevisionMatches, Switched, Target, MayWrite, Raise
<1> QED BY <1>1, <1>2, <1>3 DEF SwitchInv

(* StepFails keeps the invariant. *)
LEMMA StepFailsSwitch ==
  ASSUME IndInv, SwitchInv, StepFails PROVE SwitchInv'
<1>1. (Running => ServedInv)'
  BY NoFileAssumption DEF StoreTypeOK, ProcessTypeOK, JobTypeOK,
      CommitTypeOK, FlagTypeOK, SwitchInv, ServedInv, LeaseInv, JobInv,
      ModeInv, Ids, StepFails, Raise
<1>2. (Running => CollectorInv)'
  BY BoundsAssumption DEF StoreTypeOK, ProcessTypeOK, JobTypeOK,
      CommitTypeOK, FlagTypeOK, SwitchInv, ServedInv, CollectorInv, JobInv,
      Ids, StepFails, Raise
<1>3. (Running => QuietInv)'
  BY NoFileAssumption DEF StoreTypeOK, ProcessTypeOK, JobTypeOK,
      CommitTypeOK, FlagTypeOK, SwitchInv, ServedInv, CollectorInv,
      QuietInv, LeaseInv, JobInv, ModeInv, Ids, StepFails, Raise
<1> QED BY <1>1, <1>2, <1>3 DEF SwitchInv

(* RestoreFails keeps the invariant. *)
LEMMA RestoreFailsSwitch ==
  ASSUME IndInv, SwitchInv, RestoreFails PROVE SwitchInv'
<1>1. (Running => ServedInv)'
  BY NoFileAssumption DEF StoreTypeOK, ProcessTypeOK, JobTypeOK,
      CommitTypeOK, FlagTypeOK, SwitchInv, ServedInv, LeaseInv, JobInv,
      ModeInv, Ids, RestoreFails
<1>2. (Running => CollectorInv)'
  BY BoundsAssumption DEF StoreTypeOK, ProcessTypeOK, JobTypeOK,
      CommitTypeOK, FlagTypeOK, SwitchInv, ServedInv, CollectorInv, JobInv,
      Ids, RestoreFails
<1>3. (Running => QuietInv)'
  BY NoFileAssumption DEF StoreTypeOK, ProcessTypeOK, JobTypeOK,
      CommitTypeOK, FlagTypeOK, SwitchInv, ServedInv, CollectorInv,
      QuietInv, LeaseInv, JobInv, ModeInv, Ids, RestoreFails
<1> QED BY <1>1, <1>2, <1>3 DEF SwitchInv

(* CollectorDies keeps the invariant. *)
LEMMA CollectorDiesSwitch ==
  ASSUME IndInv, SwitchInv, NEW o \in Ids, CollectorDies(o) PROVE SwitchInv'
<1>1. (Running => ServedInv)'
  BY NoFileAssumption DEF StoreTypeOK, ProcessTypeOK, JobTypeOK,
      CommitTypeOK, FlagTypeOK, SwitchInv, ServedInv, LeaseInv, JobInv,
      ModeInv, Ids, CollectorDies
<1>2. (Running => CollectorInv)'
  BY BoundsAssumption DEF StoreTypeOK, ProcessTypeOK, JobTypeOK,
      CommitTypeOK, FlagTypeOK, SwitchInv, ServedInv, CollectorInv, JobInv,
      Ids, CollectorDies
<1>3. (Running => QuietInv)'
  BY NoFileAssumption DEF StoreTypeOK, ProcessTypeOK, JobTypeOK,
      CommitTypeOK, FlagTypeOK, SwitchInv, ServedInv, CollectorInv,
      QuietInv, LeaseInv, JobInv, ModeInv, Ids, CollectorDies
<1> QED BY <1>1, <1>2, <1>3 DEF SwitchInv

(* AdminRead keeps the invariant. *)
LEMMA AdminReadSwitch ==
  ASSUME IndInv, SwitchInv, NEW a \in Admins, AdminRead(a) PROVE SwitchInv'
<1>1. (Running => ServedInv)'
  BY NoFileAssumption DEF StoreTypeOK, ProcessTypeOK, JobTypeOK,
      CommitTypeOK, FlagTypeOK, SwitchInv, ServedInv, LeaseInv, JobInv,
      ModeInv, Ids, AdminRead
<1>2. (Running => CollectorInv)'
  BY BoundsAssumption DEF StoreTypeOK, ProcessTypeOK, JobTypeOK,
      CommitTypeOK, FlagTypeOK, SwitchInv, ServedInv, CollectorInv, JobInv,
      Ids, AdminRead
<1>3. (Running => QuietInv)'
  BY NoFileAssumption DEF StoreTypeOK, ProcessTypeOK, JobTypeOK,
      CommitTypeOK, FlagTypeOK, SwitchInv, ServedInv, CollectorInv,
      QuietInv, LeaseInv, JobInv, ModeInv, Ids, AdminRead
<1> QED BY <1>1, <1>2, <1>3 DEF SwitchInv

(* AdminStage keeps the invariant. *)
LEMMA AdminStageSwitch ==
  ASSUME IndInv, SwitchInv, NEW a \in Admins, NEW g \in Gens, AdminStage(a, g) PROVE SwitchInv'
<1>1. (Running => ServedInv)'
  BY NoFileAssumption DEF StoreTypeOK, ProcessTypeOK, JobTypeOK,
      CommitTypeOK, FlagTypeOK, SwitchInv, ServedInv, LeaseInv, JobInv,
      ModeInv, Ids, AdminStage, StageDraft, RevisionMatches, MayWrite,
      WithStaged
<1>2. (Running => CollectorInv)'
  BY BoundsAssumption DEF StoreTypeOK, ProcessTypeOK, JobTypeOK,
      CommitTypeOK, FlagTypeOK, SwitchInv, ServedInv, CollectorInv, JobInv,
      Ids, AdminStage, StageDraft, RevisionMatches, MayWrite, WithStaged
<1>3. (Running => QuietInv)'
  BY NoFileAssumption DEF StoreTypeOK, ProcessTypeOK, JobTypeOK,
      CommitTypeOK, FlagTypeOK, SwitchInv, ServedInv, CollectorInv,
      QuietInv, LeaseInv, JobInv, ModeInv, Ids, AdminStage, StageDraft,
      RevisionMatches, MayWrite, WithStaged
<1> QED BY <1>1, <1>2, <1>3 DEF SwitchInv

(* RequestAssert keeps the invariant. *)
LEMMA RequestAssertSwitch ==
  ASSUME IndInv, SwitchInv, NEW a \in Admins, NEW o \in Ops, RequestAssert(a, o) PROVE SwitchInv'
<1>1. (Running => ServedInv)'
  BY NoFileAssumption DEF StoreTypeOK, ProcessTypeOK, JobTypeOK,
      CommitTypeOK, FlagTypeOK, SwitchInv, ServedInv, LeaseInv, JobInv,
      ModeInv, Ids, RequestAssert, RevisionMatches
<1>2. (Running => CollectorInv)'
  BY BoundsAssumption DEF StoreTypeOK, ProcessTypeOK, JobTypeOK,
      CommitTypeOK, FlagTypeOK, SwitchInv, ServedInv, CollectorInv, JobInv,
      Ids, RequestAssert, RevisionMatches
<1>3. (Running => QuietInv)'
  BY NoFileAssumption DEF StoreTypeOK, ProcessTypeOK, JobTypeOK,
      CommitTypeOK, FlagTypeOK, SwitchInv, ServedInv, CollectorInv,
      QuietInv, LeaseInv, JobInv, ModeInv, Ids, RequestAssert,
      RevisionMatches
<1> QED BY <1>1, <1>2, <1>3 DEF SwitchInv

(* RequestJob keeps the invariant. *)
LEMMA RequestJobSwitch ==
  ASSUME IndInv, SwitchInv, NEW a \in Admins, RequestJob(a) PROVE SwitchInv'
<1>1. (Running => ServedInv)'
  BY NoFileAssumption DEF StoreTypeOK, ProcessTypeOK, JobTypeOK,
      CommitTypeOK, FlagTypeOK, SwitchInv, ServedInv, LeaseInv, JobInv,
      ModeInv, Ids, RequestJob, Target
<1>2. (Running => CollectorInv)'
  <2>1. CASE pc = "idle" /\ Target(file, asked[a]) # NoGen /\ n < MaxJobs
    <3>1. /\ UNCHANGED <<served, coordinator, live, pub, orphan, prevCoordinator, mode, background>>
          /\ n' = n + 1 /\ pc' = "validate" /\ adopted' = FALSE
      BY <2>1 DEF RequestJob
    <3>2. n \in Nat /\ live \subseteq Ids /\ Ids \subseteq Nat /\ \A o \in Ids : pub[o] \in Nat
      BY BoundsAssumption DEF ProcessTypeOK, JobTypeOK, Ids
    <3>3. Running => \A o \in live : o <= n /\ pub[o] <= n /\ (pub[o] = served.id => o = coordinator)
      BY DEF SwitchInv, CollectorInv
    <3>4. Running => \A o \in live : o < n + 1 /\ pub[o] < n + 1 /\ o <= n + 1 /\ pub[o] <= n + 1
      BY <3>2, <3>3
    <3>5. Running /\ orphan.call = "unreconcile" => coordinator = prevCoordinator /\ prevCoordinator \in Ids
      BY DEF SwitchInv, CollectorInv
    <3>6. Running => /\ coordinator <= n + 1 /\ coordinator < n + 1
                     /\ ~background => live = {} /\ coordinator = -1
      BY <3>2 DEF SwitchInv, CollectorInv, ProcessTypeOK
    <3> QED BY <3>1, <3>3, <3>4, <3>5, <3>6 DEF CollectorInv
  <2>2. CASE ~(pc = "idle" /\ Target(file, asked[a]) # NoGen /\ n < MaxJobs)
    BY <2>2 DEF RequestJob, SwitchInv, CollectorInv
  <2> QED BY <2>1, <2>2
<1>3. (Running => QuietInv)'
  BY NoFileAssumption DEF StoreTypeOK, ProcessTypeOK, JobTypeOK,
      CommitTypeOK, FlagTypeOK, SwitchInv, ServedInv, CollectorInv,
      QuietInv, LeaseInv, JobInv, ModeInv, Ids, RequestJob, Target
<1> QED BY <1>1, <1>2, <1>3 DEF SwitchInv

(* ChooseHandoff keeps the invariant. *)
LEMMA ChooseHandoffSwitch ==
  ASSUME IndInv, SwitchInv, NEW h \in Handoffs, ChooseHandoff(h) PROVE SwitchInv'
<1>1. (Running => ServedInv)'
  BY NoFileAssumption DEF StoreTypeOK, ProcessTypeOK, JobTypeOK,
      CommitTypeOK, FlagTypeOK, SwitchInv, ServedInv, LeaseInv, JobInv,
      ModeInv, Ids, ChooseHandoff
<1>2. (Running => CollectorInv)'
  BY BoundsAssumption DEF StoreTypeOK, ProcessTypeOK, JobTypeOK,
      CommitTypeOK, FlagTypeOK, SwitchInv, ServedInv, CollectorInv, JobInv,
      Ids, ChooseHandoff
<1>3. (Running => QuietInv)'
  BY NoFileAssumption DEF StoreTypeOK, ProcessTypeOK, JobTypeOK,
      CommitTypeOK, FlagTypeOK, SwitchInv, ServedInv, CollectorInv,
      QuietInv, LeaseInv, JobInv, ModeInv, Ids, ChooseHandoff
<1> QED BY <1>1, <1>2, <1>3 DEF SwitchInv

(* EndBeforeCommit keeps the invariant. *)
LEMMA EndBeforeCommitSwitch ==
  ASSUME IndInv, SwitchInv, NEW how \in {"failed", "cancelled"}, EndBeforeCommit(how) PROVE SwitchInv'
<1>1. (Running => ServedInv)'
  BY NoFileAssumption DEF StoreTypeOK, ProcessTypeOK, JobTypeOK,
      CommitTypeOK, FlagTypeOK, SwitchInv, ServedInv, LeaseInv, JobInv,
      ModeInv, Ids, EndBeforeCommit
<1>2. (Running => CollectorInv)'
  BY BoundsAssumption DEF StoreTypeOK, ProcessTypeOK, JobTypeOK,
      CommitTypeOK, FlagTypeOK, SwitchInv, ServedInv, CollectorInv, JobInv,
      Ids, EndBeforeCommit
<1>3. (Running => QuietInv)'
  BY NoFileAssumption DEF StoreTypeOK, ProcessTypeOK, JobTypeOK,
      CommitTypeOK, FlagTypeOK, SwitchInv, ServedInv, CollectorInv,
      QuietInv, LeaseInv, JobInv, ModeInv, Ids, EndBeforeCommit
<1> QED BY <1>1, <1>2, <1>3 DEF SwitchInv

(* A step that changes nothing keeps the invariant. *)
LEMMA StutterSwitch ==
  ASSUME IndInv, SwitchInv, UNCHANGED vars PROVE SwitchInv'
  BY DEF vars, SwitchInv, ServedInv, CollectorInv, QuietInv

(* Every step of the job keeps the invariant. *)
LEMMA JobStepSwitch ==
  ASSUME IndInv, SwitchInv, JobStep PROVE SwitchInv'
  BY ValidateSwitch, TargetChangedSwitch, ChooseHandoffSwitch,
     AcquireLockSwitch, CaptureLeaseSwitch, LeaseConflictSwitch,
     PrepareStateSwitch, CandidateStartedSwitch, CandidateFailedSwitch,
     WriteFileSwitch, VerifyActiveSwitch, MarkAppliedSwitch,
     SwitchAndCommitSwitch, ReconcileSwitch, HandoffRefusedSwitch,
     PublishReconciledSwitch, ConfirmAndCommitSwitch, RetireOldSwitch,
     CancelCommitSwitch, UnreconcileSwitch, StopCandidateSwitch,
     RestoreSwitch, RemarkSwitch, FinishRollbackSwitch,
     AbandonRollbackSwitch, EndBeforeCommitSwitch, EndJobSwitch
  DEF JobStep

(* Every step of the system keeps the invariant. *)
LEMMA SwitchInvNext ==
  ASSUME IndInv, SwitchInv, [Next]_vars PROVE SwitchInv'
<1>1. CASE UNCHANGED vars
  BY <1>1, StutterSwitch
<1>2. CASE JobStep
  BY <1>2, JobStepSwitch
<1>3. CASE Fault
  BY <1>3, CollectorDiesSwitch, EndBeforeCommitSwitch, WriteFailsLateSwitch,
     StepFailsSwitch, RestoreFailsSwitch
  DEF Fault
<1>4. CASE AdminStep
  BY <1>4, AdminReadSwitch, RequestJobSwitch, AdminStageSwitch,
     RequestAssertSwitch
  DEF AdminStep
<1>5. CASE Boot \/ FinishStartup \/ Stop \/ Exit \/ Crash
  BY <1>5, BootSwitch, FinishStartupSwitch, StopSwitch, ExitSwitch, CrashSwitch
<1>6. CASE HistoryBegin \/ HistoryEnd \/ PreseedTimeout \/ OrphanRuns
  BY <1>6, HistoryBeginSwitch, HistoryEndSwitch, PreseedTimeoutSwitch,
     OrphanRunsSwitch
<1> QED
  BY <1>1, <1>2, <1>3, <1>4, <1>5, <1>6 DEF Next

HIDE DEF IndInv, TypeOK, Running, Held, BeforeWrite, AfterWrite,
         PreCommit, InCommit, Interruptible, Unwinding,
         BeforeCandidate, BeforeSwitch, Reconciling,
         Up, Resumes, Keep, NoLease, NoCall, NoCoordinator,
         storeVars, procVars, adminVars, jobVars, boundVars

(* The served generation, the collectors and the file stay coordinated     *)
(* through every activation, failure, shutdown and restart.                *)
THEOREM SwitchInvHolds == Spec => []SwitchInv
<1>1. Init => SwitchInv
  BY DEF Init, SwitchInv, Running
<1>2. IndInv /\ SwitchInv /\ [Next]_vars => SwitchInv'
  BY SwitchInvNext
<1> QED
  BY <1>1, <1>2, IndInvHolds, PTL DEF Spec

-----------------------------------------------------------------------------
(* Only the installed collector can pass the generation fence: a candidate *)
(* or a retired collector never publishes.                                 *)
THEOREM FenceHolds == Spec => []OnlyInstalledPublishes
<1>1. SwitchInv => OnlyInstalledPublishes
  BY DEF SwitchInv, CollectorInv, OnlyInstalledPublishes, Up, Running
<1> QED
  BY <1>1, SwitchInvHolds, PTL

(* After a job whose rollback did not fail as well, lease and lock are     *)
(* free, only the installed collector runs, under the served id, and a     *)
(* restart would serve what is served.                                     *)
THEOREM SettledIsConsistent == Spec => []SettledConsistent
<1>1. IndInv /\ SwitchInv => SettledConsistent
  <2> SUFFICES ASSUME IndInv, SwitchInv, mode = "serving", pc = "idle", ~damaged
               PROVE  /\ lease = NoLease
                      /\ lock # "commit"
                      /\ live \subseteq {coordinator}
                      /\ coordinator # NoCoordinator => pub[coordinator] = served.id
                      /\ ~late => file.active = served.gen
    BY DEF SettledConsistent, Settled
  <2>1. LeaseInv /\ QuietInv
    BY DEF IndInv, SwitchInv, Running
  <2>2. lease = NoLease
    BY <2>1 DEF LeaseInv
  <2> QED
    BY <2>1, <2>2 DEF QuietInv, InCommit, Interruptible, Unwinding, Reconciling
<1> QED
  BY <1>1, IndInvHolds, SwitchInvHolds, PTL

(* A job reported as succeeded is being served, one reported as failed is  *)
(* not.                                                                    *)
THEOREM OutcomesAreTruthful == Spec => []OutcomeTruthful
<1>1. SwitchInv => OutcomeTruthful
  BY DEF SwitchInv, ServedInv, OutcomeTruthful, Up, Running
<1> QED
  BY <1>1, SwitchInvHolds, PTL

-----------------------------------------------------------------------------
(* Which step of AtomicCatalog a step of the activation is.                *)

AbstractStep == [Atomic!Next]_<<served.gen, file.active, prev.gen>>

(* A step that writes the file while the previous generation is served.    *)
LEMMA WriteIsPersist ==
  ASSUME served' = served, prev' = prev, served = prev, file' \in Documents
  PROVE  AbstractStep
<1>1. file'.active \in Gens
  BY DEF Documents
<1>2. Atomic!Persist(file'.active)
  BY DEF Atomic!Persist
<1> QED
  BY <1>1, <1>2 DEF AbstractStep, Atomic!Next

(* An exception in the commit puts the previous generation back.           *)
LEMMA RaiseIsRetract ==
  ASSUME served' = prev, prev' = prev, file' = file PROVE AbstractStep
  BY DEF AbstractStep, Atomic!Next, Atomic!Retract

(* The two pointer switches: the file already names the target.            *)
LEMMA SwitchIsPublish ==
  ASSUME IndInv, SwitchAndCommit \/ PublishReconciled PROVE AbstractStep
<1>1. /\ pc \in {"marked", "reconciled"} /\ served' = [id |-> n, gen |-> target]
      /\ prev' = prev /\ file' = file
  BY DEF SwitchAndCommit, PublishReconciled, Keep, storeVars
<1>2. LeaseInv /\ JobInv
  BY DEF IndInv, Running, SwitchAndCommit, PublishReconciled, Resumes, Up
<1>3. file = Switched(token, op) /\ token = rev /\ target = Target(rev, op)
  BY <1>1, <1>2 DEF LeaseInv, JobInv, Held, AfterWrite
<1>4. served'.gen = file.active
  BY <1>1, <1>3 DEF Switched
<1> QED
  BY <1>1, <1>4 DEF AbstractStep, Atomic!Next, Atomic!Publish

(* Steps that touch neither the pointer, the file's active generation nor  *)
(* what a failure returns to.                                              *)
LEMMA QuietIsStutter ==
  ASSUME served' = served, prev' = prev, file'.active = file.active
  PROVE  AbstractStep
  BY DEF AbstractStep

(* Every step of the job. *)
LEMMA JobStepImplements ==
  ASSUME IndInv, SwitchInv, StoreTypeOK', JobStep PROVE AbstractStep
<1>1. CASE SwitchAndCommit \/ PublishReconciled
  BY <1>1, SwitchIsPublish
<1>2. CASE \E h \in Handoffs : ChooseHandoff(h)
  <2>1. prev' = served /\ served' = served /\ file' = file
    BY <1>2 DEF ChooseHandoff, procVars, storeVars
  <2> QED
    BY <2>1 DEF AbstractStep, Atomic!Next, Atomic!Begin
<1>3. CASE LeaseConflict \/ CandidateFailed \/ HandoffRefused \/ CancelCommit
  BY <1>3, RaiseIsRetract
  DEF LeaseConflict, CandidateFailed, HandoffRefused, CancelCommit, Raise,
      Keep, storeVars
<1>4. CASE WriteFile \/ Restore
  <2>1. served' = served /\ prev' = prev
    BY <1>4 DEF WriteFile, Restore, Keep, procVars
  <2>2. served = prev
    BY <1>4 DEF WriteFile, Restore, SwitchInv, ServedInv, Running, Up,
                Resumes, BeforeWrite, Unwinding
  <2>3. file' \in Documents
    BY DEF StoreTypeOK
  <2> QED
    BY <2>1, <2>2, <2>3, WriteIsPersist
<1> QED
  BY JobStep, <1>1, <1>2, <1>3, <1>4, QuietIsStutter
  DEF JobStep, Validate, TargetChanged, AcquireLock, CaptureLease,
      CaptureTransition, PrepareState, CandidateStarted, VerifyActive,
      MarkApplied, MarkRuntimeApplied, Reconcile, ConfirmAndCommit, RetireOld,
      Unreconcile, StopCandidate, Remark, FinishRollback, AbortTransition,
      AbandonRollback, EndBeforeCommit, EndJob, Keep, storeVars, procVars

(* Every step of the system. *)
LEMMA StepImplements ==
  ASSUME IndInv, SwitchInv, [Next]_vars PROVE AbstractStep
<1>0. StoreTypeOK'
  BY IndInvNext DEF IndInv, TypeOK
<1>1. CASE UNCHANGED vars
  BY <1>1, QuietIsStutter DEF vars, storeVars, procVars, jobVars
<1>2. CASE JobStep
  BY <1>0, <1>2, JobStepImplements
<1>3. CASE Fault
  <2>1. CASE StepFails
    BY <2>1, RaiseIsRetract DEF StepFails, Raise, Keep, storeVars
  <2>2. CASE WriteFailsLate \/ RestoreFails
    <3>1. prev' = prev /\ (served' = prev \/ served' = served)
      BY <2>2 DEF WriteFailsLate, RestoreFails, Raise, Keep, procVars
    <3>2. served = prev
      BY <2>2 DEF WriteFailsLate, RestoreFails, SwitchInv, ServedInv, Running,
                  Up, Resumes, BeforeWrite, Unwinding
    <3>3. file' \in Documents
      BY <1>0 DEF StoreTypeOK
    <3> QED
      BY <3>1, <3>2, <3>3, WriteIsPersist
  <2> QED
    BY <1>3, <2>1, <2>2, QuietIsStutter
    DEF Fault, CollectorDies, EndBeforeCommit, Keep, storeVars, procVars, jobVars
<1>4. CASE AdminStep
  BY <1>4, QuietIsStutter
  DEF AdminStep, AdminRead, AdminStage, StageDraft, WithStaged, RequestAssert,
      RequestJob, storeVars, procVars, jobVars
<1>5. CASE Boot
  <2>1. served' = [id |-> 0, gen |-> file.active] /\ prev' = served' /\ file' = file
    BY <1>5 DEF Boot
  <2> QED
    BY <2>1 DEF AbstractStep, Atomic!Next, Atomic!Restart
<1>6. CASE FinishStartup
  <2>1. file'.active = file.active
    BY <1>6 DEF FinishStartup, PersistMigration, IndInv, TypeOK, StoreTypeOK, Documents
  <2> QED
    BY <1>6, <2>1, QuietIsStutter DEF FinishStartup, jobVars
<1>7. CASE Stop \/ Exit \/ Crash \/ HistoryBegin \/ HistoryEnd \/ PreseedTimeout
  BY <1>7, QuietIsStutter
  DEF Stop, Exit, Crash, HistoryBegin, HistoryEnd, PreseedTimeout, Keep,
      storeVars, procVars, jobVars
<1>8. CASE OrphanRuns
  <2>1. served' = served /\ prev' = prev
    BY <1>8 DEF OrphanRuns
  <2>2. file' = file \/ orphan.call = "restore"
    BY <1>8 DEF OrphanRuns, MarkRuntimeApplied, AbortTransition, storeVars
  <2>3. orphan.call = "restore" => served = prev
    BY <1>8 DEF OrphanRuns, SwitchInv, ServedInv, Running, Up
  <2>4. file' \in Documents
    BY <1>0 DEF StoreTypeOK
  <2> QED
    BY <2>1, <2>2, <2>3, <2>4, WriteIsPersist, QuietIsStutter
<1> QED
  BY <1>1, <1>2, <1>3, <1>4, <1>5, <1>6, <1>7, <1>8 DEF Next

(* The activation implements AtomicCatalog: one complete generation is     *)
(* served, a switch ends in the old or the new one, and a restart at any   *)
(* moment serves one of the two.                                           *)
THEOREM ActivationIsAtomic == Spec => ImplementsAtomicCatalog
<1>1. Init => Atomic!Init
  <2> SUFFICES ASSUME Init PROVE Atomic!Init
    OBVIOUS
  <2>1. served = [id |-> 0, gen |-> file.active] /\ prev = served /\ file.active \in Gens
    BY DEF Init
  <2> QED
    BY <2>1 DEF Atomic!Init
<1>2. IndInv /\ SwitchInv /\ [Next]_vars
        => [Atomic!Next]_<<served.gen, file.active, prev.gen>>
  BY StepImplements DEF AbstractStep
<1> QED
  BY <1>1, <1>2, IndInvHolds, SwitchInvHolds, PTL
  DEF Spec, ImplementsAtomicCatalog, Atomic!Spec
=============================================================================
