---------------------------- MODULE CatalogStore ----------------------------
(***************************************************************************)
(* The managed instrument catalog file (managed_config.py,                 *)
(* InstrumentPolicyStore): one JSON document with an active, a staged and  *)
(* a last-known-good generation, guarded by a content revision and by the  *)
(* lease of the one activation transaction that may be in progress.        *)
(*                                                                         *)
(* A generation is a model value.  The revision of a file is the SHA-256   *)
(* of its bytes, so two files have one revision exactly when they are the  *)
(* same document: the document stands for its own revision.  `legacy`      *)
(* tells a file that still needs the version-2 migration (or a reconciled  *)
(* rewrite) from the serialized form every write produces.                 *)
(***************************************************************************)
EXTENDS Integers

CONSTANTS Gens,      \* catalog generations an administrator can stage
          NoGen,     \* "null" in the staged / last_known_good field
          NoFile     \* no captured document

ASSUME GensAssumption == Gens # {} /\ NoGen \notin Gens

Documents == [active : Gens, staged : Gens \cup {NoGen},
              lkg : Gens \cup {NoGen}, legacy : BOOLEAN]

ASSUME NoFileAssumption == NoFile \notin Documents

NoLease == 0

VARIABLES file,           \* bytes on disk
          lease,          \* _transition_id: NoLease or the number of a job
          runtimeActive   \* _runtime_active_revision: active generation
                          \* this process believes it is running

storeVars == <<file, lease, runtimeActive>>

-----------------------------------------------------------------------------
(* Mutant: the revision covers the active generation but not the draft. *)
ActiveRevision(rev) == rev \in Documents /\ rev.active = file.active

(* _assert_revision: optimistic concurrency on the exact bytes. *)
RevisionMatches(rev) == rev = file

(* The generation an operation would make active. *)
Target(doc, op) == IF op = "activate" THEN doc.staged ELSE doc.lkg

(* Mutant: the lease is not consulted. *)
AlwaysWrite(token) == TRUE

(* _write_locked: during a transition only its lease holder may write. *)
MayWrite(token) == lease \in {NoLease, token}

(* The document create/update/archive/import/replace/stage_patch write. *)
WithStaged(doc, g) ==
    [active |-> doc.active, staged |-> g, lkg |-> doc.lkg, legacy |-> FALSE]

(* Mutant: activation installs the last-known-good generation. *)
SwitchedToLastGood(doc, op) ==
    [active |-> doc.lkg, staged |-> NoGen, lkg |-> doc.active,
     legacy |-> FALSE]

(* The document activate_staged and rollback write. *)
Switched(doc, op) ==
    [active |-> Target(doc, op), staged |-> NoGen, lkg |-> doc.active,
     legacy |-> FALSE]

(* assert_runtime_target: the file and the queued target are unchanged. *)
RuntimeTargetHolds(rev, op, target) ==
    RevisionMatches(rev) /\ Target(file, op) = target /\ target # NoGen

(* The "restart_required" field of catalog_snapshot. *)
RestartRequired == file.active # runtimeActive

-----------------------------------------------------------------------------
(* create_instrument, update_instrument, archive_instrument, replace_staged, *)
(* import_catalog and stage_patch, called with the revision the caller read. *)
StageDraft(rev, g) ==
    /\ RevisionMatches(rev)
    /\ MayWrite(NoLease)
    /\ file' = WithStaged(file, g)
    /\ UNCHANGED <<lease, runtimeActive>>

(* capture_transition *)
CaptureTransition(token, rev) ==
    /\ lease = NoLease
    /\ RevisionMatches(rev)
    /\ lease' = token
    /\ UNCHANGED <<file, runtimeActive>>

(* activate_staged and rollback, under the lease of `token`. *)
SwitchFile(token, rev, op, target) ==
    /\ RevisionMatches(rev)
    /\ Target(file, op) # NoGen
    /\ op = "activate" => Target(file, op) = target
    /\ MayWrite(token)
    /\ file' = Switched(file, op)
    /\ UNCHANGED <<lease, runtimeActive>>

(* mark_runtime_applied *)
MarkRuntimeApplied(rev) ==
    /\ RevisionMatches(rev)
    /\ runtimeActive' = file.active
    /\ UNCHANGED <<file, lease>>

(* commit_transition *)
CommitTransition(token, rev) ==
    /\ lease = token
    /\ RevisionMatches(rev)
    /\ lease' = NoLease

(* Mutant: only the active generation is put back, the draft is lost. *)
RestoreActiveOnly(token, rev, content) ==
    /\ lease = token
    /\ RevisionMatches(rev)
    /\ file' = [content EXCEPT !.staged = NoGen]
    /\ lease' = NoLease
    /\ UNCHANGED runtimeActive

(* restore_transition: put the captured bytes back and drop the lease. *)
RestoreTransition(token, rev, content) ==
    /\ lease = token
    /\ RevisionMatches(rev)
    /\ file' = content
    /\ lease' = NoLease
    /\ UNCHANGED runtimeActive

(* abort_transition *)
AbortTransition(token) ==
    /\ lease = token
    /\ lease' = NoLease
    /\ UNCHANGED <<file, runtimeActive>>

(* persist_migration: rewrite a legacy file in its serialized form. *)
PersistMigration ==
    /\ lease = NoLease
    /\ file' = [file EXCEPT !.legacy = FALSE]
    /\ runtimeActive' = file.active
    /\ UNCHANGED lease
=============================================================================
