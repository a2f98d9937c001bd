---------------------------- MODULE AdminControl ----------------------------
(***************************************************************************)
(* The administrator's control plane: the account file                     *)
(* (admin_account.py), sessions and one-time codes (admin_security.py),    *)
(* the guard in front of every administrator request (api.py) and the      *)
(* audited routes that change the managed files (admin_api.py,             *)
(* managed_config.py).                                                     *)
(*                                                                         *)
(* Logins and account changes run in worker threads; the guard and the     *)
(* routes run on the event loop and await the durable audit.  A step ends  *)
(* where a thread takes or leaves AdminSecurity._lock or a route awaits.   *)
(* One unit of time is one period of a one-time code.  The content of a    *)
(* managed file is its revision, because the code hashes the exact bytes;  *)
(* the verifier of a password is salted, so every account written has a    *)
(* revision of its own.                                                    *)
(***************************************************************************)
EXTENDS Integers, FiniteSets, Functions

CONSTANTS
  Browsers,     \* user agents; each sends one request at a time
  Passwords,
  FirstPassword, \* the password the bootstrap left in the account file
  Files,        \* the managed files: "configuration", "provider_keys", "catalog"
  ScryptSlots,  \* _SCRYPT_WORK_LIMIT
  SessionLimit, \* _SESSION_LIMIT
  IdleTime,     \* idle_seconds
  Lifetime,     \* absolute_seconds
  RecentAge,    \* _ACCOUNT_CHANGE_MAX_SESSION_AGE
  LastTime,     \* bound: time that passes
  MaxSessions,  \* bound: sessions that are ever created
  MaxAccount,   \* bound: revisions of the account
  MaxRevision,  \* bound: revisions of each managed file
  Crashes       \* bound: how often the process is restarted

ASSUME AdminAssumption ==
  /\ FirstPassword \in Passwords /\ Files \subseteq {"configuration", "provider_keys", "catalog"}
  /\ ScryptSlots \in Nat \ {0} /\ SessionLimit \in Nat \ {0}
  /\ IdleTime \in Nat \ {0} /\ IdleTime <= Lifetime /\ Lifetime \in Nat /\ RecentAge \in Nat
  /\ LastTime \in Nat /\ MaxSessions \in Nat /\ MaxAccount \in Nat \ {0} /\ MaxRevision \in Nat \ {0} /\ Crashes \in Nat

VARIABLES
  now,       \* monotonic clock; its value is also the TOTP counter
  file,      \* the account file
  account,   \* AdminAccountStore._account
  sessions,  \* AdminSecurity._sessions
  created,   \* number of sessions created so far
  lastTotp,  \* AdminSecurity._last_totp_counter
  cookie,    \* the session token each browser holds, 0 if none
  pc,        \* where the request of each browser is
  job,       \* what that request remembers
  store,     \* revision of each managed file
  asked,     \* history: durable "..._requested" events, with the revision asked to change
  crashes

accountVars == <<file, account>>
sessionVars == <<sessions, created, lastTotp>>
storeVars   == <<store, asked>>
vars == <<now, accountVars, sessionVars, cookie, pc, job, storeVars, crashes>>

Accounts == [rev : 1..MaxAccount, pw : Passwords, must : BOOLEAN]
Ids == 1..MaxSessions
Times == 0..LastTime
Sessions == [browser : Browsers, rev : 1..MaxAccount, must : BOOLEAN,
             born : Times, seen : Times]

-----------------------------------------------------------------------------
(* Routes.  A route names the file it changes ("none" if it changes no     *)
(* file itself), whether it is open to a session that still has to change  *)
(* the password, and whether it also records that it failed.               *)

Route(op, target, early, failure) ==
  [op |-> op, target |-> target, early |-> early, failure |-> failure]

ReadSession    == Route("read",   "none", TRUE, FALSE)
DeleteSession  == Route("logout", "none", TRUE, FALSE)
ReadFile       == Route("read",   "none", FALSE, FALSE)
PatchAccount   == Route("account", "none", TRUE, FALSE)
PatchConfiguration == Route("write", "configuration", FALSE, FALSE)
PatchProviderKeys  == Route("write", "provider_keys", FALSE, FALSE)
PatchInstruments   == Route("write", "catalog", FALSE, FALSE)
CreateInstrument   == Route("write", "catalog", FALSE, TRUE)
UpdateInstrument   == Route("write", "catalog", FALSE, TRUE)
ArchiveInstrument  == Route("write", "catalog", FALSE, TRUE)
ImportCatalog      == Route("write", "catalog", FALSE, TRUE)
ValidateCatalog    == Route("check", "none", FALSE, TRUE)
ActivateCatalog    == Route("check", "none", FALSE, TRUE)
RollbackCatalog    == Route("check", "none", FALSE, TRUE)

Routes == {ReadSession, DeleteSession, ReadFile, PatchAccount, PatchConfiguration,
           PatchProviderKeys, PatchInstruments, CreateInstrument, UpdateInstrument,
           ArchiveInstrument, ImportCatalog, ValidateCatalog, ActivateCatalog,
           RollbackCatalog}

NoJob == [snap |-> [rev |-> 0, pw |-> "", must |-> FALSE], pw |-> "", code |-> 0, at |-> 0, sid |-> 0,
          route |-> ReadSession, rev |-> 0]

Points == {"idle", "login", "loginAudit", "guard", "handle", "change", "replace",
           "changeAudit", "apply", "complete"}

TypeOK ==
  /\ now \in Times /\ crashes \in 0..Crashes
  /\ file \in Accounts /\ account \in Accounts
  /\ created \in 0..MaxSessions
  /\ DOMAIN sessions \subseteq 1..created
  /\ \A i \in DOMAIN sessions : sessions[i] \in Sessions
  /\ Cardinality(DOMAIN sessions) <= SessionLimit
  /\ lastTotp \in -1..(LastTime + 1)
  /\ cookie \in [Browsers -> 0..created]
  /\ pc \in [Browsers -> Points]
  /\ store \in [Files -> 1..MaxRevision]

Init ==
  /\ now = 0 /\ crashes = 0
  /\ file = [rev |-> 1, pw |-> FirstPassword, must |-> TRUE]
  /\ account = file
  /\ sessions = << >> /\ created = 0 /\ lastTotp = -1
  /\ cookie = [b \in Browsers |-> 0]
  /\ pc = [b \in Browsers |-> "idle"] /\ job = [b \in Browsers |-> NoJob]
  /\ store = [s \in Files |-> 1]
  /\ asked = {}

-----------------------------------------------------------------------------
(* Sessions.                                                               *)

Without(tbl, ids) == Restrict(tbl, DOMAIN tbl \ ids)
With(tbl, i, s) == [j \in DOMAIN tbl \cup {i} |-> IF j = i THEN s ELSE tbl[j]]

\* _prune_locked
Expired(s) == now >= s.born + Lifetime \/ now - s.seen >= IdleTime
Pruned(tbl) == Without(tbl, {i \in DOMAIN tbl : Expired(tbl[i])})

\* Mutant: a session is tied to the account in force, not to the one its
\* password was checked against.
OpenedForCurrent(tbl, b, acc, at) ==
  With(tbl, created + 1, [browser |-> b, rev |-> account.rev, must |-> account.must,
                          born |-> at, seen |-> at])

\* _create_session_locked: the least recently used session makes room.
Opened(tbl, b, acc, at) ==
  LET oldest == CHOOSE i \in DOMAIN tbl : \A j \in DOMAIN tbl : tbl[i].seen <= tbl[j].seen
      kept == IF Cardinality(DOMAIN tbl) >= SessionLimit THEN Without(tbl, {oldest}) ELSE tbl
  IN With(kept, created + 1, [browser |-> b, rev |-> acc.rev, must |-> acc.must,
                              born |-> at, seen |-> at])

\* _verify_password and _create_password_verifier refuse to wait for a slot.
Verifies(p, acc) == p = acc.pw
SlotFree == Cardinality({b \in Browsers : pc[b] \in {"login", "replace"}}) < ScryptSlots

Go(b, point) == pc' = [pc EXCEPT ![b] = point]
Answer(b) == Go(b, "idle") /\ job' = [job EXCEPT ![b] = NoJob]

-----------------------------------------------------------------------------
(* Login: a worker thread reads the account, spends its time in scrypt and *)
(* then takes the lock; the route then records the session.                *)

LoginBegin(b, p, code) ==
  /\ pc[b] = "idle" /\ SlotFree
  /\ Go(b, "login")
  /\ job' = [job EXCEPT ![b] = [NoJob EXCEPT !.snap = account, !.pw = p, !.code = code]]
  /\ UNCHANGED <<now, accountVars, sessionVars, cookie, storeVars, crashes>>

\* The code is compared with those of the current period and its neighbours.
CodeMatches(b) == job[b].code \in {now - 1, now, now + 1} /\ job[b].code >= 0

Accepts(b) == CodeMatches(b) /\ job[b].code > lastTotp /\ Verifies(job[b].pw, job[b].snap)

LoginAccepted(b) ==
  /\ pc[b] = "login" /\ Accepts(b) /\ created < MaxSessions
  /\ sessions' = Opened(Pruned(sessions), b, job[b].snap, now)
  /\ created' = created + 1
  /\ lastTotp' = job[b].code
  /\ job' = [job EXCEPT ![b] = [NoJob EXCEPT !.sid = created + 1, !.pw = job[b].pw]]
  /\ Go(b, "loginAudit")
  /\ UNCHANGED <<now, accountVars, cookie, storeVars, crashes>>

LoginRejected(b) ==
  /\ pc[b] = "login" /\ ~Accepts(b)
  /\ sessions' = Pruned(sessions)
  /\ Answer(b)
  /\ UNCHANGED <<now, accountVars, created, lastTotp, cookie, storeVars, crashes>>

LoginRecorded(b) ==
  /\ pc[b] = "loginAudit"
  /\ cookie' = [cookie EXCEPT ![b] = job[b].sid]
  /\ Answer(b)
  /\ UNCHANGED <<now, accountVars, sessionVars, storeVars, crashes>>

LoginNotRecorded(b) ==
  /\ pc[b] = "loginAudit"
  /\ sessions' = Without(sessions, {job[b].sid})
  /\ Answer(b)
  /\ UNCHANGED <<now, accountVars, created, lastTotp, cookie, storeVars, crashes>>

-----------------------------------------------------------------------------
(* The guard: it reads the account first and the sessions under the lock.  *)

Request(b, r) ==
  /\ pc[b] = "idle" /\ cookie[b] # 0
  /\ Go(b, "guard")
  /\ job' = [job EXCEPT ![b] =
               [NoJob EXCEPT !.snap = account, !.route = r, !.sid = cookie[b],
                             !.rev = IF r.op = "write" THEN store[r.target] ELSE 0]]
  /\ UNCHANGED <<now, accountVars, sessionVars, cookie, storeVars, crashes>>

\* authorize()
Admits(b) ==
  LET s == job[b].sid
  IN /\ s \in DOMAIN Pruned(sessions)
     /\ sessions[s].browser = b
     /\ sessions[s].rev = job[b].snap.rev

GuardRefuses(b) ==
  /\ pc[b] = "guard" /\ ~Admits(b)
  /\ sessions' = Without(Pruned(sessions), {job[b].sid})
  /\ Answer(b)
  /\ UNCHANGED <<now, accountVars, created, lastTotp, cookie, storeVars, crashes>>

\* The session is fine; the CSRF token, a rate limit, the media type or the
\* size of the body is not.
GuardDeclines(b) ==
  /\ pc[b] = "guard" /\ Admits(b)
  /\ sessions' = Pruned(sessions)
  /\ Answer(b)
  /\ UNCHANGED <<now, accountVars, created, lastTotp, cookie, storeVars, crashes>>

GuardAdmits(b) ==
  /\ pc[b] = "guard" /\ Admits(b)
  /\ sessions' = [Pruned(sessions) EXCEPT ![job[b].sid].seen = now]
  /\ LET held == sessions[job[b].sid].must /\ ~job[b].route.early
     IN IF held \/ job[b].route.op = "read"
          THEN Answer(b)
          ELSE Go(b, "handle") /\ UNCHANGED job
  /\ UNCHANGED <<now, accountVars, created, lastTotp, cookie, storeVars, crashes>>

Logout(b) ==
  /\ pc[b] = "handle" /\ job[b].route.op = "logout"
  /\ sessions' = Without(sessions, {cookie[b]})
  /\ cookie' = [cookie EXCEPT ![b] = 0]
  /\ Answer(b)
  /\ UNCHANGED <<now, accountVars, created, lastTotp, storeVars, crashes>>

-----------------------------------------------------------------------------
(* Audited routes: intent, change, completion.                             *)

AfterIntent(b) == IF job[b].route.op = "account" THEN "change" ELSE "apply"

IntentRecorded(b) ==
  /\ pc[b] = "handle" /\ job[b].route.op \in {"account", "write", "check"}
  /\ asked' = asked \cup CASE job[b].route.op = "write"   -> {<<job[b].route.target, job[b].rev>>}
                            [] job[b].route.op = "account" -> {<<"account", job[b].snap.rev>>}
                            [] OTHER -> {}
  /\ Go(b, AfterIntent(b))
  /\ job' = [job EXCEPT ![b].snap = NoJob.snap]
  /\ UNCHANGED <<now, accountVars, sessionVars, cookie, store, crashes>>

\* Mutant: a failed intent is only logged, as a failed completion is.
IntentSkipped(b) ==
  /\ pc[b] = "handle" /\ job[b].route.op \in {"account", "write", "check"}
  /\ Go(b, AfterIntent(b))
  /\ UNCHANGED <<now, accountVars, sessionVars, cookie, job, storeVars, crashes>>

IntentFails(b) ==
  /\ pc[b] = "handle" /\ job[b].route.op \in {"account", "write", "check"}
  /\ Answer(b)
  /\ UNCHANGED <<now, accountVars, sessionVars, cookie, storeVars, crashes>>

\* hmac_compare_revision under the lock of the file's store
RevisionCurrent(b) == store[job[b].route.target] = job[b].rev

\* The outcome is recorded as a completion, or, on the routes that do so, as
\* a failure.
Conclude(b) == Go(b, "complete") /\ job' = [job EXCEPT ![b] = NoJob]
ConcludeFailed(b) == IF job[b].route.failure THEN Conclude(b) ELSE Answer(b)

\* patch() of a store: read, compare, validate, replace the file.
ApplyWrite(b) ==
  LET s == job[b].route.target
  IN /\ pc[b] = "apply" /\ job[b].route.op = "write"
     /\ RevisionCurrent(b) /\ store[s] < MaxRevision
     /\ store' = [store EXCEPT ![s] = @ + 1]
     /\ Conclude(b) \/ ConcludeFailed(b)     \* the directory fsync may fail
     /\ UNCHANGED <<now, accountVars, sessionVars, cookie, asked, crashes>>

\* A conflict, an invalid value or a failed write.
ApplyFails(b) ==
  /\ pc[b] = "apply"
  /\ ConcludeFailed(b)
  /\ UNCHANGED <<now, accountVars, sessionVars, cookie, storeVars, crashes>>

\* Routes that hand the request to the activation runtime or only validate.
ApplyCheck(b) ==
  /\ pc[b] = "apply" /\ job[b].route.op = "check"
  /\ Conclude(b)
  /\ UNCHANGED <<now, accountVars, sessionVars, cookie, storeVars, crashes>>

\* The completion or failure event is recorded, or its failure is logged.
Complete(b) ==
  /\ pc[b] = "complete"
  /\ Answer(b)
  /\ UNCHANGED <<now, accountVars, sessionVars, cookie, storeVars, crashes>>

-----------------------------------------------------------------------------
(* Account change: a worker thread checks the session, spends its time in  *)
(* scrypt and takes the lock again to replace the account.                 *)

SessionHolds(b, rev) == job[b].sid \in DOMAIN sessions /\ sessions[job[b].sid].rev = rev

ChangeVerified(b, p, new) ==
  /\ pc[b] = "change" /\ SlotFree
  /\ SessionHolds(b, account.rev)
  /\ now - sessions[job[b].sid].born <= RecentAge
  /\ Verifies(p, account) /\ new # p
  /\ job' = [job EXCEPT ![b].pw = new, ![b].at = now, ![b].rev = sessions[job[b].sid].rev]
  /\ Go(b, "replace")
  /\ UNCHANGED <<now, accountVars, sessionVars, cookie, storeVars, crashes>>

ChangeRefused(b) ==
  /\ pc[b] = "change"
  /\ Answer(b)
  /\ UNCHANGED <<now, accountVars, sessionVars, cookie, storeVars, crashes>>

\* The session still exists and both the loaded and the stored account are
\* the ones it belongs to.
ReplaceHolds(b) ==
  SessionHolds(b, account.rev) /\ account.rev = job[b].rev /\ file.rev = job[b].rev

NewAccount(b) == [rev |-> file.rev + 1, pw |-> job[b].pw, must |-> FALSE]

\* Mutant: the other sessions stay.
ReplacedKeepingSessions(b) ==
  /\ file' = NewAccount(b) /\ account' = file'
  /\ sessions' = Opened(sessions, b, NewAccount(b), job[b].at)

\* store.replace, then every session is dropped and one is opened.
Replaced(b) ==
  /\ file' = NewAccount(b) /\ account' = file'
  /\ sessions' = Opened(<< >>, b, NewAccount(b), job[b].at)

ChangeReplaces(b) ==
  /\ pc[b] = "replace" /\ ReplaceHolds(b)
  /\ created < MaxSessions /\ file.rev < MaxAccount
  /\ Replaced(b)
  /\ created' = created + 1
  /\ job' = [job EXCEPT ![b] = [NoJob EXCEPT !.sid = created + 1]]
  /\ Go(b, "changeAudit")
  /\ UNCHANGED <<now, lastTotp, cookie, storeVars, crashes>>

\* The session is gone, the account has changed, or the write fails.
ChangeFails(b) ==
  /\ pc[b] = "replace"
  /\ Answer(b)
  /\ UNCHANGED <<now, accountVars, sessionVars, cookie, storeVars, crashes>>

\* os.replace has happened when the directory fsync raises.
ChangeFailsLate(b) ==
  /\ pc[b] = "replace" /\ ReplaceHolds(b) /\ file.rev < MaxAccount
  /\ file' = NewAccount(b)
  /\ Answer(b)
  /\ UNCHANGED <<now, account, sessionVars, cookie, storeVars, crashes>>

ChangeAnswered(b) ==
  /\ pc[b] = "changeAudit"
  /\ cookie' = [cookie EXCEPT ![b] = job[b].sid]
  /\ Answer(b)
  /\ UNCHANGED <<now, accountVars, sessionVars, storeVars, crashes>>

-----------------------------------------------------------------------------
Tick ==
  /\ now < LastTime
  /\ now' = now + 1
  /\ UNCHANGED <<accountVars, sessionVars, cookie, pc, job, storeVars, crashes>>

\* Sessions and used codes live in the process; a start loads the file, and
\* the bootstrap assignments are ignored because the file exists.
Restart ==
  /\ crashes < Crashes
  /\ crashes' = crashes + 1
  /\ account' = file
  /\ sessions' = << >> /\ lastTotp' = -1
  /\ pc' = [b \in Browsers |-> "idle"] /\ job' = [b \in Browsers |-> NoJob]
  /\ UNCHANGED <<now, file, created, cookie, storeVars>>

Resume(b) ==
  \/ LoginAccepted(b) \/ LoginRejected(b) \/ LoginRecorded(b) \/ LoginNotRecorded(b)
  \/ GuardAdmits(b) \/ GuardDeclines(b) \/ GuardRefuses(b) \/ Logout(b)
  \/ IntentRecorded(b) \/ IntentFails(b)
  \/ ApplyWrite(b) \/ ApplyFails(b) \/ ApplyCheck(b) \/ Complete(b)
  \/ \E p, new \in Passwords : ChangeVerified(b, p, new)
  \/ ChangeRefused(b)
  \/ ChangeReplaces(b) \/ ChangeFails(b) \/ ChangeFailsLate(b) \/ ChangeAnswered(b)

Next ==
  \/ \E b \in Browsers :
       \/ \E p \in Passwords, code \in {now, now + 1} : LoginBegin(b, p, code)
       \/ \E r \in {q \in Routes : q.target \in Files \cup {"none"}} : Request(b, r)
       \/ Resume(b)
  \/ Tick
  \/ Restart

Spec == Init /\ [][Next]_vars

-----------------------------------------------------------------------------
\* change_account, admin_security.py:427-429: "Every prior session ... is
\* revoked atomically from the perspective of subsequent authorization
\* checks."  A request that passes the guard belongs to a session of the
\* account in force, although the guard read the account before the lock and
\* logins that checked the old password may still be under way.
AdmittedIsCurrent ==
  [][\A b \in Browsers :
       pc[b] = "guard" /\ pc'[b] = "handle" =>
         sessions[job[b].sid].rev = account.rev]_vars

\* A live session whose account is the one in force was opened with the
\* password of that account, or by the change that set it: knowing the old
\* password is worth nothing after a change.
SessionsKnowPassword ==
  \A b \in Browsers :
    pc[b] = "loginAudit" /\ job[b].sid \in DOMAIN sessions
      /\ sessions[job[b].sid].rev = account.rev => job[b].pw = account.pw

\* Neither the account nor a managed file ever changes without a durable
\* record that somebody asked to change that revision, also when the audit,
\* the write or the process fails in between (audit_intent, admin_api.py).
ChangesAreAudited ==
  /\ \A r \in 1..(file.rev - 1) : <<"account", r>> \in asked
  /\ \A s \in Files : \A r \in 1..(store[s] - 1) : <<s, r>> \in asked

=============================================================================
