------------------------- MODULE AdminControlProofs -------------------------
(***************************************************************************)
(* Proofs about AdminControl, for every number of browsers, passwords,     *)
(* managed files and sessions.                                             *)
(***************************************************************************)
EXTENDS AdminControl, FiniteSetTheorems, WellFoundedInduction, TLAPS

-----------------------------------------------------------------------------
(* The inductive invariant.                                                *)

Snaps == [rev : 0..MaxAccount, pw : Passwords \cup {""}, must : BOOLEAN]

Jobs == [snap : Snaps, pw : Passwords \cup {""}, code : 0..(LastTime + 1), at : Times,
         sid : 0..MaxSessions, route : Routes, rev : Nat]

\* The account file is never behind the loaded account, and no session is
\* ahead of it.
RevisionsInv ==
  /\ account.rev <= file.rev
  /\ \A i \in DOMAIN sessions : sessions[i].rev <= account.rev

\* A login holds the account in force, or one that has been replaced since.
LoginInv(b) ==
  pc[b] = "login" =>
    /\ job[b].snap \in Accounts /\ job[b].snap.rev <= account.rev
    /\ job[b].snap.rev = account.rev => job[b].snap.pw = account.pw

PasswordInv(b) ==
  pc[b] = "loginAudit" /\ job[b].sid \in DOMAIN sessions
    /\ sessions[job[b].sid].rev = account.rev => job[b].pw = account.pw

\* If the account was replaced after the guard read it, the session the
\* request came with is gone.
GuardInv(b) ==
  pc[b] = "guard" /\ job[b].sid \in DOMAIN sessions => job[b].snap.rev = account.rev

HandleInv(b) ==
  pc[b] = "handle" /\ job[b].sid \in DOMAIN sessions =>
    sessions[job[b].sid].rev = job[b].snap.rev

\* Past the intent, the revision about to be changed is on record.
IntentInv(b) ==
  /\ pc[b] = "change" /\ job[b].sid \in DOMAIN sessions =>
       <<"account", sessions[job[b].sid].rev>> \in asked
  /\ pc[b] = "replace" => <<"account", job[b].rev>> \in asked
  /\ pc[b] = "apply" /\ job[b].route.op = "write" =>
       <<job[b].route.target, job[b].rev>> \in asked

JobInv(b) ==
  /\ job[b] \in Jobs /\ job[b].sid <= created
  /\ job[b].route.op = "write" => job[b].route.target \in Files
  /\ pc[b] = "replace" => job[b].pw \in Passwords

RequestInv(b) ==
  JobInv(b) /\ LoginInv(b) /\ PasswordInv(b) /\ GuardInv(b) /\ HandleInv(b) /\ IntentInv(b)

ControlInv ==
  /\ TypeOK /\ job \in [Browsers -> Jobs]
  /\ RevisionsInv
  /\ \A b \in Browsers : RequestInv(b)
  /\ ChangesAreAudited

-----------------------------------------------------------------------------
(* How the invariant is used: what concerns no request in particular is    *)
(* WorldInv, and what one request may do to the others is Evolves.         *)

TableInv(tbl, n) ==
  /\ DOMAIN tbl \subseteq 1..n
  /\ \A i \in DOMAIN tbl : tbl[i] \in Sessions
  /\ Cardinality(DOMAIN tbl) <= SessionLimit

WorldInv ==
  /\ now \in Times /\ crashes \in 0..Crashes
  /\ file \in Accounts /\ account \in Accounts
  /\ created \in 0..MaxSessions
  /\ TableInv(sessions, created)
  /\ lastTotp \in -1..(LastTime + 1)
  /\ cookie \in [Browsers -> 0..created]
  /\ store \in [Files -> 1..MaxRevision]
  /\ RevisionsInv /\ ChangesAreAudited

\* Sessions keep the account they belong to and no identifier comes back;
\* replacing the account drops every session there was.
Evolves ==
  /\ created <= created' /\ created' \in Nat
  /\ asked \subseteq asked'
  /\ \A i \in DOMAIN sessions' :
       i <= created => i \in DOMAIN sessions /\ sessions'[i].rev = sessions[i].rev
  /\ \/ account' = account
     \/ account'.rev > account.rev /\ \A i \in DOMAIN sessions' : i > created

LEMMA Parts ==
  ControlInv <=> /\ WorldInv
                 /\ pc \in [Browsers -> Points] /\ job \in [Browsers -> Jobs]
                 /\ \A b \in Browsers : RequestInv(b)
BY DEF ControlInv, WorldInv, TypeOK, TableInv

LEMMA NoJobIsJob ==
  /\ NoJob \in Jobs /\ NoJob.sid = 0 /\ NoJob.rev = 0 /\ NoJob.route = ReadSession
  /\ NoJob.code = 0 /\ NoJob.at = 0 /\ NoJob.pw = ""
  /\ NoJob.snap = [rev |-> 0, pw |-> "", must |-> FALSE]
  /\ ReadSession.op = "read"
<1>1. NoJob.snap \in Snaps
  BY AdminAssumption DEF NoJob, Snaps
<1>2. ReadSession \in Routes /\ ReadSession.op = "read"
  BY DEF Routes, ReadSession, Route
<1>3. 0 \in 0..(LastTime + 1) /\ 0 \in Times /\ 0 \in 0..MaxSessions
  BY AdminAssumption DEF Times
<1> QED
  <2> HIDE DEF ReadSession
  <2> QED BY <1>1, <1>2, <1>3 DEF NoJob, Jobs

\* The fields of a request's memory.
LEMMA JobFields ==
  ASSUME NEW j \in Jobs
  PROVE  /\ j.snap \in Snaps /\ j.pw \in Passwords \cup {""} /\ j.code \in 0..(LastTime + 1)
         /\ j.at \in Times /\ j.sid \in 0..MaxSessions /\ j.route \in Routes /\ j.rev \in Nat
BY DEF Jobs

\* A request that is not the one that moved keeps its part of the invariant.
LEMMA OthersKept ==
  ASSUME ControlInv, Evolves, account' \in Accounts, NEW c \in Browsers,
         pc'[c] = pc[c], job'[c] = job[c]
  PROVE  RequestInv(c)'
<1> USE Parts
<1>1. job[c] \in Jobs /\ job[c].sid <= created /\ job[c].sid \in Nat /\ created \in Nat
  <2>1. job[c] \in Jobs /\ job[c].sid <= created
    BY DEF RequestInv, JobInv
  <2>2. job[c].sid \in 0..MaxSessions /\ created \in 0..MaxSessions
    BY <2>1, JobFields DEF WorldInv
  <2> QED BY <2>1, <2>2, AdminAssumption
<1>2. JobInv(c)'
  BY <1>1 DEF RequestInv, JobInv, Evolves
<1>3. ASSUME job[c].sid \in DOMAIN sessions'
      PROVE  /\ job[c].sid \in DOMAIN sessions /\ account' = account
             /\ sessions'[job[c].sid].rev = sessions[job[c].sid].rev
  BY <1>1, <1>3 DEF Evolves
<1>4. LoginInv(c)'
  <2> SUFFICES ASSUME pc'[c] = "login"
               PROVE  /\ job[c].snap \in Accounts /\ job[c].snap.rev <= account'.rev
                      /\ job[c].snap.rev = account'.rev => job[c].snap.pw = account'.pw
    BY DEF LoginInv
  <2>1. /\ job[c].snap \in Accounts /\ job[c].snap.rev <= account.rev
        /\ job[c].snap.rev = account.rev => job[c].snap.pw = account.pw
    BY DEF RequestInv, LoginInv
  <2>2. account.rev \in Nat /\ account'.rev \in Nat /\ job[c].snap.rev \in Nat
    BY <2>1, AdminAssumption DEF WorldInv, Accounts
  <2>3. account' = account \/ account'.rev > account.rev
    BY DEF Evolves
  <2> QED BY <2>1, <2>2, <2>3
<1>5. PasswordInv(c)' /\ GuardInv(c)' /\ HandleInv(c)'
  BY <1>3 DEF RequestInv, PasswordInv, GuardInv, HandleInv
<1>6. IntentInv(c)'
  <2>1. asked \subseteq asked'
    BY DEF Evolves
  <2> QED BY <1>3, <2>1 DEF RequestInv, IntentInv
<1> QED BY <1>2, <1>4, <1>5, <1>6 DEF RequestInv

LEMMA MoveKeeps ==
  ASSUME ControlInv, NEW b \in Browsers, NEW point \in Points, NEW j \in Jobs,
         pc' = [pc EXCEPT ![b] = point], job' = [job EXCEPT ![b] = j],
         Evolves, WorldInv', RequestInv(b)'
  PROVE  ControlInv'
<1>1. pc \in [Browsers -> Points] /\ job \in [Browsers -> Jobs]
  BY Parts
<1>2. pc' \in [Browsers -> Points] /\ job' \in [Browsers -> Jobs]
  BY <1>1
<1>3. ASSUME NEW c \in Browsers PROVE RequestInv(c)'
  <2>1. CASE c = b
    BY <2>1
  <2>2. CASE c # b
    <3>1. pc'[c] = pc[c] /\ job'[c] = job[c]
      BY <1>1, <2>2
    <3>2. account' \in Accounts
      BY DEF WorldInv
    <3> QED BY <3>1, <3>2, OthersKept
  <2> QED BY <2>1, <2>2
<1> QED BY <1>2, <1>3, Parts DEF ControlInv, WorldInv, TypeOK, TableInv

\* A request that was answered, or whose outcome is about to be recorded,
\* remembers nothing.
LEMMA RestKeeps ==
  ASSUME ControlInv, NEW b \in Browsers, NEW point \in {"idle", "complete"},
         Go(b, point), job' = [job EXCEPT ![b] = NoJob], Evolves, WorldInv'
  PROVE  ControlInv'
<1>1. pc \in [Browsers -> Points] /\ job \in [Browsers -> Jobs]
  BY Parts
<1>2. /\ pc' = [pc EXCEPT ![b] = point]
      /\ pc'[b] = point /\ job'[b] = NoJob
  BY <1>1 DEF Go
<1>3. RequestInv(b)'
  <2>1. created' \in Nat
    BY DEF Evolves
  <2>2. JobInv(b)'
    <3>1. job'[b] \in Jobs /\ job'[b].sid = 0 /\ job'[b].route.op = "read" /\ pc'[b] # "replace"
      BY <1>2, NoJobIsJob
    <3> QED BY <2>1, <3>1 DEF JobInv
  <2>3. LoginInv(b)' /\ PasswordInv(b)' /\ GuardInv(b)' /\ HandleInv(b)' /\ IntentInv(b)'
    BY <1>2 DEF LoginInv, PasswordInv, GuardInv, HandleInv, IntentInv
  <2> QED BY <2>2, <2>3 DEF RequestInv
<1>4. point \in Points
  BY DEF Points
<1> QED BY <1>2, <1>3, <1>4, NoJobIsJob, MoveKeeps

LEMMA AnswerKeeps ==
  ASSUME ControlInv, NEW b \in Browsers, Answer(b), Evolves, WorldInv'
  PROVE  ControlInv'
BY RestKeeps DEF Answer

LEMMA ConcludeKeeps ==
  ASSUME ControlInv, NEW b \in Browsers, Conclude(b) \/ ConcludeFailed(b), Evolves, WorldInv'
  PROVE  ControlInv'
<1>1. ASSUME Conclude(b) PROVE ControlInv'
  BY <1>1, RestKeeps DEF Conclude
<1>2. CASE Answer(b)
  BY <1>2, AnswerKeeps
<1> QED BY <1>1, <1>2 DEF ConcludeFailed

-----------------------------------------------------------------------------
(* Tables of sessions.                                                     *)

LEMMA SessionFields ==
  ASSUME NEW s \in Sessions
  PROVE  /\ s.browser \in Browsers /\ s.rev \in 1..MaxAccount /\ s.must \in BOOLEAN
         /\ s.born \in Times /\ s.seen \in Times /\ s.seen \in Nat /\ s.rev \in Nat
BY AdminAssumption DEF Sessions, Times

LEMMA TableIsFinite ==
  ASSUME NEW tbl, NEW n \in Nat, DOMAIN tbl \subseteq 1..n
  PROVE  IsFiniteSet(DOMAIN tbl)
<1>1. IsFiniteSet(1..n)
  BY FS_Interval
<1>2. DOMAIN tbl \in SUBSET (1..n)
  OBVIOUS
<1> QED BY ONLY <1>1, <1>2, FS_Subset

LEMMA WithoutFacts ==
  ASSUME NEW tbl, NEW ids
  PROVE  /\ DOMAIN Without(tbl, ids) = DOMAIN tbl \ ids
         /\ \A i \in DOMAIN tbl \ ids : Without(tbl, ids)[i] = tbl[i]
BY DEF Without, Restrict

LEMMA PrunedFacts ==
  ASSUME NEW tbl
  PROVE  /\ DOMAIN Pruned(tbl) \subseteq DOMAIN tbl
         /\ \A i \in DOMAIN Pruned(tbl) : Pruned(tbl)[i] = tbl[i]
<1> DEFINE ids == {i \in DOMAIN tbl : Expired(tbl[i])}
<1>1. Pruned(tbl) = Without(tbl, ids)
  BY DEF Pruned
<1> HIDE DEF ids
<1>2. /\ DOMAIN Without(tbl, ids) = DOMAIN tbl \ ids
      /\ \A i \in DOMAIN tbl \ ids : Without(tbl, ids)[i] = tbl[i]
  BY ONLY WithoutFacts
<1> QED BY <1>1, <1>2

\* A table that only lost sessions is one the program can have.
LEMMA SmallerTable ==
  ASSUME NEW n \in Nat, NEW tbl, TableInv(tbl, n), NEW new,
         DOMAIN new \subseteq DOMAIN tbl, \A i \in DOMAIN new : new[i] \in Sessions
  PROVE  TableInv(new, n)
<1>1. IsFiniteSet(DOMAIN tbl)
  BY TableIsFinite DEF TableInv
<1>2. Cardinality(DOMAIN new) <= Cardinality(DOMAIN tbl) /\ IsFiniteSet(DOMAIN new)
  BY <1>1, FS_Subset
<1>3. Cardinality(DOMAIN tbl) \in Nat /\ Cardinality(DOMAIN new) \in Nat
  BY <1>1, <1>2, FS_CardinalityType
<1> QED BY <1>2, <1>3, AdminAssumption DEF TableInv

\* A set of natural numbers has a least element.
LEMMA LeastExists ==
  ASSUME NEW T \in SUBSET Nat, T # {} PROVE \E x \in T : \A y \in T : x <= y
<1>1. PICK x \in T : \A y \in T : ~ (<<y, x>> \in OpToRel(<, Nat))
  BY NatLessThanWellFounded, WFMin
<1>2. ASSUME NEW y \in T PROVE x <= y
  <2>1. <<y, x>> \in Nat \X Nat /\ <<y, x>>[1] = y /\ <<y, x>>[2] = x
    OBVIOUS
  <2>2. ~(y < x)
    BY <2>1, <1>1 DEF OpToRel
  <2> QED BY <2>2
<1> QED BY <1>2

\* _create_session_locked adds one session, under a new identifier, and the
\* least recently used one makes room for it when the table is full.
LEMMA OpenedFacts ==
  ASSUME NEW tbl, created \in Nat, TableInv(tbl, created), NEW b, NEW acc, NEW at,
         [browser |-> b, rev |-> acc.rev, must |-> acc.must, born |-> at, seen |-> at] \in Sessions
  PROVE  LET new == Opened(tbl, b, acc, at)
         IN  /\ TableInv(new, created + 1)
             /\ created + 1 \in DOMAIN new /\ new[created + 1].rev = acc.rev
             /\ \A i \in DOMAIN new : i # created + 1 => i \in DOMAIN tbl /\ new[i] = tbl[i]
<1> DEFINE least(i) == \A j \in DOMAIN tbl : tbl[i].seen <= tbl[j].seen
           oldest == CHOOSE i \in DOMAIN tbl : least(i)
           kept == IF Cardinality(DOMAIN tbl) >= SessionLimit THEN Without(tbl, {oldest}) ELSE tbl
           s == [browser |-> b, rev |-> acc.rev, must |-> acc.must, born |-> at, seen |-> at]
           new == Opened(tbl, b, acc, at)
<1>1. IsFiniteSet(DOMAIN tbl) /\ Cardinality(DOMAIN tbl) \in Nat
  BY TableIsFinite, FS_CardinalityType DEF TableInv
<1>2. ASSUME DOMAIN tbl # {} PROVE oldest \in DOMAIN tbl
  <2> DEFINE T == {tbl[i].seen : i \in DOMAIN tbl}
  <2>1. T \in SUBSET Nat /\ T # {}
    BY <1>2, SessionFields DEF TableInv
  <2> HIDE DEF T
  <2>2. PICK x \in T : \A y \in T : x <= y
    BY <2>1, LeastExists
  <2>3. \E i \in DOMAIN tbl : least(i)
    BY <2>2 DEF T
  <2> QED BY <2>3
<1>3. DOMAIN kept \subseteq DOMAIN tbl /\ \A i \in DOMAIN kept : kept[i] = tbl[i]
  <2> HIDE DEF oldest
  <2>1. /\ DOMAIN Without(tbl, {oldest}) = DOMAIN tbl \ {oldest}
        /\ \A i \in DOMAIN tbl \ {oldest} : Without(tbl, {oldest})[i] = tbl[i]
    BY WithoutFacts
  <2>2. CASE Cardinality(DOMAIN tbl) >= SessionLimit
    BY <2>1, <2>2
  <2>3. CASE ~(Cardinality(DOMAIN tbl) >= SessionLimit)
    BY <2>3
  <2> QED BY <2>2, <2>3
<1>4. IsFiniteSet(DOMAIN kept) /\ Cardinality(DOMAIN kept) \in Nat
      /\ Cardinality(DOMAIN kept) < SessionLimit
  <2>1. CASE Cardinality(DOMAIN tbl) >= SessionLimit
    <3>1. DOMAIN kept = DOMAIN tbl \ {oldest}
      BY <2>1, WithoutFacts
    <3>2. DOMAIN tbl # {}
      BY <2>1, <1>1, FS_EmptySet, AdminAssumption
    <3>3. oldest \in DOMAIN tbl
      BY <3>2, <1>2
    <3> HIDE DEF kept, oldest
    <3>4. IsFiniteSet(DOMAIN kept) /\ Cardinality(DOMAIN kept) = Cardinality(DOMAIN tbl) - 1
      BY <3>1, <3>3, <1>1, FS_RemoveElement
    <3>5. Cardinality(DOMAIN kept) \in Nat
      BY <3>4, FS_CardinalityType
    <3> QED BY <3>4, <3>5, <1>1, <2>1, AdminAssumption DEF TableInv
  <2>2. CASE ~(Cardinality(DOMAIN tbl) >= SessionLimit)
    BY <2>2, <1>1, AdminAssumption
  <2> QED BY <2>1, <2>2
<1>5. new = With(kept, created + 1, s)
  BY DEF Opened
<1> HIDE DEF kept, new, s
<1>6. created + 1 \notin DOMAIN kept /\ DOMAIN kept \subseteq 1..created
  BY <1>3 DEF TableInv
<1>7. /\ DOMAIN new = DOMAIN kept \cup {created + 1}
      /\ new[created + 1] = s
      /\ \A i \in DOMAIN kept : new[i] = kept[i]
  BY <1>5, <1>6 DEF With
<1>8. Cardinality(DOMAIN new) <= SessionLimit
  <2>1. Cardinality(DOMAIN kept \cup {created + 1}) = Cardinality(DOMAIN kept) + 1
    BY ONLY <1>6, <1>4, FS_AddElement
  <2> QED BY <2>1, <1>7, <1>4, AdminAssumption
<1>9. s \in Sessions /\ s.rev = acc.rev
  BY DEF s
<1>10. TableInv(new, created + 1)
  BY <1>3, <1>6, <1>7, <1>8, <1>9 DEF TableInv
<1> QED BY <1>3, <1>7, <1>9, <1>10 DEF new

-----------------------------------------------------------------------------
(* Steps that leave the account and the managed files alone.               *)

\* Sessions may be dropped or used.
LEMMA WorldKept ==
  ASSUME ControlInv, UNCHANGED <<accountVars, created, storeVars>>,
         DOMAIN sessions' \subseteq DOMAIN sessions,
         \A i \in DOMAIN sessions' : sessions'[i] \in Sessions /\ sessions'[i].rev = sessions[i].rev,
         now' \in Times, crashes' \in 0..Crashes, lastTotp' \in -1..(LastTime + 1),
         cookie' \in [Browsers -> 0..created]
  PROVE  WorldInv' /\ Evolves
<1>1. WorldInv /\ created \in Nat
  BY Parts, AdminAssumption DEF WorldInv
<1>2. TableInv(sessions', created)
  BY <1>1, SmallerTable DEF WorldInv
<1>3. /\ file' = file /\ account' = account /\ created' = created
      /\ store' = store /\ asked' = asked
  BY DEF accountVars, storeVars
<1>4. RevisionsInv'
  BY <1>1, <1>3 DEF WorldInv, RevisionsInv
<1>5. ChangesAreAudited'
  BY <1>1, <1>3 DEF WorldInv, ChangesAreAudited
<1>6. Evolves
  BY <1>1, <1>3 DEF Evolves
<1>7. TableInv(sessions, created)'
  BY <1>2, <1>3 DEF TableInv
<1>8. /\ file \in Accounts /\ account \in Accounts /\ created \in 0..MaxSessions
      /\ store \in [Files -> 1..MaxRevision]
  BY <1>1 DEF WorldInv
<1> QED BY <1>3, <1>4, <1>5, <1>6, <1>7, <1>8 DEF WorldInv

\* What the sessions look like after each of the ways to drop some.
LEMMA TableKept ==
  ASSUME ControlInv
  PROVE  /\ \A i \in DOMAIN sessions : sessions[i] \in Sessions
         /\ \A ids : /\ DOMAIN Without(sessions, ids) \subseteq DOMAIN sessions
                     /\ \A i \in DOMAIN Without(sessions, ids) :
                          Without(sessions, ids)[i] = sessions[i]
         /\ DOMAIN Pruned(sessions) \subseteq DOMAIN sessions
         /\ \A i \in DOMAIN Pruned(sessions) : Pruned(sessions)[i] = sessions[i]
         /\ \A ids : /\ DOMAIN Without(Pruned(sessions), ids) \subseteq DOMAIN sessions
                     /\ \A i \in DOMAIN Without(Pruned(sessions), ids) :
                          Without(Pruned(sessions), ids)[i] = sessions[i]
<1>1. \A i \in DOMAIN sessions : sessions[i] \in Sessions
  BY Parts DEF WorldInv, TableInv
<1>2. DOMAIN Pruned(sessions) \subseteq DOMAIN sessions
      /\ \A i \in DOMAIN Pruned(sessions) : Pruned(sessions)[i] = sessions[i]
  BY PrunedFacts
<1>3. ASSUME NEW ids
      PROVE  /\ DOMAIN Without(sessions, ids) \subseteq DOMAIN sessions
             /\ \A i \in DOMAIN Without(sessions, ids) : Without(sessions, ids)[i] = sessions[i]
  <2>1. /\ DOMAIN Without(sessions, ids) = DOMAIN sessions \ ids
        /\ \A i \in DOMAIN sessions \ ids : Without(sessions, ids)[i] = sessions[i]
    BY ONLY WithoutFacts
  <2> QED BY <2>1
<1>4. ASSUME NEW ids
      PROVE  /\ DOMAIN Without(Pruned(sessions), ids) \subseteq DOMAIN sessions
             /\ \A i \in DOMAIN Without(Pruned(sessions), ids) :
                  Without(Pruned(sessions), ids)[i] = sessions[i]
  <2> DEFINE t == Pruned(sessions)
  <2> HIDE DEF t
  <2>1. /\ DOMAIN Without(t, ids) = DOMAIN t \ ids
        /\ \A i \in DOMAIN t \ ids : Without(t, ids)[i] = t[i]
    BY ONLY WithoutFacts
  <2>2. DOMAIN t \subseteq DOMAIN sessions /\ \A i \in DOMAIN t : t[i] = sessions[i]
    BY <1>2 DEF t
  <2>3. /\ DOMAIN Without(t, ids) \subseteq DOMAIN sessions
        /\ \A i \in DOMAIN Without(t, ids) : Without(t, ids)[i] = sessions[i]
    BY <2>1, <2>2
  <2> QED BY <2>3 DEF t
<1> QED BY <1>1, <1>2, <1>3, <1>4

\* The types that WorldKept asks for, when the variables do not change.
LEMMA TypesKept ==
  ASSUME ControlInv
  PROVE  /\ now \in Times /\ crashes \in 0..Crashes /\ lastTotp \in -1..(LastTime + 1)
         /\ cookie \in [Browsers -> 0..created] /\ created \in Nat
         /\ pc \in [Browsers -> Points] /\ job \in [Browsers -> Jobs]
         /\ \A b \in Browsers : RequestInv(b) /\ job[b].sid \in 0..created
<1>1. WorldInv /\ created \in Nat
  BY Parts, AdminAssumption DEF WorldInv
<1>2. pc \in [Browsers -> Points] /\ job \in [Browsers -> Jobs]
      /\ \A b \in Browsers : RequestInv(b)
  BY Parts
<1>3. ASSUME NEW b \in Browsers PROVE job[b].sid \in 0..created
  <2>1. job[b] \in Jobs /\ job[b].sid <= created
    BY <1>2 DEF RequestInv, JobInv
  <2>2. job[b].sid \in 0..MaxSessions
    BY <2>1, JobFields
  <2> QED BY <2>1, <2>2, <1>1, AdminAssumption
<1> QED BY <1>1, <1>2, <1>3 DEF WorldInv

\* A step that changes only where a request is and what it remembers.
LEMMA SameWorld ==
  ASSUME ControlInv, UNCHANGED <<now, accountVars, sessionVars, cookie, storeVars, crashes>>
  PROVE  WorldInv' /\ Evolves
<1>1. /\ now' = now /\ crashes' = crashes /\ lastTotp' = lastTotp /\ cookie' = cookie
      /\ sessions' = sessions /\ created' = created
  BY DEF sessionVars
<1> QED BY <1>1, TypesKept, TableKept, WorldKept

\* Steps that answer, or conclude, a request.
LEMMA AnsweringSteps ==
  ASSUME ControlInv, NEW b \in Browsers,
         \/ LoginRejected(b) \/ LoginRecorded(b) \/ LoginNotRecorded(b)
         \/ GuardRefuses(b) \/ GuardDeclines(b) \/ Logout(b) \/ IntentFails(b)
         \/ ApplyFails(b) \/ ApplyCheck(b) \/ Complete(b)
         \/ ChangeRefused(b) \/ ChangeFails(b) \/ ChangeAnswered(b)
  PROVE  ControlInv'
<1> USE TypesKept, TableKept
<1>1. CASE LoginRejected(b)
  BY <1>1, WorldKept, AnswerKeeps DEF LoginRejected
<1>2. CASE LoginRecorded(b)
  BY <1>2, WorldKept, AnswerKeeps DEF LoginRecorded, sessionVars
<1>3. CASE LoginNotRecorded(b)
  BY <1>3, WorldKept, AnswerKeeps DEF LoginNotRecorded
<1>4. CASE GuardRefuses(b)
  BY <1>4, WorldKept, AnswerKeeps DEF GuardRefuses
<1>5. CASE GuardDeclines(b)
  BY <1>5, WorldKept, AnswerKeeps DEF GuardDeclines
<1>6. CASE Logout(b)
  BY <1>6, WorldKept, AnswerKeeps DEF Logout
<1>7. CASE IntentFails(b)
  BY <1>7, SameWorld, AnswerKeeps DEF IntentFails
<1>8. CASE ApplyFails(b)
  BY <1>8, SameWorld, ConcludeKeeps DEF ApplyFails
<1>9. CASE ApplyCheck(b)
  BY <1>9, SameWorld, ConcludeKeeps DEF ApplyCheck
<1>10. CASE Complete(b)
  BY <1>10, SameWorld, AnswerKeeps DEF Complete
<1>11. CASE ChangeRefused(b)
  BY <1>11, SameWorld, AnswerKeeps DEF ChangeRefused
<1>12. CASE ChangeFails(b)
  BY <1>12, SameWorld, AnswerKeeps DEF ChangeFails
<1>13. CASE ChangeAnswered(b)
  BY <1>13, WorldKept, AnswerKeeps DEF ChangeAnswered, sessionVars
<1> QED BY <1>1, <1>2, <1>3, <1>4, <1>5, <1>6, <1>7, <1>8, <1>9, <1>10, <1>11, <1>12, <1>13

\* An account is also what a request may remember.
LEMMA AccountIsSnap ==
  ASSUME NEW a \in Accounts PROVE a \in Snaps /\ a.rev \in Nat
<1>1. a.rev \in 1..MaxAccount /\ a.pw \in Passwords /\ a.must \in BOOLEAN
      /\ a = [rev |-> a.rev, pw |-> a.pw, must |-> a.must]
  BY DEF Accounts
<1>2. a.rev \in 0..MaxAccount /\ a.rev \in Nat
  BY <1>1, AdminAssumption
<1> QED BY <1>1, <1>2 DEF Snaps

LEMMA LoginBeginStep ==
  ASSUME ControlInv, NEW b \in Browsers, NEW p \in Passwords, NEW code \in {now, now + 1},
         LoginBegin(b, p, code)
  PROVE  ControlInv'
<1> DEFINE j == [NoJob EXCEPT !.snap = account, !.pw = p, !.code = code]
<1>1. account \in Accounts /\ account \in Snaps /\ account.rev \in Nat /\ created \in Nat
  BY Parts, AccountIsSnap, TypesKept DEF WorldInv
<1>2. code \in 0..(LastTime + 1)
  BY TypesKept, AdminAssumption DEF Times
<1>3. j \in Jobs /\ j.snap = account /\ j.sid = 0 /\ j.route.op = "read"
  BY <1>1, <1>2, NoJobIsJob DEF Jobs
<1>4. /\ pc' = [pc EXCEPT ![b] = "login"] /\ job' = [job EXCEPT ![b] = j]
      /\ pc'[b] = "login" /\ job'[b] = j
  BY TypesKept DEF LoginBegin, Go
<1>5. /\ WorldInv' /\ Evolves
  BY SameWorld DEF LoginBegin
<1>6. account' = account /\ created' = created
  BY DEF LoginBegin, accountVars, sessionVars
<1> HIDE DEF j
<1>7. JobInv(b)'
  BY <1>1, <1>3, <1>4, <1>6 DEF JobInv
<1>8. LoginInv(b)'
  BY <1>1, <1>3, <1>4, <1>6 DEF LoginInv
<1>9. PasswordInv(b)' /\ GuardInv(b)' /\ HandleInv(b)' /\ IntentInv(b)'
  BY <1>4 DEF PasswordInv, GuardInv, HandleInv, IntentInv
<1>10. "login" \in Points
  BY DEF Points
<1> QED BY <1>3, <1>4, <1>5, <1>7, <1>8, <1>9, <1>10, MoveKeeps DEF RequestInv

LEMMA RequestStep ==
  ASSUME ControlInv, NEW b \in Browsers,
         NEW r \in {q \in Routes : q.target \in Files \cup {"none"}}, Request(b, r)
  PROVE  ControlInv'
<1> DEFINE n == IF r.op = "write" THEN store[r.target] ELSE 0
           j == [NoJob EXCEPT !.snap = account, !.route = r, !.sid = cookie[b], !.rev = n]
<1>1. account \in Accounts /\ account \in Snaps /\ account.rev \in Nat /\ created \in Nat
  BY Parts, AccountIsSnap, TypesKept DEF WorldInv
<1>2. cookie[b] \in 0..created /\ cookie[b] \in 0..MaxSessions
  BY TypesKept, Parts, AdminAssumption DEF WorldInv
<1>3. r.op = "write" => r.target \in Files
  BY DEF Routes, Route, ReadSession, DeleteSession, ReadFile, PatchAccount, PatchConfiguration,
         PatchProviderKeys, PatchInstruments, CreateInstrument, UpdateInstrument,
         ArchiveInstrument, ImportCatalog, ValidateCatalog, ActivateCatalog, RollbackCatalog
<1>4. n \in Nat
  BY <1>3, Parts DEF WorldInv
<1> HIDE DEF n
<1>5. j \in Jobs /\ j.snap = account /\ j.sid = cookie[b] /\ j.route = r
  BY <1>1, <1>2, <1>4, NoJobIsJob DEF Jobs
<1>6. /\ pc' = [pc EXCEPT ![b] = "guard"] /\ job' = [job EXCEPT ![b] = j]
      /\ pc'[b] = "guard" /\ job'[b] = j
  BY TypesKept DEF Request, Go, n
<1>7. /\ WorldInv' /\ Evolves
  BY SameWorld DEF Request
<1>8. account' = account /\ created' = created
  BY DEF Request, accountVars, sessionVars
<1> HIDE DEF j
<1>9. JobInv(b)'
  BY <1>2, <1>3, <1>5, <1>6, <1>8 DEF JobInv
<1>10. GuardInv(b)'
  BY <1>5, <1>6, <1>8 DEF GuardInv
<1>11. LoginInv(b)' /\ PasswordInv(b)' /\ HandleInv(b)' /\ IntentInv(b)'
  BY <1>6 DEF PasswordInv, LoginInv, HandleInv, IntentInv
<1>12. "guard" \in Points
  BY DEF Points
<1> QED BY <1>5, <1>6, <1>7, <1>9, <1>10, <1>11, <1>12, MoveKeeps DEF RequestInv

\* The guard marks the session as used.
LEMMA GuardAdmitsStep ==
  ASSUME ControlInv, NEW b \in Browsers, GuardAdmits(b)
  PROVE  ControlInv'
<1> DEFINE t == Pruned(sessions)  i == job[b].sid
<1>1. /\ i \in DOMAIN t /\ i \in DOMAIN sessions
      /\ sessions[i].rev = job[b].snap.rev
      /\ DOMAIN t \subseteq DOMAIN sessions /\ \A k \in DOMAIN t : t[k] = sessions[k]
      /\ sessions' = [t EXCEPT ![i].seen = now]
  BY TableKept DEF GuardAdmits, Admits
<1> HIDE DEF t
<1>2. /\ DOMAIN sessions' \subseteq DOMAIN sessions
      /\ \A k \in DOMAIN sessions' : sessions'[k] \in Sessions /\ sessions'[k].rev = sessions[k].rev
  <2>1. DOMAIN sessions' = DOMAIN t
    BY <1>1
  <2>2. ASSUME NEW k \in DOMAIN t
        PROVE  sessions'[k] \in Sessions /\ sessions'[k].rev = sessions[k].rev
    <3>1. sessions[k] \in Sessions /\ t[k] = sessions[k] /\ now \in Times
      BY <1>1, <2>2, TableKept, TypesKept
    <3>2. CASE k = i
      <4>1. sessions'[k] = [t[k] EXCEPT !.seen = now]
        BY <1>1, <2>2, <3>2
      <4> QED BY <4>1, <3>1 DEF Sessions
    <3>3. CASE k # i
      BY <1>1, <3>1, <3>3
    <3> QED BY <3>2, <3>3
  <2> QED BY <2>1, <2>2, <1>1
<1>3. WorldInv' /\ Evolves
  BY <1>2, TypesKept, WorldKept DEF GuardAdmits
<1>4. CASE Answer(b)
  BY <1>3, <1>4, AnswerKeeps
<1>5. CASE Go(b, "handle") /\ UNCHANGED job
  <2>1. /\ pc' = [pc EXCEPT ![b] = "handle"] /\ job' = [job EXCEPT ![b] = job[b]]
        /\ pc'[b] = "handle" /\ job'[b] = job[b] /\ job[b] \in Jobs
    BY <1>5, TypesKept DEF Go
  <2>2. created' = created
    BY DEF GuardAdmits
  <2>3. JobInv(b)'
    BY <2>1, <2>2, TypesKept DEF RequestInv, JobInv
  <2>4. HandleInv(b)'
    BY <2>1, <1>1, <1>2 DEF HandleInv
  <2>5. LoginInv(b)' /\ PasswordInv(b)' /\ GuardInv(b)' /\ IntentInv(b)'
    BY <2>1 DEF PasswordInv, LoginInv, GuardInv, IntentInv
  <2>6. "handle" \in Points
    BY DEF Points
  <2> QED BY <1>3, <2>1, <2>3, <2>4, <2>5, <2>6, MoveKeeps DEF RequestInv
<1> QED BY <1>4, <1>5 DEF GuardAdmits

\* The new session belongs to the account whose password was checked, which
\* may have been replaced by now.
LEMMA LoginAcceptedStep ==
  ASSUME ControlInv, NEW b \in Browsers, LoginAccepted(b)
  PROVE  ControlInv'
<1> DEFINE t == Pruned(sessions)  acc == job[b].snap
           new == Opened(t, b, acc, now)
           j == [NoJob EXCEPT !.sid = created + 1, !.pw = job[b].pw]
<1>1. /\ pc[b] = "login" /\ created < MaxSessions
      /\ sessions' = new /\ created' = created + 1 /\ lastTotp' = job[b].code
      /\ job' = [job EXCEPT ![b] = j] /\ pc' = [pc EXCEPT ![b] = "loginAudit"]
      /\ now' = now /\ file' = file /\ account' = account /\ cookie' = cookie
      /\ store' = store /\ asked' = asked /\ crashes' = crashes
      /\ job[b].pw = acc.pw
  BY DEF LoginAccepted, Accepts, Verifies, Go, accountVars, storeVars
<1>2. /\ WorldInv /\ created \in Nat /\ created \in 0..MaxSessions
      /\ cookie \in [Browsers -> 0..created] /\ now \in Times
      /\ job[b] \in Jobs /\ account \in Accounts
      /\ pc \in [Browsers -> Points] /\ job \in [Browsers -> Jobs]
  BY Parts, TypesKept DEF WorldInv
<1>3. /\ acc \in Accounts /\ acc.rev <= account.rev /\ acc.rev \in Nat /\ account.rev \in Nat
      /\ acc.rev = account.rev => acc.pw = account.pw
  BY <1>1, <1>2, TypesKept, AccountIsSnap DEF RequestInv, LoginInv
<1>4. TableInv(t, created) /\ \A i \in DOMAIN t : i \in DOMAIN sessions /\ t[i] = sessions[i]
  <2>1. TableInv(sessions, created)
    BY <1>2 DEF WorldInv
  <2> QED BY <2>1, <1>2, TableKept, SmallerTable
<1>5. [browser |-> b, rev |-> acc.rev, must |-> acc.must, born |-> now, seen |-> now] \in Sessions
  BY <1>2, <1>3 DEF Accounts, Sessions
<1> HIDE DEF t, acc
<1>6. /\ TableInv(new, created + 1)
      /\ created + 1 \in DOMAIN new /\ new[created + 1].rev = acc.rev
      /\ \A i \in DOMAIN new : i # created + 1 => i \in DOMAIN t /\ new[i] = t[i]
  BY <1>2, <1>4, <1>5, OpenedFacts
<1> HIDE DEF new
<1>7. \A i \in DOMAIN new : i # created + 1 => i \in DOMAIN sessions /\ new[i] = sessions[i]
  BY <1>4, <1>6
<1>8. WorldInv'
  <2>1. TableInv(sessions, created)'
    BY <1>1, <1>6 DEF TableInv
  <2>2. created' \in 0..MaxSessions /\ cookie' \in [Browsers -> 0..created']
    BY <1>1, <1>2, AdminAssumption
  <2>3. lastTotp' \in -1..(LastTime + 1)
    <3>1. job[b].code \in 0..(LastTime + 1)
      BY <1>2, JobFields
    <3> QED BY <3>1, <1>1, AdminAssumption
  <2>4. RevisionsInv'
    <3>1. RevisionsInv
      BY <1>2 DEF WorldInv
    <3> QED BY <3>1, <1>1, <1>3, <1>6, <1>7 DEF RevisionsInv
  <2>5. ChangesAreAudited'
    BY <1>1, <1>2 DEF WorldInv, ChangesAreAudited
  <2>6. /\ now' \in Times /\ crashes' \in 0..Crashes /\ file' \in Accounts /\ account' \in Accounts
        /\ store' \in [Files -> 1..MaxRevision]
    BY <1>1, <1>2 DEF WorldInv
  <2> QED BY <2>1, <2>2, <2>3, <2>4, <2>5, <2>6 DEF WorldInv
<1>9. Evolves
  BY <1>1, <1>2, <1>7 DEF Evolves
<1>10. j \in Jobs /\ j.sid = created + 1 /\ j.pw = job[b].pw /\ j.route.op = "read"
  <2>1. created + 1 \in 0..MaxSessions /\ job[b].pw \in Passwords \cup {""}
    <3>1. job[b].pw \in Passwords \cup {""}
      BY <1>2, JobFields
    <3>2. created + 1 \in 0..MaxSessions
      BY <1>1, <1>2, AdminAssumption
    <3> QED BY <3>1, <3>2
  <2> QED BY <2>1, NoJobIsJob DEF Jobs
<1>11. pc'[b] = "loginAudit" /\ job'[b] = j
  BY <1>1, <1>2
<1> HIDE DEF j
<1>12. JobInv(b)'
  BY <1>1, <1>2, <1>10, <1>11 DEF JobInv
<1>13. PasswordInv(b)'
  BY <1>1, <1>3, <1>6, <1>10, <1>11 DEF PasswordInv
<1>14. LoginInv(b)' /\ GuardInv(b)' /\ HandleInv(b)' /\ IntentInv(b)'
  BY <1>11 DEF LoginInv, GuardInv, HandleInv, IntentInv
<1>15. "loginAudit" \in Points
  BY DEF Points
<1> QED BY <1>1, <1>8, <1>9, <1>10, <1>12, <1>13, <1>14, <1>15, MoveKeeps DEF RequestInv

\* The intent names the revision that the session, or the request, is about
\* to change.
LEMMA IntentRecordedStep ==
  ASSUME ControlInv, NEW b \in Browsers, IntentRecorded(b)
  PROVE  ControlInv'
<1> DEFINE j == [job[b] EXCEPT !.snap = NoJob.snap]  point == AfterIntent(b)
<1>1. /\ pc[b] = "handle" /\ job[b].route.op \in {"account", "write", "check"}
      /\ pc' = [pc EXCEPT ![b] = point]
      /\ now' = now /\ file' = file /\ account' = account /\ cookie' = cookie
      /\ sessions' = sessions /\ created' = created /\ lastTotp' = lastTotp
      /\ store' = store /\ crashes' = crashes
      /\ asked \subseteq asked'
  BY DEF IntentRecorded, Go, accountVars, sessionVars
<1>2. /\ WorldInv /\ created \in Nat /\ job[b] \in Jobs /\ RequestInv(b)
      /\ pc \in [Browsers -> Points] /\ job \in [Browsers -> Jobs]
  BY Parts, TypesKept DEF WorldInv
<1>3. /\ j \in Jobs /\ j.sid = job[b].sid /\ j.route = job[b].route /\ j.rev = job[b].rev
      /\ job' = [job EXCEPT ![b] = j]
  <2>1. job' = [job EXCEPT ![b].snap = NoJob.snap]
    BY DEF IntentRecorded
  <2>2. NoJob.snap \in Snaps
    BY NoJobIsJob, JobFields
  <2> QED BY <1>2, <2>1, <2>2 DEF Jobs
<1>4. /\ job[b].route.op = "write" => <<job[b].route.target, job[b].rev>> \in asked'
      /\ job[b].route.op = "account" => <<"account", job[b].snap.rev>> \in asked'
  BY DEF IntentRecorded
<1>5. WorldInv' /\ Evolves
  <2>1. RevisionsInv' /\ ChangesAreAudited' /\ TableInv(sessions, created)'
    BY <1>1, <1>2 DEF WorldInv, RevisionsInv, ChangesAreAudited, TableInv
  <2>2. Evolves
    BY <1>1, <1>2 DEF Evolves
  <2> QED BY <1>1, <1>2, <2>1, <2>2 DEF WorldInv
<1>6. /\ pc'[b] = point /\ job'[b] = j
      /\ point = IF job[b].route.op = "account" THEN "change" ELSE "apply"
      /\ point \in Points
  BY <1>1, <1>2, <1>3 DEF AfterIntent, Points
<1> HIDE DEF j, point
<1>7. JobInv(b)'
  BY <1>1, <1>2, <1>3, <1>6 DEF RequestInv, JobInv
<1>8. IntentInv(b)'
  <2>1. job[b].sid \in DOMAIN sessions => sessions[job[b].sid].rev = job[b].snap.rev
    BY <1>1, <1>2 DEF RequestInv, HandleInv
  <2> QED BY <2>1, <1>1, <1>3, <1>4, <1>6 DEF IntentInv
<1>9. LoginInv(b)' /\ GuardInv(b)' /\ HandleInv(b)' /\ PasswordInv(b)'
  BY <1>6 DEF LoginInv, GuardInv, HandleInv, PasswordInv
<1> QED BY <1>1, <1>3, <1>5, <1>6, <1>7, <1>8, <1>9, MoveKeeps DEF RequestInv

-----------------------------------------------------------------------------
(* Steps that change a managed file or the account.                        *)

LEMMA ApplyWriteStep ==
  ASSUME ControlInv, NEW b \in Browsers, ApplyWrite(b)
  PROVE  ControlInv'
<1> DEFINE f == job[b].route.target
<1>1. /\ pc[b] = "apply" /\ job[b].route.op = "write"
      /\ store[f] = job[b].rev /\ store[f] < MaxRevision
      /\ store' = [store EXCEPT ![f] = @ + 1]
      /\ Conclude(b) \/ ConcludeFailed(b)
      /\ now' = now /\ file' = file /\ account' = account /\ cookie' = cookie
      /\ sessions' = sessions /\ created' = created /\ lastTotp' = lastTotp
      /\ asked' = asked /\ crashes' = crashes
  BY DEF ApplyWrite, RevisionCurrent, accountVars, sessionVars
<1>2. /\ WorldInv /\ created \in Nat /\ RequestInv(b) /\ store \in [Files -> 1..MaxRevision]
  BY Parts, TypesKept DEF WorldInv
<1>3. f \in Files /\ <<f, store[f]>> \in asked
  BY <1>1, <1>2 DEF RequestInv, JobInv, IntentInv
<1> HIDE DEF f
<1>4. /\ store' \in [Files -> 1..MaxRevision] /\ store[f] \in Nat
      /\ store'[f] = store[f] + 1 /\ \A g \in Files : g # f => store'[g] = store[g]
  BY <1>1, <1>2, <1>3, AdminAssumption
<1>5. ChangesAreAudited'
  <2>1. ChangesAreAudited
    BY <1>2 DEF WorldInv
  <2>2. ASSUME NEW g \in Files, NEW r \in 1..(store'[g] - 1) PROVE <<g, r>> \in asked'
    <3>1. CASE g # f
      BY <2>1, <1>1, <1>4, <3>1 DEF ChangesAreAudited
    <3>2. CASE g = f /\ r = store[f]
      BY <1>1, <1>3, <3>2
    <3>3. CASE g = f /\ r # store[f]
      <4>1. r \in 1..(store[f] - 1)
        BY <1>4, <3>3
      <4> QED BY <2>1, <4>1, <1>1, <1>3, <3>3 DEF ChangesAreAudited
    <3> QED BY <3>1, <3>2, <3>3
  <2> QED BY <2>1, <2>2, <1>1 DEF ChangesAreAudited
<1>6. WorldInv' /\ Evolves
  <2>1. RevisionsInv' /\ TableInv(sessions, created)'
    BY <1>1, <1>2 DEF WorldInv, RevisionsInv, TableInv
  <2>2. Evolves
    BY <1>1, <1>2 DEF Evolves
  <2> QED BY <1>1, <1>2, <1>4, <1>5, <2>1, <2>2 DEF WorldInv
<1> QED BY <1>1, <1>6, ConcludeKeeps

LEMMA ChangeVerifiedStep ==
  ASSUME ControlInv, NEW b \in Browsers, NEW p \in Passwords, NEW new \in Passwords,
         ChangeVerified(b, p, new)
  PROVE  ControlInv'
<1> DEFINE i == job[b].sid
           j == [job[b] EXCEPT !.pw = new, !.at = now, !.rev = sessions[i].rev]
<1>1. /\ pc[b] = "change" /\ i \in DOMAIN sessions
      /\ pc' = [pc EXCEPT ![b] = "replace"]
      /\ created' = created /\ asked' = asked
  BY DEF ChangeVerified, SessionHolds, Go, sessionVars, storeVars
<1>2. /\ created \in Nat /\ job[b] \in Jobs /\ RequestInv(b) /\ now \in Times
      /\ pc \in [Browsers -> Points] /\ job \in [Browsers -> Jobs]
  BY TypesKept
<1>3. sessions[i].rev \in Nat
  BY <1>1, TableKept, SessionFields
<1>4. /\ j \in Jobs /\ j.sid = i /\ j.route = job[b].route /\ j.rev = sessions[i].rev
      /\ j.pw = new
  BY <1>2, <1>3 DEF Jobs
<1>5. job' = [job EXCEPT ![b] = j]
  <2>1. job' = [job EXCEPT ![b].pw = new, ![b].at = now, ![b].rev = sessions[job[b].sid].rev]
    BY DEF ChangeVerified
  <2> QED BY <2>1, <1>2
<1>6. pc'[b] = "replace" /\ job'[b] = j
  BY <1>1, <1>2, <1>5
<1>7. WorldInv' /\ Evolves
  BY SameWorld DEF ChangeVerified
<1>8. <<"account", sessions[i].rev>> \in asked
  BY <1>1, <1>2 DEF RequestInv, IntentInv
<1> HIDE DEF j
<1>9. JobInv(b)'
  BY <1>1, <1>2, <1>4, <1>6 DEF RequestInv, JobInv
<1>10. IntentInv(b)'
  BY <1>1, <1>4, <1>6, <1>8 DEF IntentInv
<1>11. LoginInv(b)' /\ GuardInv(b)' /\ HandleInv(b)' /\ PasswordInv(b)'
  BY <1>6 DEF LoginInv, GuardInv, HandleInv, PasswordInv
<1>12. "replace" \in Points
  BY DEF Points
<1> QED BY <1>1, <1>4, <1>5, <1>7, <1>9, <1>10, <1>11, <1>12, MoveKeeps DEF RequestInv

\* What both ways to write the account file have in common.
LEMMA FileWritten ==
  ASSUME ControlInv, NEW b \in Browsers, pc[b] = "replace", ReplaceHolds(b),
         file.rev < MaxAccount, file' = NewAccount(b), UNCHANGED storeVars
  PROVE  /\ file' \in Accounts /\ file'.rev = account.rev + 1 /\ account.rev \in Nat
         /\ file'.must = FALSE
         /\ ChangesAreAudited'
<1>1. /\ WorldInv /\ RequestInv(b) /\ file \in Accounts /\ account \in Accounts
  BY Parts DEF WorldInv
<1>2. file.rev \in Nat /\ account.rev \in Nat /\ file.rev \in 1..MaxAccount
  BY <1>1, AdminAssumption DEF Accounts
<1>3. file.rev = account.rev /\ file.rev = job[b].rev
  BY DEF ReplaceHolds
<1>4. job[b].pw \in Passwords /\ <<"account", job[b].rev>> \in asked
  BY <1>1 DEF RequestInv, JobInv, IntentInv
<1>5. file'.rev = file.rev + 1 /\ file'.pw = job[b].pw /\ file'.must = FALSE
  BY DEF NewAccount
<1>6. file' \in Accounts
  <2>1. file.rev + 1 \in 1..MaxAccount
    BY <1>2, AdminAssumption
  <2> QED BY <2>1, <1>4 DEF NewAccount, Accounts
<1>7. ChangesAreAudited'
  <2>1. store' = store /\ asked' = asked
    BY DEF storeVars
  <2>2. ChangesAreAudited
    BY <1>1 DEF WorldInv
  <2>3. ASSUME NEW r \in 1..(file'.rev - 1) PROVE <<"account", r>> \in asked'
    <3>1. CASE r = file.rev
      BY <1>3, <1>4, <2>1, <3>1
    <3>2. CASE r # file.rev
      <4>1. r \in 1..(file.rev - 1)
        BY <1>2, <1>5, <3>2
      <4> QED BY <4>1, <2>1, <2>2 DEF ChangesAreAudited
    <3> QED BY <3>1, <3>2
  <2> QED BY <2>1, <2>2, <2>3 DEF ChangesAreAudited
<1> QED BY <1>2, <1>3, <1>5, <1>6, <1>7

\* Replacing the account drops every session: what other requests hold is
\* older than the account now, and their sessions are gone.
LEMMA ChangeReplacesStep ==
  ASSUME ControlInv, NEW b \in Browsers, ChangeReplaces(b)
  PROVE  ControlInv'
<1> DEFINE acc == NewAccount(b)  none == << >>
           new == Opened(none, b, acc, job[b].at)
           j == [NoJob EXCEPT !.sid = created + 1]
<1>1. /\ pc[b] = "replace" /\ ReplaceHolds(b) /\ created < MaxSessions /\ file.rev < MaxAccount
      /\ file' = acc /\ account' = acc /\ sessions' = new /\ created' = created + 1
      /\ job' = [job EXCEPT ![b] = j] /\ pc' = [pc EXCEPT ![b] = "changeAudit"]
      /\ now' = now /\ lastTotp' = lastTotp /\ cookie' = cookie /\ crashes' = crashes
      /\ store' = store /\ asked' = asked
  BY DEF ChangeReplaces, Replaced, Go, storeVars
<1>2. /\ WorldInv /\ created \in Nat /\ created \in 0..MaxSessions /\ job[b] \in Jobs
      /\ cookie \in [Browsers -> 0..created]
      /\ pc \in [Browsers -> Points] /\ job \in [Browsers -> Jobs]
  BY Parts, TypesKept DEF WorldInv
<1>3. /\ acc \in Accounts /\ acc.rev = account.rev + 1 /\ account.rev \in Nat
      /\ acc.must = FALSE /\ ChangesAreAudited'
  BY <1>1, FileWritten DEF storeVars
<1> HIDE DEF acc
<1>4. TableInv(none, created)
  <2>1. DOMAIN none = {}
    OBVIOUS
  <2> HIDE DEF none
  <2> QED BY <2>1, FS_EmptySet, AdminAssumption DEF TableInv
<1>5. [browser |-> b, rev |-> acc.rev, must |-> acc.must, born |-> job[b].at, seen |-> job[b].at]
        \in Sessions
  <2>1. job[b].at \in Times
    BY <1>2, JobFields
  <2> QED BY <1>3, <2>1 DEF Accounts, Sessions
<1>6. /\ TableInv(new, created + 1)
      /\ new[created + 1].rev = acc.rev
      /\ \A i \in DOMAIN new : i = created + 1
  <2>1. DOMAIN none = {}
    OBVIOUS
  <2> HIDE DEF none
  <2>2. /\ TableInv(new, created + 1)
        /\ created + 1 \in DOMAIN new /\ new[created + 1].rev = acc.rev
        /\ \A i \in DOMAIN new : i # created + 1 => i \in DOMAIN none /\ new[i] = none[i]
    BY <1>2, <1>4, <1>5, OpenedFacts
  <2> QED BY <2>1, <2>2
<1> HIDE DEF new
<1>7. WorldInv'
  <2>1. TableInv(sessions, created)'
    BY <1>1, <1>6 DEF TableInv
  <2>2. created' \in 0..MaxSessions /\ cookie' \in [Browsers -> 0..created']
    BY <1>1, <1>2, AdminAssumption
  <2>3. RevisionsInv'
    BY <1>1, <1>3, <1>6 DEF RevisionsInv
  <2> QED BY <1>1, <1>2, <1>3, <2>1, <2>2, <2>3 DEF WorldInv
<1>8. Evolves
  BY <1>1, <1>2, <1>3, <1>6 DEF Evolves
<1>9. j \in Jobs /\ j.sid = created + 1 /\ j.route.op = "read"
  <2>1. created + 1 \in 0..MaxSessions
    BY <1>1, <1>2, AdminAssumption
  <2> QED BY <2>1, NoJobIsJob DEF Jobs
<1>10. pc'[b] = "changeAudit" /\ job'[b] = j
  BY <1>1, <1>2
<1> HIDE DEF j
<1>11. JobInv(b)'
  BY <1>1, <1>2, <1>9, <1>10 DEF JobInv
<1>12. LoginInv(b)' /\ PasswordInv(b)' /\ GuardInv(b)' /\ HandleInv(b)' /\ IntentInv(b)'
  BY <1>10 DEF LoginInv, PasswordInv, GuardInv, HandleInv, IntentInv
<1>13. "changeAudit" \in Points
  BY DEF Points
<1> QED BY <1>1, <1>7, <1>8, <1>9, <1>11, <1>12, <1>13, MoveKeeps DEF RequestInv

LEMMA ChangeFailsLateStep ==
  ASSUME ControlInv, NEW b \in Browsers, ChangeFailsLate(b)
  PROVE  ControlInv'
<1>1. /\ pc[b] = "replace" /\ ReplaceHolds(b) /\ file.rev < MaxAccount /\ Answer(b)
      /\ file' = NewAccount(b) /\ UNCHANGED storeVars /\ store' = store /\ asked' = asked
      /\ now' = now /\ account' = account /\ cookie' = cookie /\ crashes' = crashes
      /\ sessions' = sessions /\ created' = created /\ lastTotp' = lastTotp
  BY DEF ChangeFailsLate, sessionVars, storeVars
<1>2. WorldInv /\ created \in Nat
  BY Parts, TypesKept
<1>3. /\ file' \in Accounts /\ file'.rev = account.rev + 1 /\ account.rev \in Nat
      /\ ChangesAreAudited'
  BY <1>1, FileWritten
<1>4. RevisionsInv' /\ TableInv(sessions, created)'
  BY <1>1, <1>2, <1>3 DEF WorldInv, RevisionsInv, TableInv
<1>5. WorldInv'
  BY <1>1, <1>2, <1>3, <1>4 DEF WorldInv
<1>6. Evolves
  BY <1>1, <1>2 DEF Evolves
<1> QED BY <1>1, <1>5, <1>6, AnswerKeeps

-----------------------------------------------------------------------------
(* Time and restarts.                                                      *)

LEMMA TickStep ==
  ASSUME ControlInv, Tick PROVE ControlInv'
<1>1. /\ now' \in Times /\ crashes' = crashes /\ lastTotp' = lastTotp /\ cookie' = cookie
      /\ sessions' = sessions /\ created' = created /\ pc' = pc /\ job' = job
      /\ UNCHANGED <<accountVars, created, storeVars>> /\ account' = account
  BY TypesKept, AdminAssumption DEF Tick, Times, sessionVars, accountVars
<1>2. WorldInv' /\ Evolves
  BY <1>1, TypesKept, TableKept, WorldKept
<1>3. ASSUME NEW c \in Browsers PROVE RequestInv(c)'
  BY <1>1, <1>2, OthersKept DEF WorldInv
<1> QED BY <1>1, <1>2, <1>3, TypesKept DEF ControlInv, WorldInv, TypeOK, TableInv

LEMMA RestartStep ==
  ASSUME ControlInv, Restart PROVE ControlInv'
<1>1. /\ crashes' = crashes + 1 /\ crashes < Crashes /\ account' = file /\ file' = file
      /\ sessions' = << >> /\ lastTotp' = -1
      /\ pc' = [b \in Browsers |-> "idle"] /\ job' = [b \in Browsers |-> NoJob]
      /\ now' = now /\ created' = created /\ cookie' = cookie /\ store' = store /\ asked' = asked
  BY DEF Restart, storeVars
<1>2. WorldInv /\ created \in Nat /\ file \in Accounts /\ file.rev \in Nat
  BY Parts, TypesKept, AccountIsSnap DEF WorldInv
<1>3. DOMAIN sessions' = {}
  BY <1>1
<1>4. WorldInv'
  <2>1. TableInv(sessions', created')
    BY <1>3, FS_EmptySet, AdminAssumption DEF TableInv
  <2>2. TableInv(sessions, created)'
    BY <2>1 DEF TableInv
  <2>3. RevisionsInv'
    BY <1>1, <1>2, <1>3 DEF RevisionsInv
  <2>4. ChangesAreAudited'
    BY <1>1, <1>2 DEF WorldInv, ChangesAreAudited
  <2>5. crashes' \in 0..Crashes /\ lastTotp' \in -1..(LastTime + 1)
    BY <1>1, <1>2, AdminAssumption DEF WorldInv
  <2> QED BY <1>1, <1>2, <2>2, <2>3, <2>4, <2>5 DEF WorldInv
<1>5. pc' \in [Browsers -> Points] /\ job' \in [Browsers -> Jobs]
  BY <1>1, NoJobIsJob DEF Points
<1>6. ASSUME NEW c \in Browsers PROVE RequestInv(c)'
  <2>1. pc'[c] = "idle" /\ job'[c] = NoJob
    BY <1>1
  <2>2. job'[c] \in Jobs /\ job'[c].sid = 0 /\ job'[c].route.op = "read"
    BY <2>1, NoJobIsJob
  <2>3. JobInv(c)'
    BY <2>1, <2>2, <1>1, <1>2 DEF JobInv
  <2>4. LoginInv(c)' /\ PasswordInv(c)' /\ GuardInv(c)' /\ HandleInv(c)' /\ IntentInv(c)'
    BY <2>1 DEF LoginInv, PasswordInv, GuardInv, HandleInv, IntentInv
  <2> QED BY <2>3, <2>4 DEF RequestInv
<1> QED BY <1>4, <1>5, <1>6 DEF ControlInv, WorldInv, TypeOK, TableInv

LEMMA ControlInit ==
  Init => ControlInv
<1> SUFFICES ASSUME Init PROVE ControlInv
  OBVIOUS
<1>1. /\ now = 0 /\ crashes = 0 /\ file = [rev |-> 1, pw |-> FirstPassword, must |-> TRUE]
      /\ account = file /\ sessions = << >> /\ created = 0 /\ lastTotp = -1
      /\ cookie = [b \in Browsers |-> 0]
      /\ pc = [b \in Browsers |-> "idle"] /\ job = [b \in Browsers |-> NoJob]
      /\ store = [s \in Files |-> 1]
  BY DEF Init
<1>2. DOMAIN sessions = {}
  BY <1>1
<1>3. file \in Accounts /\ account \in Accounts /\ file.rev = 1 /\ account.rev = 1
  <2>1. 1 \in 1..MaxAccount /\ FirstPassword \in Passwords
    BY AdminAssumption
  <2> QED BY <1>1, <2>1 DEF Accounts
<1>4. TableInv(sessions, created)
  BY <1>2, FS_EmptySet, AdminAssumption DEF TableInv
<1>5. /\ now \in Times /\ crashes \in 0..Crashes /\ created \in 0..MaxSessions
      /\ lastTotp \in -1..(LastTime + 1) /\ cookie \in [Browsers -> 0..created]
      /\ store \in [Files -> 1..MaxRevision]
  BY <1>1, AdminAssumption DEF Times
<1>6. RevisionsInv /\ ChangesAreAudited
  BY <1>1, <1>2, <1>3 DEF RevisionsInv, ChangesAreAudited
<1>7. pc \in [Browsers -> Points] /\ job \in [Browsers -> Jobs]
  BY <1>1, NoJobIsJob DEF Points
<1>8. ASSUME NEW c \in Browsers PROVE RequestInv(c)
  <2>1. pc[c] = "idle" /\ job[c] = NoJob
    BY <1>1
  <2>2. JobInv(c)
    <3>1. job[c] \in Jobs /\ job[c].sid = 0 /\ job[c].route.op = "read" /\ pc[c] = "idle"
      BY <2>1, NoJobIsJob
    <3> QED BY <3>1, <1>1 DEF JobInv
  <2>3. LoginInv(c) /\ PasswordInv(c) /\ GuardInv(c) /\ HandleInv(c) /\ IntentInv(c)
    BY <2>1 DEF LoginInv, PasswordInv, GuardInv, HandleInv, IntentInv
  <2> QED BY <2>2, <2>3 DEF RequestInv
<1> QED BY <1>3, <1>4, <1>5, <1>6, <1>7, <1>8, Parts DEF WorldInv

LEMMA ControlStep ==
  ASSUME ControlInv, Next PROVE ControlInv'
<1>1. ASSUME NEW b \in Browsers, Resume(b) PROVE ControlInv'
  BY <1>1, AnsweringSteps, LoginAcceptedStep, GuardAdmitsStep, IntentRecordedStep,
     ApplyWriteStep, ChangeVerifiedStep, ChangeReplacesStep, ChangeFailsLateStep DEF Resume
<1> QED BY <1>1, LoginBeginStep, RequestStep, TickStep, RestartStep DEF Next

LEMMA ControlStutter ==
  ASSUME ControlInv, UNCHANGED vars PROVE ControlInv'
<1>1. /\ UNCHANGED <<now, accountVars, sessionVars, cookie, storeVars, crashes>>
      /\ pc' = pc /\ job' = job
  BY DEF vars
<1>2. WorldInv' /\ Evolves
  BY <1>1, SameWorld
<1>3. ASSUME NEW c \in Browsers PROVE RequestInv(c)'
  BY <1>1, <1>2, OthersKept DEF WorldInv
<1> QED BY <1>1, <1>2, <1>3, TypesKept DEF ControlInv, WorldInv, TypeOK, TableInv

-----------------------------------------------------------------------------
(* The theorems.                                                           *)

\* ControlInv is inductive: it holds in every state of the control plane.
THEOREM ControlInvariant == Spec => []ControlInv
<1>1. ControlInv /\ [Next]_vars => ControlInv'
  BY ControlStep, ControlStutter
<1> QED BY ControlInit, <1>1, PTL DEF Spec

\* Every variable keeps its type; in particular the table of sessions never
\* outgrows _SESSION_LIMIT (_create_session_locked), whatever the order in
\* which logins, guards and account changes take the lock.
THEOREM AdminTypeCorrect == Spec => []TypeOK
<1>1. ControlInv => TypeOK
  BY DEF ControlInv
<1> QED BY ControlInvariant, <1>1, PTL

\* A live session of the account in force was opened with that account's
\* password: a login that verified the old one while the account was being
\* replaced (login and change_account, admin_security.py) leaves no session
\* that the guard accepts.
THEOREM OldPasswordIsWorthless == Spec => []SessionsKnowPassword
<1>1. ControlInv => SessionsKnowPassword
  BY Parts DEF RequestInv, PasswordInv, SessionsKnowPassword
<1> QED BY ControlInvariant, <1>1, PTL

\* No revision of the account or of a managed file was left behind without a
\* durable request for it (audit_intent, admin_api.py), across failed audits,
\* failed fsyncs and restarts.
THEOREM ChangesAreOnRecord == Spec => []ChangesAreAudited
<1>1. ControlInv => ChangesAreAudited
  BY DEF ControlInv
<1> QED BY ControlInvariant, <1>1, PTL

\* Only the guard lets a request in.
LEMMA OnlyGuardAdmits ==
  ASSUME ControlInv, [Next]_vars, NEW b \in Browsers, pc[b] = "guard", pc'[b] = "handle"
  PROVE  GuardAdmits(b)
<1>1. pc \in [Browsers -> Points]
  BY TypesKept
<1>2. ASSUME NEW c \in Browsers, NEW p, Go(c, p) PROVE c = b /\ p = "handle"
  BY <1>1, <1>2 DEF Go
<1>3. ASSUME NEW c \in Browsers, NEW p \in Passwords, NEW code, LoginBegin(c, p, code) PROVE FALSE
  BY <1>2, <1>3 DEF LoginBegin
<1>4. ASSUME NEW c \in Browsers, NEW r, Request(c, r) PROVE FALSE
  BY <1>2, <1>4 DEF Request
<1>5. ASSUME NEW c \in Browsers, Answer(c) \/ Conclude(c) \/ ConcludeFailed(c) PROVE FALSE
  BY <1>2, <1>5 DEF Answer, Conclude, ConcludeFailed
<1>6. ASSUME NEW c \in Browsers, Resume(c) PROVE GuardAdmits(b)
  <2>1. CASE LoginAccepted(c)
    BY <2>1, <1>2 DEF LoginAccepted
  <2>2. CASE IntentRecorded(c)
    BY <2>2, <1>2 DEF IntentRecorded
  <2>3. CASE ApplyWrite(c)
    BY <2>3, <1>5 DEF ApplyWrite
  <2>4. CASE \E p, new \in Passwords : ChangeVerified(c, p, new)
    BY <2>4, <1>2 DEF ChangeVerified
  <2>5. CASE ChangeReplaces(c)
    BY <2>5, <1>2 DEF ChangeReplaces
  <2>6. CASE GuardAdmits(c)
    BY <2>6, <1>2, <1>5 DEF GuardAdmits
  <2>7. CASE \/ LoginRejected(c) \/ LoginRecorded(c) \/ LoginNotRecorded(c)
             \/ GuardDeclines(c) \/ GuardRefuses(c) \/ Logout(c) \/ IntentFails(c)
    BY <2>7, <1>5 DEF LoginRejected, LoginRecorded, LoginNotRecorded, GuardDeclines,
                      GuardRefuses, Logout, IntentFails
  <2>8. CASE \/ ApplyFails(c) \/ ApplyCheck(c) \/ Complete(c) \/ ChangeRefused(c)
             \/ ChangeFails(c) \/ ChangeFailsLate(c) \/ ChangeAnswered(c)
    BY <2>8, <1>5 DEF ApplyFails, ApplyCheck, Complete, ChangeRefused, ChangeFails,
                      ChangeFailsLate, ChangeAnswered
  <2> QED BY <1>6, <2>1, <2>2, <2>3, <2>4, <2>5, <2>6, <2>7, <2>8 DEF Resume
<1>7. CASE Tick
  BY <1>7 DEF Tick
<1>8. CASE Restart
  BY <1>8 DEF Restart
<1>9. CASE UNCHANGED vars
  BY <1>9 DEF vars
<1> QED BY <1>3, <1>4, <1>6, <1>7, <1>8, <1>9 DEF Next

\* authorize() lets a request in only with a session of the account in force,
\* although the guard read the account before it took the lock.
THEOREM AdmissionIsCurrent == Spec => AdmittedIsCurrent
<1> DEFINE Current ==
             \A b \in Browsers : pc[b] = "guard" /\ pc'[b] = "handle" =>
                                    sessions[job[b].sid].rev = account.rev
<1>1. ASSUME ControlInv, [Next]_vars PROVE Current
  <2> SUFFICES ASSUME NEW b \in Browsers, pc[b] = "guard", pc'[b] = "handle"
               PROVE  sessions[job[b].sid].rev = account.rev
    OBVIOUS
  <2>1. GuardAdmits(b)
    BY <1>1, OnlyGuardAdmits
  <2>2. job[b].sid \in DOMAIN sessions /\ sessions[job[b].sid].rev = job[b].snap.rev
    BY <2>1, <1>1, TableKept DEF GuardAdmits, Admits
  <2>3. job[b].snap.rev = account.rev
    BY <2>2, <1>1, TypesKept DEF RequestInv, GuardInv
  <2> QED BY <2>2, <2>3
<1>2. ControlInv /\ [Next]_vars => [Current]_vars
  BY <1>1
<1> QED BY ControlInvariant, <1>2, PTL DEF Spec, AdmittedIsCurrent

=============================================================================
