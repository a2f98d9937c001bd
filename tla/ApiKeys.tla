------------------------------ MODULE ApiKeys ------------------------------
(***************************************************************************)
(* Client credentials (api_keys.py): the durable table and the bootstrap   *)
(* marker (storage/database.py), the records in memory that authenticate   *)
(* clients, and the administrator routes that change both (admin_api.py).  *)
(*                                                                         *)
(* A request runs on the event loop.  It reads what it needs, waits for    *)
(* ApiKeyManager._write_lock, waits for the writer thread to commit, and   *)
(* then changes the records in memory.  A key is identified by its digest, *)
(* which the table keeps unique; names and hints are left out.             *)
(***************************************************************************)
EXTENDS Integers, Sequences, FiniteSets, Functions

CONSTANTS
  Digests,
  Admins,      \* requests to the administrator API
  KeyTime,     \* bound: time that passes
  KeyCrashes   \* bound: restarts

ASSUME KeysAssumption == KeyTime \in Nat /\ KeyCrashes \in Nat

VARIABLES
  kNow,
  table,     \* api_keys in SQLite, by digest
  marker,    \* auth_metadata: legacy_api_key_bootstrap = complete
  records,   \* ApiKeyManager._records, by digest
  phase,     \* how far start() is
  legacy,    \* QUICKPRICE_API_KEY_HASHES of this process
  line,      \* _write_lock: the first holds it, the others wait in order
  kpc, req,  \* where each request is, and what it asks for
  kCrashes,
  answered,  \* history: digests whose revocation was answered
  admitted   \* history: digests an administrator or the first start added

keyVars == <<kNow, table, marker, records, phase, legacy, line, kpc, req, kCrashes,
             answered, admitted>>

Forever == KeyTime + 1
Records == [exp : 0..Forever, revoked : BOOLEAN]
NoReq == [op |-> "none", ds |-> {}, exp |-> 0]

NewRecord(e) == [exp |-> e, revoked |-> FALSE]
Added(tbl, ds, e) ==
  [d \in DOMAIN tbl \cup ds |-> IF d \in DOMAIN tbl THEN tbl[d] ELSE NewRecord(e)]
IsActive(r) == ~r.revoked /\ kNow < r.exp
Listed(d) == d \in DOMAIN records /\ ~records[d].revoked

\* authenticate_digest
Authenticates(d) == phase = "up" /\ d \in DOMAIN records /\ IsActive(records[d])

KeysInit ==
  /\ kNow = 0 /\ table = << >> /\ marker = FALSE /\ records = << >>
  /\ phase = "down" /\ legacy = {} /\ line = << >>
  /\ kpc = [a \in Admins |-> "idle"] /\ req = [a \in Admins |-> NoReq]
  /\ kCrashes = 0 /\ answered = {} /\ admitted = {}

KeysTypeOK ==
  /\ kNow \in 0..KeyTime /\ marker \in BOOLEAN
  /\ DOMAIN table \subseteq Digests /\ Range(table) \subseteq Records
  /\ DOMAIN records \subseteq Digests /\ Range(records) \subseteq Records
  /\ phase \in {"down", "bootstrap", "reload", "up"}
  /\ kpc \in [Admins -> {"idle", "waiting", "writing", "written"}]
  /\ \A i, j \in 1..Len(line) : line[i] = line[j] => i = j
  /\ Range(line) = {a \in Admins : kpc[a] # "idle"}

-----------------------------------------------------------------------------
(* start(): the environment may name other hashes at every start.          *)

Start(env) ==
  /\ phase = "down"
  /\ legacy' = env
  /\ phase' = IF marker THEN "reload" ELSE "bootstrap"
  /\ UNCHANGED <<kNow, table, marker, records, line, kpc, req, kCrashes, answered, admitted>>

\* One transaction: rows that exist stay as they are.
Bootstrap ==
  /\ phase = "bootstrap"
  /\ table' = Added(table, legacy, Forever)
  /\ marker' = TRUE
  /\ admitted' = IF marker THEN admitted ELSE admitted \cup legacy
  /\ phase' = "reload"
  /\ UNCHANGED <<kNow, records, legacy, line, kpc, req, kCrashes, answered>>

Reload ==
  /\ phase = "reload"
  /\ records' = table /\ phase' = "up"
  /\ UNCHANGED <<kNow, table, marker, legacy, line, kpc, req, kCrashes, answered, admitted>>

\* The process ends: by a crash, or because start() raised.
Stop ==
  /\ phase # "down" /\ kCrashes < KeyCrashes
  /\ kCrashes' = kCrashes + 1
  /\ phase' = "down" /\ records' = << >> /\ line' = << >>
  /\ kpc' = [a \in Admins |-> "idle"] /\ req' = [a \in Admins |-> NoReq]
  /\ UNCHANGED <<kNow, table, marker, legacy, answered, admitted>>

-----------------------------------------------------------------------------
(* Requests.                                                               *)

Ask(a, op, ds, e) ==
  /\ phase = "up" /\ kpc[a] = "idle"
  /\ kpc' = [kpc EXCEPT ![a] = "waiting"]
  /\ req' = [req EXCEPT ![a] = [op |-> op, ds |-> ds, exp |-> e]]
  /\ line' = Append(line, a)
  /\ UNCHANGED <<kNow, table, marker, records, phase, legacy, kCrashes, answered, admitted>>

\* A generated secret is new.
Create(a, d, e) ==
  /\ d \notin DOMAIN table \cup UNION {req[b].ds : b \in Admins}
  /\ Ask(a, "add", {d}, e)

ImportMany(a, ds, e) == ds # {} /\ Ask(a, "add", ds, e)

\* PATCH with an expiry, and PATCH with a name only: the second keeps the
\* expiry that it reads before it waits for the lock.
SetExpiry(a, d, e) == Listed(d) /\ Ask(a, "expiry", {d}, e)
Rename(a, d) == Listed(d) /\ Ask(a, "rename", {d}, records[d].exp)

Revoke(a, d) == Ask(a, "revoke", {d}, 0)

Leave(a) ==
  /\ line' = Tail(line)
  /\ kpc' = [kpc EXCEPT ![a] = "idle"] /\ req' = [req EXCEPT ![a] = NoReq]

Holds(a) == line # << >> /\ Head(line) = a

\* _ensure_unique and _active_record, under the lock
Permitted(a) ==
  IF req[a].op = "add" THEN req[a].ds \cap DOMAIN records = {}
  ELSE \A d \in req[a].ds : Listed(d)

Enter(a) ==
  /\ Holds(a) /\ kpc[a] = "waiting"
  /\ IF Permitted(a)
       THEN kpc' = [kpc EXCEPT ![a] = "writing"] /\ UNCHANGED <<line, req>>
       ELSE Leave(a)
  /\ UNCHANGED <<kNow, table, marker, records, phase, legacy, kCrashes, answered, admitted>>

\* Mutant: a revocation only changes the update time.
ChangedKeepsRevoked(tbl, r) ==
  CASE r.op = "add"    -> Added(tbl, r.ds, r.exp)
    [] r.op = "revoke" -> tbl
    [] OTHER -> [d \in DOMAIN tbl |-> IF d \in r.ds THEN [tbl[d] EXCEPT !.exp = r.exp] ELSE tbl[d]]

\* What a request changes, in the table and in memory alike.
Changed(tbl, r) ==
  CASE r.op = "add"    -> Added(tbl, r.ds, r.exp)
    [] r.op = "revoke" -> [d \in DOMAIN tbl |-> IF d \in r.ds THEN [tbl[d] EXCEPT !.revoked = TRUE] ELSE tbl[d]]
    [] OTHER -> [d \in DOMAIN tbl |-> IF d \in r.ds THEN [tbl[d] EXCEPT !.exp = r.exp] ELSE tbl[d]]

\* UNIQUE(key_hash), and "WHERE key_id = ? AND revoked_at IS NULL"
Applies(r) ==
  IF r.op = "add" THEN r.ds \cap DOMAIN table = {}
  ELSE \A d \in r.ds : d \in DOMAIN table /\ ~table[d].revoked

\* The writer commits the change and its audit event together.
Commit(a) ==
  /\ kpc[a] = "writing" /\ Applies(req[a])
  /\ table' = Changed(table, req[a])
  /\ admitted' = IF req[a].op = "add" THEN admitted \cup req[a].ds ELSE admitted
  /\ kpc' = [kpc EXCEPT ![a] = "written"]
  /\ UNCHANGED <<kNow, marker, records, phase, legacy, line, req, kCrashes, answered>>

\* The queue is full, the writer has failed, or SQLite refuses.
WriteFails(a) ==
  /\ kpc[a] = "writing"
  /\ Leave(a)
  /\ UNCHANGED <<kNow, table, marker, records, phase, legacy, kCrashes, answered, admitted>>

Publish(a) ==
  /\ kpc[a] = "written"
  /\ records' = Changed(records, req[a])
  /\ answered' = IF req[a].op = "revoke" THEN answered \cup req[a].ds ELSE answered
  /\ Leave(a)
  /\ UNCHANGED <<kNow, table, marker, phase, legacy, kCrashes, admitted>>

KeyTick ==
  /\ kNow < KeyTime /\ kNow' = kNow + 1
  /\ UNCHANGED <<table, marker, records, phase, legacy, line, kpc, req, kCrashes, answered, admitted>>

KeyStep(a) == Enter(a) \/ Commit(a) \/ WriteFails(a) \/ Publish(a)

KeysNext ==
  \/ \E env \in SUBSET Digests : Start(env)
  \/ Bootstrap \/ Reload \/ Stop \/ KeyTick
  \/ \E a \in Admins :
       \/ \E d \in Digests, e \in (kNow + 1)..Forever : Create(a, d, e) \/ SetExpiry(a, d, e)
       \/ \E ds \in SUBSET Digests, e \in (kNow + 1)..Forever : ImportMany(a, ds, e)
       \/ \E d \in Digests : Rename(a, d) \/ Revoke(a, d)
       \/ KeyStep(a)

KeysSpec == KeysInit /\ [][KeysNext]_keyVars

-----------------------------------------------------------------------------
\* Unless a change is between its commit and its publication, clients are
\* judged by exactly what is durable (ApiKeyManager, api_keys.py:77-274).
MemoryMirrors ==
  phase = "up" /\ (\A a \in Admins : kpc[a] # "written") => records = table

\* A key whose revocation was answered never authenticates a client again,
\* whatever is imported, patched or named in the environment afterwards and
\* however often the process restarts.
RevokedStaysRevoked == \A d \in answered : ~Authenticates(d)

\* README.md:451: a "durable bootstrap marker prevents later environment
\* changes from silently adding credentials".
NoSilentCredential == DOMAIN records \subseteq admitted

\* Clients are let in by what administrators decided and nothing else
\* (ApiKeyManager, api_keys.py): by keys that somebody admitted, that nobody
\* revoked, and that are durable, across failed writes and restarts.
CredentialsAsDecided == MemoryMirrors /\ RevokedStaysRevoked /\ NoSilentCredential
=============================================================================
