---------------------------- MODULE CatalogUpgrade ----------------------------
(***************************************************************************)
(* The managed catalog file across releases (managed_config.py).  Every    *)
(* read of the file reconciles its three generations with the built-in     *)
(* instruments of the running release: what the release defines is taken   *)
(* from it, what the operator may choose is kept, and shipped chains move  *)
(* to their successors.  Files of the first format and files written       *)
(* before a field was withdrawn are converted on the way.                  *)
(***************************************************************************)
EXTENDS Integers, Sequences, FiniteSets

CONSTANTS
  Releases,        \* release numbers
  Builtin,         \* [Releases -> the symbols it ships]
  ShippedChain,    \* [Releases -> [symbol -> chain]]
  PriorDefaults,   \* [Releases -> the chains that were a default before]
  Renamed,         \* [Releases -> [old provider name -> new name]]
  CustomSymbols,   \* symbols an operator may define
  OperatorChains,  \* chains an operator may write
  Polls,           \* polling intervals; DefaultPoll is the shipped one
  DefaultPoll,
  MaxWrites        \* bound: edits of the file

VARIABLES
  file,            \* the file: [format, active, staged, lkg] or a first-format policy
  release,         \* the installed release
  serving,         \* the process read the file and runs
  chosen,          \* what the operator last put into force, by built-in symbol
  writes

upgradeVars == <<file, release, serving, chosen, writes>>

Absent == [is |-> "absent"]
Refused == [is |-> "refused"]

(***************************************************************************)
(* Definitions and the baseline of a release                               *)
(***************************************************************************)
BuiltinDefinition(r, s) ==
  [owner |-> "builtin", core |-> r, on |-> TRUE, poll |-> DefaultPoll, historyPoll |-> 0,
   chain |-> ShippedChain[r][s], fallback |-> FALSE]

CustomDefinition == [owner |-> "custom", core |-> 0, on |-> TRUE, poll |-> DefaultPoll, historyPoll |-> 0,
                     chain |-> <<"custom">>, fallback |-> FALSE]

Baseline(r) == [s \in Builtin[r] |-> BuiltinDefinition(r, s)]
Document(a, s, l) == [format |-> 2, active |-> a, staged |-> s, lkg |-> l]

\* A first-format file names what is disabled and the intervals it overrides.
FromPolicy(policy, r) ==
  [s \in Builtin[r] |-> [BuiltinDefinition(r, s) EXCEPT
     !.on = s \notin policy.disabled,
     !.poll = IF s \in DOMAIN policy.polls THEN policy.polls[s] ELSE @]]

PolicyKnown(policy, r) == policy.disabled \cup DOMAIN policy.polls \subseteq Builtin[r]

(***************************************************************************)
(* Reading the file                                                        *)
(***************************************************************************)
\* A chain that was a shipped default becomes the shipped one; in any other
\* chain only withdrawn provider names are replaced.
MigratedNames(r, chain) == [k \in DOMAIN chain |-> IF chain[k] \in DOMAIN Renamed[r] THEN Renamed[r][chain[k]] ELSE chain[k]]

ReconciledChain(r, s, chain) ==
  IF chain \in PriorDefaults[r][s] THEN ShippedChain[r][s] ELSE MigratedNames(r, chain)

ReconciledDefinitionDefaults(r, s, d) == \* mutant: the release decides the interval
  [BuiltinDefinition(r, s) EXCEPT !.on = d.on, !.historyPoll = d.historyPoll,
     !.chain = IF d.chain = <<>> THEN @ ELSE ReconciledChain(r, s, d.chain)]

\* The operator's fields over the release's definition; a file written before
\* chains were declared has none.
ReconciledDefinition(r, s, d) ==
  [BuiltinDefinition(r, s) EXCEPT !.on = d.on, !.poll = d.poll,
     !.historyPoll = IF d.historyPoll # 0 \/ @ = 0 THEN d.historyPoll ELSE @,
     !.chain = IF d.chain = <<>> THEN @ ELSE ReconciledChain(r, s, d.chain)]

Customs(g) == {s \in DOMAIN g : g[s].owner = "custom"}

\* A built-in instrument the release does not know, or a custom one that has
\* the name of a built-in one, refuses the file.
Conflicts(g, r) == ((DOMAIN g \ Customs(g)) \ Builtin[r]) \cup (Customs(g) \cap Builtin[r])

ReconcileGeneration(g, r) ==
  IF Conflicts(g, r) # {} THEN Refused
  ELSE [s \in Builtin[r] \cup DOMAIN g |->
          IF s \notin DOMAIN g THEN BuiltinDefinition(r, s)
          ELSE IF g[s].owner = "custom" THEN g[s] ELSE ReconciledDefinition(r, s, g[s])]

OrAbsent(g, f(_)) == IF g = Absent THEN Absent ELSE f(g)

WithoutFallback(g) == [s \in DOMAIN g |-> IF g[s].owner = "builtin" THEN [g[s] EXCEPT !.fallback = FALSE] ELSE g[s]]

\* The withdrawn field goes from every generation before the strict parse.
Normalized(d) ==
  [d EXCEPT !.active = WithoutFallback(@), !.staged = OrAbsent(@, WithoutFallback), !.lkg = OrAbsent(@, WithoutFallback)]

ParsesGeneration(g) == g = Absent \/ \A s \in DOMAIN g : ~g[s].fallback
Parses(d) == ParsesGeneration(d.active) /\ ParsesGeneration(d.staged) /\ ParsesGeneration(d.lkg)

ReconcileDocument(d, r) ==
  LET one(g) == ReconcileGeneration(g, r)
      read == Document(one(d.active), OrAbsent(d.staged, one), OrAbsent(d.lkg, one))
  IN IF Refused \in {read.active, read.staged, read.lkg} THEN Refused ELSE read

Load(f, r) ==
  CASE f.format = 0 -> Document(Baseline(r), Absent, Absent)
    [] f.format = 1 -> IF PolicyKnown(f, r) THEN Document(FromPolicy(f, r), Absent, Absent) ELSE Refused
    [] OTHER -> LET d == Normalized(f) IN IF Parses(d) THEN ReconcileDocument(d, r) ELSE Refused

Read == Load(file, release)

(***************************************************************************)
(* Steps                                                                   *)
(***************************************************************************)
Chosen(g) == [s \in DOMAIN g \ Customs(g) |-> [on |-> g[s].on, poll |-> g[s].poll, chain |-> g[s].chain]]

\* Files of earlier releases: none, a policy, and a catalog with the withdrawn
\* field and without chains.
OldGeneration(r, p) == [s \in Builtin[r] |-> [BuiltinDefinition(r, s) EXCEPT !.fallback = TRUE, !.chain = <<>>, !.poll = p]]
OldFiles(r) ==
  {[format |-> 0]}
  \cup {[format |-> 1, disabled |-> {s}, polls |-> [t \in {s} |-> p]] : s \in Builtin[r], p \in Polls}
  \cup {Document(OldGeneration(r, DefaultPoll), Absent, OldGeneration(r, p)) : p \in Polls}

UpgradeInit ==
  /\ release \in Releases
  /\ file \in OldFiles(release)
  /\ serving = FALSE /\ chosen = <<>> /\ writes = 0

\* The process of a release starts: it reads the file and, when the reading
\* changed it, writes it back (persist_migration).
Boot(r) ==
  LET read == Load(file, r)
  IN /\ release' = r
     /\ serving' = (read # Refused)
     /\ file' = IF read = Refused THEN file ELSE read
     /\ chosen' = IF read = Refused THEN chosen
                  ELSE [s \in Builtin[r] |-> IF s \in DOMAIN chosen THEN chosen[s] ELSE Chosen(read.active)[s]]
     /\ UNCHANGED writes

Write(d) ==
  /\ serving /\ writes < MaxWrites
  /\ file' = d /\ writes' = writes + 1
  /\ UNCHANGED <<release, serving>>

StagedBase == IF Read.staged = Absent THEN Read.active ELSE Read.staged

\* stage_patch: the collection policy of a built-in instrument.
PolicyGeneration(g, s, on, poll) == [g EXCEPT ![s].on = on, ![s].poll = poll]

StagePatch(s, on, poll) ==
  /\ Write([Read EXCEPT !.staged = PolicyGeneration(StagedBase, s, on, poll)])
  /\ UNCHANGED chosen

\* patch: the same, straight into force.
Patch(s, on, poll) ==
  LET active == PolicyGeneration(Read.active, s, on, poll)
  IN /\ Write([Read EXCEPT !.active = active, !.lkg = Read.active])
     /\ chosen' = Chosen(active)

\* update_instrument: chains are the operator's, the rest of a built-in
\* definition is not (_assert_builtin_update_allowed).
BuiltinUpdateAllowed(d, e) == [d EXCEPT !.on = e.on, !.poll = e.poll, !.historyPoll = e.historyPoll, !.chain = e.chain] = e

StageChain(s, chain) ==
  LET updated == [StagedBase[s] EXCEPT !.chain = chain]
  IN /\ BuiltinUpdateAllowed(StagedBase[s], updated)
     /\ Write([Read EXCEPT !.staged = [StagedBase EXCEPT ![s] = updated]])
     /\ UNCHANGED chosen

CreateCustom(s) ==
  /\ s \notin DOMAIN StagedBase
  /\ Write([Read EXCEPT !.staged = [t \in DOMAIN StagedBase \cup {s} |-> IF t = s THEN CustomDefinition ELSE StagedBase[t]]])
  /\ UNCHANGED chosen

ActivateStaged ==
  /\ Read.staged # Absent
  /\ Write(Document(Read.staged, Absent, Read.active))
  /\ chosen' = Chosen(Read.staged)

Rollback ==
  /\ Read.lkg # Absent
  /\ Write(Document(Read.lkg, Absent, Read.active))
  /\ chosen' = Chosen(Read.lkg)

UpgradeNext ==
  \/ \E r \in Releases : Boot(r)
  \/ /\ serving
     /\ \/ \E s \in Builtin[release], on \in BOOLEAN, p \in Polls : StagePatch(s, on, p) \/ Patch(s, on, p)
        \/ \E s \in Builtin[release], chain \in OperatorChains : StageChain(s, chain)
        \/ \E s \in CustomSymbols : CreateCustom(s)
        \/ ActivateStaged \/ Rollback

(***************************************************************************)
(* Properties                                                              *)
(***************************************************************************)
\* What the operator put into force stays in force over any sequence of
\* upgrades, downgrades and restarts: whether an instrument is on, how often
\* it is polled, and a chain that is not itself a default of some release
\* (then only withdrawn provider names change in it).
ChoicesSurvive ==
  serving => \A s \in DOMAIN chosen \cap DOMAIN Read.active :
     LET now == Read.active[s]  was == chosen[s]
         default == \E r \in Releases : s \in Builtin[r] /\ (was.chain = ShippedChain[r][s] \/ was.chain \in PriorDefaults[r][s])
     IN /\ now.on = was.on /\ now.poll = was.poll
        /\ ~default => \E r \in Releases : now.chain \in {was.chain, MigratedNames(r, was.chain)}

\* Reading is settled after one pass: a catalog written by this release reads
\* back as itself, so no restart migrates again what a restart migrated.
ReloadStable == serving /\ file.format = 2 => Load(Read, release) = Read

\* A file is refused only for a name: a built-in instrument this release does
\* not have, or a custom one whose symbol it now ships.  No older format and
\* no generation kept for a rollback makes the process refuse its catalog.
RefusalExplained ==
  Load(file, release) = Refused =>
     \/ file.format = 1 /\ ~PolicyKnown(file, release)
     \/ file.format = 2 /\ \E g \in {file.active, file.staged, file.lkg} \ {Absent} : Conflicts(g, release) # {}

\* Upgrades keep the catalog (_reconcile_document): it is refused only for a
\* name, read the same at every start, and contains what the operator chose.
CatalogSurvives == ChoicesSurvive /\ ReloadStable /\ RefusalExplained
=============================================================================
