-------------------------- MODULE CreditAdmission --------------------------
(***************************************************************************)
(* The credit estimate of the route compiler (_build_credit_estimates) and *)
(* the admission of a catalog on it: grandfathering in                     *)
(* InstrumentCatalogRuntime._incremental_budget_errors, and the compiler's *)
(* own incremental_credit_budget_errors.                                   *)
(*                                                                         *)
(* An instrument is reduced to what the estimate reads: its asset class,   *)
(* cadences, compiled chains, and the symbols a derived route depends on.  *)
(* Seconds, days and pages are the real ones.                              *)
(***************************************************************************)
EXTENDS Integers, Sequences, FiniteSetsExt

CONSTANTS
  CreditCatalogs, \* the catalogs that may be staged: instruments by symbol
  Budgets,        \* the settings: a daily limit for each metered provider, and the reserve
  Cost,           \* Cost[p]: credits of one request, 0 for a provider that is not metered
  FxProviders,    \* the installed providers of a USD spoke, in order
  CoinsPerBatch

VARIABLES
  activeCatalog,
  budget,
  proposal        \* the candidate of the job under way, or NoProposal

creditVars == <<activeCatalog, budget, proposal>>

NoProposal == [x \in {} |-> {}]

DaySeconds == 86400
SharedQuoteCache == 600
PageBars == 5000
Up(a, b) == (a + b - 1) \div b
AtLeast(a, b) == IF a > b THEN a ELSE b
AtMost(a, b) == IF a < b THEN a ELSE b
Total(S, f(_)) == MapThenSumSet(f, S)

(***************************************************************************)
(* The demands: who is asked for what, how often, and on whose behalf.     *)
(***************************************************************************)
Scope(p, class) == IF p = "twelve_data" /\ class = "fx" THEN "fx_reserved" ELSE "general"

Demand(p, cap, s, group, basis, poll, class, item, first) ==
  [provider |-> p, cap |-> cap, symbol |-> s, group |-> group, basis |-> basis,
   poll |-> poll, scope |-> Scope(p, class), committed |-> first, days |-> item.days]

\* One demand for every provider of a chain; the primary commits to it.
OfChain(chain, cap, s, group, basis, poll, class, item) ==
  {Demand(chain[k], cap, s, group, basis, poll, class, item, k = 1) : k \in DOMAIN chain}

On(chain) == {chain[k] : k \in DOMAIN chain}
RoutedUses(c, p) == {r \in (DOMAIN c) \X {"quote", "history"} : p \in On(c[r[1]].chain[r[2]])}

DirectDemands(c) ==
  UNION {OfChain(c[s].chain[cap], cap, s, <<"direct_route">>, <<"direct_route">>, c[s].poll[cap],
                 c[s].class, c[s]) : s \in DOMAIN c, cap \in {"quote", "history"}}

SyntheticDemands(c) ==
  UNION {UNION {OfChain(c[d].chain[cap], cap, d, <<"synthetic", s>>, <<"synthetic", s>>, c[s].poll[cap],
                        c[d].class, c[s]) : d \in c[s].inputs \cap DOMAIN c}
          : <<s, cap>> \in RoutedUses(c, "synthetic")}

\* The spokes of every cross share their requests: one group for all of them.
SpokeDemands(c) ==
  UNION {UNION {OfChain(FxProviders, cap, d, <<"fx_spoke">>, <<"fx_spoke", s>>, c[s].poll[cap], "fx", c[s])
                  : d \in c[s].spokes}
          : <<s, cap>> \in {r \in RoutedUses(c, "synthetic_fx") : c[r[1]].class = "fx"}}

\* The pairs of a market-ratio yield: history of listed pairs by their own
\* chains, and of pairs outside the catalog from CoinGecko.
RatioDemands(c) ==
  UNION {LET outside == c[s].ratio \ DOMAIN c
             basis == <<"staking_ratio", s>>
         IN IF outside # {}
            THEN {Demand("coingecko", "history", d, basis, basis, c[s].poll.yield, "crypto", c[s], TRUE)
                    : d \in outside}
            ELSE UNION {OfChain(c[d].chain.history, "history", d, basis, basis, c[s].poll.yield,
                                c[d].class, c[s]) : d \in c[s].ratio}
          : s \in DOMAIN c}

Demands(c) ==
  {d \in DirectDemands(c) \cup SyntheticDemands(c) \cup SpokeDemands(c) \cup RatioDemands(c) :
     Cost[d.provider] > 0}

(***************************************************************************)
(* The lines: demands for the same thing merged at the fastest cadence.    *)
(***************************************************************************)
Key(d) == <<d.provider, d.cap, d.symbol, d.group>>

\* _collector_history_profile: a cold start with its pages, then refreshes.
HistoryRequests(p, poll, days) ==
  LET cycles == Up(DaySeconds, poll)
      retained == {<<60, AtMost(2, days)>>, <<300, AtMost(45, days)>>}
      cold == 1 + Total(retained, LAMBDA r : Up(AtLeast(1, Up(r[2] * DaySeconds, r[1])), PageBars))
      steady == 1 + Total(retained, LAMBDA r : Up(AtLeast(1, Up(poll, r[1]) + 2), PageBars))
  IN IF p = "alpha_vantage" THEN cycles ELSE cold + AtLeast(0, cycles - 1) * steady

\* The staking dependencies are single requests; the collector pages its own.
Requests(ds) ==
  LET poll == Min({d.poll : d \in ds})
      one == CHOOSE d \in ds : TRUE
      paged == one.cap = "history" /\ one.group[1] # "staking_ratio"
  IN IF paged THEN HistoryRequests(one.provider, poll, Max({d.days : d \in ds}))
     ELSE Up(DaySeconds, poll)

MergedDemand(ds) ==
  LET one == CHOOSE d \in ds : TRUE
  IN [provider |-> one.provider, cap |-> one.cap, symbol |-> one.symbol,
      bases |-> {d.basis : d \in ds}, scopes |-> {d.scope : d \in ds},
      committed |-> \E d \in ds : d.committed,
      batches |-> 1, credits |-> Requests(ds) * Cost[one.provider], group |-> one.group]

\* Every CoinGecko quote comes from one shared batch refresh.
CoinLine(c, ds) ==
  LET coins == {r[1] : r \in RoutedUses(c, "coingecko")}
      batches == Up(Cardinality(coins) + 1, CoinsPerBatch)
      refreshes == Up(DaySeconds, AtLeast(SharedQuoteCache, Min({d.poll : d \in ds})))
  IN [provider |-> "coingecko", cap |-> "quote", symbol |-> "*",
      bases |-> {d.basis : d \in ds} \cup {<<"shared_batch_cache">>}, scopes |-> {d.scope : d \in ds},
      committed |-> \E d \in ds : d.committed,
      batches |-> batches, credits |-> refreshes * batches * Cost["coingecko"], group |-> <<"shared">>]

Lines(c) ==
  LET ds == Demands(c)
      coin == {d \in ds : d.provider = "coingecko" /\ d.cap = "quote"}
  IN {MergedDemand({d \in ds : Key(d) = k}) : k \in {Key(d) : d \in ds \ coin}}
     \cup (IF coin = {} THEN {} ELSE {CoinLine(c, coin)})

(***************************************************************************)
(* Admission                                                               *)
(***************************************************************************)
Committed(lines, p, scopes) ==
  {l \in lines : l.committed /\ l.provider = p /\ l.scopes \cap scopes # {}}
AnyScope == {"general", "fx_reserved"}
Sum(lines) == Total(lines, LAMBDA l : l.credits)

\* line_identity of the compiler counts the shared batches of a line,
\* _credit_line_identity of the runtime does not.
Identity(l, exact) ==
  <<l.cap, l.symbol, l.bases, l.scopes, IF exact THEN l.batches ELSE 0>>

RetainedOfActive(was, becomes) == \* mutant: what the active catalog used is kept for it
  was

RetainedOf(was, becomes) == AtMost(was, becomes)

\* The common part of exactly the same demand.
Retained(active, candidate, exact) ==
  LET Of(lines, i) == {l \in lines : Identity(l, exact) = i}
      Ids(lines) == {Identity(l, exact) : l \in lines}
  IN Total(Ids(active) \cap Ids(candidate),
           LAMBDA i : RetainedOf(Sum(Of(active, i)), Sum(Of(candidate, i))))

Fits(active, candidate, exact, limit) ==
  Sum(candidate) <= AtLeast(limit, Retained(active, candidate, exact))

\* The Twelve Data credits outside the foreign-exchange reserve.
GeneralLimit(b) ==
  b.limit["twelve_data"] - AtMost(b.reserve, AtLeast(0, b.limit["twelve_data"] - 1))

\* No CreditBudgetViolation: each provider's total, and Twelve Data's general part.
Admits(b, active, candidate, exact) ==
  /\ \A p \in DOMAIN b.limit :
       Fits(Committed(active, p, AnyScope), Committed(candidate, p, AnyScope), exact, b.limit[p])
  /\ Fits(Committed(active, "twelve_data", {"general"}), Committed(candidate, "twelve_data", {"general"}),
          exact, GeneralLimit(b))

CreditInit == activeCatalog \in CreditCatalogs /\ budget \in Budgets /\ proposal = NoProposal

\* An activation or a rollback is asked for.
Propose ==
  /\ proposal = NoProposal /\ proposal' \in CreditCatalogs \ {activeCatalog}
  /\ UNCHANGED <<activeCatalog, budget>>

\* The budget check of _run_job: the candidate becomes active, or the job fails.
Decide ==
  /\ proposal # NoProposal /\ proposal' = NoProposal
  /\ activeCatalog' = IF Admits(budget, Lines(activeCatalog), Lines(proposal), FALSE)
                       THEN proposal ELSE activeCatalog
  /\ UNCHANGED budget

\* The operator restarts with other limits; the active catalog stays.
ChangeLimits == budget' \in Budgets /\ proposal' = NoProposal /\ UNCHANGED activeCatalog

CreditNext == Propose \/ Decide \/ ChangeLimits

(***************************************************************************)
(* Properties.                                                             *)
(***************************************************************************)

\* Demand that is neither new nor larger than what the same line used before.
NothingAdded(was, becomes) ==
  \A l \in becomes : l.credits <= Sum({m \in was : Identity(m, FALSE) = Identity(l, FALSE)})

\* Grandfathering never makes room: a catalog admitted above a provider's limit
\* adds no upstream demand on it, no replacement route, no faster polling, even
\* if it drops more than it adds ("a replacement route, a new symbol, or a faster
\* polling delta must fit the configured budget", _retained_committed_credits).
NoGrowthOverBudget ==
  \A p \in DOMAIN budget.limit :
    LET was == Committed(Lines(activeCatalog), p, AnyScope)
        becomes == Committed(Lines(activeCatalog'), p, AnyScope)
    IN Sum(becomes) > budget.limit[p] => NothingAdded(was, becomes)

\* No admission lets general traffic into the credits Twelve Data keeps for
\* foreign exchange, beyond what it already used there.
ReserveNotInvaded ==
  LET was == Committed(Lines(activeCatalog), "twelve_data", {"general"})
      becomes == Committed(Lines(activeCatalog'), "twelve_data", {"general"})
      reserve == AtMost(budget.reserve, budget.limit["twelve_data"] - 1)
  IN Sum(becomes) > budget.limit["twelve_data"] - reserve => NothingAdded(was, becomes)

\* The two budget checks of the repository agree: what the compiler's
\* incremental_credit_budget_errors lets through, the runtime admits; the runtime
\* admits more only where the number of shared CoinGecko batches changed.
ChecksAgree ==
  proposal # NoProposal =>
    LET active == Lines(activeCatalog)
        candidate == Lines(proposal)
        byCompiler == Admits(budget, active, candidate, TRUE)
        byRuntime == Admits(budget, active, candidate, FALSE)
        sameBatches == {l.batches : l \in active} = {l.batches : l \in candidate}
    IN (byCompiler => byRuntime) /\ (byRuntime /\ sameBatches => byCompiler)

\* The budget check of a job (_incremental_budget_errors) agrees with the
\* compiler's, and what it admits adds nothing above a limit or in the reserve.
AdmissionSound ==
  [][/\ ChecksAgree
     /\ activeCatalog' # activeCatalog => NoGrowthOverBudget /\ ReserveNotInvaded]_creditVars
=============================================================================
