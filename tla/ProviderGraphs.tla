---------------------------- MODULE ProviderGraphs ----------------------------
(***************************************************************************)
(* The running provider graph across activations and restarts.  An         *)
(* activation compiles the candidate catalog, builds a complete graph of   *)
(* fresh adapters for it (_install_instance_bindings) and then, when the   *)
(* collectors run, keeps the live adapters whose footprint in the catalog  *)
(* did not change (catalog_runtime, MarketDataCoordinator): a kept adapter *)
(* goes on with the vendor symbols it was built with.  A restart builds    *)
(* everything again, with whatever credentials are configured by then.     *)
(***************************************************************************)
EXTENDS RouteCompiler

CONSTANTS
  Recipes,        \* the built-in recipes: records symbol, source, inputs
  RouterBound,    \* adapters that hold the router and cannot be carried over
  EditsPerJob     \* instruments one activation may change

VARIABLES
  inUse,          \* the active catalog
  configured,     \* the providers whose credentials are configured
  graph,          \* the running graph: [adapters, router, plan], or NoGraph
  job             \* the activation under way: [target, plan], or NoJob

graphVars == <<inUse, configured, graph, job>>

NoGraph == [adapters |-> <<>>, router |-> <<>>, plan |-> <<>>]
NoJob == [target |-> <<>>, plan |-> <<>>]

(***************************************************************************)
(* What every adapter is built with                                        *)
(***************************************************************************)
Routed(c, plan, p) == {s \in Active(c) : \E cap \in Caps : p \in Range(plan.routes[s][cap])}

\* _bindings_by_provider: the vendor symbols of the instruments routed to it.
BoundSymbols(c, plan, p) ==
  {<<s, ProviderSymbols(s, c[s])[p]>> : s \in {t \in Routed(c, plan, p) : p \in DOMAIN ProviderSymbols(t, c[t])}}

\* The USD pairs every cross of the catalog is computed from.
Spokes(c) == UNION {c[s].spokes : s \in {t \in Active(c) : c[t].class = "fx" /\ ~c[t].base}}

\* What the adapters of the release serve for others: the inputs of active
\* built-in recipes, the spokes of crosses, and the market-ratio pairs that
\* are not in the catalog themselves.
Internal(c, plan, p) ==
  UNION {{<<i, i>> : i \in r.inputs} : r \in {r \in Recipes : r.source = p /\ r.symbol \in Active(c)}}
  \cup (IF p \in {"twelve_data", "alpha_vantage"} THEN {<<i, i>> : i \in Spokes(c)} ELSE {})
  \cup (IF p = "coingecko"
        THEN {<<i, i>> : i \in UNION {Range(RatioPolicy[s]) \ Active(c) :
                                        s \in DOMAIN RatioPolicy \cap Routed(c, plan, "staking_market_ratio_proxy")}}
        ELSE {})

\* The cache lifetime the FX adapter gives every pair follows its polling.
CacheTimes(c, p) ==
  IF p = "twelve_data" THEN {<<s, c[s].poll>> : s \in {t \in Active(c) : c[t].class = "fx"}} ELSE {}

Adapter(c, plan, p) ==
  [serves |-> BoundSymbols(c, plan, p) \cup Internal(c, plan, p), keeps |-> CacheTimes(c, p)]

\* The order of installation: the release's own wiring, then the spokes, then
\* the compiled chains; a later one replaces an earlier one.
RouterOf(c, plan, available) ==
  [k \in (Symbols \cup UNION {r.inputs : r \in Recipes} \cup Spokes(c)) \X Market |->
     LET s == k[1]  cap == k[2]
         fx == SelectSeq(<<"twelve_data", "alpha_vantage">>, LAMBDA p : p \in available)
         sources == {r.source : r \in {r \in Recipes : s \in r.inputs}} \cap available
     IN IF s \in Active(c) /\ plan.routes[s][cap] # <<>> THEN plan.routes[s][cap]
        ELSE IF s \in Spokes(c) /\ fx # <<>> THEN fx
        ELSE IF s \in DOMAIN Shipped THEN SelectSeq(Shipped[s][cap], LAMBDA p : p \in available)
        ELSE SetToSeq(sources)]

Installed(available) == available \ {"synthetic"}

Fresh(c, plan, available) ==
  [adapters |-> [p \in Installed(available) |-> Adapter(c, plan, p)],
   router |-> RouterOf(c, plan, available), plan |-> plan]

\* compile_instrument_routes of every catalog; a function, so that TLC computes
\* each plan once.
RoutePlan ==
  [strict \in BOOLEAN |-> [available \in Configurations |-> [c \in Catalogs |->
     Compile(Of(c), available \cup {"synthetic"}, strict)]]]

(***************************************************************************)
(* Which adapters an activation keeps                                      *)
(***************************************************************************)
PolicyUnbound(d) == \* mutant: the vendor symbols are left out
  [class |-> d.class, routes |-> d.routes, yield |-> d.yield, mode |-> d.mode,
   underlying |-> d.underlying, dividend |-> d.dividend, inputs |-> d.inputs]

\* The fields of a definition that are taken to shape an adapter.
Policy(d) == [class |-> d.class, routes |-> d.routes, bind |-> d.bind, yield |-> d.yield, mode |-> d.mode,
              underlying |-> d.underlying, dividend |-> d.dividend, inputs |-> d.inputs]

\* _provider_runtime_footprints: one record for every instrument that is
\* routed to the adapter or carries a vendor symbol for it.
Footprint(c, plan, p) ==
  {<<s, {cap \in Caps : p \in Range(plan.routes[s][cap])}, Policy(c[s])>> :
     s \in {t \in Active(c) : p \in DOMAIN ProviderSymbols(t, c[t]) \/ t \in Routed(c, plan, p)}}

ReusableProviderNames(c, plan, d, candidate) ==
  {p \in DOMAIN Descriptor : LET print == Footprint(c, plan, p) IN print # {} /\ print = Footprint(d, candidate, p)}

\* The live adapters taken over, none of which may hold the old router.
Transferable(names, available) == (names \cap DOMAIN graph.adapters \cap Installed(available)) \ RouterBound

\* Nothing the collectors see changed: the same instruments, defined alike.
CanReuseCoordinator(c, d) ==
  LET seen(n) == {<<s, n[s]>> : s \in Active(Of(n))} IN seen(c) = seen(d)

Reconciled(fresh, kept) == [fresh EXCEPT !.adapters = [p \in DOMAIN @ |-> IF p \in kept THEN graph.adapters[p] ELSE @[p]]]

(***************************************************************************)
(* Steps                                                                   *)
(***************************************************************************)
\* _start_collectors: a catalog that does not compile leaves no collectors.
Started ==
  [available \in Configurations |-> [c \in Catalogs |->
     LET plan == RoutePlan[StrictMode][available][c]
     IN IF plan.ok THEN Fresh(Of(c), plan, available) ELSE NoGraph]]

GraphInit ==
  /\ inUse \in Catalogs /\ configured \in Configurations
  /\ RoutePlan[StrictMode][configured][inUse].ok
  /\ graph = Started[configured][inUse]
  /\ job = NoJob

ChangedSymbols(c, d) == {s \in Symbols : c[s] # d[s]}

RequireChangedRoutes(c, d, plan) ==
  \A s \in ChangedSymbols(c, d) \cap Active(Of(d)) :
     \A cap \in RequiredCapabilities(Of(d)[s]) : plan.routes[s][cap] # <<>>

\* What _run_job asks of a candidate before it is warmed; the active catalog
\* is compiled again, to compare budgets.
Admitted(c, d, available) ==
  LET candidate == RoutePlan[StrictMode][available][d]
  IN /\ candidate.ok
     /\ RequireChangedRoutes(c, d, candidate)
     /\ RoutePlan[FALSE][available][c].ok

Request(d) ==
  /\ job = NoJob /\ Cardinality(ChangedSymbols(inUse, d)) \in 1..EditsPerJob
  /\ Admitted(inUse, d, configured)
  /\ job' = [target |-> d, plan |-> RoutePlan[StrictMode][configured][d]]
  /\ UNCHANGED <<inUse, configured, graph>>

Activate ==
  LET fresh == Fresh(Of(job.target), job.plan, configured)
      names == ReusableProviderNames(Of(inUse), graph.plan, Of(job.target), job.plan)
  IN /\ job # NoJob
     /\ inUse' = job.target
     /\ graph' = IF graph = NoGraph THEN fresh
                 ELSE IF CanReuseCoordinator(inUse, job.target) THEN graph
                 ELSE Reconciled(fresh, Transferable(names, configured))
     /\ job' = NoJob
     /\ UNCHANGED configured

\* The process starts again, with the credentials it finds.
Restart(available) ==
  /\ configured' = available
  /\ graph' = Started[available][inUse]
  /\ job' = NoJob
  /\ UNCHANGED inUse

GraphNext == (\E d \in Catalogs : Request(d)) \/ Activate \/ (\E a \in Configurations : Restart(a))

(***************************************************************************)
(* Properties                                                              *)
(***************************************************************************)
Knows(p, s, v) == p \in DOMAIN graph.adapters /\ <<s, v>> \in graph.adapters[p].serves
Chain(s, cap) == Range(graph.router[s, cap])
Vendors(chain) == {p \in chain : Descriptor[p].vendor}

\* A market-data adapter that answers for an active instrument, fresh or kept,
\* knows it by the vendor symbol of the catalog in use: no activation leaves a
\* chain pointing at an adapter with yesterday's binding.
DirectRoutesServed ==
  graph # NoGraph => \A s \in Active(Of(inUse)), cap \in Market :
     \A p \in Vendors(Chain(s, cap)) : Knows(p, s, ProviderSymbols(s, Of(inUse)[s])[p])

\* The USD spokes a cross is computed from are answered by adapters that know
\* them, however the cross and its spokes came into the catalog.
SpokesServed ==
  graph # NoGraph => \A s \in Active(Of(inUse)), cap \in Market :
     "synthetic_fx" \in Chain(s, cap) =>
        \A i \in Of(inUse)[s].spokes : Chain(i, cap) # {} /\ \A p \in Vendors(Chain(i, cap)) : Knows(p, i, i)

\* An activation never publishes an instrument it added or changed without a
\* route for everything the instrument promises, unless a compiled catalog
\* already had it so.
PublishedIsRouted ==
  \A s \in Active(Of(inUse')) : inUse'[s] # inUse[s] =>
     \A cap \in RequiredCapabilities(Of(inUse')[s]) \cap Market :
        Range(graph'.router[s, cap]) \cap (DOMAIN graph'.adapters \cup {"synthetic"}) # {}

\* However activations and restarts follow one another, what the service
\* routes to after a switch is there and knows the symbol it is asked for
\* (_reusable_provider_names, _require_changed_routes).
RoutesServed ==
  [][<<inUse, graph>>' # <<inUse, graph>> =>
       DirectRoutesServed' /\ SpokesServed' /\ PublishedIsRouted]_graphVars
=============================================================================
