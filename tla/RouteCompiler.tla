---------------------------- MODULE RouteCompiler ----------------------------
(***************************************************************************)
(* The catalog compiler (providers/compiler.py): it turns the active       *)
(* definitions of a catalog into one provider chain for every capability   *)
(* an instrument requires, or refuses the catalog.                         *)
(*                                                                         *)
(* A definition is a record: on (enabled and not archived), owner, class,  *)
(* hub (a USD pair), base (its base currency is USD), history, dividend,   *)
(* yield ("none", "distribution" or "reported"), mode (how rewards accrue),*)
(* underlying (the pair its value is compared with), bind (vendor symbols  *)
(* by provider), routes (the chains the operator wrote), inputs (of its    *)
(* synthetic recipe), spokes (the USD pairs of a cross) and poll.          *)
(***************************************************************************)
EXTENDS Integers, Sequences, SequencesExt, FiniteSetsExt

CONSTANTS
  Symbols,        \* the symbols a catalog may list
  Offers,         \* [Symbols -> [name of a variant -> definition]]
  Descriptor,     \* [provider -> [kinds, vendor, canonical]]
  Shipped,        \* [builtin symbol -> [capability -> chain]]
  RatioPolicy,    \* [builtin staking symbol -> <<staking pair, underlying pair>>]
  CoinIds,        \* the pairs in the CoinGecko table of the release
  Configurations, \* the sets of providers whose credentials may be configured
  StrictMode,     \* production with background collection
  MaxChain, MaxDepth

ASSUME CompilerAssumption ==
  /\ MaxChain \in Nat \ {0} /\ MaxDepth \in Nat \ {0} /\ StrictMode \in BOOLEAN
  /\ \A s \in Symbols : \A n \in DOMAIN Offers[s] : DOMAIN Offers[s][n].bind \subseteq DOMAIN Descriptor

Caps == {"quote", "history", "dividend", "yield"}
Market == {"quote", "history"}

\* A catalog names the variant of every symbol; its contents are definitions.
\* (An image, because TLC enumerates an image only once.)
Catalogs ==
  {c : c \in {n \in [Symbols -> UNION {DOMAIN Offers[s] : s \in Symbols}] :
                \A s \in Symbols : n[s] \in DOMAIN Offers[s]}}
Of(name) == [s \in Symbols |-> Offers[s][name[s]]]
Active(c) == {s \in Symbols : c[s].on}

\* Every FX pair is bound to its own name at the FX vendors.
ProviderSymbols(s, d) ==
  d.bind @@ (IF d.class = "fx" THEN [p \in {"twelve_data", "alpha_vantage"} |-> s] ELSE <<>>)

RequiredCapabilities(d) ==
  {"quote"}
  \cup (IF d.history THEN {"history"} ELSE {})
  \cup (IF d.dividend \/ d.yield = "distribution" THEN {"dividend"} ELSE {})
  \cup (IF d.yield = "reported" THEN {"yield"} ELSE {})

(***************************************************************************)
(* Chains                                                                  *)
(***************************************************************************)
Supports(p, d, cap) == <<d.class, cap>> \in Descriptor[p].kinds
Unbound(p, s, d) == Descriptor[p].vendor /\ p \notin DOMAIN ProviderSymbols(s, d)

StakingYieldCandidates(s, d) ==
  IF s \in DOMAIN Shipped /\ Shipped[s].yield # <<>> THEN Shipped[s].yield
  ELSE IF d.mode = "value_accruing" THEN <<"staking_market_ratio_proxy">> ELSE <<>>

Candidates(s, d, cap) ==
  IF d.inputs # <<>> /\ cap \in Market THEN <<"synthetic">>
  ELSE CASE d.class = "crypto" /\ cap \in Market -> <<"binance", "okx", "kraken", "coingecko">>
         [] d.class = "crypto" /\ cap = "yield" /\ d.mode # "none" -> StakingYieldCandidates(s, d)
         [] d.class = "equity" /\ cap = "quote" -> <<"alpaca", "finnhub", "twelve_data", "alpha_vantage">>
         [] d.class = "equity" /\ cap = "history" -> <<"alpaca", "twelve_data", "alpha_vantage">>
         [] d.class = "equity" /\ cap = "dividend" -> <<"alpaca">>
         [] d.class = "equity" /\ cap = "yield" -> <<"fred">>
         [] d.class = "fx" -> IF d.hub THEN <<"twelve_data", "alpha_vantage">> ELSE <<"synthetic_fx">>
         [] OTHER -> <<>>

RecommendedProviderChain(s, d, cap, available) ==
  SelectSeq(Candidates(s, d, cap),
            LAMBDA p : p \in available /\ Supports(p, d, cap) /\ ~Unbound(p, s, d))

\* What the walk over one chain refuses outright, in the code's order: a
\* provider that is not configured is passed over before its binding is looked
\* at when the chain may be shortened, and refused when it may not.
Offends(p, s, d, cap, available, drop) ==
  \/ Descriptor[p].canonical # p
     /\ ~(d.owner = "builtin" /\ s \in DOMAIN Shipped /\ p \in Range(Shipped[s][cap]))
  \/ ~Supports(p, d, cap)
  \/ IF {p, Descriptor[p].canonical} \cap available = {}
     THEN ~drop
     ELSE \/ Unbound(p, s, d)
          \/ p = "coingecko" /\ cap \in Market /\ ~d.coinQuote
          \/ p = "staking_market_ratio_proxy" /\ d.mode # "value_accruing" /\ d.owner # "builtin"

Selected(chain, d, available) ==
  SelectSeq(chain, LAMBDA p : /\ {p, Descriptor[p].canonical} \cap available # {}
                              /\ p = "staking_market_ratio_proxy" => d.mode = "value_accruing")

SyntheticFits(selected, d) ==
  /\ "synthetic" \in Range(selected) => d.inputs # <<>>
  /\ "synthetic_fx" \in Range(selected) => ~d.base /\ d.inputs = <<>>

\* A chain, or the refusal of the whole catalog.
ValidateChain(s, d, cap, chain, available, drop, allowEmpty) ==
  LET selected == Selected(chain, d, available)
  IN [ok |-> /\ chain # <<>> /\ Len(chain) <= MaxChain /\ IsInjective(chain)
             /\ \A p \in Range(chain) : ~Offends(p, s, d, cap, available, drop)
             /\ IF selected = <<>> THEN allowEmpty ELSE SyntheticFits(selected, d),
      chain |-> selected]

CompileRoute(s, d, cap, available, strict) ==
  LET explicit == cap \in DOMAIN d.routes
      chain == IF explicit THEN d.routes[cap] ELSE RecommendedProviderChain(s, d, cap, available)
  IN IF cap \notin RequiredCapabilities(d) \/ (chain = <<>> /\ ~strict) THEN [ok |-> TRUE, chain |-> <<>>]
     ELSE ValidateChain(s, d, cap, chain, available, ~explicit \/ d.owner = "builtin",
                        ~strict \/ d.owner = "builtin")

(***************************************************************************)
(* Dependencies                                                            *)
(***************************************************************************)
\* The length of the longest chain of recipes below a symbol, counted to one
\* more than the catalog may have: a cycle is longer than any bound.
SyntheticDepth(c) ==
  LET below[n \in 0..(MaxDepth + 1)] ==
        [s \in Symbols |->
           IF n = 0 \/ ~c[s].on \/ c[s].inputs = <<>> THEN 0
           ELSE 1 + Max({0} \cup {below[n - 1][i] : i \in Range(c[s].inputs)})]
  IN below[MaxDepth + 1]

DependenciesSound(c) ==
  \A s \in Active(c) : /\ Range(c[s].inputs) \subseteq Active(c)
                       /\ SyntheticDepth(c)[s] <= MaxDepth

RatioPairs(s, d) == IF s \in DOMAIN RatioPolicy THEN RatioPolicy[s] ELSE <<s, d.underlying>>

RatioSound(c, routes) ==
  \A s \in Active(c) : "staking_market_ratio_proxy" \in Range(routes[s].yield) =>
     LET pairs == Range(RatioPairs(s, c[s]))
     IN IF s \in DOMAIN RatioPolicy /\ ~(pairs \subseteq Active(c))
        THEN pairs \subseteq CoinIds
        ELSE pairs \subseteq Active(c) /\ \A p \in pairs : routes[p].history # <<>>

\* compile_route_plan: the chains of the active symbols, or a refusal.
Compile(c, available, strict) ==
  LET made == [s \in Active(c) |-> [cap \in Caps |-> CompileRoute(s, c[s], cap, available, strict)]]
      routes == [s \in Active(c) |-> [cap \in Caps |-> made[s][cap].chain]]
  IN [ok |-> /\ DependenciesSound(c)
             /\ \A s \in Active(c), cap \in Caps : made[s][cap].ok
             /\ RatioSound(c, routes),
      routes |-> routes]
=============================================================================
