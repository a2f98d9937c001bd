----------------------------- MODULE MCPlanning -----------------------------
(***************************************************************************)
(* Model-checking instance of the rules a catalog is read, compiled, paid  *)
(* for, warmed and priced by.  Each behaviour exercises one of the six     *)
(* modules; the others keep one fixed initial state.                       *)
(***************************************************************************)
EXTENDS MCProviderGraphs, MarketSessions, WarmUp, CreditAdmission, CatalogUpgrade, SyntheticPrices

VARIABLE part

Parts == {"graphs", "sessions", "warm", "credit", "upgrade", "live", "bars"}

(***************************************************************************)
(* Sessions: eight days of half hours that hold a change to summer time.   *)
(***************************************************************************)
MCCalendars == {"us_equity", "fx_24x5", "always_open"}
MCWinter == -10
MCSummer == -8
MCArrivals == {t \in 0..LastHalfHour : t % 11 = 3}
MCAges == {-1, 0, 3, 9}

(***************************************************************************)
(* Warm-up: two rate-gated providers and a free one, up to five            *)
(* instruments, and three that need more than a quote.                     *)
(***************************************************************************)
MCGap == [slow |-> 3, other |-> 2, free |-> 0]
MCTimeout == [slow |-> 2, other |-> 1, free |-> 4]
QuoteFrom(p) == [dividend |-> FALSE, yield |-> "none", chain |-> [quote |-> <<p>>]]
Yielding(kindOfYield, quotes, dividends, yields) ==
  [dividend |-> FALSE, yield |-> kindOfYield,
   chain |-> [quote |-> quotes, dividend |-> dividends, yield |-> yields]]
MCYielding == {Yielding("annualized", <<"free">>, <<"slow">>, <<>>),
               Yielding("metric", <<"slow", "free">>, <<>>, <<"other">>),
               Yielding("metric", <<"free">>, <<>>, <<>>)}
WorkloadsTable == [1..5 -> {QuoteFrom("slow"), QuoteFrom("free")}]
               \cup [1..3 -> {QuoteFrom("slow"), QuoteFrom("other")} \cup MCYielding]

(***************************************************************************)
(* Credits: stocks on two vendors, FX with its reserved budget, coins that *)
(* share batches, and what is derived from them.                           *)
(***************************************************************************)
Paid(class, quotes, histories, poll) ==
  [class |-> class, chain |-> [quote |-> quotes, history |-> histories], days |-> 400,
   poll |-> [quote |-> poll, history |-> 43200, yield |-> 86400], inputs |-> {}, spokes |-> {}, ratio |-> {}]
PaidStock(poll) == Paid("equity", <<"twelve_data", "finnhub">>, <<>>, poll)
PaidCoin(quotes, histories, poll) == Paid("crypto", quotes, histories, poll)
Menu ==
  [stock  |-> {PaidStock(600), PaidStock(300),
               Paid("equity", <<"finnhub", "twelve_data">>, <<"twelve_data">>, 600)},
   twin   |-> {PaidStock(900)},
   hub    |-> {Paid("fx", <<"twelve_data">>, <<"twelve_data">>, 3600)},
   cross  |-> {[Paid("fx", <<"synthetic_fx">>, <<>>, 1800) EXCEPT !.spokes = {"USD:EUR", "USD:GBP"}]},
   coin   |-> {PaidCoin(<<"coingecko">>, <<"coingecko">>, poll) : poll \in {900, 300}},
   mix    |-> {[PaidCoin(<<"synthetic">>, <<"synthetic">>, 900) EXCEPT !.inputs = {"coin", "stock"}]},
   staked |-> {[PaidCoin(<<"coingecko">>, <<>>, 900) EXCEPT !.ratio = pair] : pair \in {{"coin", "away"}, {"coin"}}}]
ServedAs(S) == {f \in [S -> UNION {Menu[s] : s \in S}] : \A s \in S : f[s] \in Menu[s]}
CreditCatalogsTable ==
  UNION {ServedAs(S) : S \in {{"stock"}, {"stock", "twin"}, {"hub", "cross", "stock"}, {"coin", "stock", "mix"},
                             {"coin", "staked"}, {"hub"}, {"coin"}}}
MCCost == [twelve_data |-> 1, coingecko |-> 1, finnhub |-> 1, alpha_vantage |-> 1, synthetic |-> 0, synthetic_fx |-> 0]
MCBudgets == {[limit |-> [twelve_data |-> t, finnhub |-> 100, coingecko |-> g, alpha_vantage |-> 25], reserve |-> 100] :
                t \in {200, 300, 800}, g \in {100, 290}}
MCFxProviders == <<"twelve_data", "alpha_vantage">>

(***************************************************************************)
(* Upgrades: three releases; a chain grows twice, a provider is renamed,   *)
(* and the last release ships a symbol that an operator may have defined.  *)
(***************************************************************************)
MCReleases == 1..3
MCBuiltin == [r \in MCReleases |-> {"STETH", "WBETH"} \cup (IF r = 3 THEN {"NEW"} ELSE {})]
ShippedChainTable ==
  LET steth == <<<<"coingecko">>, <<"coingecko", "backing">>, <<"coingecko", "lido", "backing">>>>
      wbeth == <<<<"wbeth_rate", "ratio">>, <<"staking_rate", "ratio">>, <<"staking_rate", "ratio">>>>
  IN [r \in MCReleases |->
        [s \in MCBuiltin[r] |-> CASE s = "STETH" -> steth[r] [] s = "WBETH" -> wbeth[r] [] OTHER -> <<"coingecko">>]]
PriorDefaultsTable ==
  [r \in MCReleases |->
     [s \in MCBuiltin[r] |->
        {ShippedChainTable[q][s] : q \in {q \in 1..(r - 1) : s \in MCBuiltin[q]}} \ {ShippedChainTable[r][s]}]]
MCRenamed == [r \in MCReleases |-> IF r = 1 THEN <<>> ELSE [wbeth_rate |-> "staking_rate"]]
MCOperatorChains == {<<"coingecko">>, <<"ratio", "wbeth_rate">>}

MCWorkloads == WorkloadsTable
MCCreditCatalogs == CreditCatalogsTable
MCShippedChain == ShippedChainTable
MCPriorDefaults == PriorDefaultsTable

-----------------------------------------------------------------------------
allVars == <<part, graphVars, sessionVars, warmVars, creditVars, upgradeVars, syntheticVars>>

Init ==
  /\ part \in Parts
  /\ GraphInit
  /\ part # "graphs" => configured = Keyed /\ \A s \in Symbols : inUse[s] = "off"
  /\ SessionInit
  /\ part # "sessions" => calendar = "always_open"
  /\ WarmInit
  /\ part # "warm" => work = CHOOSE w \in Workloads : TRUE
  /\ CreditInit
  /\ part # "credit" => activeCatalog = (CHOOSE c \in CreditCatalogs : TRUE) /\ budget = (CHOOSE b \in Budgets : TRUE)
  /\ UpgradeInit
  /\ part # "upgrade" => release = 1 /\ file.format = 0
  /\ SyntheticInit
  /\ part # "bars" => bars = [left |-> {}, right |-> {}]
  /\ part # "live" => kind = "hub" /\ shape = "cross"

GraphPart   == part = "graphs" /\ GraphNext
               /\ UNCHANGED <<part, sessionVars, warmVars, creditVars, upgradeVars, syntheticVars>>
SessionPart == part = "sessions" /\ SessionNext
               /\ UNCHANGED <<part, graphVars, warmVars, creditVars, upgradeVars, syntheticVars>>
WarmPart    == part = "warm" /\ WarmNext
               /\ UNCHANGED <<part, graphVars, sessionVars, creditVars, upgradeVars, syntheticVars>>
CreditPart  == part = "credit" /\ CreditNext
               /\ UNCHANGED <<part, graphVars, sessionVars, warmVars, upgradeVars, syntheticVars>>
UpgradePart == part = "upgrade" /\ UpgradeNext
               /\ UNCHANGED <<part, graphVars, sessionVars, warmVars, creditVars, syntheticVars>>
LivePart    == part = "live" /\ LiveNext
               /\ UNCHANGED <<part, graphVars, sessionVars, warmVars, creditVars, upgradeVars, barVars>>
BarPart     == part = "bars" /\ FetchPage
               /\ UNCHANGED <<part, graphVars, sessionVars, warmVars, creditVars, upgradeVars, liveVars>>

Next == GraphPart \/ SessionPart \/ WarmPart \/ CreditPart \/ UpgradePart \/ LivePart \/ BarPart

Spec == Init /\ [][Next]_allVars
=============================================================================
