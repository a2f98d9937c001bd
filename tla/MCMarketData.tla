---------------------------- MODULE MCMarketData ----------------------------
(***************************************************************************)
(* Model-checking instance of the market data a running service holds: the *)
(* quotes and yields of its generations, the price histories, and the rows *)
(* that a start reads back.  Each behaviour exercises one of the three and *)
(* leaves the others as they began.                                        *)
(***************************************************************************)
EXTENDS MarketState, HistoryCache, StorageRestore, TLC

CONSTANTS s1, s2, s3

VARIABLE part

\* A symbol that is redefined and then disabled.
MCOneSymbol == {s1}
MCCatalog == <<s1 :> 1, s1 :> 2, s1 :> 0>>
MCYieldDefs == {<<s1, 2>>}
MCDividendDefs == {<<s1, 1>>}
MCRank == [official |-> 0, proxy |-> 1]

\* Two recipes for one symbol and one that would close a cycle.
MCThreeSymbols == {s1, s2, s3}
MCRecipeChoices ==
  {<<s3, [op |-> "divide", inputs |-> <<s1, s2>>]>>,
   <<s3, [op |-> "inverse", inputs |-> <<s1>>]>>,
   <<s1, [op |-> "inverse", inputs |-> <<s3>>]>>}
MCBackfills == {<<s1, "1m", {0, 3}>>, <<s1, "1d", {0}>>, <<s2, "5m", {1, 3}>>}
MCHistoryCatalogs == {{s1}, {s3}, {s1, s2}}

MCStoredSymbols == <<s1, s2>>
MCRetention == [minute |-> 0, aggregate |-> 0, daily |-> 1]

allVars == <<part, marketVars, histVars, storedVars>>

Init ==
  /\ part \in {"market", "history", "stored"}
  /\ MarketInit /\ HistoryInit /\ StoredInit

MarketPart  == part = "market" /\ MarketNext /\ UNCHANGED <<part, histVars, storedVars>>
HistoryPart == part = "history" /\ HistoryNext /\ UNCHANGED <<part, marketVars, storedVars>>
StoredPart  == part = "stored" /\ StoredNext /\ UNCHANGED <<part, marketVars, histVars>>

Next == MarketPart \/ HistoryPart \/ StoredPart

Spec == Init /\ [][Next]_allVars
=============================================================================
