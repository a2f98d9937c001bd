-------------------------- MODULE MCProviderGraphs --------------------------
(***************************************************************************)
(* Model-checking instance of ProviderGraphs: five instruments, one of     *)
(* every kind of route.  ETH has a shipped chain of two vendors, WBETH a   *)
(* recipe and a market-ratio yield over ETH, EUR:GBP is a cross of USD     *)
(* spokes, USD:EUR the hub itself, and COIN is custom: bound to one vendor *)
(* symbol or another, given a chain of its own, or made a recipe.          *)
(***************************************************************************)
EXTENDS ProviderGraphs, TLC

MCSymbols == {"ETH:USDC", "WBETH:USDC", "EUR:GBP", "USD:EUR", "COIN:USDC"}

Describes(classes, caps, vendor, name) ==
  [kinds |-> classes \X caps, vendor |-> vendor, canonical |-> name]
DescriptorTable ==
  [p \in {"binance", "coingecko"} |-> Describes({"crypto"}, Market, TRUE, p)]
  @@ [p \in {"twelve_data", "alpha_vantage"} |-> Describes({"fx", "equity"}, Market, TRUE, p)]
  @@ "synthetic_wbeth" :> Describes({"crypto"}, Market, FALSE, "synthetic")
  @@ "synthetic" :> Describes({"crypto", "fx"}, Market, FALSE, "synthetic")
  @@ "synthetic_fx" :> Describes({"fx"}, Market, FALSE, "synthetic_fx")
  @@ "staking_market_ratio_proxy" :> Describes({"crypto"}, {"yield"}, FALSE, "staking_market_ratio_proxy")

NoChain == <<>>
ShippedTable ==
  "ETH:USDC" :> [quote |-> <<"binance", "coingecko">>, history |-> <<"binance">>,
                 dividend |-> NoChain, yield |-> NoChain]
  @@ "WBETH:USDC" :> [quote |-> <<"synthetic_wbeth", "coingecko">>, history |-> <<"synthetic_wbeth">>,
                      dividend |-> NoChain, yield |-> <<"staking_market_ratio_proxy">>]
  @@ "USD:EUR" :> [quote |-> <<"twelve_data", "alpha_vantage">>,
                   history |-> <<"twelve_data", "alpha_vantage">>,
                   dividend |-> NoChain, yield |-> NoChain]

Plain ==
  [on |-> TRUE, owner |-> "custom", class |-> "crypto", hub |-> FALSE, base |-> FALSE, history |-> TRUE,
   dividend |-> FALSE, yield |-> "none", mode |-> "none", underlying |-> "none", bind |-> <<>>,
   routes |-> <<>>, inputs |-> <<>>, spokes |-> {}, poll |-> 1, coinQuote |-> TRUE]
ShippedAs(s) ==
  [Plain EXCEPT !.owner = "builtin",
                !.routes = [cap \in {c \in Caps : ShippedTable[s][c] # NoChain} |-> ShippedTable[s][cap]]]
Bound(symbol, providers) == [Plain EXCEPT !.bind = [p \in providers |-> symbol]]

Ether == [ShippedAs("ETH:USDC") EXCEPT !.bind = [p \in {"binance", "coingecko"} |-> "eth"]]
Wrapped == [ShippedAs("WBETH:USDC") EXCEPT !.bind = "coingecko" :> "wbeth",
                                           !.mode = "value_accruing", !.yield = "reported"]
FxCross == [Plain EXCEPT !.class = "fx", !.spokes = {"USD:EUR", "USD:GBP"}]
FxHub == [ShippedAs("USD:EUR") EXCEPT !.class = "fx", !.hub = TRUE, !.base = TRUE]
OwnChain == [Bound("coin", {"coingecko"}) EXCEPT !.routes = [cap \in Market |-> <<"coingecko">>]]
Recipe == [Plain EXCEPT !.inputs = <<"ETH:USDC", "WBETH:USDC">>]

OnOrOff(d) == [on |-> d, off |-> [d EXCEPT !.on = FALSE]]
OffersTable ==
  "ETH:USDC" :> OnOrOff(Ether)
  @@ "WBETH:USDC" :> OnOrOff(Wrapped)
  @@ "EUR:GBP" :> OnOrOff(FxCross)
  @@ "USD:EUR" :> (OnOrOff(FxHub) @@ [slow |-> [FxHub EXCEPT !.poll = 2]])
  @@ "COIN:USDC" :> (OnOrOff(Bound("coin", {"binance"}))
                     @@ [renamed |-> Bound("coin2", {"binance"}), fixed |-> OwnChain, recipe |-> Recipe])

MCRatioPolicy == "WBETH:USDC" :> <<"WBETH:USDC", "ETH:USDC">>
MCCoinIds == {"WBETH:USDC", "ETH:USDC"}
MCRecipes == {[symbol |-> "WBETH:USDC", source |-> "binance", inputs |-> {"WBETH:ETH", "ETH:USDC"}]}
MCRouterBound == {"synthetic_wbeth", "synthetic_fx", "staking_market_ratio_proxy"}

\* TLC evaluates what a constant is replaced by at every use, but a definition
\* without parameters once.
MCDescriptor == DescriptorTable
MCShipped == ShippedTable
MCOffers == OffersTable

\* Every key is there, CoinGecko's is missing, or the FX keys are.
Keyed == {"binance", "coingecko", "twelve_data", "synthetic_wbeth", "synthetic_fx",
          "staking_market_ratio_proxy"}
MCConfigurations == {Keyed, Keyed \ {"coingecko"}, Keyed \ {"twelve_data", "synthetic_fx"}}
=============================================================================
