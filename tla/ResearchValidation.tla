------------------------- MODULE ResearchValidation -------------------------
(***************************************************************************)
(* The research conversion composed with the validation its output meets   *)
(* downstream: MultiMarketMapFetcher merges the research map into the      *)
(* mainnet map and calls MarketMap.ValidateBasic on the result             *)
(* (multi_market_map_fetcher.go), so every market ParseResponse converts   *)
(* must pass Market.ValidateBasic (MarketMapTypes!ValidMarket) or the      *)
(* whole update is dropped.                                                *)
(***************************************************************************)
EXTENDS ResearchAPIHandler

\* The provider names ConvertExchangeConfigJSON can produce.
ProviderNameSet == {ProviderMapping[x] : x \in DOMAIN ProviderMapping}

\* The price providers of constants.Providers, by the Name constant of each
\* package (strings as in ProviderMapping), with the default marketmap
\* provider, whose type is the market-map config type.
PriceProviderNames ==
  {RaydiumName, "uniswapv3_api-ethereum", "uniswapv3_api-base", "osmosis_api",
   "binance_api", "bitstamp_api", "coinbase_api", "coingecko_api", CMCName,
   "kraken_api", "volatile-exchange-provider",
   "binance_ws", "bitfinex_ws", "bitstamp_ws", "bybit_ws", "coinbase_ws",
   "crypto_dot_com_ws", "gate_ws", "huobi_ws", "kraken_ws", "kucoin_ws",
   MexcName, "okx_ws", "polymarket_api"}

\* A fault: the okx websocket provider left out of the table.
ProvidersNoOkx ==
  {[name |-> n, type |-> "price"] : n \in PriceProviderNames \ {"okx_ws"}}
    \cup {[name |-> "marketmap_api", type |-> "marketmap"]}

\* constants.Providers: the providers the oracle runs and their config type.
Providers ==
  {[name |-> n, type |-> "price"] : n \in PriceProviderNames}
    \cup {[name |-> "marketmap_api", type |-> "marketmap"]}

\* Every <<BASE, QUOTE>> ticker a research pair can upper-case to.
PairTickers == {<<Upper[a], Upper[b]>> : a, b \in Symbols}

MM == INSTANCE MarketMapTypes
        WITH Tickers <- PairTickers, ProviderNames <- ProviderNameSet,
             CMC <- CMCName, NoPair <- NoPair

\* A converted market in the shape of MarketMapTypes: provider configs
\* keep their name and NormalizeByPair.
AsMarket(m) ==
  [ticker |-> m.ticker, minCount |-> m.minCount, enabled |-> m.enabled,
   providers |-> [i \in DOMAIN m.providers |->
                    [name |-> m.providers[i].name, norm |-> m.providers[i].norm]]]

\* Spec section 3: a market has at least one provider and no two of its
\* providers share a name.  Every market a successful ParseResponse returns
\* passes Market.ValidateBasic, so the research map cannot make
\* MultiMarketMapFetcher.Fetch reject the merged map: the seen-set of
\* ConvertExchangeConfigJSON must remove repeated venues and every market
\* must keep a venue the ProviderMapping knows.
ConvertedMarketsValid ==
  \A n \in Nodes :
    parsed[n].kind = "resolved" =>
      \A t \in DOMAIN parsed[n].mm : MM!ValidMarket(t, AsMarket(parsed[n].mm[t]))

\* Spec 4.3: the exchanges the dictionary keeps are the ones the system can
\* serve.  Every provider name ConvertExchangeConfigJSON can give a research
\* market, for any venue ProviderMapping knows, and every name a parse
\* actually produced, is a price provider of
\* constants.Providers, so the oracle runs a price feed for each venue of a
\* merged map: the mapping in zogux/parse.go and the table in
\* cmd/constants/providers.go are kept by hand and must not drift apart.
ProviderMappingServed ==
  LET NamesOf(mm) == UNION {{mm[t].providers[i].name : i \in DOMAIN mm[t].providers} :
                              t \in DOMAIN mm}
      converted == UNION {NamesOf(parsed[n].mm) : n \in {m \in Nodes : parsed[m].kind = "resolved"}}
  IN \A name \in ProviderNameSet \cup converted :
       [name |-> name, type |-> "price"] \in Providers

=============================================================================
