----------------------- MODULE MCMultiMarketMapFetcher -----------------------
(***************************************************************************)
(* Model values for MultiMarketMapFetcher: three tickers, one of which     *)
(* (ETH/USDT) is normalized by another (USDT/USD), two exchanges and       *)
(* CoinMarketCap.  The candidate documents are chosen so that every branch *)
(* of Fetch is reached: overlapping tickers, research-only tickers, a      *)
(* research market normalized by a market only mainnet has, a research     *)
(* market whose normalization market exists nowhere, markets with two CMC  *)
(* providers, markets with and without a static CMC market, and a CMC      *)
(* provider whose normalization market the CMC-only filter deletes.       *)
(***************************************************************************)
EXTENDS MultiMarketMapFetcher, TLC

BTC == "BTC/USD"
ETH == "ETH/USDT"
USDT == "USDT/USD"

Binance == "binance_ws"
Okx == "okx_ws"

P(n, x) == [name |-> n, norm |-> x]
Mkt(t, k, ps) == [ticker |-> t, minCount |-> k, enabled |-> TRUE, providers |-> ps]

\* Mainnet: BTC with a CMC provider, USDT without one; or BTC alone with
\* two CMC entries; or ETH through OKX normalized by USDT, with a CMC
\* provider that is itself normalized by USDT; or BTC with no CMC provider.
MCMainnetMaps ==
  { (BTC :> Mkt(BTC, 2, <<P(Binance, NoPair), P(CMC, NoPair)>>))
      @@ (USDT :> Mkt(USDT, 1, <<P(Okx, NoPair)>>)),
    BTC :> Mkt(BTC, 1, <<P(CMC, NoPair), P(Binance, NoPair), P(CMC, USDT)>>),
    (ETH :> Mkt(ETH, 1, <<P(Okx, USDT), P(CMC, USDT)>>))
      @@ (USDT :> Mkt(USDT, 1, <<P(Binance, NoPair)>>)),
    BTC :> Mkt(BTC, 1, <<P(Binance, NoPair)>>) }

\* Research: ETH normalized by USDT and a BTC that mainnet overrides; or a
\* USDT market normalized by a BTC market; or ETH normalized by USDT alone.
MCResearchMaps ==
  { (ETH :> Mkt(ETH, 2, <<P(Okx, USDT), P(Binance, USDT)>>))
      @@ (BTC :> Mkt(BTC, 3, <<P(Binance, NoPair), P(Okx, NoPair), P(CMC, NoPair)>>)),
    USDT :> Mkt(USDT, 1, <<P(CMC, NoPair), P(Okx, BTC)>>),
    ETH :> Mkt(ETH, 1, <<P(Binance, USDT)>>) }

MCCMCStaticMap ==
  (BTC :> Mkt(BTC, 1, <<P(CMC, NoPair)>>)) @@ (ETH :> Mkt(ETH, 1, <<P(CMC, NoPair)>>))

=============================================================================
