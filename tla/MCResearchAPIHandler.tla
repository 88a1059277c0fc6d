------------------------ MODULE MCResearchAPIHandler ------------------------
(***************************************************************************)
(* Research documents for ResearchAPIHandler: entries that convert (with   *)
(* aliased exchanges, a duplicated exchange config, an unknown exchange, a *)
(* MEXC ticker with "_", a Raydium "base/quote" ticker and a normalization *)
(* pair) and entries that each fail one check (a pair without "-", a       *)
(* positive exponent, min_exchanges 0, a Raydium ticker without "/", an    *)
(* adjust_by_market without "-"), plus CMC ids that are positive, zero     *)
(* (absent) and negative.  A document holds one or two entries.            *)
(***************************************************************************)
EXTENDS ResearchAPIHandler, TLC

MCSymbols == {"btc", "BTC", "eth", "ETH", "usd", "USD", "usdt", "USDT",
              "ray", "RAY", "SOLUSD", ""}
MCUpper == [s \in MCSymbols |->
              CASE s = "btc" -> "BTC" [] s = "eth" -> "ETH" [] s = "usd" -> "USD"
                [] s = "usdt" -> "USDT" [] s = "ray" -> "RAY" [] OTHER -> s]

X(ex, parts, sep, adj) ==
  [exchange |-> ex, ticker |-> [parts |-> parts, sep |-> sep], invert |-> FALSE,
   adjust |-> adj]
E(pair, exp, min, cmc, xs) ==
  [pair |-> pair, exponent |-> exp, minExchanges |-> min, cmcId |-> cmc, exchanges |-> xs]

BtcUsd == E(<<"btc", "usd">>, -8, 2, 1,
            << X("Binance", <<"BTC", "USDT">>, "", <<"USDT", "USD">>),
               X("BinanceUS", <<"BTC", "USDT">>, "", <<"USDT", "USD">>),
               X("Mexc", <<"BTC", "USDT">>, "_", <<"USDT", "USD">>),
               X("Unknown", <<"BTC", "USD">>, "-", <<"">>) >>)
EthUsdt == E(<<"ETH", "usdt">>, -9, 1, 0,
             << X("Okx", <<"ETH", "USDT">>, "-", <<"">>),
                X("Okx", <<"ETH", "USDT">>, "-", <<"">>) >>)
RayUsdt == E(<<"ray", "usdt">>, -6, 1, 7, << X("Raydium", <<"RAY", "USDT">>, "/", <<"">>) >>)
NoDash == E(<<"SOLUSD">>, -6, 1, 3, << X("Okx", <<"SOLUSD">>, "", <<"">>) >>)
PosExp == E(<<"eth", "usd">>, 2, 1, 4, << X("Kraken", <<"ETH", "USD">>, "", <<"">>) >>)
MinZero == E(<<"usdt", "usd">>, -6, 0, 5, << X("Kraken", <<"USDT", "USD">>, "", <<"">>) >>)
RayBad == E(<<"ray", "usd">>, -6, 1, -1, << X("Raydium", <<"RAY">>, "", <<"">>) >>)
AdjBad == E(<<"USDT", "USD">>, -6, 1, 6, << X("Binance", <<"USDT", "USD">>, "", <<"SOLUSD">>) >>)
\* Same pair as BtcUsd once upper-cased, under another key.
BtcUsdAgain == E(<<"BTC", "USD">>, -8, 3, 1,
                 << X("Okx", <<"BTC", "USDT">>, "-", <<"USDT", "USD">>) >>)

MCEntries == {BtcUsd, EthUsdt, RayUsdt, NoDash, PosExp, MinZero, RayBad, AdjBad}

CanonKey(e) == [i \in DOMAIN e.pair |-> MCUpper[e.pair[i]]]
DistinctPairs(d) == \A e1, e2 \in d : CanonKey(e1) = CanonKey(e2) => e1 = e2

\* Every document of one or two entries whose pairs differ.
MCDocs == {d \in SUBSET MCEntries : Cardinality(d) \in 1..2 /\ DistinctPairs(d)}

\* Documents whose CMC ids are all set (positive, or negative to be skipped).
MCDocsWithCMCIds == {d \in MCDocs : \A e \in d : e.cmcId # 0}

\* A document holding BTC/USD twice: "btc-usd" and "BTC-USD".
MCEntriesWithDuplicate == MCEntries \cup {BtcUsdAgain}
MCDuplicateDocs == {{BtcUsd, BtcUsdAgain}}

\* A document with an entry whose cmc_id is absent (decoded as 0).
MCMissingCMCIdDocs == {{EthUsdt}, {EthUsdt, RayUsdt}}

=============================================================================
