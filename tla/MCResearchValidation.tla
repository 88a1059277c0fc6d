------------------------ MODULE MCResearchValidation ------------------------
(***************************************************************************)
(* Research documents for ResearchValidation: the documents of             *)
(* MCResearchAPIHandler, and its Binance/BinanceUS entry together with one *)
(* whose only venue ProviderMapping does not know.                         *)
(***************************************************************************)
EXTENDS ResearchValidation, MCResearchAPIHandler

\* A market listed only on a venue slinky has no provider for.
UnknownOnly == E(<<"eth", "usdt">>, -9, 1, 2,
                 << X("Unknown", <<"ETH", "USDT">>, "-", <<"">>) >>)

MCValidationEntries == MCEntries \cup {UnknownOnly}

\* One document with both defects: BTC/USD listed on Binance and BinanceUS,
\* and ETH/USDT listed only on an unknown venue.
MCInvalidDocs == {{BtcUsd, UnknownOnly}}

=============================================================================
