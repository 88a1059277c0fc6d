------------------------- MODULE ResearchAPIHandler -------------------------
(***************************************************************************)
(* ResearchAPIHandler.ParseResponse (providers/apis/zogux/                 *)
(* research_api_handler.go) and the conversion it calls in                 *)
(* providers/apis/zogux/parse.go: research JSON -> market params -> market *)
(* map.                                                                    *)
(*                                                                         *)
(* The research JSON is a Go map, so `for _, market := range research`     *)
(* visits its entries in an order the runtime randomizes on every call.    *)
(* A document is modelled as the set of its entries and each parse takes   *)
(* one order of them.  Several side-cars (Nodes) parse the same document.  *)
(*                                                                         *)
(* Strings are abstracted to what the code does with them: a pair string   *)
(* is the sequence strings.Split(pair, "-") returns (so "" is <<Empty>>),  *)
(* a symbol is a member of Symbols with its strings.ToUpper, and a venue   *)
(* ticker keeps its parts and the separator between them.                  *)
(***************************************************************************)
EXTENDS Integers, Sequences, FiniteSets

LOCAL INSTANCE SequencesExt

CONSTANTS
  Symbols,    \* symbols as written in the research JSON, in any case
  Upper,      \* strings.ToUpper on Symbols
  Empty,      \* the empty string, a member of Symbols
  Entries,    \* research JSON market params a document may hold
  Docs,       \* research JSON documents: sets of entries under distinct keys
  CMCDocs,    \* the documents served to a handler in CMC-only mode
  Nodes,      \* side-cars parsing the same document
  CMCModes    \* values of api.Name == ResearchCMCAPIHandlerName to check

ASSUME Upper \in [Symbols -> Symbols] /\ Empty \in Symbols /\ Upper[Empty] = Empty
ASSUME Docs \cup CMCDocs \subseteq SUBSET Entries /\ CMCModes \subseteq BOOLEAN

VARIABLES
  onlyCMC, \* the handler's onlyCMC flag, fixed when it is built
  doc,     \* the research JSON every node fetched
  parsed   \* parsed[n]: the response node n's last ParseResponse returned

vars == <<onlyCMC, doc, parsed>>

DocsOf(cmc) == IF cmc THEN CMCDocs ELSE Docs

-----------------------------------------------------------------------------
(* Data                                                                      *)

\* Provider names stand for the Name constants of the provider packages.
CMCName == "coinmarketcap"
MexcName == "mexc_ws"
RaydiumName == "raydium_api"

\* ProviderMapping: research exchange name -> provider name.
ProviderMapping ==
  [x \in {"Binance", "BinanceUS"} |-> "binance_ws"] @@
  ("Bitfinex" :> "bitfinex_ws") @@ ("Kraken" :> "kraken_api") @@
  ("Gate" :> "gate_ws") @@ ("Bitstamp" :> "bitstamp_api") @@
  ("Bybit" :> "bybit_ws") @@ ("CryptoCom" :> "crypto_dot_com_ws") @@
  ("Huobi" :> "huobi_ws") @@ ("Kucoin" :> "kucoin_ws") @@
  ("Okx" :> "okx_ws") @@ ("Mexc" :> MexcName) @@
  ("CoinbasePro" :> "coinbase_ws") @@
  ("TestVolatileExchange" :> "volatile-exchange-provider") @@
  ("Raydium" :> RaydiumName) @@
  ("UniswapV3-Ethereum" :> "uniswapv3_api-ethereum") @@
  ("UniswapV3-Base" :> "uniswapv3_api-base") @@
  (CMCName :> CMCName)

\* A venue ticker: its parts and the one separator between them ("" if none).
Denom == [parts : Seq(Symbols \cup Int), sep : {"", "_", "-", "/"}]

ExchangeConfig == [exchange : STRING, ticker : Denom, invert : BOOLEAN,
                   adjust : Seq(Symbols)]

Entry == [pair : Seq(Symbols), exponent : Int, minExchanges : Nat,
          cmcId : Int, exchanges : Seq(ExchangeConfig)]

\* A converted market: ticker fields and provider configs, with the pair as
\* <<BASE, QUOTE>> and NormalizeByPair as a pair or NoPair.
NoPair == <<>>

Err == [ok |-> FALSE]

-----------------------------------------------------------------------------
(* parse.go                                                                  *)

\* CreateCurrencyPairFromPair with CurrencyPair.ValidateBasic (non-empty sides).
CreateCurrencyPairFromPair(split) ==
  IF Len(split) = 2 /\ Upper[split[1]] # Empty /\ Upper[split[2]] # Empty
  THEN [ok |-> TRUE, cp |-> <<Upper[split[1]], Upper[split[2]]>>]
  ELSE Err

\* uint64(market.Exponent * -1): a positive exponent wraps to 2^64 - e,
\* which no check below tells apart from any other value above 36.
WrappedDecimals == 2^30
Decimals(exponent) == IF exponent <= 0 THEN -exponent ELSE WrappedDecimals

\* A fault of the conversion: the ticker is built without its ValidateBasic.
CreateTickerFromMarketNoValidate(mp) ==
  LET c == CreateCurrencyPairFromPair(mp.pair)
  IN IF c.ok
     THEN [ok |-> TRUE, cp |-> c.cp, decimals |-> Decimals(mp.exponent),
           minCount |-> mp.minExchanges]
     ELSE Err

\* CreateTickerFromMarket with Ticker.ValidateBasic: Decimals <= 36 and
\* MinProviderCount >= 1 for the enabled ticker it builds.
CreateTickerFromMarket(mp) ==
  LET c == CreateCurrencyPairFromPair(mp.pair)
  IN IF c.ok /\ Decimals(mp.exponent) <= 36 /\ mp.minExchanges >= 1
     THEN [ok |-> TRUE, cp |-> c.cp, decimals |-> Decimals(mp.exponent),
           minCount |-> mp.minExchanges]
     ELSE Err

\* ConvertDenomByProvider: MEXC drops "_"; Raydium needs "base/quote".
ConvertDenomByProvider(d, exchange) ==
  CASE exchange = MexcName ->
         [ok |-> TRUE, denom |-> IF d.sep = "_" THEN [d EXCEPT !.sep = ""] ELSE d]
    [] exchange = RaydiumName ->
         IF d.sep = "/" /\ Len(d.parts) >= 2
         THEN [ok |-> TRUE, denom |-> [parts |-> SubSeq(d.parts, 1, 2), sep |-> "/"]]
         ELSE Err
    [] OTHER -> [ok |-> TRUE, denom |-> d]

\* A fault of the loop: duplicated exchange configs are not skipped.
ConvertExchangeStepNoDedup(acc, cfg) ==
  IF ~acc.ok THEN acc
  ELSE LET seen == acc.seen \cup {cfg} IN
       IF cfg.exchange \notin DOMAIN ProviderMapping THEN [acc EXCEPT !.seen = seen]
       ELSE LET name == ProviderMapping[cfg.exchange]
                norm == IF cfg.adjust # <<Empty>>
                        THEN CreateCurrencyPairFromPair(cfg.adjust)
                        ELSE [ok |-> TRUE, cp |-> NoPair]
                d == ConvertDenomByProvider(cfg.ticker, name)
            IN IF ~norm.ok \/ ~d.ok THEN Err
               ELSE [ok |-> TRUE, seen |-> seen,
                     providers |-> Append(acc.providers,
                        [name |-> name, offChain |-> d.denom,
                         invert |-> cfg.invert, norm |-> norm.cp])]

\* One iteration of the loop of ConvertExchangeConfigJSON: skip a config
\* already seen, drop an unknown exchange, else build the provider config.
ConvertExchangeStep(acc, cfg) ==
  IF ~acc.ok \/ cfg \in acc.seen THEN acc
  ELSE LET seen == acc.seen \cup {cfg} IN
       IF cfg.exchange \notin DOMAIN ProviderMapping THEN [acc EXCEPT !.seen = seen]
       ELSE LET name == ProviderMapping[cfg.exchange]
                norm == IF cfg.adjust # <<Empty>>
                        THEN CreateCurrencyPairFromPair(cfg.adjust)
                        ELSE [ok |-> TRUE, cp |-> NoPair]
                d == ConvertDenomByProvider(cfg.ticker, name)
            IN IF ~norm.ok \/ ~d.ok THEN Err
               ELSE [ok |-> TRUE, seen |-> seen,
                     providers |-> Append(acc.providers,
                        [name |-> name, offChain |-> d.denom,
                         invert |-> cfg.invert, norm |-> norm.cp])]

ConvertExchangeConfigJSON(cfgs) ==
  FoldLeft(ConvertExchangeStep, [ok |-> TRUE, seen |-> {}, providers |-> <<>>], cfgs)

\* Faults of the loop: the market stored under the research pair as written
\* (market.Pair) rather than the ticker string.
ConvertMarketStepRawKey(acc, mp) ==
  IF ~acc.ok THEN acc
  ELSE LET t == CreateTickerFromMarket(mp)
           ps == ConvertExchangeConfigJSON(mp.exchanges)
       IN IF ~t.ok \/ ~ps.ok THEN Err
          ELSE [ok |-> TRUE,
                mm |-> (mp.pair :> [ticker |-> t.cp, decimals |-> t.decimals,
                                    minCount |-> t.minCount, enabled |-> TRUE,
                                    providers |-> ps.providers]) @@ acc.mm]

\* One iteration of ConvertMarketParamsToMarketMap: the market is stored
\* under its ticker string, replacing any market already there.
ConvertMarketStep(acc, mp) ==
  IF ~acc.ok THEN acc
  ELSE LET t == CreateTickerFromMarket(mp)
           ps == ConvertExchangeConfigJSON(mp.exchanges)
       IN IF ~t.ok \/ ~ps.ok THEN Err
          ELSE [ok |-> TRUE,
                mm |-> (t.cp :> [ticker |-> t.cp, decimals |-> t.decimals,
                                  minCount |-> t.minCount, enabled |-> TRUE,
                                  providers |-> ps.providers]) @@ acc.mm]

ConvertMarketParamsToMarketMap(params) ==
  FoldLeft(ConvertMarketStep, [ok |-> TRUE, mm |-> <<>>], params)

-----------------------------------------------------------------------------
(* research_api_handler.go                                                   *)

\* marketParamFromResearchJSONMarketParam: in CMC-only mode the exchanges
\* become one coinmarketcap config with ticker fmt.Sprintf("%d", CMCID)
\* and MinExchanges becomes 1.
MarketParamFromResearch(e) ==
  [e EXCEPT !.exchanges = IF onlyCMC
                          THEN <<[exchange |-> CMCName,
                                  ticker |-> [parts |-> <<e.cmcId>>, sep |-> ""],
                                  invert |-> FALSE, adjust |-> <<Empty>>]>>
                          ELSE e.exchanges,
            !.minExchanges = IF onlyCMC THEN 1 ELSE e.minExchanges]

\* researchJSONToQueryAllMarketsParamsResponse over one iteration order.
ResearchToMarketParams(order) ==
  LET kept == SelectSeq(order, LAMBDA e : ~(onlyCMC /\ e.cmcId < 0))
  IN [i \in DOMAIN kept |-> MarketParamFromResearch(kept[i])]

\* ParseResponse after the JSON decoded: resolved with the converted map,
\* or unresolved (ErrorFailedToDecode) when any conversion failed.
ParseResponse(order) ==
  LET r == ConvertMarketParamsToMarketMap(ResearchToMarketParams(order))
  IN IF r.ok THEN [kind |-> "resolved", mm |-> r.mm]
     ELSE [kind |-> "unresolved", mm |-> <<>>]

NotParsed == [kind |-> "none", mm |-> <<>>]

-----------------------------------------------------------------------------
(* Actions                                                                   *)

Init ==
  /\ onlyCMC \in CMCModes
  /\ doc \in DocsOf(onlyCMC)
  /\ parsed = [n \in Nodes |-> NotParsed]

\* Node n's market-map provider polls: the handler decodes the document and
\* ranges over it in some order.
Parse(n) ==
  /\ \E order \in SetToSeqs(doc) : parsed' = [parsed EXCEPT ![n] = ParseResponse(order)]
  /\ UNCHANGED <<onlyCMC, doc>>

Next == \E n \in Nodes : Parse(n)

Spec == Init /\ [][Next]_vars

-----------------------------------------------------------------------------
(* Properties                                                                *)

Responses == {"none", "resolved", "unresolved"}

TypeOK ==
  /\ onlyCMC \in CMCModes
  /\ doc \in DocsOf(onlyCMC)
  /\ DOMAIN parsed = Nodes
  /\ \A n \in Nodes : parsed[n].kind \in Responses
  /\ \A n \in Nodes : DOMAIN parsed[n].mm \subseteq {<<Upper[a], Upper[b]>> : a, b \in Symbols}

\* The reading of section 4.3 of the spec, written independently of the
\* code: each research entry (skipped in CMC-only mode unless its CMC id is
\* positive) becomes the market of its upper-cased pair, with decimals
\* -exponent, min_exchanges (1 in CMC-only mode) and one provider per
\* exchange config the dictionary knows (one coinmarketcap provider with
\* ticker str(cmc_id) in CMC-only mode).  A document converts only when
\* every kept entry does.
RefPair(split) == <<Upper[split[1]], Upper[split[2]]>>
RefPairValid(split) == Len(split) = 2 /\ \A i \in 1..2 : Upper[split[i]] # Empty
RefKept(d) == {e \in d : ~onlyCMC \/ e.cmcId > 0}
RefKnown(e) == {c \in ToSet(e.exchanges) : c.exchange \in DOMAIN ProviderMapping}
RefTicker(c) ==
  LET name == ProviderMapping[c.exchange] IN
  CASE name = MexcName /\ c.ticker.sep = "_" -> [c.ticker EXCEPT !.sep = ""]
    [] name = RaydiumName -> [parts |-> SubSeq(c.ticker.parts, 1, 2), sep |-> "/"]
    [] OTHER -> c.ticker
RefProviders(e) ==
  IF onlyCMC
  THEN {[name |-> CMCName, offChain |-> [parts |-> <<e.cmcId>>, sep |-> ""],
         invert |-> FALSE, norm |-> NoPair]}
  ELSE {[name |-> ProviderMapping[c.exchange], offChain |-> RefTicker(c),
         invert |-> c.invert,
         norm |-> IF c.adjust = <<Empty>> THEN NoPair ELSE RefPair(c.adjust)] :
          c \in RefKnown(e)}
RefEntryValid(e) ==
  /\ RefPairValid(e.pair)
  /\ -e.exponent \in 0..36
  /\ onlyCMC \/ e.minExchanges >= 1
  /\ ~onlyCMC => \A c \in RefKnown(e) :
        /\ c.adjust # <<Empty>> => RefPairValid(c.adjust)
        /\ ProviderMapping[c.exchange] = RaydiumName =>
             c.ticker.sep = "/" /\ Len(c.ticker.parts) >= 2
RefMarket(e) ==
  [ticker |-> RefPair(e.pair), decimals |-> -e.exponent,
   minCount |-> IF onlyCMC THEN 1 ELSE e.minExchanges, enabled |-> TRUE,
   providers |-> RefProviders(e)]
Reference(d) ==
  IF \A e \in RefKept(d) : RefEntryValid(e)
  THEN [kind |-> "resolved",
        mm |-> [k \in {RefPair(e.pair) : e \in RefKept(d)} |->
                  RefMarket(CHOOSE e \in RefKept(d) : RefPair(e.pair) = k)]]
  ELSE [kind |-> "unresolved", mm |-> <<>>]

\* A parsed map with each market's provider list read as a set.
AsSets(r) == [r EXCEPT !.mm = [k \in DOMAIN r.mm |-> [r.mm[k] EXCEPT !.providers = ToSet(@)]]]

\* Every ParseResponse of the document returns what the reference reading
\* of the spec says: the same markets, tickers and provider configs, and
\* an error exactly when some kept entry cannot be converted.
MatchesReference ==
  \A n \in Nodes : parsed[n].kind # "none" => AsSets(parsed[n]) = Reference(doc)

\* Side-cars that parse the same research document get the same market
\* map, whatever order Go's map iteration visits its entries in.
ParsesAgree ==
  \A n, m \in Nodes :
    parsed[n].kind # "none" /\ parsed[m].kind # "none" => parsed[n] = parsed[m]

=============================================================================
