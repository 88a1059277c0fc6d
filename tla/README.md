# TLA+ models of the slinky market-map and provider components

This directory holds TLA+ models of the parts of `src/` that have state or
concurrency, and the TLC configurations that check them.

- `PROJECT.json` lists every component.
  - Each model definition maps to the lines of Go it translates.
  - Definitions marked `spec_modelled` translate code that is not in this
    repository; they are modelled from `spec.md`.
- `PROJECT.json` also lists every run, the mutants that show each property can
  fail, the findings, and the hazards the code is exposed to.

## The system and its parts

| Part | Code | State | Operations |
|---|---|---|---|
| Market-map resolver | `providers/apis/zogux/multi_market_map_fetcher.go` | two response channels, a WaitGroup, the response | `Fetch`: two goroutines, wait, receive both, failure policy, merge, CMC-only rewrite, `ValidateBasic` |
| Research conversion | `providers/apis/zogux/research_api_handler.go`, `parse.go` | none beyond one call | `ParseResponse` → `researchJSONToQueryAllMarketsParamsResponse` → `ConvertMarketParamsToMarketMap` → `CreateTickerFromMarket`, `ConvertExchangeConfigJSON`, `ConvertDenomByProvider` |
| Registry | not in this repository (spec 4.1) | the installed market map | `install` (atomic swap, only a valid map), `resolve` |
| MEXC websocket handler | `providers/websockets/mexc/*.go` | the ticker cache of each connection's handler | `CreateMessages`, `HandleMessage`, `parseTickerResponseMessage`, `HeartBeatMessages`, `Copy`, `DefaultWebSocketConfig` |
| Websocket session | not in this repository (spec 4.2, 4.2.b) | per connection: session state, subscriptions | shard, dial, subscribe, read, drop, redial |
| OKX websocket configuration | `providers/websockets/okx/utils.go` | none | `DefaultWebSocketConfig` (not modelled) |
| Polymarket handler | `providers/apis/polymarket/api_handler.go` | none (the REST poller around it holds in-flight bins and the latest outcome per ticker) | `CreateURL`, `ParseResponse` (zero floor), `priceResponseError` |
| Market-map provider factory | `providers/factories/oracle/marketmap.go`, constructors in `providers/apis/zogux`, `cmd/constants/providers.go` | the config, the built provider | `MarketMapProviderFactory`, `DefaultZOGUXResearchMarketMapFetcher`, `NewResearchAPIHandler` |
| Provider table | `cmd/constants/providers.go` | none | `Providers`: the providers the oracle runs |
| Aggregator, query surface | not in this repository (spec 4.4, 4.5) | prices | median per tick |
| Metadata JSON, ABCI interfaces | `tickermetadata`, `abci/types` | none | none |

How they interact:

1. The market-map provider polls `Fetch`.
2. Inside `Fetch`:
   - the mainnet goroutine fetches the mainnet map;
   - the research goroutine runs the research handler's `ParseResponse`.
3. `Fetch` combines the two responses and validates the combined map.
4. The registry installs the map if it is valid.
5. Providers such as MEXC subscribe to the tickers of the installed map and
   translate venue symbols back to tickers through their cache.
   - The runtime shards a websocket provider's tickers into connections by
     the config's per-connection limit.
   - One session per connection dials, subscribes, reads and drains.
6. A research market names providers through `ProviderMapping`. The oracle
   runs a feed for each entry of the `Providers` table.

## Modules

- **`MarketMapTypes`**: the market-map data model and `MarketMap.ValidateBasic`.
  - `ValidateBasic` is modelled from spec §3/§4.1 because `x/marketmap/types`
    is not in `src/`.
  - It checks:
    - each key equals its ticker;
    - each market has at least one provider;
    - provider names are distinct;
    - an enabled market has `MinProviderCount ≥ 1`;
    - every `NormalizeByPair` names a market of the map;
    - the normalization graph is acyclic (`Graphs!HasCycle`).
- **`MarketMapResolver`**: the abstract resolver of spec 4.3.
  - Variables: `installed`, and `cmcOnly`, the mode, fixed at start.
  - One action, `Update`: `installed` becomes a *valid composition* of one
    mainnet map and one research map.
  - In CMC-only mode the spec does not fix which CoinMarketCap configuration a
    market keeps, so `Compositions` allows any of them.
- **`MultiMarketMapFetcher`**: `Fetch` plus the registry install.
  - Variables and what they model in the code:

    | Variable | Code |
    |---|---|
    | `mainnetCh`, `researchCh` | the two buffered channels (capacity `ChanCap` = 1, as in the code) |
    | `wg` | the WaitGroup |
    | `fetcher` | the polling loop's position |
    | `response` | what `Fetch` returned |
    | `inputs` | the two responses received (history) |
    | `installed` | the registry |
    | `isCMCOnly` | the fetcher's `isCMCOnly` field, chosen in Init and never changed |

  - Actions:
    - `StartFetch` (`make`, `wg.Add(2)`);
    - `MainnetFetch` and `ResearchFetch` (send, `wg.Done`);
    - `Combine` (`wg.Wait`, two receives, then lines 163–243 as one step);
    - `Install`.
  - `INSTANCE MarketMapResolver WITH cmcOnly <- isCMCOnly` gives the
    refinement, checked as the property `Refinement`.
- **`ResearchAPIHandler`**: `ParseResponse` after JSON decoding.
  - Each parse takes one order of the document's entries (`SetToSeqs`),
    because Go's map order is random.
  - The per-entry loops are `FoldLeft`s whose step operators translate one
    iteration each: `ConvertMarketStep` and `ConvertExchangeStep`.
  - Several nodes (side-cars) parse the same document.
  - `Reference` is an independent reading of spec 4.3, written from the spec
    text, which the code's result is compared with.
- **`MexcHandler`**: the MEXC handler on one connection per shard of the
  provider's tickers.
  - `wsMaxSubs` is the config's `MaxSubscriptionsPerConnection`. Init
    chooses `DefaultWebSocketConfig` or an operator override among those
    `NewWebSocketDataHandler` accepts (the MEXC name, enabled, valid), and
    the runtime shards by its limit. The constructor never compares that
    limit with the package constant.
  - `MaxSubs` is the package constant that `CreateMessages` checks
    (`ws_data_handler.go:101`).
  - Every other variable is a function of the connection: `phase`, `cache`,
    `venueSubs`, `pinged`, `inbox`, `lastResult`.
  - Actions of connection `c`:
    - `Connect` is `Copy` (fresh cache);
    - `Subscribe` is `CreateMessages` on the shard; a refusal ends the
      session;
    - `HeartBeat` is `HeartBeatMessages`;
    - `VenueSend` covers every frame MEXC may send, with PONG only after a
      ping;
    - `ReadMessage` is `HandleMessage`;
    - `Disconnect` drops the connection, at most `MaxDrops` times.
  - Off-chain tickers are model values, each with its `strings.ToUpper`.
- **`ResearchValidation`**: `ResearchAPIHandler` composed with
  `MarketMapTypes!ValidMarket` (through `INSTANCE ... WITH`).
  - The fetcher validates the merged map, so every market the research
    conversion produces must pass `Market.ValidateBasic`.
  - `ConvertedMarketsValid` states this for every parse; the
    `research_invalid_markets` run shows two entry kinds that break it.
  - `Providers` is the table of `cmd/constants/providers.go`, by name and
    config type. `ProviderMappingServed` checks that every provider name
    `ProviderMapping` can produce is one of its price providers.
- **`PolymarketHandler`**: the Polymarket handler driven by the REST poller of
  spec 4.2.a.
  - The poller is modelled from the spec; the handler is translated from the code.
  - `maxIds` is the configured `max_ids_per_query`. Init picks it from an
    `APIConfig` that `NewAPIHandler` accepts (the Polymarket name, enabled,
    valid, exactly one endpoint), and it is fixed for the run. The MC
    module offers every shape of config, and the rejected ones never run.
  - The poller cuts the tickers into bins of that size.
  - Actions:
    - `Poll(b)`: `CreateURL`, then either the GET goes out or the bin's tickers
      get the error;
    - `Respond(b)`: any reply body goes to `ParseResponse`;
    - `Timeout(b)`: the request times out.
  - `obs` and `lastBody` keep each ticker's latest outcome and the reply
    that produced it.
  - A midpoint is an integer number of 0.0001 units.
- **`MarketMapProviderFactory`**: construction of the market-map provider.
  - A config is its name, `Enabled`, the `ValidateBasic` verdict and the
    number of endpoints.
  - Constructors outside this repository succeed or fail (`extOk`).
  - The research fetcher is `NewZOGUXResearchMarketMapFetcher` around the
    research handler.
  - One action, `Build`.
- **`MC*` modules** hold the concrete constants. Each `.cfg` picks one set of
  them.

Abstraction of data: strings are kept only as far as the code inspects them.
- A pair is the sequence `strings.Split(pair, "-")` gives.
- A symbol is a model value with its upper-case form.
- A venue ticker is its parts and its one separator.
- A price string is `"ok"` or `"bad"`.

Logging, metrics, JSON encoding and metadata are left out.

## Runs

| Run | Expect | What it shows |
|---|---|---|
| `fetcher_merge` | pass (5572 states) | In both CMC modes (`isCMCOnly` chosen at start), across repeated polls with every mix of success and failure:<br>• whenever both sources answer with maps whose composition is valid, that composition is eventually installed (`GoodRoundInstalled`);<br>• the installed map only changes as the abstract resolver allows (`Refinement`). |
| `fetcher_cmc_dangling_norm` | violation | In CMC-only mode, a valid merge whose ETH/USDT CoinMarketCap provider is normalized by USDT/USD, a market with no CMC source, is rewritten into a map `ValidateBasic` rejects, and the whole update fails (`CMCOnlyKeepsValidMerge`). |
| `research_conversion` | pass (248 states) | In both handler modes (`onlyCMC` chosen at start), every document of one or two entries with distinct pairs parses, in every iteration order, to what the spec's reading says (`MatchesReference`).<br>• The entries exercise aliases, duplicates, unknown venues, the MEXC and Raydium reshaping, and each validation failure.<br>• CMC-only documents have their CMC ids set, and negative ids are skipped. |
| `research_duplicate_pairs` | violation | `"btc-usd"` and `"BTC-USD"` in one document: two nodes get different maps. |
| `research_missing_cmc_id` | violation | CMC-only mode keeps an entry with cmc_id 0 (absent), where the spec skips it. |
| `mexc_session` | pass (20524 states) | Under the default config and an override of 3, over sharding, one dropped connection, refused and accepted subscriptions, heartbeats and every frame kind:<br>• each handler's cache stays within the package limit (`TypeOK`);<br>• every price frame for a subscribed instrument resolves (`SubscribedFramesResolve`);<br>• when the configured limit is within the package constant, every shard eventually stays live (`ShardsLiveWithinLimit`). |
| `mexc_lowercase_ticker` | violation | A lower-case off-chain ticker is subscribed upper-cased, and its frames are rejected as unknown. |
| `mexc_config_override` | violation | With the configured limit (3) above the package constant (2), the single shard of three tickers is refused on every reconnect and never goes live (`AllShardsLive`). |
| `polymarket_poller` | pass (2772 states) | Over configs `NewAPIHandler` accepts or rejects, parallel bins, timeouts, bin sizes 1 and 2, and every reply kind (undecodable, no `mid`, mid 0, 0.325, 1), each ticker's recorded outcome is what spec 4.2.a and the zero-price rule of spec 8 say of the reply that produced it (`OutcomesMatchSpec`). |
| `research_validation` | pass (140 states) | Every provider name `ProviderMapping` (`parse.go`) can give a research market is a price provider of the `Providers` table (`cmd/constants/providers.go`), so the two hand-kept lists agree (`ProviderMappingServed`). |
| `research_invalid_markets` | violation | One document with BTC/USD on Binance and BinanceUS and ETH/USDT only on an unknown venue: BTC/USD gets two `binance_ws` providers, ETH/USDT none. |
| `marketmap_factory` | pass (186 states) | For every market-map provider name, enabled flag, validation verdict and endpoint count 0–3, construction never reads a missing `Endpoints[1]` (`NoEndpointPanic`). |

Each property of a passing run has a mutant in `PROJECT.json`: an operator
named `...NoCache`, `...ResearchWins`, etc., defined just before the
definition it replaces. Each imitates a plausible bug, and TLC finds the
property violated when the mutant is substituted.

### Findings

1. **CMC id 0 is kept.** In CMC-only mode the code skips an entry only when
   `CMCID < 0` (`research_api_handler.go:147`), while spec 4.3 skips entries
   without a *positive* id.
2. **Duplicate pairs are order-dependent.** Pairs equal up to case are stored
   under one ticker, last writer wins (`parse.go:79`), in random map order. The
   spec's determinism requirement is silent on duplicates.
3. **Lower-case MEXC tickers never resolve.**
   - `CreateMessages` subscribes to the upper-cased off-chain ticker
     (`ws_data_handler.go:107`).
   - The cache lookup uses the venue's symbol as is (`mexc/parse.go:22`).
   - This assumes MEXC echoes upper-case symbols, as its API does.
4. **Aliased venues break the whole update.** `ConvertExchangeConfigJSON`
   skips only identical configs (`parse.go:135`). Binance and BinanceUS both
   become `binance_ws`, so a market listed on both has a duplicate provider
   name, which spec 3 forbids. The merged map then fails `ValidateBasic`
   (`multi_market_map_fetcher.go:229`), and no market-map update is installed
   while the entry stays in the research file.
5. **A market with only unknown venues has no provider.** Unknown exchanges
   are dropped (`parse.go:141`, as spec 4.3 says), but the entry is still
   converted, with zero providers. Spec 3 requires at least one, so again the
   whole update is rejected. The spec does not say such entries are skipped.
6. **The MEXC handler ignores the configured per-connection limit.**
   - `CreateMessages` compares a connection's tickers with the package
     constant `MaxSubscriptionsPerConnection` (30, `ws_data_handler.go:101`),
     not with `h.ws.MaxSubscriptionsPerConnection`.
   - Spec 4.2 makes `max_subscriptions_per_connection` a sharding knob, and
     the runtime shards by the config.
   - With the knob set above 30, every connection handed more than 30
     tickers is refused on every reconnect. Its tickers never stream.
7. **CMC-only mode can reject a valid merge.** The rewrite keeps the last
   CoinMarketCap provider of each market with its `NormalizeByPair`
   (`multi_market_map_fetcher.go:200`) and deletes markets with no CMC
   source, without looking at what refers to them. A CMC provider
   normalized by a deleted market leaves a dangling normalization;
   `ValidateBasic` rejects the map and the fallback mode installs nothing.
   Spec 4.3 does not say what becomes of `normalize_by_pair` in this mode.

## Bounds and why they suffice

- **Fetcher run.** Both CMC modes, 4 mainnet maps and 3 research maps over 3 tickers and 3
  providers. Between them they cover:
  - overlap and disjointness between the sources;
  - a normalization pair present in, and absent from, the merged map;
  - multiple CMC providers;
  - a market known only to the static CMC map.

  The polling loop is unbounded. The state space is finite because each poll
  forgets the previous channels.
- **Research runs.** 8 entries, each built to take one branch of the
  conversion:
  - success;
  - alias and duplicate exchange configs;
  - an unknown venue;
  - MEXC `_` and Raydium `/`;
  - a bad pair, a positive exponent, `min_exchanges` 0, a bad Raydium ticker
    and a bad `adjust_by_market`;
  - CMC ids −1, 0 and positive.

  Documents hold 1–2 entries; two entries are enough to expose every
  order-dependence in a loop whose steps only look at the accumulated map.
- **MEXC runs.** 3 tickers; the package limit is 2, which stands for 30.
  - The default config shards them 2 + 1, so one connection is exactly at
    the limit.
  - The override of 3 gives one shard past the limit, which is refused.
  - One dropped connection is enough to check that a fresh `Copy`
    resubscribes.
  - An inbox of one frame per connection is enough: frames are handled in
    order and nothing is kept between them but the cache.
- **Research validation runs.** The documents of the research run for the
  provider-table check (a property of the two tables, exercised by every
  parse), and the Binance/BinanceUS entry with `UnknownOnly` for the
  violation.
- **CMC-only violation run.** The fetcher's maps with `isCMCOnly` fixed to
  TRUE; the third mainnet map is the one whose CMC provider is normalized
  by a market the rewrite deletes.
- **Polymarket run.** 3 tickers with bin sizes 1 and 2. Size 2 gives a refused
  bin beside a single one, and size 1 gives three bins in flight at once. Three
  midpoints cover zero, a fraction and one.
- **Factory run.** All 5 market-map names × enabled × valid × 0–3 endpoints.
  That covers 1 (the panic case), 2 (accepted) and 3 (refused).

## Fairness

`MultiMarketMapFetcher` assumes weak fairness on every action:
- the provider polls on a timer;
- each goroutine's HTTP call has a timeout, so it always sends;
- `Fetch` always proceeds after `wg.Wait`;
- the registry always handles the response it is given.

`PolymarketHandler` checks only safety and assumes no fairness.

`MexcHandler` assumes weak fairness on `Connect`, `Subscribe` and
`ReadMessage` for every connection:
- the runtime redials after its back-off;
- it subscribes after the post-connection wait;
- it keeps reading.

The venue (`VenueSend`, `Disconnect`) and the heart-beater get none.
Connection drops are bounded by `MaxDrops`, so liveness speaks of a network
that eventually stays up.

The research and factory modules check only safety, so they assume no
fairness. The factory run disables deadlock checking: construction
is one call, and after it returns the module has nothing more to do.

## Not modelled

- **The aggregator (spec 4.4)** and the query surface (spec 4.5) are not in
  this repository, and no code here calls them. A model would rest on the
  spec alone and say nothing about this code.
- **`tickermetadata/zogux.go`** is a struct with JSON marshal and unmarshal:
  pure encoding, with no state or control to check.
- **`abci/types`** declares two interfaces and no behaviour.
- The websocket session's back-off timing and endpoint failover, and the
  subscription acknowledgement frames, are abstracted to the order of
  steps.
- The OKX package has no handler in this repository, only its config.
  The session that would run under that config is not here either, so a
  model of it would check the spec's reading rather than this code.
- The `zogux` mainnet handler and the switch-over fetcher are not in this
  repository. The factory only sees whether they construct.
- `ExtractMetadata` is left out; its helpers are not in this repository.
- JSON (de)serialisation, logging and metrics have no behaviour to model.
