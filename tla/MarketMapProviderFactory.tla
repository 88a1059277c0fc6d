---------------------- MODULE MarketMapProviderFactory ----------------------
(***************************************************************************)
(* Construction of the market-map provider (providers/factories/oracle/    *)
(* marketmap.go) and of the research fetcher it builds for the two        *)
(* research names (DefaultZOGUXResearchMarketMapFetcher and                *)
(* NewResearchAPIHandler in providers/apis/zogux).                         *)
(*                                                                         *)
(* A provider config is abstracted to what the constructors read: its      *)
(* name, api.Enabled, the verdict of ValidateBasic (config package, not in *)
(* this repository) and the number of api.Endpoints.  The constructors     *)
(* that live outside this repository (zogux.NewAPIHandler, the switch-over *)
(* fetcher, marketmap.NewMarketMapFetcher, NewRestAPIFetcher, the query    *)
(* handler and NewMarketMapProvider) either succeed or fail; extOk picks.  *)
(* Names stand for the Name constants of the zogux and marketmap packages. *)
(***************************************************************************)
EXTENDS Naturals

CONSTANTS
  EndpointCounts   \* len(api.Endpoints) a config may carry

ZOGUXName == "zogux_api"
SwitchOverAPIHandlerName == "zogux_switchover_api"
ResearchAPIHandlerName == "zogux_research_api"
ResearchCMCAPIHandlerName == "zogux_research_cmc_api"
MarketMapName == "marketmap_api"

\* constants.AlternativeMarketMapProviders: the zogux market-map providers.
AlternativeMarketMapProviders ==
  {ZOGUXName, SwitchOverAPIHandlerName, ResearchAPIHandlerName, ResearchCMCAPIHandlerName}

\* constants.MarketMapProviderNames: those and the default marketmap provider.
MarketMapProviderNames == AlternativeMarketMapProviders \cup {MarketMapName}

Configs == [name : MarketMapProviderNames, enabled : BOOLEAN, valid : BOOLEAN,
            endpoints : EndpointCounts]

\* What a constructor returns.  fetcher names the MarketMapFetcher, chain
\* the ids of the provider, isCMCOnly the fetcher's CMC-only flag, onlyCMC
\* the research handler's, url the 1-based endpoint the handler queries.
Built(kind) == [kind |-> kind, fetcher |-> "none", chain |-> "none",
                isCMCOnly |-> FALSE, onlyCMC |-> FALSE, url |-> 0]
Err == Built("error")
\* api.Endpoints[1] with fewer than two endpoints: index out of range.
IndexPanic == Built("panic")
NotBuilt == Built("none")

VARIABLES
  cfg,       \* the provider config the oracle starts with
  provider   \* what MarketMapProviderFactory returned

vars == <<cfg, provider>>

-----------------------------------------------------------------------------
(* research_api_handler.go, multi_market_map_fetcher.go                     *)

\* NewResearchAPIHandler: one of the two research names, enabled, valid;
\* the research URL is api.Endpoints[1] and onlyCMC follows the name.
NewResearchAPIHandler(api) ==
  CASE api.name \notin {ResearchAPIHandlerName, ResearchCMCAPIHandlerName} -> Err
    [] ~api.enabled -> Err
    [] ~api.valid -> Err
    [] api.endpoints < 2 -> IndexPanic
    [] OTHER -> [Built("ok") EXCEPT !.url = 2,
                                    !.onlyCMC = (api.name = ResearchCMCAPIHandlerName)]

\* NewZOGUXResearchMarketMapFetcher wraps the mainnet and research fetchers
\* with the CMC-only flag it is given.
NewZOGUXResearchMarketMapFetcher(r, isCMCOnly) ==
  [r EXCEPT !.fetcher = "multi", !.isCMCOnly = isCMCOnly]

\* Faults of the constructor: the research handler built before the
\* endpoint count is checked; the CMC-only flag taken from the other name.
DefaultZOGUXResearchMarketMapFetcherLateCount(api) ==
  CASE ~api.enabled -> Err
    [] ~api.valid -> Err
    [] OTHER ->
         LET r == NewResearchAPIHandler(api) IN
         CASE r.kind # "ok" -> r
           [] api.endpoints # 2 -> Err
           [] OTHER -> NewZOGUXResearchMarketMapFetcher(r, api.name = ResearchCMCAPIHandlerName)

\* DefaultZOGUXResearchMarketMapFetcher: enabled, valid, exactly two
\* endpoints (mainnet, research); then the research handler, the two REST
\* fetchers, and the multi fetcher with isCMCOnly from the name.
DefaultZOGUXResearchMarketMapFetcher(api) ==
  CASE ~api.enabled -> Err
    [] ~api.valid -> Err
    [] api.endpoints # 2 -> Err
    [] OTHER ->
         LET r == NewResearchAPIHandler(api) IN
         IF r.kind # "ok" THEN r
         ELSE NewZOGUXResearchMarketMapFetcher(r, api.name = ResearchCMCAPIHandlerName)

-----------------------------------------------------------------------------
(* factories/oracle/marketmap.go                                            *)

\* The switch on cfg.Name: the fetcher each name gets and its chain ids.
FetcherFor(c, extOk) ==
  CASE c.name = ZOGUXName ->
         IF extOk THEN [Built("ok") EXCEPT !.fetcher = "rest", !.chain = "zogux"] ELSE Err
    [] c.name = SwitchOverAPIHandlerName ->
         IF extOk THEN [Built("ok") EXCEPT !.fetcher = "switchover", !.chain = "zogux"] ELSE Err
    [] c.name \in {ResearchAPIHandlerName, ResearchCMCAPIHandlerName} ->
         LET f == DefaultZOGUXResearchMarketMapFetcher(c)
         IN IF f.kind = "ok" THEN [f EXCEPT !.chain = "zogux"] ELSE f
    [] OTHER ->
         IF extOk THEN [Built("ok") EXCEPT !.fetcher = "marketmap", !.chain = "local-node"]
         ELSE Err

\* MarketMapProviderFactory: cfg.ValidateBasic, the fetcher, then the
\* query handler and the provider.
MarketMapProviderFactory(c, extOk) ==
  IF ~c.valid THEN Err
  ELSE LET f == FetcherFor(c, extOk) IN
       CASE f.kind # "ok" -> f
         [] extOk -> [f EXCEPT !.kind = "provider"]
         [] OTHER -> Err

-----------------------------------------------------------------------------
(* Actions                                                                  *)

Init ==
  /\ cfg \in Configs
  /\ provider = NotBuilt

\* The oracle builds its market-map provider from the config, once.
Build ==
  /\ provider = NotBuilt
  /\ \E extOk \in BOOLEAN : provider' = MarketMapProviderFactory(cfg, extOk)
  /\ UNCHANGED cfg

Next == Build

Spec == Init /\ [][Next]_vars

-----------------------------------------------------------------------------
(* Properties                                                               *)

TypeOK ==
  /\ cfg \in Configs
  /\ provider.kind \in {"none", "error", "panic", "provider"}
  /\ provider.fetcher \in {"none", "rest", "switchover", "multi", "marketmap"}
  /\ provider.chain \in {"none", "zogux", "local-node"}
  /\ provider.url \in 0..2

\* NewResearchAPIHandler reads api.Endpoints[1] without a length check; the
\* factory must never reach it with fewer than two endpoints, whatever the
\* config: DefaultZOGUXResearchMarketMapFetcher has to refuse the config
\* before it builds the research handler.
NoEndpointPanic == provider.kind # "panic"

=============================================================================
