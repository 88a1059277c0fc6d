------------------------ MODULE MultiMarketMapFetcher ------------------------
(***************************************************************************)
(* MultiMarketMapRestAPIFetcher.Fetch (providers/apis/zogux/               *)
(* multi_market_map_fetcher.go) driven by the market-map provider, and the *)
(* registry that installs what it returns.                                 *)
(*                                                                         *)
(* One Fetch call makes two buffered channels, starts a mainnet and a      *)
(* research goroutine that each send one response, waits on the WaitGroup,*)
(* receives both responses and combines them: mainnet failure wins, then   *)
(* research failure, else research markets missing from mainnet are added,*)
(* the CMC-only filter runs when configured, and the combined map is       *)
(* validated.  The provider hands the response to the registry, which      *)
(* installs a valid resolved map atomically and otherwise keeps the old    *)
(* one.  Every poll of the provider is one Fetch; the remote documents may *)
(* change between polls, so each goroutine picks its response afresh.      *)
(***************************************************************************)
EXTENDS MarketMapTypes

CONSTANTS
  MainnetMaps,    \* market maps the mainnet endpoint may serve
  ResearchMaps,   \* market maps the research handler may parse
  CMCStaticMap,   \* marketmaps.CoinMarketCapMarketMap.Markets
  CMCModes,       \* values api.Name == ResearchCMCAPIHandlerName may take
  ChanCap         \* capacity of the two response channels

ASSUME \A mm \in MainnetMaps \cup ResearchMaps \cup {CMCStaticMap} : IsMarketMap(mm)
ASSUME CMCModes \subseteq BOOLEAN /\ ChanCap \in Nat

VARIABLES
  isCMCOnly,   \* the fetcher's isCMCOnly field, fixed when it is built
  fetcher,     \* "idle", "waiting" (inside Fetch) or "returned" (response to hand over)
  mainnetCh,   \* zoguxMainnetResponseChan
  researchCh,  \* zoguxResearchResponseChan
  wg,          \* goroutines that have not called wg.Done
  response,    \* the response Fetch returned, NoResponse before the first
  inputs,      \* history: <<mainnet, research>> responses the last Fetch received
  installed    \* the registry's current market map

vars == <<isCMCOnly, fetcher, mainnetCh, researchCh, wg, response, inputs, installed>>

Resolved(mm) == [kind |-> "resolved", mm |-> mm, err |-> "none"]
Unresolved(src) == [kind |-> "unresolved", mm |-> EmptyMarketMap, err |-> src]
NoResponse == [kind |-> "none", mm |-> EmptyMarketMap, err |-> "none"]

\* What each goroutine's underlying RestAPIFetcher may return: a parsed map,
\* or an UnResolved entry for the zogux chain (HTTP error, timeout, decode).
MainnetResponses == {Resolved(m) : m \in MainnetMaps} \cup {Unresolved("mainnet")}
ResearchResponses == {Resolved(m) : m \in ResearchMaps} \cup {Unresolved("research")}
IsResponse(r) ==
  /\ r.kind \in {"resolved", "unresolved", "none"}
  /\ r.err \in {"none", "mainnet", "research", "validation"}
  /\ IsMarketMap(r.mm)

-----------------------------------------------------------------------------
(* The combine step of Fetch, after both responses are received.            *)

\* Plausible faults of the combine step, each used in place of the
\* definition it imitates to show that a property tells them apart.
MergeResearchWins(mn, rs) ==
  [t \in DOMAIN mn \cup DOMAIN rs |-> IF t \in DOMAIN rs THEN rs[t] ELSE mn[t]]

\* Add every research market whose ticker is not in the mainnet map.
Merge(mn, rs) == [t \in DOMAIN mn \cup DOMAIN rs |-> IF t \in DOMAIN mn THEN mn[t] ELSE rs[t]]

CMCIndexes(m) == {i \in DOMAIN m.providers : m.providers[i].name = CMC}

CMCMarketKeepsMin(t, m) ==
  [m EXCEPT !.providers = IF CMCIndexes(m) # {}
                          THEN <<m.providers[CHOOSE i \in CMCIndexes(m) :
                                               \A j \in CMCIndexes(m) : j <= i]>>
                          ELSE CMCStaticMap[t].providers]

\* The market as the CMC-only loop rewrites it: MinProviderCount 1, and the
\* last CMC provider it saw, else the providers of the static CMC market.
CMCMarket(t, m) ==
  [m EXCEPT !.minCount = 1,
            !.providers = IF CMCIndexes(m) # {}
                          THEN <<m.providers[CHOOSE i \in CMCIndexes(m) :
                                               \A j \in CMCIndexes(m) : j <= i]>>
                          ELSE CMCStaticMap[t].providers]

\* Markets with neither a CMC provider nor a static CMC market are deleted.
CMCOnlyFilter(mm) ==
  LET kept == {t \in DOMAIN mm : CMCIndexes(mm[t]) # {} \/ t \in DOMAIN CMCStaticMap}
  IN [t \in kept |-> CMCMarket(t, mm[t])]

Combined(mn, rs) == IF isCMCOnly THEN CMCOnlyFilter(Merge(mn, rs)) ELSE Merge(mn, rs)

\* The response Fetch returns for the two responses it received.
FetchResult(mnResp, rsResp) ==
  IF mnResp.kind = "unresolved" THEN mnResp
  ELSE IF rsResp.kind = "unresolved" THEN rsResp
  ELSE IF ValidMarketMap(Combined(mnResp.mm, rsResp.mm))
       THEN Resolved(Combined(mnResp.mm, rsResp.mm))
       ELSE Unresolved("validation")

-----------------------------------------------------------------------------
(* Actions                                                                  *)

\* The provider's poll calls Fetch: fresh channels, wg.Add(2), two goroutines.
StartFetch ==
  /\ fetcher = "idle"
  /\ fetcher' = "waiting"
  /\ mainnetCh' = <<>>
  /\ researchCh' = <<>>
  /\ wg' = {"mainnet", "research"}
  /\ UNCHANGED <<isCMCOnly, response, inputs, installed>>

\* The mainnet goroutine sends its fetcher's response, then wg.Done.
MainnetFetch ==
  /\ "mainnet" \in wg
  /\ Len(mainnetCh) < ChanCap
  /\ \E r \in MainnetResponses : mainnetCh' = Append(mainnetCh, r)
  /\ wg' = wg \ {"mainnet"}
  /\ UNCHANGED <<isCMCOnly, fetcher, researchCh, response, inputs, installed>>

\* The research goroutine sends its fetcher's response, then wg.Done.
ResearchFetch ==
  /\ "research" \in wg
  /\ Len(researchCh) < ChanCap
  /\ \E r \in ResearchResponses : researchCh' = Append(researchCh, r)
  /\ wg' = wg \ {"research"}
  /\ UNCHANGED <<isCMCOnly, fetcher, mainnetCh, response, inputs, installed>>

CombineSwapped ==
  /\ fetcher = "waiting"
  /\ wg = {}
  /\ mainnetCh # <<>> /\ researchCh # <<>>
  /\ response' = FetchResult(Head(researchCh), Head(mainnetCh))
  /\ inputs' = <<Head(researchCh), Head(mainnetCh)>>
  /\ mainnetCh' = Tail(mainnetCh)
  /\ researchCh' = Tail(researchCh)
  /\ fetcher' = "returned"
  /\ UNCHANGED <<isCMCOnly, wg, installed>>

\* wg.Wait returns, both responses are received and combined.
Combine ==
  /\ fetcher = "waiting"
  /\ wg = {}
  /\ mainnetCh # <<>> /\ researchCh # <<>>
  /\ response' = FetchResult(Head(mainnetCh), Head(researchCh))
  /\ inputs' = <<Head(mainnetCh), Head(researchCh)>>
  /\ mainnetCh' = Tail(mainnetCh)
  /\ researchCh' = Tail(researchCh)
  /\ fetcher' = "returned"
  /\ UNCHANGED <<isCMCOnly, wg, installed>>

\* The registry installs a resolved, valid map by an atomic swap; a failed
\* fetch or an invalid map leaves the previous map installed.
Install ==
  /\ fetcher = "returned"
  /\ installed' = IF response.kind = "resolved" /\ ValidMarketMap(response.mm)
                  THEN response.mm ELSE installed
  /\ fetcher' = "idle"
  /\ UNCHANGED <<isCMCOnly, mainnetCh, researchCh, wg, response, inputs>>

Init ==
  /\ isCMCOnly \in CMCModes
  /\ fetcher = "idle"
  /\ mainnetCh = <<>>
  /\ researchCh = <<>>
  /\ wg = {}
  /\ response = NoResponse
  /\ inputs = <<NoResponse, NoResponse>>
  /\ installed = EmptyMarketMap

Next == StartFetch \/ MainnetFetch \/ ResearchFetch \/ Combine \/ Install

\* The provider polls on a ticker, each goroutine's HTTP call has a timeout,
\* and the registry takes every response it is handed.
Fairness == WF_vars(StartFetch) /\ WF_vars(MainnetFetch) /\ WF_vars(ResearchFetch)
            /\ WF_vars(Combine) /\ WF_vars(Install)

Spec == Init /\ [][Next]_vars /\ Fairness

-----------------------------------------------------------------------------
(* Properties                                                               *)

Abstract == INSTANCE MarketMapResolver WITH cmcOnly <- isCMCOnly

TypeOK ==
  /\ isCMCOnly \in CMCModes
  /\ fetcher \in {"idle", "waiting", "returned"}
  /\ mainnetCh \in Seq(MainnetResponses) /\ Len(mainnetCh) <= 1
  /\ researchCh \in Seq(ResearchResponses) /\ Len(researchCh) <= 1
  /\ wg \subseteq {"mainnet", "research"}
  /\ IsResponse(response)
  /\ inputs \in (MainnetResponses \cup {NoResponse}) \X (ResearchResponses \cup {NoResponse})
  /\ IsMarketMap(installed)

\* Spec 4.3, CMC-only mode: the degraded fallback quotes every market
\* through a single CoinMarketCap provider.  When both sources answer and
\* their merge is a valid market map, the CMC-only rewrite should not turn
\* it into one ValidateBasic rejects: the loop at lines 190-226 keeps the
\* last CMC provider with its NormalizeByPair and deletes the markets it
\* finds no CMC source for, without looking at what refers to them.
CMCOnlyKeepsValidMerge ==
  (/\ fetcher = "returned"
   /\ isCMCOnly
   /\ inputs[1].kind = "resolved" /\ inputs[2].kind = "resolved"
   /\ ValidMarketMap(Merge(inputs[1].mm, inputs[2].mm)))
    => response.kind = "resolved"

\* Progress of the provider loop: whenever both sources answered with maps
\* whose compositions (in the sense of the abstract resolver) are all
\* valid, one of them is eventually installed.  The spec leaves open which
\* CMC configuration a market with several keeps, so the premise asks all
\* the choices to be valid.
GoodRoundInstalled ==
  \A mn \in MainnetMaps, rs \in ResearchMaps :
    LET comps == Abstract!Compositions(mn, rs, isCMCOnly)
    IN (/\ fetcher = "returned"
        /\ inputs = <<Resolved(mn), Resolved(rs)>>
        /\ comps # {}
        /\ \A c \in comps : ValidMarketMap(c))
         ~> installed \in comps

\* The resolver's abstract specification: the installed map only ever
\* changes to a valid composition of one mainnet and one research map.
Refinement == Abstract!Spec

=============================================================================
