--------------------------- MODULE MarketMapTypes ---------------------------
(***************************************************************************)
(* The market-map data model shared by the resolver modules.               *)
(*                                                                         *)
(* A ticker is a currency-pair key ("BASE/QUOTE" in the code).  A market   *)
(* keeps the fields of mmtypes.Market that the resolver reads or writes:   *)
(* the ticker, MinProviderCount, Enabled and the ordered ProviderConfigs;  *)
(* a provider config keeps its Name and its NormalizeByPair (NoPair when   *)
(* the pointer is nil).  Off-chain tickers, Invert and metadata JSON are   *)
(* not read by any step modelled here and are left out.  A market map is a *)
(* function from a set of tickers to markets (MarketMap.Markets).          *)
(***************************************************************************)
EXTENDS Integers, Sequences, FiniteSets

CONSTANTS
  Tickers,        \* currency-pair keys
  ProviderNames,  \* canonical provider names (values of ProviderMapping)
  CMC,            \* coinmarketcap.Name, a member of ProviderNames
  NoPair          \* a nil NormalizeByPair

ASSUME CMC \in ProviderNames /\ NoPair \notin Tickers

LOCAL G == INSTANCE Graphs

ProviderConfig == [name : ProviderNames, norm : Tickers \cup {NoPair}]

Market == [ticker : Tickers, minCount : Nat, enabled : BOOLEAN,
           providers : Seq(ProviderConfig)]

IsMarketMap(mm) == DOMAIN mm \subseteq Tickers /\ \A t \in DOMAIN mm : mm[t] \in Market

EmptyMarketMap == <<>>

\* The normalization graph: an edge t -> u when a provider of t's market is
\* normalized by u.
NormGraph(mm) ==
  [node |-> DOMAIN mm,
   edge |-> UNION {{<<t, mm[t].providers[i].norm>> : i \in DOMAIN mm[t].providers} :
                   t \in DOMAIN mm}
            \ (Tickers \X {NoPair})]

ProviderNamesOf(m) == {m.providers[i].name : i \in DOMAIN m.providers}

\* Market.ValidateBasic with its Ticker.ValidateBasic: the key matches the
\* ticker, there is at least one provider and no two share a name, and an
\* enabled ticker needs MinProviderCount >= 1.
ValidMarket(t, m) ==
  /\ m.ticker = t
  /\ Len(m.providers) >= 1
  /\ Cardinality(ProviderNamesOf(m)) = Len(m.providers)
  /\ m.enabled => m.minCount >= 1

\* MarketMap.ValidateBasic: every market is valid, every NormalizeByPair
\* names a market of the same map, and normalization has no cycle.
ValidMarketMap(mm) ==
  /\ \A t \in DOMAIN mm : ValidMarket(t, mm[t])
  /\ \A e \in NormGraph(mm).edge : e[2] \in DOMAIN mm
  /\ ~G!HasCycle(NormGraph(mm))

=============================================================================
