------------------------- MODULE MarketMapResolver -------------------------
(***************************************************************************)
(* What the market-map resolver promises (spec section 4.3), with no       *)
(* goroutines, channels or hand-over: the authoritative market map is      *)
(* replaced, in one step, by a composition of one mainnet map and one      *)
(* research map that passes validation, and by nothing else.               *)
(*                                                                         *)
(* Composition: the mainnet markets, plus each research market whose       *)
(* ticker mainnet lacks.  In CMC-only mode every market gets               *)
(* MinProviderCount 1 and a single CoinMarketCap provider configuration,   *)
(* taken from the market itself or else from the static CMC market map;    *)
(* a market with neither is deleted.                                       *)
(***************************************************************************)
EXTENDS MarketMapTypes

CONSTANTS MainnetMaps, ResearchMaps, CMCStaticMap, CMCModes

VARIABLES
  installed,  \* the authoritative market map
  cmcOnly     \* the resolver's CMC-only mode, fixed when it is configured

LOCAL MergeOf(mn, rs) ==
  [t \in DOMAIN mn \cup DOMAIN rs |-> IF t \in DOMAIN mn THEN mn[t] ELSE rs[t]]

LOCAL CMCConfigs(m) == {m.providers[i] : i \in {j \in DOMAIN m.providers : m.providers[j].name = CMC}}

\* The CMC configurations a market may be given in CMC-only mode.
LOCAL CMCChoices(t, m) ==
  IF CMCConfigs(m) # {} THEN CMCConfigs(m)
  ELSE IF t \in DOMAIN CMCStaticMap THEN CMCConfigs(CMCStaticMap[t]) ELSE {}

\* Every map the composition of mn and rs may produce.
Compositions(mn, rs, cmc) ==
  LET mm == MergeOf(mn, rs)
      kept == {t \in DOMAIN mm : CMCChoices(t, mm[t]) # {}}
  IN IF ~cmc THEN {mm}
     ELSE {[t \in kept |-> [mm[t] EXCEPT !.minCount = 1, !.providers = <<pick[t]>>]] :
             pick \in {f \in [kept -> UNION {CMCChoices(u, mm[u]) : u \in kept}] :
                        \A t \in kept : f[t] \in CMCChoices(t, mm[t])}}

Init == installed = EmptyMarketMap /\ cmcOnly \in CMCModes

Update ==
  \E mn \in MainnetMaps, rs \in ResearchMaps :
    \E c \in Compositions(mn, rs, cmcOnly) :
      /\ ValidMarketMap(c)
      /\ installed' = c
      /\ UNCHANGED cmcOnly

Spec == Init /\ [][Update]_<<installed, cmcOnly>>

=============================================================================
