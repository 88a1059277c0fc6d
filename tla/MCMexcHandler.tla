--------------------------- MODULE MCMexcHandler ---------------------------
(***************************************************************************)
(* Two markets on MEXC, with the package's MaxSubscriptionsPerConnection   *)
(* scaled down from 30 to 2.  The provider's three tickers split into two  *)
(* connections under the default config, and into a single connection of  *)
(* three under an override of 3, which CreateMessages refuses.             *)
(* MCLowerCaseTickers gives BTC an off-chain string in lower case.         *)
(***************************************************************************)
EXTENDS MexcHandler, TLC

MCOffChains == {"BTCUSDT", "ETHUSDT", "SOLUSDT", "btcusdt"}
MCUpper == [o \in MCOffChains |-> IF o = "btcusdt" THEN "BTCUSDT" ELSE o]

Btc == [cp |-> "BTC/USDT", offChain |-> "BTCUSDT"]
Eth == [cp |-> "ETH/USDT", offChain |-> "ETHUSDT"]
Sol == [cp |-> "SOL/USDT", offChain |-> "SOLUSDT"]
BtcLower == [cp |-> "BTC/USDT", offChain |-> "btcusdt"]

\* The default with its limit raised to 3, a disabled copy and a copy
\* under another provider's name; the constructor refuses the last two.
MCOverrides ==
  {[DefaultWebSocketConfig EXCEPT !.maxSubscriptionsPerConnection = 3],
   [DefaultWebSocketConfig EXCEPT !.enabled = FALSE],
   [DefaultWebSocketConfig EXCEPT !.name = "other"]}

MCRaised == {[DefaultWebSocketConfig EXCEPT !.maxSubscriptionsPerConnection = 3]}

MCTickers == <<Btc, Eth, Sol>>
MCLowerCaseTickers == <<BtcLower, Eth>>

=============================================================================
