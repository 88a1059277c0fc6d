CONSTANTS
  OffChains <- MCOffChains
  Upper <- MCUpper
  Pairs = {"BTC/USDT", "ETH/USDT", "SOL/USDT"}
  Tickers <- MCTickers
  MaxSubs = 2
  ConfigOverrides <- MCRaised
  MaxInbox = 1
  MaxDrops = 0
SPECIFICATION Spec
PROPERTIES AllShardsLive
