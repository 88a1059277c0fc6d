CONSTANTS
  OffChains <- MCOffChains
  Upper <- MCUpper
  Pairs = {"BTC/USDT", "ETH/USDT", "SOL/USDT"}
  Tickers <- MCTickers
  MaxSubs = 2
  ConfigOverrides <- MCOverrides
  MaxInbox = 1
  MaxDrops = 1
SPECIFICATION Spec
INVARIANTS TypeOK SubscribedFramesResolve
PROPERTIES ShardsLiveWithinLimit
