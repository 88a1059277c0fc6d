CONSTANTS
  OffChains <- MCOffChains
  Upper <- MCUpper
  Pairs = {"BTC/USDT", "ETH/USDT", "SOL/USDT"}
  Tickers <- MCLowerCaseTickers
  MaxSubs = 2
  ConfigOverrides = {}
  MaxInbox = 1
  MaxDrops = 0
SPECIFICATION Spec
INVARIANTS SubscribedFramesResolve
