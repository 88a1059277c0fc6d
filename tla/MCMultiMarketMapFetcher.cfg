CONSTANTS
  Tickers = {"BTC/USD", "ETH/USDT", "USDT/USD"}
  ProviderNames = {"binance_ws", "okx_ws", "coinmarketcap"}
  CMC = "coinmarketcap"
  NoPair = NoPair
  MainnetMaps <- MCMainnetMaps
  ResearchMaps <- MCResearchMaps
  CMCStaticMap <- MCCMCStaticMap
  CMCModes = {FALSE, TRUE}
  ChanCap = 1
SPECIFICATION Spec
INVARIANT TypeOK
PROPERTIES GoodRoundInstalled Refinement
