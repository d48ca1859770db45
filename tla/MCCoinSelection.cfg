SPECIFICATION CoinSpec
CONSTANTS
  CoinValues <- MCCoinValues
  MaxCoins <- MCMaxCoins
  Targets <- MCTargets
  OutputCounts <- MCOutputCounts
  FeeRates <- MCFeeRates
INVARIANTS
  FeeIsFair
  CompleteWhenEconomical
CHECK_DEADLOCK FALSE
