SPECIFICATION Spec
CONSTANTS
  a1 = a1
  x1 = x1
  NoTx = NoTx
  Good <- MCGood
  Bad <- MCBad
  Amounts <- MCAmounts
  Balances <- MCBalances
  Rates <- MCRates
  FALLBACK_RATE = 2
  Vbytes = 1
INVARIANTS
  TypeOK
  SignedIsPayable
  ReviewedWasChecked
PROPERTY ReviewNeverHangs
CHECK_DEADLOCK FALSE
