SPECIFICATION Spec
CONSTANTS
  w1 = w1
  w2 = w2
  Wallets <- MCWallets
  InFlight <- MCInFlight
  MaxFailures <- MCMaxFailures
INVARIANTS
  TypeOK
  ForgottenHasNoSecrets
PROPERTY WipeNeedsTenRefusals
