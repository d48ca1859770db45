SPECIFICATION Spec
CONSTANTS
  w1 = w1
  Wallets <- MCWallets
  None = None
  InFlight <- MCInFlight
  MaxIO <- MCMaxIO
INVARIANTS
  TypeOK
  MarkedMeansWiped
  ListSurvives
  WalletsHavePin
PROPERTY SpinnerEnds
