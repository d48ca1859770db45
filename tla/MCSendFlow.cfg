SPECIFICATION FairSpec
CONSTANTS
  f1 = f1
  f2 = f2
  Forms <- MCForms
  Coins <- MCCoins
  MaxCalls = 5
  MobileCalls = 3
  NoTx = NoTx
INVARIANTS
  TypeOK
  OnePaymentPerVisit
  OnlyConfirmedIsPaid
  OneCallUnderWay
PROPERTY ButtonsComeBack
CHECK_DEADLOCK FALSE
