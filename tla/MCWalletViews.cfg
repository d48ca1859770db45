SPECIFICATION ViewsSpec
CONSTANTS
  w1 = w1
  w2 = w2
  None = None
  Wallets <- MCWallets
  History <- MCHistory
  Payable <- MCPayable
  GAP_LIMIT = 2
  MaxAsked = 2
INVARIANTS
  ViewsTypeOK
  StoredIsFound
  SettledIsUnused
  ShownIsOwn
