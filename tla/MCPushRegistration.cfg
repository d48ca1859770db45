SPECIFICATION Spec
CONSTANTS
  incomingTx = incomingTx
  Keys <- MCKeys
  MaxToken <- MCMaxToken
  MaxCalls <- MCMaxCalls
INVARIANTS
  TypeOK
  OffStaysOff
  SwitchTellsTruth
  TokenIsCurrent
PROPERTY SwitchComesBack
