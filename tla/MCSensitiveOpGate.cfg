SPECIFICATION GateSpec
CONSTANTS
  InFlight <- MCInFlight
  MaxSessions = 3
  MaxPins = 5
INVARIANTS
  EveryConfirmHasItsPin
  NobodyIsLeftWaiting
