---------------------------- MODULE MCPinUnlock ----------------------------
EXTENDS PinUnlock
CONSTANTS w1, w2

MCWallets == {w1, w2}
MCInFlight == 1..2
MCMaxFailures == 12
=============================================================================
