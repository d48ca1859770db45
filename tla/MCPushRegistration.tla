------------------------- MODULE MCPushRegistration -------------------------
EXTENDS PushRegistration
CONSTANTS incomingTx

MCKeys == {incomingTx}
MCMaxToken == 2
MCMaxCalls == 2
=============================================================================
