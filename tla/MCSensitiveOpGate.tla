-------------------------- MODULE MCSensitiveOpGate --------------------------
EXTENDS SensitiveOpGate

MCInFlight == 1..2
=============================================================================
