-------------------------- MODULE MCMobileSession --------------------------
EXTENDS MobileSession
CONSTANT w1

MCWallets == {w1}
MCInFlight == 1..1
MCMaxIO == 2
=============================================================================
