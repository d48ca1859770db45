----------------------------- MODULE MCSendFlow -----------------------------
EXTENDS SendFlow
CONSTANTS f1, f2

MCForms == {f1, f2}
MCCoins == 1..2
=============================================================================
