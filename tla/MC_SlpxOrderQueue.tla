--------------------------- MODULE MC_SlpxOrderQueue ---------------------------
EXTENDS SlpxOrderQueue

CONSTANTS a1, a2, c1, c2

MC_Accounts == {a1, a2}
MC_OracleCurrencies == {c1, c2}

=============================================================================
