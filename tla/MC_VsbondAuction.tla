---------------------------- MODULE MC_VsbondAuction ----------------------------
EXTENDS VsbondAuction

CONSTANTS o1, o2

MC_Accounts == {o1, o2}
MC_InitialFree == [t \in Tokens |-> 3]

Symmetry == Permutations(MC_Accounts)

=============================================================================
