----------------------------- MODULE MC_CrossInOut -----------------------------
EXTENDS CrossInOut

CONSTANTS u1, u2, l1, l2, fil, ksm

MC_Accounts == {u1, u2}
MC_Locations == {l1, l2}
MC_Currencies == {fil, ksm}

Symmetry == Permutations(MC_Accounts) \cup Permutations(MC_Locations)

=============================================================================
