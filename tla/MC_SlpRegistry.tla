--------------------------- MODULE MC_SlpRegistry ---------------------------
(***************************************************************************)
(* One currency, three delegator locations, a 2-bit index counter (the     *)
(* u16 of the code cut to 0..3), two validators against a                  *)
(* validators_maximum of 1.                                                *)
(***************************************************************************)
EXTENDS SlpRegistry

CONSTANTS KSM, la, lb, lc, va, vb

MC_Currencies == {KSM}
MC_Locations == {la, lb, lc}
MC_ValidatorLocations == {va, vb}
MC_MinsMaxs == KSM :> [delegators_maximum |-> 3, validators_maximum |-> 1]
(* delegators_maximum is a u16, so it is at most the counter's top value;  *)
(* initialize_delegator then stops at GreaterThanMaximum before checked_add *)
(* can overflow. The derivative location of each index.                   *)
MC_Derivative == (0 :> la) @@ (1 :> lb) @@ (2 :> lc) @@ (3 :> la)

Init == RegistryInit
Next == RegistryNext
Spec == Init /\ [][Next]_registryVars
=============================================================================
