---------------------------- MODULE MC_SlpTuning ----------------------------
(***************************************************************************)
(* One currency with limit_num = 2 and three delegator locations, so that *)
(* a third tuning in one TimeUnit is attempted; two TimeUnits, so that the *)
(* count restarts; PoolCap 3 so that increase_token_pool can fail.         *)
(***************************************************************************)
EXTENDS SlpTuning

CONSTANTS KSM, la, lb, lc, va

MC_Currencies == {KSM}
MC_Locations == {la, lb, lc}
MC_ValidatorLocations == {va}
MC_MinsMaxs == KSM :> [delegators_maximum |-> 3, validators_maximum |-> 1]
(* delegators_maximum is a u16, so it is at most the counter's top value;  *)
(* initialize_delegator then stops at GreaterThanMaximum before checked_add *)
(* can overflow. The derivative location of each index.                   *)
MC_Derivative == (0 :> la) @@ (1 :> lb) @@ (2 :> lc) @@ (3 :> la)
MC_TuneLimit == KSM :> 2
=============================================================================
