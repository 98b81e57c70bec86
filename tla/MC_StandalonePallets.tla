------------------------- MODULE MC_StandalonePallets -------------------------
(***************************************************************************)
(* Four parts that share no storage with each other nor with the rest of *)
(* the model, explored in one run as separate scenarios: a behaviour picks *)
(* one part and only that part moves, the others stay at a fixed state.    *)
(*   - "vsbond": the vsbond-auction order book of MC_VsbondAuction;        *)
(*   - "migration": the flexible-fee v2 migration under try-runtime, with  *)
(*     UserFeeChargeOrderList keyed by the same accounts;                  *)
(*   - "arithmetic": one input of the TimeUnit operations (TimeUnitBits-   *)
(*     bit payloads) and one of calculate_hosting_fee (HostingFeeBits-bit  *)
(*     u128s); these are pure, so the state is the input;                 *)
(*   - "cross_in_out": the cross-in-out pallet of MC_CrossInOut, over the  *)
(*     same two accounts, with its own free balances.                      *)
(* The reachable states are the union of the four parts' own, not their   *)
(* product.                                                                *)
(***************************************************************************)
EXTENDS MC_VsbondAuction

CONSTANTS
  MigNone,         \* the None of the migration's pre_upgrade bytes
  TimeUnitBits,    \* width of the u32 payload of a TimeUnit
  HostingFeeBits,  \* width of u128 in calculate_hosting_fee
  l1, l2, fil, ksm \* cross-in-out locations and currencies

VARIABLES
  scenario,
  userFeeChargeOrderList, onchainVersion, preState, step, postResult,
  x, y, amount, issuance, pool,
  registry, issueWL, registerWL, acc2loc, loc2acc, minimum, crossFree

Scenarios == {"vsbond", "migration", "arithmetic", "cross_in_out"}

Mig == INSTANCE FlexibleFeeMigration WITH Users <- MC_Accounts, None <- MigNone
TU == INSTANCE TimeUnit WITH Bits <- TimeUnitBits
HF == INSTANCE HostingFee WITH Bits <- HostingFeeBits
Cross == INSTANCE CrossInOut WITH Accounts <- MC_Accounts, Locations <- {l1, l2},
           Currencies <- {fil, ksm}, FIL <- fil, Amounts <- {1}, MaxBalance <- 1,
           free <- crossFree

migVars == <<userFeeChargeOrderList, onchainVersion, preState, step, postResult>>
arithVars == <<x, y, amount, issuance, pool>>
crossVars == <<registry, issueWL, registerWL, acc2loc, loc2acc, minimum, crossFree>>
allVars == <<scenario, vars, migVars, arithVars, crossVars>>

\* A part that is not the scenario's stays at one of its initial states.
Fixed(P) == CHOOSE s \in P : TRUE
MigFixed == Fixed({v \in [list : SUBSET MC_Accounts, version : Mig!StorageVersions] :
                     v.version = 2 /\ v.list = {}})

ScenarioInit ==
  /\ scenario \in Scenarios
  /\ Init
  /\ Cross!Init
  /\ IF scenario = "migration"
       THEN Mig!Init
       ELSE /\ userFeeChargeOrderList = MigFixed.list
            /\ onchainVersion = MigFixed.version
            /\ preState = MigNone /\ step = "pre_upgrade"
            /\ postResult = MigNone
  /\ IF scenario = "arithmetic"
       THEN TU!Init /\ HF!Init
       ELSE /\ x = Fixed(TU!TimeUnits) /\ y = Fixed(TU!TimeUnits)
            /\ amount = 1 /\ issuance = 0 /\ pool = 0

ScenarioNext ==
  \/ scenario = "vsbond" /\ Next /\ UNCHANGED <<scenario, migVars, arithVars, crossVars>>
  \/ scenario = "migration" /\ Mig!Next /\ UNCHANGED <<scenario, vars, arithVars, crossVars>>
  \/ scenario = "cross_in_out" /\ Cross!Next /\ UNCHANGED <<scenario, vars, migVars, arithVars>>

\* Accounts are interchangeable in every part and locations in cross-in-out.
ScenarioSymmetry == Permutations(MC_Accounts) \cup Permutations({l1, l2})

ScenarioSpec == ScenarioInit /\ [][ScenarioNext]_allVars

(* The migration's variables, the TimeUnit pair with add_one and add of it, *)
(* the hosting-fee inputs with the fee, and the cross-in-out storage and    *)
(* balances all hold values of their types.                                *)
StandaloneTypeOK == Mig!TypeOK /\ TU!TypeOK /\ HF!TypeOK /\ Cross!TypeOK

(* TimeUnit's eq, cmp and partial_cmp agree with each other. *)
CmpConsistentWithEq == TU!CmpConsistentWithEq

(* calculate_hosting_fee is floor(amount * issuance / pool) wherever that   *)
(* fits in u128.                                                           *)
HostingFeeIsFairShare == HF!HostingFeeIsFairShare

(* The account cross_in credits for a location links back to that location *)
(* (CrossInOut!CrossInTargetLinksBack).                                     *)
CrossInTargetLinksBack == Cross!CrossInTargetLinksBack

=============================================================================
