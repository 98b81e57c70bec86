------------------------- MODULE FlexibleFeeMigration -------------------------
(***************************************************************************)
(* The flexible-fee storage migration to version 2,                        *)
(* src/pallets/flexible-fee/src/migrations/v2.rs, as try-runtime runs it:  *)
(* pre_upgrade, then on_runtime_upgrade, then post_upgrade with the bytes  *)
(* pre_upgrade returned.                                                   *)
(*                                                                         *)
(* UserFeeChargeOrderList is kept as the set of accounts that have an      *)
(* entry: the migration and its checks only clear and count the entries.  *)
(* The storage before the upgrade is any content under any version.        *)
(***************************************************************************)
EXTENDS Naturals, FiniteSets

CONSTANTS
  Users,      \* accounts that may hold a UserFeeChargeOrderList entry
  None

\* The storage versions the pallet can be at before the upgrade; the code
\* only distinguishes below 2 from 2.
StorageVersions == 0 .. 2

Steps == {"pre_upgrade", "on_runtime_upgrade", "post_upgrade", "done"}

VARIABLES
  userFeeChargeOrderList,  \* accounts with an entry
  onchainVersion,          \* the pallet's on-chain StorageVersion
  preState,                \* the count pre_upgrade encoded, or None
  step,                    \* the next try-runtime step
  postResult               \* what post_upgrade returned, or None

vars == <<userFeeChargeOrderList, onchainVersion, preState, step, postResult>>

Init ==
  /\ userFeeChargeOrderList \in SUBSET Users
  /\ onchainVersion \in StorageVersions
  /\ preState = None
  /\ step = "pre_upgrade"
  /\ postResult = None

(* pre_upgrade: count the entries and return the count, SCALE-encoded. *)
PreUpgrade ==
  /\ step = "pre_upgrade"
  /\ preState' = Cardinality(userFeeChargeOrderList)
  /\ step' = "on_runtime_upgrade"
  /\ UNCHANGED <<userFeeChargeOrderList, onchainVersion, postResult>>

(* clear(u32::MAX, None): the limit exceeds any map, every entry goes. *)
Clear(list) == {}

(* A migration without the version guard that puts the next version. *)
OnRuntimeUpgradeUnguarded ==
  /\ step = "on_runtime_upgrade"
  /\ userFeeChargeOrderList' = Clear(userFeeChargeOrderList)
  /\ onchainVersion' = onchainVersion + 1
  /\ step' = "post_upgrade"
  /\ UNCHANGED <<preState, postResult>>

(* on_runtime_upgrade: below version 2, clear the map and put version 2; *)
(* at version 2, do nothing.                                              *)
OnRuntimeUpgrade ==
  /\ step = "on_runtime_upgrade"
  /\ IF onchainVersion < 2
       THEN /\ userFeeChargeOrderList' = Clear(userFeeChargeOrderList)
            /\ onchainVersion' = 2
       ELSE UNCHANGED <<userFeeChargeOrderList, onchainVersion>>
  /\ step' = "post_upgrade"
  /\ UNCHANGED <<preState, postResult>>

(* post_upgrade: decode the count pre_upgrade returned and ensure the map *)
(* still has as many entries.                                              *)
PostUpgrade ==
  /\ step = "post_upgrade"
  /\ postResult' = IF Cardinality(userFeeChargeOrderList) = preState
                     THEN "Ok" ELSE "Err"
  /\ step' = "done"
  /\ UNCHANGED <<userFeeChargeOrderList, onchainVersion, preState>>

Next ==
  \/ PreUpgrade
  \/ OnRuntimeUpgrade
  \/ PostUpgrade

Spec == Init /\ [][Next]_vars

-----------------------------------------------------------------------------

(* Every variable holds a value of its type. *)
TypeOK ==
  /\ userFeeChargeOrderList \subseteq Users
  /\ onchainVersion \in StorageVersions
  /\ preState \in (0 .. Cardinality(Users)) \cup {None}
  /\ step \in Steps
  /\ postResult \in {"Ok", "Err", None}

(* try-runtime accepts the migration: post_upgrade never returns the error *)
(* "Post-migration storage count does not match pre-migration count".     *)
PostUpgradeAccepts == postResult # "Err"

=============================================================================
