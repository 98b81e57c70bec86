----------------------------- MODULE SlpRegistry -----------------------------
(***************************************************************************)
(* Delegator and validator registries of the SLP pallet, with the          *)
(* existence of each delegator's bonding ledger                            *)
(* (src/pallets/slp/src/agents/common.rs).                                 *)
(*                                                                         *)
(* Every extrinsic runs in one storage transaction: a call that returns an *)
(* error leaves no write behind, so an operation is one action whose guard *)
(* is the conjunction of the checks the code makes before it succeeds.     *)
(* The registries are partitioned by CurrencyId; every map below is a      *)
(* function of the currency.                                               *)
(***************************************************************************)
EXTENDS Naturals, Sequences, FiniteSets, SequencesExt, TLC

CONSTANTS
  Currencies,          \* CurrencyIds served by the pallet
  Locations,           \* MultiLocations of delegator accounts
  ValidatorLocations,  \* MultiLocations of validators
  IndexBits,           \* width of the DelegatorNextIndex counter (u16 in the code)
  MinsMaxs,            \* MinimumsAndMaximums: a function on the currencies that have one
  MaxLengthLimit,      \* T::MaxLengthLimit, the capacity of the Validators BoundedVec
  Derivative,          \* AccountConverter: index -> derivative MultiLocation
  None                 \* the None of an OptionQuery storage item

ASSUME IndexBits \in Nat \ {0}
ASSUME DOMAIN MinsMaxs \subseteq Currencies
ASSUME \A c \in DOMAIN MinsMaxs :
         MinsMaxs[c].delegators_maximum \in Nat /\ MinsMaxs[c].validators_maximum \in Nat
ASSUME MaxLengthLimit \in Nat \ {0}
ASSUME None \notin Seq(ValidatorLocations)

(* The largest value a DelegatorNextIndex counter can hold. *)
IndexMax == 2^IndexBits - 1
Indices == 0 .. IndexMax

ASSUME Derivative \in [Indices -> Locations]
\* delegators_maximum is a u16, as the counter is.
ASSUME \A c \in DOMAIN MinsMaxs : MinsMaxs[c].delegators_maximum <= IndexMax

VARIABLES
  delegatorNextIndex,  \* DelegatorNextIndex: currency -> next index to hand out
  index2loc,           \* DelegatorsIndex2Multilocation: currency -> (index -> location)
  loc2index,           \* DelegatorsMultilocation2Index: currency -> (location -> index)
  validators,          \* Validators: currency -> BoundedVec of locations, or None
  ledgers              \* DelegatorLedgers: currency -> locations that have a ledger

registryVars == <<delegatorNextIndex, index2loc, loc2index, validators, ledgers>>

PartialFunctions(S, T) == UNION {[D -> T] : D \in SUBSET S}

RegistryTypeOK ==
  /\ delegatorNextIndex \in [Currencies -> Indices]
  /\ index2loc \in [Currencies -> PartialFunctions(Indices, Locations)]
  /\ loc2index \in [Currencies -> PartialFunctions(Locations, Indices)]
  /\ validators \in [Currencies -> Seq(ValidatorLocations) \cup {None}]
  /\ ledgers \in [Currencies -> SUBSET Locations]

RegistryInit ==
  /\ delegatorNextIndex = [c \in Currencies |-> 0]
  /\ index2loc = [c \in Currencies |-> <<>>]
  /\ loc2index = [c \in Currencies |-> <<>>]
  /\ validators = [c \in Currencies |-> None]
  /\ ledgers = [c \in Currencies |-> {}]

(* f with the key k mapped to v, replacing any earlier value (StorageMap::insert). *)
Put(f, k, v) == (k :> v) @@ f

(* f without the key k (StorageMap::remove). *)
Drop(f, k) == [x \in DOMAIN f \ {k} |-> f[x]]

(***************************************************************************)
(* inner_initialize_delegator: DelegatorNextIndex is advanced with         *)
(* checked_add, which is None on overflow, and the call then fails with    *)
(* OverFlow instead of wrapping.                                           *)
(***************************************************************************)
CheckedAddIndex(n) == IF n < IndexMax THEN n + 1 ELSE None

(***************************************************************************)
(* inner_add_delegator(index, who, currency_id) reading `count` as the     *)
(* current DelegatorNextIndex: only the index is checked for duplicates,   *)
(* and the count compared with the maximum is the counter, not the number  *)
(* of delegators.                                                          *)
(***************************************************************************)
CanAddDelegator(c, index, count) ==
  /\ index \notin DOMAIN index2loc[c]
  /\ c \in DOMAIN MinsMaxs
  /\ count < MinsMaxs[c].delegators_maximum

InsertDelegator(c, index, who) ==
  /\ index2loc' = [index2loc EXCEPT ![c] = Put(@, index, who)]
  /\ loc2index' = [loc2index EXCEPT ![c] = Put(@, who, index)]

(***************************************************************************)
(* The agents' initialize_delegator: a fresh index from the counter, the   *)
(* derivative location for that index, then inner_add_delegator with the  *)
(* advanced counter; the whole call reverts if the add fails.              *)
(***************************************************************************)
InitializeDelegator(c) ==
  LET index == delegatorNextIndex[c]
      count == CheckedAddIndex(index)
  IN /\ count # None
     /\ CanAddDelegator(c, index, count)
     /\ delegatorNextIndex' = [delegatorNextIndex EXCEPT ![c] = count]
     /\ InsertDelegator(c, index, Derivative[index])
     /\ UNCHANGED <<validators, ledgers>>

(* The governance add_delegator call: any index, any location. *)
AddDelegator(c, index, who) ==
  /\ CanAddDelegator(c, index, delegatorNextIndex[c])
  /\ InsertDelegator(c, index, who)
  /\ UNCHANGED <<delegatorNextIndex, validators, ledgers>>

(* Fault variant: the ledger is left behind. *)
DeleteLedgerSkipped(c, who) == UNCHANGED ledgers

(* DelegatorLedgers::remove inside inner_remove_delegator. *)
DeleteLedger(c, who) == ledgers' = [ledgers EXCEPT ![c] = @ \ {who}]

(***************************************************************************)
(* inner_remove_delegator: the index is looked up by location, then both   *)
(* maps and the ledger are removed.                                        *)
(***************************************************************************)
RemoveDelegator(c, who) ==
  /\ who \in DOMAIN loc2index[c]
  /\ LET index == loc2index[c][who]
     IN /\ index2loc' = [index2loc EXCEPT ![c] = Drop(@, index)]
        /\ loc2index' = [loc2index EXCEPT ![c] = Drop(@, who)]
  /\ DeleteLedger(c, who)
  /\ UNCHANGED <<delegatorNextIndex, validators>>

(***************************************************************************)
(* `validators_set.len()` in inner_add_validator: validators_set is the    *)
(* Option<BoundedVec> read from storage, and frame_support::traits::Len    *)
(* counts the items of its iterator, so it is 0 for None and 1 for Some,   *)
(* whatever the length of the vector.                                      *)
(***************************************************************************)
OptionLen(set) == IF set = None THEN 0 ELSE 1

CanAddValidator(c, v) ==
  LET set == validators[c] IN
  /\ c \in DOMAIN MinsMaxs
  /\ OptionLen(set) <= MinsMaxs[c].validators_maximum
  /\ OptionLen(set) < MaxLengthLimit
  /\ set # None => ~Contains(set, v)

(* The vector written back: pushed onto the stored one, or a new one. *)
ValidatorsAfterPush(c, v) ==
  IF validators[c] = None THEN <<v>> ELSE Append(validators[c], v)

(***************************************************************************)
(* inner_add_validator: the checks above, then BoundedVec::try_from, which *)
(* fails with FailToConvert when the vector exceeds its capacity.          *)
(***************************************************************************)
AddValidator(c, v) ==
  /\ CanAddValidator(c, v)
  /\ Len(ValidatorsAfterPush(c, v)) <= MaxLengthLimit
  /\ validators' = [validators EXCEPT ![c] = ValidatorsAfterPush(c, v)]
  /\ UNCHANGED <<delegatorNextIndex, index2loc, loc2index, ledgers>>

(***************************************************************************)
(* inner_remove_validator: ValidatorSetNotExist, ValidatorNotExist, then   *)
(* removal of the first position holding the validator.                    *)
(***************************************************************************)
RemoveValidator(c, v) ==
  /\ validators[c] # None
  /\ Contains(validators[c], v)
  /\ validators' = [validators EXCEPT ![c] = RemoveFirst(@, v)]
  /\ UNCHANGED <<delegatorNextIndex, index2loc, loc2index, ledgers>>

(***************************************************************************)
(* The agents' first bonding call creates the ledger of a known delegator  *)
(* that has none yet; its content is kept by callers outside this core.    *)
(***************************************************************************)
Bond(c, who) ==
  /\ who \in DOMAIN loc2index[c]
  /\ who \notin ledgers[c]
  /\ ledgers' = [ledgers EXCEPT ![c] = @ \cup {who}]
  /\ UNCHANGED <<delegatorNextIndex, index2loc, loc2index, validators>>

RegistryNext ==
  \E c \in Currencies :
    \/ InitializeDelegator(c)
    \/ \E i \in Indices, who \in Locations : AddDelegator(c, i, who)
    \/ \E who \in Locations : RemoveDelegator(c, who)
    \/ \E v \in ValidatorLocations : AddValidator(c, v)
    \/ \E v \in ValidatorLocations : RemoveValidator(c, v)
    \/ \E who \in Locations : Bond(c, who)

(***************************************************************************)
(* Properties                                                              *)
(***************************************************************************)

(* Every bonding ledger belongs to a delegator that is still registered    *)
(* under its location: inner_remove_delegator deletes the ledger in the    *)
(* same call that deletes the delegator, and no path recreates it for an   *)
(* unregistered location.                                                  *)
NoOrphanLedger ==
  \A c \in Currencies : ledgers[c] \subseteq DOMAIN loc2index[c]

(* The two delegator maps are inverse to each other: every index maps to a *)
(* location that maps back to it, and conversely (the spec: index and      *)
(* location are each unique within a currency).                            *)
DelegatorMapsInverse ==
  \A c \in Currencies :
    /\ \A i \in DOMAIN index2loc[c] :
         index2loc[c][i] \in DOMAIN loc2index[c] /\ loc2index[c][index2loc[c][i]] = i
    /\ \A w \in DOMAIN loc2index[c] :
         loc2index[c][w] \in DOMAIN index2loc[c] /\ index2loc[c][loc2index[c][w]] = w

(* A currency never holds more validators than its validators_maximum (the *)
(* spec: add_validator fails with GreaterThanMaximum once the set has      *)
(* validators_maximum entries).                                            *)
ValidatorsWithinMaximum ==
  \A c \in DOMAIN MinsMaxs :
    validators[c] # None => Len(validators[c]) <= MinsMaxs[c].validators_maximum

=============================================================================
