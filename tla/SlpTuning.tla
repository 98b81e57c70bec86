------------------------------ MODULE SlpTuning ------------------------------
(***************************************************************************)
(* Exchange-rate tuning of the SLP pallet, composed with its registries:   *)
(* check_tuning_limit and tune_vtoken_exchange_rate_without_update_ledger  *)
(* (src/pallets/slp/src/agents/common.rs), run inside one tuning call that *)
(* persists the returned tune number, against the ongoing TimeUnit and the *)
(* token pool of the vtoken-minting pallet.                                *)
(*                                                                         *)
(* TimeUnits of one currency are numbered 0..MaxTimeUnit; the ongoing one  *)
(* only moves forward, as the staking era or round it mirrors does.        *)
(***************************************************************************)
EXTENDS SlpRegistry

CONSTANTS
  TuneLimit,       \* CurrencyTuneExchangeRateLimit: (limit_num, _) on the currencies that have one
  MaxTimeUnit,     \* last TimeUnit of the model
  TokenAmounts,    \* token_amount arguments of a tuning call
  PoolCap          \* largest token pool increase_token_pool accepts

ASSUME DOMAIN TuneLimit \subseteq Currencies
ASSUME \A c \in DOMAIN TuneLimit : TuneLimit[c] \in Nat
ASSUME MaxTimeUnit \in Nat
ASSUME TokenAmounts \subseteq Nat
ASSUME PoolCap \in Nat

TimeUnits == 0 .. MaxTimeUnit

VARIABLES
  timeUnit,             \* vtoken-minting ongoing TimeUnit per currency, or None
  tokenPool,            \* vtoken-minting token pool per currency
  currencyTuneRecord,   \* CurrencyLatestTuneRecord: currency -> [unit, num], or None
  delegatorTuneRecord,  \* DelegatorLatestTuneRecord: currency -> (location -> unit)
  tunes                 \* history: successful tunings per currency, unit and delegator

tuningVars == <<timeUnit, tokenPool, currencyTuneRecord, delegatorTuneRecord, tunes>>
vars == <<registryVars, tuningVars>>

TuningTypeOK ==
  /\ RegistryTypeOK
  /\ timeUnit \in [Currencies -> TimeUnits \cup {None}]
  /\ tokenPool \in [Currencies -> 0 .. PoolCap]
  /\ currencyTuneRecord \in [Currencies -> [unit : TimeUnits, num : Nat] \cup {None}]
  /\ delegatorTuneRecord \in [Currencies -> PartialFunctions(Locations, TimeUnits)]
  /\ tunes \in [Currencies -> [TimeUnits -> [Locations -> Nat]]]

Init ==
  /\ RegistryInit
  /\ timeUnit = [c \in Currencies |-> None]
  /\ tokenPool = [c \in Currencies |-> 0]
  /\ currencyTuneRecord = [c \in Currencies |-> None]
  /\ delegatorTuneRecord = [c \in Currencies |-> <<>>]
  /\ tunes = [c \in Currencies |-> [u \in TimeUnits |-> [w \in Locations |-> 0]]]

(***************************************************************************)
(* check_tuning_limit. On a first call the record is created as            *)
(* (current unit, 0); the call then fails when the record is of the        *)
(* current unit and already holds limit_num tunings, and returns the new   *)
(* tune number: the recorded one plus one in the same unit, 1 in a later   *)
(* one. It does not store that number.                                     *)
(***************************************************************************)
LatestTuneRecord(c) ==
  IF currencyTuneRecord[c] = None
  THEN [unit |-> timeUnit[c], num |-> 0]
  ELSE currencyTuneRecord[c]

(* Fault variant: the limit compared with <= instead of <. *)
WithinTuningLimitInclusive(c) ==
  /\ timeUnit[c] # None
  /\ c \in DOMAIN TuneLimit
  /\ LatestTuneRecord(c).unit = timeUnit[c] => LatestTuneRecord(c).num <= TuneLimit[c]

WithinTuningLimit(c) ==
  /\ timeUnit[c] # None
  /\ c \in DOMAIN TuneLimit
  /\ LatestTuneRecord(c).unit = timeUnit[c] => LatestTuneRecord(c).num < TuneLimit[c]

NewTuneNum(c) ==
  IF LatestTuneRecord(c).unit = timeUnit[c] THEN LatestTuneRecord(c).num + 1 ELSE 1

(***************************************************************************)
(* The checks of tune_vtoken_exchange_rate_without_update_ledger: a        *)
(* registered delegator (looked up by location), an ongoing TimeUnit, not  *)
(* yet tuned in that unit, a non-zero amount, and an existing ledger.      *)
(***************************************************************************)
CanTuneDelegator(c, who, amount) ==
  /\ who \in DOMAIN loc2index[c]
  /\ timeUnit[c] # None
  /\ ~(who \in DOMAIN delegatorTuneRecord[c] /\ delegatorTuneRecord[c][who] = timeUnit[c])
  /\ amount # 0
  /\ who \in ledgers[c]

(* Fault variant: the delegator's tuning is not recorded. *)
RecordDelegatorTuneSkipped(c, who) == UNCHANGED delegatorTuneRecord

(* DelegatorLatestTuneRecord::insert(currency_id, who, current_time_unit). *)
RecordDelegatorTune(c, who) ==
  delegatorTuneRecord' = [delegatorTuneRecord EXCEPT ![c] = Put(@, who, timeUnit[c])]

(* The tuning call stores the number check_tuning_limit returned. *)
PersistTuneRecord(c) ==
  currencyTuneRecord' = [currencyTuneRecord EXCEPT ![c] = [unit |-> timeUnit[c], num |-> NewTuneNum(c)]]

(* Fault variant: the pool is increased without its overflow check. *)
IncreaseTokenPoolUnchecked(c, amount) ==
  tokenPool' = [tokenPool EXCEPT ![c] = @ + amount]

(* increase_token_pool: fails (IncreaseTokenPoolError) beyond PoolCap. *)
IncreaseTokenPool(c, amount) ==
  /\ tokenPool[c] + amount <= PoolCap
  /\ tokenPool' = [tokenPool EXCEPT ![c] = @ + amount]

(***************************************************************************)
(* One tuning call: check_tuning_limit, then                               *)
(* tune_vtoken_exchange_rate_without_update_ledger (increase_token_pool    *)
(* fails with IncreaseTokenPoolError beyond PoolCap), then the new tune    *)
(* number is stored.                                                       *)
(***************************************************************************)
TuneExchangeRate(c, who, amount) ==
  /\ WithinTuningLimit(c)
  /\ CanTuneDelegator(c, who, amount)
  /\ IncreaseTokenPool(c, amount)
  /\ RecordDelegatorTune(c, who)
  /\ PersistTuneRecord(c)
  /\ tunes' = [tunes EXCEPT ![c][timeUnit[c]][who] = @ + 1]
  /\ UNCHANGED <<registryVars, timeUnit>>

(* vtoken-minting sets the first TimeUnit of a currency, then advances it. *)
AdvanceTimeUnit(c) ==
  /\ timeUnit[c] # MaxTimeUnit
  /\ timeUnit' = [timeUnit EXCEPT ![c] = IF @ = None THEN 0 ELSE @ + 1]
  /\ UNCHANGED <<registryVars, tokenPool, currencyTuneRecord, delegatorTuneRecord, tunes>>

Next ==
  \/ RegistryNext /\ UNCHANGED tuningVars
  \/ \E c \in Currencies :
       \/ AdvanceTimeUnit(c)
       \/ \E who \in Locations, amount \in TokenAmounts : TuneExchangeRate(c, who, amount)

Spec == Init /\ [][Next]_vars

(***************************************************************************)
(* Properties                                                              *)
(***************************************************************************)

(* In every TimeUnit a currency is tuned at most limit_num times: the      *)
(* admission check of check_tuning_limit together with the record the      *)
(* tuning call stores must hold across any interleaving of tunings,        *)
(* TimeUnit changes and delegator removals and re-additions.               *)
AtMostLimitTuningsPerTimeUnit ==
  \A c \in DOMAIN TuneLimit, u \in TimeUnits :
    FoldFunction(+, 0, tunes[c][u]) <= TuneLimit[c]

(* A delegator contributes to the pool at most once per TimeUnit, even     *)
(* when it is removed and added again in between                           *)
(* (DelegatorLatestTuneRecord in                                           *)
(* tune_vtoken_exchange_rate_without_update_ledger).                       *)
OneTuningPerDelegatorPerTimeUnit ==
  \A c \in Currencies, u \in TimeUnits, w \in Locations : tunes[c][u][w] <= 1

=============================================================================
