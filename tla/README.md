# TLA+ models of Bifrost pallets

This directory holds TLA+ models of the Rust pallets under `src/`, written from
the source. It also holds the TLC configurations that check them.
`PROJECT.json` records the following:

- the components and whether each is modelled;
- the runs;
- a mutant for every property of a passing run;
- the source lines each definition translates (`map`);
- the findings;
- the hazards the code is exposed to.

## The system and its parts

| Part | Source | What it does | Module |
|---|---|---|---|
| SLP registries | `slp/src/agents/common.rs` | Delegators: two maps, index to MultiLocation and back, fed by a per-currency `DelegatorNextIndex` counter. Validators: a `BoundedVec` per currency. Bonding ledgers per delegator. | `SlpRegistry` |
| SLP exchange-rate tuning | `common.rs` (`check_tuning_limit`, `tune_vtoken_exchange_rate_without_update_ledger`) | At most `limit_num` tunings per TimeUnit and currency, one per delegator. Each tuning increases the vtoken-minting token pool. | `SlpTuning` (extends `SlpRegistry`) |
| SLP hosting fee | `common.rs` (`calculate_hosting_fee`) | `amount * vtoken_issuance / pool` in U256, converted back to u128. | `HostingFee` |
| TimeUnit | `src/primitives/src/lib.rs` | `add_one` and `add`, plus the hand-written `PartialEq`, `Ord` and `PartialOrd`. | `TimeUnit` |
| slpx order queue and oracle | `slpx/src/lib.rs` | Governance whitelists and configuration. Orders created by `mint`/`redeem`/`swap` callers and `force_add_order`. `on_idle` either sends a periodic exchange-rate report over XCM or pops and handles the head order once its delay has passed. | `SlpxOrderQueue`, refining `OrderFifo` |
| vsbond auction | `vsbond-auction/src/lib.rs` | Buy and sell orders with reserved funds; revoke; full and partial clinch. | `VsbondAuction` |
| flexible-fee migration v2 | `flexible-fee/src/migrations/v2.rs` | Below StorageVersion 2, `on_runtime_upgrade` clears `UserFeeChargeOrderList` and puts version 2. Under try-runtime, `pre_upgrade` counts the entries before and `post_upgrade` compares after. | `FlexibleFeeMigration` |
| cross-in-out | `cross-in-out/src/lib.rs` | Per-currency links between Bifrost accounts and foreign locations (two maps). Issue and register whitelists. `cross_in` mints to the linked account, `cross_out` burns. | `CrossInOut` |

How the parts interact:
- Tuning reads the registries, because only a registered delegator may tune, and it extends the registry model.
- TimeUnit is the type of the tuning's ongoing time unit. `SlpTuning` numbers the units, so it relies on `cmp` agreeing with `eq`, which `TimeUnit` checks.
- The hosting fee is charged by the same agents.
- slpx, vsbond-auction, cross-in-out and the flexible-fee migration are separate pallets with no shared storage, and each is modelled alone.
- `MC_StandalonePallets` checks vsbond-auction, cross-in-out, the migration and the pure arithmetic in one run. They run as separate scenarios: a behaviour moves only one of them, so the states add up rather than multiply.

### Parts not modelled

- **`slp/src/primitives/moonriver_primitives.rs`** holds type definitions only.
- **`xcm-action/src/weights.rs`** holds generated benchmark weights.
- **`fee-share/src/tests.rs`** is empty.
- **XCM message building and transfers** (`get_transfer_back_dest_and_beneficiary`, `inner_do_transfer_to`, `send_message`, the transfer in `inner_charge_hosting_fee`) are not modelled.
- **The slpx swaps and `transfer_to`** call pallets outside `src/`. Only their effect on the derivative balance is kept.

## Modelling conventions

- **Extrinsics are transactional.** A call that returns `Err` leaves no write behind. It is an action whose guard is the conjunction of the code's checks, in the code's order.
- **Hooks are not transactional.**
  - slpx's `on_idle` and the `OrderQueue::mutate` closure are modelled with their partial writes. `StorageValue::mutate` stores the value even when the closure returns `Err`.
  - A panic inside `on_idle` makes the block invalid. It is the terminal state `panicked`.
- **Storage and values:**
  - Storage maps are TLA+ functions, partial ones where a key may be absent (`Put` and `Drop`).
  - `Option` storage values use the model value `None`.
  - `Option` arguments are sets of at most one element.
- **Integers keep their width where overflow is reached:**
  - the `u16` index counter with `IndexBits`. `delegators_maximum` is a `u16` too, so the MC modules keep it at or below the counter's top (an `ASSUME` in `SlpRegistry`). `inner_add_delegator` then refuses with `GreaterThanMaximum` before `checked_add` can overflow;
  - `u32` TimeUnits with `Bits`;
  - the U256 and u128 of the hosting fee with `Bits` and `2*Bits`.
- **Block numbers become saturating ages.** Each slpx order keeps `n - create_block_number` and the oracle keeps `n - last_block`, capped at `MaxAge`. This keeps the state space finite and keeps every comparison the code makes, as long as no sum of block numbers leaves `u32`. The one such sum is `last_block + period` in `on_idle`. The model keeps it as follows:
  - the chain's height is above 0 and far below `u32::MAX`, so a period up to `MaxAge` never overflows;
  - the period `U32Max`, which stands for `u32::MAX`, always overflows;
  - the runtime is built without overflow checks, so the sum wraps to `last_block - 1`, below `n`, and the report is due (`LastBlockPlusPeriodWraps`). A build with overflow checks would panic in `on_idle` instead.
- **Pure functions** (`HostingFee`, `TimeUnit`) are checked over every input. The inputs are chosen in `Init` (the `arithmetic` scenario of `MC_StandalonePallets`) and never change. Each function is compared with a reference definition (`FairShare`) or with the algebraic laws Rust requires of `Ord`.

## Modules and how they map to the code

### SlpRegistry

**State.**
- `delegatorNextIndex`, `index2loc`, `loc2index`: the delegator storage.
- `validators`: the `Validators` storage.
- `ledgers`: which delegators have a ledger.

**Actions.**
- `InitializeDelegator`: `inner_initialize_delegator` followed by `inner_add_delegator`. It uses `checked_add`.
- `AddDelegator`: the governance call.
- `RemoveDelegator`: removes both maps and the ledger.
- `AddValidator` and `RemoveValidator`.
- `Bond`: creates a ledger.

`OptionLen` translates `validators_set.len()` on the `Option` read from storage. It is 0 or 1, whatever the vector holds.

### SlpTuning

**State.**
- `timeUnit`, `tokenPool`: vtoken-minting.
- `currencyTuneRecord`, `delegatorTuneRecord`: the tuning records.
- `tunes`: a ghost history.

**Actions.**
- `TuneExchangeRate`: `check_tuning_limit`, then the delegator record, the pool increase, and persisting the returned tune number, all as one call.
- `AdvanceTimeUnit`: the ongoing TimeUnit moves forward.

### HostingFee

`CalculateHostingFee` uses `CheckedMul`, `CheckedDiv` and `TryIntoU128`, with `unwrap_or_else(Zero::zero)`.

### TimeUnit

`AddOne`, `Add`, `Eq`, `Cmp` and `PartialCmp`, with `u32` saturation.

### SlpxOrderQueue

**State.**
- `whitelist`, `delayBlock`, `configuration`, `currencyList`, `orderQueue`: the pallet's storage.
- `oracleAge`: `n - last_block`.
- `balance`: each derivative account's free balance.
- `executionFee`: the `ExecutionFee` storage of the one currency whose fee matters; `None` means `get_default_fee` (`DefaultFee`) applies (`ExecutionFeeOf`).
- Ghosts:
  - `status`, the fate of each order;
  - `reported`;
  - `panicked`;
  - `govCalls`.

**Governance actions.** `AddWhitelist`, `RemoveWhitelist`, `SetDelayBlock`, `SetEthereumCallConfiguration`, `SetCurrencyEthereumCallSwitch`, `SetExecutionFee` and `ForceAddOrder`. `SetExecutionFee` can raise the fee after an order's funds have arrived, which opens the panic window of `handle_order`.

**User actions.**
- `CreateOrder`: `mint`, `redeem` or `swap` through `create_order`, with the derivative account from `get_derivative_account`.
- `Deposit`: funds arriving on a derivative account.

**`OnIdle(sendOk, handleOk)`.** One block's `on_idle`, with two branches:
- `SendReport`: report due, then send (a failure returns early), then `last_block := n` and rotate `CurrencyIdList`.
- `HandleOrders`: pop the head if its delay has passed, then take one of three paths:
  - `handle_order`, if the balance is above the minimum;
  - `OrderFailed`, otherwise;
  - a panic, if `charge_execution_fee` fails.

`sendOk` and `handleOk` are the outcomes of the XCM send and of the transfer, which depend on other chains.

**Refinement.** `OrderFifo` is the abstract contract of the queue: orders are numbered on creation, wait in one sequence, and are served from its head, each exactly once, with some outcome. `SlpxOrderQueue` instantiates it with `pending <- the ids of orderQueue` and `fate <- status`, and the `slpx` run checks `ImplementsOrderFifo == Fifo!Spec` as a PROPERTY. `ServedPosition` (`order_queue.remove(0)`) is the definition the refinement depends on: serving the tail (`Vec::pop`) breaks it.

### FlexibleFeeMigration

**State.**
- `userFeeChargeOrderList`: the accounts that have an entry. The migration and its checks only clear and count the map.
- `onchainVersion`: the pallet's StorageVersion.
- `preState`: the count `pre_upgrade` returned.
- `step`: the next try-runtime step.
- `postResult`: what `post_upgrade` returned.

**Init.** Any map content under any version from 0 to 2. The code only tells below 2 from 2.

**Actions, in try-runtime's order.**
- `PreUpgrade`: count the entries.
- `OnRuntimeUpgrade`: below version 2, `Clear` the map (`clear(u32::MAX, None)`, whose limit exceeds any map) and put version 2. At version 2, do nothing.
- `PostUpgrade`: `ensure!` the count is unchanged.

The weight returned and the logging are left out.

### MC_StandalonePallets

Four scenarios, chosen in `Init`:
- `"vsbond"`: the instance of `MC_VsbondAuction`;
- `"migration"`: `FlexibleFeeMigration`, with `UserFeeChargeOrderList` keyed by the same two accounts;
- `"arithmetic"`: `TimeUnit` and `HostingFee` (with `Bits` of 2 and 3), whose state is one input of each;
- `"cross_in_out"`: `CrossInOut` over the same two accounts, two locations, FIL and one other currency, with its own free balances (`crossFree`).

The parts not chosen stay at a fixed initial state. The symmetry over accounts, and over locations, stays sound, because every part treats its accounts alike and only cross-in-out has locations.

## Runs

| Run | Module / cfg | Expect | What it shows |
|---|---|---|---|
| `tuning` | `MC_SlpTuning` | pass | Registries and tuning together. No ledger outlives its delegator (`NoOrphanLedger`). At most `limit_num` tunings per TimeUnit (`AtMostLimitTuningsPerTimeUnit`) and one per delegator (`OneTuningPerDelegatorPerTimeUnit`), even across a remove and re-add, since the delegator record is not cleared. |
| `delegator_maps` | `MC_SlpRegistry_DelegatorMapsInverse` | violation | `add_delegator` checks only the index, so a location registered under two indices breaks the inverse maps. |
| `validators_maximum` | `MC_SlpRegistry_ValidatorsWithinMaximum` | violation | `len()` on the `Option` is at most 1, so `validators_maximum` does not bound the set. |
| `slpx` | `MC_SlpxOrderQueue` | pass | Governance may set the period to 0, 1 or `u32::MAX`. In every behaviour whose period ends up above 0 and without a wrap, each queued order eventually leaves the queue unless a block panics (`OrdersServedWhenPeriodLeavesRoom`). Every supported currency is eventually reported (`ReportsReachEveryCurrency`). The queue implements `OrderFifo` (`ImplementsOrderFifo`). |
| `slpx_panic` | `MC_SlpxOrderQueue_NoPanicInOnIdle` | violation | A balance above the minimum but below the execution fee makes `handle_order`'s `unwrap` panic in `on_idle`. |
| `slpx_period_overflow` | `MC_SlpxOrderQueue` with `MC_SlpxOrderQueue_PeriodOverflow.cfg` | violation | `set_ethereum_call_configration` accepts any period. With 0, `last_block + 0 < n` holds in every block after a report. With `u32::MAX`, for instance meant as "never report", `last_block + period` wraps below `n`. Either way the report is due in every block and the queue is never served (`QueuedOrderLeavesQueue`, without the condition on the period). |
| `slpx_silent_drop` | `MC_SlpxOrderQueue_DequeuedOrdersAnnounced` | violation | A failing `handle_order` still removes the order (the `mutate` stores it), with no event. |
| `vsbond_rounding` | `MC_VsbondAuction_ClinchPaysRoundedUp` | violation | `price_to_pay` floors although documented as rounding up. A clinch can pay 0. |
| `cross_in_out_links` | `MC_CrossInOut_LinkedAccountMapsInverse` | violation | A location can be linked to a second account. Only the account side is checked. |
| `standalone` | `MC_StandalonePallets` | pass | Four results. **cross-in-out:** the account `cross_in` credits for a location links back to that location (`CrossInTargetLinksBack`). **vsbond:** each account's reserve equals what its open orders still hold (`ReservedMatchesOpenOrders`), and `UserOrderIds` lists exactly the open orders (`UserOrderIdsMatchOrders`). **Migration:** from any storage and version, every variable keeps its type (`StandaloneTypeOK`); its real question, whether try-runtime accepts it, is the violation run `migration_post_upgrade`. **Arithmetic:** `cmp` agrees with `eq` and `partial_cmp`, and the hosting fee is `floor(amount * issuance / pool)` wherever that fits. |
| `migration_post_upgrade` | `FlexibleFeeMigration` with `FlexibleFeeMigration_PostUpgradeAccepts.cfg` | violation | `post_upgrade` requires the entry count that `on_runtime_upgrade` has just cleared to be unchanged. try-runtime therefore rejects the migration whenever there was an entry to migrate. |
| `time_unit_antisymmetry` | `TimeUnit` with `TimeUnit_CmpAntisymmetric.cfg` | violation | `cmp` of two different variants is `Less` in both directions (e.g. `Era(0)` and `SlashingSpan(0)`), so the derived `Ord` is not antisymmetric. |

## Bounds and why they are enough

- **`tuning`:**
  - one currency with `limit_num = 2` and three delegator locations, so a third tuning in one unit is attempted;
  - two TimeUnits, so the count restarts;
  - a 2-bit index counter with `delegators_maximum` 3, its top, so `initialize_delegator` hands out indices 0 and 1 and then stops at `GreaterThanMaximum`, while `add_delegator` can still register a third delegator;
  - `PoolCap 3`, so the pool increase can fail.
- **`slpx`:**
  - two accounts, two currencies and two orders;
  - a queue of 2, so the queue can be full;
  - delays {0, 1} and periods {0, 1, `U32Max`}: every class of period the code tells apart. `U32Max` is 9 in the cfg; any value above `MaxAge` stands for `u32::MAX`;
  - a default execution fee of 2 that governance may change to 1 or 3, with balances up to 2, so all three balance ranges of `HandleOrders` are reached and a fee change can move a balance between them;
  - at most 3 governance calls.
- **`standalone`, migration scenario:** two accounts and every version from 0 to 2, so both branches of the version guard run, with an empty and a non-empty map.
- **`standalone`, vsbond scenario:**
  - two accounts (symmetric) and three order ids;
  - amounts and prices {1, 3}, so unit prices do not divide evenly and partial clinches pay rounded amounts;
  - `MaximumOrderInTrade 1`, so the limit is hit.
- **`standalone`, cross-in-out scenario:** two accounts and two locations (symmetric), FIL and one other currency, and amounts of 1.
- **`standalone`, arithmetic scenario (`TimeUnit` and `HostingFee`):** every input of 2-bit and 3-bit words, which includes every overflow edge.

## Fairness

Only `slpx` checks liveness, under three assumptions:

| Assumption | How it is expressed | Why the code justifies it |
|---|---|---|
| Blocks keep coming with idle weight. | `WF` on `OnIdle` | Each block runs `on_idle` once. |
| The report XCM does not fail forever. | `SF` on `OnIdle(TRUE, _)` | A permanently failing route starves the queue. That is the hazard at `slpx/src/lib.rs:355`. |
| Governance makes finitely many calls. | `MaxGovernanceCalls` | A configuration re-set in every block would keep the report due forever. |

## Later work

- An abstract registry specification (a set of delegators with unique indices), refined by `SlpRegistry`.
- The cross-in-out supply (`cross_in`/`cross_out` against the issuance).
- The slpx `transfer_to` path and the `TransferToFee`/`CurrencySupportXcmFee` setters.
- The `NearestPrefDown` rounding of vsbond.
- That `initialize_delegator` stays possible. `add_delegator` can take the index the counter hands out next, and `initialize_delegator` then fails with `AlreadyExist` until that delegator is removed. The model reaches this state, but no run slot is left for the property.
- The order of two orders sharing a derivative account. The first handled order sweeps the whole balance, which the model reaches, but no statement of the intended split exists to check it against.
