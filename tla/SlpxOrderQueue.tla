---------------------------- MODULE SlpxOrderQueue ----------------------------
(***************************************************************************)
(* The slpx pallet (src/pallets/slpx/src/lib.rs): contract whitelists,     *)
(* order creation, and the on_idle hook that, once per block, either sends *)
(* the exchange-rate report to the Moonbeam contract or takes the head of  *)
(* the order queue and handles it.                                         *)
(*                                                                         *)
(* Block numbers are abstracted to ages: an order keeps n -                *)
(* create_block_number and the oracle n - last_block, both saturating at   *)
(* a bound above every DelayBlock and period the model sets, which keeps   *)
(* every comparison the code makes. One currency is minted or redeemed;    *)
(* the balance of an account is its free balance in that currency.         *)
(***************************************************************************)
EXTENDS Naturals, Sequences, FiniteSets, SequencesExt, TLC

CONSTANTS
  Accounts,          \* Bifrost accounts: callers, contract accounts, derivative accounts
  OracleCurrencies,  \* currencies that can be put in CurrencyIdList
  Delays,            \* values governance may give DelayBlock
  Periods,           \* values governance may give the report period
  WhitelistCap,      \* capacity of WhitelistAccountId (ConstU32<10>)
  QueueCap,          \* capacity of OrderQueue (ConstU32<1000>)
  CurrencyListCap,   \* capacity of CurrencyIdList (ConstU32<10>)
  MinimumBalance,    \* MultiCurrency::minimum_balance of the order currency
  DefaultFee,        \* get_default_fee of the order currency (10^decimals / 100)
  Fees,              \* values governance may give ExecutionFee
  MaxBalance,        \* largest balance a derivative account reaches in the model
  MaxOrders,         \* number of orders created in a behaviour
  MaxGovernanceCalls,\* number of root calls in a behaviour (governance acts finitely often)
  U32Max,            \* the period u32::MAX, when governance sets it (a value above MaxAge)
  None               \* XcmEthereumCallConfiguration not set

Chains == {"Moonbeam", "Hydradx"}
MaxAge == Max(Delays \cup (Periods \ {U32Max})) + 1
OrderIds == 1 .. MaxOrders
Balances == 0 .. MaxBalance

(* What became of an order: the ghost record of the events of the pallet. *)
Statuses == {"queued", "handled", "failed", "dropped"}

VARIABLES
  whitelist,      \* WhitelistAccountId: chain -> BoundedVec of contract accounts
  orderQueue,     \* OrderQueue: sequence of orders
  delayBlock,     \* DelayBlock
  configuration,  \* XcmEthereumCallConfiguration: [period], or None
  executionFee,   \* ExecutionFee of the order currency, or None
  oracleAge,      \* n - configuration.last_block, saturating at MaxAge
  currencyList,   \* CurrencyIdList
  balance,        \* free balance of every account in the order currency
  status,         \* order id -> its fate so far (ghost, from the events)
  reported,       \* currencies whose token amount has been reported (ghost)
  panicked,       \* the runtime panicked in on_idle and the block was not built
  govCalls        \* root calls made so far (bound of the model)

vars == <<whitelist, orderQueue, delayBlock, configuration, executionFee, oracleAge, currencyList,
          balance, status, reported, panicked, govCalls>>

Orders == [id : OrderIds, derivative : Accounts, age : 0 .. MaxAge]

TypeOK ==
  /\ whitelist \in [Chains -> BoundedSeq(Accounts, WhitelistCap)]
  /\ orderQueue \in BoundedSeq(Orders, QueueCap)
  /\ delayBlock \in Delays \cup {0}
  /\ configuration \in [period : Periods] \cup {None}
  /\ executionFee \in Fees \cup {None}
  /\ oracleAge \in 0 .. MaxAge
  /\ currencyList \in BoundedSeq(OracleCurrencies, CurrencyListCap)
  /\ balance \in [Accounts -> Balances]
  /\ status \in [OrderIds -> Statuses \cup {"none"}]
  /\ reported \in SUBSET OracleCurrencies
  /\ panicked \in BOOLEAN
  /\ govCalls \in 0 .. MaxGovernanceCalls

Init ==
  /\ whitelist = [ch \in Chains |-> <<>>]
  /\ orderQueue = <<>>
  /\ delayBlock = 0
  /\ configuration = None
  /\ executionFee = None
  /\ oracleAge = 0
  /\ currencyList = <<>>
  /\ balance = [a \in Accounts |-> 0]
  /\ status = [i \in OrderIds |-> "none"]
  /\ reported = {}
  /\ panicked = FALSE
  /\ govCalls = 0

(***************************************************************************)
(* Governance calls                                                        *)
(***************************************************************************)

(* Fault variant: the ExceededWhitelistMaxNumber check is dropped. *)
AddWhitelistUnbounded(ch, a) ==
  /\ ~Contains(whitelist[ch], a)
  /\ whitelist' = [whitelist EXCEPT ![ch] = Append(@, a)]
  /\ UNCHANGED <<orderQueue, delayBlock, configuration, executionFee, oracleAge, currencyList,
                 balance, status, reported>>

(* add_whitelist: AccountIdAlreadyInWhitelist, ExceededWhitelistMaxNumber. *)
AddWhitelist(ch, a) ==
  /\ ~Contains(whitelist[ch], a)
  /\ Len(whitelist[ch]) < WhitelistCap
  /\ whitelist' = [whitelist EXCEPT ![ch] = Append(@, a)]
  /\ UNCHANGED <<orderQueue, delayBlock, configuration, executionFee, oracleAge, currencyList,
                 balance, status, reported>>

(* remove_whitelist: AccountIdNotInWhitelist, then retain. *)
RemoveWhitelist(ch, a) ==
  /\ Contains(whitelist[ch], a)
  /\ whitelist' = [whitelist EXCEPT ![ch] = Remove(@, a)]
  /\ UNCHANGED <<orderQueue, delayBlock, configuration, executionFee, oracleAge, currencyList,
                 balance, status, reported>>

(* set_delay_block. *)
SetDelayBlock(d) ==
  /\ delayBlock' = d
  /\ UNCHANGED <<whitelist, orderQueue, configuration, executionFee, oracleAge, currencyList,
                 balance, status, reported>>

(* set_execution_fee: unchecked insert. *)
SetExecutionFee(fee) ==
  /\ executionFee' = fee
  /\ UNCHANGED <<whitelist, orderQueue, delayBlock, configuration, oracleAge, currencyList,
                 balance, status, reported>>

(* set_ethereum_call_configration: last_block is the current block. *)
SetEthereumCallConfiguration(p) ==
  /\ configuration' = [period |-> p]
  /\ oracleAge' = 0
  /\ UNCHANGED <<whitelist, orderQueue, delayBlock, executionFee, currencyList, balance, status,
                 reported>>

(* set_currency_ethereum_call_switch: push when absent, retain when present. *)
SetCurrencyEthereumCallSwitch(cur, isSupport) ==
  /\ IF isSupport
     THEN /\ ~Contains(currencyList, cur)
          /\ Len(currencyList) < CurrencyListCap
          /\ currencyList' = Append(currencyList, cur)
     ELSE /\ Contains(currencyList, cur)
          /\ currencyList' = Remove(currencyList, cur)
  /\ reported' = reported \ {cur}
  /\ UNCHANGED <<whitelist, orderQueue, delayBlock, configuration, executionFee, oracleAge,
                 balance, status>>

(***************************************************************************)
(* Order creation                                                          *)
(***************************************************************************)

(***************************************************************************)
(* ensure_singer_on_whitelist: Hydradx orders are made by the signer for   *)
(* itself; Moonbeam orders need the signer (the contract's account) in the *)
(* Moonbeam whitelist, and are made for the EVM caller's derivative        *)
(* account. The result is the derivative account, or None.                 *)
(***************************************************************************)
DerivativeAccount(origin, evmCaller, ch) ==
  CASE ch = "Hydradx" -> origin
    [] ch = "Moonbeam" /\ Contains(whitelist[ch], origin) -> evmCaller
    [] OTHER -> None

(* The id the next order gets: orders are numbered as they are created. *)
NextOrderId == Cardinality({i \in OrderIds : status[i] # "none"}) + 1

(* OrderQueue::try_push, which fails with ArgumentsError when full. *)
PushOrder(derivative) ==
  /\ NextOrderId \in OrderIds
  /\ Len(orderQueue) < QueueCap
  /\ orderQueue' = Append(orderQueue,
                          [id |-> NextOrderId, derivative |-> derivative, age |-> 0])
  /\ status' = [status EXCEPT ![NextOrderId] = "queued"]

(***************************************************************************)
(* mint, mint_with_channel_id and redeem (for a vtoken other than VFIL):   *)
(* the whitelist check, then the order is pushed. Mint and redeem orders   *)
(* take the same path through on_idle, so the order type is left out.      *)
(***************************************************************************)
CreateOrder(origin, evmCaller, ch) ==
  /\ DerivativeAccount(origin, evmCaller, ch) # None
  /\ PushOrder(DerivativeAccount(origin, evmCaller, ch))
  /\ UNCHANGED <<whitelist, delayBlock, configuration, executionFee, oracleAge, currencyList,
                 balance, reported>>

(* force_add_order: root pushes an order for an EVM caller, unchecked. *)
ForceAddOrder(evmCaller) ==
  /\ PushOrder(evmCaller)
  /\ UNCHANGED <<whitelist, delayBlock, configuration, executionFee, oracleAge, currencyList,
                 balance, reported>>

(* The user's tokens reach the derivative account by a transfer from      *)
(* another chain.                                                         *)
Deposit(a) ==
  /\ balance[a] < MaxBalance
  /\ balance' = [balance EXCEPT ![a] = @ + 1]
  /\ UNCHANGED <<whitelist, orderQueue, delayBlock, configuration, executionFee, oracleAge,
                 currencyList, status, reported>>

(***************************************************************************)
(* on_idle                                                                 *)
(***************************************************************************)

(***************************************************************************)
(* configuration.last_block + configuration.period, a sum of u32 block     *)
(* numbers, wraps in the runtime, which is built without overflow checks.  *)
(* The chain's height is above 0 and far below u32::MAX, so a period up to *)
(* MaxAge never leaves u32 and the period u32::MAX always does; the        *)
(* wrapped sum is then last_block - 1, below n.                            *)
(***************************************************************************)
LastBlockPlusPeriodWraps(p) == p = U32Max

(* The report is due: configuration.last_block + configuration.period < n. *)
ReportDue ==
  /\ Len(currencyList) >= 1
  /\ configuration # None
  /\ \/ LastBlockPlusPeriodWraps(configuration.period)
     \/ oracleAge > configuration.period

(* The head of the queue has waited DelayBlock blocks. *)
HeadDue ==
  /\ orderQueue # <<>>
  /\ Head(orderQueue).age >= delayBlock

(* End of the block: every age grows by one. *)
AgeAll(queue) == [i \in 1 .. Len(queue) |-> [queue[i] EXCEPT !.age = Min({@ + 1, MaxAge})]]

NextOracleAge(age) == Min({age + 1, MaxAge})

(* Fault variant: a successful report does not move last_block to n. *)
SendReportKeepsLastBlock(sendOk) ==
  /\ ReportDue
  /\ oracleAge' = NextOracleAge(oracleAge)
  /\ IF sendOk
     THEN /\ currencyList' = Tail(currencyList) \o <<Head(currencyList)>>
          /\ reported' = reported \cup {Head(currencyList)}
     ELSE UNCHANGED <<currencyList, reported>>
  /\ orderQueue' = AgeAll(orderQueue)
  /\ UNCHANGED <<whitelist, delayBlock, configuration, executionFee, balance, status, panicked, govCalls>>

(* Fault variant: the currency list is not rotated after a report. *)
SendReportNoRotation(sendOk) ==
  /\ ReportDue
  /\ IF sendOk
     THEN /\ oracleAge' = NextOracleAge(0)
          /\ reported' = reported \cup {Head(currencyList)}
     ELSE /\ oracleAge' = NextOracleAge(oracleAge)
          /\ UNCHANGED reported
  /\ orderQueue' = AgeAll(orderQueue)
  /\ UNCHANGED <<whitelist, delayBlock, configuration, executionFee, balance, status, panicked,
                 currencyList, govCalls>>

(***************************************************************************)
(* The report branch: send_xcm_to_set_token_amount; on an error on_idle    *)
(* returns at once, leaving last_block and the queue as they are; on       *)
(* success last_block becomes n and the currency list is rotated.          *)
(***************************************************************************)
SendReport(sendOk) ==
  /\ ReportDue
  /\ IF sendOk
     THEN /\ oracleAge' = NextOracleAge(0)
          /\ currencyList' = Tail(currencyList) \o <<Head(currencyList)>>
          /\ reported' = reported \cup {Head(currencyList)}
     ELSE /\ oracleAge' = NextOracleAge(oracleAge)
          /\ UNCHANGED <<currencyList, reported>>
  /\ orderQueue' = AgeAll(orderQueue)
  /\ UNCHANGED <<whitelist, delayBlock, configuration, executionFee, balance, status, panicked, govCalls>>

(***************************************************************************)
(* charge_execution_fee(..).unwrap() at the start of handle_order: the     *)
(* transfer of the fee to the treasury fails when the free balance is      *)
(* below it, and unwrap then panics.                                       *)
(***************************************************************************)
ExecutionFeeOf == IF executionFee = None THEN DefaultFee ELSE executionFee

FeeTransferFails(a) == balance[a] < ExecutionFeeOf

(* Fault variant: Vec::pop in place of remove(0) takes the newest order. *)
ServedPositionLast(queue) == Len(queue)

(* order_queue.remove(0): the position taken out of the queue. *)
ServedPosition(queue) == 1

(***************************************************************************)
(* The order branch, inside OrderQueue::mutate: when the head has waited   *)
(* DelayBlock blocks it is removed; with a balance above the minimum it is *)
(* handled (handle_order, transactional: the fee goes to the treasury and  *)
(* the rest is minted or redeemed and sent on, or nothing happens when it  *)
(* fails), else OrderFailed. A handle_order error is returned from the     *)
(* closure with `?`, but mutate stores the queue whatever the closure      *)
(* returns.                                                                *)
(***************************************************************************)
HandleOrders(handleOk) ==
  /\ ~ReportDue
  /\ IF HeadDue
     THEN LET k == ServedPosition(orderQueue)
              order == orderQueue[k]
              a == order.derivative
              rest == AgeAll(RemoveAt(orderQueue, k))
          IN IF balance[a] > MinimumBalance
             THEN IF FeeTransferFails(a)
                  THEN /\ panicked' = TRUE
                       /\ UNCHANGED <<orderQueue, balance, status, oracleAge>>
                  ELSE /\ orderQueue' = rest
                       /\ balance' = IF handleOk THEN [balance EXCEPT ![a] = 0] ELSE balance
                       /\ status' = [status EXCEPT ![order.id] =
                                        IF handleOk THEN "handled" ELSE "dropped"]
                       /\ oracleAge' = NextOracleAge(oracleAge)
                       /\ UNCHANGED panicked
             ELSE /\ orderQueue' = rest
                  /\ status' = [status EXCEPT ![order.id] = "failed"]
                  /\ oracleAge' = NextOracleAge(oracleAge)
                  /\ UNCHANGED <<balance, panicked>>
     ELSE /\ orderQueue' = AgeAll(orderQueue)
          /\ oracleAge' = NextOracleAge(oracleAge)
          /\ UNCHANGED <<balance, status, panicked>>
  /\ UNCHANGED <<whitelist, delayBlock, configuration, executionFee, currencyList, reported,
                 govCalls>>

(* One block's on_idle, with the outcomes of the calls it makes to other   *)
(* pallets as inputs.                                                      *)
OnIdle(sendOk, handleOk) ==
  \/ SendReport(sendOk)
  \/ HandleOrders(handleOk)

(* A root call, counted against MaxGovernanceCalls. *)
GovernanceCall ==
  /\ govCalls < MaxGovernanceCalls
  /\ govCalls' = govCalls + 1
  /\ \/ \E ch \in Chains, a \in Accounts : AddWhitelist(ch, a) \/ RemoveWhitelist(ch, a)
     \/ \E d \in Delays : SetDelayBlock(d)
     \/ \E f \in Fees : SetExecutionFee(f)
     \/ \E p \in Periods : SetEthereumCallConfiguration(p)
     \/ \E cur \in OracleCurrencies, s \in BOOLEAN : SetCurrencyEthereumCallSwitch(cur, s)
     \/ \E e \in Accounts : ForceAddOrder(e)

Next ==
  /\ ~panicked
  /\ \/ GovernanceCall /\ UNCHANGED panicked
     \/ /\ \/ \E o, e \in Accounts, ch \in Chains : CreateOrder(o, e, ch)
           \/ \E a \in Accounts : Deposit(a)
        /\ UNCHANGED <<panicked, govCalls>>
     \/ \E s, h \in BOOLEAN : OnIdle(s, h)

(***************************************************************************)
(* Blocks keep being produced with weight left for on_idle, and the report *)
(* XCM does not fail in every block from some point on.                    *)
(***************************************************************************)
Fairness ==
  /\ WF_vars(~panicked /\ \E s, h \in BOOLEAN : OnIdle(s, h))
  /\ SF_vars(~panicked /\ \E h \in BOOLEAN : OnIdle(TRUE, h))

Spec == Init /\ [][Next]_vars /\ Fairness

(***************************************************************************)
(* Properties                                                              *)
(***************************************************************************)

(* Every order put in the queue by mint, redeem or force_add_order leaves  *)
(* it, whatever period governance sets: on_idle alternates between the     *)
(* report and the head of the queue. (A panic in on_idle stops the chain;  *)
(* NoPanicInOnIdle is about that.)                                         *)
QueuedOrderLeavesQueue ==
  \A i \in OrderIds : status[i] = "queued" ~> (status[i] # "queued" \/ panicked)

(***************************************************************************)
(* The periods with which on_idle still reaches the queue: the report is   *)
(* not due again in the block after it was sent (last_block + 0 < n holds *)
(* in every later block) and last_block + period stays inside u32.         *)
(***************************************************************************)
PeriodLeavesRoomForOrders(p) == p > 0 /\ ~LastBlockPlusPeriodWraps(p)

(* Every queued order leaves the queue in the behaviours where the period  *)
(* set by set_ethereum_call_configration (which accepts any period) is     *)
(* eventually for good one that leaves room for orders, whatever periods   *)
(* governance set before: on_idle serves the head in the blocks between    *)
(* reports.                                                                *)
OrdersServedWhenPeriodLeavesRoom ==
  <>[](configuration = None \/ PeriodLeavesRoomForOrders(configuration.period))
    => QueuedOrderLeavesQueue

(* Every currency switched on with set_currency_ethereum_call_switch has   *)
(* its token amount reported to the contract while it stays on: the list   *)
(* is rotated after each report.                                           *)
ReportsReachEveryCurrency ==
  \A cur \in OracleCurrencies :
    (Contains(currencyList, cur) /\ configuration # None)
      ~> (cur \in reported \/ ~Contains(currencyList, cur) \/ panicked)

(* The queue keeps its promise (OrderFifo): orders numbered as they are   *)
(* created, served from the head in that order, each exactly once, and    *)
(* "queued" exactly while they wait, whatever on_idle, mint, redeem and   *)
(* force_add_order interleave. The abstract queue is the sequence of the  *)
(* ids of OrderQueue.                                                     *)
Fifo == INSTANCE OrderFifo WITH
          pending <- [k \in 1 .. Len(orderQueue) |-> orderQueue[k].id],
          fate <- status,
          Outcomes <- Statuses \ {"queued"}

ImplementsOrderFifo == Fifo!Spec

(* on_idle never panics: a panic in the hook aborts the block, and the     *)
(* same head order makes every later block abort as well.                  *)
NoPanicInOnIdle == ~panicked

(* Every order taken out of the queue is announced, by OrderHandled or by  *)
(* OrderFailed (the events on_idle deposits for the orders it removes).    *)
DequeuedOrdersAnnounced == \A i \in OrderIds : status[i] # "dropped"

=============================================================================
