CONSTANTS
  a1 = a1
  a2 = a2
  c1 = c1
  c2 = c2
  None = None
  Accounts <- MC_Accounts
  OracleCurrencies <- MC_OracleCurrencies
  Delays = {0, 1}
  Periods = {0, 1, 9}
  WhitelistCap = 1
  QueueCap = 2
  CurrencyListCap = 2
  MinimumBalance = 0
  DefaultFee = 2
  Fees = {1, 3}
  MaxBalance = 2
  MaxOrders = 2
  MaxGovernanceCalls = 3
  U32Max = 9
SPECIFICATION Spec
\* A panic in on_idle stops block production: the chain really stops there.
CHECK_DEADLOCK FALSE
INVARIANT TypeOK
PROPERTY OrdersServedWhenPeriodLeavesRoom
PROPERTY ReportsReachEveryCurrency
PROPERTY ImplementsOrderFifo
