CONSTANTS
  o1 = o1
  o2 = o2
  Accounts <- MC_Accounts
  Amounts = {1, 3}
  Prices = {1, 3}
  MinimumAmount = 0
  MaximumOrderInTrade = 1
  Accuracy = 10
  UnitPriceRounding = "Down"
  InitialFree <- MC_InitialFree
  MaxOrders = 3
SYMMETRY Symmetry
SPECIFICATION Spec
\* States without successors are those where the MaxOrders ids of the model
\* are used up and no order is open; NextOrderId (u64) never runs out in the code.
CHECK_DEADLOCK FALSE
INVARIANT ClinchPaysRoundedUp
