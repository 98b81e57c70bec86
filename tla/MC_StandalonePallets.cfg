CONSTANTS
  o1 = o1
  o2 = o2
  MigNone = MigNone
  Accounts <- MC_Accounts
  Amounts = {1, 3}
  Prices = {1, 3}
  MinimumAmount = 0
  MaximumOrderInTrade = 1
  Accuracy = 10
  UnitPriceRounding = "Down"
  InitialFree <- MC_InitialFree
  MaxOrders = 3
  TimeUnitBits = 2
  HostingFeeBits = 3
  l1 = l1
  l2 = l2
  fil = fil
  ksm = ksm
SYMMETRY ScenarioSymmetry
SPECIFICATION ScenarioSpec
\* States without successors: in "vsbond", the MaxOrders ids of the model are
\* used up and no order is open (NextOrderId, a u64, never runs out in the
\* code); in "migration", try-runtime has run post_upgrade; "arithmetic" has
\* no steps, its states are its inputs; "cross_in_out" always has a step.
CHECK_DEADLOCK FALSE
INVARIANT TypeOK
INVARIANT ReservedMatchesOpenOrders
INVARIANT UserOrderIdsMatchOrders
INVARIANT StandaloneTypeOK
INVARIANT CmpConsistentWithEq
INVARIANT HostingFeeIsFairShare
INVARIANT CrossInTargetLinksBack
