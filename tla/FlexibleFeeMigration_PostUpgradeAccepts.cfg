CONSTANTS
  u1 = u1
  u2 = u2
  None = None
  Users = {u1, u2}
SPECIFICATION Spec
\* try-runtime stops after post_upgrade.
CHECK_DEADLOCK FALSE
INVARIANT PostUpgradeAccepts
