SPECIFICATION Spec
CONSTANTS
  Account = {acct}
  Collection = {state}
  Install = {x, y}
  Invite = {x, y}
  NoInvite = none
  NoSlot = empty
  None = nobody
  timestampSkew = 1
  maxTrackedReplays = 1
  MaxTime = 0
  MaxOps = 3
  MaxUpsets = 1
SYMMETRY InstallSymmetry
INVARIANTS IndexNeverIssuedTwice NeverWedged
PROPERTY TakeoverNamesHolder
CHECK_DEADLOCK FALSE
