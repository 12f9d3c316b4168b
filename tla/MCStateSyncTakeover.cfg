SPECIFICATION SpecHeld
CONSTANTS
  Account = {acct}
  Collection = {state}
  Install = {x, y}
  Invite = {x}
  NoInvite = none
  NoSlot = empty
  None = nobody
  timestampSkew = 1
  maxTrackedReplays = 1
  MaxTime = 0
  MaxOps = 5
  MaxUpsets = 0
PROPERTY TakeoverNeverAutomatic
CHECK_DEADLOCK FALSE
