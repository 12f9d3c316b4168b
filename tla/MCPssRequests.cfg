SPECIFICATION SpecRequests
CONSTANTS
  Account = {a1}
  Collection = {state, labels}
  Invite = {i1, i2}
  NoInvite = none
  NoSlot = empty
  timestampSkew = 3
  maxTrackedReplays = 4
  MaxTime = 5
  MaxVersion = 2
  Stamp = {2}
  MaxEffects = 4
INVARIANTS TakesEffectOnce InvitesConserved
CHECK_DEADLOCK FALSE
