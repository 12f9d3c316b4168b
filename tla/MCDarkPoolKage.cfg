SPECIFICATION Spec
CONSTANTS
  t1 = t1
  t2 = t2
  o1 = o1
  o2 = o2
  bad = bad
  low = low
  Asset = {t1, t2}
  FeeAsset = {}
  Owner = {o1}
  OffCurve = {bad}
  OffSubgroup = {low}
  PublicKey <- Keys1
  IndexWindow = 1
  Eph = {e1, e2, e3, e4}
  Key = {k1, k2}
  GenesisKey = k1
  Verifier = {v1}
  ZeroAddress = zero
  GENESIS = genesis
  NoTerms = none
  MAX_U128 = 2
  MAX_U64 = 7
  TREE_DEPTH = 3
  TOLERANCE = 1
  DepositTerms <- SwapFunds
  SwapTerms <- Swaps
  MemoTerms <- None
  Traffic <- KageTraffic
  MaxTx = 3
  MaxIntents = 1
  MaxVersion = 2
  MaxTime = 2
SYMMETRY EphSymmetry
INVARIANTS Solvency KageSettlesIntent ComplianceCanOpen
CHECK_DEADLOCK FALSE
