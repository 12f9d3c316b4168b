SPECIFICATION Spec
CONSTANTS
  t1 = t1
  t2 = t2
  o1 = o1
  o2 = o2
  bad = bad
  low = low
  Asset = {t1, t2}
  FeeAsset = {t2}
  Owner = {o1, o2}
  OffCurve = {bad}
  OffSubgroup = {low}
  PublicKey <- Keys2
  IndexWindow = 1
  Eph = {e1}
  Key = {k1}
  GenesisKey = k1
  Verifier = {v1}
  ZeroAddress = zero
  GENESIS = genesis
  NoTerms = none
  MAX_U128 = 2
  MAX_U64 = 7
  TREE_DEPTH = 3
  TOLERANCE = 1
  DepositTerms <- CoinFunds
  SwapTerms <- None
  MemoTerms <- Escrows
  Traffic <- Circuit
  MaxTx = 4
  MaxIntents = 0
  MaxVersion = 1
  MaxTime = 2
INVARIANTS TypeOK NoDoubleSpend Solvency TimelockHolds MemosRedeemable BuiltMemosAreSafe ScanAgreesWithPool
PROPERTIES ImplementsLedger
CHECK_DEADLOCK FALSE
