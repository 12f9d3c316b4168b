CONSTANTS
  OddY = {1}
  Window = 2
  ExtraWindow = 1
  FinalityDepth = 1
  MaxAttempts = 1
  FirstChains <- Chains
  MaxMined = 4
  MaxBusy = 2
  MaxKeys = 3
  MaxIndex = 3
  ReorgDepth = 1
  MaxEvents = 2
SPECIFICATION FairSpec
INVARIANTS BelievesTheChain
PROPERTIES NeverResurrected FindsEverything
