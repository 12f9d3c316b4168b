SPECIFICATION SpecTree
CONSTANTS
  Commitment = {c1, c2}
  GENESIS = genesis
  Zero = zero
  TREE_DEPTH = 3
  MaxLag = 2
INVARIANTS RootOpensItsLeavesOnly TreesAgree
CHECK_DEADLOCK FALSE
