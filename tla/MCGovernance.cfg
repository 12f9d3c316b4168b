CONSTANTS
  Addresses = {"a", "b", "c"}
  Keys = {"key a", "key b", "key c"}
  Texts = {"file", "own"}
  Roles = {1, 2}
  MaxStake = 2
  MinStakes = {3}
  Nodes <- TwoNodes
  Procs = {"o1", "o2"}
  Lead = "o1"
  MinDelays = {0, 1}
  FirstStates <- States
  MaxGenerations = 3
  MaxSalts = 4
  MaxMischief = 1
SPECIFICATION Spec
INVARIANTS IndexesAgree StakeBacked SafesOpenable
PROPERTIES FrozenIsHeld NodesEventuallyServe
