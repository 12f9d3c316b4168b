SPECIFICATION Spec
CONSTANTS
  Envs <- Environments
  Strangers = {"stranger", "accomplice"}
  TargetRoles = {"DarkPoolUpgrader"}
  MaxEvents = 3
INVARIANTS LatestIsGoverned DiskKeepsUp
PROPERTIES PauseEnds
CHECK_DEADLOCK FALSE
