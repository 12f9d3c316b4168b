CONSTANTS
  FirstLeaves <- Notes
  Target = 4
  Policy <- DefaultPolicy
  BatchSize = 2
  MaxCandidates = 3
  Window = 3
  MaxVersion = 2
  MaxEvents = 1
SPECIFICATION FairSpec
INVARIANTS TagsUnique PlanHonest
PROPERTIES PaymentCompletes
CHECK_DEADLOCK FALSE
