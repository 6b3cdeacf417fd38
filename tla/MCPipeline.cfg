CONSTANTS
  Inputs <- MCInputs
  Sizes = {0, 1, 2, 3}
  Word = 4
  Packed = 2
SPECIFICATION Spec
INVARIANTS
  StatusHonest
  ReferencesSettled
  RewritesHold
  BudgetsExact
  AssetsTyped
CHECK_DEADLOCK FALSE
