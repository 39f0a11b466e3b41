SPECIFICATION Spec
CONSTANTS
  Never = Never
  MaxResults = 2
  MostRows = 3
  Questions <- ViewQuestions
CHECK_DEADLOCK FALSE
INVARIANTS
  FefoAllocates
  AgingPartitions
