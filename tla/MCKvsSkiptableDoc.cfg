CONSTANTS
  Keys = {1, 2, 3}
  Scores = {1, 2}
  Values = {v1}
  Missing = Missing
  NULL = NULL
  Garbage = Garbage
  SKIP_MAX_LEVEL = 2
  MAX_RESULTS = 3
  RESULT_LINES = 2
  MaxNodes = 4
SPECIFICATION Spec
INVARIANT AsDocumented
