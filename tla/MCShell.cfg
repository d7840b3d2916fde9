SPECIFICATION Spec
CONSTANTS
  SHELL_BUF_LEN = 4
  HISTORY_DEPTH = 2
  MAX_ARGS = 5
  Sessions <- MCSessions
  NlpLines <- MCNlpLines
  Requests = {0, 1, 5}
  MaxLines = 3
  MaxDepth = 2
  MaxLive = 3
  MaxOom = 1
  CAPACITY = 12
  ALIGN = 4
  SIZE_T = 64
  Confidences = {0, 1, 33, 34, 60, 100}
INVARIANTS LinesKept ArenaSafe 
CHECK_DEADLOCK FALSE
