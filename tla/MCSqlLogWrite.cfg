\* A query's deferred Write on an SqlLogger that SetLogger or Close has
\* stopped.
CONSTANTS
  Queries = {q1, q2}
  MaxLoggers = 2
  MsgCap = 2
  Capacity = 1
  Stmts <- MCStmts
  Layout = "single"
SPECIFICATION FairSpec
PROPERTY WriteReturns
CHECK_DEADLOCK FALSE
