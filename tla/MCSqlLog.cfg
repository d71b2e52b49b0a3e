\* Two queries, two SqlLoggers (one SetLogger replaces the first), room for
\* two messages in the Logger's buffer.  The library stops once the queries
\* have returned and the application stops calling SetLogger and Close.
CONSTANTS
  Queries = {q1, q2}
  MaxLoggers = 2
  MsgCap = 2
  Capacity = 1
  Stmts <- MCStmts
  Layout = "pair"
SPECIFICATION FairSpec
INVARIANT NoWriteOnSlave
INVARIANT PermitsConserved
PROPERTY ClosingEndsClosed
CHECK_DEADLOCK FALSE
