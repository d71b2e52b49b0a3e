\* Concurrency with four tasks and two tokens, so that tasks queue for a
\* token while another fails; every task may fail.  Under the scheduling
\* the Go runtime gives it, it also returns.
CONSTANTS
  Tasks = {f1, f2, f3, f4}
  MaxIdle = 2
  Nil = Nil
SPECIFICATION FairSpec
INVARIANT FanTypeOK
INVARIANT AtMostMaxIdleRunning
INVARIANT ReturnsOnlyWhenAllDone
INVARIANT ResultReflectsTasks
PROPERTY Termination
