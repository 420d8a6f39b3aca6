\* A response completes the transaction during the last polling round.
CONSTANTS
  Callers = {c1, c2}
  WaitModes <- MCAllWait
  MaxCalls <- MCMaxCalls
  Polls <- MCPolls
  None = None

SPECIFICATION Spec
\* The number of calls is bounded: once all are done, nothing can happen.
CHECK_DEADLOCK FALSE

PROPERTY TimeoutOnlyIfIncomplete
