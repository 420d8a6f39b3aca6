\* Promise::wait times out while the response is still on its way.
CONSTANTS
  Callers = {c1, c2}
  WaitModes <- MCAllWait
  MaxCalls <- MCMaxCalls
  Polls <- MCPolls
  None = None

SPECIFICATION Spec
\* The number of calls is bounded: once all are done, nothing can happen.
CHECK_DEADLOCK FALSE

INVARIANT CompletedPromiseAlive
