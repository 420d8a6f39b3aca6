\* One caller blocks in Promise::wait, the other in timed_wait; IPC
\* processes answer every request.
CONSTANTS
  Callers = {c1, c2}
  WaitModes <- MCMixed
  MaxCalls <- MCMaxCalls
  Polls <- MCPolls
  None = None

SPECIFICATION Spec
\* The number of calls is bounded: once all are done, nothing can happen.
CHECK_DEADLOCK FALSE

INVARIANT TypeOK
INVARIANT TimedWaitPromiseAlive
INVARIANT ResultIsOwn
PROPERTY WaitReturns
INVARIANT HeldStateStillPending
