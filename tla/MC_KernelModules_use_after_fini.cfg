\* A component init fails: default_init goes on, and calls, the shim's
\* factory registration or a later fini reach a finalised component.
CONSTANTS
  InitMayFail = TRUE
  FiniMayFail = FALSE

SPECIFICATION Spec

INVARIANT NoUseAfterFini
