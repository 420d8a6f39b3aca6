\* Every component initialises: creating a shim-eth-vlan instance faults
\* in eth_vlan_create.
CONSTANTS
  InitMayFail = FALSE
  FiniMayFail = FALSE

SPECIFICATION Spec

INVARIANT NoOops
