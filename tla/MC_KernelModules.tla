------------------------- MODULE MC_KernelModules -------------------------
(* Instantiates KernelModules for TLC. The state is finite without bounds: *)
(* four components, eight operations; each fini count is bounded by the  *)
(* number of init steps plus one unload.                                  *)
EXTENDS KernelModules
=============================================================================
