---------------------------- MODULE KernelModules ----------------------------
(***************************************************************************)
(* The two kernel modules of src/linux/net/rina that depend on each other:*)
(* the default personality (default.c, DefaultPersonality.tla) and the    *)
(* shim Ethernet VLAN factory (shim-eth-vlan.c). The shim registers its   *)
(* factory with default_kipcm, the KIPCM pointer default.c exports, and   *)
(* its instances are created through default_ipc_create -> KIPCM ->       *)
(* eth_vlan_create. Because shim-eth-vlan uses a symbol of default, the   *)
(* kernel loads default first and refuses to unload it while the shim is  *)
(* loaded. Module loads and unloads are serialised by the kernel, so each *)
(* action below is one whole call.                                         *)
(***************************************************************************)
EXTENDS DefaultPersonality

VARIABLES
  shim,   \* shim module: "unloaded" or "loaded" (factory registered)
  oops    \* a NULL pointer was dereferenced in eth_vlan_create

vars == <<pc, ptr, finis, last, shim, oops>>

\* The record of a call on the object default_kipcm points to.
KipcmCall(op) == [op |-> op, ok |-> ptr["kipcm"] # "null", target |-> ptr["kipcm"]]

-----------------------------------------------------------------------------

\* default.c mod_init: the module is inserted (again) with its static data
\* zeroed, and rina_personality_register runs default_init.
DefaultModInit ==
  /\ pc \in {"unloaded", "failed", "down"}
  /\ pc' = "nlset"
  /\ ptr' = [c \in Comps |-> "null"]
  /\ finis' = [c \in Comps |-> 0]
  /\ last' = NoOp
  /\ UNCHANGED <<shim, oops>>

\* default.c mod_exit: rina_personality_unregister runs default_fini; on an
\* error mod_exit only skips `personality = NULL`, and the module goes
\* away either way. Not while the shim, which uses default_kipcm, is loaded.
DefaultModExit ==
  /\ pc = "up"
  /\ shim = "unloaded"
  /\ \E r \in DefaultFini(ptr, finis) :
       /\ ptr' = r.ptr
       /\ finis' = r.finis
  /\ pc' = "down"
  /\ last' = NoOp
  /\ UNCHANGED <<shim, oops>>

\* A personality operation other than creating a shim instance.
PersonalityCall(op) ==
  /\ Use(op)
  /\ UNCHANGED <<shim, oops>>

\* default_ipc_create of a shim-eth-vlan IPC process: past
\* is_personality_ok, KIPCM calls eth_vlan_create. find_instance walks the
\* (empty) instance list; the rkzalloc'd instance data is never
\* INIT_LIST_HEAD'ed, and list_add(&data->instances, &inst->data->list)
\* passes it as the list head, so __list_add writes through its NULL next
\* pointer. Allocation failures return NULL earlier and change nothing.
CreateShimInstance ==
  /\ shim = "loaded"
  /\ Use("ipc_create")
  /\ oops' = (oops \/ (IsPersonalityOk(ptr) /\ ptr["kipcm"] = "live"))
  /\ UNCHANGED shim

\* shim-eth-vlan.c mod_init: kipcm_ipcp_factory_register(default_kipcm,
\* ...). The factory is registered (eth_vlan_init empties the instance
\* list) when default_kipcm points to a KIPCM; NULL makes it fail; a
\* finalised KIPCM is used after its fini and either outcome can follow.
ShimModInit ==
  /\ pc = "up"
  /\ shim = "unloaded"
  /\ last' = KipcmCall("factory_register")
  /\ \/ /\ ptr["kipcm"] \in {"live", "dead"}
        /\ shim' = "loaded"
     \/ /\ ptr["kipcm"] \in {"null", "dead"}
        /\ UNCHANGED shim
  /\ UNCHANGED <<pc, ptr, finis, oops>>

\* shim-eth-vlan.c mod_exit: kipcm_ipcp_factory_unregister, which calls
\* eth_vlan_fini (ASSERT that no instance is left). The module goes away
\* even when unregistering fails.
ShimModExit ==
  /\ shim = "loaded"
  /\ last' = KipcmCall("factory_unregister")
  /\ shim' = "unloaded"
  /\ UNCHANGED <<pc, ptr, finis, oops>>

Init ==
  /\ PersonalityInit
  /\ shim = "unloaded"
  /\ oops = FALSE

Next ==
  \/ DefaultModInit
  \/ \E c \in Comps : InitStep(c) /\ UNCHANGED <<shim, oops>>
  \/ \E op \in Ops : PersonalityCall(op)
  \/ CreateShimInstance
  \/ DefaultModExit
  \/ ShimModInit
  \/ ShimModExit

Spec == Init /\ [][Next]_vars

-----------------------------------------------------------------------------
(* Properties                                                              *)

\* No component is touched after its fini: no operation forwarded past
\* is_personality_ok and no factory call on default_kipcm reaches a
\* finalised component, and no component object is finalised twice.
\* default_init goes on after a failed step once default_fini has
\* succeeded, and default_fini keeps the pointers it finalised.
NoUseAfterFini ==
  /\ last.ok => last.target # "dead"
  /\ \A c \in Comps : finis[c] <= 1

\* Creating a shim-eth-vlan instance does not fault.
NoOops == ~oops

=============================================================================
