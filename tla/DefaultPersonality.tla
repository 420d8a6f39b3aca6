------------------------- MODULE DefaultPersonality -------------------------
(***************************************************************************)
(* The default RINA personality, src/linux/net/rina/default.c: the module *)
(* that brings up the kernel components (Netlink set, KIPCM, EFCP, RMT)   *)
(* in default_init, tears them down in default_fini, and forwards the     *)
(* personality operations to them behind is_personality_ok.               *)
(*                                                                         *)
(* ptr[c] is the pointer data->c: "null", "live" (the component it points *)
(* to is up) or "dead" (the component was finalised and the pointer kept).*)
(* The component init and fini functions live outside this file; each may *)
(* fail, as the code allows, when InitMayFail / FiniMayFail.              *)
(***************************************************************************)
EXTENDS Integers, Sequences

CONSTANTS
  InitMayFail,  \* rina_netlink_set_create, kipcm_init, ... may return NULL
  FiniMayFail   \* rmt_fini, efcp_fini, ... may return an error

VARIABLES
  pc,     \* where module load / default_init is
  ptr,    \* the four pointers of struct personality_data
  finis,  \* X_fini calls on the object data->X currently refers to
  last    \* the last personality operation: name, gate result, target

Comps == {"nlset", "kipcm", "efcp", "rmt"}

\* default_init brings the components up in this order; after each the
\* next step, after rmt the personality is up.
Succ == [nlset |-> "kipcm", kipcm |-> "efcp", efcp |-> "rmt", rmt |-> "up"]

\* default_fini tears them down in the reverse order.
FiniOrder == <<"rmt", "efcp", "kipcm", "nlset">>

\* The operations of struct personality_ops other than init/fini, and the
\* component each one forwards to.
Ops == {"ipc_create", "ipc_configure", "ipc_destroy", "sdu_write",
        "sdu_read", "connection_create", "connection_destroy",
        "connection_update"}
Target(op) ==
  IF op \in {"connection_create", "connection_destroy", "connection_update"}
  THEN "efcp" ELSE "kipcm"

NoOp == [op |-> "none", ok |-> FALSE, target |-> "null"]

personalityVars == <<pc, ptr, finis, last>>

-----------------------------------------------------------------------------

\* is_personality_ok: data is the static personality_data, never NULL.
IsPersonalityOk(p) == p["kipcm"] # "null" /\ p["efcp"] # "null"

\* default_fini on pointers p: for each non-NULL pointer in FiniOrder call
\* its fini; the first error is returned at once. The pointers are never
\* reset, so what was finalised stays "dead" in data. A fini called on a
\* "dead" pointer is a second fini of the same object. The set of
\* possible results [ptr, finis, ret].
DefaultFini(p, f) ==
  LET called(k) == {FiniOrder[i] : i \in 1..k} \cap {c \in Comps : p[c] # "null"}
      stop(k, err) ==
        LET done == IF err THEN called(k) \ {FiniOrder[k]} ELSE called(k) IN
        [ptr   |-> [c \in Comps |-> IF c \in done THEN "dead" ELSE p[c]],
         finis |-> [c \in Comps |-> IF c \in called(k) THEN f[c] + 1 ELSE f[c]],
         ret   |-> IF err THEN -1 ELSE 0]
  IN {stop(4, FALSE)}
     \cup {stop(k, TRUE) : k \in {k \in 1..4 : FiniMayFail /\ p[FiniOrder[k]] # "null"}}

\* One step of default_init: data->c = c_init(...). On NULL, default_fini
\* runs; if it fails init returns -1 (mod_init then fails), but if it
\* succeeds init carries on with the next component. default_kipcm is
\* set from data->kipcm after the kipcm step (line 215).
InitStep(c) ==
  /\ pc = c
  /\ \/ /\ ptr' = [ptr EXCEPT ![c] = "live"]
        /\ finis' = [finis EXCEPT ![c] = 0]
        /\ pc' = Succ[c]
     \/ /\ InitMayFail
        /\ \E r \in DefaultFini([ptr EXCEPT ![c] = "null"], finis) :
             /\ ptr' = r.ptr
             /\ finis' = r.finis
             /\ pc' = IF r.ret = 0 THEN Succ[c] ELSE "failed"
  /\ UNCHANGED last

\* default_ipc_create ... default_connection_update: -1 unless
\* is_personality_ok, else the call is forwarded to the target component.
Use(op) ==
  /\ pc = "up"
  /\ last' = [op |-> op, ok |-> IsPersonalityOk(ptr),
              target |-> IF IsPersonalityOk(ptr) THEN ptr[Target(op)] ELSE "null"]
  /\ UNCHANGED <<pc, ptr, finis>>

PersonalityInit ==
  /\ pc = "unloaded"
  /\ ptr = [c \in Comps |-> "null"]
  /\ finis = [c \in Comps |-> 0]
  /\ last = NoOp

=============================================================================
