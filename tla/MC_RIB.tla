--------------------------------- MODULE MC_RIB ---------------------------------
(* Instantiates RIB for TLC with the arguments src/librina/test/test-rib_v2.cc *)
(* passes: its names, bindings, objects and remote requests. The proxy     *)
(* calls and the requests may come in any order.                           *)
EXTENDS RIB

\* The model values of the test's versions (0x1 and a wrong one) and AE names.
CONSTANTS v1, v2, ae, fff

\* Names of the test (lines 395-400), one character per segment: "/x/other"
\* is "/x/o", "/x/y/z/invalid" is "/x/y/z/i".
NX    == <<"/", "x">>
NY    == <<"/", "y">>
NXZ   == NX \o <<"/", "z">>
NXZT  == NXZ \o <<"/", "t">>
NXO   == NX \o <<"/", "o">>
NXZTC == NXZT \o <<"/", "c">>
NH    == <<"/", "h">>

\* testSchemaCreation: the bindings it registers, the one with an unknown
\* version and the one with an empty class among them.
MCBindingArgs ==
  {[ver |-> v2, cls |-> "MyObj", path |-> NX, cb |-> "create_callback_1"],
   [ver |-> v1, cls |-> "", path |-> NX, cb |-> "create_callback_1"],
   [ver |-> v1, cls |-> "MyObj", path |-> NXZTC, cb |-> "create_callback_2"],
   [ver |-> v1, cls |-> "MyObj", path |-> <<>>, cb |-> "create_callback_1"]}

\* testAddObj: the invalid names "", "x", "/x/", then obj1..obj4, and
\* name4 ("/x/z/t"), whose parent is "/x" while "/x/z" is absent.
MCObjArgs ==
  {[fqn |-> n, cls |-> "MyObj"] : n \in {<<>>, <<"x">>, <<"/", "x", "/">>,
                                         NX, NY, NXZ, NXZT}}
  \cup {[fqn |-> NXO, cls |-> "OtherObj"]}

\* testOperations: the requests the peer sends.
MCReqArgs ==
  {[op |-> "read", fqn |-> <<"/", "x", "/", "y", "/", "z", "/", "i">>, cls |-> "", ae |-> fff],
   [op |-> "write", fqn |-> NX, cls |-> "", ae |-> ae],
   [op |-> "read", fqn |-> NX, cls |-> "", ae |-> ae],
   [op |-> "create", fqn |-> NXZTC, cls |-> "OtherObj", ae |-> ae],
   [op |-> "create", fqn |-> NXZTC, cls |-> "MyObj", ae |-> ae],
   [op |-> "create", fqn |-> NH, cls |-> "MyObj", ae |-> ae]}

\* Two RIBs (testRIBCreation creates two); three instance ids, enough for
\* an object to be removed and another added after it.
MCMaxRibs == 2
MCMaxIds == 3
=============================================================================
