--------------------------------- MODULE RIB ---------------------------------
(***************************************************************************)
(* The RIB engine of librina (rina::rib) as its proxy and its remote      *)
(* operation dispatcher use it: the schema registry with its create-      *)
(* callback bindings, the RIB store with handles and per-RIB object trees,*)
(* the version/AE association table, and the dispatcher that runs create  *)
(* callbacks and object handlers for requests arriving from a peer.      *)
(*                                                                         *)
(* The engine's code is not in this tree; its operations follow the      *)
(* design it documents. The objects, callbacks and provider mockup whose  *)
(* handlers run are those of the test src/librina/test/test-rib_v2.cc.    *)
(*                                                                         *)
(* Two threads share the engine: the application thread issuing proxy     *)
(* calls, and the thread delivering remote requests. Every proxy call and *)
(* every lookup runs whole under the engine's reader/writer lock, so each *)
(* is one step; a handler or callback runs after the lock is released.    *)
(*                                                                         *)
(* An fqn is modelled as its character sequence (segments of one        *)
(* character), so that name validation and parent derivation do what the *)
(* string code does with separators.                                      *)
(***************************************************************************)
EXTENDS Naturals, Sequences, SequencesExt, FiniteSets, Functions

CONSTANTS
  Versions,     \* schema versions (vers_info_t)
  AEs,          \* application entity names
  Classes,      \* object class names; "" is the empty class name
  None,         \* NULL / absent
  MaxRibs,      \* handles createRIB may hand out
  MaxIds,       \* instance ids a RIB may hand out
  WrongHandle,  \* a handle no RIB has (9999)
  WrongId,      \* an instance id no object has (99999)
  ConVersion,   \* the version of the peer's connection
  SchemaArgs, BindingArgs, RibArgs, AssocArgs, ObjHandles, ObjArgs, ReqArgs
                \* the arguments the application and the peer pass

Sep == "/"
Handles == 1..MaxRibs

VARIABLES
  life,      \* "none" before rib::init, "up" after it, "fini" after rib::fini
  schemas,   \* registered schema versions
  bindings,  \* create-callback bindings [ver, cls, path, cb]
  ribVer,    \* ribVer[h]: the schema version of RIB h, None if not created
  assoc,     \* associations [h, ae]; the version is that of RIB h
  objs,      \* objs[h]: fqn -> [id, cls], the object tree of RIB h
  nextId,    \* nextId[h]: the instance id RIB h hands out next
  held,      \* the [h, id, fqn] that addObjRIB returned to the application
  removal,   \* the last removeObjRIB that removed: handle, argument, fqn
  rq         \* the remote request between lookup and handler, or None

vars == <<life, schemas, bindings, ribVer, assoc, objs, nextId, held, removal, rq>>

Created == {h \in Handles : ribVer[h] # None}

-----------------------------------------------------------------------------
(* Names and the object tree                                               *)

\* An fqn is non-empty, starts with a separator, does not end with one,
\* and has a non-separator character.
ValidName(n) ==
  /\ n # <<>>
  /\ n[1] = Sep
  /\ n[Len(n)] # Sep
  /\ \E i \in 1..Len(n) : n[i] # Sep

\* p is an ancestor of n: a proper prefix of n ending at a separator.
IsAncestor(p, n) ==
  /\ Len(p) < Len(n)
  /\ IsPrefix(p, n)
  /\ n[Len(p) + 1] = Sep

\* The derived parent of n in tree t: its longest existing ancestor.
ParentOf(t, n) ==
  LET A == {p \in DOMAIN t : IsAncestor(p, n)}
  IN IF A = {} THEN None ELSE CHOOSE p \in A : \A q \in A : Len(q) <= Len(p)

\* Mutant: only an object whose name is n plus one segment counts as a
\* child (literal tree insertion instead of longest-ancestor derivation).
HasLiteralChild(t, n) ==
  \E o \in DOMAIN t : IsAncestor(n, o) /\ \A i \in Len(n) + 2..Len(o) : o[i] # Sep

\* Some object of t has n as its derived parent.
HasChildren(t, n) == \E o \in DOMAIN t : ParentOf(t, o) = n

\* Mutant: the next id is one past the largest id in use, so ids of
\* removed objects come back.
NewInstIdFromMax(h) ==
  1 + Cardinality({i \in 1..MaxIds : \E f \in DOMAIN objs[h] : objs[h][f].id >= i})

\* Mutant: instance ids start at 0 instead of 1.
NewInstIdFromZero(h) == nextId[h] - 1

\* The instance id the next object of RIB h gets.
NewInstId(h) == nextId[h]

\* RIB h already has an association, or (version of h, a) already maps
\* to a RIB.
AssocConflict(h, a) ==
  \/ \E x \in assoc : x.h = h
  \/ \E x \in assoc : x.ae = a /\ ribVer[x.h] = ribVer[h]

\* resolveCreateCallback: the binding for the exact path, else the
\* generic one of the class (path ""), else None.
Resolve(v, c, f) ==
  LET match(p) == {b \in bindings : b.ver = v /\ b.cls = c /\ b.path = p}
  IN IF match(f) # {} THEN CHOOSE b \in match(f) : TRUE
     ELSE IF match(<<>>) # {} THEN CHOOSE b \in match(<<>>) : TRUE
     ELSE None

-----------------------------------------------------------------------------
(* Proxy calls of the application thread                                  *)

NoChange == UNCHANGED <<schemas, bindings, ribVer, assoc, objs, nextId, held>>

\* A proxy call: only after rib::init (the proxy factory throws before).
\* A call that throws changes nothing.
Proxy ==
  /\ life = "up"
  /\ UNCHANGED <<life, removal, rq>>

\* rib::init; a second call throws.
RibInit ==
  /\ \/ /\ life = "none"
        /\ life' = "up"
     \/ /\ life = "up"
        /\ UNCHANGED life
  /\ UNCHANGED <<removal, rq>> /\ NoChange

\* rib::fini; calls after it are outside the contract.
RibFini ==
  /\ life = "up"
  /\ life' = "fini"
  /\ UNCHANGED <<removal, rq>> /\ NoChange

CreateSchema(v) ==
  \/ /\ v \in schemas
     /\ Proxy /\ NoChange
  \/ /\ v \notin schemas
     /\ Proxy
     /\ schemas' = schemas \cup {v}
     /\ UNCHANGED <<bindings, ribVer, assoc, objs, nextId, held>>

AddCreateCallbackSchema(b) ==
  LET err == CASE b.ver \notin schemas -> "SchemaNotFound"
               [] b.cls = ""           -> "SchemaInvalidClass"
               [] \E x \in bindings : x.ver = b.ver /\ x.cls = b.cls /\ x.path = b.path
                                       -> "SchemaCBRegExists"
               [] OTHER                -> "ok"
  IN /\ Proxy
     /\ bindings' = IF err = "ok" THEN bindings \cup {b} ELSE bindings
     /\ UNCHANGED <<schemas, ribVer, assoc, objs, nextId, held>>

\* createRIB: the next handle (1, 2, ... never reused), an empty tree.
CreateRIB(v) ==
  LET h == Cardinality(Created) + 1 IN
  \/ /\ v \notin schemas
     /\ Proxy /\ NoChange
  \/ /\ v \in schemas /\ h \in Handles
     /\ Proxy
     /\ ribVer' = [ribVer EXCEPT ![h] = v]
     /\ objs' = [objs EXCEPT ![h] = <<>>]
     /\ nextId' = [nextId EXCEPT ![h] = 1]
     /\ UNCHANGED <<schemas, bindings, assoc, held>>

AssociateRIBtoAE(h, a) ==
  LET err == CASE h \notin Created     -> "RIBNotFound"
               [] AssocConflict(h, a) -> "RIBAlreadyAssociated"
               [] OTHER               -> "ok"
  IN /\ Proxy
     /\ assoc' = IF err = "ok" THEN assoc \cup {[h |-> h, ae |-> a]} ELSE assoc
     /\ UNCHANGED <<schemas, bindings, ribVer, objs, nextId, held>>

DeassociateRIBfromAE(h, a) ==
  LET err == CASE h \notin Created                -> "RIBNotFound"
               [] [h |-> h, ae |-> a] \notin assoc -> "RIBNotAssociated"
               [] OTHER                          -> "ok"
  IN /\ Proxy
     /\ assoc' = assoc \ {[h |-> h, ae |-> a]}
     /\ UNCHANGED <<schemas, bindings, ribVer, objs, nextId, held>>

\* addObjRIB(h, fqn, &obj): on success the tree owns the object, the
\* application's pointer is nulled and it keeps the instance id.
AddObjRIB(h, o) ==
  LET err == CASE h \notin Created                 -> "RIBNotFound"
               [] ~ValidName(o.fqn)               -> "ObjInvalidName"
               [] o.fqn \in DOMAIN objs[h]        -> "ObjExists"
               [] OTHER                           -> "ok"
      id == NewInstId(h)
  IN \/ /\ err # "ok"
        /\ Proxy /\ NoChange
     \/ /\ err = "ok" /\ id <= MaxIds
        /\ Proxy
        /\ objs' = [objs EXCEPT ![h] = (o.fqn :> [id |-> id, cls |-> o.cls]) @@ @]
        /\ nextId' = [nextId EXCEPT ![h] = id + 1]
        /\ held' = held \cup {[h |-> h, id |-> id, fqn |-> o.fqn]}
        /\ UNCHANGED <<schemas, bindings, ribVer, assoc>>

\* removeObjRIB(h, r.id), with r a value addObjRIB once returned (or a
\* wrong id): the object with that id goes unless an object has it as its
\* derived parent.
RemoveObjRIB(h, r) ==
  LET t == objs[h]
      hit == {f \in DOMAIN t : t[f].id = r.id}
      f == CHOOSE f \in hit : TRUE
      err == CASE h \notin Created    -> "RIBNotFound"
               [] hit = {}           -> "ObjDoesNotExist"
               [] HasChildren(t, f)  -> "ObjHasChildren"
               [] OTHER              -> "ok"
  IN /\ life = "up"
     /\ removal' = IF err = "ok" THEN [h |-> h, arg |-> r, fqn |-> f] ELSE removal
     /\ objs' = IF err = "ok"
                THEN [objs EXCEPT ![h] = Restrict(t, DOMAIN t \ {f})]
                ELSE objs
     /\ UNCHANGED <<life, rq, schemas, bindings, ribVer, assoc, nextId, held>>

-----------------------------------------------------------------------------
(* The remote request thread                                               *)

\* A request from the peer (read_request, write_request, create_request):
\* resolve the RIB of (connection version, peer AE), under the read lock;
\* an unknown pair throws out of the request. A create resolves its
\* callback, any other operation its target object; either then runs
\* with the lock released. With no callback the result is "operation not
\* supported", with no object "object does not exist", and nothing runs.
RemoteRequest(q) ==
  LET hs == {x.h : x \in {x \in assoc : x.ae = q.ae /\ ribVer[x.h] = ConVersion}}
      h == CHOOSE h \in hs : TRUE
      b == Resolve(ConVersion, q.cls, q.fqn)
  IN /\ life = "up"
     /\ rq = None
     /\ \/ /\ hs = {}
           /\ UNCHANGED rq
        \/ /\ hs # {} /\ q.op = "create"
           /\ rq' = IF b = None THEN None ELSE [op |-> q.op, by |-> b.cb]
        \/ /\ hs # {} /\ q.op # "create"
           /\ rq' = IF q.fqn \notin DOMAIN objs[h] THEN None
                    ELSE [op |-> q.op, by |-> objs[h][q.fqn].cls]
     /\ UNCHANGED <<life, schemas, bindings, ribVer, assoc, objs, nextId, held, removal>>

\* The handler or callback runs (create_callback_1/2, MyObj::read and
\* OtherObj::read of the test; RIBObj's default "operation not supported"
\* for the rest) and its result goes to the provider mockup, whose
\* send_*_result keep nothing.
RemoteReply ==
  /\ rq # None
  /\ rq' = None
  /\ UNCHANGED <<life, schemas, bindings, ribVer, assoc, objs, nextId, held, removal>>

-----------------------------------------------------------------------------

Init ==
  /\ life = "none"
  /\ schemas = {}
  /\ bindings = {}
  /\ ribVer = [h \in Handles |-> None]
  /\ assoc = {}
  /\ objs = [h \in Handles |-> <<>>]
  /\ nextId = [h \in Handles |-> 1]
  /\ held = {}
  /\ removal = None
  /\ rq = None

Next ==
  \/ RibInit \/ RibFini
  \/ \E v \in SchemaArgs : CreateSchema(v)
  \/ \E b \in BindingArgs : AddCreateCallbackSchema(b)
  \/ \E v \in RibArgs : CreateRIB(v)
  \/ \E h \in Handles \cup {WrongHandle}, a \in AssocArgs :
       AssociateRIBtoAE(h, a) \/ DeassociateRIBfromAE(h, a)
  \/ \E h \in ObjHandles, o \in ObjArgs : AddObjRIB(h, o)
  \/ \E h \in ObjHandles :
       \E r \in held \cup {[h |-> h, id |-> WrongId, fqn |-> None]} : RemoveObjRIB(h, r)
  \/ \E q \in ReqArgs : RemoteRequest(q)
  \/ RemoteReply

Spec == Init /\ [][Next]_vars

-----------------------------------------------------------------------------
(* Properties                                                              *)

\* Every variable has its type: the library's life cycle, the schemas and
\* RIBs created, the objects of each RIB keyed by name with a class and an
\* instance id that rib_v2's instance-id counter handed out (from 1).
TypeOK ==
  /\ life \in {"none", "up", "fini"}
  /\ schemas \subseteq Versions
  /\ ribVer \in [Handles -> Versions \cup {None}]
  /\ \A h \in Handles :
       /\ DOMAIN objs[h] \subseteq {o.fqn : o \in ObjArgs}
       /\ \A f \in DOMAIN objs[h] : objs[h][f] \in [id : 1..MaxIds, cls : Classes]
  /\ nextId \in [Handles -> 1..MaxIds + 1]

\* removeObjRIB never takes away an object's parent: while an object
\* exists its derived parent only changes when addObjRIB inserts a nearer
\* ancestor, whatever order objects were added and removed in (an
\* ancestor may be added after its descendants, and a descendant may have
\* no object at the names in between).
ChildrenKeepParent ==
  [][\A h \in Handles :
       \A o \in DOMAIN objs[h] \cap DOMAIN objs'[h] :
         LET p == ParentOf(objs[h], o)
             q == ParentOf(objs'[h], o)
         IN \/ q = p
            \/ /\ q # None /\ q \notin DOMAIN objs[h]
               /\ p = None \/ Len(q) > Len(p)]_vars

\* An instance id the application got from addObjRIB names that object
\* for good: removeObjRIB with an id kept from an earlier insertion (the
\* test removes inst_id2 twice) never removes another object, because
\* instance ids are not reused after a removal.
RemoveHitsItsObject ==
  removal # None /\ removal.arg.h = removal.h => removal.fqn = removal.arg.fqn

=============================================================================
