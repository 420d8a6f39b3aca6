------------------------------ MODULE Policies ------------------------------
(***************************************************************************)
(* Policies and their parameter lists, src/linux/net/rina/policies.c.     *)
(*                                                                         *)
(* A struct policy heads a Linux intrusive doubly-linked list (struct     *)
(* list_head params) threaded through the `next` member of each struct    *)
(* p_param. The model keeps the two pointers of every list_head: nxt and *)
(* prv over policy heads and parameter nodes, with LIST_POISON for the    *)
(* pointers list_del leaves behind. The calls run one at a time (the file *)
(* takes no lock; its users serialise calls). Name and version strings    *)
(* are abstracted to a name per parameter.                                *)
(***************************************************************************)
EXTENDS Naturals, Sequences, SequencesExt, FiniteSets

CONSTANTS
  Policies,   \* struct policy objects
  Params,     \* struct p_param objects
  Names,      \* parameter names
  Unset,      \* a name that was never set
  Poison,     \* LIST_POISON1 / LIST_POISON2
  RemByKey    \* callers may pass policy_param_rem a parameter that is not
              \* the list entry, only carrying the name to look for

Nodes == Policies \cup Params

VARIABLES
  nxt,    \* list_head.next of every policy head and parameter node
  prv,    \* list_head.prev
  pname,  \* p_param.name
  live,   \* allocated parameters
  plive,  \* allocated policies
  last,   \* the last int-returning call: its name, arguments and result
  oops    \* the kernel dereferenced LIST_POISON

\* The record of a call of function op returning r; args are kept for the
\* calls whose result depends on them (the removals).
Called(op, args, r) == [op |-> op, args |-> args, ret |-> r]

\* policy_param_rem, or policy_param_rem_and_del when del.
RemCalled(p, x, del, r) ==
  Called(IF del THEN "policy_param_rem_and_del" ELSE "policy_param_rem", <<p, x>>, r)

vars == <<nxt, prv, pname, live, plive, last, oops>>

\* The parameter nodes reached from head p by following next pointers, in
\* order, up to the first pointer that is not a parameter node.
RECURSIVE WalkFrom(_, _, _)
WalkFrom(p, n, k) ==
  IF k = 0 \/ n \notin Params THEN <<>>
  ELSE <<n>> \o WalkFrom(p, nxt[n], k - 1)

\* list_for_each_entry(pos, &p->params, next).
ListOf(p) == WalkFrom(p, nxt[p], Cardinality(Params))

\* The parameters on any live policy.
Listed == UNION {ToSet(ListOf(p)) : p \in {q \in Policies : plive[q]}}

-----------------------------------------------------------------------------

\* policy_param_find_by_name / policy_param_is_present: some entry of p's
\* list has the name of x (strcmp(pos->name, param->name) == 0).
ParamIsPresent(p, x) == \E i \in 1..Len(ListOf(p)) : pname[ListOf(p)[i]] = pname[x]

\* list_add_tail(&x->next, &p->params): __list_add(new, head->prev, head).
ListAddTail(x, p) ==
  LET tail == prv[p] IN
  /\ prv' = [prv EXCEPT ![p] = x, ![x] = tail]
  /\ nxt' = [nxt EXCEPT ![x] = p, ![tail] = x]

\* list_del(&x->next): next->prev = prev; prev->next = next; then both
\* pointers of x are poisoned. Poisoned pointers fault when followed.
ListDel(x) ==
  LET n == nxt[x]
      b == prv[x]
  IN
  \/ /\ n \in Nodes /\ b \in Nodes
     /\ prv' = [prv EXCEPT ![n] = b, ![x] = Poison]
     /\ nxt' = [nxt EXCEPT ![b] = n, ![x] = Poison]
     /\ UNCHANGED oops
  \/ /\ n = Poison \/ b = Poison
     /\ oops' = TRUE
     /\ UNCHANGED <<nxt, prv>>

\* policy_create_gfp: rkmalloc, INIT_LIST_HEAD(&tmp->params).
PolicyCreate(p) ==
  /\ ~plive[p]
  /\ plive' = [plive EXCEPT ![p] = TRUE]
  /\ nxt' = [nxt EXCEPT ![p] = p]
  /\ prv' = [prv EXCEPT ![p] = p]
  /\ UNCHANGED <<pname, live, last, oops>>

\* policy_param_create_gfp: rkmalloc, INIT_LIST_HEAD(&tmp->next). The
\* name is not initialised.
ParamCreate(x) ==
  /\ x \notin live
  /\ live' = live \cup {x}
  /\ nxt' = [nxt EXCEPT ![x] = x]
  /\ prv' = [prv EXCEPT ![x] = x]
  /\ pname' = [pname EXCEPT ![x] = Unset]
  /\ UNCHANGED <<plive, last, oops>>

\* policy_param_name_set.
ParamNameSet(x, n) ==
  /\ x \in live
  /\ pname' = [pname EXCEPT ![x] = n]
  /\ last' = Called("policy_param_name_set", <<>>, 0)
  /\ UNCHANGED <<nxt, prv, live, plive, oops>>

\* Mutant: list_add_tail without next->prev = new.
ParamAddNoPrev(p, x) ==
  /\ plive[p] /\ x \in live \ Listed /\ pname[x] # Unset
  /\ nxt' = [nxt EXCEPT ![x] = p, ![prv[p]] = x]
  /\ prv' = [prv EXCEPT ![x] = prv[p]]
  /\ last' = Called("policy_param_add", <<>>, 0)
  /\ UNCHANGED <<pname, live, plive, oops>>

\* policy_param_add: list_add_tail, no check. Callers add a named
\* parameter that is on no list.
ParamAdd(p, x) ==
  /\ plive[p] /\ x \in live \ Listed /\ pname[x] # Unset
  /\ ListAddTail(x, p)
  /\ last' = Called("policy_param_add", <<>>, 0)
  /\ UNCHANGED <<pname, live, plive, oops>>

\* The parameters a caller passes to policy_param_rem(p, .): any live
\* named one when RemByKey; otherwise one that is on p's list, or one
\* whose name p does not have (a lookup that is meant to fail).
RemArgs(p) ==
  {x \in live : /\ pname[x] # Unset
                /\ RemByKey \/ x \in ToSet(ListOf(p)) \/ ~ParamIsPresent(p, x)}

\* Mutant: the return value of policy_param_is_present leaks out.
ParamRemReturnsPresent(p, x, del) ==
  /\ plive[p] /\ x \in RemArgs(p) /\ ~oops
  /\ \/ /\ ~ParamIsPresent(p, x)
        /\ last' = RemCalled(p, x, del, -1)
        /\ UNCHANGED <<nxt, prv, live, oops>>
     \/ /\ ParamIsPresent(p, x)
        /\ ListDel(x)
        /\ last' = RemCalled(p, x, del, 1)
        /\ live' = IF del THEN live \ {x} ELSE live
  /\ UNCHANGED <<pname, plive>>

\* policy_param_rem(p, x): -1 unless a parameter with x's name is present;
\* then list_del(&x->next) on the argument and 0. With del
\* (policy_param_rem_and_del) x is then freed by policy_param_destroy.
ParamRem(p, x, del) ==
  /\ plive[p] /\ x \in RemArgs(p) /\ ~oops
  /\ \/ /\ ~ParamIsPresent(p, x)
        /\ last' = RemCalled(p, x, del, -1)
        /\ UNCHANGED <<nxt, prv, live, oops>>
     \/ /\ ParamIsPresent(p, x)
        /\ ListDel(x)
        /\ last' = RemCalled(p, x, del, 0)
        /\ live' = IF del THEN live \ {x} ELSE live
  /\ UNCHANGED <<pname, plive>>

\* policy_param_destroy: frees name, value and the node, without
\* unlinking it; callers destroy parameters that are on no list.
ParamDestroy(x) ==
  /\ x \in live \ Listed
  /\ live' = live \ {x}
  /\ last' = Called("policy_param_destroy", <<>>, 0)
  /\ UNCHANGED <<nxt, prv, pname, plive, oops>>

\* Mutant: policy_destroy frees the policy but not its parameters.
PolicyDestroyKeepParams(p) ==
  /\ plive[p]
  /\ plive' = [plive EXCEPT ![p] = FALSE]
  /\ last' = Called("policy_destroy", <<>>, 0)
  /\ UNCHANGED <<nxt, prv, pname, live, oops>>

\* policy_destroy: list_for_each_entry_safe destroys every parameter on
\* the list, then the policy is freed.
PolicyDestroy(p) ==
  /\ plive[p]
  /\ plive' = [plive EXCEPT ![p] = FALSE]
  /\ live' = live \ ToSet(ListOf(p))
  /\ last' = Called("policy_destroy", <<>>, 0)
  /\ UNCHANGED <<nxt, prv, pname, oops>>

-----------------------------------------------------------------------------

Init ==
  /\ nxt = [n \in Nodes |-> n]
  /\ prv = [n \in Nodes |-> n]
  /\ pname = [x \in Params |-> Unset]
  /\ live = {}
  /\ plive = [p \in Policies |-> FALSE]
  /\ last = Called("none", <<>>, 0)
  /\ oops = FALSE

Next ==
  \/ \E p \in Policies : PolicyCreate(p) \/ PolicyDestroy(p)
  \/ \E x \in Params : ParamCreate(x) \/ ParamDestroy(x)
  \/ \E x \in Params, n \in Names : ParamNameSet(x, n)
  \/ \E p \in Policies, x \in Params :
       ParamAdd(p, x) \/ ParamRem(p, x, FALSE) \/ ParamRem(p, x, TRUE)

Spec == Init /\ [][Next]_vars

-----------------------------------------------------------------------------
(* Properties                                                              *)

TypeOK ==
  /\ nxt \in [Nodes -> Nodes \cup {Poison}]
  /\ prv \in [Nodes -> Nodes \cup {Poison}]
  /\ pname \in [Params -> Names \cup {Unset}]
  /\ live \subseteq Params
  /\ last.ret \in {0, -1}
  /\ oops \in BOOLEAN

\* Every live policy's list is a well-formed ring: following next from the
\* head visits live parameters only and comes back to the head, prev
\* mirrors next at every link, and no parameter is on two policies.
ListWellFormed ==
  \A p \in {q \in Policies : plive[q]} :
    LET s == ListOf(p)
        k == Len(s)
    IN /\ ToSet(s) \subseteq live
       /\ IF k = 0 THEN nxt[p] = p /\ prv[p] = p
          ELSE /\ nxt[s[k]] = p /\ prv[p] = s[k] /\ prv[s[1]] = p
               /\ \A i \in 1..k-1 : prv[s[i + 1]] = s[i]
       /\ \A q \in {q \in Policies : plive[q]} \ {p} :
            ToSet(s) \cap ToSet(ListOf(q)) = {}

\* The list code implements the promised parameter-list behaviour: seen
\* through the lists it builds, every call does what PolicyParams says,
\* in particular policy_param_rem removes the parameter it is given and
\* reports success only when it did.
Abstract == INSTANCE PolicyParams WITH
  params <- [p \in Policies |-> IF plive[p] THEN ListOf(p) ELSE <<>>]

Implements == Abstract!Spec

=============================================================================
