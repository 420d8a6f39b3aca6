---------------------------- MODULE PolicyParams ----------------------------
(***************************************************************************)
(* What the policy API of src/linux/net/rina/policies.c promises, with   *)
(* the intrusive lists abstracted away: a policy holds an ordered list of *)
(* parameters; a parameter is on at most one policy; adding appends it;   *)
(* removing a parameter takes it off the policy and succeeds (0) when it  *)
(* is there, and fails (-1) without changing anything when it is not;     *)
(* destroying a policy frees it with all its parameters. Policies.tla     *)
(* implements this specification under a refinement mapping.              *)
(***************************************************************************)
EXTENDS Naturals, Sequences, SequencesExt

CONSTANTS
  Policies,  \* struct policy objects
  Params,    \* struct p_param objects
  Names,     \* parameter names (string_t, compared with strcmp)
  Unset      \* a name that was never set

VARIABLES
  params,  \* the parameters of each policy, in list order
  pname,   \* the name of each parameter
  live,    \* allocated parameters
  plive,   \* allocated policies
  last     \* the last int-returning call: its name, arguments and result

\* The record of a call of function op returning r; args are kept for the
\* calls whose result depends on them (the removals).
Called(op, args, r) == [op |-> op, args |-> args, ret |-> r]

\* policy_param_rem, or policy_param_rem_and_del when del.
RemCalled(p, x, del, r) ==
  Called(IF del THEN "policy_param_rem_and_del" ELSE "policy_param_rem", <<p, x>>, r)

vars == <<params, pname, live, plive, last>>

\* The parameters on some policy.
Listed == UNION {ToSet(params[p]) : p \in Policies}

Init ==
  /\ params = [p \in Policies |-> <<>>]
  /\ pname = [x \in Params |-> Unset]
  /\ live = {}
  /\ plive = [p \in Policies |-> FALSE]
  /\ last = Called("none", <<>>, 0)

PolicyCreate(p) ==
  /\ ~plive[p]
  /\ plive' = [plive EXCEPT ![p] = TRUE]
  /\ params' = [params EXCEPT ![p] = <<>>]
  /\ UNCHANGED <<pname, live, last>>

ParamCreate(x) ==
  /\ x \notin live
  /\ live' = live \cup {x}
  /\ pname' = [pname EXCEPT ![x] = Unset]
  /\ UNCHANGED <<params, plive, last>>

ParamNameSet(x, n) ==
  /\ x \in live
  /\ pname' = [pname EXCEPT ![x] = n]
  /\ last' = Called("policy_param_name_set", <<>>, 0)
  /\ UNCHANGED <<params, live, plive>>

ParamAdd(p, x) ==
  /\ plive[p] /\ x \in live \ Listed /\ pname[x] # Unset
  /\ params' = [params EXCEPT ![p] = Append(@, x)]
  /\ last' = Called("policy_param_add", <<>>, 0)
  /\ UNCHANGED <<pname, live, plive>>

\* Remove x from p (and, with del, free it).
Rem(p, x, del) ==
  /\ plive[p] /\ x \in live /\ pname[x] # Unset
  /\ \/ /\ x \in ToSet(params[p])
        /\ params' = [params EXCEPT ![p] = Remove(@, x)]
        /\ live' = IF del THEN live \ {x} ELSE live
        /\ last' = RemCalled(p, x, del, 0)
     \/ /\ x \notin ToSet(params[p])
        /\ last' = RemCalled(p, x, del, -1)
        /\ UNCHANGED <<params, live>>
  /\ UNCHANGED <<pname, plive>>

ParamDestroy(x) ==
  /\ x \in live \ Listed
  /\ live' = live \ {x}
  /\ last' = Called("policy_param_destroy", <<>>, 0)
  /\ UNCHANGED <<params, pname, plive>>

PolicyDestroy(p) ==
  /\ plive[p]
  /\ plive' = [plive EXCEPT ![p] = FALSE]
  /\ live' = live \ ToSet(params[p])
  /\ params' = [params EXCEPT ![p] = <<>>]
  /\ last' = Called("policy_destroy", <<>>, 0)
  /\ UNCHANGED pname

Next ==
  \/ \E p \in Policies : PolicyCreate(p) \/ PolicyDestroy(p)
  \/ \E x \in Params : ParamCreate(x) \/ ParamDestroy(x)
  \/ \E x \in Params, n \in Names : ParamNameSet(x, n)
  \/ \E p \in Policies, x \in Params :
       ParamAdd(p, x) \/ Rem(p, x, FALSE) \/ Rem(p, x, TRUE)

Spec == Init /\ [][Next]_vars
=============================================================================
