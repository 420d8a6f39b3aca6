---------------------------- MODULE MC_Policies ----------------------------
(* Instantiates Policies for TLC: two policies, three parameter nodes and *)
(* two names, so a policy can hold two parameters, two parameters can    *)
(* share a name, and a parameter can move from one policy to the other.  *)
EXTENDS Policies, TLC

\* Names are compared only for equality (strcmp == 0) and policies play
\* interchangeable roles, so renaming either gives an equivalent state.
MCSymmetry == Permutations(Names) \cup Permutations(Policies)
=============================================================================
