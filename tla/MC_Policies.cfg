\* Callers pass policy_param_rem the list entry itself, or a name the
\* policy does not have.
CONSTANTS
  Policies = {p1, p2}
  Params = {x1, x2, x3}
  Names = {n1, n2}
  Unset = Unset
  Poison = Poison
  RemByKey = FALSE

SPECIFICATION Spec
SYMMETRY MCSymmetry

INVARIANT TypeOK
INVARIANT ListWellFormed
PROPERTY Implements
