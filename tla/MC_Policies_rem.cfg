\* Callers may pass policy_param_rem any named parameter as the key to
\* remove: policy_param_rem no longer does what the API promises.
CONSTANTS
  Policies = {p1, p2}
  Params = {x1, x2, x3}
  Names = {n1, n2}
  Unset = Unset
  Poison = Poison
  RemByKey = TRUE

SPECIFICATION Spec
SYMMETRY MCSymmetry

PROPERTY Implements
