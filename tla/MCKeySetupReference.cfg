SPECIFICATION Spec
INVARIANTS
  NeverWithoutKeyAuth
