SPECIFICATION Spec
INVARIANT
  NeverRaises
