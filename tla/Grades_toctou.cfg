\* A grade races the replacement of its scheme.
SPECIFICATION Spec
CONSTANTS
  a1 = a1  a2 = a2  b1 = b1  c1 = c1
  Requests = {r1, r2, r3}
  Inscriptions = {i1}
  Evaluations = {a1, b1, c1}
  Schemes <- OneEach
  Weight <- Shares
  Values = {40}
  MaxVersion = 1
  None = None
INVARIANTS GradedSchemeStays
SYMMETRY RequestSymmetry
