\* Two sessions, one inscription, a scheme of two evaluations and one to replace it.
SPECIFICATION Spec
CONSTANTS
  a1 = a1  a2 = a2  b1 = b1  c1 = c1
  Requests = {r1, r2}
  Inscriptions = {i1}
  Evaluations = {a1, a2, b1}
  Schemes <- TwoThenOne
  Weight <- Shares
  Values = {30, 50}
  MaxVersion = 2
  None = None
INVARIANTS TypeOK FinalIsCurrent CompleteIsDecided AuditChain
PROPERTIES ImplementsLedger
SYMMETRY RequestSymmetry
