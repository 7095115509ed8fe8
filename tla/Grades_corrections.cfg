\* Two sessions correct one grade up to its third version and replace its scheme.
SPECIFICATION FairSpec
CONSTANTS
  a1 = a1  a2 = a2  b1 = b1  c1 = c1
  Requests = {r1, r2}
  Inscriptions = {i1}
  Evaluations = {a1, b1}
  Schemes <- Either
  Weight <- Shares
  Values = {40}
  MaxVersion = 3
  None = None
PROPERTIES NoBlindOverwrite RecordsFinish
