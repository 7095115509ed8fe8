\* Weights of one to three decimals, up to three evaluations; grades around every edge.
SPECIFICATION BookSpec
CONSTANTS
  Weights = {10, 3330, 3333, 3334, 3340, 2500, 5000, 4990, 4995, 5005, 10000}
  Inputs = {90, 99, 100, 394, 395, 400, 695, 700, 701}
  MaxEvaluations = 3
INVARIANTS BookTypeOK FinalIsNearest FinalBetween WeightsNearOne
PROPERTIES FinalMonotone
