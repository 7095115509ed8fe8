\* Two replicas' requests, two enrolments, one section of one or two seats.
SPECIFICATION Spec
CONSTANTS
  r1 = r1  r2 = r2
  e1 = e1  e2 = e2
  s1 = s1
  Requests = {r1, r2}
  Enrollments = {e1, e2}
  Sections = {s1}
  Capacities = {1, 2}
  SameYear <- AllPairs
  InProgram <- AllPairs
  Untaught = {s1}
  NoCall = NoCall
INVARIANTS TypeOK SeatDecisionHolds OutcomeHasGrade
PROPERTIES NoOversell OutcomeStays ImplementsLedger
SYMMETRY Symmetry
