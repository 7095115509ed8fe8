\* Two requests, one seat; e2 is an enrolment of another year.
SPECIFICATION FairSpec
CONSTANTS
  r1 = r1  r2 = r2
  e1 = e1  e2 = e2
  s1 = s1
  Requests = {r1, r2}
  Enrollments = {e1, e2}
  Sections = {s1}
  Capacities = {1}
  SameYear <- OnlyFirst
  InProgram <- AllPairs
  Untaught = {s1}
  NoCall = NoCall
PROPERTIES RequestsFinish
