\* Two requests and two students; one year, whose quota row is resized, deleted
\* and created again.
SPECIFICATION FairSpec
CONSTANTS
  Requests = {r1, r2}
  Students = {s1, s2}
  Years = {y1}
  Quotas = {q1, q2}
  Capacities = {1, 2}
  None = None
INVARIANTS TypeOK AdmissionHolds PaidAtMatches
PROPERTIES NoOverAdmission ImplementsLedger CallsFinish
