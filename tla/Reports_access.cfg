\* Two requests, two sessions of one user whose role comes and goes, a reset token,
\* the acta of a section and a report for administrators.
SPECIFICATION Spec
CONSTANTS
  Requests = {r1, r2}
  Users = {u1}
  Sids = {s1, s2}
  Tokens = {t1}
  Actas = {acta}
  Summaries = {ficha}
  SessionTTL = 1
  ResetTTL = 1
  ReportTTL = 2
  MaxBuild = 1
  None = None
SYMMETRY Interchangeable
INVARIANTS TypeOK TokenSpent ServedWhileEntitled BoundedStaleness
