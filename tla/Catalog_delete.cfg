\* Two deletions among one row of each kind, a second course and two years.
SPECIFICATION Spec
CONSTANTS
  Calls = {d1, d2}
  Programs = {p1}
  Courses = {c1, c2}
  Periods = {t1}
  Sections = {s1}
  Teachers = {u1}
  Years = {y1, y2}
  None = None
INVARIANT TypeOK
PROPERTY DeletedWhenBare
