\* Two connections: one inscription of two is admitted, and the two grades can hold
\* both connections and wait for each other.
SPECIFICATION FairSpec
CONSTANTS
  Enrolls = {e1, e2}
  Grades = {g1, g2}
  Others = {q1}
  PoolSize = 2
  MaxStatements = 2
INVARIANTS TypeOK TokensMatchCalls PoolReserve
PROPERTY CallsReturn
