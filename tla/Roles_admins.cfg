\* Two calls over three users who may be administrators or not.
SPECIFICATION FairSpec
CONSTANTS
  Calls = {c1, c2}
  Users = {u1, u2, u3}
  Names = {admin}
  Admin = admin
  None = None
INVARIANTS TypeOK AdminRemains
PROPERTIES ImplementsTable CallsReturn
