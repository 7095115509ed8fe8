\* Lists of up to five rows, of two instants or two programmes, pages of two or of any
\* size the client asks for, two changes during a walk.
SPECIFICATION Spec
CONSTANTS
  MaxId = 5
  MaxStamp = 2
  Programs = {p1, p2}
  Requested = {0, 1, 3}
  PageSizeMin = 2
  PageSizeMax = 2
  MaxChanges = 2
  NoToken = NoToken
INVARIANT WalkIsExact
