\* Four orders, one of them of another user, and two timestamps, so that some
\* share theirs; pages of one and of two rows.
SPECIFICATION Spec
CONSTANTS
  Ids = {1, 2, 3, 4}
  Others = {2}
  MaxTime = 2
  Limits = {0, 1, 5}
  DefaultLimit = 1
  MaxLimit = 2
  NoCursor = NoCursor
INVARIANTS
  PagesDescend
  NothingSkipped
  CursorLeadsOn
