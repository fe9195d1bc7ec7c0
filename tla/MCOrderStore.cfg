\* Three callers contend for three orders, one of which never gets a row;
\* safety and liveness, so no symmetry.
SPECIFICATION FairSpec
CONSTANTS
  o1 = o1
  o2 = o2
  ghost = ghost
  s1 = s1
  s2 = s2
  s3 = s3
  Orders = {o1, o2, ghost}
  Ghosts = {ghost}
  Sessions = {s1, s2, s3}
  NoSession = NoSession
INVARIANTS
  TypeOK
  ExecutedOnce
  ReplySound
  OneWinner
PROPERTIES
  ImplementsLedger
  LockReleased
  CallReturns
