SPECIFICATION FairSpec
CONSTANTS
  x1 = x1  x2 = x2  u1 = u1  r1 = r1  r2 = r2  k1 = k1  k2 = k2
  Stopper = {x1}
  Submitter = {u1}
  Resumer = {r1, r2}
  Key = {k1}
  MaxHandle = 2
  MaxCrash = 1
  MaxClose = 1
  DrainsTimeOut = FALSE
  LateRefusals = TRUE
  Modes = {"producing", "open"}
INVARIANTS TypeOK EndedRunsEnd  CloseReachesTheAttached
PROPERTIES KeepsItsPromise OldEndsStayOld EndIsCarriedThrough
\* The session, its run and the server may all have come to rest.
CHECK_DEADLOCK FALSE
