SPECIFICATION Spec
CONSTANTS
  r1 = r1  r2 = r2  g1 = g1  g2 = g2  Nobody = Nobody
  Session = {r1, r2}
  Gesture = {g1, g2}
  To <- ToEveryone
  MayCrash = FALSE
INVARIANTS ReplaysAreTrue
CHECK_DEADLOCK FALSE
