SPECIFICATION Spec
CONSTANTS
  s1 = s1  s2 = s2  Nobody = Nobody
  Session = {s1}
  Kind = {"shell", "publish"}
  MaxProc = 2
  MaxCall = 1
  MaxRaised = 2
INVARIANTS ApprovedForThisCall
CHECK_DEADLOCK FALSE
