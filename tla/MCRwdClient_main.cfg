\* Client thread, application thread, rwd restarts and hot-plug.
CONSTANTS
  p1 = p1  p2 = p2  p3 = p3  r1 = r1  r2 = r2  t1 = t1  t2 = t2  k1 = k1
  Procs = {p1, p2}
  Plain = {r1, r2}
  Trans = {t1}
  Duration = 2
  Buttons = {k1}
  MaxInstalls = 2
  MaxReports = 1
  NoProc = NoProc
SPECIFICATION Spec
CHECK_DEADLOCK FALSE
INVARIANT TypeOK
INVARIANT SingleRwd
PROPERTY FrameFlowRefined
PROPERTY TransitionCompletes
