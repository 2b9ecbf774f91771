\* A renderer swap racing the end of a Transition.
CONSTANTS
  p1 = p1  p2 = p2  p3 = p3  r1 = r1  r2 = r2  t1 = t1  t2 = t2  k1 = k1
  Procs = {p1, p2, p3}
  Plain = {r1, r2}
  Trans = {t1, t2}
  Duration = 2
  Buttons = {k1}
  MaxInstalls = 2
  MaxReports = 1
  NoProc = NoProc
SPECIFICATION Spec
CHECK_DEADLOCK FALSE
INVARIANT RendererKept
