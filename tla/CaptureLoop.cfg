SPECIFICATION Spec
CONSTANTS
  Captures = {c1}
  Threads = {t1}
  Instances = {i1, i2}
  Outputs = {o0}
  Devices = {d1, d2}
  Desktops = {home, secure}
  Attachable = {home, secure}
  HomeDesktop = home
  Removable = {d1}
  NoInst = NoInst
  NoDev = NoDev
  NoCap = NoCap
  NoOut = NoOut
  Output0 = o0
  Thread = t1
  Client = c1
  Shapes <- MCShapes
  HotX <- MCHotX
  HotY <- MCHotY
  CursorW <- MCCursorW
  CursorH <- MCCursorH
  Opaque <- MCOpaque
  NoShape = "none"
  FrameW = 3
  FrameH = 2
  Places <- MCPlaces
INVARIANTS TypeOK ProbeStaysDead CursorTrue
PROPERTIES Resumes
CHECK_DEADLOCK FALSE
