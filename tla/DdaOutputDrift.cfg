SPECIFICATION Spec
CONSTANTS
  c1 = c1 c2 = c2 t1 = t1 t2 = t2 t3 = t3 d1 = d1 d2 = d2 o1 = o1 o2 = o2
  home = home secure = secure i1 = i1 i2 = i2 i3 = i3
  NoInst = NoInst NoDev = NoDev NoCap = NoCap NoOut = NoOut
  Captures = {c1}
  Threads = {t1, t2}
  Instances = {i1, i2}
  Outputs = {o1, o2}
  Output0 = o1
  Devices = {d1}
  Desktops = {home, secure}
  Attachable = {home, secure}
  HomeDesktop = home
  Removable = {}
  OpenThread <- SoloOpen
  PollThread <- SoloPoll
  Target <- SoloTarget
  Dev <- SoloDev
  Enumerated <- SoloEnumAll
  Api <- SoloV5
  HasOutput5 = TRUE
  HoldAcross = FALSE
INVARIANT SameOutput
