CONSTANTS
  t1 = t1
  t2 = t2
  Threads <- TwoThreads
  Operations = {"IMPL_ExtTextOutW", "IMPL_RemoveFontResourceExW", "ReloadConfig"}
  MaxCalls = 1
SPECIFICATION Spec
SYMMETRY Symmetry
INVARIANTS TypeOK NoCircularWait ManagerAlone FontsStay
PROPERTIES SettingsReady
