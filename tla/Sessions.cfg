SPECIFICATION SessionSpec
CONSTANTS
  Scripts = {"record", "verify"}
  Layouts <- MCLayouts
  CopyMayFail = TRUE
  Helpers <- MCHelpers
  Monitors <- MCMonitors
INVARIANTS SessionTypeOK GenuineNeverLost RestoredExactly RunsLoadable CapturesItsDisplay
PROPERTIES DisplayGoes
