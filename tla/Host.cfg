CONSTANTS
  old = old
  new = new
  None = None
  Gen = {old, new}
  Grace = 2
  MaxMishaps = 2
  MaxCommands = 2
SPECIFICATION MCSpec
INVARIANT
  OneReleaseRuns
PROPERTIES
  HostKeepsItsWord
  ServicesComeBack
CHECK_DEADLOCK FALSE
