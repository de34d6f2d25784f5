CONSTANTS
  None = None
  first = first
  second = second
  Generation = {first, second}
  MaxArchives = 2
  MaxWrites = 1
  MaxRelease = 3
  MaxTroubles = 1
SPECIFICATION MCSpec
INVARIANT
  BackupsAreTrue
PROPERTIES
  SelectionKeepsTheData
  VolumesAreKept
CHECK_DEADLOCK FALSE
