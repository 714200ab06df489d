SPECIFICATION FairSpec
CONSTANTS
  MaxRelease = 3
  NewSeries = 2
  Deaf = {3}
  Sectors = 2
  MaxFaults = 2
INVARIANTS TypeOK PreviousImageKept ServedUiFits
PROPERTIES InstalledTogether DeafImageLeaves UiRepairable
