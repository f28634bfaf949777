CONSTANTS
  Pool <- MCPool
  Limits = {1, 2}
  Windows <- SpringWindows
  MaxWindow = 4
  Clock <- Spring
  PicksLater = FALSE
  DayHours = 3

SPECIFICATION Spec

INVARIANTS
  ListingIsNewest
  PeakIsMaximum
  ActivityAddsUp
