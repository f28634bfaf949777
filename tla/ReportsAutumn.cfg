CONSTANTS
  Pool <- MCPool
  Limits = {1, 2}
  Windows <- AutumnWindows
  MaxWindow = 4
  Clock <- Autumn
  PicksLater = FALSE
  DayHours = 3

SPECIFICATION Spec

INVARIANTS
  ActivityAddsUp
