\* Three requests in a channel of one, batches of two: a full channel, a
\* handler that outlives the shutdown, and every order of the exit steps.
CONSTANTS
  Event = {e1, e2, e3}
  Capacity = 1
  BatchSize = 2
SPECIFICATION ServeFairSpec
INVARIANTS
  OrderlyExitLosesNothing
  ExitLosesOnlyLatecomers
PROPERTIES
  StoreOutlivesWriter
  ShutdownCompletes
\* The process exits.
CHECK_DEADLOCK FALSE
