\* Two machines that share a session, an event each, and any two failures,
\* the restart of the hub with a retention that deletes one event included.
CONSTANTS
  a = a
  b = b
  s = s
  Event = {1, 3}
  Client = {a, b}
  Owner <- TwoMachines
  CreatedAt <- Seconds
  Parts <- EventParts
  Started <- Starts
  Session = {s}
  SessionOf <- Sessions
  Unseen = 9
  Cutoff = {0, 3}
  Limit = 1
  MaxFaults = 2
SPECIFICATION DeliverySpec
INVARIANTS
  NothingLost
  SessionStartKept
  RecordedOnce
PROPERTIES
  ImplementsLedger
\* Everything is delivered and no failure is left.
CHECK_DEADLOCK FALSE
