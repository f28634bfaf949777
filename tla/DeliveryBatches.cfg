\* One machine with three events of one session in batches of at most two,
\* and any one failure.
CONSTANTS
  a = a
  b = b
  s = s
  Event = {1, 2, 3}
  Client = {a}
  Owner <- OneMachine
  CreatedAt <- Seconds
  Parts <- EventParts
  Started <- Starts
  Session = {s}
  SessionOf <- Sessions
  Unseen = 9
  Cutoff = {0, 3}
  Limit = 2
  MaxFaults = 1
SPECIFICATION DeliveryFairSpec
PROPERTIES
  EventuallyRecorded
\* Everything is delivered and no failure is left.
CHECK_DEADLOCK FALSE
