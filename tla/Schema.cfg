CONSTANTS
  Kinds = {"local", "hub"}
  Ledgers <- MCLedgers
  Events <- MCEvents
  Children <- MCChildren
  Cutoffs = {0, 2}
  MaxRestarts = 3

SPECIFICATION Spec

INVARIANTS
  OpenIsComplete
  LedgerKept
  SessionsRegistered

PROPERTIES
  EventuallyOpens
