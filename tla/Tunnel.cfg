CONSTANT
  Chunks = 3

SPECIFICATION Spec

INVARIANT DeliveredInOrder
PROPERTY TunnelEnds

\* A tunnel that has come to its end stops.
CHECK_DEADLOCK FALSE
