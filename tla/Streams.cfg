\* Every way to cut each exchange into chunks of one, two or three tokens.
CONSTANTS
  lf = lf
  cr = cr
  LF <- lf
  CR <- cr
  Token <- MCToken
  Wires <- MCWires
  Exchanges <- MCExchanges
  Limit = 9
  MaxChunk = 3
SPECIFICATION StreamsSpec
INVARIANTS
  BufferBounded
  FramesAsSent
  AgreesWithBody
PROPERTIES
  ImplementsContract
\* The response has ended.
CHECK_DEADLOCK FALSE
