\* A web call among the tool calls of an Anthropic stream.
CONSTANTS
  lf = lf
  cr = cr
  LF <- lf
  CR <- cr
  Token <- MCToken
  Wires <- MCWires
  Exchanges <- MCExchanges
  Limit = 9
  MaxChunk = 3
SPECIFICATION StreamsSpec
INVARIANT WebIsNotTool
CHECK_DEADLOCK FALSE
