\* A response of up to three chunks, of which a JSON capture keeps two, with
\* every kind, encoding and place of the terminal event.
CONSTANTS
  Chunks = 3
  Limit = 2
SPECIFICATION ProxyFairSpec
INVARIANTS
  ProxyTypeOK
  RowSeesWhatClientGot
  CompletedIsRecorded
  RowsAreEarned
PROPERTIES
  RequestEnds
\* The request is over.
CHECK_DEADLOCK FALSE
