\* Channel of 2, batches of 2 and four events: the channel fills, a batch
\* fills, a partial batch is flushed by the ticker, callers time out, and
\* Close comes at every point.
CONSTANTS
  Event = {e1, e2, e3, e4}
  Capacity = 2
  BatchSize = 2
SPECIFICATION QueueFairSpec
INVARIANTS
  QueueTypeOK
  PipelineInOrder
  ExactlyOneFate
  CloseDrainsBuffered
PROPERTIES
  EnqueueReturns
  AcceptedIsHanded
  CloseCompletes
\* The program stops: no more requests and the writer has exited.
CHECK_DEADLOCK FALSE
