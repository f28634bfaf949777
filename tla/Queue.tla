------------------------------- MODULE Queue -------------------------------
(***************************************************************************)
(* The usage queue of internal/queue/queue.go: a bounded channel that      *)
(* request handlers fill with Enqueue and that one writer goroutine drains *)
(* in batches, and the Close that asks the writer to drain and exit.       *)
(*                                                                         *)
(* Concurrency: any number of Enqueue calls, the writer goroutine and one  *)
(* Close call interleave at every channel operation, and events keep       *)
(* arriving while InsertBatch runs.  Go's select picks any ready case, so  *)
(* every ready case is an enabled action.  Failures: a full channel, a     *)
(* timer that fires first, a batch write that fails, a drain that exceeds  *)
(* its timeout.                                                            *)
(***************************************************************************)
EXTENDS Naturals, Sequences

CONSTANTS Event,      \* usage events; each is the argument of one Enqueue call
          Capacity,   \* Config.Capacity, the size of the channel
          BatchSize   \* Config.BatchSize, the flush threshold of the writer

ASSUME QueueAssumption ==
  /\ Capacity \in Nat \ {0}
  /\ BatchSize \in Nat \ {0}

VARIABLES
  call,      \* call[e]: where the Enqueue call for e is
  events,    \* the buffered channel
  batch,     \* the writer's local batch
  writer,    \* where the writer goroutine is
  closer,    \* where the Close call is; its closing channel is closed unless "open"
  dropped,   \* the dropped counter
  accepted,  \* history: events sent on the channel, in order
  handed,    \* history: events given to finished InsertBatch calls, in order
  stored,    \* events the Writer committed
  failed,    \* events of a batch whose InsertBatch returned an error
  atClose    \* history: how many events had been accepted when Close was called

callVars   == <<call, dropped>>
writerVars == <<batch, writer, handed, stored, failed>>
closeVars  == <<closer, atClose>>
queueVars  == <<callVars, events, accepted, writerVars, closeVars>>

\* outside: not called yet; waiting: in the second select, with the timer
CallState   == {"outside", "waiting", "sent", "dropped"}
\* flush, lastFlush: inside InsertBatch, called from the loop or before exiting
WriterState == {"select", "flush", "drain", "lastFlush", "done"}
CloserState == {"open", "waiting", "closed", "timedOut"}

Elements(s) == {s[i] : i \in DOMAIN s}

\* Where an event can be once it has been sent.
Place == {"channel", "batch", "store", "failed"}
InPlace(e, p) ==
  \/ p = "channel" /\ e \in Elements(events)
  \/ p = "batch"   /\ e \in Elements(batch)
  \/ p = "store"   /\ e \in stored
  \/ p = "failed"  /\ e \in failed

-----------------------------------------------------------------------------
\* New and Start: empty channel, empty batch, the writer at its select.
QueueInit ==
  /\ call = [e \in Event |-> "outside"]
  /\ events = <<>>
  /\ batch = <<>>
  /\ writer = "select"
  /\ closer = "open"
  /\ dropped = 0
  /\ accepted = <<>>
  /\ handed = <<>>
  /\ stored = {}
  /\ failed = {}
  /\ atClose = 0

-----------------------------------------------------------------------------
(* Enqueue: a non-blocking send, else wait for room or for the timer.      *)

Send(e) ==
  /\ Len(events) < Capacity
  /\ events' = Append(events, e)
  /\ accepted' = Append(accepted, e)
  /\ call' = [call EXCEPT ![e] = "sent"]
  /\ UNCHANGED <<dropped, writerVars, closeVars>>

EnqueueNow(e) == call[e] = "outside" /\ Send(e)

EnqueueWait(e) ==
  /\ call[e] = "outside"
  /\ Len(events) = Capacity
  /\ call' = [call EXCEPT ![e] = "waiting"]
  /\ UNCHANGED <<dropped, events, accepted, writerVars, closeVars>>

EnqueueLate(e) == call[e] = "waiting" /\ Send(e)

\* Mutations of EnqueueTimeout: a caller with no timer; a counter that counts down.
EnqueueNoTimer(e) == FALSE /\ UNCHANGED queueVars

EnqueueCountsDown(e) ==
  /\ call[e] = "waiting"
  /\ call' = [call EXCEPT ![e] = "dropped"]
  /\ dropped' = dropped - 1
  /\ UNCHANGED <<events, accepted, writerVars, closeVars>>

EnqueueTimeout(e) ==
  /\ call[e] = "waiting"
  /\ call' = [call EXCEPT ![e] = "dropped"]
  /\ dropped' = dropped + 1
  /\ UNCHANGED <<events, accepted, writerVars, closeVars>>

Enqueue(e) ==
  EnqueueNow(e) \/ EnqueueWait(e) \/ EnqueueLate(e) \/ EnqueueTimeout(e)

-----------------------------------------------------------------------------
(* run: the writer's select loop, its flush and its final drain.           *)

TakeEvent ==
  /\ events # <<>>
  /\ batch' = Append(batch, Head(events))
  /\ events' = Tail(events)
  /\ UNCHANGED <<callVars, accepted, handed, stored, failed, closeVars>>

Receive ==
  /\ writer = "select"
  /\ TakeEvent
  /\ writer' = IF Len(batch) + 1 >= BatchSize THEN "flush" ELSE "select"

\* Mutant of Tick: a partial batch waits for more events.
TickOnlyFull ==
  /\ writer = "select"
  /\ Len(batch) >= BatchSize
  /\ writer' = "flush"
  /\ UNCHANGED <<callVars, events, accepted, batch, handed, stored, failed,
                 closeVars>>

\* The ticker; a tick on an empty batch changes nothing.
Tick ==
  /\ writer = "select"
  /\ batch # <<>>
  /\ writer' = "flush"
  /\ UNCHANGED <<callVars, events, accepted, batch, handed, stored, failed,
                 closeVars>>

\* Mutant of SeeClosing: the writer flushes its batch and exits without draining.
CloseWithoutDrain ==
  /\ writer = "select"
  /\ closer # "open"
  /\ writer' = IF batch = <<>> THEN "done" ELSE "lastFlush"
  /\ UNCHANGED <<callVars, events, accepted, batch, handed, stored, failed,
                 closeVars>>

SeeClosing ==
  /\ writer = "select"
  /\ closer # "open"
  /\ writer' = "drain"
  /\ UNCHANGED <<callVars, events, accepted, batch, handed, stored, failed,
                 closeVars>>

DrainOne ==
  /\ writer = "drain"
  /\ TakeEvent
  /\ UNCHANGED writer

\* Mutant of DrainEnd: back to the loop instead of returning.
DrainEndContinues ==
  /\ writer = "drain"
  /\ events = <<>>
  /\ writer' = IF batch = <<>> THEN "select" ELSE "flush"
  /\ UNCHANGED <<callVars, events, accepted, batch, handed, stored, failed,
                 closeVars>>

\* The default case of the drain's select, then flush, which skips an empty batch.
DrainEnd ==
  /\ writer = "drain"
  /\ events = <<>>
  /\ writer' = IF batch = <<>> THEN "done" ELSE "lastFlush"
  /\ UNCHANGED <<callVars, events, accepted, batch, handed, stored, failed,
                 closeVars>>

\* Mutant of FlushReturn: the batch is not reset after a final flush's write.
FlushKeepsBatch ==
  /\ writer \in {"flush", "lastFlush"}
  /\ handed' = handed \o batch
  /\ batch' = IF Len(batch) < BatchSize THEN batch ELSE <<>>
  /\ writer' = IF writer = "flush" THEN "select" ELSE "done"
  /\ UNCHANGED <<callVars, events, accepted, closeVars>>

\* InsertBatch returned; the batch is reset whether or not it was written.
FlushReturn ==
  /\ writer \in {"flush", "lastFlush"}
  /\ handed' = handed \o batch
  /\ batch' = <<>>
  /\ writer' = IF writer = "flush" THEN "select" ELSE "done"
  /\ UNCHANGED <<callVars, events, accepted, closeVars>>

FlushOK ==
  /\ FlushReturn
  /\ stored' = stored \cup Elements(batch)
  /\ UNCHANGED failed

\* Mutant of FlushError: the failure is neither logged nor recorded.
FlushErrorSilent == FlushReturn /\ UNCHANGED <<stored, failed>>

FlushError ==
  /\ FlushReturn
  /\ failed' = failed \cup Elements(batch)
  /\ UNCHANGED stored

Writer ==
  \/ Receive \/ Tick \/ SeeClosing \/ DrainOne \/ DrainEnd
  \/ FlushOK \/ FlushError

-----------------------------------------------------------------------------
(* Close: close(closing), then wait for done or for the timeout.           *)

CloseCall ==
  /\ closer = "open"
  /\ closer' = "waiting"
  /\ atClose' = Len(accepted)
  /\ UNCHANGED <<callVars, events, accepted, writerVars>>

\* Mutant of CloseReturn: the writer is told to close and not waited for.
CloseReturnAtOnce ==
  /\ closer = "waiting"
  /\ closer' = "closed"
  /\ UNCHANGED <<callVars, events, accepted, writerVars, atClose>>

CloseReturn ==
  /\ closer = "waiting"
  /\ closer' = "closed"
  /\ writer = "done"
  /\ UNCHANGED <<callVars, events, accepted, writerVars, atClose>>

CloseTimeout ==
  /\ closer = "waiting"
  /\ closer' = "timedOut"
  /\ UNCHANGED <<callVars, events, accepted, writerVars, atClose>>

Close == CloseCall \/ CloseReturn \/ CloseTimeout

-----------------------------------------------------------------------------
QueueNext == (\E e \in Event : Enqueue(e)) \/ Writer \/ Close

QueueSpec == QueueInit /\ [][QueueNext]_queueVars

(* Fairness.  The Go scheduler runs every goroutine that can run, timers   *)
(* fire, and the Writer's transactions end: an Enqueue call that waits     *)
(* returns, the writer takes its next step, and Close returns.  Nobody is  *)
(* obliged to call Enqueue or Close.                                       *)
QueueFairness ==
  /\ \A e \in Event : WF_queueVars(EnqueueLate(e) \/ EnqueueTimeout(e))
  /\ WF_queueVars(Writer)
  /\ WF_queueVars(CloseReturn \/ CloseTimeout)

QueueFairSpec == QueueSpec /\ QueueFairness

-----------------------------------------------------------------------------
\* Types of the channel, the batch, the histories and the control states.
QueueTypeOK ==
  /\ call \in [Event -> CallState]
  /\ events \in Seq(Event)
  /\ batch \in Seq(Event)
  /\ writer \in WriterState
  /\ closer \in CloserState
  /\ dropped \in Nat
  /\ accepted \in Seq(Event)
  /\ handed \in Seq(Event)
  /\ stored \in SUBSET Event
  /\ failed \in SUBSET Event
  /\ atClose \in Nat

(* What the channel accepted is, in the same order, what was handed to     *)
(* InsertBatch, then what the writer holds, then what is buffered: the     *)
(* pipeline neither loses, duplicates nor reorders an event, whatever      *)
(* flush trigger, drain or failed write comes between.                     *)
PipelineInOrder == accepted = handed \o batch \o events

(* Every event whose Enqueue call returned by sending has exactly one     *)
(* fate at any time: buffered, in the writer's batch, committed, or in a   *)
(* batch whose failed write was logged.                                    *)
ExactlyOneFate ==
  \A e \in Event :
    /\ call[e] = "sent" <=> \E p \in Place : InPlace(e, p)
    /\ \A p, q \in Place : InPlace(e, p) /\ InPlace(e, q) => p = q

(* drainRemaining's promise: once the writer has exited, every event that  *)
(* was in the channel when Close was called has been given to InsertBatch. *)
CloseDrainsBuffered ==
  writer = "done" => /\ closer # "open"
                     /\ Len(handed) >= atClose

(* The channel respects its capacity, and a batch written from the loop    *)
(* never exceeds BatchSize (the batch written after a drain may).          *)
Bounded ==
  /\ Len(events) <= Capacity
  /\ writer = "select" => Len(batch) < BatchSize
  /\ writer = "flush" => Len(batch) <= BatchSize

(* A caller of Enqueue is never blocked for good, even when the writer has *)
(* exited and the channel is full.                                         *)
EnqueueReturns ==
  \A e \in Event : call[e] = "waiting" ~> call[e] \in {"sent", "dropped"}

(* An event accepted while the queue is open is handed to InsertBatch      *)
(* even if no further event ever fills its batch, and even if Close comes  *)
(* before the next tick.                                                   *)
AcceptedIsHanded ==
  \A e \in Event :
    (closer = "open" /\ e \in Elements(accepted)) ~> e \in Elements(handed)

(* Close always returns, and a writer told to close exits.                 *)
CloseCompletes ==
  /\ (closer = "waiting") ~> (closer \in {"closed", "timedOut"})
  /\ (closer # "open") ~> (writer = "done")
=============================================================================
