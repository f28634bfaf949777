------------------------------- MODULE Serve -------------------------------
(***************************************************************************)
(* The serve daemon of internal/serve/serve.go around the usage queue:     *)
(* the HTTP server whose handlers call Enqueue, and the shutdown sequence  *)
(* (http.Server.Shutdown, then the deferred Queue.Close, Forwarder.Stop    *)
(* and store Close, then exit).                                            *)
(*                                                                         *)
(* Every step of this module is a step of Queue or leaves Queue's          *)
(* variables alone.  Failures: a listener that fails, a shutdown that      *)
(* times out with handlers still running (Shutdown does not stop them), a  *)
(* drain that times out, a writer that finds its store closed.  Not        *)
(* covered: a killed process, which loses whatever the queue holds.        *)
(***************************************************************************)
EXTENDS Queue

VARIABLES
  handler,   \* handler[e]: the HTTP handler of the request that e records
  proc,      \* how far Run has got
  shutdown,  \* how runHTTPServer ended
  storeOpen  \* whether the queue's Writer (outbox or store) is still open

serveVars == <<queueVars, handler, proc, shutdown, storeOpen>>

HandlerState == {"none", "serving", "finished"}
ProcState == {"serving", "shutdown", "closeQueue", "stopForwarder",
              "closeStore", "return", "exited"}
\* pending: runHTTPServer has not returned; else how it returned
ShutdownState == {"pending", "ok", "timedOut", "listenFailed"}

-----------------------------------------------------------------------------
ServeInit ==
  /\ QueueInit
  /\ handler = [e \in Event |-> "none"]
  /\ proc = "serving"
  /\ shutdown = "pending"
  /\ storeOpen = TRUE

-----------------------------------------------------------------------------
(* Request handlers.  A connection accepted before the listener closed may *)
(* still bring a request, unless Shutdown returned with no connection left. *)

StartRequest(e) ==
  /\ handler[e] = "none"
  /\ proc # "exited"
  /\ shutdown # "ok"
  /\ handler' = [handler EXCEPT ![e] = "serving"]
  /\ UNCHANGED <<queueVars, proc, shutdown, storeOpen>>

\* Enqueue is the last thing a handler does, on the handler's goroutine.
HandlerEnqueue(e) ==
  /\ handler[e] = "serving"
  /\ proc # "exited"
  /\ Enqueue(e)
  /\ UNCHANGED <<handler, proc, shutdown, storeOpen>>

\* The handler returns, after its Enqueue or without an event to record.
FinishRequest(e) ==
  /\ handler[e] = "serving"
  /\ proc # "exited"
  /\ call[e] # "waiting"
  /\ handler' = [handler EXCEPT ![e] = "finished"]
  /\ UNCHANGED <<queueVars, proc, shutdown, storeOpen>>

-----------------------------------------------------------------------------
(* The writer goroutine runs until the process exits; once the store is    *)
(* closed its writes fail.                                                 *)
WriterStep ==
  /\ proc # "exited"
  /\ \/ Receive \/ Tick \/ SeeClosing \/ DrainOne \/ DrainEnd \/ FlushError
     \/ storeOpen /\ FlushOK
  /\ UNCHANGED <<handler, proc, shutdown, storeOpen>>

-----------------------------------------------------------------------------
(* runHTTPServer.                                                          *)

ListenFails ==
  /\ proc = "serving"
  /\ proc' = "closeQueue"
  /\ shutdown' = "listenFailed"
  /\ UNCHANGED <<queueVars, handler, storeOpen>>

\* ctx.Done: the signal arrived.
Signal ==
  /\ proc = "serving"
  /\ proc' = "shutdown"
  /\ UNCHANGED <<queueVars, handler, shutdown, storeOpen>>

\* Mutant of ShutdownOK: the server is closed without waiting for its handlers.
ShutdownAbrupt ==
  /\ proc = "shutdown"
  /\ proc' = "closeQueue"
  /\ shutdown' = "ok"
  /\ UNCHANGED <<queueVars, handler, storeOpen>>

\* Shutdown returns nil once no handler is left.
ShutdownOK ==
  /\ proc = "shutdown"
  /\ \A e \in Event : handler[e] # "serving"
  /\ proc' = "closeQueue"
  /\ shutdown' = "ok"
  /\ UNCHANGED <<queueVars, handler, storeOpen>>

\* Mutant of ShutdownTimeout: a shutdown with no deadline.
ShutdownNoDeadline == FALSE /\ UNCHANGED serveVars

\* shutdownCtx expires; the handlers go on.
ShutdownTimeout ==
  /\ proc = "shutdown"
  /\ proc' = "closeQueue"
  /\ shutdown' = "timedOut"
  /\ UNCHANGED <<queueVars, handler, storeOpen>>

-----------------------------------------------------------------------------
(* The deferred calls of Run, in the reverse order of their defers.        *)

CloseQueue ==
  /\ proc = "closeQueue"
  /\ CloseCall
  /\ UNCHANGED <<handler, proc, shutdown, storeOpen>>

QueueClosed ==
  /\ proc = "closeQueue"
  /\ CloseReturn \/ CloseTimeout
  /\ proc' = "stopForwarder"
  /\ UNCHANGED <<handler, shutdown, storeOpen>>

\* Forwarder.Stop (distributed mode) reads the outbox no more; nothing here changes.
StopForwarder ==
  /\ proc = "stopForwarder"
  /\ proc' = "closeStore"
  /\ UNCHANGED <<queueVars, handler, shutdown, storeOpen>>

\* Mutant of CloseStore: the store's defer runs before the queue's.
CloseStoreEarly ==
  /\ proc \in {"closeQueue", "closeStore"}
  /\ storeOpen
  /\ proc' = IF proc = "closeStore" THEN "return" ELSE proc
  /\ storeOpen' = FALSE
  /\ UNCHANGED <<queueVars, handler, shutdown>>

CloseStore ==
  /\ proc = "closeStore"
  /\ proc' = "return"
  /\ storeOpen' = FALSE
  /\ UNCHANGED <<queueVars, handler, shutdown>>

\* Run returns and the process ends with every goroutine in it.
Exit ==
  /\ proc = "return"
  /\ proc' = "exited"
  /\ UNCHANGED <<queueVars, handler, shutdown, storeOpen>>

Teardown ==
  \/ ShutdownOK \/ ShutdownTimeout
  \/ CloseQueue \/ QueueClosed \/ StopForwarder \/ CloseStore \/ Exit

-----------------------------------------------------------------------------
ServeNext ==
  \/ \E e \in Event : StartRequest(e) \/ HandlerEnqueue(e) \/ FinishRequest(e)
  \/ WriterStep
  \/ ListenFails \/ Signal \/ Teardown

ServeSpec == ServeInit /\ [][ServeNext]_serveVars

(* Fairness: the writer goroutine runs, an Enqueue call returns, and the   *)
(* goroutine of Run goes on once it has been signalled, because each of    *)
(* its waits has a deadline (ShutdownTimeout, QueueDrainTimeout) or ends   *)
(* with the network operation that Stop cancels.  A handler may never      *)
(* finish: an upstream stream has no deadline.                             *)
ServeFairness ==
  /\ WF_serveVars(WriterStep)
  /\ WF_serveVars(Teardown)
  /\ \A e \in Event : WF_serveVars(HandlerEnqueue(e) /\ call[e] = "waiting")

ServeFairSpec == ServeSpec /\ ServeFairness

-----------------------------------------------------------------------------
\* Types of the variables this module adds to Queue's.
ServeTypeOK ==
  /\ handler \in [Event -> HandlerState]
  /\ proc \in ProcState
  /\ shutdown \in ShutdownState
  /\ storeOpen \in BOOLEAN

\* Enqueue was called for e and e is in no store, no logged failure, no drop count.
Unaccounted(e) == /\ call[e] \in {"waiting", "sent"}
                  /\ e \notin stored \cup failed

(* When the process ends after a shutdown that let its handlers finish and *)
(* a Close that returned nil, every event given to Enqueue was committed,  *)
(* or its failed write was logged, or it was counted as dropped.           *)
OrderlyExitLosesNothing ==
  (proc = "exited" /\ shutdown = "ok" /\ closer = "closed")
    => \A e \in Event : ~Unaccounted(e)

(* However the server ended, in a shutdown that timed out over running     *)
(* handlers or in a failed listener: an exit after a Close that returned   *)
(* nil loses none of the events accepted before Close was called, only     *)
(* those that a handler which outlived the server enqueues later.          *)
ExitLosesOnlyLatecomers ==
  (proc = "exited" /\ closer = "closed")
    => \A i \in 1..atClose : accepted[i] \in stored \cup failed

(* The outbox or store is closed under a running writer only when the      *)
(* drain timed out, the case that Run logs.                                *)
StoreOutlivesWriter ==
  [][storeOpen /\ ~storeOpen' => writer = "done" \/ closer = "timedOut"]_serveVars

(* A signalled or failed daemon exits, whatever its handlers do.           *)
ShutdownCompletes == (proc # "serving") ~> (proc = "exited")
=============================================================================
