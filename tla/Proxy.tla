------------------------------- MODULE Proxy -------------------------------
(***************************************************************************)
(* One routed request of the proxy (internal/proxy, handleProxy), from the *)
(* call to the upstream to the row it leaves in the queue.  The handler    *)
(* relays the response chunk by chunk and mirrors each chunk that it wrote *)
(* to the client into a capture, through a gzip decoder that runs in a     *)
(* goroutine of its own when the response is compressed.  Around it run    *)
(* the upstream, which may break or fall silent; the client, which may     *)
(* hang up; the server's reader, which notices that some time later and    *)
(* cancels the request's context; and the idle timer, which cancels the    *)
(* upstream call.                                                          *)
(*                                                                         *)
(* Chunks are numbered: each place of the pipeline has seen a prefix of    *)
(* the response, and a variable holds the length of that prefix.           *)
(***************************************************************************)
EXTENDS Naturals

CONSTANTS Chunks,   \* how many chunks the upstream may send
          Limit     \* how many of them teeCapture keeps (maxCaptureBytes)

ASSUME ProxyAssumption == Chunks \in Nat /\ Limit \in Nat

Kind     == {"sse", "json", "error"}
Encoding == {"identity", "gzip", "other"}

VARIABLES
  kind,       \* an event stream, a 2xx body, or a body of another status
  encoding,   \* its Content-Encoding
  terminal,   \* the chunk with the terminal event; 0 if the parser gets none
  upstream,   \* the upstream's side of the connection
  sent,       \* chunks on the wire
  cancelled,  \* upstreamCtx is cancelled
  clientUp,   \* the client keeps its connection
  gone,       \* r.Context() is cancelled
  timer,      \* the idle timer
  pc,         \* where the handler is
  read,       \* chunks read from resp.Body
  received,   \* chunks written to the client
  cerr,       \* what ended the copy
  pipe,       \* the pipe to the decoder
  decoder,    \* where the decoder's goroutine is
  taken,      \* chunks the decoder has taken from the pipe
  fed,        \* chunks the capture has been given
  row,        \* the event passed to Enqueue
  idled,      \* history: the idle timer has fired
  garbled     \* history: the decoder gave up

response    == <<kind, encoding, terminal>>
world       == <<upstream, sent, clientUp, gone>>
relay       == <<read, received>>
decoderVars == <<pipe, decoder, taken, fed>>
history     == <<idled, garbled>>
vars        == <<response, world, cancelled, timer, pc, relay, cerr, decoderVars, row, history>>

Handler == {"do", "read", "write", "capture", "pipe", "rearm", "finish", "conclude", "returned"}
Row     == {"complete", "unparsed", "parse_error", "interrupted"}

ProxyInit ==
  /\ kind \in Kind
  /\ encoding \in Encoding
  /\ terminal \in 0..Chunks
  /\ upstream = "open"
  /\ sent = 0
  /\ cancelled = FALSE
  /\ clientUp = TRUE
  /\ gone = FALSE
  /\ timer = "off"
  /\ pc = "do"
  /\ read = 0
  /\ received = 0
  /\ cerr = "none"
  /\ pipe = "empty"
  /\ decoder = "header"
  /\ taken = 0
  /\ fed = 0
  /\ row = "none"
  /\ idled = FALSE
  /\ garbled = FALSE

-----------------------------------------------------------------------------
(* Upstream, client, server and timer.                                     *)

UpstreamSends ==
  /\ upstream = "open" /\ sent < Chunks
  /\ sent' = sent + 1
  /\ UNCHANGED <<response, upstream, clientUp, gone, cancelled, timer, pc, relay, cerr,
                 decoderVars, row, history>>

\* The response ends, in good order or not.
UpstreamStops ==
  /\ upstream = "open"
  /\ upstream' \in {"ended", "broken"}
  /\ UNCHANGED <<response, sent, clientUp, gone, cancelled, timer, pc, relay, cerr,
                 decoderVars, row, history>>

ClientHangsUp ==
  /\ clientUp
  /\ clientUp' = FALSE
  /\ UNCHANGED <<response, upstream, sent, gone, cancelled, timer, pc, relay, cerr,
                 decoderVars, row, history>>

\* net/http's reader sees the closed connection: r.Context() and its child end.
ServerNotices ==
  /\ ~clientUp /\ ~gone
  /\ gone' = TRUE
  /\ cancelled' = TRUE
  /\ UNCHANGED <<response, upstream, sent, clientUp, timer, pc, relay, cerr, decoderVars, row, history>>

\* idleWriteTimeout has passed since the timer was last armed.
TimerFires ==
  /\ timer = "armed"
  /\ timer' = "fired"
  /\ cancelled' = TRUE
  /\ idled' = TRUE
  /\ UNCHANGED <<response, world, pc, relay, cerr, decoderVars, row, garbled>>

-----------------------------------------------------------------------------
(* The handler.                                                            *)

\* client.Do fails: 502 and no row.
DoFails ==
  /\ pc = "do"
  /\ pc' = "returned"
  /\ UNCHANGED <<response, world, cancelled, timer, relay, cerr, decoderVars, row, history>>

\* The headers are here: they are passed on, and the idle timer starts.
DoAnswers ==
  /\ pc = "do" /\ ~cancelled
  /\ pc' = "read"
  /\ timer' = "armed"
  /\ UNCHANGED <<response, world, cancelled, relay, cerr, decoderVars, row, history>>

\* The copy is over; with the client's error, the upstream's, or none.
Copied(err) == pc' = "finish" /\ cerr' = err

\* So they are, but the first SetWriteDeadline finds the client's connection closed.
DeadlineFails ==
  /\ pc = "do" /\ ~cancelled /\ ~clientUp
  /\ timer' = "armed"
  /\ Copied("client")
  /\ UNCHANGED <<response, world, cancelled, relay, decoderVars, row, history>>

ReadChunk ==
  /\ pc = "read" /\ read < sent
  /\ read' = read + 1
  /\ pc' = "write"
  /\ UNCHANGED <<response, world, cancelled, timer, received, cerr, decoderVars, row, history>>

ReadEOF ==
  /\ pc = "read" /\ upstream = "ended" /\ read = sent
  /\ Copied("none")
  /\ UNCHANGED <<response, world, cancelled, timer, relay, decoderVars, row, history>>

\* A broken connection, or a cancelled call, whatever was still on the wire.
ReadError ==
  /\ pc = "read" /\ (upstream = "broken" \/ cancelled)
  /\ Copied("upstream")
  /\ UNCHANGED <<response, world, cancelled, timer, relay, decoderVars, row, history>>

\* A write to a connection that the client has closed may still succeed.
WriteOK ==
  /\ pc = "write"
  /\ received' = received + 1
  /\ pc' = "capture"
  /\ UNCHANGED <<response, world, cancelled, timer, read, cerr, decoderVars, row, history>>

\* Mutant of WriteFails: a chunk is captured before its write is checked.
WriteFailsLate ==
  /\ pc = "write"
  /\ Copied("client")
  /\ fed' = IF encoding = "identity" THEN fed + 1 ELSE fed
  /\ UNCHANGED <<response, world, cancelled, timer, relay, pipe, decoder, taken, row, history>>

\* The connection is closed, or the write deadline has passed.
WriteFails ==
  /\ pc = "write"
  /\ Copied("client")
  /\ UNCHANGED <<response, world, cancelled, timer, relay, decoderVars, row, history>>

\* capture.Write: parser, decoder's pipe or nothing.
Capture ==
  /\ pc = "capture"
  /\ \/ /\ encoding = "identity"
        /\ fed' = fed + 1
        /\ pc' = "rearm"
        /\ UNCHANGED <<pipe, decoder, taken>>
     \/ /\ encoding = "gzip"
        /\ pipe' = "full"
        /\ pc' = "pipe"
        /\ UNCHANGED <<decoder, taken, fed>>
     \/ /\ encoding = "other"
        /\ pc' = "rearm"
        /\ UNCHANGED decoderVars
  /\ UNCHANGED <<response, world, cancelled, timer, relay, cerr, row, history>>

\* io.PipeWriter.Write returns when the decoder has taken everything.
PipeTaken ==
  /\ pc = "pipe" /\ pipe = "empty"
  /\ pc' = "rearm"
  /\ UNCHANGED <<response, world, cancelled, timer, relay, cerr, decoderVars, row, history>>

\* onChunk: the timer starts anew, even after it has fired.
Rearm ==
  /\ pc = "rearm"
  /\ timer' = "armed"
  /\ pc' = "read"
  /\ UNCHANGED <<response, world, cancelled, relay, cerr, decoderVars, row, history>>

\* SetWriteDeadline on a connection that is no more.
RearmFails ==
  /\ pc = "rearm" /\ ~clientUp
  /\ Copied("client")
  /\ UNCHANGED <<response, world, cancelled, timer, relay, decoderVars, row, history>>

\* Mutant of FinishCapture: the pipe is closed and the goroutine left alone.
FinishAtOnce ==
  /\ pc = "finish"
  /\ pipe' = "closed"
  /\ pc' = "conclude"
  /\ UNCHANGED <<response, world, cancelled, timer, relay, cerr, decoder, taken, fed, row, history>>

\* finishCapture closes the pipe and waits until the goroutine has exited.
FinishCapture ==
  /\ pc = "finish"
  /\ pipe' = "closed"
  /\ pc' = IF encoding = "gzip" /\ decoder # "done" THEN "finish" ELSE "conclude"
  /\ UNCHANGED <<response, world, cancelled, timer, relay, cerr, decoder, taken, fed, row, history>>

\* Terminated and Result of the stream's parser.
Terminated == kind = "sse" /\ 0 < terminal /\ terminal =< fed

\* populateUsage parses what teeCapture kept: all of the response or too little.
WholeBody == fed = Chunks /\ fed =< Limit

\* Mutant of Abandoned: a failed read is taken for the upstream's fault.
AbandonedOnWrite == cerr = "client" /\ ~Terminated

\* Mutant of Abandoned: a client that is gone leaves nothing to record.
AbandonedWhenGone == cerr # "none" /\ (gone \/ cerr = "client")

\* The client hung up before the response was complete.
Abandoned == cerr # "none" /\ (gone \/ cerr = "client") /\ ~Terminated

\* What the parser makes of a response of which the copy reached the end.
Parsed ==
  IF encoding = "other" THEN "unparsed"
  ELSE IF Terminated \/ (kind = "json" /\ WholeBody) \/ kind = "error" THEN "complete"
  ELSE "parse_error"

Conclude ==
  /\ pc = "conclude"
  /\ pc' = "returned"
  /\ timer' = "off"
  /\ cancelled' = TRUE
  /\ row' = IF Abandoned THEN "none"
            ELSE IF cerr = "none" \/ Terminated THEN Parsed
            ELSE "interrupted"
  /\ UNCHANGED <<response, world, relay, cerr, decoderVars, history>>

Handle ==
  \/ DoFails \/ DoAnswers \/ DeadlineFails
  \/ ReadChunk \/ ReadEOF \/ ReadError
  \/ WriteOK \/ WriteFails
  \/ Capture \/ PipeTaken \/ Rearm \/ RearmFails
  \/ FinishCapture \/ Conclude

-----------------------------------------------------------------------------
(* The goroutine of decodingCapture.                                       *)

\* gzip.NewReader has the first bytes: a header, or none.
DecoderStarts ==
  /\ decoder = "header" /\ pipe = "full"
  /\ decoder' \in {"decode", "drain"}
  /\ garbled' = (decoder' = "drain")
  /\ UNCHANGED <<response, world, cancelled, timer, pc, relay, cerr, pipe, taken, fed, row,
                 idled>>

\* The decoder buffers a chunk, and decodes it while the handler goes on.
DecoderTakes ==
  /\ decoder = "decode" /\ pipe = "full" /\ taken = fed
  /\ taken' = taken + 1
  /\ pipe' = "empty"
  /\ UNCHANGED <<response, world, cancelled, timer, pc, relay, cerr, decoder, fed, row, history>>

DecoderFeeds ==
  /\ decoder = "decode" /\ fed < taken
  /\ fed' = fed + 1
  /\ UNCHANGED <<response, world, cancelled, timer, pc, relay, cerr, decoder, pipe, taken, row, history>>

\* The bytes are no gzip stream: nothing more reaches the capture.
DecoderGivesUp ==
  /\ decoder = "decode" /\ fed < taken
  /\ decoder' = "drain"
  /\ garbled' = TRUE
  /\ UNCHANGED <<response, world, cancelled, timer, pc, relay, cerr, pipe, taken, fed, row,
                 idled>>

\* Mutant of DecoderDrains: the goroutine leaves the pipe as it is.
DecoderStuck ==
  /\ decoder = "drain" /\ pipe = "closed"
  /\ UNCHANGED vars

\* io.Copy(io.Discard, pr).
DecoderDrains ==
  /\ decoder = "drain" /\ pipe = "full"
  /\ pipe' = "empty"
  /\ UNCHANGED <<response, world, cancelled, timer, pc, relay, cerr, decoder, taken, fed, row, history>>

\* The pipe is closed and what was taken from it is decoded.
DecoderEnds ==
  /\ pipe = "closed"
  /\ \/ decoder \in {"header", "drain"}
     \/ decoder = "decode" /\ taken = fed
  /\ decoder' = "done"
  /\ UNCHANGED <<response, world, cancelled, timer, pc, relay, cerr, pipe, taken, fed, row, history>>

Decode ==
  /\ encoding = "gzip"
  /\ \/ DecoderStarts \/ DecoderTakes \/ DecoderFeeds \/ DecoderGivesUp
     \/ DecoderDrains \/ DecoderEnds

-----------------------------------------------------------------------------
ProxyNext ==
  \/ UpstreamSends \/ UpstreamStops \/ ClientHangsUp \/ ServerNotices \/ TimerFires
  \/ Handle
  \/ Decode

ProxySpec == ProxyInit /\ [][ProxyNext]_vars

(* Fairness: the handler and the decoder run, reads that can return do and *)
(* so do writes (they have a deadline), client.Do returns (it has a        *)
(* timeout), and an armed timer fires.  Nothing is assumed of the upstream *)
(* and of the client.                                                      *)
ProxyFairness == WF_vars(Handle) /\ WF_vars(Decode) /\ WF_vars(TimerFires)

ProxyFairSpec == ProxySpec /\ ProxyFairness

-----------------------------------------------------------------------------
\* Types; each place of the pipeline has seen no more than the one before.
ProxyTypeOK ==
  /\ kind \in Kind /\ encoding \in Encoding /\ terminal \in 0..Chunks
  /\ upstream \in {"open", "ended", "broken"}
  /\ sent \in 0..Chunks
  /\ cancelled \in BOOLEAN /\ clientUp \in BOOLEAN /\ gone \in BOOLEAN
  /\ timer \in {"off", "armed", "fired"}
  /\ pc \in Handler
  /\ read \in 0..sent /\ received \in 0..read
  /\ cerr \in {"none", "client", "upstream"}
  /\ pipe \in {"empty", "full", "closed"}
  /\ decoder \in {"header", "decode", "drain", "done"}
  /\ taken \in 0..received /\ fed \in 0..received
  /\ row \in Row \cup {"none"}
  /\ idled \in BOOLEAN /\ garbled \in BOOLEAN

\* The capture can be fed what the client receives.
Readable == encoding # "other" /\ ~garbled

(* The row is made from exactly the chunks that were written to the        *)
(* client: when the parser is read, the decoder's goroutine has given it   *)
(* everything and gives it no more.                                        *)
RowSeesWhatClientGot ==
  pc \in {"conclude", "returned"} /\ Readable => fed = received

(* "The client disconnected, but only after the upstream delivered a       *)
(* terminal event -- the response is complete" (handleProxy): whoever      *)
(* hangs up, breaks or times out after the terminal event was passed on,   *)
(* the request is recorded with its full usage.                            *)
CompletedIsRecorded ==
  /\ pc = "returned" /\ kind = "sse" /\ Readable
  /\ 0 < terminal /\ terminal =< received
  => row = "complete"

(* A client that hangs up is never taken for a broken upstream, although   *)
(* it also breaks the upstream call: a row that says "interrupted" needs   *)
(* an upstream that broke or fell silent, any other row a response that    *)
(* ended or a terminal event.                                              *)
RowsAreEarned ==
  /\ row = "interrupted" => upstream = "broken" \/ idled
  /\ row \in Row \ {"interrupted"} => Terminated \/ (upstream = "ended" /\ received = sent)

(* Every request ends, and gives its goroutine and its connections back,   *)
(* whatever the bytes are that the decoder cannot read and however silent  *)
(* the upstream is.                                                        *)
RequestEnds == <>(pc = "returned")
=============================================================================
