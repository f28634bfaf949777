# excursion-funnel in TLA+

excursion-funnel (`ef`) is a local proxy between coding agents and the OpenAI
and Anthropic APIs. It relays requests, reads the usage out of the responses,
and records one row per request in a DuckDB ledger; in distributed mode several
machines forward their rows to a shared hub. The relay must never be disturbed
by the accounting, and the accounting should neither lose nor invent rows. This
directory holds models of the parts where that is hard, the TLC configurations
that check them, and TLAPS proofs of the properties that matter most.

    tlc -workers 2 -config Delivery.cfg MCDelivery.tla
    tlapm DeliveryProofs.tla

`PROJECT.json` maps every definition to the lines it models, and lists runs,
mutations, hazards, findings and theorems.

## The system

| component | source (`src/internal/`) | state | operations | with whom |
|---|---|---|---|---|
| proxy request | `proxy/proxy.go` | one handler per request: copy position, capture, idle timer, decoder goroutine | `handleProxy`, `flushingCopy`, `decodingCapture` | client, upstream API; ends with `Enqueue` |
| tunnel | `proxy/proxy.go` | two connections, two copy goroutines | `handleWebConnect` | client, any target |
| parsers | `sse`, `anthropic`, `openai`, `usageparse` | partial frame, latched error, accumulated usage, tool calls, web requests | `Feed`, `Terminated`, `Result`, `PartialResult`, `ExtractCompleted` | called by the capture |
| usage queue | `queue/queue.go` | bounded channel, the writer's batch, dropped counter | `Enqueue`, `run`, `Close` | handlers in, `Writer.InsertBatch` out |
| daemon lifetime | `serve/serve.go` | HTTP server, order of deferred calls | `Run`, `runHTTPServer` | owns queue, store or outbox, forwarder |
| local outbox | `store/outbox.go` | SQLite table of spooled events | `InsertBatch`, `Pending`, `Acknowledge` | queue's writer in, forwarder out |
| forwarder | `forward/forward.go` | batch, backoff, attached remote store | `run`, `Stop` | outbox, login, hub database |
| login | `hubauth/hubauth.go` | hub: challenges, sessions, failures (in memory); client: one cached credential | `challenge`, `authenticate`, `ValidateSession`; `Credential`, `login` | forwarder, hub |
| hub and ledger | `hub/hub.go`, `store/store.go`, `store/columns.go`, `daemon/*` | staging tables, ledger tables, session registry | staged inserts, `MergeStaging`, `DeleteRequestsStartedBefore` | forwarders in, reports out |
| opening a ledger | `store/store.go`, `store/columns.go` | the file's tables, keys, columns, indexes, view | `Open`, `OpenHub`: key repair, upgrade, backfill, staging, validation | before anything else; files of earlier builds |
| reports | `report`, `usage`, `heatmap`, `reporting` | none | listings, KPIs, activity by hour or day | several scans of a ledger that changes meanwhile |
| commands | `ui`, `dashboard`, `setup`, `config`, `picker`, `cmd` | none | tables, dashboard, set-up | reports |

What is hard in it, and what makes each part correct:

* **Queue**: handlers, the writer and `Close` meet at `select`s that may choose
  any ready case. An event whose `Enqueue` succeeded must have exactly one fate,
  in order, and nobody may block for good.
* **Daemon**: three waits with deadlines (HTTP shutdown, queue drain, forwarder)
  in one chain of deferred calls; each may give up and leave what it waited for
  running. An orderly exit must account for every event.
* **Delivery**: at-least-once staging over a connection whose answers get lost,
  a concurrent merge, restarts of both sides. Nothing may be lost, nothing
  recorded twice, and everything must arrive in the end.
* **Login**: a request holds the hub's mutex four times, so that requests of
  several clients interleave inside it; a hub restart forgets what clients
  cached. A challenge opens one session, the rate limit has a bound, a client
  with an allowed key gets in.
* **Proxy**: client, upstream, idle timer, server and decoder can each end a
  request, and the handler decides from what it sees afterwards. The row must
  agree with what the client received and with who was at fault.

* **Parsers**: chunks cut frames anywhere, and events name the parts of a call
  in several ways and orders. What a stream is recorded as must be what the same
  response is recorded as whole, and a stream that breaks off must keep what was
  seen.
* **Tunnel**: either peer may end, break or fall silent while the other still
  sends. No byte may be lost or reordered, and neither copy left behind.
* **Opening**: files of several earlier builds, a process that may stop between
  any two statements. No row may be lost, and the next start must finish the work.
* **Reports**: they combine scans made at different times, count at the edges
  of intervals and walk days that are not 24 hours long.

## Modules

| module | models | extends |
|---|---|---|
| `Queue` | `queue.go`: `Enqueue`, writer, `Close` | |
| `Serve` | `serve.go` around the queue; every step that touches the queue is a step of `Queue` | `Queue` |
| `Delivery` | outboxes, forwarders, staging tables, merge, retention, restarts | |
| `Ledger` | abstract: what the hub promises its reports | |
| `HubAuth` | the hub's handlers and the clients' login, section by section | |
| `Proxy` | one routed request, with everything that can end it | |
| `Tunnel` | one CONNECT tunnel | |
| `Sse` | the splitter of server-sent events | |
| `Usage` | usage records, calls and web names that both providers share | |
| `Anthropic`, `OpenAI` | the accumulator and the whole-body reader of each provider, as pure operators | `Usage` |
| `Streams` | a response through splitter, parser and the end of the stream | `Sse`; instantiates both providers |
| `StreamContract` | abstract: what `usageparse.StreamParser` promises the proxy | |
| `Schema` | `Open` and `OpenHub` over files of earlier builds | |
| `Reports` | listings, peak concurrency, activity buckets | |
| `MCDelivery`, `MCHubAuth`, `MCStreams`, `MCSchema`, `MCReports` | data of the checked instances | |
| `DaemonProofs` (queue, daemon and proxied request), `TunnelProofs`, `DeliveryProofs`, `HubAuthProofs`, `StreamsProofs`, `AgreementProofs` (a stream and its body), `SchemaProofs`, `ReportsProofs` | theorems | `AgreementProofs` extends `StreamsProofs` |

Definitions with a comment that begins `Mutant` are not part of a
specification: each is a plausible bug, and the check of a property is repeated
with it in place to see the property fail.

### Queue

Events are model values; each is the argument of one `Enqueue` call. `call[e]`
is the program counter of that call (`EnqueueNow` is the non-blocking send,
`EnqueueWait` the fall-through to the second select, `EnqueueLate` and
`EnqueueTimeout` its two cases). `writer` is the writer's: at its select
(`Receive`, `Tick`, `SeeClosing`), inside `InsertBatch` (`FlushOK`,
`FlushError`; events keep arriving meanwhile), draining (`DrainOne`,
`DrainEnd`), done. `closer` is the state of the one `Close` call. Timers are
not timed: a timer may fire whenever it is armed.

### Serve

Handlers start, call `Enqueue`, and finish; `Signal` or `ListenFails` makes Run
go through the shutdown (`ShutdownOK` needs every handler finished,
`ShutdownTimeout` does not), `Queue.Close`, `Forwarder.Stop`, the close of the
store and the exit, in the order of the deferred calls. A writer that runs after
the store was closed can only fail its batch. A killed process is not covered: it loses
what the queue holds, by design (the queue is memory).

### Delivery and Ledger

Each forwarder is a loop with a program counter `step[c]`: read a batch, get a
credential, attach, one action per staging statement (requests, sessions,
tool_calls, web_requests), acknowledge. A row is a pair of table and event, and
the staging tables count copies because nothing stops a row from being staged
twice. `MergeBegin` takes the snapshot of the merge transaction and
`MergeCommit` applies all its statements: fold the requests, sessions and
children that the snapshot holds and delete exactly the staged rows it saw;
forwarders stage between the two. Faults, at most `MaxFaults` of them: a call
fails before or after the hub committed it (`CallFails`, `AnswerLost`), a login
expires, a merge rolls back, the client or the hub restarts. `HubStart` runs the
session backfill and the retention.

`Ledger` is what a report may rely on, without any of that: rows of offered
events appear, children never before their request unless it has expired; only retention
removes rows, request and children together; a session's first-seen time only
moves back, to the start of one of its events. `ImplementsLedger` maps
`offered` to the spooled events and `rows` to the rows the ledger holds.

### HubAuth

A login request passes through the handler's critical sections one action at a
time: `Permit` (rate limit), `Verify` (challenge read and deleted), `Mint`
(session stored) or `Failed`. The client holds its own mutex throughout
`Credential`, so that it is one process: ask for a challenge, post it with key
after key, keep the credential and use it. Time is what is left until an
instant: `Tick` takes one unit from every expiry. The hub announces an expiry
as an instant of its own clock (`hubauth.go:267`) and the client compares it with
its own (`time.Until`, `hubauth.go:406`): `Behind[c]` is by how much the client's
is behind, negative if it is ahead, and `Granted` converts the one into the
other. It does not change while the program runs, an assumption: a clock that is
stepped in between is not modelled. Because every reader in the
code compares the expiry with the time before it uses an entry, an expired entry that
the reaper has not removed cannot be told from one that it has, and `Tick`
removes it at once. A step that outlasts a tick, a lost answer, a request
delivered twice and a restart are faults. Requests that `Client` never sends
(other methods, malformed JSON) are left out, and ids are fresh by construction,
as 32 random bytes are.

### Proxy

Chunks are numbered and each place of the pipeline (upstream's wire, handler,
client, pipe, decoder, capture) has seen a prefix, held as its length. The
action names are those of the code's steps: `DoAnswers`, `ReadChunk`, `WriteOK`,
`Capture`, `Rearm`, `FinishCapture`, `Conclude`; `DeadlineFails` is the copy that
ends before its first read because the client's connection is closed. `terminal` is the chunk after
which the stream's parser reports `Terminated`, 0 if no chunk makes it.
`ServerNotices` is net/http cancelling the request's context some time after
`ClientHangsUp`; `TimerFires` cancels the upstream call only. `row` is what
`Enqueue` is called with: complete, unparsed (an encoding nobody decodes),
parse_error or interrupted. The requests that are turned away before the
upstream is called (404, 400) leave no row and are not modelled; nor are the
peeks into the request's body.

### Tunnel

Chunks are numbered again, and `position[s]` and `delivered[s]` are what the
copy from side `s` has read and written. The handler's program counter goes
through `Hijack`, `Dial`, `Establish`, `TearDown` (the first `<-copyDone` and the
two closes) and `Drain` (the second). `early` is what the server's reader held
when the connection was hijacked, which the copy must take from there. A peer
may finish (a FIN), break, or stop reading; a write to one that has stopped
waits, because no deadline is set. "Delivered" means written to the
connection: what the kernel does with it after the close is out of reach.

### Sse, Anthropic, OpenAI, Streams and StreamContract

A response is a sequence of tokens, its line ends among them (LF, or CR LF), so
that `Feed` can be given every way to cut it into chunks of up to `MaxChunk`
tokens. `Sse` holds the buffer, the frames it has split off and the latched
error. `Anthropic` and `OpenAI` are the handlers of the events, written as
functions from a parser record to a parser record, and `Completed`, which
reads a whole body. `Streams` puts the three together: an exchange is a body
and the events in which the provider streams it; the stream may break off
after any chunk; at the end `Result` is called, and `PartialResult` if it fails.
Texts of inputs are sequences of pieces, ids and names are strings from a
handful, and a JSON decoding error is an event of its own kind. What the
providers send is assumed to speak of the body (`Tells`: an event gives an item
the ids, the type and the name that the body gives it, and refers to it by an
id or by its place) and to tell its items apart (`WellNamed`); comments and
frames that are not JSON come anywhere, but nothing follows the event in which
OpenAI repeats the whole response. A complete exchange streams its body
(`StreamsBody`): the frames that hold an event hold those of `Events`, in their
order, in one of the ways of the provider. `WellFormed` says what a body is: its
blocks and items have their fields, a tool's id is not that of a web search, a
chat has no other output. TLC evaluates these assumptions for every exchange of
the run.

`StreamContract` is the interface's comments as a specification: facts are only
added, a terminal event is never taken back, `Result` fails exactly when there was
none. `ImplementsContract` maps the facts to what a partial result would hold.

### Schema

`db` is the committed file and `work` what the open transaction has made of
it; a rebuild of a table with its key is a transaction of six statements, all
others are committed one by one. `Script` is the list of the statements that
`Open` and `OpenHub` execute, in order, and each statement has one action, with
the guard that makes it a no-op on a file that already has what it adds. `Stop`
cuts the process off anywhere, at most `MaxRestarts` times; the daemon then
starts again. Once open, events are recorded as `InsertBatch` would. A table is
its key, columns, indexes, default and rows.

### Reports

The listing is a process of its own: `CandidateRequests` is a scan of the
newest requests, `JoinChildRows` one of their children, and rows arrive between
them; the window doubles until there are enough rows, there are no more
requests, or the maximum is reached. `PeakConcurrency` and `TokenActivity` are
pure, over the same growing ledger, and are compared with what they stand for:
the largest number of intervals that cover an instant, and the sum of the
range. `Clock` maps an instant to a day and an hour on the wall; days have three hours,
and one of them loses or repeats one. `Date` is Go's `time.Date`: a reading that
the clock skips becomes an instant next to the gap and one that it repeats either
of the two, as `PicksLater` says. `BeginningOfDay` is `Date` at hour 0, `NextDay`
(`AddDate`) is `Date` at the same hour of the next day, and `Midnight` is what
DuckDB's `date_trunc` makes of the day, its first instant. Clocks that change by
half an hour are not modelled.

## Runs

| run | instance | checks | result |
|---|---|---|---|
| `queue` | 4 events, channel 2, batches 2 | 4 invariants, 3 liveness | holds, 118,244 states |
| `serve` | 3 requests, channel 1, batches 2 | 2 invariants, 1 action property, 1 liveness | holds, 393,391 states |
| `delivery` | 2 machines, an event each of one session, 2 faults, retention | 3 invariants, refinement of `Ledger` | holds, 1.7 M states |
| `delivery_batches` | 1 machine, 3 events, batches 2, 1 fault | `EventuallyRecorded` | holds, 117,432 states |
| `hubauth` | 2 clients at one address, one with a bad key and a slow clock, 2 handlers, limits 2 and 3, 1 fault | 4 invariants, `AllowedClientLogsIn` | holds, 130,172 states |
| `proxy` | 3 chunks, capture of 2, every kind, encoding and terminal chunk | 4 invariants, `RequestEnds` | holds, 181,448 states |
| `tunnel` | 3 chunks each way | `DeliveredInOrder`, `TunnelEnds` | holds, 106,488 states |
| `streams` | exchanges of both providers, chunks of 1 to 3 tokens, limit 9 | 3 invariants, refinement of `StreamContract` | holds, 192,548 states |
| `streams_web` | one Anthropic response with a web search and a tool | `WebIsNotTool` | violated (finding) |
| `schema` | 12 files of earlier builds, local and hub, 3 stops, 2 events | 3 invariants, `EventuallyOpens` | holds, 13,816 states |
| `reports` | 6 requests, limits 1 and 2, the spring change of the clock | 3 invariants | holds, 591,240 states |
| `reports_autumn` | the same rows, the autumn change | `ActivityAddsUp` | violated (finding) |

What they show:

* `queue`: `PipelineInOrder` and `ExactlyOneFate` tie every accepted event to
  one place at any time; `CloseDrainsBuffered` says that an exiting writer
  has handed over all that was accepted before `Close`; the liveness properties
  say that no caller, no partial batch and no `Close` waits for ever.
* `serve`: when shutdown and drain were both clean no event is unaccounted for;
  after a shutdown that timed out over running handlers, or a listener that
  failed, an exit whose drain ended in time loses only what those handlers
  enqueue after `Close` was called; the store is closed under a running writer only after the drain
  timeout that Run logs; every exit completes, with handlers that never end.
* `delivery`, `delivery_batches`: the README's "Nothing gets lost or
  duplicated" as `NothingLost` and `RecordedOnce`, through lost answers and
  restarts; the session registry keeps the earliest start in spite of late
  batches and retention; after the last fault everything arrives.
* `hubauth`: the interleavings of the critical sections break neither the
  single use of a challenge nor the bound on failures (the limit plus one per
  concurrent handler, which is what the two-section check gives); a credential
  that the client would still use is one the hub honours, unless it restarted or
  the client's clock is behind the hub's by more than the margin; a client
  that the hub can bear (`Bearable`) logs in.
* `proxy`: the row is made from exactly what the client got, decoder or not; a
  response whose terminal event was delivered is always recorded as complete; a
  client that hangs up is never recorded as a broken upstream; the handler
  always returns.
* `tunnel`: each side is given a prefix of what the other sent, what was read
  ahead included, and all of it if its sender finished first; once a peer has
  finished or broken both copies end and the handler returns, unless a peer
  has stopped reading.
* `streams`: however a response is cut, its frames are those that were sent, or
  an error is latched after a prefix of them, and the buffer stays within its
  limit; a stream that ended well is recorded as the body would be; a parser
  never takes back what it has reported.
* `schema`: whatever file is opened and wherever earlier starts were cut off,
  an open ledger is complete, every request and child ever recorded and not
  expired is in it at every moment, every session is registered with its
  first sight, and a file without duplicate keys opens in the end.
* `reports`: a listing holds the newest rows of the ledger as of its scans, the
  peak is the real one, and the activity adds up to the tokens of its range,
  hour by hour and day by day, on a clock that skips an hour in the middle of a
  day. It would not on one that skips a midnight (see Findings).

### Bounds

Two batches' worth of events fill the channel, a batch and a partial batch, and
a fourth caller waits. In `serve` a channel of one makes a handler wait across
the shutdown. `Delivery` needs two events of one session with starts in the
opposite order of arrival, and a lost answer plus a restart (two faults) to see
duplicates and orphans; three events with `Limit` 2 give a batch that is not
the whole outbox, with two spooled in the same second. The hub's maximum of
challenges, 2, is reached by two clients, its failure limit of 3 is exceeded by
concurrent handlers and is the least that `Bearable` allows for one rejected key
twice in a window of two; a TTL of two ticks lets an entry age and expire, and a
clock that is behind by the whole margin is the worst that
`HonouredUntilRestart` allows. Three
chunks with a capture of two cover a terminal event in the first, middle, last
and no chunk, and a body that exceeds the limit. Three chunks in a tunnel give
one that the server read ahead, one in flight and one after. The limit of nine
tokens of the splitter is below two frames and above one, so that it is a chunk
that decides whether it latches. Three stops can cut off a start, its repair
and the start after; the files are those of the first build, a current one, one
a downgraded build wrote to, and each with keys or staging tables missing. Six
requests with a maximum window of four make a listing widen twice and give up
once, and include two that touch, two that begin together and one that never
completed. Faults are bounded because retries need a hub that in the end
answers; everything else in the models is finite by itself. Events, clients and
handlers could be symmetric only where their order does not matter (that of an
outbox does), and the checks with liveness use no symmetry.

### Fairness

* Queue and Serve: weak fairness of each goroutine that can run (Go schedules
  it), of the timers and of the deadlines in Run; none for callers, signals and
  upstream streams, so a handler may run for ever.
* Delivery: weak fairness of each forwarder's loop (its waits are timers, its
  calls return), of the merge ticker, and of starting a stopped hub again.
* HubAuth: weak fairness of handlers and clients; strong fairness of `Tick`,
  because time passes although logins keep the hub busy now and then.
* Proxy: weak fairness of the handler (`client.Do` has a response-header
  timeout, writes have a deadline), of the decoder and of an armed timer. The
  upstream and the client owe nothing. A timeout set to 0 is disabled
  (`-idle-timeout`, `-request-timeout`): an endlessly silent upstream then does
  hold the handler; those settings are not modelled.
* Tunnel: weak fairness of the handler and of each copy. The peers owe nothing;
  that is why `TunnelEnds` excepts a peer that has stopped reading.
* Schema: weak fairness of the statements of a start; systemd starts the daemon
  again, and the stops are bounded.
* Streams and Reports have no liveness property: `Feed` and the queries are
  calls that return.

## Findings

Two disagreements are checked by runs:

1. A test wants no tool calls of a stream with a search: "WebSearch must not be
   double-counted" (`anthropic/usage_test.go:266`). `syncToolCalls`
   (`anthropic/usage.go:339`) lists every block it has a slot for, so the search
   is recorded as a tool call too once a tool call follows it (`streams_web`).
2. `TokenActivity` "returns zero-filled token totals for every bucket in the
   selected interval" (`report.go:438`); on the day the clock is put back both
   repetitions of an hour show the sum of the two, and the strip's total counts
   them twice (`reports_autumn`). `HourlyTokens` keys by Unix time and does not.

Others were met while modelling; the models follow the code in them:

* `Config.BatchSize` "is the max number of events flushed in one Writer call"
  (`queue.go:249`); the batch after a drain is larger.
* `Close` "must be called only after the HTTP server has stopped accepting
  requests" (`queue.go:326`); a handler that outlives the shutdown deadline enqueues
  after it, and its event is lost uncounted when the writer is already done.
* `InsertBatch` "writes events idempotently in one transaction" (`store.go:690`);
  the remote path stages table by table, and a merge in between shows a
  request without its children.
* `EF_RETENTION_DAYS` deletes "data older than this many days" (README);
  children merged after the retention that deleted their request stay for ever.
* "Clients use an allowed Ed25519 SSH key" among those they find (README), but
  every rejected key counts as a failure of the address, and ten failures in a
  minute refuse it. A forwarder tries again after at most 30 seconds, so that a
  client with five or more unallowed keys in front of the allowed one can, after
  one failed login, keep itself and its address refused for ever; with four it
  cannot. `AllowedClientLogsIn` is therefore stated for clients that are
  `Bearable`, and a limit lower by one breaks it (`RefusedEarly`).
* A client whose clock is behind the hub's by more than 15 seconds may present
  credentials that the hub has forgotten; each costs a failed attempt and a new
  login. One whose clock is ahead by the whole lifetime of a credential, less
  those 15 seconds, logs in before every attach.
* Where a change of the clock skips a midnight (Cairo, Santiago), `time.Date` makes the
  missing midnight 01:00 of that day or 23:00 of the day before, and
  `AddDate(0, 0, 1)` (`report.go:482`) goes on at that hour: no later key meets
  `date_trunc`'s, and the remaining days of a heatmap read zero. With such a
  calendar in place of `Spring`, TLC finds `ActivityAddsUp` violated, whichever of
  the two instants is taken.
* "The upstream broke mid-response. Tokens were spent, so this still gets a row"
  (`proxy.go:403`); when the client hangs up between the failed read and the
  look at its context, no row is written.
* The limit of a frame (`sse/parser.go:17`) is held against the partial frame
  and the whole new chunk, so that short frames in one long chunk can exceed it.
* Read whole, an Anthropic body counts the result block of a web search as a
  request of its own; streamed, it has no name and is skipped.
* A table "that lost its primary key ... is rebuilt with its constraints on
  open" (`store.go:72`): not if it holds a key twice; the hub then fails to open,
  at every start.
* A listing stops at `maxRequestWindow` requests although older ones may have
  children.

## Proofs

TLAPS proves, for every value of the constants that meets the modules'
assumptions (capacities, batch sizes and the hub's limits at least 1, starts
earlier than `Unseen`, every event has a request row, natural numbers of chunks,
every client has a key, whatever its clock; files as earlier builds left them, with some of today's
columns and indexes and no others, a bound default on requests only, staging
tables without a key, and no rows in an absent table; frames that end where
their first blank line does, whose events speak of their body and, if the
exchange is complete, stream it, as described under `Streams`; a clock that covers every window):

* **The queue, in `DaemonProofs`** (any number of events): `QueueTypeCorrect`,
  `QueuePipelineInOrder`, `QueueExactlyOneFate`, `QueueBounded`,
  `QueueCloseDrainsBuffered`. `PipelineInOrder` says little about sets, and
  `ExactlyOneFate` is not inductive; the invariant `QueueIInv` adds that the
  accepted sequence has no repetition and contains exactly the events whose
  calls returned (`SentOnce`), that the handed events are those stored or
  failed, disjointly (`HandedOutcome`), and what the writer knows on its way out
  (`ExitInv`). Lemmas on concatenation split an injective sequence into parts
  without common elements.
* **The daemon, in `DaemonProofs`**: each step of the daemon is a step of the queue
  or stutters, as `Serve` is written (the lemma `ServeImplementsQueue`), so that the
  queue's theorems hold in the daemon; `OrderlyExitAccounts` from an invariant that puts waiting calls inside running
  handlers, the queue's close after the server's shutdown, and a channel that
  stays empty after a drain without handlers. `ServeStoreOutlivesWriter`: Run
  reaches the close of the store only through the queue's, which returned or
  timed out (`QueueBeforeStore`). `ServeExitLosesOnlyLatecomers`, which no
  assumption on the server's shutdown helps: a `Close` that returned nil met a
  writer that is done, and what was accepted before it is the beginning of what
  that writer handed over.
* **`DeliveryProofs`** (any number of machines, events, sessions, faults):
  `DeliveryTypeCorrect`, `DeliveryLosesNothing`, `DeliveryRecordsOnce`,
  `DeliveryKeepsSessionStarts`, `DeliveryImplementsLedger`. The invariant: the outbox holds spooled events of
  its owner, a batch is part of the outbox until acknowledged (`OutboxSound`);
  at each stage of the forwarder all rows of the earlier stages are secured
  (`Held`); no merge runs while the hub is down; every row that exists belongs
  to a spooled event (`RowsKnown`); a staged child's request is staged, recorded
  or expired, also in the merge's snapshot (`Parented`). What is secured stays
  secured: merges move it, retention expires it.
* **A proxied request, in `DaemonProofs`** (responses of any length, captures of any limit):
  `ProxyTypeCorrect`, `ProxyRowSeesWhatClientGot`, `ProxyCompletedIsRecorded`,
  `ProxyRowsAreEarned`. The invariant relates the positions along the copy
  (`Relayed`), accounts for the one chunk that may be in the pipe
  (`FedByDecoder`) and gives every failed read a cause (`Causes`).

* **`StreamsProofs`** (responses of any length, every chunking, any limit):
  `StreamsBufferBounded` and `StreamsBufferIsTheRest`, by `StreamsSplit`: every
  step of `Streams` is a step of the splitter or leaves it alone. The invariant
  says that the frames split off and the buffer, one after the other, are what
  was fed, up to the latched error. `StreamsFramesAsSent`: the frames split off
  are the first of those that were sent, and the buffer begins with the next
  (`AsSent`). The splitter looks for the earliest end of any delimiter, and CR LF
  CR LF holds no LF LF, so that what has to be excluded is a delimiter that ends
  inside the next frame (`PartOfFrame`) and one that ends early in its own
  (`WholeFrame`).

  `StreamsImplementContract` is the refinement of `StreamContract` by both
  parsers, for bodies with any number of blocks, items and calls, streamed in
  any number of events. That an id which has been reported is reported from then
  on does not follow from the code of one handler: the lists are rebuilt from
  the parser's calls at every event, and a call is renamed by later events. The
  invariants `AnInv` and `OnInv` say that every call is that of one item of the
  body, which it goes by whatever part of its identity has been seen, so that
  the item an event speaks of is found in its own call (`OnAt`, `OnSlot`) and a
  call that has a name keeps the id it is listed under (`OnChange`). The
  event that carries the response is different: it may leave web requests in the
  result that no call backs, which the next event of an item would drop. So
  only `OnSays` holds after it, which is enough because it is the last
  (`Heard`). The merges go through a list; their values are proved by induction
  over it (`OnCompletedCalls`, `WebMerged`, `ChatMerged`).
* **`AgreementProofs`** (complete responses with any number of blocks, items or
  calls, streamed in every way of `Events` and cut anywhere):
  `StreamsAgreesWithBody`. What is compared, the stream's account and that of the
  body, exists only at the end, so the inductive invariant `AgreesIInv` says where the
  parser stands before: `Standing` that it is, at every moment until the splitter
  latches, where the events of the frames handed over lead (`ParserAt`), and
  `Judged` that an outcome with a terminal event is no error. How many events a number of
  frames stands for is counted past comments and what is not JSON (`Heeded`).

  `ParserAt` is one description for each kind of stream. `AnAt` (messages),
  `OnStreamAt` (responses) and `ChAt` (chat completions) split the events into the
  groups of the blocks, items or calls (`FlatAt`): k groups are through, and j
  events of the next. Then the parser's calls are those of the first k places
  (`AnPlaced`, `OnPlaced`, `ChPlaced`) and, within a group, one more that has so much of its
  input (`AnDraft`, `OnDraft`). The lists in the result may lag behind the calls, because
  the code rebuilds a list only at some events; what holds is that nothing
  that has come since belongs on them (`AnToolsSynced`, `AnWebSynced`). The lists of
  the stream are selections from the parser's calls, those of the body from
  its blocks, by other tests; `SelectedPlaces` relates a selection of the one to the
  selection of the other. OpenAI's final response is merged into what the
  stream has left: every call in it is found in its own (`OnCompletedAll`), so that the
  merge adds none and loses none. Chat completions have no such end, and their usage
  comes in a chunk of its own, if at all.

  `AllHandedOver` joins this to the splitter: when all has been fed and no delimiter
  is left, no frame is missing, since `StreamsProofs` has the rest of the
  buffer as the beginning of the next frame.
* **`TunnelProofs`** (tunnels of any length): `TunnelDeliversInOrder`. What a copy
  has written is what it has read, but for the chunk in its hand (`Relayed`); and
  while nothing is closed a copy ends for a reason that lies with a peer
  (`EndsForCause`).
* **`HubAuthProofs`** (any number of clients, addresses and keys, finitely many
  handlers, any durations): `HubAuthTypeCorrect`, `ChallengesOpenOneSession`,
  `CredentialsAreHonoured`, `FailuresAreLimited`. A request that a client waits
  for is being served and is its own (`OwnRequest`); a challenge that opened a
  session or is about to is no longer in the hub's map (`Consuming`), without
  which a second handler could still find it; an answer on its way is backed by a
  session at least as long-lived (`Answers`), which is why a late answer is
  still honoured; what the client thinks is left is at most what the hub has left and
  what its clock is behind (`Kept`), and the margin pays for the difference. `RateLimited` is inductive with the types: a request that
  passes the check does so below the limit, and at most all handlers are past it.
* **`SchemaProofs`** (any files of earlier builds, any events, any number of
  interrupted starts): `SchemaKeepsTheLedger`, `SchemaRegistersSessions`. For the
  first, a rebuild changes the open transaction only, where the rows of its table
  are in the table, then also in its copy, then under the table's name again
  (`Rebuilt`); what is committed has them throughout. For the second, the first
  sighting of a session is in the registry or in a request that is still there,
  and a script validates nothing before it has backfilled the registry
  (`Registry`, `Registering`); that there is a first sighting is the
  well-foundedness of the naturals. `SchemaOpensComplete`: whatever a complete
  ledger shows, the file shows already or the script still has the statement
  that brings it (`Upgrading`). What a statement takes away again, as a rebuild
  does the indexes of its table, has its statement later in the script
  (`Orderly`), and the copy that a rebuild fills is as a new table would be
  (`Working`).
* **`ReportsProofs`** (any ledger, any window, any clock that covers it):
  `ReportsPeakIsMaximum`, `ReportsActivityAddsUp`, `ReportsListingIsNewest`. The
  running sum of the sweep is the number of intervals that cover the instant
  (`DeltasAddUp`, `ActiveCounts`), and its largest value is the largest number
  at any instant because only a start can raise it (`PeakCorrect`). The buckets
  of the strip cut the range into parts (`BucketsCover`), and sums over the parts
  add up to the sum over the range (`SumOfClasses`), on every `SteadyClock`: one
  that repeats no reading and skips no midnight and no day, whatever other hours it
  skips and whichever instant `Date` takes. On it `AddDate` leads from the first
  instant of a day to that of the next (`NextDayIs`), where `date_trunc` is too.
  The clock of `reports_autumn` is none, nor is one that skips a midnight. For the listing, the candidates are the newest
  requests as of their scan, and the rows joined to them those that had arrived
  by the second (`Found`, `ListingCorrect`).

The library's induction theorems take an operator as their parameter and cannot be
instantiated here. Where a proof needs induction over data, the set of the
numbers, or of the finite subsets, for which the statement holds is shown to
contain them all (`NatSetInduction`, `SetInduction`).

Only model-checked: all liveness, whose proofs are beyond the prover
(`EnqueueReturns`, `AcceptedIsHanded`, `CloseCompletes`, `ShutdownCompletes`,
`EventuallyRecorded`, `AllowedClientLogsIn`, `RequestEnds`, `TunnelEnds`,
`EventuallyOpens`). Every safety property that a passing run checks is
stated by a theorem.

## Plan

The order is by importance: first what keeps the accounting right end to end
(done), then what decides the content of a row, then what reads it.

| module | content | properties and theorems |
|---|---|---|
| `Queue`, `Serve` | done | proved, except liveness |
| `Ledger`, `Delivery` | done | proved, except liveness |
| `Proxy` | done | proved, except liveness |
| `HubAuth` | done | proved, except liveness |
| `Sse`, `Anthropic`, `OpenAI`, `Streams` | done | proved: splitter, frames, the refinement of `StreamContract` and the agreement of a stream with its body |
| `Tunnel` | done | proved, except liveness |
| `Schema` | done | proved, except liveness |
| `Reports` | done | proved, except on a clock that repeats an hour or skips a midnight |

An end-to-end specification above `Serve` and `Delivery` (a request that ended
well is in the ledger, dropped with a count, or still spooled) is the abstract
statement to aim at next.

## Not modelled

Dashboards and commands only print what reports return; of the reports, the
queries that are one SQL statement are left out, because a model would only
restate the statement. Set-up edits configuration files by text. Configuration
is read once. The picker, spinner and terminal lock concern display. Header
rewriting, URL joining, the extraction of a path or command from a tool's input,
JSON decoding and SQL text are data, and appear only through what they decide.
OpenAI chat responses with more than one choice, whose tool calls of the same
index the parser merges, are not in the exchanges, nor are Anthropic usage objects
that do not decode. SQLite, DuckDB, net/http and
crypto are taken at their word: transactions are atomic and durable, statements
of different connections are isolated, signatures verify only with their key.
