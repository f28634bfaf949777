------------------------------ MODULE Delivery ------------------------------
(***************************************************************************)
(* Distributed mode: each machine spools its events in an SQLite outbox    *)
(* (internal/store/outbox.go); its forwarder (internal/forward) logs in to *)
(* the hub, attaches the hub's database and appends each batch to staging  *)
(* tables, one statement per table, then deletes the batch from the        *)
(* outbox; the hub folds the staging tables into the ledger, and applies   *)
(* retention when it starts (internal/store, internal/daemon,              *)
(* internal/hub).                                                          *)
(*                                                                         *)
(* Failures: a call that fails, a statement that commits while its answer  *)
(* is lost, a login that expires, a merge that rolls back, a client or a   *)
(* hub that dies between any two steps and starts again.  The hub keeps    *)
(* its logins and its attached connections in memory.                      *)
(***************************************************************************)
EXTENDS Naturals, FiniteSets

CONSTANTS Event,      \* usage events, named by numbers that sort as their ids do
          Client,     \* machines that run the distributed proxy
          Owner,      \* Owner[e]: the machine that spools e
          CreatedAt,  \* CreatedAt[e]: the second at which e is spooled there
          Parts,      \* Parts[e]: the ledger tables in which e has rows
          Started,    \* Started[e]: started_at
          Session,    \* sessions, each a provider and a session id
          SessionOf,  \* SessionOf[e]: the session of e, a non-member of Session if none
          Unseen,     \* the first-seen time of a session not in the registry
          Cutoff,     \* the cutoffs that retention may use; 0 deletes nothing
          Limit,      \* forward.batchSize
          MaxFaults   \* how many failures and restarts a behaviour has

Table == {"requests", "tool_calls", "web_requests"}

ASSUME DeliveryAssumption ==
  /\ Event \subseteq Nat
  /\ Owner \in [Event -> Client]
  /\ CreatedAt \in [Event -> Nat]
  /\ Parts \in [Event -> SUBSET Table]
  /\ \A e \in Event : "requests" \in Parts[e]
  /\ Started \in [Event -> Nat]
  /\ Unseen \in Nat
  /\ \A e \in Event : Started[e] < Unseen
  /\ DOMAIN SessionOf = Event
  /\ Cutoff \subseteq Nat
  /\ Limit \in Nat \ {0}
  /\ MaxFaults \in Nat

VARIABLES
  spooled,    \* history: the events committed to an outbox
  outbox,     \* outbox[c]: the rows of usage_outbox
  step,       \* step[c]: where the forwarder is
  batch,      \* batch[c]: the events the forwarder is sending
  cached,     \* cached[c]: the hubauth.Client holds a credential
  remote,     \* remote[c]: the forwarder holds a Store it takes to be attached
  hubUp,      \* the hub runs
  logins,     \* clients whose cached credential the hub accepts
  attached,   \* clients whose connection the hub knows
  staged,     \* staged[r]: copies of row r in the staging tables
  merging,    \* the rows visible to the merge transaction in progress
  ledger,     \* ledger[r]: copies of row r in the indexed tables
  firstSeen,  \* firstSeen[s]: the sessions table
  cutoff,     \* the cutoff of the last retention
  faults      \* how many failures and restarts there have been

clientVars == <<step, batch, cached, remote>>
hubVars    == <<hubUp, logins, attached, merging, ledger, firstSeen, cutoff>>
vars       == <<spooled, outbox, clientVars, hubVars, staged, faults>>

Stages    == {"requests", "sessions", "tool_calls", "web_requests"}
Step      == {"pending", "credential", "attach", "ack", "backoff"} \cup Stages
Row       == Stages \X Event
LedgerRow == Table \X Event
NoRows    == [r \in Row |-> 0]

-----------------------------------------------------------------------------
Earlier(e, f) == CreatedAt[e] < CreatedAt[f] \/ (CreatedAt[e] = CreatedAt[f] /\ e < f)

\* Pending: the Limit oldest rows by created_at, then id.
Oldest(S) == {e \in S : Cardinality({f \in S : Earlier(f, e)}) < Limit}

Of(B, s) == {e \in B : SessionOf[e] = s}

First(B) == CHOOSE e \in B : \A f \in B : Started[e] =< Started[f]

\* The rows of one staging statement: per session of the batch, its earliest start.
StageRows(t, B) ==
  IF t = "sessions"
  THEN {<<t, First(Of(B, s))>> : s \in {s \in Session : Of(B, s) # {}}}
  ELSE {<<t, e>> : e \in {e \in B : t \in Parts[e]}}

After == [requests     |-> "sessions",
          sessions     |-> "tool_calls",
          tool_calls   |-> "web_requests",
          web_requests |-> "ack"]

Connected(c) == hubUp /\ c \in attached

Appended(R) == [r \in Row |-> IF r \in R THEN staged[r] + 1 ELSE staged[r]]

\* LEAST of a session's time and the starts of the given events of that session.
Least(S) == CHOOSE x \in S : \A y \in S : x =< y

\* Mutant of SeenWith: the registry takes the newest observation.
SeenLatest(E) ==
  [s \in Session |-> IF Of(E, s) = {} THEN firstSeen[s] ELSE Least({Started[e] : e \in Of(E, s)})]

SeenWith(E) == [s \in Session |-> Least({firstSeen[s]} \cup {Started[e] : e \in Of(E, s)})]

-----------------------------------------------------------------------------
DeliveryInit ==
  /\ spooled = {}
  /\ outbox = [c \in Client |-> {}]
  /\ step = [c \in Client |-> "pending"]
  /\ batch = [c \in Client |-> {}]
  /\ cached = [c \in Client |-> FALSE]
  /\ remote = [c \in Client |-> FALSE]
  /\ hubUp = TRUE
  /\ logins = {}
  /\ attached = {}
  /\ staged = NoRows
  /\ merging = NoRows
  /\ ledger = [r \in LedgerRow |-> 0]
  /\ firstSeen = [s \in Session |-> Unseen]
  /\ cutoff = 0
  /\ faults = 0

\* Outbox.InsertBatch, called by the queue's writer: one transaction.
Spool(c, E) ==
  /\ E \subseteq {e \in Event \ spooled : Owner[e] = c}
  /\ E # {}
  /\ spooled' = spooled \cup E
  /\ outbox' = [outbox EXCEPT ![c] = @ \cup E]
  /\ UNCHANGED <<clientVars, hubVars, staged, faults>>

-----------------------------------------------------------------------------
(* The forwarder's loop.                                                   *)

Goto(c, s) == step' = [step EXCEPT ![c] = s]

Pending(c) ==
  /\ step[c] = "pending"
  /\ outbox[c] # {}
  /\ batch' = [batch EXCEPT ![c] = Oldest(outbox[c])]
  /\ Goto(c, IF remote[c] THEN "requests" ELSE "credential")
  /\ UNCHANGED <<spooled, outbox, cached, remote, hubVars, staged, faults>>

\* Client.Credential returns what it has cached, or logs in.
UseCached(c) ==
  /\ step[c] = "credential"
  /\ cached[c]
  /\ Goto(c, "attach")
  /\ UNCHANGED <<spooled, outbox, batch, cached, remote, hubVars, staged, faults>>

Login(c) ==
  /\ step[c] = "credential"
  /\ ~cached[c]
  /\ hubUp
  /\ cached' = [cached EXCEPT ![c] = TRUE]
  /\ logins' = logins \cup {c}
  /\ Goto(c, "attach")
  /\ UNCHANGED <<spooled, outbox, batch, remote, hubUp, attached, merging, ledger,
                 firstSeen, cutoff, staged, faults>>

\* store.OpenRemote, when the hub accepts the credential.
Attach(c) ==
  /\ step[c] = "attach"
  /\ hubUp
  /\ c \in logins
  /\ attached' = attached \cup {c}
  /\ remote' = [remote EXCEPT ![c] = TRUE]
  /\ Goto(c, "requests")
  /\ UNCHANGED <<spooled, outbox, batch, cached, hubUp, logins, merging, ledger,
                 firstSeen, cutoff, staged, faults>>

\* The error path of run: drop the connection and wait; the events stay in the outbox.
Fail(c) ==
  /\ Goto(c, "backoff")
  /\ batch' = [batch EXCEPT ![c] = {}]
  /\ remote' = [remote EXCEPT ![c] = FALSE]
  /\ attached' = attached \ {c}

\* Mutant of AuthFails: the refused credential stays in the cache.
AuthFailsKeepsCredential(c) ==
  /\ step[c] = "attach"
  /\ hubUp
  /\ c \notin logins
  /\ Fail(c)
  /\ UNCHANGED <<spooled, outbox, cached, hubUp, logins, merging, ledger,
                 firstSeen, cutoff, staged, faults>>

\* "Authentication failed": the cached credential is discarded.
AuthFails(c) ==
  /\ step[c] = "attach"
  /\ hubUp
  /\ c \notin logins
  /\ Fail(c)
  /\ cached' = [cached EXCEPT ![c] = FALSE]
  /\ UNCHANGED <<spooled, outbox, hubUp, logins, merging, ledger,
                 firstSeen, cutoff, staged, faults>>

\* stageRemote with no tuples sends nothing.
SkipStage(c) ==
  /\ step[c] \in Stages
  /\ StageRows(step[c], batch[c]) = {}
  /\ Goto(c, After[step[c]])
  /\ UNCHANGED <<spooled, outbox, batch, cached, remote, hubVars, staged, faults>>

\* One INSERT INTO staging_<table>, committed by the hub on its own.
Stage(c) ==
  /\ step[c] \in Stages
  /\ StageRows(step[c], batch[c]) # {}
  /\ Connected(c)
  /\ staged' = Appended(StageRows(step[c], batch[c]))
  /\ Goto(c, After[step[c]])
  /\ UNCHANGED <<spooled, outbox, batch, cached, remote, hubVars, faults>>

\* The hub is down, or started again and does not know the connection.
Unreachable(c) ==
  /\ \/ step[c] = "credential" /\ ~cached[c] /\ ~hubUp
     \/ step[c] = "attach" /\ ~hubUp
     \/ /\ step[c] \in Stages
        /\ StageRows(step[c], batch[c]) # {}
        /\ ~Connected(c)
  /\ Fail(c)
  /\ UNCHANGED <<spooled, outbox, cached, hubUp, logins, merging, ledger,
                 firstSeen, cutoff, staged, faults>>

Acknowledge(c) ==
  /\ step[c] = "ack"
  /\ outbox' = [outbox EXCEPT ![c] = @ \ batch[c]]
  /\ batch' = [batch EXCEPT ![c] = {}]
  /\ Goto(c, "pending")
  /\ UNCHANGED <<spooled, cached, remote, hubVars, staged, faults>>

Retry(c) ==
  /\ step[c] = "backoff"
  /\ Goto(c, "pending")
  /\ UNCHANGED <<spooled, outbox, batch, cached, remote, hubVars, staged, faults>>

Forward(c) ==
  \/ Pending(c) \/ UseCached(c) \/ Login(c) \/ Attach(c) \/ AuthFails(c)
  \/ SkipStage(c) \/ Stage(c) \/ Unreachable(c) \/ Acknowledge(c) \/ Retry(c)

-----------------------------------------------------------------------------
(* What goes wrong on a client's side.                                     *)

Fault == faults < MaxFaults /\ faults' = faults + 1

\* A read of the outbox, a login, an ATTACH, a statement or the delete returns an error.
CallFails(c) ==
  /\ Fault
  /\ step[c] # "backoff"
  /\ Fail(c)
  /\ UNCHANGED <<spooled, outbox, cached, hubUp, logins, merging, ledger,
                 firstSeen, cutoff, staged>>

\* The hub commits the statement and the answer never arrives.
AnswerLost(c) ==
  /\ Fault
  /\ step[c] \in Stages
  /\ StageRows(step[c], batch[c]) # {}
  /\ Connected(c)
  /\ staged' = Appended(StageRows(step[c], batch[c]))
  /\ Fail(c)
  /\ UNCHANGED <<spooled, outbox, cached, hubUp, logins, merging, ledger,
                 firstSeen, cutoff>>

\* The hub forgets an expired login; the client may still hold its credential.
LoginExpires(c) ==
  /\ Fault
  /\ c \in logins
  /\ logins' = logins \ {c}
  /\ cached' \in {cached, [cached EXCEPT ![c] = FALSE]}
  /\ UNCHANGED <<spooled, outbox, step, batch, remote, hubUp, attached, merging,
                 ledger, firstSeen, cutoff, staged>>

\* The daemon stops or dies, and a new one starts: only the outbox is left.
ClientRestart(c) ==
  /\ Fault
  /\ Goto(c, "pending")
  /\ batch' = [batch EXCEPT ![c] = {}]
  /\ cached' = [cached EXCEPT ![c] = FALSE]
  /\ remote' = [remote EXCEPT ![c] = FALSE]
  /\ logins' = logins \ {c}
  /\ attached' = attached \ {c}
  /\ UNCHANGED <<spooled, outbox, hubUp, merging, ledger, firstSeen, cutoff, staged>>

-----------------------------------------------------------------------------
(* The hub: MergeStaging on a ticker, and its stop and start.              *)

MergeBegin ==
  /\ hubUp
  /\ merging = NoRows
  /\ staged # NoRows
  /\ merging' = staged
  /\ UNCHANGED <<spooled, outbox, clientVars, hubUp, logins, attached, ledger,
                 firstSeen, cutoff, staged, faults>>

Seen(snapshot) == {e \in Event : snapshot[<<"sessions", e>>] > 0}

\* Mutants of Folded and Cleared: no ON CONFLICT; a DELETE that sees newer rows.
FoldedAll(snapshot) == [r \in LedgerRow |-> ledger[r] + snapshot[r]]
ClearedAll(snapshot) == NoRows

\* INSERT ... SELECT ... ON CONFLICT DO NOTHING.
Folded(snapshot) ==
  [r \in LedgerRow |-> IF ledger[r] = 0 /\ snapshot[r] > 0 THEN 1 ELSE ledger[r]]

\* DELETE FROM staging_*: the rows visible when the transaction began.
Cleared(snapshot) == [r \in Row |-> staged[r] - snapshot[r]]

MergeCommit ==
  /\ merging # NoRows
  /\ ledger' = Folded(merging)
  /\ firstSeen' = SeenWith(Seen(merging))
  /\ staged' = Cleared(merging)
  /\ merging' = NoRows
  /\ UNCHANGED <<spooled, outbox, clientVars, hubUp, logins, attached, cutoff, faults>>

\* The transaction rolls back; the next tick tries again.
MergeFails ==
  /\ Fault
  /\ merging # NoRows
  /\ merging' = NoRows
  /\ UNCHANGED <<spooled, outbox, clientVars, hubUp, logins, attached, ledger,
                 firstSeen, cutoff, staged>>

\* The process stops or dies: its transaction, logins and connections are gone.
HubStop ==
  /\ Fault
  /\ hubUp
  /\ hubUp' = FALSE
  /\ logins' = {}
  /\ attached' = {}
  /\ merging' = NoRows
  /\ UNCHANGED <<spooled, outbox, clientVars, ledger, firstSeen, cutoff, staged>>

Requests == {e \in Event : ledger[<<"requests", e>>] > 0}

\* Mutant of Retained: the children are kept.
RetainedChildren(cut) ==
  [r \in LedgerRow |-> IF r[1] = "requests" /\ Started[r[2]] < cut THEN 0 ELSE ledger[r]]

\* DeleteRequestsStartedBefore: old requests, and the children of those requests.
Retained(cut) ==
  [r \in LedgerRow |->
    IF r[2] \in Requests /\ Started[r[2]] < cut THEN 0 ELSE ledger[r]]

\* OpenHub backfills the session registry from the requests; then retention runs.
HubStart(cut) ==
  /\ ~hubUp
  /\ cutoff =< cut
  /\ hubUp' = TRUE
  /\ firstSeen' = SeenWith(Requests)
  /\ ledger' = Retained(cut)
  /\ cutoff' = cut
  /\ UNCHANGED <<spooled, outbox, clientVars, logins, attached, merging, staged, faults>>

Merge == MergeBegin \/ MergeCommit

-----------------------------------------------------------------------------
DeliveryNext ==
  \/ \E c \in Client :
       \/ \E E \in SUBSET Event : Spool(c, E)
       \/ Forward(c)
       \/ CallFails(c) \/ AnswerLost(c) \/ LoginExpires(c) \/ ClientRestart(c)
  \/ Merge \/ MergeFails
  \/ HubStop
  \/ \E cut \in Cutoff : HubStart(cut)

DeliverySpec == DeliveryInit /\ [][DeliveryNext]_vars

(* Fairness: each forwarder's loop goes on (its waits are timers and its   *)
(* calls end), the merge ticker ticks, and a stopped hub is started again. *)
(* Faults are finitely many, so that the retries meet a hub that answers.  *)
DeliveryFairness ==
  /\ \A c \in Client : WF_vars(Forward(c))
  /\ WF_vars(Merge)
  /\ WF_vars(\E cut \in Cutoff : HubStart(cut))

DeliveryFairSpec == DeliverySpec /\ DeliveryFairness

-----------------------------------------------------------------------------
\* Types; a merge sees no more copies of a row than there are.
DeliveryTypeOK ==
  /\ spooled \in SUBSET Event
  /\ outbox \in [Client -> SUBSET Event]
  /\ step \in [Client -> Step]
  /\ batch \in [Client -> SUBSET Event]
  /\ cached \in [Client -> BOOLEAN]
  /\ remote \in [Client -> BOOLEAN]
  /\ hubUp \in BOOLEAN
  /\ logins \in SUBSET Client
  /\ attached \in SUBSET Client
  /\ staged \in [Row -> Nat]
  /\ merging \in [Row -> Nat]
  /\ \A r \in Row : merging[r] =< staged[r]
  /\ ledger \in [LedgerRow -> Nat]
  /\ firstSeen \in [Session -> Nat]
  /\ cutoff \in Nat
  /\ faults \in Nat

\* Row r will be, is, or has been in the ledger whatever the client does.
Secured(r) == \/ staged[r] > 0
              \/ ledger[r] > 0
              \/ Started[r[2]] < cutoff

(* "Nothing gets lost" (README): each row of a spooled event is still in   *)
(* its outbox, or staged, or in the ledger, or older than retention keeps, *)
(* across lost answers, partial batches, crashes and concurrent merges.    *)
NothingLost ==
  \A e \in spooled : \A t \in Parts[e] :
    e \in outbox[Owner[e]] \/ Secured(<<t, e>>)

\* The registry has a start no later than e's for its session, or will get one.
SessionSecured(e) ==
  SessionOf[e] \in Session =>
    \/ firstSeen[SessionOf[e]] =< Started[e]
    \/ \E f \in Of(Event, SessionOf[e]) :
         Started[f] =< Started[e] /\ staged[<<"sessions", f>>] > 0

(* The session registry learns the start of every spooled event of a       *)
(* session, or of an earlier one, and retention does not make it forget.   *)
SessionStartKept == \A e \in spooled : e \in outbox[Owner[e]] \/ SessionSecured(e)

(* "Nothing gets ... duplicated" (README): however often a batch is staged *)
(* again, each of its rows is in the ledger at most once.                  *)
RecordedOnce == \A r \in LedgerRow : ledger[r] =< 1

Hub == INSTANCE Ledger WITH
         offered <- spooled,
         rows    <- {r \in LedgerRow : ledger[r] > 0}

(* The ledger only gains rows of spooled events, children never before     *)
(* their request, loses them only whole at a restart, and moves a          *)
(* session's first-seen time only back.                                    *)
ImplementsLedger == Hub!LedgerSpec

(* Every spooled event reaches the ledger with all its rows, or expires,   *)
(* once faults have stopped, whatever the forwarder was doing at the time. *)
EventuallyRecorded ==
  \A e \in Event :
    e \in spooled ~> \/ \A t \in Parts[e] : ledger[<<t, e>>] > 0
                     \/ Started[e] < cutoff
=============================================================================
