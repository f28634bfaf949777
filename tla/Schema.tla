------------------------------- MODULE Schema -------------------------------
(***************************************************************************)
(* Opening a ledger: store.Open for a machine's own file, store.OpenHub    *)
(* for the shared one.  Whatever an earlier build left in the file is      *)
(* repaired, created, extended, indexed and backfilled statement by        *)
(* statement before the daemon serves; the process may stop after any of   *)
(* them and start again from what the file then holds.                     *)
(***************************************************************************)
EXTENDS Naturals, Sequences, FiniteSets, SequencesExt

CONSTANTS Kinds,        \* SUBSET {"local", "hub"}: the ledgers a run opens
          Ledgers,      \* Ledgers[kind]: what earlier builds left in the file
          Events,       \* request rows the daemon writes once the file is open
          Children,     \* Children[t][r]: the rows of request r in child table t
          Cutoffs,      \* what startup retention may compute as its cutoff
          MaxRestarts   \* bound: how often the process stops in a behaviour

VARIABLES kind, db, work, rebuild, script, phase, restarts, recorded, observed

vars == <<kind, db, work, rebuild, script, phase, restarts, recorded, observed>>

----------------------------------------------------------------------------
(* The ledger.  db is the committed file and work what the statements of   *)
(* the open transaction have made of it; outside one they are the same.    *)

Tables == {"requests", "sessions", "tool_calls", "web_requests"}
ChildTables == {"tool_calls", "web_requests"}
InOrder == <<"requests", "sessions", "tool_calls", "web_requests">>

\* The columns a build after the first one added, in the order they are added.
AddedColumns == <<"originator", "client_name", "session_id", "directory",
                  "git_branch", "effort", "source", "host">>
Indexes == <<<<"requests", "started_at">>, <<"requests", "model_requested">>,
             <<"requests", "response_id">>, <<"requests", "source">>,
             <<"sessions", "first_seen_at">>, <<"tool_calls", "request_id">>,
             <<"web_requests", "request_id">>, <<"requests", "directory">>,
             <<"requests", "git_branch">>, <<"requests", "session_id">>>>

\* Of the columns only the added ones vary; every table has its first columns.
ColumnsOf(t) == IF t = "requests" THEN ToSet(AddedColumns) ELSE {}
IndexesOf(t) == {i[2] : i \in {x \in ToSet(Indexes) : x[1] = t}}

Missing == [there |-> FALSE, key |-> FALSE, columns |-> {}, indexes |-> {},
            default |-> FALSE, rows |-> {}]
Created(t) == [Missing EXCEPT !.there = TRUE, !.key = TRUE, !.columns = ColumnsOf(t)]

IsTable(t) == t \in [there : BOOLEAN, key : BOOLEAN, columns : SUBSET STRING,
                     indexes : SUBSET STRING, default : BOOLEAN, rows : {t.rows}]
IsRequest(r) == r \in [id : {r.id}, start : Nat, known : BOOLEAN,
                       session : STRING, codex : STRING]
IsSession(s) == s \in [id : {s.id}, start : Nat]

\* The files; a table that is not there has no rows and no key.
IsLedger(d) ==
  /\ d \in [tables : {d.tables}, copies : {d.copies}, staging : {d.staging}, view : BOOLEAN]
  /\ \A f \in {d.tables, d.copies, d.staging} :
       f = [t \in Tables |-> f[t]] /\ \A t \in Tables : IsTable(f[t])
  /\ \A t \in Tables : ~ d.tables[t].there => d.tables[t].rows = {} /\ ~ d.tables[t].key
  /\ \A r \in d.tables["requests"].rows : IsRequest(r)
  /\ \A s \in d.tables["sessions"].rows : IsSession(s)

\* What an earlier build may have left: no columns or indexes but some of today's,
\* a bound default on requests only, and no keys in staging, whose requests lack
\* the last column at most.  The constraint-free experiment took keys from hubs.
IsEarlier(k, d) ==
  /\ \A t \in Tables : /\ d.tables[t].columns \subseteq ColumnsOf(t)
                       /\ d.tables[t].indexes \subseteq IndexesOf(t)
                       /\ d.tables[t].default => t = "requests"
                       /\ ~ d.staging[t].key
  /\ d.staging["requests"].there =>
       ColumnsOf("requests") \ {"effort"} \subseteq d.staging["requests"].columns
  /\ k = "local" => \A t \in Tables : d.tables[t].there => d.tables[t].key

ASSUME SchemaAssumption ==
  /\ Kinds \subseteq {"local", "hub"}
  /\ \A k \in Kinds : \A d \in Ledgers[k] : IsLedger(d) /\ IsEarlier(k, d)
  /\ \A r \in Events : IsRequest(r)

\* The session a request row belongs to: COALESCE(session_id, codex_session_id)
\* of a request to a known provider.  "" stands for NULL as well.
Session(r) == IF ~ r.known THEN "" ELSE IF r.session # "" THEN r.session ELSE r.codex

Ids(t) == {r.id : r \in t.rows}

\* The sessions that the requests of R were seen in, and when.
Sightings(R) ==
  {[id |-> Session(r), start |-> r.start] : r \in {x \in R : Session(x) # ""}}
Earliest(S) == {o \in S : \A p \in S : p.id = o.id => o.start =< p.start}

\* Mutant: what this statement has seen wins over what the registry has.
LastSeen(rows, R) ==
  LET seen == Earliest(Sightings(R))
  IN seen \cup {s \in rows : \A o \in seen : o.id # s.id}

\* upsertSessionSQL: the registry after the requests of R were observed.
LeastSeen(rows, R) == Earliest(rows \cup Sightings(R))

\* Two rows with one id: what a primary key forbids, and its index cannot hold.
HasDuplicates(t) == \E r, q \in t.rows : r.id = q.id /\ r # q

----------------------------------------------------------------------------
(* The statements of one start, in order.                                  *)

Entries(op, ons) == [i \in DOMAIN ons |-> [op |-> op, on |-> ons[i]]]
Entry(op) == <<[op |-> op, on |-> ""]>>

\* Mutant: the indexes before the columns some of them are on.
EnsureLedgerIndexesFirst ==
  Entries("create", InOrder) \o Entries("index", Indexes)
    \o Entries("column", AddedColumns) \o Entry("backfillRequests")
    \o Entry("backfillSessions") \o Entry("dropDefault") \o Entry("view")

EnsureLedger ==
  Entries("create", InOrder) \o Entries("column", AddedColumns)
    \o Entries("index", Indexes) \o Entry("backfillRequests")
    \o Entry("backfillSessions") \o Entry("dropDefault") \o Entry("view")
EnsureStaging == Entries("staging", InOrder) \o Entry("stagingEffort")

\* Mutant: only the tables the registry and the requests are read from.
RepairsOfParents == Entries("repair", <<"requests", "sessions">>)

Repairs == Entries("repair", InOrder)

Script(k) ==
  (IF k = "hub" THEN Repairs \o EnsureLedger \o EnsureStaging ELSE EnsureLedger)
    \o Entry("validate")

Idle == [step |-> "none", on |-> ""]

Init ==
  /\ kind \in Kinds
  /\ db \in Ledgers[kind]
  /\ work = db
  /\ rebuild = Idle
  /\ script = <<>>
  /\ phase = "down"
  /\ restarts = 0
  /\ recorded = [t \in Tables |-> Ids(db.tables[t])]
  /\ observed = db.tables["sessions"].rows \cup Sightings(db.tables["requests"].rows)

Start ==
  /\ phase \in {"down", "refused"}
  /\ phase' = "opening"
  /\ script' = Script(kind)
  /\ UNCHANGED <<kind, db, work, rebuild, restarts, recorded, observed>>

\* The process dies, is stopped, or gives up because retention failed: an open
\* transaction is rolled back.
Stop ==
  /\ phase # "down" /\ restarts < MaxRestarts
  /\ phase' = "down"
  /\ restarts' = restarts + 1
  /\ script' = <<>>
  /\ rebuild' = Idle
  /\ work' = db
  /\ UNCHANGED <<kind, db, recorded, observed>>

----------------------------------------------------------------------------
(* One statement, and what becomes of the ones after it.                   *)

At(op) == phase = "opening" /\ rebuild = Idle /\ Head(script).op = op
On == Head(script).on

\* Every statement outside a transaction is committed on its own.
Commit(d) == db' = d /\ work' = d

\* Mutant: every statement of a rebuild is committed on its own.
OutsideTransaction(d) == db' = d /\ work' = d

InTransaction(d) == work' = d /\ UNCHANGED db

Kept == UNCHANGED <<kind, restarts, recorded, observed>>
Continue == script' = Tail(script) /\ UNCHANGED <<phase, rebuild>> /\ Kept
Skip == Continue /\ UNCHANGED <<db, work>>
Done(d) == Continue /\ Commit(d)

\* An error of any statement rolls the transaction back and ends the process.
Refuse ==
  /\ phase' = "refused"
  /\ script' = <<>>
  /\ rebuild' = Idle
  /\ work' = db
  /\ UNCHANGED db
  /\ Kept

----------------------------------------------------------------------------
(* repairLedgerPrimaryKeys: a table without its key is copied into a fresh *)
(* one, in a transaction of its own.                                       *)

\* A table that is missing, or still has its key, is left alone.
NeedsRebuild(t) == db.tables[t].there /\ ~ db.tables[t].key

Inspect ==
  /\ At("repair")
  /\ IF NeedsRebuild(On)
     THEN rebuild' = [step |-> "clear", on |-> On] /\ UNCHANGED <<phase, script, db, work>> /\ Kept
     ELSE Skip

Rebuilding(step, next) ==
  /\ phase = "opening"
  /\ rebuild.step = step
  /\ rebuild' = [rebuild EXCEPT !.step = next]
  /\ UNCHANGED <<phase, script>>
  /\ Kept

ClearCopy ==
  /\ Rebuilding("clear", "create")
  /\ InTransaction([work EXCEPT !.copies[rebuild.on] = Missing])

CreateCopy ==
  /\ Rebuilding("create", "copy")
  /\ InTransaction([work EXCEPT !.copies[rebuild.on] = Created(rebuild.on)])

CopyRows ==
  /\ Rebuilding("copy", "drop")
  /\ ~ HasDuplicates(work.tables[rebuild.on])
  /\ InTransaction([work EXCEPT !.copies[rebuild.on].rows = work.tables[rebuild.on].rows])

CopyFails ==
  /\ phase = "opening" /\ rebuild.step = "copy"
  /\ HasDuplicates(work.tables[rebuild.on])
  /\ Refuse

DropTable ==
  /\ Rebuilding("drop", "rename")
  /\ InTransaction([work EXCEPT !.tables[rebuild.on] = Missing])

RenameCopy ==
  /\ Rebuilding("rename", "commit")
  /\ InTransaction([work EXCEPT !.tables[rebuild.on] = work.copies[rebuild.on],
                                !.copies[rebuild.on] = Missing])

CommitRebuild ==
  /\ phase = "opening" /\ rebuild.step = "commit"
  /\ rebuild' = Idle
  /\ script' = Tail(script)
  /\ Commit(work)
  /\ UNCHANGED phase
  /\ Kept

----------------------------------------------------------------------------
(* ensureLedgerSchema                                                      *)

CreateTable ==
  /\ At("create")
  /\ IF db.tables[On].there THEN Skip ELSE Done([db EXCEPT !.tables[On] = Created(On)])

AddColumn ==
  /\ At("column")
  /\ Done([db EXCEPT !.tables["requests"].columns = @ \cup {On}])

\* The index of a column the table has not got is an error.
CanIndex(i) == i[2] \in ColumnsOf(i[1]) => i[2] \in db.tables[i[1]].columns

CreateIndex ==
  /\ At("index")
  /\ IF CanIndex(On) THEN Done([db EXCEPT !.tables[On[1]].indexes = @ \cup {On[2]}]) ELSE Refuse

BackfillRequests ==
  /\ At("backfillRequests")
  /\ Done([db EXCEPT !.tables["requests"].rows =
       {IF r.session = "" THEN [r EXCEPT !.session = r.codex] ELSE r : r \in @}])

\* ON CONFLICT names the columns of the key, which a table must have for it.
BackfillSessions ==
  /\ At("backfillSessions")
  /\ IF db.tables["sessions"].key
     THEN Done([db EXCEPT !.tables["sessions"].rows = LeastSeen(@, db.tables["requests"].rows)])
     ELSE Refuse

DropDefault == At("dropDefault") /\ Done([db EXCEPT !.tables["requests"].default = FALSE])

CreateView == At("view") /\ Done([db EXCEPT !.view = TRUE])

----------------------------------------------------------------------------
(* ensureStagingSchema and validateSchema                                  *)

CreateStaging ==
  /\ At("staging")
  /\ IF db.staging[On].there
     THEN Skip
     ELSE Done([db EXCEPT !.staging[On] = [Created(On) EXCEPT !.key = FALSE]])

AddStagingEffort ==
  /\ At("stagingEffort")
  /\ Done([db EXCEPT !.staging["requests"].columns = @ \cup {"effort"}])

Valid ==
  /\ \A t \in Tables : db.tables[t].there
  /\ ColumnsOf("requests") \subseteq db.tables["requests"].columns
  /\ db.view

Validate ==
  /\ At("validate")
  /\ IF Valid
     THEN phase' = "retaining" /\ script' = <<>> /\ UNCHANGED <<rebuild, db, work>> /\ Kept
     ELSE Refuse

----------------------------------------------------------------------------
(* The open ledger: retention runs once, then events are written.          *)

\* DeleteRequestsStartedBefore, one transaction; sessions are not touched.
Expired(c) == {r.id : r \in {x \in db.tables["requests"].rows : x.start < c}}

Retain(c) ==
  /\ phase = "retaining"
  /\ phase' = "open"
  /\ LET gone == Expired(c)
         Rest(t) == IF t = "requests" THEN {r \in db.tables[t].rows : r.id \notin gone}
                    ELSE {r \in db.tables[t].rows : r.id[1] \notin gone}
         Cleared(t) == IF t = "sessions" THEN db.tables[t]
                       ELSE [db.tables[t] EXCEPT !.rows = Rest(t)]
     IN /\ Commit([db EXCEPT !.tables = [t \in Tables |-> Cleared(t)]])
        /\ recorded' = [t \in Tables |->
             CASE t = "requests" -> recorded[t] \ gone
               [] t = "sessions" -> recorded[t]
               [] OTHER -> {i \in recorded[t] : i[1] \notin gone}]
  /\ UNCHANGED <<kind, rebuild, script, restarts, observed>>

\* InsertBatch of one event: rows that are there stay as they are, the session
\* is upserted in any case.
Inserted(t, rows) == t.rows \cup {r \in rows : r.id \notin Ids(t)}

Record(r) ==
  /\ phase = "open"
  /\ LET row == [r EXCEPT !.session = IF r.session # "" THEN r.session ELSE r.codex]
         Rows(t) == CASE t = "requests" -> Inserted(db.tables[t], {row})
                      [] t = "sessions" -> LeastSeen(db.tables[t].rows, {row})
                      [] OTHER -> Inserted(db.tables[t], Children[t][r.id])
     IN /\ Commit([db EXCEPT !.tables = [t \in Tables |-> [db.tables[t] EXCEPT !.rows = Rows(t)]]])
        /\ recorded' = [t \in Tables |->
             CASE t = "requests" -> recorded[t] \cup {r.id}
               [] t = "sessions" -> recorded[t]
               [] OTHER -> recorded[t] \cup {c.id : c \in Children[t][r.id]}]
        /\ observed' = observed \cup Sightings({row})
  /\ UNCHANGED <<kind, rebuild, script, phase, restarts>>

----------------------------------------------------------------------------

Repair == \/ Inspect \/ ClearCopy \/ CreateCopy \/ CopyRows \/ CopyFails
          \/ DropTable \/ RenameCopy \/ CommitRebuild
Ensure == \/ CreateTable \/ AddColumn \/ CreateIndex \/ BackfillRequests
          \/ BackfillSessions \/ DropDefault \/ CreateView
          \/ CreateStaging \/ AddStagingEffort \/ Validate

Opening == Start \/ Repair \/ Ensure \/ \E c \in Cutoffs : Retain(c)

Next == Opening \/ Stop \/ \E r \in Events : Record(r)

\* Statements are executed one after the other, and systemd starts the daemon
\* again when it fails (Restart=on-failure).
Spec == Init /\ [][Next]_vars /\ WF_vars(Opening)

----------------------------------------------------------------------------
(* Properties                                                              *)

Ready == phase \in {"retaining", "open"}

\* An open ledger has every table with its key, every column, every index and
\* the view, and no bound default that would keep a Quack client from attaching;
\* the hub's has staging tables a current client will use, none of them keyed.
\* Whatever build wrote the file, and wherever earlier starts were cut off.
OpenIsComplete ==
  Ready =>
    /\ db.view
    /\ \A t \in Tables :
         /\ db.tables[t].there /\ db.tables[t].key /\ ~ db.tables[t].default
         /\ db.tables[t].columns = ColumnsOf(t)
         /\ db.tables[t].indexes = IndexesOf(t)
    /\ kind = "hub" =>
         /\ \A t \in Tables : db.staging[t].there /\ ~ db.staging[t].key
         /\ ColumnsOf("requests") \subseteq db.staging["requests"].columns

\* What the file would hold if the process died now is, at every statement of
\* every repair and upgrade, each request and child row ever recorded and not
\* expired, and no other.
LedgerKept ==
  \A t \in Tables \ {"sessions"} : Ids(db.tables[t]) = recorded[t]

\* Once the ledger is open, every session a request of it was ever seen in is
\* registered, with the earliest start it was ever seen at: a backfill after
\* retention took the oldest request away does not move it forward.
SessionsRegistered ==
  Ready => db.tables["sessions"].rows = Earliest(observed)

\* A ledger without duplicate keys is open for good once the process stays up,
\* however many starts were cut off in the middle.
Repairable == \A t \in Tables : ~ HasDuplicates(db.tables[t])
EventuallyOpens == Repairable => <>[](phase = "open")
=============================================================================
