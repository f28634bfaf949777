---------------------------- MODULE SchemaProofs ----------------------------
(***************************************************************************)
(* Theorems about Schema, for any files of earlier builds and any events.  *)
(*                                                                         *)
(* A rebuild works on the open transaction only, where the rows of the     *)
(* table move to its copy and back under the table's name (Rebuilt); every *)
(* other statement leaves the identities of the rows as they are.  The     *)
(* registry has the first sightings, or a backfill is yet to come          *)
(* (Registry).  What a complete ledger shows, the file shows already or    *)
(* the script still has the statement for (Upgrading).                     *)
(***************************************************************************)
EXTENDS Schema, WellFoundedInduction, TLAPS

\* A record with the fields of a table, and one with those of a file.
TableShape(t) ==
  t = [there |-> t.there, key |-> t.key, columns |-> t.columns, indexes |-> t.indexes,
       default |-> t.default, rows |-> t.rows]

FileShape(d) ==
  /\ d = [tables |-> d.tables, copies |-> d.copies, staging |-> d.staging, view |-> d.view]
  /\ d.tables = [t \in Tables |-> d.tables[t]] /\ d.copies = [t \in Tables |-> d.copies[t]]
  /\ \A t \in Tables : TableShape(d.tables[t]) /\ TableShape(d.copies[t])

AbsentIsEmpty(d) ==
  \A t \in Tables : ~ d.tables[t].there => d.tables[t].rows = {} /\ ~ d.tables[t].key

RowsTyped(d) ==
  /\ \A r \in d.tables["requests"].rows : IsRequest(r)
  /\ \A s \in d.tables["sessions"].rows : IsSession(s)

Sound(d) == FileShape(d) /\ AbsentIsEmpty(d) /\ RowsTyped(d)

\* The tables of e hold what those of d do, and are there if those are.
SameRows(d, e) ==
  \A t \in Tables : /\ e.tables[t].rows = d.tables[t].rows
                    /\ d.tables[t].there => e.tables[t].there
                    /\ e.tables[t].key => e.tables[t].there

\* What the transaction of a rebuild has made of the file.
Rebuilt ==
  LET on == rebuild.on
      Copied == on \in Tables => /\ work.copies[on].there
                                 /\ work.copies[on].rows = db.tables[on].rows
  IN /\ rebuild = [step |-> rebuild.step, on |-> on]
     /\ rebuild.step \in {"none", "clear", "create", "copy", "drop", "rename", "commit"}
     /\ rebuild.step = "none" => rebuild = Idle
     /\ rebuild.step \in {"none", "clear", "create", "copy", "drop"} => work.tables = db.tables
     /\ rebuild.step = "copy" => (on \in Tables => work.copies[on].there)
     /\ rebuild.step \in {"drop", "rename"} => Copied
     /\ rebuild.step = "rename" => \A t \in Tables \ {on} : work.tables[t] = db.tables[t]
     /\ rebuild.step = "commit" => SameRows(db, work)

File ==
  /\ Sound(db) /\ FileShape(work)
  /\ phase # "opening" => rebuild = Idle
  /\ Ready => \A t \in Tables : db.tables[t].there
  /\ Rebuilt

-----------------------------------------------------------------------------
(* Tables, files and what a statement changes of them.                     *)

LEMMA FreshTables ==
  /\ TableShape(Missing) /\ ~ Missing.there /\ Missing.rows = {}
  /\ \A t : TableShape(Created(t)) /\ Created(t).there /\ Created(t).rows = {}
<1>1. TableShape(Missing) /\ ~ Missing.there /\ Missing.rows = {}
  BY DEF TableShape, Missing
<1>2. ASSUME NEW t
      PROVE  TableShape(Created(t)) /\ Created(t).there /\ Created(t).rows = {}
  <2> DEFINE c == ColumnsOf(t)
  <2>1. Created(t) = [Missing EXCEPT !.there = TRUE, !.key = TRUE, !.columns = c]
    BY DEF Created
  <2>2. Created(t) = [there |-> TRUE, key |-> TRUE, columns |-> c, indexes |-> {},
                      default |-> FALSE, rows |-> {}]
    <3> HIDE DEF c
    <3> QED
      BY <2>1 DEF Missing
  <2> HIDE DEF c
  <2> QED
    BY <2>2 DEF TableShape
<1> QED
  BY <1>1, <1>2

TableWith(f, t, x) == [f EXCEPT !.tables[t] = x]
CopyWith(f, t, x)  == [f EXCEPT !.copies[t] = x]
RowsWith(t, x)     == [t EXCEPT !.rows = x]
ColumnsWith(t, x)  == [t EXCEPT !.columns = x]
IndexesWith(t, x)  == [t EXCEPT !.indexes = x]
DefaultWith(t, x)  == [t EXCEPT !.default = x]

LEMMA TableChanged ==
  ASSUME NEW t, TableShape(t), NEW x
  PROVE  /\ LET u == RowsWith(t, x)
            IN TableShape(u) /\ u.rows = x /\ u.there = t.there /\ u.key = t.key
         /\ LET u == ColumnsWith(t, x)
            IN TableShape(u) /\ u.rows = t.rows /\ u.there = t.there /\ u.key = t.key
         /\ LET u == IndexesWith(t, x)
            IN TableShape(u) /\ u.rows = t.rows /\ u.there = t.there /\ u.key = t.key
         /\ LET u == DefaultWith(t, x)
            IN TableShape(u) /\ u.rows = t.rows /\ u.there = t.there /\ u.key = t.key
  BY DEF TableShape, RowsWith, ColumnsWith, IndexesWith, DefaultWith

LEMMA FileChanged ==
  ASSUME NEW d, FileShape(d), NEW x, NEW y, x \in Tables => TableShape(y)
  PROVE  /\ FileShape(TableWith(d, x, y))
         /\ \A t \in Tables : TableWith(d, x, y).tables[t] =
                                IF t = x THEN y ELSE d.tables[t]
         /\ TableWith(d, x, y).copies = d.copies
         /\ FileShape(CopyWith(d, x, y))
         /\ CopyWith(d, x, y).tables = d.tables
         /\ x \in Tables => CopyWith(d, x, y).copies[x] = y
<1> DEFINE f == [d.tables EXCEPT ![x] = y]
           g == [d.copies EXCEPT ![x] = y]
<1>1. /\ f = [t \in Tables |-> f[t]]
      /\ \A t \in Tables : f[t] = IF t = x THEN y ELSE d.tables[t]
  BY DEF FileShape
<1>2. /\ g = [t \in Tables |-> g[t]]
      /\ \A t \in Tables : g[t] = IF t = x THEN y ELSE d.copies[t]
  BY DEF FileShape
<1>3. TableWith(d, x, y) =
        [tables |-> f, copies |-> d.copies, staging |-> d.staging, view |-> d.view]
  BY DEF FileShape, TableWith
<1>4. CopyWith(d, x, y) =
        [tables |-> d.tables, copies |-> g, staging |-> d.staging, view |-> d.view]
  BY DEF FileShape, CopyWith
<1> HIDE DEF f, g
<1> QED
  BY <1>1, <1>2, <1>3, <1>4 DEF FileShape

LEMMA SameRowsSound ==
  ASSUME NEW d, NEW e, Sound(d), FileShape(e), SameRows(d, e)
  PROVE  Sound(e)
<1>1. "requests" \in Tables /\ "sessions" \in Tables
  BY DEF Tables
<1>2. AbsentIsEmpty(e)
  BY DEF Sound, AbsentIsEmpty, SameRows
<1>3. RowsTyped(e)
  BY <1>1 DEF Sound, RowsTyped, SameRows
<1> QED
  BY <1>2, <1>3 DEF Sound

\* A statement that leaves the rows of a table x as they are.
LEMMA RowsUntouched ==
  ASSUME NEW d, Sound(d), NEW x, NEW y,
         x \in Tables => /\ TableShape(y) /\ y.rows = d.tables[x].rows
                         /\ d.tables[x].there => y.there
                         /\ y.key => y.there
  PROVE  LET e == TableWith(d, x, y)
         IN Sound(e) /\ SameRows(d, e)
<1> DEFINE e == TableWith(d, x, y)
<1>0. FileShape(d) /\ (x \in Tables => TableShape(y)) /\ AbsentIsEmpty(d)
  BY DEF Sound
<1>1. FileShape(e) /\ \A t \in Tables : e.tables[t] = IF t = x THEN y ELSE d.tables[t]
  BY <1>0, FileChanged
<1> HIDE DEF e
<1>2. SameRows(d, e)
  BY <1>0, <1>1 DEF SameRows, AbsentIsEmpty
<1>3. Sound(e)
  BY <1>1, <1>2, SameRowsSound
<1> QED
  BY <1>2, <1>3 DEF e

-----------------------------------------------------------------------------
(* The statements of a start.                                              *)

\* The rows stay as they are; the file goes on being one.
Untouched == \E d : Done(d) /\ Sound(d) /\ SameRows(db, d)

LEMMA TablesStay ==
  ASSUME File, AddColumn \/ CreateTable \/ CreateIndex \/ DropDefault
  PROVE  Skip \/ Refuse \/ Untouched
<1>0. /\ Sound(db) /\ "requests" \in Tables
      /\ \A t \in Tables : TableShape(db.tables[t])
      /\ \A t \in Tables : db.tables[t].key => db.tables[t].there
  BY DEF File, Sound, FileShape, AbsentIsEmpty, Tables
<1>1. CASE AddColumn
  <2> DEFINE y == ColumnsWith(db.tables["requests"], db.tables["requests"].columns \cup {On})
  <2>1. /\ TableShape(y) /\ y.rows = db.tables["requests"].rows
        /\ y.there = db.tables["requests"].there /\ y.key = db.tables["requests"].key
    BY <1>0, TableChanged
  <2>2. Done(TableWith(db, "requests", y))
    BY <1>1 DEF AddColumn, TableWith, ColumnsWith
  <2> HIDE DEF y
  <2> QED
    BY <1>0, <2>1, <2>2, RowsUntouched DEF Untouched
<1>2. CASE CreateTable
  <2>1. CASE db.tables[On].there
    BY <1>2, <2>1 DEF CreateTable
  <2>2. CASE ~ db.tables[On].there
    <3>1. Done(TableWith(db, On, Created(On)))
      BY <1>2, <2>2 DEF CreateTable, TableWith
    <3>2. On \in Tables => db.tables[On].rows = {}
      BY <1>0, <2>2 DEF Sound, AbsentIsEmpty
    <3> QED
      BY <1>0, <3>1, <3>2, FreshTables, RowsUntouched DEF Untouched
  <2> QED
    BY <2>1, <2>2
<1>3. CASE CreateIndex
  <2>1. CASE CanIndex(On)
    <3> DEFINE x == On[1]
               y == IndexesWith(db.tables[x], db.tables[x].indexes \cup {On[2]})
    <3>1. x \in Tables => /\ TableShape(y) /\ y.rows = db.tables[x].rows
                          /\ y.there = db.tables[x].there /\ y.key = db.tables[x].key
      BY <1>0, TableChanged
    <3>2. Done(TableWith(db, x, y))
      BY <1>3, <2>1 DEF CreateIndex, TableWith, IndexesWith
    <3> HIDE DEF x, y
    <3> QED
      BY <1>0, <3>1, <3>2, RowsUntouched DEF Untouched
  <2>2. CASE ~ CanIndex(On)
    BY <1>3, <2>2 DEF CreateIndex
  <2> QED
    BY <2>1, <2>2
<1>4. CASE DropDefault
  <2> DEFINE none == FALSE
             y == DefaultWith(db.tables["requests"], none)
  <2>0. Done(TableWith(db, "requests", y))
    BY <1>4 DEF DropDefault, TableWith, DefaultWith
  <2> HIDE DEF none
  <2>1. /\ TableShape(y) /\ y.rows = db.tables["requests"].rows
        /\ y.there = db.tables["requests"].there /\ y.key = db.tables["requests"].key
    BY <1>0, TableChanged
  <2> HIDE DEF y
  <2> QED
    BY <1>0, <2>0, <2>1, RowsUntouched DEF Untouched
<1> QED
  BY <1>1, <1>2, <1>3, <1>4

\* The view and the staging tables are beside the ledger's tables.
LEMMA BesideTables ==
  ASSUME File, CreateView \/ CreateStaging \/ AddStagingEffort
  PROVE  Skip \/ Untouched
<1>0. Sound(db)
  BY DEF File
<1>1. ASSUME NEW d, NEW s, NEW v,
             d = [tables |-> db.tables, copies |-> db.copies, staging |-> s, view |-> v]
      PROVE  Sound(d) /\ SameRows(db, d)
  <2>1. FileShape(d) /\ SameRows(db, d)
    BY <1>0, <1>1 DEF Sound, FileShape, SameRows, AbsentIsEmpty
  <2> QED
    BY <1>0, <2>1, SameRowsSound
<1>2. \A s : [db EXCEPT !.staging = s] =
                [tables |-> db.tables, copies |-> db.copies, staging |-> s, view |-> db.view]
  BY <1>0 DEF Sound, FileShape
<1>3. \A v : [db EXCEPT !.view = v] =
                [tables |-> db.tables, copies |-> db.copies, staging |-> db.staging, view |-> v]
  BY <1>0 DEF Sound, FileShape
<1>4. CASE CreateView
  BY <1>1, <1>3, <1>4 DEF CreateView, Untouched
<1>5. CASE CreateStaging
  <2>1. CASE db.staging[On].there
    BY <1>5, <2>1 DEF CreateStaging
  <2>2. CASE ~ db.staging[On].there
    <3>1. PICK s : Done([db EXCEPT !.staging = s])
      BY <1>5, <2>2 DEF CreateStaging
    <3> QED
      BY <1>1, <1>2, <3>1 DEF Untouched
  <2> QED
    BY <2>1, <2>2
<1>6. CASE AddStagingEffort
  <2>1. PICK s : Done([db EXCEPT !.staging = s])
    BY <1>6 DEF AddStagingEffort
  <2> QED
    BY <1>1, <1>2, <2>1 DEF Untouched
<1> QED
  BY <1>4, <1>5, <1>6

\* What the backfill makes of a row.
Filled(r) == IF r.session = "" THEN [r EXCEPT !.session = r.codex] ELSE r

LEMMA FilledRow ==
  ASSUME NEW r, IsRequest(r)
  PROVE  /\ IsRequest(Filled(r))
         /\ Filled(r).id = r.id /\ Filled(r).start = r.start
         /\ Session(Filled(r)) = Session(r)
<1>1. CASE r.session = ""
  <2>1. Filled(r) = [id |-> r.id, start |-> r.start, known |-> r.known,
                     session |-> r.codex, codex |-> r.codex]
    BY <1>1 DEF Filled, IsRequest
  <2>2. /\ r.start \in Nat /\ r.known \in BOOLEAN /\ r.codex \in STRING
    BY DEF IsRequest
  <2>3. IsRequest(Filled(r))
    BY <2>1, <2>2 DEF IsRequest
  <2>4. /\ Filled(r).known = r.known /\ Filled(r).session = r.codex /\ Filled(r).codex = r.codex
        /\ Filled(r).id = r.id /\ Filled(r).start = r.start
    BY <2>1
  <2>5. Session(Filled(r)) = Session(r)
    BY <1>1, <2>4 DEF Session
  <2> QED
    BY <2>3, <2>4, <2>5
<1>2. CASE r.session # ""
  BY <1>2 DEF Filled
<1> QED
  BY <1>1, <1>2

LEMMA RequestsBackfilled ==
  ASSUME File, BackfillRequests
  PROVE  \E d : /\ Done(d) /\ Sound(d)
                /\ \A t \in Tables : /\ Ids(d.tables[t]) = Ids(db.tables[t])
                                      /\ d.tables[t].there = db.tables[t].there
                /\ d.tables["sessions"] = db.tables["sessions"]
                /\ Sightings(d.tables["requests"].rows) = Sightings(db.tables["requests"].rows)
<1> DEFINE R == db.tables["requests"].rows
           N == {Filled(r) : r \in R}
           y == RowsWith(db.tables["requests"], N)
           d == TableWith(db, "requests", y)
<1>0. /\ Sound(db) /\ "requests" \in Tables /\ "sessions" \in Tables
      /\ \A t \in Tables : TableShape(db.tables[t])
  BY DEF File, Sound, FileShape, Tables
<1>1. Done(d)
  BY DEF BackfillRequests, Filled, TableWith, RowsWith
<1>2. TableShape(y) /\ y.rows = N /\ y.there = db.tables["requests"].there /\ y.key = db.tables["requests"].key
  BY <1>0, TableChanged
<1>3. FileShape(d) /\ \A t \in Tables : d.tables[t] = IF t = "requests" THEN y ELSE db.tables[t]
  <2>1. FileShape(db) /\ TableShape(y)
    BY <1>0, <1>2 DEF Sound
  <2> HIDE DEF y
  <2> QED
    BY <2>1, FileChanged
<1>4. \A r \in R : IsRequest(r)
  BY <1>0 DEF Sound, RowsTyped
<1>5. \A r \in N : IsRequest(r)
  BY <1>4, FilledRow
<1>6. {r.id : r \in N} = {r.id : r \in R}
  BY <1>4, FilledRow
<1>7. Sightings(N) = Sightings(R)
  <2>1. \A r \in R : Filled(r).start = r.start /\ Session(Filled(r)) = Session(r)
    BY <1>4, FilledRow
  <2> DEFINE Of(r) == [id |-> Session(r), start |-> r.start]
  <2>2. \A o : o \in Sightings(N) <=> \E r \in R :
          Session(Filled(r)) # "" /\ o = Of(Filled(r))
    BY DEF Sightings
  <2>3. \A o : o \in Sightings(R) <=> \E r \in R : Session(r) # "" /\ o = Of(r)
    BY DEF Sightings
  <2>4. \A r \in R : Of(Filled(r)) = Of(r)
    BY <2>1
  <2> HIDE DEF R, N, Of
  <2>5. ASSUME NEW o \in Sightings(N) PROVE o \in Sightings(R)
    <3>1. PICK r \in R : Session(Filled(r)) # "" /\ o = Of(Filled(r))
      BY <2>2
    <3>2. Session(r) # "" /\ o = Of(r)
      BY <3>1, <2>1, <2>4
    <3> QED
      BY <3>2, <2>3
  <2>6. ASSUME NEW o \in Sightings(R) PROVE o \in Sightings(N)
    <3>1. PICK r \in R : Session(r) # "" /\ o = Of(r)
      BY <2>3
    <3>2. Session(Filled(r)) # "" /\ o = Of(Filled(r))
      BY <3>1, <2>1, <2>4
    <3> QED
      BY <3>2, <2>2
  <2> QED
    BY <2>5, <2>6
<1>8. R = {} => N = {}
  OBVIOUS
<1> HIDE DEF N, y, d
<1>9. Sound(d)
  <2>1. AbsentIsEmpty(d)
    BY <1>0, <1>2, <1>3, <1>8 DEF Sound, AbsentIsEmpty
  <2>2. RowsTyped(d)
    BY <1>0, <1>2, <1>3, <1>5 DEF Sound, RowsTyped
  <2> QED
    BY <1>3, <2>1, <2>2 DEF Sound
<1>10. /\ \A t \in Tables : /\ Ids(d.tables[t]) = Ids(db.tables[t])
                             /\ d.tables[t].there = db.tables[t].there
       /\ d.tables["sessions"] = db.tables["sessions"]
  BY <1>0, <1>2, <1>3, <1>6 DEF Ids
<1>11. Sightings(d.tables["requests"].rows) = Sightings(db.tables["requests"].rows)
  BY <1>0, <1>2, <1>3, <1>7
<1> QED
  BY <1>1, <1>9, <1>10, <1>11

\* What the backfill makes of the registry.
LEMMA SeenTyped ==
  ASSUME NEW R, NEW S, \A r \in R : IsRequest(r), \A s \in S : IsSession(s)
  PROVE  /\ \A s \in Sightings(R) : IsSession(s)
         /\ \A s \in LeastSeen(S, R) : IsSession(s)
<1>1. ASSUME NEW r \in R PROVE IsSession([id |-> Session(r), start |-> r.start])
  BY DEF IsRequest, IsSession
<1>2. \A s \in Sightings(R) : IsSession(s)
  BY <1>1 DEF Sightings
<1> QED
  BY <1>2 DEF LeastSeen, Earliest

LEMMA SessionsBackfilled ==
  ASSUME File, BackfillSessions
  PROVE  \/ Refuse
         \/ \E d : /\ Done(d) /\ Sound(d)
                   /\ \A t \in Tables : /\ t # "sessions" => d.tables[t] = db.tables[t]
                                         /\ d.tables[t].there = db.tables[t].there
                   /\ d.tables["sessions"].rows =
                        LeastSeen(db.tables["sessions"].rows, db.tables["requests"].rows)
<1> DEFINE S == db.tables["sessions"]
           N == LeastSeen(S.rows, db.tables["requests"].rows)
           y == RowsWith(S, N)
           d == TableWith(db, "sessions", y)
<1>0. /\ Sound(db) /\ "requests" \in Tables /\ "sessions" \in Tables
      /\ \A t \in Tables : TableShape(db.tables[t])
  BY DEF File, Sound, FileShape, Tables
<1>1. CASE ~ S.key
  BY <1>1 DEF BackfillSessions
<1>2. CASE S.key
  <2>1. Done(d)
    BY <1>2 DEF BackfillSessions, TableWith, RowsWith
  <2>2. TableShape(y) /\ y.rows = N /\ y.there = S.there /\ y.key = S.key
    BY <1>0, TableChanged
  <2>3. FileShape(d) /\ \A t \in Tables : d.tables[t] = IF t = "sessions" THEN y ELSE db.tables[t]
    <3>1. FileShape(db) /\ TableShape(y)
      BY <1>0, <2>2 DEF Sound
    <3> HIDE DEF y
    <3> QED
      BY <3>1, FileChanged
  <2>4. \A s \in N : IsSession(s)
    BY <1>0, SeenTyped DEF Sound, RowsTyped
  <2>5. S.there
    BY <1>0, <1>2 DEF Sound, AbsentIsEmpty
  <2> HIDE DEF N, y, d
  <2>6. AbsentIsEmpty(d)
    BY <1>0, <2>2, <2>3, <2>5 DEF Sound, AbsentIsEmpty
  <2>7. RowsTyped(d)
    BY <1>0, <2>2, <2>3, <2>4 DEF Sound, RowsTyped
  <2> QED
    BY <1>0, <2>1, <2>2, <2>3, <2>6, <2>7 DEF Sound, N
<1> QED
  BY <1>1, <1>2

-----------------------------------------------------------------------------
(* The file through a start.                                               *)

\* The rows of the requests and their children, and whom the requests have seen.
RowsKept ==
  /\ \A t \in Tables \ {"sessions"} : Ids(db'.tables[t]) = Ids(db.tables[t])
  /\ Sightings(db'.tables["requests"].rows) = Sightings(db.tables["requests"].rows)
  /\ UNCHANGED <<recorded, observed>>

SessionsKept == db'.tables["sessions"].rows = db.tables["sessions"].rows

LEMMA SameRowsKept ==
  ASSUME SameRows(db, db'), UNCHANGED <<recorded, observed>>
  PROVE  RowsKept /\ SessionsKept
<1>1. "requests" \in Tables /\ "sessions" \in Tables
  BY DEF Tables
<1> QED
  BY <1>1 DEF SameRows, RowsKept, SessionsKept, Ids

LEMMA SameFileKept ==
  ASSUME db' = db, UNCHANGED <<recorded, observed>>
  PROVE  RowsKept /\ SessionsKept
  BY DEF RowsKept, SessionsKept

LEMMA DoneFile ==
  ASSUME File, phase = "opening", rebuild = Idle, NEW d, Sound(d), Done(d)
  PROVE  File' /\ db' = d /\ UNCHANGED <<recorded, observed>>
<1>1. /\ db' = d /\ work' = d /\ rebuild' = Idle /\ phase' = "opening"
      /\ UNCHANGED <<recorded, observed>>
  BY DEF Done, Commit, Continue, Kept
<1>2. Rebuilt'
  BY <1>1 DEF Rebuilt, Idle
<1>3. Sound(db') /\ FileShape(work')
  BY <1>1 DEF Sound
<1> QED
  BY <1>1, <1>2, <1>3 DEF File, Ready

LEMMA EndedFile ==
  ASSUME File, db' = db, work' = db, rebuild' = Idle, phase' \in {"down", "refused"}
  PROVE  File'
<1>1. Rebuilt'
  BY DEF Rebuilt, Idle
<1> QED
  BY <1>1 DEF File, Sound, Ready

LEMMA RefuseFile ==
  ASSUME File, Refuse
  PROVE  File' /\ RowsKept /\ SessionsKept
  BY EndedFile, SameFileKept DEF Refuse, Kept

LEMMA SkipFile ==
  ASSUME File, Skip
  PROVE  File' /\ RowsKept /\ SessionsKept
<1>1. UNCHANGED <<db, work, phase, rebuild, recorded, observed>>
  BY DEF Skip, Continue, Kept
<1>2. File'
  BY <1>1 DEF File, Rebuilt, Ready
<1> QED
  BY <1>1, <1>2, SameFileKept

LEMMA UntouchedFile ==
  ASSUME File, phase = "opening", rebuild = Idle, Untouched
  PROVE  File' /\ RowsKept /\ SessionsKept
<1>1. PICK d : Done(d) /\ Sound(d) /\ SameRows(db, d)
  BY DEF Untouched
<1>2. File' /\ db' = d /\ UNCHANGED <<recorded, observed>>
  BY <1>1, DoneFile
<1> QED
  BY <1>1, <1>2, SameRowsKept

\* A step of a rebuild within its transaction.
LEMMA RebuildingFile ==
  ASSUME File, NEW step \in {"clear", "create", "copy", "drop", "rename"},
         NEW next \in {"create", "copy", "drop", "rename", "commit"},
         Rebuilding(step, next), NEW w, FileShape(w), InTransaction(w)
  PROVE  /\ rebuild' = [step |-> next, on |-> rebuild.on] /\ db' = db /\ work' = w
         /\ Rebuilt' => File'
         /\ RowsKept /\ SessionsKept
<1>1. rebuild' = [rebuild EXCEPT !.step = next]
  BY DEF Rebuilding
<1>2. rebuild = [step |-> rebuild.step, on |-> rebuild.on]
  BY DEF File, Rebuilt
<1>3. rebuild' = [step |-> next, on |-> rebuild.on]
  BY <1>1, <1>2
<1>4. /\ db' = db /\ work' = w /\ phase = "opening" /\ phase' = "opening"
      /\ UNCHANGED <<recorded, observed>>
  BY DEF Rebuilding, InTransaction, Kept
<1>5. Rebuilt' => File'
  BY <1>4 DEF File, Sound, Ready
<1> QED
  BY <1>3, <1>4, <1>5, SameFileKept

\* The steps of a rebuild.
LEMMA RepairFile ==
  ASSUME File, Repair
  PROVE  File' /\ RowsKept /\ SessionsKept
<1> DEFINE on == rebuild.on
<1>0. Sound(db) /\ FileShape(db) /\ FileShape(work)
  BY DEF File, Sound
<1>1. CASE Inspect
  <2>1. CASE Skip
    BY <2>1, SkipFile
  <2>2. CASE /\ rebuild' = [step |-> "clear", on |-> On] /\ UNCHANGED <<phase, script, db, work>>
             /\ Kept
    <3>1. phase = "opening" /\ work.tables = db.tables
      BY <1>1 DEF Inspect, At, File, Rebuilt, Idle
    <3>2. Rebuilt'
      BY <2>2, <3>1 DEF Rebuilt
    <3>3. File'
      BY <2>2, <3>1, <3>2 DEF File, Ready
    <3> QED
      BY <2>2, <3>3, SameFileKept DEF Kept
  <2> QED
    BY <1>1, <2>1, <2>2 DEF Inspect
<1>2. CASE ClearCopy
  <2> DEFINE w == CopyWith(work, on, Missing)
  <2>1. Rebuilding("clear", "create") /\ InTransaction(w)
    BY <1>2 DEF ClearCopy, CopyWith
  <2>2. FileShape(w) /\ w.tables = work.tables
    BY <1>0, FreshTables, FileChanged
  <2>3. rebuild.step = "clear"
    BY <2>1 DEF Rebuilding
  <2> HIDE DEF w
  <2>4. /\ rebuild' = [step |-> "create", on |-> on] /\ db' = db /\ work' = w
        /\ Rebuilt' => File'
        /\ RowsKept /\ SessionsKept
    BY <2>1, <2>2, RebuildingFile
  <2>5. Rebuilt'
    BY <2>2, <2>3, <2>4 DEF File, Rebuilt
  <2> QED
    BY <2>4, <2>5
<1>3. CASE CreateCopy
  <2> DEFINE w == CopyWith(work, on, Created(on))
  <2>1. Rebuilding("create", "copy") /\ InTransaction(w)
    BY <1>3 DEF CreateCopy, CopyWith
  <2>2. /\ FileShape(w) /\ w.tables = work.tables
        /\ on \in Tables => w.copies[on] = Created(on)
    BY <1>0, FreshTables, FileChanged
  <2>3. rebuild.step = "create" /\ Created(on).there
    BY <2>1, FreshTables DEF Rebuilding
  <2> HIDE DEF w
  <2>4. /\ rebuild' = [step |-> "copy", on |-> on] /\ db' = db /\ work' = w
        /\ Rebuilt' => File'
        /\ RowsKept /\ SessionsKept
    BY <2>1, <2>2, RebuildingFile
  <2>5. Rebuilt'
    BY <2>2, <2>3, <2>4 DEF File, Rebuilt
  <2> QED
    BY <2>4, <2>5
<1>4. CASE CopyRows
  <2> DEFINE y == RowsWith(work.copies[on], work.tables[on].rows)
             w == CopyWith(work, on, y)
  <2>1. Rebuilding("copy", "drop") /\ InTransaction(w)
    BY <1>4 DEF CopyRows, CopyWith, RowsWith
  <2>2. on \in Tables =>
          TableShape(y) /\ y.rows = work.tables[on].rows /\ y.there = work.copies[on].there
    BY <1>0, TableChanged DEF FileShape
  <2> HIDE DEF y
  <2>3. /\ FileShape(w) /\ w.tables = work.tables
        /\ on \in Tables => w.copies[on] = y
    BY <1>0, <2>2, FileChanged
  <2>4. rebuild.step = "copy"
    BY <2>1 DEF Rebuilding
  <2> HIDE DEF w
  <2>5. /\ rebuild' = [step |-> "drop", on |-> on] /\ db' = db /\ work' = w
        /\ Rebuilt' => File'
        /\ RowsKept /\ SessionsKept
    BY <2>1, <2>3, RebuildingFile
  <2>6. Rebuilt'
    BY <2>2, <2>3, <2>4, <2>5 DEF File, Rebuilt
  <2> QED
    BY <2>5, <2>6
<1>5. CASE CopyFails
  BY <1>5, RefuseFile DEF CopyFails
<1>6. CASE DropTable
  <2> DEFINE w == TableWith(work, on, Missing)
  <2>1. Rebuilding("drop", "rename") /\ InTransaction(w)
    BY <1>6 DEF DropTable, TableWith
  <2>2. /\ FileShape(w) /\ w.copies = work.copies
        /\ \A t \in Tables : w.tables[t] = IF t = on THEN Missing ELSE work.tables[t]
    BY <1>0, FreshTables, FileChanged
  <2>3. rebuild.step = "drop"
    BY <2>1 DEF Rebuilding
  <2> HIDE DEF w
  <2>4. /\ rebuild' = [step |-> "rename", on |-> on] /\ db' = db /\ work' = w
        /\ Rebuilt' => File'
        /\ RowsKept /\ SessionsKept
    BY <2>1, <2>2, RebuildingFile
  <2>5. Rebuilt'
    BY <2>2, <2>3, <2>4 DEF File, Rebuilt
  <2> QED
    BY <2>4, <2>5
<1>7. CASE RenameCopy
  <2> DEFINE w == CopyWith(TableWith(work, on, work.copies[on]), on, Missing)
  <2>1. Rebuilding("rename", "commit") /\ InTransaction(w)
    BY <1>7 DEF RenameCopy, TableWith, CopyWith
  <2>2. on \in Tables => TableShape(work.copies[on])
    BY <1>0 DEF FileShape
  <2>3. /\ FileShape(w)
        /\ \A t \in Tables : w.tables[t] = IF t = on THEN work.copies[on] ELSE work.tables[t]
    <3> DEFINE u == TableWith(work, on, work.copies[on])
    <3>1. /\ FileShape(u)
          /\ \A t \in Tables : u.tables[t] = IF t = on THEN work.copies[on] ELSE work.tables[t]
      BY <1>0, <2>2, FileChanged
    <3> HIDE DEF u
    <3>2. FileShape(CopyWith(u, on, Missing)) /\ CopyWith(u, on, Missing).tables = u.tables
      BY <3>1, FreshTables, FileChanged
    <3> QED
      BY <3>1, <3>2 DEF u
  <2>4. rebuild.step = "rename"
    BY <2>1 DEF Rebuilding
  <2> HIDE DEF w
  <2>5. /\ rebuild' = [step |-> "commit", on |-> on] /\ db' = db /\ work' = w
        /\ Rebuilt' => File'
        /\ RowsKept /\ SessionsKept
    BY <2>1, <2>3, RebuildingFile
  <2>6. SameRows(db, w)
    <3>1. ASSUME NEW t \in Tables
          PROVE  /\ w.tables[t].rows = db.tables[t].rows
                 /\ db.tables[t].there => w.tables[t].there
                 /\ w.tables[t].key => w.tables[t].there
      <4>1. CASE t = on
        BY <2>3, <2>4, <4>1 DEF File, Rebuilt
      <4>2. CASE t # on
        BY <2>3, <2>4, <4>2 DEF File, Rebuilt, Sound, AbsentIsEmpty
      <4> QED
        BY <4>1, <4>2
    <3> QED
      BY <3>1 DEF SameRows
  <2>7. Rebuilt'
    BY <2>5, <2>6 DEF Rebuilt
  <2> QED
    BY <2>5, <2>7
<1>8. CASE CommitRebuild
  <2>1. /\ rebuild.step = "commit" /\ rebuild' = Idle /\ db' = work /\ work' = work
        /\ phase' = phase /\ phase = "opening" /\ UNCHANGED <<recorded, observed>>
    BY <1>8 DEF CommitRebuild, Commit, Kept
  <2>2. SameRows(db, work)
    BY <2>1 DEF File, Rebuilt
  <2>3. Sound(work)
    BY <1>0, <2>2, SameRowsSound
  <2>4. Rebuilt'
    BY <2>1 DEF Rebuilt, Idle
  <2>5. File'
    BY <1>0, <2>1, <2>3, <2>4 DEF File, Ready
  <2> QED
    BY <2>1, <2>2, <2>5, SameRowsKept
<1> QED
  BY <1>1, <1>2, <1>3, <1>4, <1>5, <1>6, <1>7, <1>8 DEF Repair

\* The statements outside a rebuild.
LEMMA EnsureFile ==
  ASSUME File, Ensure
  PROVE  /\ File' /\ RowsKept
         /\ \/ SessionsKept /\ (Refuse \/ Head(script).op # "backfillSessions")
            \/ /\ Head(script).op = "backfillSessions"
               /\ db'.tables["sessions"].rows =
                    LeastSeen(db.tables["sessions"].rows, db.tables["requests"].rows)
<1>1. CASE AddColumn \/ CreateTable \/ CreateIndex \/ DropDefault
  <2>1. phase = "opening" /\ rebuild = Idle /\ Head(script).op # "backfillSessions"
    BY <1>1 DEF AddColumn, CreateTable, CreateIndex, DropDefault, At
  <2> QED
    BY <1>1, <2>1, TablesStay, SkipFile, RefuseFile, UntouchedFile
<1>2. CASE CreateView \/ CreateStaging \/ AddStagingEffort
  <2>1. phase = "opening" /\ rebuild = Idle /\ Head(script).op # "backfillSessions"
    BY <1>2 DEF CreateView, CreateStaging, AddStagingEffort, At
  <2> QED
    BY <1>2, <2>1, BesideTables, SkipFile, UntouchedFile
<1>3. CASE BackfillRequests
  <2>1. phase = "opening" /\ rebuild = Idle /\ Head(script).op # "backfillSessions"
    BY <1>3 DEF BackfillRequests, At
  <2>2. PICK d : /\ Done(d) /\ Sound(d)
                 /\ \A t \in Tables : /\ Ids(d.tables[t]) = Ids(db.tables[t])
                                       /\ d.tables[t].there = db.tables[t].there
                 /\ d.tables["sessions"] = db.tables["sessions"]
                 /\ Sightings(d.tables["requests"].rows) = Sightings(db.tables["requests"].rows)
    BY <1>3, RequestsBackfilled
  <2>3. File' /\ db' = d /\ UNCHANGED <<recorded, observed>>
    BY <2>1, <2>2, DoneFile
  <2> QED
    BY <2>1, <2>2, <2>3 DEF RowsKept, SessionsKept
<1>4. CASE BackfillSessions
  <2>1. phase = "opening" /\ rebuild = Idle /\ Head(script).op = "backfillSessions"
    BY <1>4 DEF BackfillSessions, At
  <2>2. CASE Refuse
    BY <2>2, RefuseFile
  <2>3. ASSUME NEW d, Done(d), Sound(d),
               \A t \in Tables : t # "sessions" => d.tables[t] = db.tables[t],
               d.tables["sessions"].rows =
                 LeastSeen(db.tables["sessions"].rows, db.tables["requests"].rows)
        PROVE  /\ File' /\ RowsKept
               /\ db'.tables["sessions"].rows =
                    LeastSeen(db.tables["sessions"].rows, db.tables["requests"].rows)
    <3>1. File' /\ db' = d /\ UNCHANGED <<recorded, observed>>
      BY <2>1, <2>3, DoneFile
    <3>2. "requests" \in Tables
      BY DEF Tables
    <3> QED
      BY <2>3, <3>1, <3>2 DEF RowsKept
  <2> QED
    BY <1>4, <2>1, <2>2, <2>3, SessionsBackfilled
<1>5. CASE Validate
  <2>1. CASE Refuse
    BY <2>1, RefuseFile
  <2>2. CASE Valid /\ phase' = "retaining" /\ UNCHANGED <<rebuild, db, work>> /\ Kept
    <3>1. /\ rebuild = Idle /\ \A t \in Tables : db.tables[t].there
          /\ Head(script).op # "backfillSessions"
      BY <1>5, <2>2 DEF Validate, At, Valid
    <3>2. File'
      BY <2>2, <3>1 DEF File, Rebuilt, Sound, Ready
    <3> QED
      BY <2>2, <3>1, <3>2, SameFileKept DEF Kept
  <2> QED
    BY <1>5, <2>1, <2>2 DEF Validate
<1> QED
  BY <1>1, <1>2, <1>3, <1>4, <1>5 DEF Ensure

LEMMA StartStopFile ==
  ASSUME File, Start \/ Stop
  PROVE  File' /\ RowsKept /\ SessionsKept
<1>1. CASE Start
  <2>1. UNCHANGED <<db, work, rebuild, recorded, observed>> /\ phase' = "opening"
    BY <1>1 DEF Start
  <2>2. File'
    BY <2>1 DEF File, Rebuilt, Sound, Ready
  <2> QED
    BY <2>1, <2>2, SameFileKept
<1>2. CASE Stop
  BY <1>2, EndedFile, SameFileKept DEF Stop
<1> QED
  BY <1>1, <1>2

-----------------------------------------------------------------------------
(* The open ledger.                                                        *)

TablesWith(f, T) == [f EXCEPT !.tables = T]

\* Tables with other rows.
LEMMA RowsReplaced ==
  ASSUME Sound(db), \A t \in Tables : db.tables[t].there, NEW T,
         T = [t \in Tables |-> T[t]],
         \A t \in Tables : /\ TableShape(T[t]) /\ T[t].there = db.tables[t].there
                           /\ T[t].key = db.tables[t].key,
         \A r \in T["requests"].rows : IsRequest(r),
         \A s \in T["sessions"].rows : IsSession(s)
  PROVE  /\ Sound(TablesWith(db, T)) /\ TablesWith(db, T).tables = T
         /\ \A t \in Tables : TablesWith(db, T).tables[t].there
<1>1. TablesWith(db, T) =
        [tables |-> T, copies |-> db.copies, staging |-> db.staging, view |-> db.view]
  BY DEF TablesWith, Sound, FileShape
<1>2. FileShape(TablesWith(db, T)) /\ TablesWith(db, T).tables = T
  BY <1>1 DEF Sound, FileShape
<1>3. AbsentIsEmpty(TablesWith(db, T)) /\ RowsTyped(TablesWith(db, T))
  BY <1>2 DEF AbsentIsEmpty, RowsTyped
<1> QED
  BY <1>2, <1>3 DEF Sound

LEMMA OpenFile ==
  ASSUME File, Ready, NEW d, Sound(d), \A t \in Tables : d.tables[t].there,
         Commit(d), phase' = "open", UNCHANGED rebuild
  PROVE  File'
<1>1. rebuild = Idle /\ db' = d /\ work' = d
  BY DEF File, Ready, Commit
<1>2. Rebuilt'
  BY <1>1 DEF Rebuilt, Idle
<1> QED
  BY <1>1, <1>2 DEF File, Sound, Ready

\* The identities of what a table keeps.
LEMMA IdsLeft ==
  ASSUME NEW S, NEW gone
  PROVE  /\ {r.id : r \in {x \in S : x.id \notin gone}} = {r.id : r \in S} \ gone
         /\ {r.id : r \in {x \in S : x.id[1] \notin gone}} =
              {i \in {r.id : r \in S} : i[1] \notin gone}
  OBVIOUS

LEMMA RetainFile ==
  ASSUME File, LedgerKept, NEW c, Retain(c)
  PROVE  /\ File' /\ LedgerKept'
         /\ db'.tables["requests"].rows \subseteq db.tables["requests"].rows
         /\ SessionsKept
<1> DEFINE gone == Expired(c)
           Rest(t) == IF t = "requests" THEN {r \in db.tables[t].rows : r.id \notin gone}
                      ELSE {r \in db.tables[t].rows : r.id[1] \notin gone}
           Cleared(t) == IF t = "sessions" THEN db.tables[t] ELSE RowsWith(db.tables[t], Rest(t))
           T == [t \in Tables |-> Cleared(t)]
           left == [t \in Tables |->
                      CASE t = "requests" -> recorded[t] \ gone
                        [] t = "sessions" -> recorded[t]
                        [] OTHER -> {i \in recorded[t] : i[1] \notin gone}]
<1>0. /\ Sound(db) /\ "requests" \in Tables /\ "sessions" \in Tables
      /\ \A t \in Tables : TableShape(db.tables[t]) /\ db.tables[t].there
      /\ Ready
  BY DEF File, Sound, FileShape, Tables, Retain, Ready
<1>1. Commit(TablesWith(db, T)) /\ phase' = "open" /\ UNCHANGED rebuild
  BY DEF Retain, TablesWith, RowsWith
<1>2. recorded' = left
  BY DEF Retain
<1>3. ASSUME NEW t \in Tables, t # "sessions"
      PROVE  TableShape(T[t]) /\ T[t].rows = Rest(t) /\ T[t].there = db.tables[t].there
             /\ T[t].key = db.tables[t].key
  <2>1. T[t] = RowsWith(db.tables[t], Rest(t))
    BY <1>3
  <2> HIDE DEF T, Rest
  <2> QED
    BY <1>0, <2>1, TableChanged
<1>4. T["sessions"] = db.tables["sessions"]
  BY <1>0
<1>5. Rest("requests") \subseteq db.tables["requests"].rows
  OBVIOUS
<1>6. T = [t \in Tables |-> T[t]]
  OBVIOUS
<1>7. \A t \in Tables \ {"sessions"} : left[t] =
         IF t = "requests" THEN recorded[t] \ gone ELSE {i \in recorded[t] : i[1] \notin gone}
  OBVIOUS
<1>8. ASSUME NEW t \in Tables \ {"sessions"}
      PROVE  {r.id : r \in Rest(t)} = left[t]
  <2>1. recorded[t] = {r.id : r \in db.tables[t].rows}
    BY <1>8 DEF LedgerKept, Ids
  <2>2. CASE t = "requests"
    BY <1>7, <2>1, <2>2, IdsLeft
  <2>3. CASE t # "requests"
    <3>1. Rest(t) = {r \in db.tables[t].rows : r.id[1] \notin gone}
      BY <2>3
    <3>2. left[t] = {i \in recorded[t] : i[1] \notin gone}
      BY <1>7, <1>8, <2>3
    <3> HIDE DEF Rest, left, gone
    <3> QED
      BY <2>1, <3>1, <3>2, IdsLeft
  <2> QED
    BY <2>2, <2>3
<1> HIDE DEF T, Rest, left, gone
<1>9. /\ Sound(TablesWith(db, T)) /\ TablesWith(db, T).tables = T
      /\ \A t \in Tables : TablesWith(db, T).tables[t].there
  <2>1. \A t \in Tables : /\ TableShape(T[t]) /\ T[t].there = db.tables[t].there
                           /\ T[t].key = db.tables[t].key
    BY <1>0, <1>3, <1>4
  <2>2. (\A r \in T["requests"].rows : IsRequest(r)) /\ \A s \in T["sessions"].rows : IsSession(s)
    BY <1>0, <1>3, <1>4, <1>5 DEF Sound, RowsTyped
  <2> QED
    BY <1>0, <1>6, <2>1, <2>2, RowsReplaced
<1>10. File'
  BY <1>0, <1>1, <1>9, OpenFile
<1>11. db'.tables = T
  BY <1>1, <1>9 DEF Commit
<1>12. LedgerKept'
  BY <1>2, <1>3, <1>8, <1>11 DEF LedgerKept, Ids
<1> QED
  BY <1>0, <1>3, <1>4, <1>5, <1>10, <1>11, <1>12 DEF SessionsKept

\* The row of an event, as the queue's writer completes it.
LEMMA RowOfEvent ==
  ASSUME NEW r \in Events
  PROVE  LET row == [r EXCEPT !.session = IF r.session # "" THEN r.session ELSE r.codex]
         IN IsRequest(row) /\ row.id = r.id
<1>1. IsRequest(r)
  BY SchemaAssumption
<1> DEFINE s == IF r.session # "" THEN r.session ELSE r.codex
<1>2. s \in STRING
  BY <1>1 DEF IsRequest
<1> HIDE DEF s
<1>3. [r EXCEPT !.session = s] = [id |-> r.id, start |-> r.start, known |-> r.known,
                                 session |-> s, codex |-> r.codex]
  BY <1>1 DEF IsRequest
<1>4. IsRequest([r EXCEPT !.session = s]) /\ [r EXCEPT !.session = s].id = r.id
  BY <1>1, <1>2, <1>3 DEF IsRequest
<1> QED
  BY <1>4 DEF s

LEMMA InsertedIds ==
  ASSUME NEW t, NEW R
  PROVE  {r.id : r \in Inserted(t, R)} = Ids(t) \cup {r.id : r \in R}
  BY DEF Inserted, Ids

LEMMA RecordFile ==
  ASSUME File, LedgerKept, NEW r \in Events, Record(r)
  PROVE  /\ File' /\ LedgerKept'
         /\ \E row : /\ IsRequest(row)
                     /\ db'.tables["requests"].rows \subseteq
                          db.tables["requests"].rows \cup {row}
                     /\ db'.tables["sessions"].rows = LeastSeen(db.tables["sessions"].rows, {row})
                     /\ observed' = observed \cup Sightings({row})
<1> DEFINE row == [r EXCEPT !.session = IF r.session # "" THEN r.session ELSE r.codex]
           Rows(t) == CASE t = "requests" -> Inserted(db.tables[t], {row})
                        [] t = "sessions" -> LeastSeen(db.tables[t].rows, {row})
                        [] OTHER -> Inserted(db.tables[t], Children[t][r.id])
           T == [t \in Tables |-> RowsWith(db.tables[t], Rows(t))]
           more == [t \in Tables |->
                      CASE t = "requests" -> recorded[t] \cup {r.id}
                        [] t = "sessions" -> recorded[t]
                        [] OTHER -> recorded[t] \cup {c.id : c \in Children[t][r.id]}]
<1>0. /\ Sound(db) /\ "requests" \in Tables /\ "sessions" \in Tables
      /\ \A t \in Tables : TableShape(db.tables[t]) /\ db.tables[t].there
      /\ Ready
  BY DEF File, Sound, FileShape, Tables, Record, Ready
<1>1. Commit(TablesWith(db, T)) /\ phase' = "open" /\ UNCHANGED rebuild
  BY DEF Record, TablesWith, RowsWith
<1>2. recorded' = more /\ observed' = observed \cup Sightings({row})
  BY DEF Record
<1>3. IsRequest(row) /\ row.id = r.id
  BY RowOfEvent
<1> HIDE DEF row
<1>4. /\ Rows("requests") = Inserted(db.tables["requests"], {row})
      /\ Rows("sessions") = LeastSeen(db.tables["sessions"].rows, {row})
      /\ \A t : t # "requests" /\ t # "sessions" =>
           Rows(t) = Inserted(db.tables[t], Children[t][r.id])
  OBVIOUS
<1>5. /\ more["requests"] = recorded["requests"] \cup {r.id}
      /\ \A t \in Tables : t # "requests" /\ t # "sessions" =>
           more[t] = recorded[t] \cup {c.id : c \in Children[t][r.id]}
  BY <1>0
<1> HIDE DEF Rows
<1>6. ASSUME NEW t \in Tables
      PROVE  TableShape(T[t]) /\ T[t].rows = Rows(t) /\ T[t].there = db.tables[t].there
             /\ T[t].key = db.tables[t].key
  <2>1. T[t] = RowsWith(db.tables[t], Rows(t))
    OBVIOUS
  <2> HIDE DEF T
  <2> QED
    BY <1>0, <2>1, TableChanged
<1>7. T = [t \in Tables |-> T[t]]
  OBVIOUS
<1> HIDE DEF T, more
<1>8. /\ Sound(TablesWith(db, T)) /\ TablesWith(db, T).tables = T
      /\ \A t \in Tables : TablesWith(db, T).tables[t].there
  <2>1. \A q \in T["requests"].rows : IsRequest(q)
    BY <1>0, <1>3, <1>4, <1>6 DEF Inserted, Sound, RowsTyped
  <2>2. \A s \in T["sessions"].rows : IsSession(s)
    BY <1>0, <1>3, <1>4, <1>6, SeenTyped DEF Sound, RowsTyped
  <2> QED
    BY <1>0, <1>6, <1>7, <2>1, <2>2, RowsReplaced
<1>9. File'
  BY <1>0, <1>1, <1>8, OpenFile
<1>10. db'.tables = T
  BY <1>1, <1>8 DEF Commit
<1>11. ASSUME NEW t \in Tables \ {"sessions"}
       PROVE  Ids(db'.tables[t]) = recorded'[t]
  <2>1. Ids(db.tables[t]) = recorded[t]
    BY DEF LedgerKept
  <2>2. Ids(db'.tables[t]) = {q.id : q \in Rows(t)}
    BY <1>6, <1>10 DEF Ids
  <2>3. CASE t = "requests"
    <3>1. {q.id : q \in Rows(t)} = Ids(db.tables[t]) \cup {q.id : q \in {row}}
      BY <1>4, <2>3, InsertedIds
    <3>2. {q.id : q \in {row}} = {r.id}
      BY <1>3
    <3> QED
      BY <1>2, <1>5, <2>1, <2>2, <2>3, <3>1, <3>2
  <2>4. CASE t # "requests"
    <3>1. Rows(t) = Inserted(db.tables[t], Children[t][r.id])
      BY <1>4, <1>11, <2>4
    <3>2. {q.id : q \in Rows(t)} = Ids(db.tables[t]) \cup {q.id : q \in Children[t][r.id]}
      BY <3>1, InsertedIds
    <3> QED
      BY <1>2, <1>5, <1>11, <2>1, <2>2, <2>4, <3>2
  <2> QED
    BY <2>3, <2>4
<1>12. LedgerKept'
  BY <1>11 DEF LedgerKept
<1>13. /\ db'.tables["requests"].rows \subseteq db.tables["requests"].rows \cup {row}
       /\ db'.tables["sessions"].rows = LeastSeen(db.tables["sessions"].rows, {row})
  BY <1>0, <1>4, <1>6, <1>10 DEF Inserted
<1> QED
  BY <1>2, <1>3, <1>9, <1>12, <1>13

-----------------------------------------------------------------------------
LEMMA LedgerKeptWith == LedgerKept /\ RowsKept => LedgerKept'
  BY DEF LedgerKept, RowsKept

LEMMA FileInitially == Init => File /\ LedgerKept
<1> SUFFICES ASSUME Init PROVE File /\ LedgerKept
  OBVIOUS
<1>1. IsLedger(db) /\ work = db /\ rebuild = Idle /\ phase = "down"
  BY SchemaAssumption DEF Init
<1>2. ASSUME NEW t, IsTable(t) PROVE TableShape(t)
  BY <1>2 DEF IsTable, TableShape
<1>3. FileShape(db)
  <2>1. \A f \in {db.tables, db.copies} : f = [t \in Tables |-> f[t]]
    BY <1>1 DEF IsLedger
  <2> QED
    BY <1>1, <1>2, <2>1 DEF IsLedger, FileShape
<1>4. Sound(db)
  BY <1>1, <1>3 DEF IsLedger, Sound, AbsentIsEmpty, RowsTyped
<1>5. File
  BY <1>1, <1>3, <1>4 DEF File, Rebuilt, Idle, Ready
<1>6. LedgerKept
  BY DEF Init, LedgerKept
<1> QED
  BY <1>5, <1>6

LEMMA FileStep == File /\ LedgerKept /\ [Next]_vars => File' /\ LedgerKept'
<1> SUFFICES ASSUME File, LedgerKept, [Next]_vars PROVE File' /\ LedgerKept'
  OBVIOUS
<1>1. CASE Start \/ Stop
  BY <1>1, StartStopFile, LedgerKeptWith
<1>2. CASE Repair
  BY <1>2, RepairFile, LedgerKeptWith
<1>3. CASE Ensure
  BY <1>3, EnsureFile, LedgerKeptWith
<1>4. ASSUME NEW c \in Cutoffs, Retain(c) PROVE File' /\ LedgerKept'
  BY <1>4, RetainFile
<1>5. ASSUME NEW r \in Events, Record(r) PROVE File' /\ LedgerKept'
  BY <1>5, RecordFile
<1>6. CASE UNCHANGED vars
  BY <1>6 DEF vars, File, Rebuilt, Sound, Ready, LedgerKept
<1> QED
  BY <1>1, <1>2, <1>3, <1>4, <1>5, <1>6 DEF Next, Opening

\* Wherever a repair, an upgrade or retention is cut off, the committed file holds
\* every request and child row ever recorded and not expired, and no other.
THEOREM SchemaKeepsTheLedger == Spec => []LedgerKept
  BY FileInitially, FileStep, PTL DEF Spec

-----------------------------------------------------------------------------
(* Sightings: what the earliest of them depend on.                         *)

\* A set of numbers that is not empty has a least one.
LEMMA LeastStart ==
  ASSUME NEW S, S \subseteq Nat, S # {}
  PROVE  \E x \in S : \A y \in S : x =< y
<1> DEFINE R == {ss \in Nat \X Nat : ss[1] < ss[2]}
<1>1. IsWellFoundedOn(R, Nat)
  BY NatLessThanWellFounded DEF OpToRel
<1>2. PICK x \in S : \A y \in S : ~ (<<y, x>> \in R)
  <2> HIDE DEF R
  <2> QED
    BY <1>1, WFMin
<1>3. ASSUME NEW y \in S PROVE x =< y
  <2>1. x \in Nat /\ y \in Nat
    OBVIOUS
  <2>2. <<y, x>> \notin R
    BY <1>2
  <2>3. ~ (y < x)
    BY <2>1, <2>2
  <2> QED
    BY <2>1, <2>3
<1> QED
  BY <1>3

\* Whoever was seen was seen a first time.
LEMMA HasEarliest ==
  ASSUME NEW O, \A o \in O : IsSession(o), NEW p \in O
  PROVE  \E q \in Earliest(O) : q.id = p.id /\ q.start =< p.start
<1> DEFINE S == {o.start : o \in {x \in O : x.id = p.id}}
<1>1. \A o \in O : o.start \in Nat
  BY DEF IsSession
<1>2. S \subseteq Nat /\ p.start \in S
  BY <1>1
<1>3. PICK n \in S : \A m \in S : n =< m
  <2> HIDE DEF S
  <2> QED
    BY <1>2, LeastStart
<1>4. PICK q \in O : q.id = p.id /\ q.start = n
  BY <1>3
<1>5. \A o \in O : q.id = o.id => q.start =< o.start
  BY <1>3, <1>4
<1>6. q \in Earliest(O)
  BY <1>5 DEF Earliest
<1> QED
  BY <1>2, <1>3, <1>4, <1>6

\* Sightings that others precede do not matter.
LEMMA EarliestOfPart ==
  ASSUME NEW O, NEW X, X \subseteq O, Earliest(O) \subseteq X, \A o \in O : IsSession(o)
  PROVE  Earliest(X) = Earliest(O)
<1>1. \A o \in O : o.start \in Nat
  BY DEF IsSession
<1>2. ASSUME NEW o \in Earliest(O) PROVE o \in Earliest(X)
  BY <1>2 DEF Earliest
<1>3. ASSUME NEW o \in Earliest(X) PROVE o \in Earliest(O)
  <2>1. o \in O
    BY <1>3 DEF Earliest
  <2>2. ASSUME NEW p \in O, o.id = p.id PROVE o.start =< p.start
    <3>1. PICK q \in Earliest(O) : q.id = p.id /\ q.start =< p.start
      BY HasEarliest
    <3>2. q \in X /\ q \in O /\ o.id = q.id
      BY <2>2, <3>1 DEF Earliest
    <3>3. o.start =< q.start
      BY <1>3, <3>2 DEF Earliest
    <3> QED
      BY <1>1, <2>1, <3>1, <3>2, <3>3
  <2> QED
    BY <2>1, <2>2 DEF Earliest
<1> QED
  BY <1>2, <1>3

LEMMA EarliestAmong ==
  ASSUME NEW O, NEW S
  PROVE  Earliest(O \cup S) \subseteq Earliest(O) \cup S
  BY DEF Earliest

-----------------------------------------------------------------------------
(* The registry.                                                           *)

Ops == {"repair", "create", "column", "index", "backfillRequests", "backfillSessions",
        "dropDefault", "view", "staging", "stagingEffort", "validate"}

Statement ==
  [op : Ops, on : ToSet(InOrder) \cup ToSet(AddedColumns) \cup ToSet(Indexes) \cup {""}]

Has(s, op) == \E i \in DOMAIN s : s[i].op = op

\* Nothing is validated before the registry has been backfilled.
Registering(s) ==
  \A i \in DOMAIN s : s[i].op = "validate" => \E j \in 1..(i - 1) : s[j].op = "backfillSessions"

Seen == db.tables["sessions"].rows \cup Sightings(db.tables["requests"].rows)
IsRegistered == db.tables["sessions"].rows = Earliest(observed)

\* The first sighting of a session is in the registry or in a request that is
\* still there, and a start brings it into the registry.
Registry ==
  /\ \A o \in observed : IsSession(o)
  /\ Seen \subseteq observed
  /\ Earliest(observed) \subseteq Seen
  /\ Ready => IsRegistered
  /\ phase = "opening" =>
       /\ script \in Seq(Statement) /\ Has(script, "validate")
       /\ IsRegistered \/ Registering(script)
       /\ rebuild # Idle => Head(script).op = "repair"

LEMMA TailOfScript ==
  ASSUME NEW s \in Seq(Statement), Has(s, "validate"), Head(s).op # "validate"
  PROVE  /\ Tail(s) \in Seq(Statement) /\ Has(Tail(s), "validate")
         /\ Registering(s) /\ Head(s).op # "backfillSessions" => Registering(Tail(s))
<1>1. PICK n \in DOMAIN s : s[n].op = "validate"
  BY DEF Has
<1>2. s # <<>> /\ n \in 1..Len(s) /\ Len(s) \in Nat /\ Head(s) = s[1]
  BY <1>1
<1>3. /\ Tail(s) \in Seq(Statement) /\ Len(Tail(s)) = Len(s) - 1
      /\ \A i \in 1..(Len(s) - 1) : Tail(s)[i] = s[i + 1]
      /\ DOMAIN Tail(s) = 1..(Len(s) - 1)
  BY <1>2
<1>4. n # 1
  BY <1>1, <1>2
<1>5. n - 1 \in 1..(Len(s) - 1) /\ (n - 1) + 1 = n
  BY <1>2, <1>4
<1>6. Has(Tail(s), "validate")
  BY <1>1, <1>3, <1>5 DEF Has
<1>7. ASSUME Registering(s), Head(s).op # "backfillSessions" PROVE Registering(Tail(s))
  <2> SUFFICES ASSUME NEW i \in 1..(Len(s) - 1), Tail(s)[i].op = "validate"
               PROVE  \E j \in 1..(i - 1) : Tail(s)[j].op = "backfillSessions"
    BY <1>3 DEF Registering
  <2>1. i + 1 \in DOMAIN s /\ s[i + 1].op = "validate"
    BY <1>2, <1>3
  <2>2. PICK j \in 1..((i + 1) - 1) : s[j].op = "backfillSessions"
    BY <1>7, <2>1 DEF Registering
  <2>3. j # 1
    BY <1>2, <1>7, <2>2
  <2>4. j - 1 \in 1..(i - 1) /\ j - 1 \in 1..(Len(s) - 1) /\ (j - 1) + 1 = j
    BY <1>2, <2>2, <2>3
  <2> QED
    BY <1>3, <2>2, <2>4
<1> QED
  BY <1>3, <1>6, <1>7

\* Parts of a script.
LEMMA ScriptParts ==
  ASSUME NEW s \in Seq(Statement), NEW t \in Seq(Statement)
  PROVE  /\ s \o t \in Seq(Statement)
         /\ \A op : Has(s \o t, op) <=> Has(s, op) \/ Has(t, op)
         /\ ~ Has(s, "validate") /\ Has(s, "backfillSessions") => Registering(s \o t)
<1> DEFINE st == s \o t
<1>1. /\ st \in Seq(Statement) /\ DOMAIN st = 1..(Len(s) + Len(t))
      /\ Len(s) \in Nat /\ Len(t) \in Nat
      /\ DOMAIN s = 1..Len(s) /\ DOMAIN t = 1..Len(t)
      /\ \A i \in 1..(Len(s) + Len(t)) : st[i] = IF i =< Len(s) THEN s[i] ELSE t[i - Len(s)]
  OBVIOUS
<1> HIDE DEF st
<1>2. ASSUME NEW op PROVE Has(st, op) <=> Has(s, op) \/ Has(t, op)
  <2>1. ASSUME NEW i \in DOMAIN st, st[i].op = op PROVE Has(s, op) \/ Has(t, op)
    <3>1. CASE i =< Len(s)
      BY <1>1, <2>1, <3>1 DEF Has
    <3>2. CASE ~ (i =< Len(s))
      <4>1. i - Len(s) \in DOMAIN t /\ st[i] = t[i - Len(s)]
        BY <1>1, <2>1, <3>2
      <4> QED
        BY <2>1, <4>1 DEF Has
    <3> QED
      BY <3>1, <3>2
  <2>2. ASSUME NEW i \in DOMAIN s, s[i].op = op PROVE Has(st, op)
    BY <1>1, <2>2 DEF Has
  <2>3. ASSUME NEW i \in DOMAIN t, t[i].op = op PROVE Has(st, op)
    <3>1. i + Len(s) \in DOMAIN st /\ st[i + Len(s)] = t[i]
      BY <1>1
    <3> QED
      BY <2>3, <3>1 DEF Has
  <2> QED
    BY <2>1, <2>2, <2>3 DEF Has
<1>3. ASSUME ~ Has(s, "validate"), Has(s, "backfillSessions") PROVE Registering(st)
  <2>1. PICK j \in 1..Len(s) : s[j].op = "backfillSessions"
    BY <1>1, <1>3 DEF Has
  <2> SUFFICES ASSUME NEW i \in 1..(Len(s) + Len(t)), st[i].op = "validate"
               PROVE  \E k \in 1..(i - 1) : st[k].op = "backfillSessions"
    BY <1>1 DEF Registering
  <2>2. ~ (i =< Len(s))
    BY <1>1, <1>3 DEF Has
  <2>3. j \in 1..(i - 1) /\ st[j] = s[j]
    BY <1>1, <2>2
  <2> QED
    BY <2>1, <2>3
<1> QED
  BY <1>1, <1>2, <1>3 DEF st

LEMMA EntriesOfScript ==
  ASSUME NEW op \in Ops
  PROVE  /\ \A ons \in {InOrder, AddedColumns, Indexes} :
              /\ Entries(op, ons) \in Seq(Statement)
              /\ \A o : Has(Entries(op, ons), o) <=> o = op
         /\ Entry(op) \in Seq(Statement)
         /\ \A o : Has(Entry(op), o) <=> o = op
<1>1. ASSUME NEW ons, NEW n \in Nat \ {0}, DOMAIN ons = 1..n,
             ToSet(ons) \subseteq ToSet(InOrder) \cup ToSet(AddedColumns) \cup ToSet(Indexes)
      PROVE  /\ Entries(op, ons) \in Seq(Statement)
             /\ \A o : Has(Entries(op, ons), o) <=> o = op
  <2>1. \A i \in 1..n : [op |-> op, on |-> ons[i]] \in Statement
    BY <1>1 DEF Statement, ToSet
  <2>2. Entries(op, ons) = [i \in 1..n |-> [op |-> op, on |-> ons[i]]]
    BY <1>1 DEF Entries
  <2>3. Entries(op, ons) \in Seq(Statement)
    BY <2>1, <2>2
  <2>4. DOMAIN Entries(op, ons) = 1..n /\ \A i \in 1..n : Entries(op, ons)[i].op = op
    BY <2>2
  <2>5. 1 \in 1..n
    OBVIOUS
  <2> QED
    BY <2>3, <2>4, <2>5 DEF Has
<1>2. DOMAIN InOrder = 1..4 /\ DOMAIN AddedColumns = 1..8 /\ DOMAIN Indexes = 1..10
  BY DEF InOrder, AddedColumns, Indexes
<1> DEFINE e == [op |-> op, on |-> ""]
<1>3. e \in Statement /\ e.op = op /\ Entry(op) = <<e>>
  BY DEF Statement, Entry
<1> HIDE DEF e
<1>4. /\ Entry(op) \in Seq(Statement)
      /\ DOMAIN Entry(op) = 1..1 /\ Entry(op)[1] = e
  BY <1>3
<1>5. \A o : Has(Entry(op), o) <=> o = op
  BY <1>3, <1>4 DEF Has
<1>6. /\ 4 \in Nat \ {0} /\ 8 \in Nat \ {0} /\ 10 \in Nat \ {0}
      /\ \A ons \in {InOrder, AddedColumns, Indexes} :
           ToSet(ons) \subseteq ToSet(InOrder) \cup ToSet(AddedColumns) \cup ToSet(Indexes)
  <2> HIDE DEF InOrder, AddedColumns, Indexes, ToSet
  <2> QED
    OBVIOUS
<1>7. \A ons \in {InOrder, AddedColumns, Indexes} :
        /\ Entries(op, ons) \in Seq(Statement)
        /\ \A o : Has(Entries(op, ons), o) <=> o = op
  BY <1>1, <1>2, <1>6, Zenon
<1> QED
  BY <1>4, <1>5, <1>7

LEMMA ScriptOfStart ==
  ASSUME NEW k
  PROVE  Script(k) \in Seq(Statement) /\ Has(Script(k), "validate") /\ Registering(Script(k))
<1> DEFINE Quiet(s)  == s \in Seq(Statement) /\ ~ Has(s, "validate")
           Before(s) == Quiet(s) /\ Has(s, "backfillSessions")
<1>0. "validate" \in Ops /\ "backfillSessions" \in Ops
  BY DEF Ops
<1>1. ASSUME NEW s, NEW t, Quiet(s), Quiet(t)
      PROVE  /\ Quiet(s \o t)
             /\ Has(s \o t, "backfillSessions") <=>
                  Has(s, "backfillSessions") \/ Has(t, "backfillSessions")
  BY <1>0, <1>1, ScriptParts, Zenon
<1>2. ASSUME NEW s, NEW t, Before(s), Quiet(t) PROVE Before(s \o t)
  BY <1>1, <1>2, Zenon
<1>3. ASSUME NEW s, NEW t, Quiet(s), Before(t) PROVE Before(s \o t)
  BY <1>1, <1>3, Zenon
<1>4. \A op \in Ops \ {"validate"} :
        Quiet(Entries(op, InOrder)) /\ Quiet(Entries(op, AddedColumns))
        /\ Quiet(Entries(op, Indexes)) /\ Quiet(Entry(op))
  <2> SUFFICES ASSUME NEW op \in Ops, op # "validate"
               PROVE  Quiet(Entries(op, InOrder)) /\ Quiet(Entries(op, AddedColumns))
                      /\ Quiet(Entries(op, Indexes)) /\ Quiet(Entry(op))
    OBVIOUS
  <2>1. \A ons \in {InOrder, AddedColumns, Indexes} : Quiet(Entries(op, ons))
    BY EntriesOfScript, Zenon
  <2>2. Quiet(Entry(op))
    BY EntriesOfScript, Zenon
  <2> HIDE DEF Quiet
  <2> QED
    BY <2>1, <2>2, Zenon
<1>5. Before(Entry("backfillSessions"))
  <2>1. "backfillSessions" # "validate"
    OBVIOUS
  <2> QED
    BY <1>0, <2>1, EntriesOfScript, Zenon
<1> HIDE DEF Quiet, Before
<1>6. /\ Quiet(Entries("create", InOrder)) /\ Quiet(Entries("repair", InOrder))
      /\ Quiet(Entries("staging", InOrder)) /\ Quiet(Entries("column", AddedColumns))
      /\ Quiet(Entries("index", Indexes)) /\ Quiet(Entry("backfillRequests"))
      /\ Quiet(Entry("dropDefault")) /\ Quiet(Entry("view")) /\ Quiet(Entry("stagingEffort"))
  BY <1>4 DEF Ops
<1>7. Before(EnsureLedger)
  BY <1>1, <1>2, <1>3, <1>5, <1>6 DEF EnsureLedger
<1>8. Quiet(Repairs) /\ Quiet(EnsureStaging)
  BY <1>1, <1>6 DEF Repairs, EnsureStaging
<1>9. Before(Repairs \o EnsureLedger \o EnsureStaging)
  BY <1>2, <1>3, <1>7, <1>8
<1> DEFINE most == IF k = "hub" THEN Repairs \o EnsureLedger \o EnsureStaging ELSE EnsureLedger
<1>10. Before(most) /\ Script(k) = most \o Entry("validate")
  BY <1>7, <1>9 DEF Script
<1> HIDE DEF most
<1>11. Entry("validate") \in Seq(Statement) /\ Has(Entry("validate"), "validate")
  BY <1>0, EntriesOfScript, Zenon
<1>12. most \in Seq(Statement) /\ ~ Has(most, "validate") /\ Has(most, "backfillSessions")
  BY <1>10 DEF Before, Quiet
<1> DEFINE all == most \o Entry("validate")
<1>13. all \in Seq(Statement) /\ Has(all, "validate") /\ Registering(all)
  BY <1>11, <1>12, ScriptParts, Zenon
<1> QED
  BY <1>10, <1>13

\* What a step leaves of the script.
Advances == script' = Tail(script) /\ phase' = phase /\ rebuild' = Idle

LEMMA EnsureScript ==
  ASSUME Ensure
  PROVE  /\ phase = "opening" /\ rebuild = Idle
         /\ \/ Refuse
            \/ Advances /\ Head(script).op # "validate"
            \/ Validate /\ Valid
<1>1. CASE Validate
  BY <1>1 DEF Validate, At
<1>2. CASE Ensure /\ ~ Validate
  <2>1. phase = "opening" /\ rebuild = Idle /\ Head(script).op # "validate"
    BY <1>2 DEF Ensure, AddColumn, CreateTable, CreateIndex, DropDefault, CreateView,
                CreateStaging, AddStagingEffort, BackfillRequests, BackfillSessions, At
  <2>2. Refuse \/ Continue
    BY <1>2 DEF Ensure, AddColumn, CreateTable, CreateIndex, DropDefault, CreateView,
                CreateStaging, AddStagingEffort, BackfillRequests, BackfillSessions, Skip, Done
  <2> QED
    BY <2>1, <2>2 DEF Continue, Advances
<1> QED
  BY <1>1, <1>2

LEMMA NotIdle ==
  ASSUME NEW p, p.step # "none"
  PROVE  p # Idle
<1>1. Idle.step = "none"
  BY DEF Idle
<1> QED
  BY <1>1

LEMMA RepairScript ==
  ASSUME File, Repair, rebuild # Idle => Head(script).op = "repair"
  PROVE  /\ phase = "opening"
         /\ \/ Refuse
            \/ Advances /\ Head(script).op = "repair"
            \/ script' = script /\ phase' = phase /\ Head(script).op = "repair"
<1>1. CASE Inspect
  BY <1>1 DEF Inspect, At, Skip, Continue, Advances
<1>2. CASE \/ ClearCopy \/ CreateCopy \/ CopyRows \/ DropTable \/ RenameCopy
  <2>1. rebuild.step # "none" /\ phase = "opening" /\ UNCHANGED <<phase, script>>
    BY <1>2 DEF ClearCopy, CreateCopy, CopyRows, DropTable, RenameCopy, Rebuilding
  <2>2. rebuild # Idle
    BY <2>1, NotIdle
  <2> QED
    BY <2>1, <2>2
<1>3. CASE CopyFails
  BY <1>3 DEF CopyFails
<1>4. CASE CommitRebuild
  <2>1. rebuild.step = "commit" /\ phase = "opening" /\ Advances
    BY <1>4 DEF CommitRebuild, Advances
  <2>2. rebuild # Idle
    BY <2>1, NotIdle
  <2> QED
    BY <2>1, <2>2
<1> QED
  BY <1>1, <1>2, <1>3, <1>4 DEF Repair

\* The sightings and the registry's rows are as before.
LEMMA SeenKept ==
  ASSUME Registry, RowsKept, SessionsKept
  PROVE  /\ \A o \in observed' : IsSession(o)
         /\ Seen' \subseteq observed' /\ Earliest(observed') \subseteq Seen'
         /\ IsRegistered' <=> IsRegistered
  BY DEF Registry, RowsKept, SessionsKept, Seen, IsRegistered

LEMMA RegistryAdvances ==
  ASSUME Registry, RowsKept, SessionsKept, phase = "opening", Advances,
         Head(script).op \notin {"validate", "backfillSessions"}
  PROVE  Registry'
<1>1. script \in Seq(Statement) /\ Has(script, "validate") /\ (IsRegistered \/ Registering(script))
  BY DEF Registry
<1>2. /\ script' \in Seq(Statement) /\ Has(script', "validate")
      /\ Registering(script) => Registering(script')
  BY <1>1, TailOfScript DEF Advances
<1> QED
  BY <1>1, <1>2, SeenKept DEF Registry, Advances, Ready

LEMMA RegistryEnds ==
  ASSUME Registry, RowsKept, SessionsKept, phase' \in {"down", "refused"}
  PROVE  Registry'
  BY SeenKept DEF Registry, Ready

LEMMA RegistryRepair ==
  ASSUME File, Registry, Repair
  PROVE  Registry'
<1>1. RowsKept /\ SessionsKept
  BY RepairFile
<1>2. phase = "opening" \/ rebuild = Idle
  BY DEF File
<1>3. CASE phase = "opening"
  <2>1. \/ Refuse
        \/ Advances /\ Head(script).op = "repair"
        \/ script' = script /\ phase' = phase /\ Head(script).op = "repair"
    BY <1>3, RepairScript DEF Registry
  <2>2. CASE Refuse
    BY <1>1, <2>2, RegistryEnds DEF Refuse
  <2>3. CASE Advances /\ Head(script).op = "repair"
    BY <1>1, <1>3, <2>3, RegistryAdvances
  <2>4. CASE script' = script /\ phase' = phase /\ Head(script).op = "repair"
    BY <1>1, <1>3, <2>4, SeenKept DEF Registry, Ready
  <2> QED
    BY <2>1, <2>2, <2>3, <2>4
<1>4. CASE phase # "opening"
  BY <1>2, <1>4, RepairScript
<1> QED
  BY <1>3, <1>4

LEMMA RegistryEnsure ==
  ASSUME File, Registry, Ensure
  PROVE  Registry'
<1>0. /\ phase = "opening" /\ rebuild = Idle
      /\ \/ Refuse
         \/ Advances /\ Head(script).op # "validate"
         \/ Validate /\ Valid
  BY EnsureScript
<1>1. /\ RowsKept
      /\ \/ SessionsKept /\ (Refuse \/ Head(script).op # "backfillSessions")
         \/ /\ Head(script).op = "backfillSessions"
            /\ db'.tables["sessions"].rows =
                 LeastSeen(db.tables["sessions"].rows, db.tables["requests"].rows)
  BY EnsureFile
<1>2. CASE Refuse
  <2>1. SessionsKept
    BY <1>2 DEF Refuse, SessionsKept
  <2> QED
    BY <1>1, <1>2, <2>1, RegistryEnds DEF Refuse
<1>3. CASE Advances /\ Head(script).op \notin {"validate", "backfillSessions"} /\ SessionsKept
  BY <1>0, <1>1, <1>3, RegistryAdvances
<1>4. CASE /\ Advances /\ Head(script).op = "backfillSessions"
           /\ db'.tables["sessions"].rows =
                LeastSeen(db.tables["sessions"].rows, db.tables["requests"].rows)
  <2>1. script' \in Seq(Statement) /\ Has(script', "validate")
    BY <1>0, <1>4, TailOfScript DEF Registry, Advances
  <2>2. db'.tables["sessions"].rows = Earliest(Seen)
    BY <1>4 DEF LeastSeen, Seen
  <2>3. Earliest(Seen) = Earliest(observed)
    BY EarliestOfPart DEF Registry
  <2>4. /\ observed' = observed
        /\ Sightings(db'.tables["requests"].rows) = Sightings(db.tables["requests"].rows)
    BY <1>1 DEF RowsKept
  <2>5. IsRegistered'
    BY <2>2, <2>3, <2>4 DEF IsRegistered
  <2>6. Seen' \subseteq observed' /\ Earliest(observed') \subseteq Seen'
    BY <2>2, <2>3, <2>4 DEF Registry, Seen, Earliest
  <2> QED
    BY <1>0, <1>4, <2>1, <2>4, <2>5, <2>6 DEF Registry, Advances, Ready
<1>5. CASE Validate /\ Valid
  <2>1. /\ phase' = "retaining" /\ Head(script).op = "validate"
        /\ db' = db
    BY <1>5 DEF Validate, At
  <2>2. SessionsKept
    BY <2>1 DEF SessionsKept
  <2>3. ~ Registering(script)
    <3>1. script \in Seq(Statement) /\ script # <<>>
      BY <1>0 DEF Registry, Has
    <3>2. 1 \in DOMAIN script /\ script[1].op = "validate"
      BY <2>1, <3>1
    <3>3. 1..(1 - 1) = {}
      OBVIOUS
    <3> QED
      BY <3>2, <3>3 DEF Registering
  <2>4. IsRegistered
    BY <1>0, <2>3 DEF Registry
  <2> QED
    BY <1>1, <2>1, <2>2, <2>4, SeenKept DEF Registry
<1> QED
  BY <1>0, <1>1, <1>2, <1>3, <1>4, <1>5

\* Retention takes requests away, never a session.
LEMMA RegistryRetain ==
  ASSUME File, LedgerKept, Registry, NEW c, Retain(c)
  PROVE  Registry'
<1>1. /\ db'.tables["requests"].rows \subseteq db.tables["requests"].rows
      /\ db'.tables["sessions"].rows = db.tables["sessions"].rows
  BY RetainFile DEF SessionsKept
<1>2. /\ phase' = "open" /\ observed' = observed /\ db.tables["sessions"].rows = Earliest(observed)
  BY DEF Retain, Registry, Ready, IsRegistered
<1>3. Sightings(db'.tables["requests"].rows) \subseteq Sightings(db.tables["requests"].rows)
  BY <1>1 DEF Sightings
<1> QED
  BY <1>1, <1>2, <1>3 DEF Registry, Seen, Ready, IsRegistered

\* A sighting is added to the registry as it is to what was observed.
LEMMA RegistryRecord ==
  ASSUME File, LedgerKept, Registry, NEW r \in Events, Record(r)
  PROVE  Registry'
<1>1. PICK row : /\ IsRequest(row)
                 /\ db'.tables["requests"].rows \subseteq db.tables["requests"].rows \cup {row}
                 /\ db'.tables["sessions"].rows = LeastSeen(db.tables["sessions"].rows, {row})
                 /\ observed' = observed \cup Sightings({row})
  BY RecordFile
<1> DEFINE S == Sightings({row})
           E == Earliest(observed)
<1>2. phase' = phase /\ phase = "open" /\ db.tables["sessions"].rows = E
  BY DEF Record, Registry, Ready, IsRegistered
<1>3. \A o \in observed' : IsSession(o)
  <2>1. \A s \in S : IsSession(s)
    <3>1. S \subseteq {[id |-> Session(row), start |-> row.start]}
      BY DEF Sightings
    <3>2. IsSession([id |-> Session(row), start |-> row.start])
      BY <1>1 DEF IsRequest, IsSession
    <3> QED
      BY <3>1, <3>2
  <2> QED
    BY <1>1, <2>1 DEF Registry
<1>4. Sightings(db'.tables["requests"].rows) \subseteq
        Sightings(db.tables["requests"].rows) \cup S
  BY <1>1 DEF Sightings
<1>5. E \subseteq observed /\ Earliest(observed') \subseteq E \cup S
  BY <1>1, EarliestAmong DEF Earliest
<1>6. Earliest(E \cup S) = Earliest(observed')
  <2>1. E \cup S \subseteq observed'
    BY <1>1, <1>5
  <2> HIDE DEF E, S
  <2> QED
    BY <1>3, <1>5, <2>1, EarliestOfPart
<1>7. db'.tables["sessions"].rows = Earliest(observed')
  BY <1>1, <1>2, <1>6 DEF LeastSeen
<1>8. Earliest(observed') \subseteq observed'
  BY DEF Earliest
<1> QED
  BY <1>1, <1>2, <1>3, <1>4, <1>7, <1>8 DEF Registry, Seen, Ready, IsRegistered

LEMMA RegistryInitially == Init => Registry
<1> SUFFICES ASSUME Init PROVE Registry
  OBVIOUS
<1>1. RowsTyped(db)
  BY FileInitially DEF File, Sound
<1>2. \A o \in observed : IsSession(o)
  BY <1>1, SeenTyped DEF Init, RowsTyped
<1>3. observed = Seen /\ phase = "down"
  BY DEF Init, Seen
<1> QED
  BY <1>2, <1>3 DEF Registry, Earliest, Ready

LEMMA RegistryStep == File /\ LedgerKept /\ Registry /\ [Next]_vars => Registry'
<1> SUFFICES ASSUME File, LedgerKept, Registry, [Next]_vars PROVE Registry'
  OBVIOUS
<1>1. CASE Start
  <2>1. RowsKept /\ SessionsKept
    BY <1>1, StartStopFile
  <2>2. phase' = "opening" /\ script' = Script(kind) /\ rebuild' = Idle
    BY <1>1 DEF Start, File
  <2> QED
    BY <2>1, <2>2, SeenKept, ScriptOfStart DEF Registry, Ready
<1>2. CASE Stop
  <2>1. RowsKept /\ SessionsKept /\ phase' = "down"
    BY <1>2, StartStopFile DEF Stop
  <2> QED
    BY <2>1, RegistryEnds
<1>3. CASE Repair
  BY <1>3, RegistryRepair
<1>4. CASE Ensure
  BY <1>4, RegistryEnsure
<1>5. ASSUME NEW c \in Cutoffs, Retain(c) PROVE Registry'
  BY <1>5, RegistryRetain
<1>6. ASSUME NEW r \in Events, Record(r) PROVE Registry'
  BY <1>6, RegistryRecord
<1>7. CASE UNCHANGED vars
  BY <1>7 DEF vars, Registry, Seen, Ready, IsRegistered
<1> QED
  BY <1>1, <1>2, <1>3, <1>4, <1>5, <1>6, <1>7 DEF Next, Opening

\* However many starts were cut off, an open ledger's registry has every session
\* ever observed, with its earliest sighting, whatever retention took away.
THEOREM SchemaRegistersSessions == Spec => []SessionsRegistered
<1>1. Registry => SessionsRegistered
  BY DEF Registry, SessionsRegistered, IsRegistered
<1>2. Init => File /\ LedgerKept /\ Registry
  BY FileInitially, RegistryInitially
<1>3. File /\ LedgerKept /\ Registry /\ [Next]_vars => (File /\ LedgerKept /\ Registry)'
  BY FileStep, RegistryStep
<1> QED
  BY <1>1, <1>2, <1>3, PTL DEF Spec

-----------------------------------------------------------------------------
(* What the statements of a start leave behind.                            *)

\* The statements whose effect a complete ledger shows.
Expected(k) ==
  {[op |-> "create", on |-> t] : t \in Tables}
  \cup {[op |-> "column", on |-> c] : c \in ColumnsOf("requests")}
  \cup {[op |-> "index", on |-> i] : i \in ToSet(Indexes)}
  \cup {[op |-> "dropDefault", on |-> ""], [op |-> "view", on |-> ""]}
  \cup (IF k = "hub"
        THEN {[op |-> "repair", on |-> t] : t \in Tables}
             \cup {[op |-> "staging", on |-> t] : t \in Tables}
             \cup {[op |-> "stagingEffort", on |-> ""]}
        ELSE {})

\* File d shows the effect of statement s.
Shows(d, s) ==
  /\ s.op = "repair" => (d.tables[s.on].there => d.tables[s.on].key)
  /\ s.op = "create" => d.tables[s.on].there
  /\ s.op = "column" => s.on \in d.tables["requests"].columns
  /\ s.op = "index" => s.on[2] \in d.tables[s.on[1]].indexes
  /\ s.op = "dropDefault" => ~ d.tables["requests"].default
  /\ s.op = "view" => d.view
  /\ s.op = "staging" => d.staging[s.on].there
  /\ s.op = "stagingEffort" => "effort" \in d.staging["requests"].columns

\* File e shows what d does, its indexes apart.
NoLess(d, e) ==
  /\ \A t \in Tables :
       /\ d.tables[t].there => e.tables[t].there
       /\ (d.tables[t].there => d.tables[t].key) => (e.tables[t].there => e.tables[t].key)
       /\ d.tables[t].columns \subseteq e.tables[t].columns
       /\ e.tables[t].default => d.tables[t].default
       /\ d.staging[t].there => e.staging[t].there
  /\ "effort" \in d.staging["requests"].columns => "effort" \in e.staging["requests"].columns
  /\ d.view => e.view

NoFewerIndexes(d, e) == \A t \in Tables : d.tables[t].indexes \subseteq e.tables[t].indexes

LEMMA NamesOfTables ==
  /\ {"requests", "sessions"} \subseteq Tables
  /\ \A i \in ToSet(Indexes) : i[1] \in Tables /\ i[2] \in IndexesOf(i[1])
<1>1. {"requests", "sessions"} \subseteq Tables
  BY DEF Tables
<1>2. ASSUME NEW n \in 1..10 PROVE Indexes[n][1] \in Tables
  BY DEF Indexes, Tables
<1>3. DOMAIN Indexes = 1..10
  BY DEF Indexes
<1>4. ASSUME NEW i \in ToSet(Indexes) PROVE i[1] \in Tables
  BY <1>2, <1>3, <1>4 DEF ToSet
<1> QED
  BY <1>1, <1>4 DEF IndexesOf

LEMMA ShowsKept ==
  ASSUME NEW k, NEW s \in Expected(k), NEW d, NEW e, Shows(d, s), NoLess(d, e),
         s.op = "index" => NoFewerIndexes(d, e)
  PROVE  Shows(e, s)
<1>1. CASE s \in {[op |-> "index", on |-> i] : i \in ToSet(Indexes)}
  <2>1. PICK i \in ToSet(Indexes) : s = [op |-> "index", on |-> i]
    BY <1>1
  <2>2. s.op = "index" /\ s.on = i
    BY <2>1
  <2> QED
    BY <2>2, NamesOfTables DEF Shows, NoFewerIndexes
<1>2. CASE s.op # "index" /\ s.op \in {"create", "repair", "staging"} /\ s.on \in Tables
  BY <1>2 DEF Shows, NoLess
<1>3. CASE s.op \in {"column", "dropDefault", "view", "stagingEffort"}
  BY <1>3, NamesOfTables DEF Shows, NoLess
<1>4. \/ s \in {[op |-> "index", on |-> i] : i \in ToSet(Indexes)}
      \/ \E op \in {"create", "repair", "staging"} : \E t \in Tables : s = [op |-> op, on |-> t]
      \/ \E c \in ColumnsOf("requests") : s = [op |-> "column", on |-> c]
      \/ \E op \in {"dropDefault", "view", "stagingEffort"} : s = [op |-> op, on |-> ""]
  <2> HIDE DEF ToSet, Indexes, Tables, ColumnsOf
  <2> QED
    BY DEF Expected
<1>5. ASSUME NEW op, NEW on, s = [op |-> op, on |-> on] PROVE s.op = op /\ s.on = on
  BY <1>5
<1>6. \/ s \in {[op |-> "index", on |-> i] : i \in ToSet(Indexes)}
      \/ s.op # "index" /\ s.op \in {"create", "repair", "staging"} /\ s.on \in Tables
      \/ s.op \in {"column", "dropDefault", "view", "stagingEffort"}
  BY <1>4, <1>5
<1> QED
  BY <1>1, <1>2, <1>3, <1>6

-----------------------------------------------------------------------------
(* The order of a script.                                                  *)

Listed(s, x) == \E i \in DOMAIN s : s[i] = x

Proper(x) ==
  /\ x.op \in {"repair", "create", "staging"} => x.on \in Tables
  /\ x.op = "column" => x.on \in ColumnsOf("requests")
  /\ x.op = "index" => x.on \in ToSet(Indexes)

\* The statements that may lose a table's indexes come before all others.
First == {"repair", "create"}
FirstThingsFirst(s) ==
  \A i, j \in DOMAIN s : i < j /\ s[j].op \in First => s[i].op \in First

\* Every statement is of a table, column or index there is, and validation is last.
Orderly(s) ==
  /\ s \in Seq(Statement) /\ s # <<>>
  /\ \A x : Listed(s, x) => Proper(x)
  /\ FirstThingsFirst(s)
  /\ \A i \in DOMAIN s : s[i].op = "validate" <=> i = Len(s)

LEMMA OrderlyHead ==
  ASSUME NEW s, Orderly(s)
  PROVE  /\ Head(s) \in Statement /\ Proper(Head(s))
         /\ Head(s).op = "validate" => \A x : Listed(s, x) => x = Head(s)
<1>1. s \in Seq(Statement) /\ Len(s) \in Nat /\ 1 \in DOMAIN s /\ Head(s) = s[1] /\ s[1] \in Statement
      /\ DOMAIN s = 1..Len(s)
  BY DEF Orderly
<1>2. Proper(s[1])
  BY <1>1 DEF Orderly, Listed
<1>3. s[1].op = "validate" => Len(s) = 1
  BY <1>1 DEF Orderly
<1>4. ASSUME s[1].op = "validate", NEW x, Listed(s, x) PROVE x = s[1]
  <2>1. PICK i \in DOMAIN s : s[i] = x
    BY <1>4 DEF Listed
  <2>2. Len(s) = 1
    BY <1>3, <1>4
  <2>3. i \in 1..1
    BY <1>1, <2>1, <2>2
  <2>4. i = 1
    BY <2>3
  <2> QED
    BY <2>1, <2>4
<1> QED
  BY <1>1, <1>2, <1>4

LEMMA OrderlyTail ==
  ASSUME NEW s, Orderly(s), Head(s).op # "validate"
  PROVE  /\ Orderly(Tail(s))
         /\ \A x : Listed(s, x) => x = Head(s) \/ Listed(Tail(s), x)
         /\ Head(Tail(s)).op \in First => Head(s).op \in First
<1>1. s \in Seq(Statement) /\ Len(s) \in Nat /\ s # <<>> /\ 1 \in DOMAIN s /\ Head(s) = s[1]
      /\ DOMAIN s = 1..Len(s)
  BY DEF Orderly
<1>2. Len(s) # 1
  BY <1>1 DEF Orderly
<1> DEFINE u == Tail(s)
<1>3. /\ u \in Seq(Statement) /\ Len(u) = Len(s) - 1 /\ DOMAIN u = 1..(Len(s) - 1)
      /\ \A i \in 1..(Len(s) - 1) : u[i] = s[i + 1] /\ i + 1 \in DOMAIN s
      /\ u # <<>> /\ Head(u) = u[1] /\ u[1] = s[2] /\ 2 \in DOMAIN s
  <2>1. u \in Seq(Statement) /\ Len(u) = Len(s) - 1 /\ \A i \in 1..(Len(s) - 1) : u[i] = s[i + 1]
    BY <1>1
  <2>2. DOMAIN u = 1..(Len(s) - 1) /\ Len(s) >= 2 /\ 1 \in 1..(Len(s) - 1)
    BY <1>1, <1>2, <2>1
  <2> HIDE DEF u
  <2>3. u # <<>> /\ Head(u) = u[1] /\ u[1] = s[2] /\ 2 \in DOMAIN s
    BY <1>1, <2>1, <2>2
  <2> QED
    BY <1>1, <2>1, <2>2, <2>3
<1> HIDE DEF u
<1>4. \A x : Listed(u, x) => Proper(x)
  BY <1>3 DEF Listed, Orderly
<1>5. FirstThingsFirst(u)
  <2> SUFFICES ASSUME NEW i \in DOMAIN u, NEW j \in DOMAIN u, i < j, u[j].op \in First
               PROVE  u[i].op \in First
    BY DEF FirstThingsFirst
  <2>1. /\ i + 1 \in DOMAIN s /\ j + 1 \in DOMAIN s /\ i + 1 < j + 1
        /\ u[i] = s[i + 1] /\ u[j] = s[j + 1]
    BY <1>1, <1>3
  <2> QED
    BY <2>1 DEF Orderly, FirstThingsFirst
<1>6. \A i \in DOMAIN u : u[i].op = "validate" <=> i = Len(u)
  <2> SUFFICES ASSUME NEW i \in DOMAIN u PROVE u[i].op = "validate" <=> i = Len(u)
    OBVIOUS
  <2>1. i + 1 \in DOMAIN s /\ u[i] = s[i + 1] /\ (i + 1 = Len(s) <=> i = Len(u))
    BY <1>1, <1>3
  <2> QED
    BY <2>1 DEF Orderly
<1>7. Orderly(u)
  BY <1>3, <1>4, <1>5, <1>6 DEF Orderly
<1>8. ASSUME NEW x, Listed(s, x), x # Head(s) PROVE Listed(u, x)
  <2>1. PICK i \in DOMAIN s : s[i] = x
    BY <1>8 DEF Listed
  <2>2. i - 1 \in 1..(Len(s) - 1) /\ (i - 1) + 1 = i
    BY <1>1, <1>8, <2>1
  <2> QED
    BY <1>3, <2>1, <2>2 DEF Listed
<1>9. Head(u).op \in First => Head(s).op \in First
  BY <1>1, <1>3 DEF Orderly, FirstThingsFirst
<1> QED
  BY <1>7, <1>8, <1>9 DEF u

\* Parts of a script, again.
Part(s) ==
  /\ s \in Seq(Statement) /\ ~ Has(s, "validate")
  /\ \A x : Listed(s, x) => Proper(x)
  /\ FirstThingsFirst(s)
AllFirst(s)  == \A op : Has(s, op) => op \in First
NoneFirst(s) == \A op : Has(s, op) => op \notin First

LEMMA ListedInParts ==
  ASSUME NEW s \in Seq(Statement), NEW t \in Seq(Statement)
  PROVE  \A x : Listed(s \o t, x) <=> Listed(s, x) \/ Listed(t, x)
<1> DEFINE st == s \o t
<1>1. /\ DOMAIN st = 1..(Len(s) + Len(t)) /\ Len(s) \in Nat /\ Len(t) \in Nat
      /\ DOMAIN s = 1..Len(s) /\ DOMAIN t = 1..Len(t)
      /\ \A i \in 1..(Len(s) + Len(t)) : st[i] = IF i =< Len(s) THEN s[i] ELSE t[i - Len(s)]
  OBVIOUS
<1> HIDE DEF st
<1>2. ASSUME NEW i \in DOMAIN st PROVE Listed(s, st[i]) \/ Listed(t, st[i])
  <2>1. CASE i =< Len(s)
    BY <1>1, <2>1 DEF Listed
  <2>2. CASE ~ (i =< Len(s))
    <3>1. i - Len(s) \in DOMAIN t /\ st[i] = t[i - Len(s)]
      BY <1>1, <2>2
    <3> QED
      BY <3>1 DEF Listed
  <2> QED
    BY <2>1, <2>2
<1>3. ASSUME NEW i \in DOMAIN s PROVE Listed(st, s[i])
  BY <1>1 DEF Listed
<1>4. ASSUME NEW i \in DOMAIN t PROVE Listed(st, t[i])
  <2>1. i + Len(s) \in DOMAIN st /\ st[i + Len(s)] = t[i]
    BY <1>1
  <2> QED
    BY <2>1 DEF Listed
<1>5. ASSUME NEW x, Listed(st, x) PROVE Listed(s, x) \/ Listed(t, x)
  BY <1>2, <1>5 DEF Listed
<1>6. ASSUME NEW x, Listed(s, x) \/ Listed(t, x) PROVE Listed(st, x)
  BY <1>3, <1>4, <1>6 DEF Listed
<1> QED
  BY <1>5, <1>6 DEF st

LEMMA FirstInParts ==
  ASSUME NEW s \in Seq(Statement), NEW t \in Seq(Statement),
         FirstThingsFirst(s), FirstThingsFirst(t), AllFirst(s) \/ NoneFirst(t)
  PROVE  FirstThingsFirst(s \o t)
<1> DEFINE st == s \o t
<1>1. /\ DOMAIN st = 1..(Len(s) + Len(t)) /\ Len(s) \in Nat /\ Len(t) \in Nat
      /\ DOMAIN s = 1..Len(s) /\ DOMAIN t = 1..Len(t)
      /\ \A i \in 1..(Len(s) + Len(t)) : st[i] = IF i =< Len(s) THEN s[i] ELSE t[i - Len(s)]
  OBVIOUS
<1> HIDE DEF st
<1> SUFFICES ASSUME NEW i \in DOMAIN st, NEW j \in DOMAIN st, i < j, st[j].op \in First
             PROVE  st[i].op \in First
  BY DEF st, FirstThingsFirst
<1>2. CASE j =< Len(s)
  <2>1. i \in DOMAIN s /\ j \in DOMAIN s /\ st[i] = s[i] /\ st[j] = s[j]
    BY <1>1, <1>2
  <2> QED
    BY <2>1 DEF FirstThingsFirst
<1>3. CASE ~ (j =< Len(s))
  <2>1. j - Len(s) \in DOMAIN t /\ st[j] = t[j - Len(s)]
    BY <1>1, <1>3
  <2>2. ~ NoneFirst(t)
    BY <2>1 DEF NoneFirst, Has
  <2>3. CASE i =< Len(s)
    <3>1. i \in DOMAIN s /\ st[i] = s[i]
      BY <1>1, <2>3
    <3> QED
      BY <2>2, <3>1 DEF AllFirst, Has
  <2>4. CASE ~ (i =< Len(s))
    <3>1. i - Len(s) \in DOMAIN t /\ st[i] = t[i - Len(s)] /\ i - Len(s) < j - Len(s)
      BY <1>1, <2>4
    <3> QED
      BY <2>1, <3>1 DEF FirstThingsFirst
  <2> QED
    BY <2>3, <2>4
<1> QED
  BY <1>2, <1>3

Validation(s) == Len(s) = 1 /\ s[1].op = "validate"

LEMMA LastInParts ==
  ASSUME NEW s \in Seq(Statement), NEW t \in Seq(Statement),
         ~ Has(s, "validate"), Validation(t)
  PROVE  \A i \in DOMAIN (s \o t) : (s \o t)[i].op = "validate" <=> i = Len(s \o t)
<1> DEFINE st == s \o t
<1>1. /\ DOMAIN st = 1..(Len(s) + Len(t)) /\ Len(s) \in Nat /\ Len(st) = Len(s) + Len(t)
      /\ DOMAIN s = 1..Len(s) /\ DOMAIN t = 1..Len(t)
      /\ \A i \in 1..(Len(s) + Len(t)) : st[i] = IF i =< Len(s) THEN s[i] ELSE t[i - Len(s)]
  OBVIOUS
<1> HIDE DEF st
<1>2. ASSUME NEW i \in DOMAIN st, i =< Len(s) PROVE st[i].op # "validate" /\ i # Len(st)
  <2>1. i \in DOMAIN s /\ st[i] = s[i]
    BY <1>1, <1>2
  <2>2. i # Len(st)
    BY <1>1, <1>2 DEF Validation
  <2> QED
    BY <2>1, <2>2 DEF Has
<1>3. ASSUME NEW i \in DOMAIN st, ~ (i =< Len(s)) PROVE st[i].op = "validate" /\ i = Len(st)
  <2>1. i = Len(st) /\ i - Len(s) = 1 /\ st[i] = t[i - Len(s)]
    BY <1>1, <1>3 DEF Validation
  <2> QED
    BY <2>1 DEF Validation
<1> QED
  BY <1>2, <1>3 DEF st

LEMMA ListedEntries ==
  ASSUME NEW op
  PROVE  /\ \A ons \in {InOrder, AddedColumns, Indexes} :
              \A x : Listed(Entries(op, ons), x) <=> \E o \in ToSet(ons) : x = [op |-> op, on |-> o]
         /\ \A x : Listed(Entry(op), x) <=> x = [op |-> op, on |-> ""]
<1>1. ASSUME NEW ons, NEW x, Listed(Entries(op, ons), x)
      PROVE  \E o \in ToSet(ons) : x = [op |-> op, on |-> o]
  BY <1>1 DEF Listed, Entries, ToSet
<1>2. ASSUME NEW ons, NEW o \in ToSet(ons) PROVE Listed(Entries(op, ons), [op |-> op, on |-> o])
  BY <1>2 DEF Listed, Entries, ToSet
<1>3. \A ons : \A x : Listed(Entries(op, ons), x) <=> \E o \in ToSet(ons) : x = [op |-> op, on |-> o]
  BY <1>1, <1>2
<1> DEFINE e == [op |-> op, on |-> ""]
<1>4. \A x : Listed(Entry(op), x) <=> x = e
  <2>1. Entry(op) = <<e>>
    BY DEF Entry
  <2> HIDE DEF e
  <2>2. DOMAIN Entry(op) = {1} /\ Entry(op)[1] = e
    BY <2>1
  <2> QED
    BY <2>2 DEF Listed
<1> QED
  BY <1>3, <1>4

LEMMA PartOfScript ==
  ASSUME NEW s, NEW t, Part(s), Part(t), AllFirst(s) \/ NoneFirst(t)
  PROVE  /\ Part(s \o t)
         /\ \A x : Listed(s \o t, x) <=> Listed(s, x) \/ Listed(t, x)
         /\ AllFirst(s) /\ AllFirst(t) => AllFirst(s \o t)
         /\ NoneFirst(s) /\ NoneFirst(t) => NoneFirst(s \o t)
<1>1. s \in Seq(Statement) /\ t \in Seq(Statement)
  BY DEF Part
<1>2. /\ s \o t \in Seq(Statement)
      /\ \A op : Has(s \o t, op) <=> Has(s, op) \/ Has(t, op)
  BY <1>1, ScriptParts
<1>3. \A x : Listed(s \o t, x) <=> Listed(s, x) \/ Listed(t, x)
  BY <1>1, ListedInParts
<1>4. FirstThingsFirst(s \o t)
  BY <1>1, FirstInParts DEF Part
<1> DEFINE st == s \o t
<1> HIDE DEF st
<1>5. Part(st)
  BY <1>2, <1>3, <1>4 DEF Part, st
<1>6. (AllFirst(s) /\ AllFirst(t) => AllFirst(st)) /\ (NoneFirst(s) /\ NoneFirst(t) => NoneFirst(st))
  BY <1>2 DEF AllFirst, NoneFirst, st
<1> QED
  BY <1>3, <1>5, <1>6 DEF st

LEMMA PartOfEntries ==
  ASSUME NEW op \in Ops \ {"validate"}, NEW ons \in {InOrder, AddedColumns, Indexes},
         \A o \in ToSet(ons) : Proper([op |-> op, on |-> o])
  PROVE  /\ Part(Entries(op, ons))
         /\ op \in First => AllFirst(Entries(op, ons))
         /\ op \notin First => NoneFirst(Entries(op, ons))
<1> DEFINE s == Entries(op, ons)
<1>1. s \in Seq(Statement) /\ \A o : Has(s, o) <=> o = op
  BY EntriesOfScript, Zenon
<1>2. ASSUME NEW x, Listed(s, x) PROVE Proper(x)
  <2>1. \E o \in ToSet(ons) : x = [op |-> op, on |-> o]
    BY <1>2, ListedEntries, Zenon
  <2> QED
    BY <2>1, Zenon
<1> HIDE DEF s
<1>3. FirstThingsFirst(s)
  BY <1>1 DEF FirstThingsFirst, Has
<1> QED
  BY <1>1, <1>2, <1>3 DEF Part, AllFirst, NoneFirst, s

LEMMA PartOfEntry ==
  ASSUME NEW op \in Ops \ {"validate"}, Proper([op |-> op, on |-> ""])
  PROVE  Part(Entry(op)) /\ (op \notin First => NoneFirst(Entry(op)))
<1> DEFINE s == Entry(op)
<1>1. s \in Seq(Statement) /\ \A o : Has(s, o) <=> o = op
  BY EntriesOfScript, Zenon
<1>2. ASSUME NEW x, Listed(s, x) PROVE Proper(x)
  <2>1. x = [op |-> op, on |-> ""]
    BY <1>2, ListedEntries, Zenon
  <2> QED
    BY <2>1
<1> HIDE DEF s
<1>3. FirstThingsFirst(s)
  BY <1>1 DEF FirstThingsFirst, Has
<1> QED
  BY <1>1, <1>2, <1>3 DEF Part, NoneFirst, s

LEMMA NamesInScripts ==
  /\ ToSet(InOrder) = Tables
  /\ ColumnsOf("requests") = ToSet(AddedColumns)
<1>1. DOMAIN InOrder = {1, 2, 3, 4}
  BY DEF InOrder
<1>2. /\ InOrder[1] = "requests" /\ InOrder[2] = "sessions"
      /\ InOrder[3] = "tool_calls" /\ InOrder[4] = "web_requests"
  BY DEF InOrder
<1>3. ToSet(InOrder) = Tables
  BY <1>1, <1>2 DEF ToSet, Tables
<1> QED
  BY <1>3 DEF ColumnsOf

\* A start's script is orderly and has every statement expected of it.
LEMMA ScriptIsOrderly ==
  ASSUME NEW k
  PROVE  Orderly(Script(k)) /\ \A s \in Expected(k) : Listed(Script(k), s)
<1> DEFINE creates == Entries("create", InOrder)
           columns == Entries("column", AddedColumns)
           indexes == Entries("index", Indexes)
           stagings == Entries("staging", InOrder)
<1>1. /\ Part(Repairs) /\ AllFirst(Repairs)
      /\ Part(creates) /\ AllFirst(creates)
      /\ Part(stagings) /\ NoneFirst(stagings)
  <2>1. \A op \in {"repair", "create", "staging"} : \A o \in ToSet(InOrder) : Proper([op |-> op, on |-> o])
    BY NamesInScripts DEF Proper
  <2>2. {"repair", "create", "staging"} \subseteq Ops \ {"validate"}
    BY DEF Ops
  <2>3. "repair" \in First /\ "create" \in First /\ "staging" \notin First
    BY DEF First
  <2> QED
    BY <2>1, <2>2, <2>3, PartOfEntries, Zenon DEF Repairs
<1>2. Part(columns) /\ NoneFirst(columns)
  <2>1. \A o \in ToSet(AddedColumns) : Proper([op |-> "column", on |-> o])
    BY NamesInScripts DEF Proper
  <2>2. "column" \in Ops \ {"validate"} /\ "column" \notin First
    BY DEF Ops, First
  <2> QED
    BY <2>1, <2>2, PartOfEntries, Zenon
<1>3. Part(indexes) /\ NoneFirst(indexes)
  <2>1. \A o \in ToSet(Indexes) : Proper([op |-> "index", on |-> o])
    BY DEF Proper
  <2>2. "index" \in Ops \ {"validate"} /\ "index" \notin First
    BY DEF Ops, First
  <2> QED
    BY <2>1, <2>2, PartOfEntries, Zenon
<1>4. \A op \in {"backfillRequests", "backfillSessions", "dropDefault", "view", "stagingEffort"} :
        Part(Entry(op)) /\ NoneFirst(Entry(op))
  <2> SUFFICES ASSUME NEW op \in {"backfillRequests", "backfillSessions", "dropDefault",
                                  "view", "stagingEffort"}
               PROVE  Part(Entry(op)) /\ NoneFirst(Entry(op))
    OBVIOUS
  <2>1. op \in Ops \ {"validate"} /\ op \notin First /\ Proper([op |-> op, on |-> ""])
    BY DEF Ops, First, Proper
  <2> QED
    BY <2>1, PartOfEntry, Zenon
<1> HIDE DEF creates, columns, indexes, stagings
<1> DEFINE upTo1 == creates \o columns
           upTo2 == upTo1 \o indexes
           upTo3 == upTo2 \o Entry("backfillRequests")
           upTo4 == upTo3 \o Entry("backfillSessions")
           upTo5 == upTo4 \o Entry("dropDefault")
           most == IF k = "hub" THEN Repairs \o EnsureLedger \o EnsureStaging ELSE EnsureLedger
<1>5. /\ Part(EnsureLedger)
      /\ \A x : \/ Listed(creates, x) \/ Listed(columns, x) \/ Listed(indexes, x)
                \/ Listed(Entry("dropDefault"), x) \/ Listed(Entry("view"), x)
                => Listed(EnsureLedger, x)
  <2>0. EnsureLedger = upTo5 \o Entry("view")
    BY DEF EnsureLedger, creates, columns, indexes
  <2>1. Part(upTo1) /\ \A x : Listed(upTo1, x) <=> Listed(creates, x) \/ Listed(columns, x)
    BY <1>1, <1>2, PartOfScript, Zenon
  <2> HIDE DEF upTo1
  <2>2. Part(upTo2) /\ \A x : Listed(upTo2, x) <=> Listed(upTo1, x) \/ Listed(indexes, x)
    BY <1>3, <2>1, PartOfScript, Zenon
  <2> HIDE DEF upTo2
  <2>3. Part(upTo3) /\ \A x : Listed(upTo2, x) => Listed(upTo3, x)
    BY <1>4, <2>2, PartOfScript, Zenon
  <2> HIDE DEF upTo3
  <2>4. Part(upTo4) /\ \A x : Listed(upTo3, x) => Listed(upTo4, x)
    BY <1>4, <2>3, PartOfScript, Zenon
  <2> HIDE DEF upTo4
  <2>5. Part(upTo5) /\ \A x : Listed(upTo5, x) <=> Listed(upTo4, x) \/ Listed(Entry("dropDefault"), x)
    BY <1>4, <2>4, PartOfScript, Zenon
  <2> HIDE DEF upTo5
  <2>6. /\ Part(EnsureLedger)
        /\ \A x : Listed(EnsureLedger, x) <=> Listed(upTo5, x) \/ Listed(Entry("view"), x)
    BY <1>4, <2>0, <2>5, PartOfScript, Zenon
  <2> QED
    BY <2>1, <2>2, <2>3, <2>4, <2>5, <2>6, Zenon
<1>6. /\ Part(EnsureStaging) /\ NoneFirst(EnsureStaging)
      /\ \A x : Listed(EnsureStaging, x) <=> Listed(stagings, x) \/ Listed(Entry("stagingEffort"), x)
  BY <1>1, <1>4, PartOfScript, Zenon DEF EnsureStaging, stagings
<1>7. /\ Part(most)
      /\ \A x : Listed(EnsureLedger, x) => Listed(most, x)
      /\ k = "hub" => \A x : Listed(Repairs, x) \/ Listed(EnsureStaging, x) => Listed(most, x)
  <2> DEFINE both == Repairs \o EnsureLedger
             all == both \o EnsureStaging
  <2>1. Part(both) /\ \A x : Listed(both, x) <=> Listed(Repairs, x) \/ Listed(EnsureLedger, x)
    BY <1>1, <1>5, PartOfScript, Zenon
  <2> HIDE DEF both
  <2>2. Part(all) /\ \A x : Listed(all, x) <=> Listed(both, x) \/ Listed(EnsureStaging, x)
    BY <1>6, <2>1, PartOfScript, Zenon
  <2> HIDE DEF all
  <2>3. most = IF k = "hub" THEN all ELSE EnsureLedger
    BY DEF all, both
  <2> HIDE DEF most
  <2>4. CASE k = "hub"
    BY <2>1, <2>2, <2>3, <2>4, Zenon
  <2>5. CASE k # "hub"
    BY <1>5, <2>3, <2>5, Zenon
  <2> QED
    BY <2>4, <2>5
<1>8. Script(k) = most \o Entry("validate")
  BY DEF Script
<1> HIDE DEF most
<1> DEFINE st == Script(k)
<1>9. /\ Entry("validate") \in Seq(Statement) /\ DOMAIN Entry("validate") = {1}
      /\ Entry("validate")[1] = [op |-> "validate", on |-> ""] /\ Len(Entry("validate")) = 1
  BY DEF Entry, Statement, Ops
<1>10. /\ FirstThingsFirst(Entry("validate")) /\ NoneFirst(Entry("validate"))
       /\ Entry("validate")[1].op = "validate"
  <2>1. FirstThingsFirst(Entry("validate"))
    BY <1>9 DEF FirstThingsFirst
  <2>2. Entry("validate")[1].op = "validate"
    <3>1. [op |-> "validate", on |-> ""].op = "validate"
      OBVIOUS
    <3> QED
      BY <1>9, <3>1, Zenon
  <2>3. NoneFirst(Entry("validate"))
    BY <1>9, <2>2 DEF NoneFirst, Has, First
  <2> QED
    BY <2>1, <2>2, <2>3
<1>11. \A x : Listed(st, x) <=> Listed(most, x) \/ Listed(Entry("validate"), x)
  <2>1. most \in Seq(Statement)
    BY <1>7 DEF Part
  <2>2. \A x : Listed(most \o Entry("validate"), x) <=> Listed(most, x) \/ Listed(Entry("validate"), x)
    BY <1>9, <2>1, ListedInParts, Zenon
  <2> QED
    BY <1>8, <2>2, Zenon
<1>12. FirstThingsFirst(st)
  BY <1>7, <1>8, <1>9, <1>10, FirstInParts, Zenon DEF Part
<1>13. \A i \in DOMAIN st : st[i].op = "validate" <=> i = Len(st)
  <2>1. most \in Seq(Statement) /\ \A i \in DOMAIN most : most[i].op # "validate"
    BY <1>7 DEF Part, Has
  <2>2. Validation(Entry("validate"))
    BY <1>9, <1>10 DEF Validation
  <2>3. ~ Has(most, "validate")
    BY <1>7 DEF Part
  <2> DEFINE all == most \o Entry("validate")
  <2>4. \A i \in DOMAIN all : all[i].op = "validate" <=> i = Len(all)
    BY <1>9, <2>1, <2>2, <2>3, LastInParts, Zenon
  <2> QED
    BY <1>8, <2>4, Zenon
<1>14. st \in Seq(Statement) /\ st # <<>>
  BY ScriptOfStart DEF Has
<1>15. \A x : Listed(st, x) => Proper(x)
  <2>1. \A x : Listed(Entry("validate"), x) => x = [op |-> "validate", on |-> ""]
    BY ListedEntries, Zenon
  <2>2. Proper([op |-> "validate", on |-> ""])
    BY DEF Proper
  <2>3. \A x : Listed(Entry("validate"), x) => Proper(x)
    BY <2>1, <2>2
  <2> QED
    BY <1>7, <1>11, <2>3, Zenon DEF Part
<1> HIDE DEF st
<1>16. Orderly(st)
  BY <1>12, <1>13, <1>14, <1>15 DEF Orderly
<1>17. ASSUME NEW s \in Expected(k) PROVE Listed(st, s)
  <2>1. CASE s \in {[op |-> "create", on |-> t] : t \in Tables}
    <3>1. Listed(creates, s)
      BY <2>1, NamesInScripts, ListedEntries, Zenon DEF creates
    <3> QED
      BY <1>5, <1>7, <1>11, <3>1, Zenon
  <2>2. CASE s \in {[op |-> "column", on |-> c] : c \in ColumnsOf("requests")}
    <3>0. \E c \in ToSet(AddedColumns) : s = [op |-> "column", on |-> c]
      BY <2>2, NamesInScripts
    <3>1. Listed(columns, s)
      BY <3>0, ListedEntries, Zenon DEF columns
    <3> QED
      BY <1>5, <1>7, <1>11, <3>1, Zenon
  <2>3. CASE s \in {[op |-> "index", on |-> i] : i \in ToSet(Indexes)}
    <3>1. Listed(indexes, s)
      BY <2>3, ListedEntries, Zenon DEF indexes
    <3> QED
      BY <1>5, <1>7, <1>11, <3>1, Zenon
  <2>4. CASE s \in {[op |-> "dropDefault", on |-> ""], [op |-> "view", on |-> ""]}
    <3>1. Listed(Entry("dropDefault"), s) \/ Listed(Entry("view"), s)
      BY <2>4, ListedEntries, Zenon
    <3> QED
      BY <1>5, <1>7, <1>11, <3>1, Zenon
  <2>5. CASE k = "hub" /\ s \in {[op |-> "repair", on |-> t] : t \in Tables}
    <3>1. Listed(Repairs, s)
      BY <2>5, NamesInScripts, ListedEntries, Zenon DEF Repairs
    <3> QED
      BY <1>7, <1>11, <2>5, <3>1, Zenon
  <2>6. CASE k = "hub" /\ s \in {[op |-> "staging", on |-> t] : t \in Tables}
    <3>1. Listed(stagings, s)
      BY <2>6, NamesInScripts, ListedEntries, Zenon DEF stagings
    <3> QED
      BY <1>6, <1>7, <1>11, <2>6, <3>1, Zenon
  <2>7. CASE k = "hub" /\ s = [op |-> "stagingEffort", on |-> ""]
    <3>1. Listed(Entry("stagingEffort"), s)
      BY <2>7, ListedEntries, Zenon
    <3> QED
      BY <1>6, <1>7, <1>11, <2>7, <3>1, Zenon
  <2> QED
    BY <2>1, <2>2, <2>3, <2>4, <2>5, <2>6, <2>7, Zenon DEF Expected
<1> QED
  BY <1>16, <1>17 DEF st

-----------------------------------------------------------------------------
(* The upgrade of a file.                                                  *)

StagingShape(d) ==
  d.staging = [t \in Tables |-> d.staging[t]] /\ \A t \in Tables : TableShape(d.staging[t])

\* A table as this build creates it, whatever rows it has.
LikeCreated(y, t) ==
  y.there /\ y.key /\ y.columns = ColumnsOf(t) /\ y.indexes = {} /\ ~ y.default

\* The transaction of a rebuild prepares a table like a created one.
Working ==
  LET on == rebuild.on
  IN /\ work.staging = db.staging /\ work.view = db.view
     /\ rebuild.step \in {"copy", "drop", "rename"} => LikeCreated(work.copies[on], on)
     /\ rebuild.step = "commit" =>
          /\ LikeCreated(work.tables[on], on)
          /\ \A t \in Tables \ {on} : work.tables[t] = db.tables[t]

\* What a complete ledger shows, the file shows or the script still has a statement
\* for; while tables may be replaced, the statements for all indexes are to come.
Upgrading ==
  /\ kind \in {"local", "hub"} /\ IsEarlier(kind, db) /\ StagingShape(db)
  /\ Working
  /\ phase = "opening" =>
       /\ Orderly(script)
       /\ rebuild # Idle => Head(script).op = "repair" /\ Head(script).on = rebuild.on
       /\ \A s \in Expected(kind) : Listed(script, s) \/ Shows(db, s)
       /\ Head(script).op \in First =>
            \A s \in Expected(kind) : s.op = "index" => Listed(script, s)
  /\ Ready => \A s \in Expected(kind) : Shows(db, s)

LEMMA FieldsChanged ==
  ASSUME NEW t, TableShape(t), NEW x
  PROVE  /\ LET u == RowsWith(t, x)
            IN u.columns = t.columns /\ u.indexes = t.indexes /\ u.default = t.default
         /\ LET u == ColumnsWith(t, x)
            IN u.columns = x /\ u.indexes = t.indexes /\ u.default = t.default
         /\ LET u == IndexesWith(t, x)
            IN u.columns = t.columns /\ u.indexes = x /\ u.default = t.default
         /\ LET u == DefaultWith(t, x)
            IN u.columns = t.columns /\ u.indexes = t.indexes /\ u.default = x
  BY DEF TableShape, RowsWith, ColumnsWith, IndexesWith, DefaultWith

LEMMA CreatedAnew == ASSUME NEW t PROVE LikeCreated(Created(t), t)
<1> DEFINE c == ColumnsOf(t)
<1>1. Created(t) = [Missing EXCEPT !.there = TRUE, !.key = TRUE, !.columns = c]
  BY DEF Created
<1>2. Created(t) = [there |-> TRUE, key |-> TRUE, columns |-> c, indexes |-> {},
                    default |-> FALSE, rows |-> {}]
  <2> HIDE DEF c
  <2> QED
    BY <1>1 DEF Missing
<1> HIDE DEF c
<1>3. /\ Created(t).there /\ Created(t).key /\ Created(t).columns = c
      /\ Created(t).indexes = {} /\ ~ Created(t).default
  BY <1>2
<1> QED
  BY <1>3 DEF LikeCreated, c

\* File e differs from d in table x only.
OneTable(d, e, x) ==
  /\ e.staging = d.staging /\ e.view = d.view
  /\ \A t \in Tables : t # x => e.tables[t] = d.tables[t]

LEMMA OneTableChanged ==
  ASSUME NEW d, FileShape(d), NEW x \in Tables, NEW y, TableShape(y)
  PROVE  /\ OneTable(d, TableWith(d, x, y), x) /\ TableWith(d, x, y).tables[x] = y
         /\ FileShape(TableWith(d, x, y)) /\ TableWith(d, x, y).copies = d.copies
         /\ CopyWith(d, x, y).staging = d.staging /\ CopyWith(d, x, y).view = d.view
         /\ CopyWith(d, x, y).tables = d.tables /\ CopyWith(d, x, y).copies[x] = y
<1> DEFINE f == [d.tables EXCEPT ![x] = y]
           g == [d.copies EXCEPT ![x] = y]
<1>1. TableWith(d, x, y) =
        [tables |-> f, copies |-> d.copies, staging |-> d.staging, view |-> d.view]
  BY DEF FileShape, TableWith
<1>2. CopyWith(d, x, y) =
        [tables |-> d.tables, copies |-> g, staging |-> d.staging, view |-> d.view]
  BY DEF FileShape, CopyWith
<1>3. /\ \A t \in Tables : TableWith(d, x, y).tables[t] = IF t = x THEN y ELSE d.tables[t]
      /\ FileShape(TableWith(d, x, y)) /\ TableWith(d, x, y).copies = d.copies
      /\ CopyWith(d, x, y).tables = d.tables /\ CopyWith(d, x, y).copies[x] = y
  BY FileChanged
<1> HIDE DEF f, g
<1>4. /\ TableWith(d, x, y).staging = d.staging /\ TableWith(d, x, y).view = d.view
      /\ CopyWith(d, x, y).staging = d.staging /\ CopyWith(d, x, y).view = d.view
  BY <1>1, <1>2
<1> QED
  BY <1>3, <1>4 DEF OneTable

\* A table that gains what today's has goes on as an earlier build's.
LEMMA TableImproved ==
  ASSUME NEW k, NEW d, IsEarlier(k, d), StagingShape(d),
         NEW x \in Tables, NEW e, OneTable(d, e, x),
         d.tables[x].there => e.tables[x].there,
         (d.tables[x].there => d.tables[x].key) => (e.tables[x].there => e.tables[x].key),
         d.tables[x].columns \subseteq e.tables[x].columns,
         e.tables[x].columns \subseteq ColumnsOf(x),
         e.tables[x].indexes \subseteq IndexesOf(x),
         e.tables[x].default => d.tables[x].default
  PROVE  /\ NoLess(d, e) /\ IsEarlier(k, e) /\ StagingShape(e)
         /\ d.tables[x].indexes \subseteq e.tables[x].indexes => NoFewerIndexes(d, e)
<1>1. NoLess(d, e)
  BY DEF OneTable, NoLess
<1>2. IsEarlier(k, e)
  BY DEF OneTable, IsEarlier
<1>3. StagingShape(e)
  BY DEF OneTable, StagingShape
<1>4. d.tables[x].indexes \subseteq e.tables[x].indexes => NoFewerIndexes(d, e)
  BY DEF OneTable, NoFewerIndexes
<1> QED
  BY <1>1, <1>2, <1>3, <1>4

LEMMA NothingLost ==
  ASSUME NEW d, NEW e, e.tables = d.tables, e.staging = d.staging, e.view = d.view
  PROVE  NoLess(d, e) /\ NoFewerIndexes(d, e)
  BY DEF NoLess, NoFewerIndexes

\* What a statement makes of the file.
Better(d) ==
  /\ NoLess(db, d) /\ IsEarlier(kind, d) /\ StagingShape(d)
  /\ Shows(d, Head(script))
  /\ Head(script).op \notin First => NoFewerIndexes(db, d)

LEMMA UpgradeAdvances ==
  ASSUME Upgrading, phase = "opening", Advances, Head(script).op # "validate", Better(db'),
         work'.staging = db'.staging, work'.view = db'.view, kind' = kind
  PROVE  Upgrading'
<1> DEFINE s == script
           u == script'
<1>1. /\ Orderly(s) /\ u = Tail(s) /\ phase' = "opening" /\ rebuild' = Idle
  BY DEF Upgrading, Advances
<1>2. /\ Orderly(u)
      /\ \A x : Listed(s, x) => x = Head(s) \/ Listed(u, x)
      /\ Head(u).op \in First => Head(s).op \in First
  BY <1>1, OrderlyTail
<1>3. ASSUME Head(s).op \in First, NEW x \in Expected(kind), x.op = "index"
      PROVE  Listed(u, x)
  BY <1>2, <1>3 DEF Upgrading, First
<1>4. ASSUME NEW x \in Expected(kind) PROVE Listed(u, x) \/ Shows(db', x)
  <2>1. CASE Listed(s, x)
    BY <1>2, <2>1 DEF Better
  <2>2. CASE Shows(db, x)
    <3>1. CASE x.op = "index" /\ Head(s).op \in First
      BY <1>3, <3>1
    <3>2. CASE ~ (x.op = "index" /\ Head(s).op \in First)
      <4>1. NoLess(db, db') /\ (x.op = "index" => NoFewerIndexes(db, db'))
        BY <3>2 DEF Better
      <4> HIDE DEF s, u
      <4> QED
        BY <2>2, <4>1, ShowsKept, Zenon
    <3> QED
      BY <3>1, <3>2
  <2> QED
    BY <2>1, <2>2 DEF Upgrading
<1>5. Working'
  BY <1>1 DEF Working, Idle
<1> QED
  BY <1>1, <1>2, <1>3, <1>4, <1>5 DEF Upgrading, Better, Ready

Improved == Advances /\ Better(db') /\ work'.staging = db'.staging /\ work'.view = db'.view /\ kind' = kind

LEMMA DoneImproves ==
  ASSUME rebuild = Idle, NEW d, Done(d), Better(d)
  PROVE  Improved
<1>1. db' = d /\ work' = d /\ kind' = kind /\ rebuild' = Idle /\ script' = Tail(script) /\ phase' = phase
  BY DEF Done, Commit, Continue, Kept
<1> QED
  BY <1>1 DEF Improved, Advances

LEMMA SkipImproves ==
  ASSUME Upgrading, rebuild = Idle, Skip, Shows(db, Head(script))
  PROVE  Improved
<1>1. UNCHANGED <<db, work, kind>> /\ rebuild' = Idle /\ script' = Tail(script) /\ phase' = phase
  BY DEF Skip, Continue, Kept
<1>2. Better(db)
  BY NothingLost DEF Upgrading, Better
<1>3. Better(db')
  BY <1>1, <1>2
<1> QED
  BY <1>1, <1>3 DEF Improved, Advances, Upgrading, Working

LEMMA TablesImprove ==
  ASSUME File, Upgrading, CreateTable \/ AddColumn \/ CreateIndex \/ DropDefault
  PROVE  Refuse \/ Improved
<1>0. /\ FileShape(db) /\ IsEarlier(kind, db) /\ StagingShape(db)
      /\ \A t \in Tables : TableShape(db.tables[t])
      /\ "requests" \in Tables
  BY DEF File, Sound, FileShape, Upgrading, Tables
<1>1. phase = "opening" /\ rebuild = Idle /\ Orderly(script)
  BY DEF CreateTable, AddColumn, CreateIndex, DropDefault, At, Upgrading
<1>2. Proper(Head(script))
  BY <1>1, OrderlyHead
<1>3. ASSUME NEW x \in Tables, NEW y, TableShape(y), Done(TableWith(db, x, y)),
             db.tables[x].there => y.there,
             (db.tables[x].there => db.tables[x].key) => (y.there => y.key),
             db.tables[x].columns \subseteq y.columns, y.columns \subseteq ColumnsOf(x),
             y.indexes \subseteq IndexesOf(x), y.default => db.tables[x].default,
             Head(script).op \notin First => db.tables[x].indexes \subseteq y.indexes,
             \A e : e.tables[x] = y => Shows(e, Head(script))
      PROVE  Improved
  <2> DEFINE e == TableWith(db, x, y)
  <2>1. OneTable(db, e, x) /\ e.tables[x] = y
    BY <1>0, <1>3, OneTableChanged
  <2>2. Done(e)
    BY <1>3
  <2> HIDE DEF e
  <2>3. /\ NoLess(db, e) /\ IsEarlier(kind, e) /\ StagingShape(e)
        /\ db.tables[x].indexes \subseteq e.tables[x].indexes => NoFewerIndexes(db, e)
    BY <1>0, <1>3, <2>1, TableImproved
  <2>4. Better(e)
    BY <1>3, <2>1, <2>3 DEF Better
  <2> QED
    BY <1>1, <2>2, <2>4, DoneImproves
<1>4. CASE CreateTable
  <2>1. Head(script).op = "create" /\ On \in Tables
    BY <1>2, <1>4 DEF CreateTable, At, Proper, On
  <2>2. CASE db.tables[On].there
    <3>1. Skip /\ Shows(db, Head(script))
      BY <1>4, <2>1, <2>2 DEF CreateTable, Shows, On
    <3> QED
      BY <1>1, <3>1, SkipImproves
  <2>3. CASE ~ db.tables[On].there
    <3> DEFINE y == Created(On)
    <3>1. Done(TableWith(db, On, y))
      BY <1>4, <2>3 DEF CreateTable, TableWith
    <3>2. TableShape(y) /\ LikeCreated(y, On)
      BY FreshTables, CreatedAnew
    <3> HIDE DEF y
    <3>3. /\ db.tables[On].columns \subseteq ColumnsOf(On)
          /\ Head(script).op \in First
      BY <1>0, <2>1 DEF IsEarlier, First
    <3>4. \A e : e.tables[On] = y => Shows(e, Head(script))
      BY <2>1, <3>2 DEF Shows, On, LikeCreated
    <3>5. /\ y.there /\ y.key /\ y.columns = ColumnsOf(On) /\ y.indexes = {} /\ ~ y.default
      BY <3>2 DEF LikeCreated
    <3> QED
      BY <1>3, <2>1, <2>3, <3>1, <3>2, <3>3, <3>4, <3>5
  <2> QED
    BY <2>2, <2>3
<1>5. CASE AddColumn
  <2> DEFINE t == db.tables["requests"]
             y == ColumnsWith(t, t.columns \cup {On})
  <2>1. Head(script).op = "column" /\ On \in ColumnsOf("requests")
    BY <1>2, <1>5 DEF AddColumn, At, Proper, On
  <2>2. Done(TableWith(db, "requests", y))
    BY <1>5 DEF AddColumn, TableWith, ColumnsWith
  <2>3. /\ TableShape(y) /\ y.there = t.there /\ y.key = t.key
        /\ y.columns = t.columns \cup {On} /\ y.indexes = t.indexes /\ y.default = t.default
    BY <1>0, TableChanged, FieldsChanged
  <2> HIDE DEF y
  <2>4. t.columns \subseteq ColumnsOf("requests") /\ t.indexes \subseteq IndexesOf("requests")
    BY <1>0 DEF IsEarlier
  <2>5. \A e : e.tables["requests"] = y => Shows(e, Head(script))
    BY <2>1, <2>3 DEF Shows, On
  <2> HIDE DEF t
  <2> QED
    BY <1>0, <1>3, <2>1, <2>2, <2>3, <2>4, <2>5 DEF t
<1>6. CASE CreateIndex
  <2>1. CASE CanIndex(On)
    <3> DEFINE x == On[1]
               t == db.tables[x]
               y == IndexesWith(t, t.indexes \cup {On[2]})
    <3>1. Head(script).op = "index" /\ On \in ToSet(Indexes)
      BY <1>2, <1>6 DEF CreateIndex, At, Proper, On
    <3>2. x \in Tables /\ On[2] \in IndexesOf(x)
      BY <3>1, NamesOfTables
    <3>3. Done(TableWith(db, x, y))
      BY <1>6, <2>1 DEF CreateIndex, TableWith, IndexesWith
    <3>4. /\ TableShape(y) /\ y.there = t.there /\ y.key = t.key
          /\ y.columns = t.columns /\ y.indexes = t.indexes \cup {On[2]} /\ y.default = t.default
      BY <1>0, <3>2, TableChanged, FieldsChanged
    <3> HIDE DEF y
    <3>5. t.columns \subseteq ColumnsOf(x) /\ t.indexes \subseteq IndexesOf(x)
      BY <1>0, <3>2 DEF IsEarlier
    <3>6. \A e : e.tables[x] = y => Shows(e, Head(script))
      BY <3>1, <3>4 DEF Shows, On
    <3> HIDE DEF t, x
    <3> QED
      BY <1>3, <3>2, <3>3, <3>4, <3>5, <3>6 DEF t
  <2>2. CASE ~ CanIndex(On)
    BY <1>6, <2>2 DEF CreateIndex
  <2> QED
    BY <2>1, <2>2
<1>7. CASE DropDefault
  <2> DEFINE none == FALSE
             t == db.tables["requests"]
             y == DefaultWith(t, none)
  <2>1. Head(script).op = "dropDefault"
    BY <1>7 DEF DropDefault, At
  <2>2. Done(TableWith(db, "requests", y))
    BY <1>7 DEF DropDefault, TableWith, DefaultWith
  <2>a. ~ none
    OBVIOUS
  <2> HIDE DEF none
  <2>3. /\ TableShape(y) /\ y.there = t.there /\ y.key = t.key
        /\ y.columns = t.columns /\ y.indexes = t.indexes /\ y.default = none
    BY <1>0, TableChanged, FieldsChanged
  <2> HIDE DEF y
  <2>4. t.columns \subseteq ColumnsOf("requests") /\ t.indexes \subseteq IndexesOf("requests")
    BY <1>0 DEF IsEarlier
  <2>5. \A e : e.tables["requests"] = y => Shows(e, Head(script))
    BY <2>a, <2>1, <2>3 DEF Shows, On
  <2> HIDE DEF t
  <2> QED
    BY <2>a, <1>0, <1>3, <2>2, <2>3, <2>4, <2>5 DEF t
<1> QED
  BY <1>4, <1>5, <1>6, <1>7

StagingWith(f, t, x) == [f EXCEPT !.staging[t] = x]
ViewWith(f, x)       == [f EXCEPT !.view = x]
KeyWith(t, x)        == [t EXCEPT !.key = x]

LEMMA BesideImproves ==
  ASSUME File, Upgrading, CreateView \/ CreateStaging \/ AddStagingEffort
  PROVE  Improved
<1>0. /\ FileShape(db) /\ IsEarlier(kind, db) /\ StagingShape(db) /\ "requests" \in Tables
  BY DEF File, Sound, Upgrading, Tables
<1>1. phase = "opening" /\ rebuild = Idle /\ Orderly(script)
  BY DEF CreateView, CreateStaging, AddStagingEffort, At, Upgrading
<1>2. Proper(Head(script))
  BY <1>1, OrderlyHead
<1>3. CASE CreateView
  <2> DEFINE yes == TRUE
             e == ViewWith(db, yes)
  <2>1. Done(e) /\ Head(script).op = "view"
    BY <1>3 DEF CreateView, ViewWith, At
  <2>a. yes
    OBVIOUS
  <2> HIDE DEF yes
  <2>2. e.tables = db.tables /\ e.staging = db.staging /\ e.view = yes
    BY <1>0 DEF FileShape, ViewWith
  <2> HIDE DEF e
  <2>3. NoLess(db, e) /\ NoFewerIndexes(db, e)
    BY <2>a, <2>2 DEF NoLess, NoFewerIndexes
  <2>4. IsEarlier(kind, e) /\ StagingShape(e)
    BY <1>0, <2>2 DEF IsEarlier, StagingShape
  <2>5. Shows(e, Head(script))
    BY <2>a, <2>1, <2>2 DEF Shows
  <2> QED
    BY <1>1, <2>1, <2>3, <2>4, <2>5, DoneImproves DEF Better
<1>4. ASSUME NEW t \in Tables, NEW y, TableShape(y), Done(StagingWith(db, t, y)),
             ~ y.key, db.staging[t].there => y.there,
             t = "requests" =>
               /\ y.there => ColumnsOf("requests") \ {"effort"} \subseteq y.columns
               /\ "effort" \in db.staging["requests"].columns => "effort" \in y.columns,
             \A e : e.staging[t] = y => Shows(e, Head(script))
      PROVE  Improved
  <2> DEFINE f == [db.staging EXCEPT ![t] = y]
             e == StagingWith(db, t, y)
  <2>1. e = [tables |-> db.tables, copies |-> db.copies, staging |-> f, view |-> db.view]
    BY <1>0 DEF FileShape, StagingWith
  <2>2. f = [u \in Tables |-> f[u]] /\ \A u \in Tables : f[u] = IF u = t THEN y ELSE db.staging[u]
    BY <1>0 DEF StagingShape
  <2>3. Done(e)
    BY <1>4
  <2> HIDE DEF f, e
  <2>4. /\ e.tables = db.tables /\ e.view = db.view
        /\ \A u \in Tables : e.staging[u] = IF u = t THEN y ELSE db.staging[u]
    BY <2>1, <2>2
  <2>5. NoLess(db, e) /\ NoFewerIndexes(db, e)
    BY <1>0, <1>4, <2>4 DEF NoLess, NoFewerIndexes
  <2>6. IsEarlier(kind, e)
    BY <1>0, <1>4, <2>4 DEF IsEarlier
  <2>7. StagingShape(e)
    BY <1>0, <1>4, <2>1, <2>2 DEF StagingShape
  <2>8. Shows(e, Head(script))
    BY <1>4, <2>4
  <2> QED
    BY <1>1, <2>3, <2>5, <2>6, <2>7, <2>8, DoneImproves DEF Better
<1>5. CASE CreateStaging
  <2>1. Head(script).op = "staging" /\ On \in Tables
    BY <1>2, <1>5 DEF CreateStaging, At, Proper, On
  <2>2. CASE db.staging[On].there
    <3>1. Skip /\ Shows(db, Head(script))
      BY <1>5, <2>1, <2>2 DEF CreateStaging, Shows, On
    <3> QED
      BY <1>1, <3>1, SkipImproves
  <2>3. CASE ~ db.staging[On].there
    <3> DEFINE none == FALSE
               c == Created(On)
               y == KeyWith(c, none)
    <3>1. Done(StagingWith(db, On, y))
      BY <1>5, <2>3 DEF CreateStaging, StagingWith, KeyWith
    <3>2. ~ none
      OBVIOUS
    <3> HIDE DEF none
    <3>3. TableShape(c) /\ LikeCreated(c, On)
      BY FreshTables, CreatedAnew
    <3> HIDE DEF c
    <3>4. TableShape(y) /\ y.key = none /\ y.there = c.there /\ y.columns = c.columns
      BY <3>3 DEF TableShape, KeyWith
    <3> HIDE DEF y
    <3>5. y.there /\ y.columns = ColumnsOf(On)
      BY <3>3, <3>4 DEF LikeCreated
    <3>6. \A e : e.staging[On] = y => Shows(e, Head(script))
      BY <2>1, <3>5 DEF Shows, On
    <3>7. "effort" \in ColumnsOf("requests")
      BY DEF ColumnsOf, AddedColumns, ToSet
    <3> QED
      BY <1>4, <2>1, <3>1, <3>2, <3>4, <3>5, <3>6, <3>7
  <2> QED
    BY <2>2, <2>3
<1>6. CASE AddStagingEffort
  <2> DEFINE t == db.staging["requests"]
             y == ColumnsWith(t, t.columns \cup {"effort"})
  <2>1. Head(script).op = "stagingEffort"
    BY <1>6 DEF AddStagingEffort, At
  <2>2. Done(StagingWith(db, "requests", y))
    BY <1>6 DEF AddStagingEffort, StagingWith, ColumnsWith
  <2>3. TableShape(t)
    BY <1>0 DEF StagingShape
  <2>4. /\ TableShape(y) /\ y.there = t.there /\ y.key = t.key
        /\ y.columns = t.columns \cup {"effort"}
    BY <2>3, TableChanged, FieldsChanged
  <2> HIDE DEF y
  <2>5. ~ t.key /\ (t.there => ColumnsOf("requests") \ {"effort"} \subseteq t.columns)
    BY <1>0 DEF IsEarlier
  <2>6. \A e : e.staging["requests"] = y => Shows(e, Head(script))
    BY <2>1, <2>4 DEF Shows
  <2> HIDE DEF t
  <2> QED
    BY <1>0, <1>4, <2>2, <2>4, <2>5, <2>6 DEF t
<1> QED
  BY <1>3, <1>5, <1>6

\* The tables of e have other rows at most.
SameSchema(d, e) ==
  /\ e.staging = d.staging /\ e.view = d.view
  /\ \A t \in Tables :
       /\ e.tables[t].there = d.tables[t].there /\ e.tables[t].key = d.tables[t].key
       /\ e.tables[t].columns = d.tables[t].columns /\ e.tables[t].indexes = d.tables[t].indexes
       /\ e.tables[t].default = d.tables[t].default

LEMMA SchemaAsBefore ==
  ASSUME NEW k, NEW d, NEW e, SameSchema(d, e), IsEarlier(k, d), StagingShape(d)
  PROVE  NoLess(d, e) /\ NoFewerIndexes(d, e) /\ IsEarlier(k, e) /\ StagingShape(e)
<1>1. NoLess(d, e) /\ NoFewerIndexes(d, e)
  BY DEF SameSchema, NoLess, NoFewerIndexes
<1>2. IsEarlier(k, e)
  BY DEF SameSchema, IsEarlier
<1>3. StagingShape(e)
  BY DEF SameSchema, StagingShape
<1> QED
  BY <1>1, <1>2, <1>3

LEMMA RowsWithinSchema ==
  ASSUME FileShape(db), NEW x \in Tables, NEW R
  PROVE  SameSchema(db, TableWith(db, x, RowsWith(db.tables[x], R)))
<1> DEFINE y == RowsWith(db.tables[x], R)
           e == TableWith(db, x, y)
<1>1. TableShape(db.tables[x])
  BY DEF FileShape
<1>2. /\ TableShape(y) /\ y.there = db.tables[x].there /\ y.key = db.tables[x].key
      /\ y.columns = db.tables[x].columns /\ y.indexes = db.tables[x].indexes
      /\ y.default = db.tables[x].default
  BY <1>1, TableChanged, FieldsChanged
<1> HIDE DEF y
<1>3. OneTable(db, e, x) /\ e.tables[x] = y
  BY <1>2, OneTableChanged
<1> HIDE DEF e
<1>4. SameSchema(db, e)
  BY <1>2, <1>3 DEF OneTable, SameSchema
<1> QED
  BY <1>4 DEF e, y

LEMMA BackfillImproves ==
  ASSUME File, Upgrading, BackfillRequests \/ BackfillSessions
  PROVE  Refuse \/ Improved
<1>0. /\ FileShape(db) /\ IsEarlier(kind, db) /\ StagingShape(db)
      /\ "requests" \in Tables /\ "sessions" \in Tables
  BY DEF File, Sound, Upgrading, Tables
<1>1. rebuild = Idle /\ Head(script).op \in {"backfillRequests", "backfillSessions"}
  BY DEF BackfillRequests, BackfillSessions, At
<1>2. ASSUME NEW x \in Tables, NEW R, Done(TableWith(db, x, RowsWith(db.tables[x], R)))
      PROVE  Improved
  <2> DEFINE e == TableWith(db, x, RowsWith(db.tables[x], R))
  <2>1. SameSchema(db, e) /\ Done(e)
    BY <1>0, <1>2, RowsWithinSchema
  <2> HIDE DEF e
  <2>2. NoLess(db, e) /\ NoFewerIndexes(db, e) /\ IsEarlier(kind, e) /\ StagingShape(e)
    BY <1>0, <2>1, SchemaAsBefore
  <2>3. Shows(e, Head(script))
    BY <1>1 DEF Shows
  <2> QED
    BY <1>1, <2>1, <2>2, <2>3, DoneImproves DEF Better
<1>3. CASE BackfillRequests
  <2> DEFINE t == db.tables["requests"]
             R == {IF r.session = "" THEN [r EXCEPT !.session = r.codex] ELSE r : r \in t.rows}
  <2>1. Done(TableWith(db, "requests", RowsWith(t, R)))
    BY <1>3 DEF BackfillRequests, TableWith, RowsWith
  <2> HIDE DEF R
  <2> QED
    BY <1>0, <1>2, <2>1
<1>4. CASE BackfillSessions
  <2> DEFINE t == db.tables["sessions"]
             R == LeastSeen(t.rows, db.tables["requests"].rows)
  <2>1. Refuse \/ Done(TableWith(db, "sessions", RowsWith(t, R)))
    BY <1>4 DEF BackfillSessions, TableWith, RowsWith
  <2> HIDE DEF R
  <2> QED
    BY <1>0, <1>2, <2>1
<1> QED
  BY <1>3, <1>4

\* No statement is left: what the script does not show, the file does.
LEMMA UpgradeEnds ==
  ASSUME Upgrading, UNCHANGED <<db, kind>>, rebuild' = Idle, phase' \in {"down", "refused"},
         work'.staging = db.staging, work'.view = db.view
  PROVE  Upgrading'
<1>1. Working'
  BY DEF Working, Idle
<1> QED
  BY <1>1 DEF Upgrading, StagingShape, Ready

LEMMA UpgradeRefused ==
  ASSUME Upgrading, Refuse
  PROVE  Upgrading'
  BY UpgradeEnds DEF Refuse, Kept

LEMMA UpgradeEnsure ==
  ASSUME File, Upgrading, Ensure
  PROVE  Upgrading'
<1>1. phase = "opening" /\ rebuild = Idle
  BY EnsureScript
<1>2. CASE Validate
  <2>1. CASE Refuse
    BY <2>1, UpgradeRefused
  <2>2. CASE ~ Refuse
    <3>1. /\ phase' = "retaining" /\ Head(script).op = "validate"
          /\ UNCHANGED <<rebuild, db, work, kind>>
      BY <1>2, <2>2 DEF Validate, At, Kept
    <3>2. \A x : Listed(script, x) => x = Head(script)
      BY <1>1, <3>1, OrderlyHead DEF Upgrading
    <3>3. Shows(db, Head(script))
      BY <3>1 DEF Shows
    <3>4. \A s \in Expected(kind) : Shows(db, s)
      BY <1>1, <3>2, <3>3 DEF Upgrading
    <3>5. Working'
      BY <3>1 DEF Upgrading, Working
    <3> QED
      BY <3>1, <3>4, <3>5 DEF Upgrading, StagingShape
  <2> QED
    BY <2>1, <2>2
<1>3. CASE ~ Validate
  <2>1. Refuse \/ Improved
    BY <1>3, TablesImprove, BesideImproves, BackfillImproves DEF Ensure
  <2>2. CASE Refuse
    BY <2>2, UpgradeRefused
  <2>3. CASE Improved /\ ~ Refuse
    <3>1. Head(script).op # "validate"
      BY <1>3, <2>3, EnsureScript
    <3> QED
      BY <1>1, <2>3, <3>1, UpgradeAdvances DEF Improved
  <2> QED
    BY <2>1, <2>2, <2>3
<1> QED
  BY <1>2, <1>3

\* A step of a rebuild within its transaction.
LEMMA UpgradeRebuilding ==
  ASSUME Upgrading, phase = "opening", rebuild # Idle, UNCHANGED <<kind, db, script, phase>>,
         rebuild'.on = rebuild.on, Working'
  PROVE  Upgrading'
  BY DEF Upgrading, StagingShape, Ready

LEMMA UpgradeRepair ==
  ASSUME File, Upgrading, Repair
  PROVE  Upgrading'
<1> DEFINE on == rebuild.on
<1>0. /\ FileShape(db) /\ FileShape(work) /\ (phase # "opening" => rebuild = Idle)
      /\ \A t \in Tables : TableShape(work.copies[t]) /\ TableShape(work.tables[t])
      /\ work.staging = db.staging /\ work.view = db.view
      /\ TableShape(Missing)
  BY FreshTables DEF File, Sound, FileShape, Upgrading, Working
<1>a. FileShape(work) /\ work.staging = db.staging /\ work.view = db.view
  BY <1>0
<1>1. ASSUME rebuild # Idle, phase = "opening"
      PROVE  /\ Orderly(script) /\ Head(script).op = "repair" /\ Head(script).on = on
             /\ on \in Tables
  <2>1. Orderly(script) /\ Head(script).op = "repair" /\ Head(script).on = on
    BY <1>1 DEF Upgrading
  <2> QED
    BY <2>1, OrderlyHead DEF Proper
<1>2. CASE Inspect
  <2>1. /\ phase = "opening" /\ rebuild = Idle /\ Head(script).op = "repair"
    BY <1>2 DEF Inspect, At
  <2>2. CASE NeedsRebuild(On)
    <3>1. /\ rebuild' = [step |-> "clear", on |-> On]
          /\ UNCHANGED <<phase, script, db, work, kind>>
      BY <1>2, <2>2 DEF Inspect, Kept
    <3>a. rebuild'.step = "clear" /\ rebuild'.on = On
      BY <3>1
    <3>2. Working'
      BY <1>0, <3>1, <3>a DEF Working
    <3> QED
      BY <2>1, <3>1, <3>2 DEF Upgrading, StagingShape, Ready, On
  <2>3. CASE ~ NeedsRebuild(On)
    <3>1. Skip /\ Shows(db, Head(script))
      BY <1>2, <2>1, <2>3 DEF Inspect, NeedsRebuild, Shows, On
    <3>2. Improved
      BY <2>1, <3>1, SkipImproves
    <3> QED
      BY <2>1, <3>2, UpgradeAdvances DEF Improved
  <2> QED
    BY <2>2, <2>3
<1>3. ASSUME NEW step \in {"clear", "create", "copy", "drop", "rename"},
             NEW next \in {"create", "copy", "drop", "rename", "commit"},
             Rebuilding(step, next), NEW w, InTransaction(w)
      PROVE  /\ rebuild.step = step /\ rebuild # Idle /\ phase = "opening"
             /\ rebuild' = [step |-> next, on |-> on] /\ work' = w
             /\ UNCHANGED <<kind, db, script, phase>>
  <2>1. /\ rebuild.step = step /\ phase = "opening" /\ work' = w
        /\ UNCHANGED <<kind, db, script, phase>>
    BY <1>3 DEF Rebuilding, InTransaction, Kept
  <2>2. rebuild # Idle
    BY <2>1, NotIdle
  <2>3. rebuild' = [rebuild EXCEPT !.step = next] /\ rebuild = [step |-> rebuild.step, on |-> on]
    BY <1>3 DEF Rebuilding, File, Rebuilt
  <2>4. rebuild' = [step |-> next, on |-> on]
    BY <2>3
  <2> QED
    BY <2>1, <2>2, <2>4
<1>4. CASE ClearCopy
  <2> DEFINE w == CopyWith(work, on, Missing)
  <2>1. Rebuilding("clear", "create") /\ InTransaction(w)
    BY <1>4 DEF ClearCopy, CopyWith
  <2> HIDE DEF w
  <2>2. /\ rebuild # Idle /\ phase = "opening"
        /\ rebuild' = [step |-> "create", on |-> on] /\ work' = w
        /\ UNCHANGED <<kind, db, script, phase>>
    BY <1>3, <2>1
  <2>s. rebuild'.step = "create" /\ rebuild'.on = on
    BY <2>2
  <2>3. w.staging = work.staging /\ w.view = work.view
    BY <1>0, <1>1, <2>2, OneTableChanged DEF w
  <2>b. work'.staging = db'.staging /\ work'.view = db'.view
    BY <1>a, <2>2, <2>3
  <2>c. rebuild'.step \notin {"copy", "drop", "rename", "commit"}
    BY <2>s
  <2>4. Working'
    BY <2>b, <2>c DEF Working
  <2> QED
    BY <2>2, <2>s, <2>4, UpgradeRebuilding
<1>5. CASE CreateCopy
  <2> DEFINE y == Created(on)
             w == CopyWith(work, on, y)
  <2>1. Rebuilding("create", "copy") /\ InTransaction(w)
    BY <1>5 DEF CreateCopy, CopyWith
  <2>a. TableShape(y) /\ LikeCreated(y, on)
    BY FreshTables, CreatedAnew
  <2> HIDE DEF w, y
  <2>2. /\ rebuild # Idle /\ phase = "opening"
        /\ rebuild' = [step |-> "copy", on |-> on] /\ work' = w
        /\ UNCHANGED <<kind, db, script, phase>>
    BY <1>3, <2>1
  <2>s. rebuild'.step = "copy" /\ rebuild'.on = on
    BY <2>2
  <2>3. on \in Tables
    BY <1>1, <2>2
  <2>4. w.staging = work.staging /\ w.view = work.view /\ w.copies[on] = y
    <3>1. FileShape(work) /\ TableShape(y)
      BY <1>0, <2>a
    <3> QED
      BY <2>3, <3>1, OneTableChanged DEF w
  <2>5. Working'
    BY <1>a, <2>s, <2>a, <2>2, <2>4 DEF Working
  <2> QED
    BY <2>2, <2>s, <2>5, UpgradeRebuilding
<1>6. CASE CopyRows
  <2> DEFINE c == work.copies[on]
             y == RowsWith(c, work.tables[on].rows)
             w == CopyWith(work, on, y)
  <2>1. Rebuilding("copy", "drop") /\ InTransaction(w)
    BY <1>6 DEF CopyRows, CopyWith, RowsWith
  <2> HIDE DEF w, y
  <2>2. /\ rebuild.step = "copy" /\ rebuild # Idle /\ phase = "opening"
        /\ rebuild' = [step |-> "drop", on |-> on] /\ work' = w
        /\ UNCHANGED <<kind, db, script, phase>>
    BY <1>3, <2>1
  <2>s. rebuild'.step = "drop" /\ rebuild'.on = on
    BY <2>2
  <2>3. on \in Tables
    BY <1>1, <2>2
  <2>4. LikeCreated(c, on)
    BY <2>2 DEF Upgrading, Working
  <2>5. /\ TableShape(y) /\ y.there = c.there /\ y.key = c.key
        /\ y.columns = c.columns /\ y.indexes = c.indexes /\ y.default = c.default
    BY <1>0, <2>3, TableChanged, FieldsChanged DEF y
  <2>6. LikeCreated(y, on)
    BY <2>4, <2>5 DEF LikeCreated
  <2>a. TableShape(y)
    BY <2>5
  <2>7. w.staging = work.staging /\ w.view = work.view /\ w.copies[on] = y
    BY <1>a, <2>3, <2>a, OneTableChanged DEF w
  <2>8. Working'
    BY <1>a, <2>s, <2>2, <2>6, <2>7 DEF Working
  <2> QED
    BY <2>2, <2>s, <2>8, UpgradeRebuilding
<1>7. CASE CopyFails
  BY <1>7, UpgradeRefused DEF CopyFails
<1>8. CASE DropTable
  <2> DEFINE w == TableWith(work, on, Missing)
  <2>1. Rebuilding("drop", "rename") /\ InTransaction(w)
    BY <1>8 DEF DropTable, TableWith
  <2> HIDE DEF w
  <2>2. /\ rebuild.step = "drop" /\ rebuild # Idle /\ phase = "opening"
        /\ rebuild' = [step |-> "rename", on |-> on] /\ work' = w
        /\ UNCHANGED <<kind, db, script, phase>>
    BY <1>3, <2>1
  <2>s. rebuild'.step = "rename" /\ rebuild'.on = on
    BY <2>2
  <2>3. on \in Tables
    BY <1>1, <2>2
  <2>4. OneTable(work, w, on) /\ w.copies = work.copies
    BY <1>0, <2>3, OneTableChanged DEF w
  <2>5. LikeCreated(work.copies[on], on)
    BY <2>2 DEF Upgrading, Working
  <2>6. Working'
    BY <1>a, <2>s, <2>2, <2>4, <2>5 DEF Working, OneTable
  <2> QED
    BY <2>2, <2>s, <2>6, UpgradeRebuilding
<1>9. CASE RenameCopy
  <2> DEFINE c == work.copies[on]
             u == TableWith(work, on, c)
             w == CopyWith(u, on, Missing)
  <2>1. Rebuilding("rename", "commit") /\ InTransaction(w)
    BY <1>9 DEF RenameCopy, TableWith, CopyWith
  <2> HIDE DEF w
  <2>2. /\ rebuild.step = "rename" /\ rebuild # Idle /\ phase = "opening"
        /\ rebuild' = [step |-> "commit", on |-> on] /\ work' = w
        /\ UNCHANGED <<kind, db, script, phase>>
    BY <1>3, <2>1
  <2>s. rebuild'.step = "commit" /\ rebuild'.on = on
    BY <2>2
  <2>3. on \in Tables
    BY <1>1, <2>2
  <2>4. LikeCreated(c, on) /\ TableShape(c)
    BY <1>0, <2>2, <2>3 DEF Upgrading, Working
  <2> HIDE DEF c
  <2>5. OneTable(work, u, on) /\ u.tables[on] = c /\ FileShape(u)
    BY <1>a, <2>3, <2>4, OneTableChanged
  <2> HIDE DEF u
  <2>a. FileShape(u) /\ TableShape(Missing)
    BY <1>0, <2>5
  <2>6. w.staging = u.staging /\ w.view = u.view /\ w.tables = u.tables
    BY <2>3, <2>a, OneTableChanged DEF w
  <2>7. \A t \in Tables \ {on} : work.tables[t] = db.tables[t]
    BY <2>2 DEF File, Rebuilt
  <2>8. Working'
    BY <1>a, <2>s, <2>2, <2>4, <2>5, <2>6, <2>7 DEF Working, OneTable
  <2> QED
    BY <2>2, <2>s, <2>8, UpgradeRebuilding
<1>10. CASE CommitRebuild
  <2>1. /\ rebuild.step = "commit" /\ phase = "opening" /\ Advances
        /\ db' = work /\ work' = work /\ kind' = kind
    BY <1>10 DEF CommitRebuild, Commit, Kept, Advances
  <2>2. rebuild # Idle
    BY <2>1, NotIdle
  <2>3. Head(script).op = "repair" /\ Head(script).on = on /\ on \in Tables
    BY <1>1, <2>1, <2>2
  <2>4. LikeCreated(work.tables[on], on) /\ OneTable(db, work, on)
    BY <2>1 DEF Upgrading, Working, OneTable
  <2>5. NoLess(db, work) /\ IsEarlier(kind, work) /\ StagingShape(work)
    <3>1. IsEarlier(kind, db) /\ StagingShape(db)
      BY DEF Upgrading
    <3>2. /\ work.tables[on].there /\ work.tables[on].key /\ ~ work.tables[on].default
          /\ work.tables[on].columns = ColumnsOf(on) /\ work.tables[on].indexes = {}
      BY <2>4 DEF LikeCreated
    <3>3. db.tables[on].columns \subseteq ColumnsOf(on)
      BY <2>3, <3>1 DEF IsEarlier
    <3> QED
      BY <2>3, <2>4, <3>1, <3>2, <3>3, TableImproved
  <2>6. Shows(work, Head(script)) /\ Head(script).op \in First
    BY <2>3, <2>4 DEF Shows, LikeCreated, First
  <2>7. Better(db')
    BY <2>1, <2>5, <2>6 DEF Better
  <2> QED
    BY <2>1, <2>3, <2>7, UpgradeAdvances
<1> QED
  BY <1>2, <1>4, <1>5, <1>6, <1>7, <1>8, <1>9, <1>10 DEF Repair

LEMMA UpgradeStart ==
  ASSUME File, Upgrading, Start
  PROVE  Upgrading'
<1>1. /\ phase' = "opening" /\ script' = Script(kind) /\ rebuild = Idle
      /\ UNCHANGED <<kind, db, work, rebuild>>
  BY DEF Start, File
<1>2. Orderly(script') /\ \A s \in Expected(kind) : Listed(script', s)
  BY <1>1, ScriptIsOrderly
<1>3. Working'
  BY <1>1 DEF Upgrading, Working
<1> QED
  BY <1>1, <1>2, <1>3 DEF Upgrading, StagingShape, Ready

LEMMA UpgradeStop ==
  ASSUME Upgrading, Stop
  PROVE  Upgrading'
  BY UpgradeEnds DEF Stop

\* Retention and the writer work on rows.
LEMMA RowsOfTables ==
  ASSUME FileShape(db), NEW T,
         \A t \in Tables : T[t] = db.tables[t] \/ \E R : T[t] = RowsWith(db.tables[t], R)
  PROVE  SameSchema(db, TablesWith(db, T))
<1>1. TablesWith(db, T) =
        [tables |-> T, copies |-> db.copies, staging |-> db.staging, view |-> db.view]
  BY DEF TablesWith, FileShape
<1>2. ASSUME NEW t \in Tables, NEW R
      PROVE  LET u == RowsWith(db.tables[t], R)
             IN /\ u.there = db.tables[t].there /\ u.key = db.tables[t].key
                /\ u.columns = db.tables[t].columns /\ u.indexes = db.tables[t].indexes
                /\ u.default = db.tables[t].default
  <2>1. TableShape(db.tables[t])
    BY DEF FileShape
  <2> QED
    BY <2>1, TableChanged, FieldsChanged
<1>3. /\ TablesWith(db, T).tables = T /\ TablesWith(db, T).staging = db.staging
      /\ TablesWith(db, T).view = db.view
  BY <1>1
<1> QED
  BY <1>2, <1>3 DEF SameSchema

LEMMA UpgradeOpen ==
  ASSUME File, Upgrading, Ready, NEW d, SameSchema(db, d), Commit(d), phase' = "open",
         UNCHANGED <<kind, rebuild>>
  PROVE  Upgrading'
<1>1. db' = d /\ work' = d /\ rebuild' = Idle
  BY DEF Commit, File, Ready
<1>2. NoLess(db, d) /\ NoFewerIndexes(db, d) /\ IsEarlier(kind, d) /\ StagingShape(d)
  BY SchemaAsBefore DEF Upgrading
<1>3. ASSUME NEW s \in Expected(kind) PROVE Shows(d, s)
  BY <1>2, ShowsKept, Zenon DEF Upgrading
<1>4. rebuild'.step = "none"
  <2>1. Idle.step = "none"
    BY DEF Idle
  <2> QED
    BY <1>1, <2>1
<1>5. Working'
  BY <1>1, <1>4 DEF Working
<1> QED
  BY <1>1, <1>2, <1>3, <1>5 DEF Upgrading, StagingShape

LEMMA UpgradeRetain ==
  ASSUME File, Upgrading, NEW c, Retain(c)
  PROVE  Upgrading'
<1> DEFINE gone == Expired(c)
           Rest(t) == IF t = "requests" THEN {r \in db.tables[t].rows : r.id \notin gone}
                      ELSE {r \in db.tables[t].rows : r.id[1] \notin gone}
           Cleared(t) == IF t = "sessions" THEN db.tables[t] ELSE RowsWith(db.tables[t], Rest(t))
           T == [t \in Tables |-> Cleared(t)]
<1>1. Commit(TablesWith(db, T)) /\ phase' = "open" /\ UNCHANGED <<kind, rebuild>> /\ Ready
  BY DEF Retain, TablesWith, RowsWith, Ready
<1> HIDE DEF Rest
<1>2. \A t \in Tables : T[t] = db.tables[t] \/ \E R : T[t] = RowsWith(db.tables[t], R)
  OBVIOUS
<1> HIDE DEF T
<1>3. SameSchema(db, TablesWith(db, T))
  BY <1>2, RowsOfTables DEF File, Sound
<1> QED
  BY <1>1, <1>3, UpgradeOpen

LEMMA UpgradeRecord ==
  ASSUME File, Upgrading, NEW r \in Events, Record(r)
  PROVE  Upgrading'
<1> DEFINE row == [r EXCEPT !.session = IF r.session # "" THEN r.session ELSE r.codex]
           Rows(t) == CASE t = "requests" -> Inserted(db.tables[t], {row})
                        [] t = "sessions" -> LeastSeen(db.tables[t].rows, {row})
                        [] OTHER -> Inserted(db.tables[t], Children[t][r.id])
           T == [t \in Tables |-> RowsWith(db.tables[t], Rows(t))]
<1>1. Commit(TablesWith(db, T)) /\ phase' = "open" /\ UNCHANGED <<kind, rebuild>> /\ Ready
  BY DEF Record, TablesWith, RowsWith, Ready
<1> HIDE DEF Rows
<1>2. \A t \in Tables : T[t] = db.tables[t] \/ \E R : T[t] = RowsWith(db.tables[t], R)
  OBVIOUS
<1> HIDE DEF T
<1>3. SameSchema(db, TablesWith(db, T))
  BY <1>2, RowsOfTables DEF File, Sound
<1> QED
  BY <1>1, <1>3, UpgradeOpen

LEMMA UpgradeInitially == Init => Upgrading
<1> SUFFICES ASSUME Init PROVE Upgrading
  OBVIOUS
<1>1. /\ kind \in {"local", "hub"} /\ IsLedger(db) /\ IsEarlier(kind, db)
      /\ work = db /\ rebuild = Idle /\ phase = "down"
  BY SchemaAssumption DEF Init
<1>2. ASSUME NEW t, IsTable(t) PROVE TableShape(t)
  BY <1>2 DEF IsTable, TableShape
<1>3. StagingShape(db)
  <2>1. db.staging = [t \in Tables |-> db.staging[t]] /\ \A t \in Tables : IsTable(db.staging[t])
    BY <1>1 DEF IsLedger
  <2> QED
    BY <1>2, <2>1 DEF StagingShape
<1>4. Working
  BY <1>1 DEF Working, Idle
<1> QED
  BY <1>1, <1>3, <1>4 DEF Upgrading, Ready

LEMMA UpgradeStep == File /\ Upgrading /\ [Next]_vars => Upgrading'
<1> SUFFICES ASSUME File, Upgrading, [Next]_vars PROVE Upgrading'
  OBVIOUS
<1>1. CASE Start
  BY <1>1, UpgradeStart
<1>2. CASE Stop
  BY <1>2, UpgradeStop
<1>3. CASE Repair
  BY <1>3, UpgradeRepair
<1>4. CASE Ensure
  BY <1>4, UpgradeEnsure
<1>5. ASSUME NEW c \in Cutoffs, Retain(c) PROVE Upgrading'
  BY <1>5, UpgradeRetain
<1>6. ASSUME NEW r \in Events, Record(r) PROVE Upgrading'
  BY <1>6, UpgradeRecord
<1>7. CASE UNCHANGED vars
  BY <1>7 DEF vars, Upgrading, Working, StagingShape, Ready
<1> QED
  BY <1>1, <1>2, <1>3, <1>4, <1>5, <1>6, <1>7 DEF Next, Opening

\* A ledger that shows what is expected of it is complete.
LEMMA UpgradedIsComplete == File /\ Upgrading => OpenIsComplete
<1> SUFFICES ASSUME File, Upgrading, Ready
             PROVE  /\ db.view
                    /\ \A t \in Tables :
                         /\ db.tables[t].there /\ db.tables[t].key /\ ~ db.tables[t].default
                         /\ db.tables[t].columns = ColumnsOf(t)
                         /\ db.tables[t].indexes = IndexesOf(t)
                    /\ kind = "hub" =>
                         /\ \A t \in Tables : db.staging[t].there /\ ~ db.staging[t].key
                         /\ ColumnsOf("requests") \subseteq db.staging["requests"].columns
  BY DEF OpenIsComplete
<1>1. /\ IsEarlier(kind, db) /\ kind \in {"local", "hub"}
      /\ \A s \in Expected(kind) : Shows(db, s)
  BY DEF Upgrading
<1>2. ASSUME NEW op, NEW on, [op |-> op, on |-> on] \in Expected(kind)
      PROVE  /\ op = "repair" => (db.tables[on].there => db.tables[on].key)
             /\ op = "create" => db.tables[on].there
             /\ op = "column" => on \in db.tables["requests"].columns
             /\ op = "index" => on[2] \in db.tables[on[1]].indexes
             /\ op = "dropDefault" => ~ db.tables["requests"].default
             /\ op = "view" => db.view
             /\ op = "staging" => db.staging[on].there
             /\ op = "stagingEffort" => "effort" \in db.staging["requests"].columns
  <2> DEFINE s == [op |-> op, on |-> on]
  <2>1. Shows(db, s) /\ s.op = op /\ s.on = on
    BY <1>1, <1>2
  <2> HIDE DEF s
  <2> QED
    BY <2>1 DEF Shows
<1>3. /\ \A t \in Tables : [op |-> "create", on |-> t] \in Expected(kind)
      /\ \A c \in ColumnsOf("requests") : [op |-> "column", on |-> c] \in Expected(kind)
      /\ \A i \in ToSet(Indexes) : [op |-> "index", on |-> i] \in Expected(kind)
      /\ [op |-> "dropDefault", on |-> ""] \in Expected(kind)
      /\ [op |-> "view", on |-> ""] \in Expected(kind)
      /\ kind = "hub" =>
           /\ \A t \in Tables : /\ [op |-> "repair", on |-> t] \in Expected(kind)
                                /\ [op |-> "staging", on |-> t] \in Expected(kind)
           /\ [op |-> "stagingEffort", on |-> ""] \in Expected(kind)
  <2> HIDE DEF Tables, ColumnsOf, Indexes, ToSet
  <2> QED
    BY DEF Expected
<1>4. db.view /\ ~ db.tables["requests"].default
  BY <1>2, <1>3
<1>5. ASSUME NEW t \in Tables
      PROVE  /\ db.tables[t].there /\ db.tables[t].key /\ ~ db.tables[t].default
             /\ db.tables[t].columns = ColumnsOf(t) /\ db.tables[t].indexes = IndexesOf(t)
  <2>1. db.tables[t].there /\ ~ db.tables[t].default
    BY <1>1, <1>2, <1>3, <1>4 DEF IsEarlier
  <2>2. db.tables[t].key
    <3>1. CASE kind = "hub"
      BY <1>2, <1>3, <2>1, <3>1
    <3>2. CASE kind = "local"
      BY <1>1, <2>1, <3>2 DEF IsEarlier
    <3> QED
      BY <1>1, <3>1, <3>2
  <2>3. ColumnsOf(t) \subseteq db.tables[t].columns
    <3>1. CASE t = "requests"
      BY <1>2, <1>3, <3>1
    <3>2. CASE t # "requests"
      BY <3>2 DEF ColumnsOf
    <3> QED
      BY <3>1, <3>2
  <2>4. ASSUME NEW n \in IndexesOf(t) PROVE n \in db.tables[t].indexes
    <3>1. PICK i \in ToSet(Indexes) : i[1] = t /\ i[2] = n
      BY <2>4 DEF IndexesOf
    <3> QED
      BY <1>2, <1>3, <3>1
  <2>5. db.tables[t].columns \subseteq ColumnsOf(t) /\ db.tables[t].indexes \subseteq IndexesOf(t)
    BY <1>1 DEF IsEarlier
  <2> QED
    BY <2>1, <2>2, <2>3, <2>4, <2>5
<1>6. ASSUME kind = "hub"
      PROVE  /\ \A t \in Tables : db.staging[t].there /\ ~ db.staging[t].key
             /\ ColumnsOf("requests") \subseteq db.staging["requests"].columns
  <2>1. \A t \in Tables : db.staging[t].there /\ ~ db.staging[t].key
    BY <1>1, <1>2, <1>3, <1>6 DEF IsEarlier
  <2>2. "effort" \in db.staging["requests"].columns
    BY <1>2, <1>3, <1>6
  <2>3. "requests" \in Tables
    BY DEF Tables
  <2>4. ColumnsOf("requests") \ {"effort"} \subseteq db.staging["requests"].columns
    BY <1>1, <2>1, <2>3 DEF IsEarlier
  <2> QED
    BY <2>1, <2>2, <2>4
<1> QED
  BY <1>4, <1>5, <1>6

\* Whatever an earlier build left in the file, and wherever earlier starts were cut
\* off, a ledger that is open has every table, key, column, index and view of this
\* build, no bound default, and, on the hub, staging tables a client can use.
THEOREM SchemaOpensComplete == Spec => []OpenIsComplete
<1>1. Init => File /\ LedgerKept /\ Upgrading
  BY FileInitially, UpgradeInitially
<1>2. File /\ LedgerKept /\ Upgrading /\ [Next]_vars => (File /\ LedgerKept /\ Upgrading)'
  BY FileStep, UpgradeStep
<1> QED
  BY <1>1, <1>2, UpgradedIsComplete, PTL DEF Spec
=============================================================================
