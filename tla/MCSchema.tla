------------------------------ MODULE MCSchema ------------------------------
(* The ledgers of earlier builds that the instances of Schema open, and    *)
(* the events that are recorded in them.                                   *)
EXTENDS Schema

\* A request of build b: the first build had only codex_session_id.
Row(i, start, session, codex, known) ==
  [id |-> i, start |-> start, session |-> session, codex |-> codex, known |-> known]
Call(i, what) == [id |-> <<i, 1>>, what |-> what]
Seen(s, start) == [id |-> s, start |-> start]

\* The daemon's own requests: another sight of the oldest session, and a path
\* of no known provider.
MCEvents == {Row(4, 2, "s", "", TRUE), Row(5, 1, "u", "", FALSE)}
MCChildren ==
  [t \in ChildTables |-> [r \in {4, 5} |->
     IF r = 4 /\ t = "tool_calls" THEN {Call(r, "x")} ELSE {}]]

Filled(t, columns, rows) == [Created(t) EXCEPT !.columns = columns, !.rows = rows]
Legacy == {Row(1, 1, "", "s", TRUE), Row(2, 3, "", "", TRUE)}
Current == {Row(1, 1, "s", "s", TRUE), Row(3, 2, "u", "", TRUE)}
Calls == {Call(1, "x")}

NoStaging == [t \in Tables |-> Missing]
AllStaging == [t \in Tables |-> [Created(t) EXCEPT !.key = FALSE]]
OldStaging == [AllStaging EXCEPT !["requests"].columns = @ \ {"effort"}]
File(tables, staging, view) ==
  [tables |-> tables, copies |-> [t \in Tables |-> Missing], staging |-> staging, view |-> view]

Empty == File([t \in Tables |-> Missing], NoStaging, FALSE)

\* The first build: no session registry, none of the added columns, a default
\* on created_at.
First ==
  File([t \in Tables |->
          CASE t = "requests" -> [Filled(t, {}, Legacy) EXCEPT !.default = TRUE,
                                                               !.indexes = {"started_at"}]
            [] t = "sessions" -> Missing
            [] t = "tool_calls" -> Filled(t, {}, Calls)
            [] OTHER -> Created(t)], NoStaging, FALSE)

\* A current ledger; and one an older build, which writes codex_session_id only,
\* has written to since.
Complete(requests, sessions, staging) ==
  File([t \in Tables |->
          [CASE t = "requests" -> Filled(t, ColumnsOf(t), requests)
             [] t = "sessions" -> Filled(t, {}, sessions)
             [] t = "tool_calls" -> Filled(t, {}, Calls)
             [] OTHER -> Created(t) EXCEPT !.indexes = IndexesOf(t)]], staging, TRUE)
UpToDate(staging) == Complete(Current, {Seen("s", 1), Seen("u", 2)}, staging)
Downgraded == Complete(Current \cup {Row(6, 1, "", "v", TRUE)},
                       {Seen("s", 1), Seen("u", 2)}, NoStaging)

\* The constraint-free experiment: tables rebuilt without key and indexes.
Stripped(f, ts) ==
  [f EXCEPT !.tables = [t \in Tables |->
     IF t \in ts THEN [f.tables[t] EXCEPT !.key = FALSE, !.indexes = {}]
     ELSE f.tables[t]],
            !.view = FALSE]

\* Without a key, the same request was written twice.
Doubled(f) == [f EXCEPT !.tables["requests"].rows = @ \cup {Row(3, 3, "u", "", TRUE)}]

LocalLedgers == {Empty, First, Downgraded, UpToDate(NoStaging)}
HubLedgers ==
  {Empty, First, UpToDate(OldStaging), UpToDate(AllStaging),
   Stripped(First, {"requests", "tool_calls"}), Stripped(Downgraded, {"sessions"}),
   Stripped(UpToDate(OldStaging), Tables),
   Doubled(Stripped(UpToDate(NoStaging), {"requests", "tool_calls"}))}

MCLedgers == [k \in {"local", "hub"} |-> IF k = "hub" THEN HubLedgers ELSE LocalLedgers]
=============================================================================
