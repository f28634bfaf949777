------------------------------ MODULE Reports -------------------------------
(***************************************************************************)
(* Reports read the ledger in several scans of one table each, because a   *)
(* Quack client cannot stream two, while the daemon goes on writing.       *)
(* Modelled are the listing of recent tool calls and web requests, which   *)
(* widens its window until it has enough rows; the peak concurrency of the *)
(* KPIs; and the buckets of the token heatmap in local time.               *)
(***************************************************************************)
EXTENDS Integers, Sequences, FiniteSets, SequencesExt, FiniteSetsExt

CONSTANTS Pool,       \* request rows: [id, source, start, stop, tokens, calls]
          Limits,     \* the numbers of rows a listing may be asked for
          Windows,    \* half-open ranges <<since, until>> of instants
          MaxWindow,  \* maxRequestWindow
          Clock,      \* Clock[h]: the local day and hour of instant h
          PicksLater, \* which of two instants time.Date makes of a local time
          DayHours    \* hours of an ordinary day

ASSUME ReportsAssumption ==
  /\ Limits \subseteq Nat \ {0}
  /\ MaxWindow \in Nat \ {0}
  /\ \A r \in Pool :
       /\ r.start \in Nat /\ r.stop \in Nat /\ r.tokens \in Nat
       /\ r.calls \in Seq(BOOLEAN)
       /\ r.stop = 0 \/ r.start =< r.stop
  /\ Clock \in Seq(Int \X Nat)
  /\ PicksLater \in BOOLEAN
  /\ Windows \subseteq (DOMAIN Clock) \X (1..(Len(Clock) + 1))

VARIABLES requests,   \* the rows of table requests
          children,   \* ids whose rows of tool_calls or web_requests are there
          step, asked, window, listed, answer,
          asOf,       \* history: requests as of the last candidate scan
          joined      \* history: children as of the last child scan

reader == <<step, asked, window, listed, answer, asOf, joined>>
vars == <<requests, children, reader>>

----------------------------------------------------------------------------
(* The ledger grows; retention runs before a daemon serves any report.     *)

\* A local batch, and most merges, bring a request with its children; a merge
\* between two staging statements brings them later.
Insert(r) ==
  /\ r \notin requests
  /\ requests' = requests \cup {r}
  /\ children' \in IF r.calls = <<>> THEN {children} ELSE {children, children \cup {r.id}}
  /\ UNCHANGED reader

MergeChildren(r) ==
  /\ r \in requests /\ r.calls # <<>> /\ r.id \notin children
  /\ children' = children \cup {r.id}
  /\ UNCHANGED <<requests, reader>>

----------------------------------------------------------------------------
(* ToolCalls and WebRequests: expandingJoin over candidateRequests.        *)

Since(w) == w[1]
Until(w) == w[2]
InRange(t, w) == Since(w) =< t /\ t < Until(w)

Matching(q) ==
  {r \in requests : InRange(r.start, q.range) /\ q.source \in {"", r.source}}

\* ORDER BY started_at DESC LIMIT n: requests of one instant come in any order.
Newest(S, n) ==
  {c \in [1..Min({n, Cardinality(S)}) -> S] :
     /\ \A i, j \in DOMAIN c : i < j => c[i] # c[j] /\ c[i].start >= c[j].start
     /\ \A i \in DOMAIN c, r \in S \ ToSet(c) : c[i].start >= r.start}

Ask(op, q) ==
  /\ step = "idle"
  /\ step' = op
  /\ asked' = q
  /\ window' = IF op = "candidates" THEN q.limit ELSE 0
  /\ UNCHANGED <<requests, children, listed, answer, asOf, joined>>

\* The answer is printed or sent; another report may be asked for.
Return ==
  /\ step = "done"
  /\ step' = "idle" /\ asked' = <<>> /\ window' = 0
  /\ listed' = <<>> /\ answer' = <<>> /\ asOf' = {} /\ joined' = {}
  /\ UNCHANGED <<requests, children>>

CandidateRequests ==
  /\ step = "candidates"
  /\ listed' \in Newest(Matching(asked), window)
  /\ asOf' = Matching(asked)
  /\ step' = "join"
  /\ UNCHANGED <<requests, children, asked, window, answer, joined>>

\* The rows of one request that the listing keeps (CommandsOnly in SQL, or the
\* names of web tools in Go), by ordinal.
Kept(r, arrived) ==
  IF r.id \notin arrived THEN {}
  ELSE {i \in DOMAIN r.calls : ~ asked.filtered \/ r.calls[i]}

\* ORDER BY ordinal.
Ordered(S) ==
  CHOOSE s \in [1..Cardinality(S) -> S] : \A i, j \in DOMAIN s : i < j => s[i] < s[j]
ChildrenOf(r) ==
  LET ordinals == Ordered(Kept(r, children))
  IN [i \in DOMAIN ordinals |-> [request |-> r, ordinal |-> ordinals[i]]]

Joined == FlattenSeq([i \in DOMAIN listed |-> ChildrenOf(listed[i])])
Truncated(s) == SubSeq(s, 1, Min({Len(s), asked.limit}))

\* Mutant: a scan that filled its window is taken for an exhausted one.
EnoughWhenFull(out) ==
  Len(out) >= asked.limit \/ Len(listed) =< window \/ window >= MaxWindow

Enough(out) ==
  Len(out) >= asked.limit \/ Len(listed) < window \/ window >= MaxWindow

JoinChildRows ==
  /\ step = "join"
  /\ joined' = children
  /\ LET out == Truncated(Joined)
     IN IF Enough(out)
        THEN step' = "done" /\ answer' = out /\ UNCHANGED window
        ELSE step' = "candidates" /\ window' = 2 * window /\ UNCHANGED answer
  /\ UNCHANGED <<requests, children, asked, listed, asOf>>

----------------------------------------------------------------------------
(* KPIs: the most requests under way at once, by a sweep over the ends of  *)
(* their intervals, clipped to the range.                                  *)

Overlapping(w) ==
  {r \in requests : r.stop # 0 /\ r.stop > Since(w) /\ r.start < Until(w)}
Clipped(r, w) == <<Max({r.start, Since(w)}), Min({r.stop, Until(w)})>>

\* Only intervals of some length count; an end and a start that touch cancel.
Intervals(w) == {r \in Overlapping(w) : Clipped(r, w)[1] < Clipped(r, w)[2]}
Times(w) == UNION {{Clipped(r, w)[1], Clipped(r, w)[2]} : r \in Intervals(w)}

Delta(t, w) ==
  Cardinality({r \in Intervals(w) : Clipped(r, w)[1] = t})
    - Cardinality({r \in Intervals(w) : Clipped(r, w)[2] = t})

\* Mutant: a request is under way still at the instant it completed.
ActiveAtItsEnd(t, w) ==
  Cardinality({r \in Intervals(w) : Clipped(r, w)[1] =< t})
    - Cardinality({r \in Intervals(w) : Clipped(r, w)[2] < t})

Active(t, w) == MapThenSumSet(LAMBDA u : Delta(u, w), {u \in Times(w) : u =< t})
Peak(w) == Max({0} \cup {Active(t, w) : t \in Times(w)})

PeakConcurrency ==
  /\ step = "peak"
  /\ answer' = <<Peak(asked.range)>>
  /\ asOf' = requests
  /\ step' = "done"
  /\ UNCHANGED <<requests, children, asked, window, listed, joined>>

----------------------------------------------------------------------------
(* TokenActivity: totals per hour or per day, keyed by local wall clock.   *)

Day(h) == Clock[h][1]
Hour(h) == Clock[h][2]

Earlier(wall, other) ==
  wall[1] < other[1] \/ (wall[1] = other[1] /\ wall[2] < other[2])

\* time.Date: an instant with this reading of the local clock, or one next to the
\* gap, of an hour, in which the clock skips it; which of two depends on the zone.
Date(wall) ==
  LET readings == {k \in DOMAIN Clock : Clock[k] = wall}
      later == {k \in DOMAIN Clock : Earlier(wall, Clock[k])}
      instants == IF readings # {} THEN readings
                  ELSE IF later = {} THEN {Len(Clock) + 1}
                  ELSE {Min(later) - 1, Min(later)}
  IN IF PicksLater THEN Max(instants) ELSE Min(instants)

BeginningOfDay(h) == Date(<<Day(h), 0>>)
BeginningOfHour(h) == Date(Clock[h])

\* AddDate(0, 0, 1): the same hour of the next day.
NextDay(h) == Date(<<Day(h) + 1, Hour(h)>>)

\* date_trunc of the database, in the same zone: the first instant of the day.
Midnight(h) == Min({k \in DOMAIN Clock : Day(k) = Day(h)})
TruncatedTo(bucket, h) == IF bucket = "day" THEN Midnight(h) ELSE h
ActivityKey(h) == Clock[h]

FirstBucket(bucket, h) == IF bucket = "day" THEN BeginningOfDay(h) ELSE BeginningOfHour(h)

\* Mutant: the next day begins 24 hours later.
NextBucketByHours(bucket, h) == IF bucket = "day" THEN h + DayHours ELSE h + 1

NextBucket(bucket, h) == IF bucket = "day" THEN NextDay(h) ELSE h + 1

\* The starts of the buckets, from the one that holds since.
Buckets(bucket, w) ==
  LET at[n \in 0..Len(Clock)] ==
        IF n = 0 THEN FirstBucket(bucket, Since(w))
        ELSE IF at[n - 1] >= Until(w) THEN at[n - 1]
        ELSE NextBucket(bucket, at[n - 1])
  IN {at[n] : n \in DOMAIN at} \cap {h \in DOMAIN Clock : h < Until(w)}

Total(S) == MapThenSumSet(LAMBDA r : r.tokens, S)

\* date_trunc of started_at, then the map of totals by key.
Aggregated(key, q) ==
  Total({r \in Matching(q) : ActivityKey(TruncatedTo(q.bucket, r.start)) = key})

TokenActivity ==
  /\ step = "activity"
  /\ answer' = [at \in Buckets(asked.bucket, asked.range) |->
                  Aggregated(ActivityKey(at), asked)]
  /\ asOf' = Matching(asked)
  /\ step' = "done"
  /\ UNCHANGED <<requests, children, asked, window, listed, joined>>

----------------------------------------------------------------------------

Sources == {""} \cup {r.source : r \in Pool}
Days == {w \in Windows : \E h \in DOMAIN Clock : Since(w) = BeginningOfDay(h)}

Listings == [limit : Limits, filtered : BOOLEAN, source : Sources, range : Windows]
Peaks == [range : Windows]

\* loadHeatmap: hours for a single day, days otherwise.
SingleDay(w) == NextDay(Since(w)) = Until(w)
Activities == {q \in [bucket : {"day", "hour"}, source : Sources, range : Days] :
                 q.bucket = "hour" <=> SingleDay(q.range)}

Init ==
  /\ requests = {} /\ children = {}
  /\ step = "idle" /\ asked = <<>> /\ window = 0
  /\ listed = <<>> /\ answer = <<>> /\ asOf = {} /\ joined = {}

Write == \E r \in Pool : Insert(r) \/ MergeChildren(r)

Next ==
  \/ Write
  \/ \E q \in Listings : Ask("candidates", q)
  \/ \E q \in Peaks : Ask("peak", q)
  \/ \E q \in Activities : Ask("activity", q)
  \/ CandidateRequests \/ JoinChildRows \/ PeakConcurrency \/ TokenActivity \/ Return

Spec == Init /\ [][Next]_vars

----------------------------------------------------------------------------
(* Properties                                                              *)

IsListing == step = "done" /\ "limit" \in DOMAIN asked

Precedes(a, b) ==
  IF a.request = b.request THEN a.ordinal < b.ordinal ELSE a.request.start >= b.request.start

Beyond(r) == Cardinality({q \in asOf : q.start >= r.start}) > MaxWindow

\* A listing has the newest rows of the requests there were when it last looked
\* for them, each once and in order, up to its limit; a row it leaves out, of a
\* request no older than the reach of the search, is older than all it has.
ListingIsNewest ==
  IsListing =>
    /\ \A i \in DOMAIN answer :
         /\ answer[i].request \in asOf
         /\ answer[i].ordinal \in Kept(answer[i].request, joined)
         /\ \A j \in DOMAIN answer : i < j => Precedes(answer[i], answer[j])
    /\ \A r \in asOf : \A n \in Kept(r, joined) :
         LET row == [request |-> r, ordinal |-> n]
         IN \/ row \in ToSet(answer)
            \/ Len(answer) = asked.limit /\ \A i \in DOMAIN answer : Precedes(answer[i], row)
            \/ Beyond(r)

\* The peak is the largest number of requests under way at any instant of the
\* range: a request that starts as another completes does not overlap it.
PeakIsMaximum ==
  step = "done" /\ DOMAIN asked = {"range"} =>
    LET w == asked.range
        UnderWay(t) == Cardinality({r \in asOf : r.stop # 0 /\ r.start =< t /\ t < r.stop})
    IN answer[1] = Max({0} \cup {UnderWay(t) : t \in Since(w)..(Until(w) - 1)})

InBucket(bucket, h, at) == IF bucket = "day" THEN Day(h) = Day(at) ELSE h = at

\* "TokenActivity returns zero-filled token totals for every bucket in the
\* selected interval": each request's tokens are in one bucket, the hour or the
\* day it started in, and all buckets of the range are there.  The key is a reading
\* of the local clock, so that this cannot hold where the clock repeats an hour, nor
\* where it skips a midnight: the buckets of the days that follow are then kept at
\* another hour than date_trunc's.
ActivityAddsUp ==
  step = "done" /\ "bucket" \in DOMAIN asked =>
    /\ MapThenSumSet(LAMBDA at : answer[at], DOMAIN answer) = Total(asOf)
    /\ \A at \in DOMAIN answer :
         answer[at] = Total({r \in asOf : InBucket(asked.bucket, r.start, at)})

\* A clock on which ActivityAddsUp can hold: it repeats no reading and skips no
\* midnight and no day.  It may skip any other hour.
SteadyClock ==
  /\ \A h, k \in DOMAIN Clock : h < k => Earlier(Clock[h], Clock[k])
  /\ \A h \in DOMAIN Clock :
       /\ \E k \in DOMAIN Clock : Clock[k] = <<Day(h), 0>>
       /\ h + 1 \in DOMAIN Clock => Day(h + 1) \in {Day(h), Day(h) + 1}
=============================================================================
