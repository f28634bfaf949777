-------------------------- MODULE AgreementProofs --------------------------
(***************************************************************************)
(* AgreesWithBody, which the run of Streams checks for a few responses,    *)
(* proved for every complete response of either provider, streamed in      *)
(* every way that Streams knows and cut anywhere: at the end its parser    *)
(* has the usage, the calls and the web requests of the body.              *)
(*                                                                         *)
(* AnAt, OnStreamAt and ChAt say where a parser stands after the first m   *)
(* events of a message, of a response and of a chat completion: how many   *)
(* blocks, items or calls it has taken in whole, how much of the next, and *)
(* that its calls are those of the places so far.  Each holds of a new     *)
(* parser, is handed on by the event that follows, and at the last event   *)
(* gives the body's account.  The inductive invariant AgreesIInv is that   *)
(* the parser of a complete exchange is where the frames handed to it lead.*)
(***************************************************************************)
EXTENDS StreamsProofs

----------------------------------------------------------------------------
(* The places of a body's blocks: those that leave a call with the parser, *)
(* w saying whether their inputs come whole, those of them that have a     *)
(* name, the tools and the web searches.                                   *)
AnMarked(block) == A!IsTool(block) \/ A!IsWeb(block)

AnKept(b, w) ==
  {i \in DOMAIN b.content :
     AnMarked(b.content[i]) \/ (~ w /\ b.content[i].input # << >>)}

AnNamed(b) == {i \in DOMAIN b.content : AnMarked(b.content[i]) /\ b.content[i].name # ""}

AnToolPlaces(b) == {i \in DOMAIN b.content : A!IsTool(b.content[i])}

AnWebPlaces(b) == {i \in DOMAIN b.content : A!IsWeb(b.content[i])}

AnPlaces(b, w, k) == PlacesUpto(Len(b.content), AnKept(b, w), k)

\* c is the call of block i, and has its whole input.
AnIs(b, c, i) ==
  /\ DOMAIN c = {"index", "id", "name", "input", "partial", "web"}
  /\ c.index = i - 1
  /\ IF AnMarked(b.content[i])
     THEN /\ c.id = b.content[i].id
          /\ c.name = b.content[i].name
          /\ c.web = A!IsWeb(b.content[i])
     ELSE c.name = "" /\ c.web = FALSE

AnStands(b, c, i) ==
  AnIs(b, c, i) /\ (AnMarked(b.content[i]) => A!Input(c) = b.content[i].input)

\* The calls are those of the first k blocks.
AnPlaced(b, w, calls, k) ==
  /\ Sequence(calls)
  /\ Len(calls) = Len(AnPlaces(b, w, k))
  /\ \A j \in DOMAIN calls : AnStands(b, calls[j], AnPlaces(b, w, k)[j])

\* What is listed of the calls.
AnToolList(calls) ==
  LET named == A!Selected(calls, A!Named(calls))
  IN [i \in DOMAIN named |-> A!Call(named[i].id, named[i].name, A!Input(named[i]))]

AnWebList(calls) ==
  LET web == A!Selected(calls, A!NamedWeb(calls))
  IN [i \in DOMAIN web |-> A!Call(web[i].id, web[i].name, A!Input(web[i]))]

AnToolsOf(b) == A!CallsOf(A!Selected(b.content, AnToolPlaces(b)))
AnWebsOf(b) == A!CallsOf(A!Selected(b.content, AnWebPlaces(b)))

LEMMA AnKinds ==
  ASSUME NEW block
  PROVE  /\ A!IsWeb(block) \in BOOLEAN /\ ~ (A!IsTool(block) /\ A!IsWeb(block))
         /\ A!IsTool(block) => block.name # ""
  BY DEF A!IsTool, A!IsWeb, A!IsWebToolBlock

LEMMA AnContent ==
  ASSUME NEW b, A!WellFormed(b)
  PROVE  /\ Sequence(b.content) /\ Len(b.content) \in Nat /\ DOMAIN b.content = 1..Len(b.content)
         /\ Len(b.content) \in 0..Len(b.content)
<1>1. Sequence(b.content)
  BY DEF A!WellFormed, Sequence
<1> QED BY <1>1, SequenceIs

LEMMA FirstPlaces ==
  ASSUME NEW n \in Nat, NEW k \in 0..n
  PROVE  n \in k..n /\ 1..k \subseteq 1..n /\ k \in Nat
  OBVIOUS

LEMMA AnPlacesAre ==
  ASSUME NEW b, A!WellFormed(b), NEW w, NEW k \in 0..Len(b.content), NEW calls, AnPlaced(b, w, calls, k)
  PROVE  /\ Len(calls) \in Nat /\ DOMAIN calls = 1..Len(calls)
         /\ \A j \in DOMAIN calls : AnPlaces(b, w, k)[j] \in 1..k
<1>1. Len(b.content) \in Nat
  BY AnContent
<1>2. Sequence(AnPlaces(b, w, k)) /\ \A j \in DOMAIN AnPlaces(b, w, k) : AnPlaces(b, w, k)[j] \in 1..k
  BY <1>1, PlacesAre DEF AnPlaces
<1>3. Len(calls) = Len(AnPlaces(b, w, k)) /\ Sequence(calls)
  BY DEF AnPlaced
<1>4. DOMAIN calls = DOMAIN AnPlaces(b, w, k)
  BY <1>2, <1>3, SequenceIs
<1> QED BY <1>2, <1>3, <1>4, SequenceIs

\* The list of the web searches is the one of the body.
LEMMA AnWebsSelected ==
  ASSUME NEW b, A!WellFormed(b), NEW w, NEW k \in 0..Len(b.content),
         NEW calls, AnPlaced(b, w, calls, k),
         \A i \in (k + 1)..Len(b.content) : i \notin AnWebPlaces(b),
         \A i \in AnWebPlaces(b) : b.content[i].name # ""
  PROVE  AnWebList(calls) = AnWebsOf(b)
<1> DEFINE items == b.content
           n == Len(items)
           N == AnKept(b, w)
           I == AnWebPlaces(b)
           J == A!NamedWeb(calls)
           P == PlacesUpto(n, N, k)
           Q == PlacesUpto(n, I, k)
           u == A!Selected(calls, J)
           v == A!Selected(items, I)
<1>1. Sequence(items) /\ n \in Nat /\ DOMAIN items = 1..n /\ n \in k..n /\ k \in 0..n
  BY AnContent, FirstPlaces, Zenon
<1>2. Sequence(calls) /\ Len(calls) = Len(P)
  BY DEF AnPlaced, AnPlaces
<1>3. \A j \in DOMAIN calls : P[j] \in 1..n /\ AnStands(b, calls[j], P[j])
  <2>1. \A j \in DOMAIN calls : P[j] \in 1..k
    BY AnPlacesAre DEF AnPlaces
  <2>2. 1..k \subseteq 1..n
    BY <1>1, FirstPlaces
  <2> QED BY <2>1, <2>2 DEF AnPlaced, AnPlaces
<1>4. \A i \in 1..n : i \in I => i \in N
  BY <1>1 DEF AnWebPlaces, AnKept, AnMarked
<1>5. \A j \in DOMAIN calls : j \in J <=> P[j] \in I
  <2> SUFFICES ASSUME NEW j \in DOMAIN calls PROVE j \in J <=> P[j] \in I
    OBVIOUS
  <2> DEFINE c == calls[j]
             block == items[P[j]]
  <2>1. /\ AnMarked(block) => c.name = block.name /\ c.web = A!IsWeb(block)
        /\ ~ AnMarked(block) => c.web = FALSE
    BY <1>3 DEF AnStands, AnIs
  <2>2. j \in J <=> c.name # "" /\ c.web
    BY DEF A!NamedWeb, A!Named
  <2>3. P[j] \in I <=> A!IsWeb(block)
    BY <1>1, <1>3 DEF AnWebPlaces
  <2>4. A!IsWeb(block) => block.name # ""
    BY <1>1, <1>3 DEF AnWebPlaces
  <2>5. A!IsWeb(block) \in BOOLEAN /\ (A!IsWeb(block) => AnMarked(block))
    BY AnKinds DEF AnMarked
  <2> HIDE DEF c, block, J, I, P
  <2> QED BY <2>1, <2>2, <2>3, <2>4, <2>5
<1> HIDE DEF N, I, J
<1>6. Chosen(calls, P, u, Q)
  BY <1>1, <1>2, <1>4, <1>5, SelectedPlaces
<1>7. AtPlaces(items, v, PlacesUpto(n, I, n))
  BY <1>1, SelectedAtPlaces
<1>8. PlacesUpto(n, I, n) = Q
  BY <1>1, PlacesSkip DEF I
<1> HIDE DEF P, Q, u, v, items, n
<1>9. Len(u) = Len(v) /\ Sequence(u) /\ Sequence(v) /\ DOMAIN u = DOMAIN v
  <2>1. Sequence(u) /\ Len(u) = Len(Q)
    BY <1>6 DEF Chosen
  <2>2. Sequence(v) /\ Len(v) = Len(Q)
    BY <1>7, <1>8 DEF AtPlaces
  <2>3. DOMAIN u = 1..Len(u) /\ DOMAIN v = 1..Len(v)
    BY <2>1, <2>2, SequenceIs
  <2> QED BY <2>1, <2>2, <2>3
<1>10. ASSUME NEW m \in DOMAIN u
       PROVE  /\ v[m].id = u[m].id /\ v[m].name = u[m].name /\ v[m].input = A!Input(u[m])
  <2>1. PICK j \in DOMAIN calls : u[m] = calls[j] /\ Q[m] = P[j]
    BY <1>6 DEF Chosen
  <2>2. v[m] = items[P[j]]
    BY <1>7, <1>8, <1>9, <2>1 DEF AtPlaces
  <2>3. P[j] \in I
    <3>1. LET R == PlacesUpto(n, I, k) IN Sequence(R) /\ \A z \in DOMAIN R : R[z] \in 1..k /\ R[z] \in I
      BY <1>1, PlacesAre
    <3>2. m \in DOMAIN Q
      BY <1>6, <1>9, <3>1, SequenceIs DEF Chosen, Q
    <3> QED BY <2>1, <3>1, <3>2 DEF Q
  <2>4. AnMarked(items[P[j]])
    BY <2>3 DEF I, AnWebPlaces, AnMarked, items
  <2> QED BY <1>3, <2>1, <2>2, <2>4 DEF AnStands, AnIs, items
<1>11. AnWebList(calls) = [i \in DOMAIN u |-> A!Call(u[i].id, u[i].name, A!Input(u[i]))]
  BY DEF AnWebList, u, J
<1>12. AnWebsOf(b) = [i \in DOMAIN v |-> A!Call(v[i].id, v[i].name, v[i].input)]
  BY DEF AnWebsOf, A!CallsOf, v, I, items
<1>13. \A m \in DOMAIN u : A!Call(u[m].id, u[m].name, A!Input(u[m])) = A!Call(v[m].id, v[m].name, v[m].input)
  BY <1>10
<1>14. DOMAIN u = DOMAIN v
  BY <1>9
<1> QED BY <1>11, <1>12, <1>13, <1>14, Zenon

\* A list of calls without those of web searches is the one of the tools.
LEMMA AnToolsSelected ==
  ASSUME NEW b, A!WellFormed(b), NEW w, NEW k \in 0..Len(b.content),
         NEW calls, AnPlaced(b, w, calls, k),
         \A i \in (k + 1)..Len(b.content) : i \notin AnToolPlaces(b),
         NEW webs, \A i \in AnWebPlaces(b) : b.content[i].id \in A!Ids(webs),
         \A i \in AnToolPlaces(b) : b.content[i].id \notin A!Ids(webs)
  PROVE  NotWeb(AnToolList(calls), webs) = AnToolsOf(b)
<1> DEFINE items == b.content
           n == Len(items)
           N == AnKept(b, w)
           L == AnNamed(b)
           I == AnToolPlaces(b)
           J == A!Named(calls)
           P == PlacesUpto(n, N, k)
           R == PlacesUpto(n, L, k)
           Q == PlacesUpto(n, I, k)
           u == A!Selected(calls, J)
           r == AnToolList(calls)
           K == {i \in DOMAIN r : r[i].id \notin A!Ids(webs)}
           t == A!Selected(r, K)
           v == A!Selected(items, I)
<1>1. Sequence(items) /\ n \in Nat /\ DOMAIN items = 1..n /\ n \in k..n /\ k \in 0..n
  BY AnContent, FirstPlaces, Zenon
<1>2. Sequence(calls) /\ Len(calls) = Len(P)
  BY DEF AnPlaced, AnPlaces
<1>3. \A j \in DOMAIN calls : P[j] \in 1..n /\ AnStands(b, calls[j], P[j])
  <2>1. \A j \in DOMAIN calls : P[j] \in 1..k
    BY AnPlacesAre DEF AnPlaces
  <2>2. 1..k \subseteq 1..n
    BY <1>1, FirstPlaces
  <2> QED BY <2>1, <2>2 DEF AnPlaced, AnPlaces
<1>4. (\A i \in 1..n : i \in L => i \in N) /\ (\A i \in 1..n : i \in I => i \in L)
  BY <1>1, AnKinds DEF AnNamed, AnToolPlaces, AnKept, AnMarked
<1>5. \A j \in DOMAIN calls : j \in J <=> P[j] \in L
  <2> SUFFICES ASSUME NEW j \in DOMAIN calls PROVE j \in J <=> P[j] \in L
    OBVIOUS
  <2> DEFINE c == calls[j]
             block == items[P[j]]
  <2>1. /\ AnMarked(block) => c.name = block.name
        /\ ~ AnMarked(block) => c.name = ""
    BY <1>3 DEF AnStands, AnIs
  <2>2. j \in J <=> c.name # ""
    BY DEF A!Named
  <2>3. P[j] \in L <=> AnMarked(block) /\ block.name # ""
    BY <1>1, <1>3 DEF AnNamed
  <2> HIDE DEF c, block, J, L, P
  <2> QED BY <2>1, <2>2, <2>3
<1> HIDE DEF N, I, J, L
<1>6. Chosen(calls, P, u, R)
  BY <1>1, <1>2, <1>4, <1>5, SelectedPlaces
<1>7. AtPlaces(items, v, PlacesUpto(n, I, n))
  BY <1>1, SelectedAtPlaces
<1>8. PlacesUpto(n, I, n) = Q
  BY <1>1, PlacesSkip DEF I
<1>9. Sequence(R) /\ \A z \in DOMAIN R : R[z] \in 1..k /\ R[z] \in L
  BY <1>1, PlacesAre
<1>10. Sequence(Q) /\ \A z \in DOMAIN Q : Q[z] \in 1..k /\ Q[z] \in I
  BY <1>1, PlacesAre
<1>0. r = [i \in DOMAIN u |-> A!Call(u[i].id, u[i].name, A!Input(u[i]))]
  BY DEF AnToolList, J
<1>11. Sequence(u) /\ Len(u) = Len(R) /\ DOMAIN u = DOMAIN R
  BY <1>6, <1>9, SequenceIs DEF Chosen
<1>12. Sequence(r) /\ DOMAIN r = DOMAIN u /\ Len(r) = Len(R)
  <2> HIDE DEF r, u
  <2>1. DOMAIN r = DOMAIN u /\ r = [i \in DOMAIN u |-> r[i]]
    BY <1>0
  <2>2. Sequence(r)
    BY <1>11, <2>1, SequenceLike
  <2> QED BY <1>11, <2>1, <2>2, SequenceIs
<1>13. ASSUME NEW z \in DOMAIN r
       PROVE  LET block == items[R[z]]
              IN  R[z] \in L /\ r[z] = A!Call(block.id, block.name, block.input)
  <2>1. PICK j \in DOMAIN calls : u[z] = calls[j] /\ R[z] = P[j]
    BY <1>6, <1>12 DEF Chosen
  <2>2. R[z] \in L
    BY <1>9, <1>11, <1>12
  <2>3. AnMarked(items[P[j]])
    BY <2>1, <2>2 DEF L, AnNamed
  <2>4. LET block == items[P[j]]
        IN  u[z].id = block.id /\ u[z].name = block.name /\ A!Input(u[z]) = block.input
    BY <1>3, <2>1, <2>3 DEF AnStands, AnIs
  <2> HIDE DEF u, r, R, P, items
  <2>5. r[z] = A!Call(u[z].id, u[z].name, A!Input(u[z]))
    BY <1>0, <1>12
  <2> QED BY <2>1, <2>2, <2>4, <2>5
<1>14. \A z \in DOMAIN r : z \in K <=> R[z] \in I
  <2> SUFFICES ASSUME NEW z \in DOMAIN r PROVE z \in K <=> R[z] \in I
    OBVIOUS
  <2>1. R[z] \in L /\ r[z].id = items[R[z]].id
    BY <1>13 DEF A!Call
  <2>2. R[z] \in I \/ R[z] \in AnWebPlaces(b)
    BY <2>1 DEF L, I, AnNamed, AnMarked, AnToolPlaces, AnWebPlaces
  <2>3. z \in K <=> r[z].id \notin A!Ids(webs)
    OBVIOUS
  <2> HIDE DEF K, r, R
  <2> QED BY <2>1, <2>2, <2>3 DEF I
<1> HIDE DEF P, Q, R, u, v, r, K
<1>15. Chosen(r, R, t, Q)
  BY <1>1, <1>4, <1>12, <1>14, SelectedPlaces DEF R, Q
<1> HIDE DEF t
<1>16. Len(t) = Len(v) /\ Sequence(t) /\ Sequence(v) /\ DOMAIN t = DOMAIN v /\ DOMAIN t = DOMAIN Q
  BY <1>7, <1>8, <1>10, <1>15, SequenceIs DEF Chosen, AtPlaces
<1>17. ASSUME NEW m \in DOMAIN t PROVE t[m] = A!Call(v[m].id, v[m].name, v[m].input)
  <2>1. PICK j \in DOMAIN r : t[m] = r[j] /\ Q[m] = R[j]
    BY <1>15 DEF Chosen
  <2>2. v[m] = items[R[j]]
    BY <1>7, <1>8, <1>16, <2>1 DEF AtPlaces
  <2> QED BY <1>13, <2>1, <2>2
<1>18. t = [i \in DOMAIN v |-> A!Call(v[i].id, v[i].name, v[i].input)]
  <2>1. t = [i \in DOMAIN t |-> t[i]]
    BY <1>16 DEF Sequence
  <2> QED BY <1>16, <1>17, <2>1
<1>19. AnToolsOf(b) = [i \in DOMAIN v |-> A!Call(v[i].id, v[i].name, v[i].input)]
  BY DEF AnToolsOf, A!CallsOf, v, I, items
<1>20. NotWeb(r, webs) = t
  BY DEF NotWeb, t, K
<1> QED BY <1>18, <1>19, <1>20 DEF r

----------------------------------------------------------------------------
(* The lists of the result are those of the calls of the first blocks, and *)
(* none that has come since belongs on them.                               *)
AnToolsSynced(b, w, k, p) ==
  \E l \in 0..k : \E c :
    /\ AnPlaced(b, w, c, l)
    /\ p.result.tools = AnToolList(c)
    /\ \A i \in (l + 1)..k : i \notin AnToolPlaces(b)

AnWebSynced(b, w, k, p) ==
  \E l \in 0..k : \E c :
    /\ AnPlaced(b, w, c, l)
    /\ p.result.web = A!AddSynthetic(AnWebList(c), p.usage.web)
    /\ \A i \in (l + 1)..k : i \notin AnWebPlaces(b)

\* The message has begun, and u is the usage so far.
AnBegun(b, u, p) ==
  /\ AnShape(p)
  /\ p.usage = u
  /\ p.result.id = b.id
  /\ p.result.error = ""
  /\ p.result.usage = A!ToUsage(u)

\* The first k blocks are through.
AnAfter(b, w, k, u, p) ==
  /\ AnBegun(b, u, p)
  /\ AnPlaced(b, w, p.calls, k)
  /\ AnToolsSynced(b, w, k, p)
  /\ AnWebSynced(b, w, k, p)

\* The next is under way, the first j fragments of its input have come.
AnDraft(b, w, e, i, j) ==
  /\ AnIs(b, e, i)
  /\ e.input = IF w THEN b.content[i].input ELSE << >>
  /\ e.partial = IF w THEN << >> ELSE SubSeq(b.content[i].input, 1, j)

AnDrafted(b, w, k, j, calls) ==
  \E c, e : AnPlaced(b, w, c, k) /\ Extended(c, e, calls) /\ AnDraft(b, w, e, k + 1, j)

AnWithin(b, w, k, j, u, p) ==
  IF AnMarked(b.content[k + 1])
  THEN /\ AnBegun(b, u, p)
       /\ AnDrafted(b, w, k, j, p.calls)
       /\ IF A!IsTool(b.content[k + 1])
          THEN /\ p.result.tools = AnToolList(p.calls)
               /\ AnWebSynced(b, w, k, p)
          ELSE /\ AnToolsSynced(b, w, k, p)
               /\ p.result.web = A!AddSynthetic(AnWebList(p.calls), p.usage.web)
  ELSE AnAfter(b, w, IF j = 0 THEN k ELSE k + 1, u, p)

----------------------------------------------------------------------------
(* The calls.                                                              *)
LEMMA ExtendedIs ==
  ASSUME NEW s, Sequence(s), NEW e, NEW t, Extended(s, e, t)
  PROVE  Len(t) = Len(s) + 1 /\ Len(s) + 1 \in DOMAIN t /\ Len(s) \in Nat
<1>1. Len(s) \in Nat /\ DOMAIN s = 1..Len(s) /\ Len(t) \in Nat /\ DOMAIN t = 1..Len(t)
  BY SequenceIs DEF Extended
<1>2. 1..Len(t) = 1..(Len(s) + 1)
  BY <1>1, NextPlace DEF Extended
<1>3. \A m, n \in Nat : 1..m = 1..(n + 1) => m = n + 1
  <2> SUFFICES ASSUME NEW m \in Nat, NEW n \in Nat, 1..m = 1..(n + 1) PROVE m = n + 1
    OBVIOUS
  <2>1. n + 1 \in 1..m
    OBVIOUS
  <2>2. m >= 1 /\ m \in 1..(n + 1)
    BY <2>1
  <2> QED BY <2>1, <2>2
<1>4. Len(t) = Len(s) + 1
  BY <1>1, <1>2, <1>3
<1> QED BY <1>1, <1>4 DEF Extended

\* The last element changed in place.
LEMMA ExtendedAnew ==
  ASSUME NEW s, Sequence(s), NEW e, NEW t, Extended(s, e, t), NEW f
  PROVE  Extended(s, f, [t EXCEPT ![Len(s) + 1] = f])
<1> DEFINE i == Len(s) + 1
           u == [t EXCEPT ![i] = f]
<1>1. i \in DOMAIN t /\ Sequence(t) /\ Len(s) \in Nat /\ DOMAIN s = 1..Len(s)
  BY ExtendedIs, SequenceIs DEF Extended
<1>2. \A j \in DOMAIN s : j # i
  BY <1>1
<1> HIDE DEF i
<1>3. /\ Sequence(u) /\ DOMAIN u = DOMAIN t /\ u[i] = f
      /\ \A j \in DOMAIN t : j # i => u[j] = t[j]
  BY <1>1, SequenceExcept
<1> HIDE DEF u
<1>4. DOMAIN u = DOMAIN s \cup {i} /\ \A j \in DOMAIN s : u[j] = s[j]
  BY <1>2, <1>3 DEF Extended, i
<1>5. Extended(s, f, u)
  BY <1>3, <1>4 DEF Extended, i
<1> QED BY <1>5 DEF u, i

LEMMA AnPlacesNext ==
  ASSUME NEW b, A!WellFormed(b), NEW w, NEW k \in Nat, k < Len(b.content)
  PROVE  /\ k + 1 \in DOMAIN b.content /\ k \in 0..Len(b.content) /\ k + 1 \in 0..Len(b.content)
         /\ AnPlaces(b, w, k + 1) = IF k + 1 \in AnKept(b, w)
                                    THEN Append(AnPlaces(b, w, k), k + 1) ELSE AnPlaces(b, w, k)
<1>1. Len(b.content) \in Nat /\ DOMAIN b.content = 1..Len(b.content)
  BY AnContent
<1> DEFINE n == Len(b.content)
           N == AnKept(b, w)
<1>2. PlacesUpto(n, N, k + 1) =
        IF k + 1 \in N THEN Append(PlacesUpto(n, N, k), k + 1) ELSE PlacesUpto(n, N, k)
  <2>1. n \in Nat /\ k < n
    BY <1>1
  <2> HIDE DEF n, N
  <2> QED BY <2>1, PlacesNext
<1>3. k + 1 \in 1..n /\ k \in 0..n /\ k + 1 \in 0..n
  BY <1>1
<1> QED BY <1>1, <1>2, <1>3 DEF AnPlaces

\* The calls of the first k blocks, one more of them.
LEMMA AnPlacedNext ==
  ASSUME NEW b, A!WellFormed(b), NEW w, NEW k \in Nat, k < Len(b.content),
         NEW c, AnPlaced(b, w, c, k)
  PROVE  /\ k + 1 \notin AnKept(b, w) => AnPlaced(b, w, c, k + 1)
         /\ \A e, calls : k + 1 \in AnKept(b, w) /\ Extended(c, e, calls) /\ AnStands(b, e, k + 1)
              => AnPlaced(b, w, calls, k + 1)
<1> DEFINE P == AnPlaces(b, w, k)
           Q == AnPlaces(b, w, k + 1)
<1>1. /\ Q = IF k + 1 \in AnKept(b, w) THEN Append(P, k + 1) ELSE P
      /\ k \in 0..Len(b.content)
  BY AnPlacesNext
<1>2. Sequence(c) /\ Len(c) = Len(P) /\ \A j \in DOMAIN c : AnStands(b, c[j], P[j])
  BY DEF AnPlaced
<1>3. Sequence(P)
  BY <1>1, AnContent, PlacesAre DEF AnPlaces
<1> HIDE DEF P, Q
<1>4. ASSUME k + 1 \notin AnKept(b, w) PROVE AnPlaced(b, w, c, k + 1)
  BY <1>1, <1>2, <1>4 DEF AnPlaced, P, Q
<1>5. ASSUME NEW e, NEW calls, k + 1 \in AnKept(b, w), Extended(c, e, calls), AnStands(b, e, k + 1)
      PROVE  AnPlaced(b, w, calls, k + 1)
  <2>1. Q = Append(P, k + 1)
    BY <1>1, <1>5
  <2>2. Extended(P, k + 1, Q)
    BY <1>3, <2>1, AppendExtends
  <2>3. Len(calls) = Len(c) + 1 /\ Len(Q) = Len(P) + 1
    BY <1>2, <1>3, <1>5, <2>2, ExtendedIs, Zenon
  <2>4. DOMAIN P = DOMAIN c
    BY <1>2, <1>3, SequenceIs
  <2>5. ASSUME NEW j \in DOMAIN calls PROVE AnStands(b, calls[j], Q[j])
    <3>1. CASE j \in DOMAIN c
      <4>1. calls[j] = c[j] /\ Q[j] = P[j]
        BY <1>5, <2>2, <2>4, <3>1 DEF Extended
      <4> QED BY <1>2, <3>1, <4>1
    <3>2. CASE j = Len(c) + 1
      <4>1. calls[j] = e /\ Q[j] = k + 1
        BY <1>2, <1>5, <2>2, <3>2 DEF Extended
      <4> QED BY <1>5, <4>1
    <3> QED BY <1>5, <3>1, <3>2 DEF Extended
  <2> QED BY <1>2, <1>5, <2>3, <2>5 DEF AnPlaced, Q, Extended
<1> QED BY <1>4, <1>5

\* None of them has the place of the next block.
LEMMA AnNoneThere ==
  ASSUME NEW b, A!WellFormed(b), NEW w, NEW k \in 0..Len(b.content), NEW c, AnPlaced(b, w, c, k)
  PROVE  \A j \in DOMAIN c : c[j].index # k
<1> SUFFICES ASSUME NEW j \in DOMAIN c PROVE c[j].index # k
  OBVIOUS
<1>1. AnPlaces(b, w, k)[j] \in 1..k
  BY AnPlacesAre
<1>2. c[j].index = AnPlaces(b, w, k)[j] - 1
  BY DEF AnPlaced, AnStands, AnIs
<1>3. \A m \in Nat : \A i \in 1..m : i - 1 # m
  OBVIOUS
<1> QED BY <1>1, <1>2, <1>3

AnBlank(e, index) ==
  /\ DOMAIN e = {"index", "id", "name", "input", "partial", "web"}
  /\ e.index = index /\ e.name = "" /\ e.web = FALSE
  /\ e.input = << >> /\ e.partial = << >>

LEMMA AnFreshSlot ==
  ASSUME NEW b, A!WellFormed(b), NEW w, NEW k \in 0..Len(b.content), NEW c, AnPlaced(b, w, c, k)
  PROVE  LET s == A!Slot(c, k)
             i == A!At(s, k)
         IN  i = Len(c) + 1 /\ Extended(c, s[i], s) /\ AnBlank(s[i], k)
<1> DEFINE f == FALSE
           e == [index |-> k, id |-> "", name |-> "", input |-> << >>, partial |-> << >>, web |-> f]
           s == A!Slot(c, k)
           i == A!At(s, k)
<1>1. \A j \in DOMAIN c : c[j].index # k
  BY AnNoneThere
<1>2. s = Append(c, e)
  BY <1>1 DEF A!Slot
<1> HIDE DEF f
<1>3. AnBlank(e, k)
  BY DEF AnBlank, f
<1> HIDE DEF e, s
<1>4. Sequence(c)
  BY DEF AnPlaced
<1>5. Extended(c, e, s)
  BY <1>2, <1>4, AppendExtends, Zenon
<1>6. i = Len(c) + 1
  <2>1. Len(c) + 1 \in DOMAIN s /\ s[Len(c) + 1].index = k
    BY <1>3, <1>4, <1>5, ExtendedIs DEF Extended, AnBlank
  <2>2. \A j \in DOMAIN s : s[j].index = k => j = Len(c) + 1
    BY <1>1, <1>5 DEF Extended
  <2> QED BY <2>1, <2>2 DEF A!At
<1> HIDE DEF i
<1>7. s[i] = e
  BY <1>5, <1>6 DEF Extended
<1>8. i = Len(c) + 1 /\ Extended(c, s[i], s) /\ AnBlank(s[i], k)
  BY <1>3, <1>5, <1>6, <1>7
<1> QED BY <1>8 DEF s, i

LEMMA AnLastSlot ==
  ASSUME NEW b, A!WellFormed(b), NEW w, NEW k \in 0..Len(b.content), NEW c, AnPlaced(b, w, c, k),
         NEW e, NEW calls, Extended(c, e, calls), e.index = k
  PROVE  A!Slot(calls, k) = calls /\ A!At(calls, k) = Len(c) + 1
<1>1. \A j \in DOMAIN c : c[j].index # k
  BY AnNoneThere
<1>2. Len(c) + 1 \in DOMAIN calls /\ calls[Len(c) + 1].index = k
  BY ExtendedIs DEF Extended, AnPlaced
<1>3. \A j \in DOMAIN calls : calls[j].index = k => j = Len(c) + 1
  BY <1>1 DEF Extended
<1> QED BY <1>2, <1>3 DEF A!Slot, A!At

----------------------------------------------------------------------------
(* The parser with other calls, and one of its lists anew.                 *)
AnTooled(b, u, p, calls, q) ==
  /\ AnBegun(b, u, q)
  /\ q.calls = calls
  /\ q.result.tools = AnToolList(calls)
  /\ q.result.web = p.result.web

AnWebbed(b, u, p, calls, q) ==
  /\ AnBegun(b, u, q)
  /\ q.calls = calls
  /\ q.result.tools = p.result.tools
  /\ q.result.web = A!AddSynthetic(AnWebList(calls), u.web)

LEMMA AnTooling ==
  ASSUME NEW b, NEW u, NEW p, AnBegun(b, u, p), NEW calls
  PROVE  AnTooled(b, u, p, calls, A!SyncToolCalls([p EXCEPT !.calls = calls]))
<1> DEFINE q == [p EXCEPT !.calls = calls]
           t == AnToolList(calls)
           r == A!SyncToolCalls(q)
<1>1. /\ AnShape(q) /\ q.calls = calls /\ q.result = p.result /\ q.usage = p.usage
      /\ q.terminal = p.terminal
  BY DEF AnBegun, AnShape
<1>2. r = [q EXCEPT !.result.tools = AnToolList(q.calls)]
  BY DEF A!SyncToolCalls, AnToolList
<1> HIDE DEF q, r, t
<1>3. r = [q EXCEPT !.result.tools = t]
  BY <1>1, <1>2 DEF t
<1>4. /\ AnShape(r) /\ r.calls = calls /\ r.usage = p.usage /\ r.result.tools = t
      /\ r.result.web = p.result.web /\ r.result.id = p.result.id
      /\ r.result.error = p.result.error /\ r.result.usage = p.result.usage
  BY <1>1, <1>3 DEF AnShape, ResultFields
<1>5. AnTooled(b, u, p, calls, r)
  BY <1>4 DEF AnTooled, AnBegun, t
<1> QED BY <1>5 DEF r, q

LEMMA AnWebbing ==
  ASSUME NEW b, NEW u, NEW p, AnBegun(b, u, p), NEW calls
  PROVE  AnWebbed(b, u, p, calls, A!SyncWebRequests([p EXCEPT !.calls = calls]))
<1> DEFINE q == [p EXCEPT !.calls = calls]
           t == A!AddSynthetic(AnWebList(calls), u.web)
           r == A!SyncWebRequests(q)
<1>1. /\ AnShape(q) /\ q.calls = calls /\ q.result = p.result /\ q.usage = p.usage
      /\ q.terminal = p.terminal /\ p.usage = u
  BY DEF AnBegun, AnShape
<1>2. r = [q EXCEPT !.result.web = A!AddSynthetic(AnWebList(q.calls), q.usage.web)]
  BY DEF A!SyncWebRequests, AnWebList
<1> HIDE DEF q, r, t
<1>3. r = [q EXCEPT !.result.web = t]
  BY <1>1, <1>2 DEF t
<1>4. /\ AnShape(r) /\ r.calls = calls /\ r.usage = p.usage /\ r.result.web = t
      /\ r.result.tools = p.result.tools /\ r.result.id = p.result.id
      /\ r.result.error = p.result.error /\ r.result.usage = p.result.usage
  BY <1>1, <1>3 DEF AnShape, ResultFields
<1>5. AnWebbed(b, u, p, calls, r)
  BY <1>4 DEF AnWebbed, AnBegun, t
<1> QED BY <1>5 DEF r, q

\* A list is as good as it was if its result, and its usage, are the same.
LEMMA AnSyncedStill ==
  ASSUME NEW b, NEW w, NEW k, NEW p, NEW q
  PROVE  /\ q.result.tools = p.result.tools /\ AnToolsSynced(b, w, k, p) => AnToolsSynced(b, w, k, q)
         /\ q.result.web = p.result.web /\ q.usage = p.usage /\ AnWebSynced(b, w, k, p)
              => AnWebSynced(b, w, k, q)
  BY DEF AnToolsSynced, AnWebSynced

\* It is as good as it was if the next block does not belong on it.
LEMMA AnSyncedNext ==
  ASSUME NEW b, NEW w, NEW k \in Nat, NEW p
  PROVE  /\ AnToolsSynced(b, w, k, p) /\ k + 1 \notin AnToolPlaces(b) => AnToolsSynced(b, w, k + 1, p)
         /\ AnWebSynced(b, w, k, p) /\ k + 1 \notin AnWebPlaces(b) => AnWebSynced(b, w, k + 1, p)
<1>1. \A l \in 0..k : l \in 0..(k + 1) /\ \A i \in (l + 1)..(k + 1) : i \in (l + 1)..k \/ i = k + 1
  OBVIOUS
<1>2. ASSUME AnToolsSynced(b, w, k, p), k + 1 \notin AnToolPlaces(b) PROVE AnToolsSynced(b, w, k + 1, p)
  <2>1. PICK l \in 0..k : \E c :
          /\ AnPlaced(b, w, c, l)
          /\ p.result.tools = AnToolList(c)
          /\ \A i \in (l + 1)..k : i \notin AnToolPlaces(b)
    BY <1>2 DEF AnToolsSynced
  <2>2. l \in 0..(k + 1) /\ \A i \in (l + 1)..(k + 1) : i \notin AnToolPlaces(b)
    BY <1>1, <1>2, <2>1
  <2> QED BY <2>1, <2>2 DEF AnToolsSynced
<1>3. ASSUME AnWebSynced(b, w, k, p), k + 1 \notin AnWebPlaces(b) PROVE AnWebSynced(b, w, k + 1, p)
  <2>1. PICK l \in 0..k : \E c :
          /\ AnPlaced(b, w, c, l)
          /\ p.result.web = A!AddSynthetic(AnWebList(c), p.usage.web)
          /\ \A i \in (l + 1)..k : i \notin AnWebPlaces(b)
    BY <1>3 DEF AnWebSynced
  <2>2. l \in 0..(k + 1) /\ \A i \in (l + 1)..(k + 1) : i \notin AnWebPlaces(b)
    BY <1>1, <1>3, <2>1
  <2> QED BY <2>1, <2>2 DEF AnWebSynced
<1> QED BY <1>2, <1>3

\* It is as good as can be if it is that of the calls.
LEMMA AnSyncedNow ==
  ASSUME NEW b, NEW w, NEW k \in Nat, NEW p, NEW calls, AnPlaced(b, w, calls, k)
  PROVE  /\ p.result.tools = AnToolList(calls) => AnToolsSynced(b, w, k, p)
         /\ p.result.web = A!AddSynthetic(AnWebList(calls), p.usage.web) => AnWebSynced(b, w, k, p)
<1>1. k \in 0..k /\ \A i \in (k + 1)..k : FALSE
  OBVIOUS
<1> QED BY <1>1 DEF AnToolsSynced, AnWebSynced

\* What depends on neither flag.
LEMMA AnBegunStill ==
  ASSUME NEW b, NEW u, NEW p, AnBegun(b, u, p), NEW q, AnShape(q), q.result = p.result, q.usage = p.usage
  PROVE  AnBegun(b, u, q)
  BY DEF AnBegun

LEMMA AnAfterStill ==
  ASSUME NEW b, NEW w, NEW k, NEW u, NEW p, AnAfter(b, w, k, u, p), NEW q, AnShape(q),
         q.result = p.result, q.usage = p.usage, q.calls = p.calls
  PROVE  AnAfter(b, w, k, u, q)
  BY AnBegunStill, AnSyncedStill DEF AnAfter

LEMMA AnWithinStill ==
  ASSUME NEW b, NEW w, NEW k, NEW j, NEW u, NEW p, AnWithin(b, w, k, j, u, p), NEW q, AnShape(q),
         q.result = p.result, q.usage = p.usage, q.calls = p.calls
  PROVE  AnWithin(b, w, k, j, u, q)
<1>1. CASE AnMarked(b.content[k + 1])
  <2>1. /\ AnBegun(b, u, q) /\ AnDrafted(b, w, k, j, q.calls)
        /\ IF A!IsTool(b.content[k + 1])
           THEN p.result.tools = AnToolList(p.calls) /\ AnWebSynced(b, w, k, p)
           ELSE /\ AnToolsSynced(b, w, k, p)
                /\ p.result.web = A!AddSynthetic(AnWebList(p.calls), p.usage.web)
    BY <1>1, AnBegunStill DEF AnWithin
  <2>2. IF A!IsTool(b.content[k + 1])
        THEN q.result.tools = AnToolList(q.calls) /\ AnWebSynced(b, w, k, q)
        ELSE /\ AnToolsSynced(b, w, k, q)
             /\ q.result.web = A!AddSynthetic(AnWebList(q.calls), q.usage.web)
    BY <2>1, AnSyncedStill
  <2> QED BY <1>1, <2>1, <2>2 DEF AnWithin
<1>2. CASE ~ AnMarked(b.content[k + 1])
  BY <1>2, AnAfterStill DEF AnWithin
<1> QED BY <1>1, <1>2

----------------------------------------------------------------------------
(* The fragments of an input.                                              *)
LEMMA SubSeqNext ==
  ASSUME NEW s, Sequence(s), NEW j \in Nat, j < Len(s)
  PROVE  SubSeq(s, 1, j + 1) = Append(SubSeq(s, 1, j), s[j + 1])
<1>1. PICK S : s \in Seq(S)
  BY DEF Sequence
<1> DEFINE t == SubSeq(s, 1, j + 1)
           v == SubSeq(s, 1, j)
<1>2. /\ Len(s) \in Nat /\ j + 1 \in 1..Len(s) /\ s[j + 1] \in S
      /\ v \in Seq(S) /\ Len(v) = j /\ \A i \in 1..j : v[i] = s[i]
      /\ t \in Seq(S) /\ Len(t) = j + 1 /\ \A i \in 1..(j + 1) : t[i] = s[i]
  BY <1>1
<1> HIDE DEF t, v
<1>3. /\ Append(v, s[j + 1]) \in Seq(S) /\ Len(Append(v, s[j + 1])) = j + 1
      /\ \A i \in 1..j : Append(v, s[j + 1])[i] = v[i]
      /\ Append(v, s[j + 1])[j + 1] = s[j + 1]
  BY <1>2, AppendProperties
<1>4. \A i \in 1..(j + 1) : t[i] = Append(v, s[j + 1])[i]
  BY <1>2, <1>3
<1>5. t = Append(v, s[j + 1])
  BY <1>2, <1>3, <1>4, SeqEqual
<1> QED BY <1>5 DEF t, v

LEMMA PrefixEnds ==
  ASSUME NEW s, Sequence(s)
  PROVE  SubSeq(s, 1, 0) = << >> /\ SubSeq(s, 1, Len(s)) = s
<1>1. PICK S : s \in Seq(S)
  BY DEF Sequence
<1>2. SubSeq(s, 1, Len(s)) = s
  BY <1>1, SubSeqFull
<1>3. SubSeq(s, 1, 0) = << >>
  BY <1>1, SubSeqEmpty
<1> QED BY <1>2, <1>3

LEMMA AnInputs ==
  ASSUME NEW b, A!WellFormed(b), NEW i \in DOMAIN b.content
  PROVE  /\ Sequence(b.content[i].input)
         /\ DOMAIN b.content[i] = {"type", "id", "name", "input"}
         /\ b.content[i].input = << >> <=> Len(b.content[i].input) = 0
<1> DEFINE s == b.content[i].input
<1>1. s \in Seq({s[j] : j \in DOMAIN s}) /\ DOMAIN b.content[i] = {"type", "id", "name", "input"}
  BY DEF A!WellFormed
<1> HIDE DEF s
<1>2. Sequence(s)
  BY <1>1 DEF Sequence
<1>3. s = << >> <=> Len(s) = 0
  BY <1>1, EmptySeq
<1> QED BY <1>1, <1>2, <1>3 DEF s

----------------------------------------------------------------------------
(* A block: its beginning, a fragment of its input, its end.               *)
LEMMA AnStarted ==
  ASSUME NEW b, A!WellFormed(b), NEW w, NEW k \in Nat, k < Len(b.content), NEW u, NEW p,
         AnAfter(b, w, k, u, p), NEW block, block.type = b.content[k + 1].type,
         block.id = b.content[k + 1].id, block.name = b.content[k + 1].name,
         block.input = IF w THEN b.content[k + 1].input ELSE << >>
  PROVE  AnWithin(b, w, k, 0, u, A!StartBlock(p, k, block))
<1> DEFINE own   == b.content[k + 1]
           calls == A!Slot(p.calls, k)
           i     == A!At(calls, k)
           old   == calls[i]
           begun == [old EXCEPT !.id = block.id, !.name = block.name,
                                !.web = old.web \/ A!IsWeb(block),
                                !.input = A!First(block.input, old.input, << >>)]
           next  == [calls EXCEPT ![i] = begun]
           q     == [p EXCEPT !.calls = next]
<1>0. k \in 0..Len(b.content) /\ AnPlaced(b, w, p.calls, k) /\ AnBegun(b, u, p)
  BY AnPlacesNext DEF AnAfter
<1>1. A!IsTool(block) = A!IsTool(own) /\ A!IsWeb(block) = A!IsWeb(own)
  BY DEF A!IsTool, A!IsWeb
<1>2. A!StartBlock(p, k, block) =
        IF A!IsTool(block) THEN A!SyncToolCalls(q)
        ELSE IF A!IsWeb(block) THEN A!SyncWebRequests(q) ELSE p
  BY DEF A!StartBlock
<1>3. CASE ~ AnMarked(own)
  <2>1. A!StartBlock(p, k, block) = p
    BY <1>1, <1>2, <1>3 DEF AnMarked
  <2> QED BY <1>3, <2>1 DEF AnWithin
<1>4. CASE AnMarked(own)
  <2>1. LET s == A!Slot(p.calls, k)
            z == A!At(s, k)
        IN  z = Len(p.calls) + 1 /\ Extended(p.calls, s[z], s) /\ AnBlank(s[z], k)
    BY <1>0, AnFreshSlot
  <2>2. i = Len(p.calls) + 1 /\ Extended(p.calls, old, calls) /\ AnBlank(old, k)
    BY <2>1
  <2> HIDE DEF calls, i, old
  <2>3. AnDraft(b, w, begun, k + 1, 0)
    <3> DEFINE web == A!IsWeb(own)
    <3>1. web \in BOOLEAN /\ (old.web \/ A!IsWeb(block)) = web
      <4>1. web \in BOOLEAN
        BY AnKinds
      <4>2. old.web = FALSE /\ A!IsWeb(block) = web
        BY <1>1, <2>2 DEF AnBlank
      <4> HIDE DEF web
      <4> QED BY <4>1, <4>2
    <3>2. A!First(block.input, old.input, << >>) = block.input
      <4>1. old.input = << >>
        BY <2>2 DEF AnBlank
      <4>2. \A x : A!First(x, << >>, << >>) = x
        BY DEF A!First
      <4> QED BY <4>1, <4>2
    <3> HIDE DEF web
    <3>3. /\ DOMAIN begun = {"index", "id", "name", "input", "partial", "web"}
          /\ begun.index = k /\ begun.id = block.id /\ begun.name = block.name /\ begun.web = web
          /\ begun.input = block.input /\ begun.partial = << >>
      BY <2>2, <3>1, <3>2 DEF AnBlank
    <3> HIDE DEF begun
    <3>4. k = (k + 1) - 1
      OBVIOUS
    <3>5. AnIs(b, begun, k + 1)
      BY <1>4, <3>3, <3>4 DEF AnIs, web
    <3>6. SubSeq(b.content[k + 1].input, 1, 0) = << >>
      <4>1. Sequence(b.content[k + 1].input)
        BY AnInputs, AnPlacesNext
      <4> QED BY <4>1, PrefixEnds
    <3> QED BY <3>3, <3>5, <3>6 DEF AnDraft
  <2>4. Sequence(p.calls)
    BY <1>0 DEF AnPlaced
  <2> HIDE DEF begun
  <2>5. Extended(p.calls, begun, next)
    BY <2>2, <2>4, ExtendedAnew
  <2> HIDE DEF next
  <2>6. AnDrafted(b, w, k, 0, next)
    BY <1>0, <2>3, <2>5 DEF AnDrafted
  <2>7. CASE A!IsTool(own)
    <3> DEFINE r == A!SyncToolCalls(q)
    <3>1. A!StartBlock(p, k, block) = r
      BY <1>1, <1>2, <2>7
    <3>2. AnTooled(b, u, p, next, r)
      BY <1>0, AnTooling
    <3> HIDE DEF r
    <3>3. AnWebSynced(b, w, k, p) /\ r.usage = p.usage
      BY <3>2 DEF AnAfter, AnTooled, AnBegun
    <3>4. AnWebSynced(b, w, k, r)
      BY <3>2, <3>3, AnSyncedStill DEF AnTooled
    <3>5. AnWithin(b, w, k, 0, u, r)
      BY <1>4, <2>6, <2>7, <3>2, <3>4 DEF AnWithin, AnTooled
    <3> QED BY <3>1, <3>5
  <2>8. CASE ~ A!IsTool(own)
    <3> DEFINE r == A!SyncWebRequests(q)
    <3>1. A!StartBlock(p, k, block) = r
      BY <1>1, <1>2, <1>4, <2>8 DEF AnMarked
    <3>2. AnWebbed(b, u, p, next, r)
      BY <1>0, AnWebbing
    <3> HIDE DEF r
    <3>3. AnToolsSynced(b, w, k, p) /\ r.usage = u
      BY <3>2 DEF AnAfter, AnWebbed, AnBegun
    <3>4. AnToolsSynced(b, w, k, r)
      BY <3>2, <3>3, AnSyncedStill DEF AnWebbed
    <3>5. AnWithin(b, w, k, 0, u, r)
      BY <1>4, <2>6, <2>8, <3>2, <3>3, <3>4 DEF AnWithin, AnWebbed
    <3> QED BY <3>1, <3>5
  <2> QED BY <2>7, <2>8
<1> QED BY <1>3, <1>4

\* A call changed in place.
LEMMA AnPlacedAnew ==
  ASSUME NEW b, NEW w, NEW k, NEW calls, AnPlaced(b, w, calls, k), NEW i \in DOMAIN calls,
         NEW c, AnStands(b, c, AnPlaces(b, w, k)[i])
  PROVE  AnPlaced(b, w, [calls EXCEPT ![i] = c], k)
<1> DEFINE s == [calls EXCEPT ![i] = c]
<1>1. /\ Sequence(s) /\ DOMAIN s = DOMAIN calls /\ s[i] = c
      /\ \A j \in DOMAIN calls : j # i => s[j] = calls[j]
  BY SequenceExcept DEF AnPlaced
<1> HIDE DEF s
<1>2. Len(s) = Len(calls)
  <2>1. Len(s) \in Nat /\ Len(calls) \in Nat /\ 1..Len(s) = 1..Len(calls)
    BY <1>1, SequenceIs DEF AnPlaced
  <2>2. \A x, y \in Nat : 1..x = 1..y => x = y
    <3> SUFFICES ASSUME NEW x \in Nat, NEW y \in Nat, 1..x = 1..y PROVE x = y
      OBVIOUS
    <3>1. (x \in 1..x \/ x = 0) /\ (y \in 1..y \/ y = 0)
      OBVIOUS
    <3>2. (x \in 1..y \/ x = 0) /\ (y \in 1..x \/ y = 0)
      BY <3>1
    <3> QED BY <3>2
  <2> QED BY <2>1, <2>2
<1>3. AnPlaced(b, w, s, k)
  BY <1>1, <1>2 DEF AnPlaced
<1> QED BY <1>3 DEF s

\* The call of the last block that left one.
LEMMA AnThere ==
  ASSUME NEW b, A!WellFormed(b), NEW w, NEW k \in Nat, k < Len(b.content), k + 1 \in AnKept(b, w),
         NEW calls, AnPlaced(b, w, calls, k + 1)
  PROVE  LET i == A!At(calls, k)
         IN  /\ A!Slot(calls, k) = calls
             /\ i \in DOMAIN calls /\ calls[i].index = k
             /\ AnPlaces(b, w, k + 1)[i] = k + 1
<1> DEFINE P == AnPlaces(b, w, k)
           Q == AnPlaces(b, w, k + 1)
           i == A!At(calls, k)
<1>1. Q = Append(P, k + 1) /\ k \in 0..Len(b.content) /\ k + 1 \in 0..Len(b.content)
  BY AnPlacesNext
<1>2. Sequence(P)
  BY <1>1, AnContent, PlacesAre DEF AnPlaces
<1> HIDE DEF P, Q
<1>3. Extended(P, k + 1, Q)
  BY <1>1, <1>2, AppendExtends
<1>4. Len(P) + 1 \in DOMAIN Q /\ Q[Len(P) + 1] = k + 1 /\ Sequence(Q)
  BY <1>2, <1>3, ExtendedIs DEF Extended
<1>5. DOMAIN calls = DOMAIN Q
  BY <1>4, SequenceIs DEF AnPlaced, Q
<1>6. \A j \in DOMAIN calls : calls[j].index = Q[j] - 1 /\ Q[j] \in Nat
  <2>1. \A j \in DOMAIN calls : calls[j].index = Q[j] - 1
    BY DEF AnPlaced, AnStands, AnIs, Q
  <2>2. \A j \in DOMAIN calls : Q[j] \in 1..(k + 1)
    BY <1>1, AnPlacesAre DEF Q
  <2> QED BY <2>1, <2>2
<1>7. calls[Len(P) + 1].index = k
  BY <1>4, <1>5, <1>6
<1>8. i \in DOMAIN calls /\ calls[i].index = k
  BY <1>4, <1>5, <1>7 DEF A!At
<1> HIDE DEF i
<1>9. Q[i] = k + 1
  BY <1>6, <1>8
<1>10. A!Slot(calls, k) = calls
  BY <1>8 DEF A!Slot
<1> QED BY <1>8, <1>9, <1>10 DEF i, Q

\* A fragment of the input of a block.
LEMMA AnContinued ==
  ASSUME NEW b, A!WellFormed(b), NEW w, ~ w, NEW k \in Nat, k < Len(b.content), NEW u, NEW p,
         NEW j \in Nat, j < Len(b.content[k + 1].input), AnWithin(b, w, k, j, u, p)
  PROVE  AnWithin(b, w, k, j + 1, u, A!AppendInput(p, k, b.content[k + 1].input[j + 1]))
<1> DEFINE own   == b.content[k + 1]
           fragment == own.input[j + 1]
           calls == A!Slot(p.calls, k)
           i     == A!At(calls, k)
           old   == calls[i]
           new   == [old EXCEPT !.partial = Append(old.partial, fragment)]
           next  == [calls EXCEPT ![i] = new]
           q     == [p EXCEPT !.calls = next]
           r     == A!AppendInput(p, k, fragment)
<1>0. k \in 0..Len(b.content) /\ k + 1 \in DOMAIN b.content /\ k + 1 \in 0..Len(b.content)
  BY AnPlacesNext
<1>1. r = IF old.web THEN A!SyncWebRequests(q) ELSE A!SyncToolCalls(q)
  BY DEF A!AppendInput
<1>2. Sequence(own.input) /\ j + 1 # 0 /\ (k + 1) - 1 = k
  BY <1>0, AnInputs
<1>3. CASE AnMarked(own)
  <2>1. AnBegun(b, u, p) /\ AnDrafted(b, w, k, j, p.calls)
    BY <1>3 DEF AnWithin
  <2>2. PICK c, e : AnPlaced(b, w, c, k) /\ Extended(c, e, p.calls) /\ AnDraft(b, w, e, k + 1, j)
    BY <2>1 DEF AnDrafted
  <2>3. /\ AnIs(b, e, k + 1) /\ e.input = << >> /\ e.partial = SubSeq(own.input, 1, j)
        /\ e.index = k /\ e.web = A!IsWeb(own)
    BY <1>2, <1>3, <2>2 DEF AnDraft, AnIs
  <2>4. calls = p.calls /\ i = Len(c) + 1
    BY <1>0, <2>2, <2>3, AnLastSlot
  <2> HIDE DEF calls, i
  <2>5. old = e
    BY <2>2, <2>4 DEF Extended
  <2> HIDE DEF old
  <2>6. AnDraft(b, w, new, k + 1, j + 1)
    <3> DEFINE partial == Append(e.partial, fragment)
    <3>1. new = [e EXCEPT !.partial = partial]
      BY <2>5
    <3>2. SubSeq(own.input, 1, j + 1) = partial
      BY <1>2, <2>3, SubSeqNext
    <3> HIDE DEF partial, new
    <3>3. DOMAIN e = {"index", "id", "name", "input", "partial", "web"}
      BY <2>3 DEF AnIs
    <3>4. /\ DOMAIN new = DOMAIN e /\ new.index = e.index /\ new.id = e.id /\ new.name = e.name
          /\ new.web = e.web /\ new.input = e.input /\ new.partial = partial
      BY <3>1, <3>3
    <3>5. AnIs(b, new, k + 1)
      BY <2>3, <3>4 DEF AnIs
    <3> QED BY <2>3, <3>2, <3>4, <3>5 DEF AnDraft
  <2>7. Sequence(c)
    BY <2>2 DEF AnPlaced
  <2> HIDE DEF new
  <2>8. Extended(c, new, next)
    BY <2>2, <2>4, <2>7, ExtendedAnew
  <2> HIDE DEF next
  <2>9. AnDrafted(b, w, k, j + 1, next)
    BY <2>2, <2>6, <2>8 DEF AnDrafted
  <2>10. CASE A!IsTool(own)
    <3>1. ~ A!IsWeb(own) /\ A!IsWeb(own) \in BOOLEAN
      BY <2>10, AnKinds
    <3>2. r = A!SyncToolCalls(q)
      BY <1>1, <2>3, <2>5, <3>1
    <3>3. AnTooled(b, u, p, next, r)
      BY <2>1, <3>2, AnTooling
    <3> HIDE DEF r
    <3>4. AnWebSynced(b, w, k, p) /\ r.usage = p.usage
      BY <1>3, <2>1, <2>10, <3>3 DEF AnWithin, AnTooled, AnBegun
    <3>5. AnWebSynced(b, w, k, r)
      BY <3>3, <3>4, AnSyncedStill DEF AnTooled
    <3>6. AnWithin(b, w, k, j + 1, u, r)
      BY <1>3, <2>9, <2>10, <3>3, <3>5 DEF AnWithin, AnTooled
    <3> QED BY <3>6 DEF r
  <2>11. CASE ~ A!IsTool(own)
    <3>1. A!IsWeb(own)
      BY <1>3, <2>11 DEF AnMarked
    <3>2. r = A!SyncWebRequests(q)
      BY <1>1, <2>3, <2>5, <3>1
    <3>3. AnWebbed(b, u, p, next, r)
      BY <2>1, <3>2, AnWebbing
    <3> HIDE DEF r
    <3>4. AnToolsSynced(b, w, k, p) /\ r.usage = u
      BY <1>3, <2>11, <3>3 DEF AnWithin, AnWebbed, AnBegun
    <3>5. AnToolsSynced(b, w, k, r)
      BY <3>3, <3>4, AnSyncedStill DEF AnWebbed
    <3>6. AnWithin(b, w, k, j + 1, u, r)
      BY <1>3, <2>9, <2>11, <3>3, <3>4, <3>5 DEF AnWithin, AnWebbed
    <3> QED BY <3>6 DEF r
  <2> QED BY <2>10, <2>11
<1>4. CASE ~ AnMarked(own)
  <2>1. own.input # << >>
    <3>1. Len(own.input) # 0
      BY <1>2, SequenceIs
    <3> QED BY <1>0, <3>1, AnInputs
  <2>2. /\ k + 1 \in AnKept(b, w)
        /\ k + 1 \notin AnToolPlaces(b) /\ k + 1 \notin AnWebPlaces(b)
    BY <1>0, <1>4, <2>1 DEF AnKept, AnToolPlaces, AnWebPlaces, AnMarked
  <2>3. AnBegun(b, u, p)
    BY <1>4 DEF AnWithin, AnAfter
  <2>4. /\ old.web = FALSE /\ AnPlaced(b, w, next, k + 1)
        /\ AnWebSynced(b, w, k + 1, p)
    <3>1. CASE j = 0
      <4>1. AnPlaced(b, w, p.calls, k) /\ AnWebSynced(b, w, k, p)
        BY <1>4, <3>1 DEF AnWithin, AnAfter
      <4>2. LET s == A!Slot(p.calls, k)
                z == A!At(s, k)
            IN  z = Len(p.calls) + 1 /\ Extended(p.calls, s[z], s) /\ AnBlank(s[z], k)
        BY <1>0, <4>1, AnFreshSlot
      <4>3. i = Len(p.calls) + 1 /\ Extended(p.calls, old, calls) /\ AnBlank(old, k)
        BY <4>2
      <4> HIDE DEF calls, i, old
      <4>4. AnStands(b, new, k + 1)
        <5> DEFINE partial == Append(old.partial, fragment)
        <5> HIDE DEF partial
        <5>1. new = [old EXCEPT !.partial = partial]
          BY DEF partial
        <5> HIDE DEF new
        <5>2. /\ DOMAIN new = {"index", "id", "name", "input", "partial", "web"} /\ new.index = k
              /\ new.name = "" /\ new.web = FALSE
          BY <4>3, <5>1 DEF AnBlank
        <5> QED BY <1>2, <1>4, <5>2 DEF AnStands, AnIs
      <4>5. Sequence(p.calls)
        BY <4>1 DEF AnPlaced
      <4> HIDE DEF new
      <4>6. Extended(p.calls, new, next)
        BY <4>3, <4>5, ExtendedAnew
      <4> HIDE DEF next
      <4>7. AnPlaced(b, w, next, k + 1)
        BY <2>2, <4>1, <4>4, <4>6, AnPlacedNext
      <4>8. AnWebSynced(b, w, k + 1, p)
        BY <2>2, <4>1, AnSyncedNext
      <4> QED BY <4>3, <4>7, <4>8 DEF AnBlank
    <3>2. CASE j # 0
      <4>1. AnPlaced(b, w, p.calls, k + 1) /\ AnWebSynced(b, w, k + 1, p)
        BY <1>4, <3>2 DEF AnWithin, AnAfter
      <4>2. LET z == A!At(p.calls, k)
            IN  /\ A!Slot(p.calls, k) = p.calls
                /\ z \in DOMAIN p.calls /\ p.calls[z].index = k
                /\ AnPlaces(b, w, k + 1)[z] = k + 1
        BY <2>2, <4>1, AnThere
      <4>3. /\ calls = p.calls /\ i \in DOMAIN calls /\ old.index = k
            /\ AnPlaces(b, w, k + 1)[i] = k + 1
        BY <4>2
      <4>4. AnStands(b, old, k + 1)
        BY <4>1, <4>3 DEF AnPlaced
      <4> HIDE DEF calls, i, old
      <4>5. AnIs(b, old, k + 1) /\ old.name = "" /\ old.web = FALSE
        BY <1>4, <4>4 DEF AnStands, AnIs
      <4>6. AnStands(b, new, k + 1)
        <5> DEFINE partial == Append(old.partial, fragment)
        <5> HIDE DEF partial
        <5>1. new = [old EXCEPT !.partial = partial]
          BY DEF partial
        <5> HIDE DEF new
        <5>2. DOMAIN old = {"index", "id", "name", "input", "partial", "web"}
          BY <4>5 DEF AnIs
        <5>3. /\ DOMAIN new = {"index", "id", "name", "input", "partial", "web"} /\ new.index = k
              /\ new.name = "" /\ new.web = FALSE
          BY <4>3, <4>5, <5>1, <5>2
        <5> QED BY <1>2, <1>4, <5>3 DEF AnStands, AnIs
      <4> HIDE DEF new
      <4>7. AnPlaced(b, w, next, k + 1)
        BY <4>1, <4>3, <4>6, AnPlacedAnew
      <4> QED BY <4>1, <4>5, <4>7
    <3> QED BY <3>1, <3>2
  <2> HIDE DEF next, old
  <2>5. r = A!SyncToolCalls(q)
    BY <1>1, <2>4
  <2>6. AnTooled(b, u, p, next, r)
    BY <2>3, <2>5, AnTooling
  <2> HIDE DEF r
  <2>7. r.usage = p.usage
    BY <2>3, <2>6 DEF AnTooled, AnBegun
  <2>8. AnWebSynced(b, w, k + 1, r)
    BY <2>4, <2>6, <2>7, AnSyncedStill DEF AnTooled
  <2>9. AnToolsSynced(b, w, k + 1, r)
    BY <2>4, <2>6, AnSyncedNow DEF AnTooled
  <2>10. AnAfter(b, w, k + 1, u, r)
    BY <2>4, <2>6, <2>8, <2>9 DEF AnAfter, AnTooled
  <2>11. AnWithin(b, w, k, j + 1, u, r)
    BY <1>2, <1>4, <2>10 DEF AnWithin
  <2> QED BY <2>11 DEF r
<1> QED BY <1>3, <1>4

LEMMA AnStopped ==
  ASSUME NEW b, A!WellFormed(b), NEW w \in BOOLEAN, NEW k \in Nat, k < Len(b.content), NEW u, NEW p,
         NEW j \in Nat, AnWithin(b, w, k, j, u, p),
         j = IF w THEN 0 ELSE Len(b.content[k + 1].input)
  PROVE  AnAfter(b, w, k + 1, u, p)
<1> DEFINE own == b.content[k + 1]
<1>0. k \in 0..Len(b.content) /\ k + 1 \in DOMAIN b.content
  BY AnPlacesNext
<1>1. Sequence(own.input) /\ (own.input = << >> <=> Len(own.input) = 0)
  BY <1>0, AnInputs
<1>2. CASE AnMarked(own)
  <2>1. AnBegun(b, u, p) /\ AnDrafted(b, w, k, j, p.calls)
    BY <1>2 DEF AnWithin
  <2>2. PICK c, e : AnPlaced(b, w, c, k) /\ Extended(c, e, p.calls) /\ AnDraft(b, w, e, k + 1, j)
    BY <2>1 DEF AnDrafted
  <2>3. A!Input(e) = own.input
    <3>1. CASE w
      BY <2>2, <3>1 DEF AnDraft, A!Input
    <3>2. CASE ~ w
      <4>1. e.input = << >> /\ e.partial = SubSeq(own.input, 1, Len(own.input))
        BY <2>2, <3>2 DEF AnDraft
      <4>2. e.partial = own.input
        BY <1>1, <4>1, PrefixEnds
      <4> QED BY <4>1, <4>2 DEF A!Input
    <3> QED BY <3>1, <3>2
  <2>4. AnStands(b, e, k + 1) /\ k + 1 \in AnKept(b, w)
    BY <1>0, <1>2, <2>2, <2>3 DEF AnDraft, AnStands, AnKept
  <2>5. AnPlaced(b, w, p.calls, k + 1)
    BY <2>2, <2>4, AnPlacedNext
  <2>6. CASE A!IsTool(own)
    <3>1. p.result.tools = AnToolList(p.calls) /\ AnWebSynced(b, w, k, p)
      BY <1>2, <2>6 DEF AnWithin
    <3>2. k + 1 \notin AnWebPlaces(b)
      BY <2>6, AnKinds DEF AnWebPlaces
    <3> QED BY <2>1, <2>5, <3>1, <3>2, AnSyncedNow, AnSyncedNext DEF AnAfter
  <2>7. CASE ~ A!IsTool(own)
    <3>1. /\ AnToolsSynced(b, w, k, p)
          /\ p.result.web = A!AddSynthetic(AnWebList(p.calls), p.usage.web)
      BY <1>2, <2>7 DEF AnWithin
    <3>2. k + 1 \notin AnToolPlaces(b)
      BY <2>7 DEF AnToolPlaces
    <3> QED BY <2>1, <2>5, <3>1, <3>2, AnSyncedNow, AnSyncedNext DEF AnAfter
  <2> QED BY <2>6, <2>7
<1>3. CASE ~ AnMarked(own)
  <2>1. CASE j # 0
    BY <1>3, <2>1 DEF AnWithin
  <2>2. CASE j = 0
    <3>1. AnAfter(b, w, k, u, p)
      BY <1>3, <2>2 DEF AnWithin
    <3>2. /\ k + 1 \notin AnKept(b, w)
          /\ k + 1 \notin AnToolPlaces(b) /\ k + 1 \notin AnWebPlaces(b)
      BY <1>1, <1>3, <2>2 DEF AnKept, AnToolPlaces, AnWebPlaces, AnMarked
    <3>3. AnPlaced(b, w, p.calls, k + 1)
      BY <3>1, <3>2, AnPlacedNext DEF AnAfter
    <3> QED BY <3>1, <3>2, <3>3, AnSyncedNext DEF AnAfter
  <2> QED BY <2>1, <2>2
<1> QED BY <1>2, <1>3

----------------------------------------------------------------------------
(* What is where in two sequences, one after the other.                    *)
Spliced(s, t, c) ==
  /\ Sequence(c)
  /\ Len(c) = Len(s) + Len(t)
  /\ \A i \in DOMAIN s : c[i] = s[i]
  /\ \A i \in DOMAIN t : c[Len(s) + i] = t[i]

LEMMA ConcatSplices ==
  ASSUME NEW s, Sequence(s), NEW t, Sequence(t)
  PROVE  Spliced(s, t, s \o t)
<1>1. PICK S : s \in Seq(S)
  BY DEF Sequence
<1>2. PICK U : t \in Seq(U)
  BY DEF Sequence
<1> DEFINE T == S \cup U
           c == s \o t
<1>3. s \in Seq(T) /\ t \in Seq(T)
  BY <1>1, <1>2, SeqMonotonic
<1> HIDE DEF T
<1>4. /\ c \in Seq(T) /\ Len(c) = Len(s) + Len(t)
      /\ \A i \in 1..Len(s) + Len(t) : c[i] = IF i <= Len(s) THEN s[i] ELSE t[i - Len(s)]
  BY <1>3, ConcatProperties
<1>5. /\ Len(s) \in Nat /\ Len(t) \in Nat /\ DOMAIN s = 1..Len(s) /\ DOMAIN t = 1..Len(t)
  BY SequenceIs
<1>6. \A m, n \in Nat : /\ \A i \in 1..m : i \in 1..m + n /\ i <= m
                        /\ \A i \in 1..n : m + i \in 1..m + n /\ ~ (m + i <= m) /\ (m + i) - m = i
  OBVIOUS
<1> HIDE DEF c
<1>7. \A i \in DOMAIN s : c[i] = s[i]
  BY <1>4, <1>5, <1>6
<1>8. ASSUME NEW i \in DOMAIN t PROVE c[Len(s) + i] = t[i]
  <2> DEFINE j == Len(s) + i
  <2>1. j \in 1..Len(s) + Len(t) /\ ~ (j <= Len(s)) /\ j - Len(s) = i
    BY <1>5, <1>6
  <2> HIDE DEF j
  <2>2. c[j] = t[i]
    BY <1>4, <2>1
  <2> QED BY <2>2 DEF j
<1>9. Spliced(s, t, c)
  BY <1>4, <1>7, <1>8 DEF Spliced, Sequence
<1> QED BY <1>9 DEF c

LEMMA SameLength == \A m, n \in Nat : 1..m = 1..n => m = n
<1> SUFFICES ASSUME NEW m \in Nat, NEW n \in Nat, 1..m = 1..n PROVE m = n
  OBVIOUS
<1>1. m > 0 => m \in 1..n
  OBVIOUS
<1>2. n > 0 => n \in 1..m
  OBVIOUS
<1> QED BY <1>1, <1>2

LEMMA OneOrTwo ==
  /\ \A a : Sequence(<<a>>) /\ Len(<<a>>) = 1 /\ DOMAIN <<a>> = 1..1 /\ <<a>>[1] = a
  /\ \A a, b : /\ Sequence(<<a, b>>) /\ Len(<<a, b>>) = 2 /\ DOMAIN <<a, b>> = 1..2
               /\ <<a, b>>[1] = a /\ <<a, b>>[2] = b
<1>1. ASSUME NEW a PROVE Sequence(<<a>>)
  <2>1. <<a>> \in Seq({a})
    OBVIOUS
  <2> QED BY <2>1 DEF Sequence
<1>2. ASSUME NEW a, NEW b PROVE Sequence(<<a, b>>)
  <2>1. <<a, b>> \in Seq({a, b})
    OBVIOUS
  <2> QED BY <2>1 DEF Sequence
<1> QED BY <1>1, <1>2

----------------------------------------------------------------------------
(* The events of a block.                                                  *)
AnFragments(block, w) == IF w THEN 0 ELSE Len(block.input)

AnGroup(block, index, w, g) ==
  LET l == AnFragments(block, w)
  IN /\ Sequence(g)
     /\ Len(g) = l + 2
     /\ g[1].type = "content_block_start" /\ g[1].index = index
     /\ g[1].block.type = block.type /\ g[1].block.id = block.id /\ g[1].block.name = block.name
     /\ g[1].block.input = IF w THEN block.input ELSE << >>
     /\ \A z \in 1..l : /\ g[z + 1].type = "input_json_delta" /\ g[z + 1].index = index
                        /\ g[z + 1].fragment = block.input[z]
     /\ g[l + 2].type = "content_block_stop"

LEMMA AnBlockEvents ==
  ASSUME NEW block, DOMAIN block = {"type", "id", "name", "input"}, Sequence(block.input),
         NEW index, NEW w \in BOOLEAN
  PROVE  AnGroup(block, index, w, A!BlockEvents(block, index, w)) /\ AnFragments(block, w) \in Nat
<1> DEFINE input == IF w THEN block.input ELSE << >>
           begun == [block EXCEPT !.input = input]
           a == [type |-> "content_block_start", index |-> index, block |-> begun]
           f == IF w THEN << >>
                ELSE [i \in DOMAIN block.input |->
                        [type |-> "input_json_delta", index |-> index, fragment |-> block.input[i]]]
           z == [type |-> "content_block_stop"]
           l == AnFragments(block, w)
           g == A!BlockEvents(block, index, w)
<1>1. g = (<<a>> \o f) \o <<z>>
  BY DEF A!BlockEvents
<1>2. /\ begun.type = block.type /\ begun.id = block.id /\ begun.name = block.name
      /\ begun.input = input
  OBVIOUS
<1>3. /\ a.type = "content_block_start" /\ a.index = index /\ a.block = begun
      /\ z.type = "content_block_stop"
  OBVIOUS
<1>4. Sequence(f) /\ Len(f) = l /\ l \in Nat /\ DOMAIN f = 1..l
  <2>1. CASE w
    BY <2>1, EmptySequence, SequenceIs DEF AnFragments
  <2>2. CASE ~ w
    <3>1. f = [i \in DOMAIN block.input |-> f[i]] /\ DOMAIN f = DOMAIN block.input
      BY <2>2
    <3> HIDE DEF f
    <3>2. Sequence(f)
      BY <3>1, SequenceLike
    <3>3. Len(f) = Len(block.input)
      <4>1. DOMAIN f = 1..Len(f) /\ DOMAIN block.input = 1..Len(block.input)
            /\ Len(f) \in Nat /\ Len(block.input) \in Nat
        BY <3>2, SequenceIs
      <4> QED BY <3>1, <4>1, SameLength
    <3> QED BY <2>2, <3>2, <3>3, SequenceIs DEF AnFragments
  <2> QED BY <2>1, <2>2
<1>5. ASSUME NEW i \in 1..l
      PROVE  /\ f[i].type = "input_json_delta" /\ f[i].index = index
             /\ f[i].fragment = block.input[i]
  <2>1. ~ w
    BY DEF AnFragments
  <2>2. i \in DOMAIN block.input
    BY <2>1, SequenceIs DEF AnFragments
  <2> QED BY <2>1, <2>2
<1> HIDE DEF f, a, z, begun, g, l
<1> DEFINE h == <<a>> \o f
<1>6. Sequence(<<a>>) /\ Len(<<a>>) = 1 /\ <<a>>[1] = a /\ 1 \in DOMAIN <<a>>
      /\ Sequence(<<z>>) /\ Len(<<z>>) = 1 /\ <<z>>[1] = z /\ 1 \in DOMAIN <<z>>
  <2>1. 1 \in 1..1
    OBVIOUS
  <2> QED BY <2>1, OneOrTwo
<1>7. Spliced(<<a>>, f, h)
  BY <1>4, <1>6, ConcatSplices
<1> HIDE DEF h
<1>8. Spliced(h, <<z>>, g)
  <2>1. g = h \o <<z>>
    BY <1>1 DEF h
  <2>2. Sequence(h)
    BY <1>7 DEF Spliced
  <2>3. Spliced(h, <<z>>, h \o <<z>>)
    BY <1>6, <2>2, ConcatSplices
  <2> QED BY <2>1, <2>3
<1>9. Len(h) = l + 1 /\ Len(g) = l + 2 /\ DOMAIN h = 1..(l + 1) /\ Sequence(g)
  <2>1. Len(h) = 1 + l /\ Len(g) = Len(h) + 1
    BY <1>4, <1>6, <1>7, <1>8 DEF Spliced
  <2>2. Sequence(h) /\ Sequence(g)
    BY <1>7, <1>8 DEF Spliced
  <2> QED BY <1>4, <2>1, <2>2, SequenceIs
<1>10. \A m \in Nat : 1 \in 1..(m + 1) /\ (m + 1) + 1 = m + 2 /\ \A i \in 1..m : i + 1 \in 1..(m + 1) /\ 1 + i = i + 1
  OBVIOUS
<1>11. g[1] = a /\ g[l + 2] = z
  <2>1. h[1] = a /\ g[1] = h[1]
    BY <1>4, <1>6, <1>7, <1>8, <1>9, <1>10 DEF Spliced
  <2>2. g[(l + 1) + 1] = z
    BY <1>6, <1>8, <1>9 DEF Spliced
  <2> QED BY <1>4, <1>10, <2>1, <2>2
<1>12. ASSUME NEW i \in 1..l PROVE g[i + 1] = f[i]
  <2>1. i + 1 \in DOMAIN h /\ 1 + i = i + 1
    BY <1>4, <1>9, <1>10
  <2>2. h[1 + i] = f[i]
    BY <1>4, <1>6, <1>7 DEF Spliced
  <2>3. g[i + 1] = h[i + 1]
    BY <1>8, <2>1 DEF Spliced
  <2> QED BY <2>1, <2>2, <2>3
<1>13. AnGroup(block, index, w, g)
  BY <1>2, <1>3, <1>5, <1>9, <1>11, <1>12 DEF AnGroup, l
<1> QED BY <1>4, <1>13 DEF g, l

----------------------------------------------------------------------------
(* The usage of a message: its beginning, and its end.                     *)
AnUsed(p, u, v, q) ==
  /\ AnShape(q)
  /\ q.calls = p.calls /\ q.usage = u /\ q.terminal = p.terminal
  /\ q.result.id = p.result.id /\ q.result.error = p.result.error
  /\ q.result.usage = A!ToUsage(u)
  /\ q.result.tools = p.result.tools
  /\ \/ v = A!NoUsage /\ u = p.usage /\ q.result.web = p.result.web
     \/ q.result.web = A!AddSynthetic(AnWebList(p.calls), u.web)

LEMMA AnUsing ==
  ASSUME NEW p, AnShape(p), p.result.usage = A!ToUsage(p.usage),
         NEW v \in [A!UsageFields -> Int], NEW u \in [A!UsageFields -> Int],
         \A f \in A!UsageFields : u[f] = A!First(v[f], p.usage[f], A!Absent)
  PROVE  AnUsed(p, u, v, A!MergeUsage(p, v))
<1> DEFINE merged == [f \in A!UsageFields |-> A!First(v[f], p.usage[f], A!Absent)]
           given  == A!ToUsage(merged)
           q      == [p EXCEPT !.usage = merged, !.result.usage = given]
           t      == A!AddSynthetic(AnWebList(p.calls), u.web)
           r      == A!SyncWebRequests(q)
<1>1. merged = u
  OBVIOUS
<1>2. A!MergeUsage(p, v) = IF v = A!NoUsage THEN p ELSE r
  BY DEF A!MergeUsage
<1>0. merged \in [A!UsageFields -> Int]
  BY <1>1
<1> HIDE DEF merged
<1>3. CASE v = A!NoUsage
  <2>1. \A f \in A!UsageFields : u[f] = p.usage[f]
    BY <1>3 DEF A!NoUsage, A!First
  <2>2. u = p.usage
    BY <2>1 DEF AnShape
  <2>3. AnUsed(p, u, v, p)
    BY <1>3, <2>2 DEF AnUsed
  <2>4. A!MergeUsage(p, v) = p
    BY <1>2, <1>3
  <2> QED BY <2>3, <2>4
<1>4. CASE v # A!NoUsage
  <2> HIDE DEF given
  <2>1. /\ AnShape(q) /\ q.calls = p.calls /\ q.usage = merged /\ q.terminal = p.terminal
        /\ q.result.id = p.result.id /\ q.result.error = p.result.error
        /\ q.result.usage = given /\ q.result.tools = p.result.tools
    BY <1>0 DEF AnShape, ResultFields
  <2>2. r = [q EXCEPT !.result.web = A!AddSynthetic(AnWebList(q.calls), q.usage.web)]
    BY DEF A!SyncWebRequests, AnWebList
  <2> HIDE DEF q, r, t
  <2>3. r = [q EXCEPT !.result.web = t]
    BY <1>1, <2>1, <2>2 DEF t
  <2>4. /\ AnShape(r) /\ r.calls = q.calls /\ r.usage = q.usage /\ r.terminal = q.terminal
        /\ r.result.id = q.result.id /\ r.result.error = q.result.error
        /\ r.result.usage = q.result.usage /\ r.result.tools = q.result.tools
        /\ r.result.web = t
    BY <2>1, <2>3 DEF AnShape, ResultFields
  <2>5. AnUsed(p, u, v, r)
    BY <1>1, <2>1, <2>4 DEF AnUsed, given, t
  <2> QED BY <1>2, <1>4, <2>5
<1> QED BY <1>3, <1>4

LEMMA AnUsages ==
  ASSUME NEW u \in [A!UsageFields -> Int]
  PROVE  /\ A!Early(u) \in [A!UsageFields -> Int] /\ A!Late(u) \in [A!UsageFields -> Int]
         /\ A!NoUsage \in [A!UsageFields -> Int] /\ A!NoUsage.web = -1 /\ A!Early(u).web = -1
         /\ \A f \in A!UsageFields :
              /\ A!Early(u)[f] = A!First(A!Early(u)[f], A!NoUsage[f], A!Absent)
              /\ u[f] = A!First(A!Late(u)[f], A!Early(u)[f], A!Absent)
<1>1. A!NoUsage \in [A!UsageFields -> Int] /\ A!NoUsage.web = -1
  BY DEF A!NoUsage, A!Absent, A!UsageFields
<1>2. /\ A!Early(u) \in [A!UsageFields -> Int] /\ A!Early(u).web = -1
      /\ A!Early(u).output = IF u.output = -1 THEN -1 ELSE 1
      /\ \A f \in A!UsageFields : f \notin {"output", "web"} => A!Early(u)[f] = u[f]
  <2> DEFINE o == IF u.output = -1 THEN -1 ELSE 1
  <2>1. o \in Int /\ -1 \in Int
    OBVIOUS
  <2>2. A!Early(u) = [u EXCEPT !.output = o, !.web = -1]
    BY DEF A!Early, A!Absent
  <2> HIDE DEF o
  <2>3. A!Early(u) \in [A!UsageFields -> Int] /\ A!Early(u).web = -1 /\ A!Early(u).output = o
        /\ \A f \in A!UsageFields : f \notin {"output", "web"} => A!Early(u)[f] = u[f]
    BY <2>1, <2>2 DEF A!UsageFields
  <2> QED BY <2>3 DEF o
<1>3. A!Late(u) \in [A!UsageFields -> Int] /\ A!Late(u).web = u.web /\ A!Late(u).output = u.output
      /\ \A f \in A!UsageFields : f \notin {"output", "web"} => A!Late(u)[f] = -1
  BY <1>1 DEF A!Late, A!NoUsage, A!Absent, A!UsageFields
<1>4. ASSUME NEW f \in A!UsageFields
      PROVE  /\ A!Early(u)[f] = A!First(A!Early(u)[f], A!NoUsage[f], A!Absent)
             /\ u[f] = A!First(A!Late(u)[f], A!Early(u)[f], A!Absent)
  <2>1. A!NoUsage[f] = -1
    BY DEF A!NoUsage, A!Absent
  <2> HIDE DEF A!UsageFields
  <2>2. CASE f \notin {"output", "web"}
    BY <1>2, <1>3, <2>1, <2>2 DEF A!First, A!Absent
  <2>3. CASE f = "output"
    BY <1>2, <1>3, <2>1, <2>3 DEF A!First, A!Absent
  <2>4. CASE f = "web"
    BY <1>2, <1>3, <2>1, <2>4 DEF A!First, A!Absent
  <2> QED BY <2>2, <2>3, <2>4
<1> QED BY <1>1, <1>2, <1>3, <1>4

LEMMA NoneChosen ==
  /\ AnToolList(<< >>) = << >> /\ AnWebList(<< >>) = << >>
  /\ A!AddSynthetic(<< >>, -1) = << >>
<1>1. \A I : A!Selected(<< >>, I) = << >>
  <2> SUFFICES ASSUME NEW I PROVE A!Selected(<< >>, I) = << >>
    OBVIOUS
  <2>1. Len(<< >>) = 0
    OBVIOUS
  <2>2. PICK g : TakesUpto(<< >>, I, 0, g) /\ A!Selected(<< >>, I) = g[0]
    BY <2>1, EmptySequence, SelectedIs
  <2> QED BY <2>2 DEF TakesUpto
<1>2. \A e : [i \in DOMAIN << >> |-> e] = << >>
  OBVIOUS
<1>3. AnToolList(<< >>) = << >>
  BY <1>1 DEF AnToolList
<1>4. AnWebList(<< >>) = << >>
  BY <1>1 DEF AnWebList
<1>5. A!AddSynthetic(<< >>, -1) = << >>
  <2>1. 1..(-1 - Len(<< >>)) = {}
    OBVIOUS
  <2>2. [i \in 1..(-1 - Len(<< >>)) |-> A!Synthetic] = << >>
    BY <2>1
  <2> QED BY <2>2 DEF A!AddSynthetic
<1> QED BY <1>3, <1>4, <1>5

----------------------------------------------------------------------------
(* A parser that has been told nothing yet.                                *)
AnFresh(p) ==
  /\ AnShape(p)
  /\ p.usage = A!NoUsage /\ p.calls = << >>
  /\ p.result.error = "" /\ p.result.usage = A!ToUsage(A!NoUsage)
  /\ p.result.tools = << >> /\ p.result.web = << >>

LEMMA AnBegins ==
  ASSUME NEW b, A!WellFormed(b), NEW w, NEW p, AnFresh(p)
  PROVE  LET q == [p EXCEPT !.result.id = b.id]
         IN  AnAfter(b, w, 0, A!Early(b.usage), A!MergeUsage(q, A!Early(b.usage)))
<1> DEFINE q == [p EXCEPT !.result.id = b.id]
           u == A!Early(b.usage)
           r == A!MergeUsage(q, u)
<1>1. /\ AnShape(q) /\ q.calls = << >> /\ q.usage = A!NoUsage
      /\ q.result.id = b.id /\ q.result.error = ""
      /\ q.result.usage = A!ToUsage(q.usage) /\ q.result.tools = << >> /\ q.result.web = << >>
  BY DEF AnFresh, AnShape, ResultFields
<1>2. b.usage \in [A!UsageFields -> Int]
  BY DEF A!WellFormed
<1> HIDE DEF q
<1>3. u \in [A!UsageFields -> Int] /\ u.web = -1
      /\ \A f \in A!UsageFields : u[f] = A!First(u[f], q.usage[f], A!Absent)
  BY <1>1, <1>2, AnUsages
<1> HIDE DEF u
<1>4. AnUsed(q, u, u, r)
  BY <1>1, <1>3, AnUsing
<1> HIDE DEF r
<1>5. /\ r.calls = << >> /\ r.result.tools = AnToolList(<< >>)
      /\ r.result.web = A!AddSynthetic(AnWebList(<< >>), r.usage.web)
  BY <1>1, <1>3, <1>4, NoneChosen DEF AnUsed
<1>6. AnPlaced(b, w, << >>, 0)
  <2>1. Len(b.content) \in Nat
    BY AnContent
  <2>2. AnPlaces(b, w, 0) = << >>
    BY <2>1, PlacesStep DEF AnPlaces
  <2> QED BY <2>2, EmptySequence DEF AnPlaced
<1>7. AnToolsSynced(b, w, 0, r) /\ AnWebSynced(b, w, 0, r)
  BY <1>5, <1>6, AnSyncedNow
<1>8. AnBegun(b, u, r)
  BY <1>1, <1>4 DEF AnUsed, AnBegun
<1>9. AnAfter(b, w, 0, u, r)
  BY <1>5, <1>6, <1>7, <1>8 DEF AnAfter
<1> QED BY <1>9 DEF q, r, u

LEMMA AnEnds ==
  ASSUME NEW b, A!WellFormed(b), NEW w, NEW p, AnAfter(b, w, Len(b.content), A!Early(b.usage), p)
  PROVE  AnAfter(b, w, Len(b.content), b.usage, A!MergeUsage(p, A!Late(b.usage)))
<1> DEFINE n == Len(b.content)
           u == b.usage
           v == A!Late(u)
           r == A!MergeUsage(p, v)
<1>1. u \in [A!UsageFields -> Int] /\ n \in Nat
  BY AnContent DEF A!WellFormed
<1>2. /\ AnShape(p) /\ p.usage = A!Early(u) /\ p.result.usage = A!ToUsage(p.usage)
      /\ p.result.id = b.id /\ p.result.error = ""
  BY DEF AnAfter, AnBegun
<1>3. /\ v \in [A!UsageFields -> Int]
      /\ \A f \in A!UsageFields : u[f] = A!First(v[f], p.usage[f], A!Absent)
  BY <1>1, <1>2, AnUsages
<1> HIDE DEF u, v
<1>4. AnUsed(p, u, v, r)
  BY <1>1, <1>2, <1>3, AnUsing
<1> HIDE DEF r
<1>5. AnBegun(b, u, r) /\ r.calls = p.calls
  BY <1>2, <1>4 DEF AnUsed, AnBegun
<1>6. AnPlaced(b, w, r.calls, n)
  BY <1>5 DEF AnAfter
<1>7. AnToolsSynced(b, w, n, r)
  BY <1>4, AnSyncedStill DEF AnAfter, AnUsed
<1>8. AnWebSynced(b, w, n, r)
  <2>1. CASE u = p.usage /\ r.result.web = p.result.web
    BY <1>4, <2>1, AnSyncedStill DEF AnAfter, AnUsed
  <2>2. CASE r.result.web = A!AddSynthetic(AnWebList(p.calls), u.web)
    <3>1. r.result.web = A!AddSynthetic(AnWebList(r.calls), r.usage.web)
      BY <1>4, <2>2 DEF AnUsed
    <3> QED BY <1>1, <1>6, <3>1, AnSyncedNow
  <2> QED BY <1>4, <2>1, <2>2 DEF AnUsed
<1>9. AnAfter(b, w, n, u, r)
  BY <1>5, <1>6, <1>7, <1>8 DEF AnAfter
<1> QED BY <1>9 DEF n, r, u, v

----------------------------------------------------------------------------
(* What each event of a message leads to.                                  *)
LEMMA AnEvents ==
  ASSUME NEW p, NEW e
  PROVE  /\ e.type = "content_block_start" => A!Handle(p, e) = A!StartBlock(p, e.index, e.block)
         /\ e.type = "input_json_delta" => A!Handle(p, e) = A!AppendInput(p, e.index, e.fragment)
         /\ e.type = "content_block_stop" => A!Handle(p, e) = p
         /\ e.type = "message_delta" => A!Handle(p, e) = A!MergeUsage(p, e.usage)
<1>1. e.type = "content_block_start" => A!Handle(p, e) = A!StartBlock(p, e.index, e.block)
  BY DEF A!Handle
<1>2. e.type = "input_json_delta" => A!Handle(p, e) = A!AppendInput(p, e.index, e.fragment)
  BY DEF A!Handle
<1>3. e.type = "content_block_stop" => A!Handle(p, e) = p
  BY DEF A!Handle
<1>4. e.type = "message_delta" => A!Handle(p, e) = A!MergeUsage(p, e.usage)
  BY DEF A!Handle
<1> QED BY <1>1, <1>2, <1>3, <1>4

\* k blocks are through, and j events of the next.
AnIn(b, w, k, j, p) ==
  IF j = 0 THEN AnAfter(b, w, k, A!Early(b.usage), p)
  ELSE AnWithin(b, w, k, j - 1, A!Early(b.usage), p)

AnGroups(b, w) == [i \in DOMAIN b.content |-> A!BlockEvents(b.content[i], i - 1, w)]

LEMMA AnGroupsAre ==
  ASSUME NEW b, A!WellFormed(b), NEW w \in BOOLEAN
  PROVE  /\ Groups(AnGroups(b, w)) /\ Len(AnGroups(b, w)) = Len(b.content)
         /\ \A i \in DOMAIN b.content :
              /\ AnGroup(b.content[i], i - 1, w, AnGroups(b, w)[i])
              /\ AnFragments(b.content[i], w) \in Nat
<1> DEFINE G == AnGroups(b, w)
<1>1. ASSUME NEW i \in DOMAIN b.content
      PROVE  /\ AnGroup(b.content[i], i - 1, w, G[i]) /\ AnFragments(b.content[i], w) \in Nat
             /\ Sequence(G[i]) /\ Len(G[i]) > 0
  <2>1. G[i] = A!BlockEvents(b.content[i], i - 1, w)
    BY DEF AnGroups
  <2> HIDE DEF G
  <2>2. DOMAIN b.content[i] = {"type", "id", "name", "input"} /\ Sequence(b.content[i].input)
    BY AnInputs
  <2>3. AnGroup(b.content[i], i - 1, w, G[i]) /\ AnFragments(b.content[i], w) \in Nat
    BY <2>1, <2>2, AnBlockEvents
  <2>4. Sequence(G[i]) /\ Len(G[i]) = AnFragments(b.content[i], w) + 2
    BY <2>3 DEF AnGroup
  <2> QED BY <2>3, <2>4
<1>2. DOMAIN G = DOMAIN b.content /\ G = [i \in DOMAIN b.content |-> G[i]]
  BY DEF AnGroups
<1> HIDE DEF G
<1>3. Sequence(G)
  BY <1>2, AnContent, SequenceLike
<1>4. Len(G) = Len(b.content)
  <2>1. DOMAIN G = 1..Len(G) /\ DOMAIN b.content = 1..Len(b.content)
        /\ Len(G) \in Nat /\ Len(b.content) \in Nat
    BY <1>3, SequenceIs, AnContent
  <2> QED BY <1>2, <2>1, SameLength
<1>5. Groups(G)
  BY <1>1, <1>2, <1>3 DEF Groups
<1> QED BY <1>1, <1>4, <1>5 DEF G

\* One more event of the blocks.
LEMMA AnBlockStep ==
  ASSUME NEW b, A!WellFormed(b), NEW w \in BOOLEAN, NEW m \in Nat,
         m < Len(FlattenSeq(AnGroups(b, w))),
         NEW k, NEW j, FlatAt(AnGroups(b, w), m, k, j), NEW p, AnIn(b, w, k, j, p)
  PROVE  LET q == A!Handle(p, FlattenSeq(AnGroups(b, w))[m + 1])
         IN  \E i, l : FlatAt(AnGroups(b, w), m + 1, i, l) /\ AnIn(b, w, i, l, q)
<1> DEFINE G == AnGroups(b, w)
           F == FlattenSeq(G)
           e == F[m + 1]
           q == A!Handle(p, e)
           u == A!Early(b.usage)
           own == b.content[k + 1]
           f == AnFragments(own, w)
           g == G[k + 1]
<1> HIDE DEF u
<1>1. /\ Groups(G) /\ Len(G) = Len(b.content)
      /\ \A i \in DOMAIN b.content :
           AnGroup(b.content[i], i - 1, w, G[i]) /\ AnFragments(b.content[i], w) \in Nat
  BY AnGroupsAre
<1>2. FlatStep(G, m, k, j)
  BY <1>1, FlatNext
<1> HIDE DEF G, F
<1>3. /\ k < Len(b.content) /\ j + 1 \in DOMAIN g /\ e = g[j + 1]
      /\ IF j + 1 < Len(g) THEN FlatAt(G, m + 1, k, j + 1)
         ELSE j + 1 = Len(g) /\ FlatAt(G, m + 1, k + 1, 0)
  BY <1>1, <1>2 DEF FlatStep, F
<1>4. k \in Nat /\ j \in Nat
  <2>1. Len(G) \in Nat
    BY <1>1 , SequenceIs DEF Groups
  <2> QED BY <2>1 DEF FlatAt, G
<1>5. k + 1 \in DOMAIN b.content /\ (k + 1) - 1 = k
  BY <1>3, <1>4, AnPlacesNext
<1>6. AnGroup(own, k, w, g) /\ f \in Nat
  BY <1>1, <1>5
<1>7. Len(g) = f + 2 /\ DOMAIN g = 1..(f + 2)
  BY <1>6, SequenceIs DEF AnGroup
<1> HIDE DEF own, f, g, e
<1> SUFFICES \E i, l : FlatAt(G, m + 1, i, l) /\ AnIn(b, w, i, l, q)
  BY DEF q, G, F, e
<1>8. CASE j = 0
  <2>1. /\ e.type = "content_block_start" /\ e.index = k
        /\ e.block.type = own.type /\ e.block.id = own.id /\ e.block.name = own.name
        /\ e.block.input = IF w THEN own.input ELSE << >>
    BY <1>3, <1>6, <1>8 DEF AnGroup
  <2>2. q = A!StartBlock(p, k, e.block)
    BY <2>1, AnEvents
  <2> HIDE DEF q
  <2>3. AnAfter(b, w, k, u, p)
    BY <1>8 DEF AnIn, u
  <2>4. AnWithin(b, w, k, 0, u, q)
    BY <1>3, <1>4, <2>1, <2>2, <2>3, AnStarted DEF own
  <2>5. AnIn(b, w, k, 1, q)
    BY <2>4 DEF AnIn, u
  <2>6. j + 1 < Len(g) /\ j + 1 = 1
    BY <1>6, <1>7, <1>8
  <2> QED BY <1>3, <2>5, <2>6
<1>9. CASE j # 0 /\ j <= f
  <2>1. ~ w
    BY <1>4, <1>9 DEF f, AnFragments
  <2>2. j \in 1..f /\ j - 1 \in Nat /\ (j - 1) + 1 = j /\ (j + 1) - 1 = j /\ j + 1 # 0
        /\ j - 1 < f /\ j + 1 < f + 2
    BY <1>4, <1>6, <1>9
  <2>3. f = Len(own.input)
    BY <2>1 DEF f, AnFragments
  <2>4. e.type = "input_json_delta" /\ e.index = k /\ e.fragment = own.input[j]
    BY <1>3, <1>6, <2>2 DEF AnGroup, f
  <2>5. q = A!AppendInput(p, k, own.input[j])
    BY <2>4, AnEvents
  <2> HIDE DEF q
  <2>6. AnWithin(b, w, k, j - 1, u, p)
    BY <1>9 DEF AnIn, u
  <2>7. AnWithin(b, w, k, j, u, q)
    <3> DEFINE z == j - 1
    <3>1. z \in Nat /\ z + 1 = j /\ z < Len(b.content[k + 1].input) /\ AnWithin(b, w, k, z, u, p)
      BY <2>2, <2>3, <2>6 DEF own
    <3> HIDE DEF z
    <3>2. AnWithin(b, w, k, z + 1, u, A!AppendInput(p, k, b.content[k + 1].input[z + 1]))
      BY <1>3, <1>4, <2>1, <3>1, AnContinued
    <3> QED BY <2>5, <3>1, <3>2 DEF own
  <2>8. AnIn(b, w, k, j + 1, q)
    BY <2>2, <2>7 DEF AnIn, u
  <2> QED BY <1>3, <1>7, <2>2, <2>8
<1>10. CASE j # 0 /\ ~ (j <= f)
  <2>1. j = f + 1 /\ j - 1 = f /\ j + 1 = f + 2
    BY <1>3, <1>4, <1>6, <1>7, <1>10
  <2>2. e.type = "content_block_stop"
    BY <1>3, <1>6, <2>1 DEF AnGroup, f
  <2>3. q = p
    BY <2>2, AnEvents
  <2> HIDE DEF q
  <2>4. AnWithin(b, w, k, f, u, p)
    BY <1>10, <2>1 DEF AnIn, u
  <2>5. f = IF w THEN 0 ELSE Len(b.content[k + 1].input)
    BY DEF f, AnFragments, own
  <2>6. AnAfter(b, w, k + 1, u, p)
    BY <1>3, <1>4, <1>6, <2>4, <2>5, AnStopped
  <2>7. AnIn(b, w, k + 1, 0, q)
    BY <2>3, <2>6 DEF AnIn, u
  <2>8. FlatAt(G, m + 1, k + 1, 0)
    <3>1. \A i \in Nat : ~ (i + 2 < i + 2)
      OBVIOUS
    <3> QED BY <1>3, <1>6, <1>7, <2>1, <3>1
  <2> QED BY <2>7, <2>8
<1> QED BY <1>8, <1>9, <1>10

----------------------------------------------------------------------------
(* The parser when m of the events of a message have come.                 *)
AnFlat(b, w) == FlattenSeq(AnGroups(b, w))

AnAt(b, w, m, p) ==
  \/ m = 0 /\ AnFresh(p)
  \/ /\ m \in 1..(Len(AnFlat(b, w)) + 1)
     /\ \E k, j : FlatAt(AnGroups(b, w), m - 1, k, j) /\ AnIn(b, w, k, j, p)
  \/ m = Len(AnFlat(b, w)) + 2 /\ AnAfter(b, w, Len(b.content), b.usage, p)
  \/ m = Len(AnFlat(b, w)) + 3 /\ AnAfter(b, w, Len(b.content), b.usage, p) /\ p.terminal

AnStream(b, w, E) ==
  LET F == AnFlat(b, w)
      l == Len(F)
  IN /\ l \in Nat
     /\ Sequence(E) /\ Len(E) = l + 3
     /\ E[1].type = "message_start" /\ E[1].id = b.id /\ E[1].usage = A!Early(b.usage)
     /\ \A i \in 1..l : E[i + 1] = F[i]
     /\ E[l + 2].type = "message_delta" /\ E[l + 2].usage = A!Late(b.usage)
     /\ E[l + 3].type = "message_stop"

LEMMA AnStreamIs ==
  ASSUME NEW b, A!WellFormed(b), NEW w \in BOOLEAN
  PROVE  AnStream(b, w, A!Events(b, w))
<1> DEFINE a == [type |-> "message_start", id |-> b.id, usage |-> A!Early(b.usage)]
           F == AnFlat(b, w)
           l == Len(F)
           d == [type |-> "message_delta", usage |-> A!Late(b.usage)]
           s == [type |-> "message_stop"]
           h == <<a>> \o F
           E == A!Events(b, w)
<1>1. E = (<<a>> \o F) \o <<d, s>>
  BY DEF A!Events, AnFlat, AnGroups, A!FlattenSeq, FlattenSeq
<1>2. /\ a.type = "message_start" /\ a.id = b.id /\ a.usage = A!Early(b.usage)
      /\ d.type = "message_delta" /\ d.usage = A!Late(b.usage)
      /\ s.type = "message_stop"
  OBVIOUS
<1>3. Sequence(F) /\ l \in Nat /\ DOMAIN F = 1..l
  BY AnGroupsAre, FlatSequence, SequenceIs DEF AnFlat
<1> HIDE DEF a, d, s, F, E
<1>4. /\ Sequence(<<a>>) /\ Len(<<a>>) = 1 /\ DOMAIN <<a>> = 1..1 /\ <<a>>[1] = a
      /\ Sequence(<<d, s>>) /\ Len(<<d, s>>) = 2 /\ DOMAIN <<d, s>> = 1..2
      /\ <<d, s>>[1] = d /\ <<d, s>>[2] = s
  BY OneOrTwo
<1>5. Spliced(<<a>>, F, h)
  BY <1>3, <1>4, ConcatSplices
<1> HIDE DEF h
<1>6. Sequence(h) /\ Len(h) = 1 + l
  BY <1>4, <1>5 DEF Spliced
<1>7. Spliced(h, <<d, s>>, h \o <<d, s>>)
  BY <1>4, <1>6, ConcatSplices
<1>8. Spliced(h, <<d, s>>, E)
  BY <1>1, <1>7 DEF h
<1>9. Len(E) = (1 + l) + 2 /\ Sequence(E) /\ DOMAIN h = 1..(1 + l)
  BY <1>4, <1>6, <1>8, SequenceIs DEF Spliced
<1>10. \A m \in Nat : /\ (1 + m) + 2 = m + 3 /\ (1 + m) + 1 = m + 2 /\ 1 \in 1..(1 + m)
                      /\ \A i \in 1..m : i + 1 \in 1..(1 + m) /\ 1 + i = i + 1
  OBVIOUS
<1>0. 1 \in 1..1 /\ 1 \in 1..2 /\ 2 \in 1..2
  OBVIOUS
<1>11. E[1] = a
  <2>1. h[1] = a
    BY <1>0, <1>4, <1>5 DEF Spliced
  <2>2. E[1] = h[1]
    BY <1>3, <1>8, <1>9, <1>10 DEF Spliced
  <2> QED BY <2>1, <2>2
<1>12. ASSUME NEW i \in 1..l PROVE E[i + 1] = F[i]
  <2>1. i + 1 \in DOMAIN h /\ 1 + i = i + 1
    BY <1>3, <1>9, <1>10
  <2>2. h[1 + i] = F[i]
    BY <1>3, <1>4, <1>5 DEF Spliced
  <2>3. E[i + 1] = h[i + 1]
    BY <1>8, <2>1 DEF Spliced
  <2> QED BY <2>1, <2>2, <2>3
<1>13. E[l + 2] = d /\ E[l + 3] = s
  <2>1. E[(1 + l) + 1] = d /\ E[(1 + l) + 2] = s
    BY <1>0, <1>4, <1>6, <1>8 DEF Spliced
  <2> QED BY <1>3, <1>10, <2>1
<1>14. AnStream(b, w, E)
  BY <1>2, <1>3, <1>9, <1>10, <1>11, <1>12, <1>13 DEF AnStream, F
<1> QED BY <1>14 DEF E

\* One more of its events.
LEMMA AnAtNext ==
  ASSUME NEW b, A!WellFormed(b), NEW w \in BOOLEAN, NEW m \in Nat, m < Len(A!Events(b, w)),
         NEW p, AnAt(b, w, m, p)
  PROVE  AnAt(b, w, m + 1, A!Handle(p, A!Events(b, w)[m + 1]))
<1> DEFINE E == A!Events(b, w)
           F == AnFlat(b, w)
           l == Len(F)
           G == AnGroups(b, w)
           n == Len(b.content)
           e == E[m + 1]
           q == A!Handle(p, e)
<1>1. AnStream(b, w, E)
  BY AnStreamIs
<1>2. l \in Nat /\ Len(E) = l + 3 /\ Len(G) = n /\ Groups(G)
  BY <1>1, AnGroupsAre DEF AnStream
<1> HIDE DEF E, F
<1> SUFFICES AnAt(b, w, m + 1, q)
  BY DEF q, e, E
<1>3. CASE m = 0 /\ AnFresh(p)
  <2> DEFINE v == A!Early(b.usage)
             i == [p EXCEPT !.result.id = b.id]
  <2>1. e.type = "message_start" /\ e.id = b.id /\ e.usage = v
    BY <1>1, <1>3 DEF AnStream
  <2> HIDE DEF e, v
  <2>2. q = A!MergeUsage([p EXCEPT !.result.id = e.id], e.usage)
    BY <2>1 DEF A!Handle
  <2>3. q = A!MergeUsage(i, v)
    BY <2>1, <2>2
  <2>4. AnAfter(b, w, 0, v, A!MergeUsage(i, v))
    BY <1>3, AnBegins DEF v
  <2> HIDE DEF q, i
  <2>5. AnIn(b, w, 0, 0, q)
    BY <2>3, <2>4 DEF AnIn, v
  <2>6. FlatAt(G, 0, 0, 0)
    BY <1>2, FlatFirst
  <2>7. m + 1 \in 1..(l + 1) /\ (m + 1) - 1 = 0
    BY <1>2, <1>3
  <2>8. FlatAt(G, (m + 1) - 1, 0, 0)
    BY <2>6, <2>7
  <2> QED BY <2>5, <2>7, <2>8, Zenon DEF AnAt, G, F
<1>4. ASSUME m \in 1..l, NEW k, NEW j, FlatAt(G, m - 1, k, j), AnIn(b, w, k, j, p)
      PROVE  AnAt(b, w, m + 1, q)
  <2> DEFINE o == m - 1
  <2>1. o \in Nat /\ o + 1 = m /\ (m + 1) - 1 = m /\ m + 1 \in 1..(l + 1) /\ o < l
    BY <1>2, <1>4
  <2>2. e = F[m]
    BY <1>1, <1>4 DEF AnStream, F
  <2>3. FlatAt(G, o, k, j)
    BY <1>4
  <2> HIDE DEF o, e
  <2>4. q = A!Handle(p, FlattenSeq(G)[o + 1])
    BY <2>1, <2>2 DEF F, AnFlat
  <2>5. o < Len(FlattenSeq(AnGroups(b, w)))
    BY <2>1 DEF F, AnFlat
  <2>6. LET r == A!Handle(p, FlattenSeq(AnGroups(b, w))[o + 1])
        IN  \E i, z : FlatAt(AnGroups(b, w), o + 1, i, z) /\ AnIn(b, w, i, z, r)
    BY <1>4, <2>1, <2>3, <2>5, AnBlockStep
  <2>7. \E i, z : FlatAt(G, (m + 1) - 1, i, z) /\ AnIn(b, w, i, z, q)
    BY <2>1, <2>4, <2>6
  <2> HIDE DEF q, G
  <2> QED BY <2>1, <2>7, Zenon DEF AnAt, F, G
<1>5. ASSUME m = l + 1, NEW k, NEW j, FlatAt(G, m - 1, k, j), AnIn(b, w, k, j, p)
      PROVE  AnAt(b, w, m + 1, q)
  <2>1. m - 1 = l /\ m + 1 = l + 2
    BY <1>2, <1>5
  <2>2. FlatAt(G, Len(FlattenSeq(G)), k, j)
    BY <1>5, <2>1 DEF F, AnFlat
  <2>3. k = n /\ j = 0
    BY <1>2, <2>2, FlatLast
  <2>4. AnAfter(b, w, n, A!Early(b.usage), p)
    BY <1>5, <2>3 DEF AnIn
  <2>5. e.type = "message_delta" /\ e.usage = A!Late(b.usage)
    BY <1>1, <2>1 DEF AnStream, F
  <2>6. q = A!MergeUsage(p, A!Late(b.usage))
    BY <2>5, AnEvents
  <2>7. AnAfter(b, w, n, b.usage, q)
    BY <2>4, <2>6, AnEnds
  <2> HIDE DEF q
  <2> QED BY <2>1, <2>7 DEF AnAt, F
<1>6. CASE m = l + 2 /\ AnAfter(b, w, n, b.usage, p)
  <2> DEFINE t == TRUE
             r == [p EXCEPT !.terminal = t]
  <2>1. m + 1 = l + 3
    BY <1>2, <1>6
  <2>2. e.type = "message_stop"
    BY <1>1, <1>6, <2>1 DEF AnStream, F
  <2> HIDE DEF e
  <2>3. q = r
    BY <2>2 DEF A!Handle
  <2>4. AnShape(p) /\ t \in BOOLEAN
    BY <1>6 DEF AnAfter, AnBegun
  <2> HIDE DEF t
  <2>5. /\ AnShape(r) /\ r.result = p.result /\ r.usage = p.usage /\ r.calls = p.calls
        /\ r.terminal = t
    BY <2>4 DEF AnShape
  <2> HIDE DEF r, q
  <2>6. AnAfter(b, w, n, b.usage, r)
    BY <1>6, <2>5, AnAfterStill
  <2>7. r.terminal
    BY <2>5 DEF t
  <2>8. AnAfter(b, w, n, b.usage, q) /\ q.terminal
    BY <2>3, <2>6, <2>7
  <2> QED BY <2>1, <2>8 DEF AnAt, F
<1>7. ~ (m = l + 3)
  BY <1>2 DEF E
<1>8. CASE m \in 1..(l + 1) /\ \E k, j : FlatAt(G, m - 1, k, j) /\ AnIn(b, w, k, j, p)
  <2>1. PICK k, j : FlatAt(G, m - 1, k, j) /\ AnIn(b, w, k, j, p)
    BY <1>8
  <2>2. m \in 1..l \/ m = l + 1
    BY <1>2, <1>8
  <2> HIDE DEF q, G
  <2> QED BY <1>4, <1>5, <2>1, <2>2
<1> HIDE DEF q, l
<1> QED BY <1>3, <1>6, <1>7, <1>8 DEF AnAt, F, G, n, l

\* What is not JSON leaves all that as it is.
LEMMA AnAtStill ==
  ASSUME NEW b, NEW w, NEW m, NEW p, AnAt(b, w, m, p), NEW q, AnShape(q), q.result = p.result,
         q.usage = p.usage, q.calls = p.calls, q.terminal = p.terminal
  PROVE  AnAt(b, w, m, q)
<1>1. CASE m = 0 /\ AnFresh(p)
  BY <1>1 DEF AnAt, AnFresh
<1>2. ASSUME m \in 1..(Len(AnFlat(b, w)) + 1), NEW k, NEW j,
             FlatAt(AnGroups(b, w), m - 1, k, j), AnIn(b, w, k, j, p)
      PROVE  AnAt(b, w, m, q)
  <2>1. AnIn(b, w, k, j, q)
    BY <1>2, AnAfterStill, AnWithinStill DEF AnIn
  <2> QED BY <1>2, <2>1, Zenon DEF AnAt
<1>3. CASE AnAfter(b, w, Len(b.content), b.usage, p)
  <2>1. AnAfter(b, w, Len(b.content), b.usage, q)
    BY <1>3, AnAfterStill
  <2>2. CASE m = Len(AnFlat(b, w)) + 2
    BY <2>1, <2>2 DEF AnAt
  <2>3. CASE m = Len(AnFlat(b, w)) + 3 /\ p.terminal
    BY <2>1, <2>3 DEF AnAt
  <2>4. CASE ~ (m = Len(AnFlat(b, w)) + 2) /\ ~ (m = Len(AnFlat(b, w)) + 3 /\ p.terminal)
    BY <1>1, <1>2, <2>4 DEF AnAt
  <2> QED BY <2>2, <2>3, <2>4
<1> QED BY <1>1, <1>2, <1>3 DEF AnAt

----------------------------------------------------------------------------
(* What the parser and the body have to say of each other in the end; the  *)
(* usage and the web requests are compared if told and plain say so.       *)
Accounted(whole, error, told, plain, p) ==
  /\ p.terminal
  /\ p.result.id = whole.id
  /\ p.result.error = error
  /\ told => p.result.usage = whole.usage
  /\ SameCalls(NotWeb(p.result.tools, whole.web), whole.tools)
  /\ plain => SameCalls(p.result.web, whole.web)

LEMMA SameAsItself == ASSUME NEW calls PROVE SameCalls(calls, calls)
  BY DEF SameCalls

\* The ids on the list of the body's web searches.
LEMMA AnWebIds ==
  ASSUME NEW b, A!WellFormed(b), NEW n \in Int
  PROVE  LET webs == A!AddSynthetic(AnWebsOf(b), n)
         IN  /\ \A i \in AnWebPlaces(b) : b.content[i].id \in A!Ids(webs)
             /\ \A i \in AnToolPlaces(b) : b.content[i].id \notin A!Ids(webs)
<1> DEFINE items == b.content
           I == AnWebPlaces(b)
           v == A!Selected(items, I)
           c == AnWebsOf(b)
           webs == A!AddSynthetic(c, n)
<1>1. Sequence(items)
  BY AnContent
<1> HIDE DEF v
<1>2. /\ Sequence(v)
      /\ \A j \in DOMAIN v : \E i \in DOMAIN items : i \in I /\ v[j] = items[i]
      /\ \A i \in DOMAIN items : i \in I => \E j \in DOMAIN v : v[j] = items[i]
  BY <1>1, SelectedHolds DEF v
<1>3. c = [i \in DOMAIN v |-> A!Call(v[i].id, v[i].name, v[i].input)]
  BY DEF AnWebsOf, A!CallsOf, v
<1> HIDE DEF c
<1>4. DOMAIN c = DOMAIN v /\ (\A i \in DOMAIN v : c[i].id = v[i].id) /\ c = [i \in DOMAIN v |-> c[i]]
  BY <1>3 DEF A!Call
<1>5. Sequence(c)
  BY <1>2, <1>4, SequenceLike
<1>6. A!Ids(c) = {v[i].id : i \in DOMAIN v}
  BY <1>2, <1>4, ListedIds
<1>7. A!Ids(c) \subseteq A!Ids(webs) /\ A!Ids(webs) \subseteq A!Ids(c) \cup {""}
  BY <1>5, SyntheticIds
<1> HIDE DEF webs
<1>8. ASSUME NEW i \in I PROVE items[i].id \in A!Ids(webs)
  <2>1. i \in DOMAIN items
    BY DEF AnWebPlaces
  <2>2. PICK j \in DOMAIN v : v[j] = items[i]
    BY <1>2, <2>1
  <2>3. items[i].id \in A!Ids(c)
    BY <1>6, <2>2
  <2> QED BY <1>7, <2>3
<1>9. ASSUME NEW i \in AnToolPlaces(b) PROVE items[i].id \notin A!Ids(webs)
  <2>1. i \in DOMAIN items /\ A!IsTool(items[i])
    BY DEF AnToolPlaces
  <2>2. items[i].id # "" /\ \A j \in DOMAIN items : A!IsWeb(items[j]) => items[i].id # items[j].id
    BY <2>1 DEF A!WellFormed
  <2>3. \A j \in I : j \in DOMAIN items /\ A!IsWeb(items[j])
    BY DEF AnWebPlaces
  <2>4. items[i].id \notin A!Ids(c)
    <3> SUFFICES ASSUME NEW z \in DOMAIN v, v[z].id = items[i].id PROVE FALSE
      BY <1>6
    <3>1. PICK j \in DOMAIN items : j \in I /\ v[z] = items[j]
      BY <1>2
    <3> QED BY <2>2, <2>3, <3>1
  <2> QED BY <1>7, <2>2, <2>4
<1> QED BY <1>8, <1>9 DEF webs, c

LEMMA PastTheEnd == \A m \in Nat : m + 3 # 0 /\ m + 3 \notin 1..(m + 1) /\ m + 3 # m + 2
  OBVIOUS

LEMMA AnAgrees ==
  ASSUME NEW b, A!WellFormed(b), NEW w \in BOOLEAN, NEW p, AnAt(b, w, Len(A!Events(b, w)), p),
         NEW plain, plain => \A i \in DOMAIN b.content : A!IsWeb(b.content[i]) => b.content[i].name # ""
  PROVE  Accounted(A!Completed(b), b.error, TRUE, plain, p)
<1> DEFINE n == Len(b.content)
           l == Len(AnFlat(b, w))
           whole == A!Completed(b)
           webs == A!AddSynthetic(AnWebsOf(b), b.usage.web)
<1>1. l \in Nat /\ Len(A!Events(b, w)) = l + 3
  BY AnStreamIs DEF AnStream
<1>2. AnAt(b, w, l + 3, p)
  <2> DEFINE z == Len(A!Events(b, w))
             y == l + 3
  <2>1. z = y /\ AnAt(b, w, z, p)
    BY <1>1
  <2> HIDE DEF z, y
  <2>2. AnAt(b, w, y, p)
    BY <2>1
  <2> QED BY <2>2 DEF y
<1> HIDE DEF l
<1>3. l + 3 # 0 /\ l + 3 \notin 1..(l + 1) /\ l + 3 # l + 2
  BY <1>1, PastTheEnd
<1>4. AnAfter(b, w, n, b.usage, p) /\ p.terminal
  BY <1>2, <1>3 DEF AnAt, l
<1>5. /\ whole.id = b.id /\ whole.usage = A!ToUsage(b.usage) /\ whole.web = webs
      /\ whole.tools = AnToolsOf(b)
  BY DEF A!Completed, AnWebsOf, AnToolsOf, AnWebPlaces, AnToolPlaces
<1> HIDE DEF whole, webs
<1>6. /\ p.result.id = b.id /\ p.result.error = "" /\ p.result.usage = A!ToUsage(b.usage)
      /\ p.usage = b.usage /\ AnToolsSynced(b, w, n, p) /\ AnWebSynced(b, w, n, p)
  BY <1>4 DEF AnAfter, AnBegun
<1>7. b.error = "" /\ b.usage.web \in Int
  BY DEF A!WellFormed, A!UsageFields
<1>8. /\ \A i \in AnWebPlaces(b) : b.content[i].id \in A!Ids(webs)
      /\ \A i \in AnToolPlaces(b) : b.content[i].id \notin A!Ids(webs)
  BY <1>7, AnWebIds DEF webs
<1>9. NotWeb(p.result.tools, webs) = AnToolsOf(b)
  <2>1. PICK k, c :
          /\ k \in 0..n
          /\ AnPlaced(b, w, c, k)
          /\ p.result.tools = AnToolList(c)
          /\ \A i \in (k + 1)..n : i \notin AnToolPlaces(b)
    BY <1>6 DEF AnToolsSynced
  <2>2. NotWeb(AnToolList(c), webs) = AnToolsOf(b)
    BY <1>8, <2>1, AnToolsSelected
  <2> QED BY <2>1, <2>2
<1>10. ASSUME plain PROVE p.result.web = webs
  <2>1. PICK k, c :
          /\ k \in 0..n
          /\ AnPlaced(b, w, c, k)
          /\ p.result.web = A!AddSynthetic(AnWebList(c), p.usage.web)
          /\ \A i \in (k + 1)..n : i \notin AnWebPlaces(b)
    BY <1>6 DEF AnWebSynced
  <2>2. \A i \in AnWebPlaces(b) : b.content[i].name # ""
    BY <1>10 DEF AnWebPlaces
  <2>3. AnWebList(c) = AnWebsOf(b)
    BY <2>1, <2>2, AnWebsSelected
  <2> QED BY <1>6, <2>1, <2>3 DEF webs
<1>11. /\ SameCalls(NotWeb(p.result.tools, whole.web), whole.tools)
       /\ plain => SameCalls(p.result.web, whole.web)
  BY <1>5, <1>9, <1>10, SameAsItself
<1>12. p.result.id = whole.id /\ p.result.error = b.error /\ p.result.usage = whole.usage
  BY <1>5, <1>6, <1>7
<1> HIDE DEF n
<1>13. \A t : Accounted(whole, b.error, t, plain, p)
  BY <1>4, <1>11, <1>12, Zenon DEF Accounted
<1> QED BY <1>13, Zenon DEF whole

----------------------------------------------------------------------------
(* An event in its layers of frames is handled like the event itself.      *)
Like(e, w) == DOMAIN e \subseteq DOMAIN w /\ \A f \in DOMAIN e : w[f] = e[f]

LEMMA OnWrapped ==
  ASSUME NEW e, "depth" \notin DOMAIN e, NEW depth \in 0..O!MaxNestDepth
  PROVE  /\ Like(e, O!Wrapped(e, depth))
         /\ \A p : O!Handle(p, O!Wrapped(e, depth)) = O!HandleInner(p, O!Wrapped(e, depth))
<1> DEFINE w == O!Wrapped(e, depth)
<1>1. w = [f \in DOMAIN e \cup {"depth"} |-> IF f = "depth" THEN depth ELSE e[f]]
  BY DEF O!Wrapped
<1> HIDE DEF w
<1>2. Like(e, w)
  BY <1>1 DEF Like
<1>3. w.depth = depth
  BY <1>1
<1>4. ~ (w.depth > O!MaxNestDepth)
  BY <1>3 DEF O!MaxNestDepth
<1>5. \A p : O!Handle(p, w) = O!HandleInner(p, w)
  BY <1>4 DEF O!Handle
<1> QED BY <1>2, <1>5 DEF w

----------------------------------------------------------------------------
(* The items of a body that have a name are its calls, in their order.     *)
OnWell(b) == O!WellNamed(b) /\ O!WellFormed(b)

OnItems(b) == {i \in DOMAIN b.output : O!NameOf(b.output[i]) # ""}

OnPlaces(b, I, k) == PlacesUpto(Len(b.output), I, k)

OnInputOf(item) == IF O!IsWeb(item) /\ ~ item.given THEN O!Raw ELSE item.input

OnIs(b, c, i) ==
  /\ DOMAIN c = OnCallFields
  /\ c.index = i - 1
  /\ c.id \in {b.output[i].id, O!Key(b.output[i])}
  /\ c.callId = b.output[i].callId
  /\ c.type = b.output[i].type
  /\ c.name = O!NameOf(b.output[i])
  /\ c.web = O!IsWeb(b.output[i])

OnStands(b, c, i) ==
  OnIs(b, c, i) /\ (OnInputOf(b.output[i]) # << >> => O!Input(c) = OnInputOf(b.output[i]))

OnPlaced(b, calls, k) ==
  /\ Sequence(calls)
  /\ Len(calls) = Len(OnPlaces(b, OnItems(b), k))
  /\ \A j \in DOMAIN calls : OnStands(b, calls[j], OnPlaces(b, OnItems(b), k)[j])

\* The call of the item that is coming.
OnDraft(b, c, i) ==
  OnIs(b, c, i) /\ (O!IsWeb(b.output[i]) => c.input = O!Raw /\ c.partial = << >>)

LEMMA OnBody ==
  ASSUME NEW b, OnWell(b)
  PROVE  /\ Sequence(b.output) /\ Len(b.output) \in Nat /\ DOMAIN b.output = 1..Len(b.output)
         /\ Sequence(b.chat)
         /\ \A i \in DOMAIN b.output :
              /\ DOMAIN b.output[i] = {"type", "id", "callId", "name", "given", "input"}
              /\ b.output[i].given \in BOOLEAN
              /\ Sequence(b.output[i].input)
              /\ ~ b.output[i].given => b.output[i].input = << >>
              /\ O!Key(b.output[i]) # ""
              /\ O!IsWeb(b.output[i]) => /\ O!NameOf(b.output[i]) = "web_search_call"
                                         /\ b.output[i].callId = "" /\ b.output[i].id # ""
                                         /\ O!Key(b.output[i]) = b.output[i].id
<1>1. Sequence(b.output) /\ Sequence(b.chat)
  BY DEF OnWell, O!WellFormed, Sequence
<1>2. ASSUME NEW i \in DOMAIN b.output
      PROVE  /\ DOMAIN b.output[i] = {"type", "id", "callId", "name", "given", "input"}
             /\ b.output[i].given \in BOOLEAN
             /\ Sequence(b.output[i].input)
             /\ ~ b.output[i].given => b.output[i].input = << >>
             /\ O!IsWeb(b.output[i]) => b.output[i].name = ""
  BY DEF OnWell, O!WellFormed, Sequence
<1>3. ASSUME NEW i \in DOMAIN b.output
      PROVE  /\ O!Key(b.output[i]) # ""
             /\ O!IsWeb(b.output[i]) => b.output[i].callId = ""
  BY DEF OnWell, O!WellNamed
<1>4. ASSUME NEW item, item.name = "", O!IsWeb(item) PROVE O!NameOf(item) = "web_search_call"
  BY <1>4 DEF O!IsWeb, O!NameOf, O!ToolTypes
<1>5. ASSUME NEW item, item.callId = "", O!Key(item) # ""
      PROVE  O!Key(item) = item.id /\ item.id # ""
  BY <1>5 DEF O!Key, O!First
<1> QED BY <1>1, <1>2, <1>3, <1>4, <1>5, SequenceIs

LEMMA OnIsOf ==
  ASSUME NEW b, OnWell(b), NEW i \in OnItems(b), NEW c, OnIs(b, c, i)
  PROVE  OnOf(b, c, i) /\ O!Key(c) = O!Key(b.output[i])
<1> DEFINE item == b.output[i]
<1>1. i \in DOMAIN b.output /\ O!NameOf(item) # ""
  BY DEF OnItems
<1>2. O!Key(item) # ""
  BY <1>1, OnBody
<1> HIDE DEF item
<1>3. /\ c.index = i - 1 /\ c.id \in {item.id, O!Key(item)} /\ c.callId = item.callId
      /\ c.type = item.type /\ c.name = O!NameOf(item) /\ c.web = O!IsWeb(item)
  BY DEF OnIs, item
<1>4. O!Key(c) = O!Key(item) /\ O!Key(item) \in {item.id, item.callId}
  BY <1>2, <1>3 DEF O!Key, O!First
<1>5. O!IsWeb(item) => O!IsWeb(c)
  BY <1>3 DEF O!IsWeb
<1>6. O!IsPlace(c.index, i)
  BY <1>3 DEF O!IsPlace
<1>7. c.id \in {"", item.id, item.callId} /\ c.callId \in {"", item.callId} /\ c.name # ""
  BY <1>1, <1>3, <1>4
<1> QED BY <1>3, <1>4, <1>5, <1>6, <1>7 DEF OnOf, item

LEMMA OnSameIs ==
  ASSUME NEW b, OnWell(b), NEW i \in OnItems(b), NEW k \in DOMAIN b.output, NEW c, OnIs(b, c, i),
         NEW id, NEW callId, NEW index, GoesBy(b, k, id, callId, index),
         O!Matches(c, id, callId, index)
  PROVE  i = k
<1>1. i \in DOMAIN b.output /\ OnOf(b, c, i) /\ O!WellNamed(b)
  BY OnIsOf DEF OnItems, OnWell
<1> QED BY <1>1, OnSame

----------------------------------------------------------------------------
(* The calls of the first items, and those of one item more.               *)
LEMMA OnPlacesNext ==
  ASSUME NEW b, OnWell(b), NEW I, NEW k \in Nat, k < Len(b.output)
  PROVE  /\ k + 1 \in DOMAIN b.output /\ k \in 0..Len(b.output) /\ k + 1 \in 0..Len(b.output)
         /\ OnPlaces(b, I, k + 1) = IF k + 1 \in I THEN Append(OnPlaces(b, I, k), k + 1)
                                    ELSE OnPlaces(b, I, k)
<1>1. Len(b.output) \in Nat /\ DOMAIN b.output = 1..Len(b.output)
  BY OnBody
<1> DEFINE n == Len(b.output)
<1>2. PlacesUpto(n, I, k + 1) =
        IF k + 1 \in I THEN Append(PlacesUpto(n, I, k), k + 1) ELSE PlacesUpto(n, I, k)
  <2>1. n \in Nat /\ k < n
    BY <1>1
  <2> HIDE DEF n
  <2> QED BY <2>1, PlacesNext
<1>3. k + 1 \in 1..n /\ k \in 0..n /\ k + 1 \in 0..n
  BY <1>1
<1> QED BY <1>1, <1>2, <1>3 DEF OnPlaces

LEMMA OnPlacesAre ==
  ASSUME NEW b, OnWell(b), NEW I, NEW k \in 0..Len(b.output)
  PROVE  /\ Sequence(OnPlaces(b, I, k))
         /\ \A j \in DOMAIN OnPlaces(b, I, k) :
              OnPlaces(b, I, k)[j] \in 1..k /\ OnPlaces(b, I, k)[j] \in I
<1>1. Len(b.output) \in Nat
  BY OnBody
<1> DEFINE n == Len(b.output)
<1>2. n \in Nat /\ k \in 0..n
  BY <1>1
<1> HIDE DEF n
<1>3. LET P == PlacesUpto(n, I, k)
      IN  Sequence(P) /\ \A j \in DOMAIN P : P[j] \in 1..k /\ P[j] \in I
  BY <1>2, PlacesAre
<1> QED BY <1>3 DEF OnPlaces, n

LEMMA OnPlacedAre ==
  ASSUME NEW b, OnWell(b), NEW k \in 0..Len(b.output), NEW calls, OnPlaced(b, calls, k)
  PROVE  /\ Len(calls) \in Nat /\ DOMAIN calls = 1..Len(calls)
         /\ \A j \in DOMAIN calls : /\ OnPlaces(b, OnItems(b), k)[j] \in 1..k
                                    /\ OnPlaces(b, OnItems(b), k)[j] \in OnItems(b)
<1> DEFINE P == OnPlaces(b, OnItems(b), k)
<1>1. Sequence(P) /\ \A j \in DOMAIN P : P[j] \in 1..k /\ P[j] \in OnItems(b)
  BY OnPlacesAre
<1> HIDE DEF P
<1>2. Sequence(calls) /\ Len(calls) = Len(P)
  BY DEF OnPlaced, P
<1>3. DOMAIN P = 1..Len(P)
  BY <1>1, SequenceIs
<1>4. Len(calls) \in Nat /\ DOMAIN calls = 1..Len(calls)
  BY <1>2, SequenceIs
<1> QED BY <1>1, <1>2, <1>3, <1>4 DEF P

\* The calls of the first k items, one more of them.
LEMMA OnPlacedNext ==
  ASSUME NEW b, OnWell(b), NEW k \in Nat, k < Len(b.output), NEW c, OnPlaced(b, c, k)
  PROVE  /\ k + 1 \notin OnItems(b) => OnPlaced(b, c, k + 1)
         /\ \A e, calls : k + 1 \in OnItems(b) /\ Extended(c, e, calls) /\ OnStands(b, e, k + 1)
              => OnPlaced(b, calls, k + 1)
<1> DEFINE P == OnPlaces(b, OnItems(b), k)
           Q == OnPlaces(b, OnItems(b), k + 1)
<1>1. /\ Q = IF k + 1 \in OnItems(b) THEN Append(P, k + 1) ELSE P
      /\ k \in 0..Len(b.output)
  BY OnPlacesNext
<1>2. Sequence(c) /\ Len(c) = Len(P) /\ \A j \in DOMAIN c : OnStands(b, c[j], P[j])
  BY DEF OnPlaced
<1>3. Sequence(P)
  BY <1>1, OnPlacesAre
<1> HIDE DEF P, Q
<1>4. ASSUME k + 1 \notin OnItems(b) PROVE OnPlaced(b, c, k + 1)
  BY <1>1, <1>2, <1>4 DEF OnPlaced, P, Q
<1>5. ASSUME NEW e, NEW calls, k + 1 \in OnItems(b), Extended(c, e, calls), OnStands(b, e, k + 1)
      PROVE  OnPlaced(b, calls, k + 1)
  <2>1. Q = Append(P, k + 1)
    BY <1>1, <1>5
  <2>2. Extended(P, k + 1, Q)
    BY <1>3, <2>1, AppendExtends
  <2>3. Len(calls) = Len(c) + 1 /\ Len(Q) = Len(P) + 1
    BY <1>2, <1>3, <1>5, <2>2, ExtendedIs, Zenon
  <2>4. DOMAIN P = DOMAIN c
    BY <1>2, <1>3, SequenceIs
  <2>5. ASSUME NEW j \in DOMAIN calls PROVE OnStands(b, calls[j], Q[j])
    <3>1. CASE j \in DOMAIN c
      BY <1>2, <1>5, <2>2, <2>4, <3>1 DEF Extended
    <3>2. CASE j = Len(c) + 1
      BY <1>2, <1>5, <2>2, <3>2 DEF Extended
    <3> QED BY <1>5, <3>1, <3>2 DEF Extended
  <2> QED BY <1>2, <1>5, <2>3, <2>5 DEF OnPlaced, Extended, Q
<1> QED BY <1>4, <1>5

----------------------------------------------------------------------------
(* Where the call of an event is.                                          *)

\* A call that the event begins.
OnBlank(c, id, callId, index) ==
  /\ DOMAIN c = OnCallFields
  /\ c.id = id /\ c.callId = callId /\ c.index = index
  /\ c.type = "" /\ c.input = << >> /\ c.partial = << >>

OnAdds(calls, id, callId, index) ==
  LET s == O!Slot(calls, id, callId, index)
  IN /\ O!At(s, id, callId, index) = Len(calls) + 1
     /\ \E c : Extended(calls, c, s) /\ OnBlank(c, id, callId, index)

LEMMA OnNew ==
  ASSUME NEW b, OnWell(b), NEW k \in Nat, k < Len(b.output), NEW calls, OnPlaced(b, calls, k),
         NEW id, NEW callId, NEW index, GoesBy(b, k + 1, id, callId, index),
         index # O!Absent
  PROVE  OnAdds(calls, id, callId, index)
<1> DEFINE f == FALSE
           new == [index |-> index, id |-> id, callId |-> callId, type |-> "", name |-> "",
                   input |-> << >>, partial |-> << >>, web |-> f]
           s == O!Slot(calls, id, callId, index)
           i == O!At(s, id, callId, index)
           P == OnPlaces(b, OnItems(b), k)
<1>1. k \in 0..Len(b.output) /\ k + 1 \in DOMAIN b.output
  BY OnPlacesNext
<1>2. Sequence(calls) /\ \A j \in DOMAIN calls : OnIs(b, calls[j], P[j])
  BY DEF OnPlaced, OnStands
<1>3. \A j \in DOMAIN calls : P[j] \in 1..k /\ P[j] \in OnItems(b)
  BY <1>1, OnPlacedAre
<1> HIDE DEF P
<1>4. \A j \in DOMAIN calls : ~ O!Matches(calls[j], id, callId, index)
  <2> SUFFICES ASSUME NEW j \in DOMAIN calls, O!Matches(calls[j], id, callId, index) PROVE FALSE
    OBVIOUS
  <2> DEFINE c == calls[j]
             l == P[j]
  <2>1. OnIs(b, c, l) /\ l \in OnItems(b) /\ O!Matches(c, id, callId, index)
    BY <1>2, <1>3
  <2>2. l # k + 1
    BY <1>3
  <2> HIDE DEF c, l
  <2> QED BY <1>1, <2>1, <2>2, OnSameIs
<1>5. s = Append(calls, new)
  BY <1>4 DEF O!Slot
<1>6. OnBlank(new, id, callId, index) /\ new.index = index
  BY DEF OnBlank, OnCallFields
<1> HIDE DEF new
<1>7. Extended(calls, new, s)
  BY <1>2, <1>5, AppendExtends, Zenon
<1> HIDE DEF s
<1>8. O!Matches(new, id, callId, index)
  BY <1>6 DEF O!Matches
<1>9. \E j \in DOMAIN s : O!Matches(s[j], id, callId, index)
  BY <1>7, <1>8 DEF Extended
<1>10. i \in DOMAIN s /\ O!Matches(s[i], id, callId, index)
  BY <1>7, <1>9, OnAt DEF Extended
<1>11. i = Len(calls) + 1
  BY <1>4, <1>7, <1>10 DEF Extended
<1> QED BY <1>6, <1>7, <1>11 DEF OnAdds, s

\* The call under way.
OnFinds(calls, e, s, id, callId, index) ==
  O!Slot(s, id, callId, index) = s /\ O!At(s, id, callId, index) = Len(calls) + 1

LEMMA OnOwn ==
  ASSUME NEW b, OnWell(b), NEW k \in Nat, k < Len(b.output), NEW calls, OnPlaced(b, calls, k),
         NEW e, OnIs(b, e, k + 1), NEW s, Extended(calls, e, s),
         NEW id, NEW callId, NEW index, GoesBy(b, k + 1, id, callId, index),
         index = k, index # O!Absent
  PROVE  OnFinds(calls, e, s, id, callId, index)
<1> DEFINE i == O!At(s, id, callId, index)
           P == OnPlaces(b, OnItems(b), k)
<1>1. k \in 0..Len(b.output) /\ k + 1 \in DOMAIN b.output
  BY OnPlacesNext
<1>2. Sequence(calls) /\ \A j \in DOMAIN calls : OnIs(b, calls[j], P[j])
  BY DEF OnPlaced, OnStands
<1>3. \A j \in DOMAIN calls : P[j] \in 1..k /\ P[j] \in OnItems(b)
  BY <1>1, OnPlacedAre
<1> HIDE DEF P
<1>4. \A j \in DOMAIN calls : ~ O!Matches(calls[j], id, callId, index)
  <2> SUFFICES ASSUME NEW j \in DOMAIN calls, O!Matches(calls[j], id, callId, index) PROVE FALSE
    OBVIOUS
  <2> DEFINE c == calls[j]
             l == P[j]
  <2>1. OnIs(b, c, l) /\ l \in OnItems(b) /\ O!Matches(c, id, callId, index)
    BY <1>2, <1>3
  <2>2. l # k + 1
    BY <1>3
  <2> HIDE DEF c, l
  <2> QED BY <1>1, <2>1, <2>2, OnSameIs
<1>5. (k + 1) - 1 = k
  OBVIOUS
<1>6. e.index = k
  BY <1>5 DEF OnIs
<1>7. O!Matches(e, id, callId, index)
  BY <1>6 DEF O!Matches
<1>8. \E j \in DOMAIN s : O!Matches(s[j], id, callId, index)
  BY <1>7 DEF Extended
<1>9. i \in DOMAIN s /\ O!Matches(s[i], id, callId, index)
  BY <1>8, OnAt DEF Extended
<1>10. i = Len(calls) + 1
  BY <1>4, <1>9 DEF Extended
<1>11. O!Slot(s, id, callId, index) = s
  BY <1>8 DEF O!Slot
<1> QED BY <1>10, <1>11 DEF OnFinds

----------------------------------------------------------------------------
(* What is listed of the first k items, those of I.                        *)
ToolItems(b) == {i \in DOMAIN b.output : ~ O!IsWeb(b.output[i]) /\ O!NameOf(b.output[i]) # ""}

WebItems(b) == {i \in DOMAIN b.output : O!IsWeb(b.output[i])}

OnEntry(item, c) ==
  /\ c.id = O!Key(item)
  /\ c.name = O!NameOf(item)
  /\ OnInputOf(item) # << >> => c.input = OnInputOf(item)

OnLists(b, I, k, t) ==
  /\ Sequence(t)
  /\ Len(t) = Len(OnPlaces(b, I, k))
  /\ \A m \in DOMAIN t : OnEntry(b.output[OnPlaces(b, I, k)[m]], t[m])

LEMMA OnKeyed ==
  ASSUME NEW b, OnWell(b), NEW k \in 0..Len(b.output), NEW calls, OnPlaced(b, calls, k),
         NEW I, I \subseteq OnItems(b), NEW J, J \subseteq DOMAIN calls,
         \A j \in DOMAIN calls : j \in J <=> OnPlaces(b, OnItems(b), k)[j] \in I
  PROVE  OnLists(b, I, k, O!KeyedCalls(calls, J))
<1> DEFINE n == Len(b.output)
           N == OnItems(b)
           P == PlacesUpto(n, N, k)
           Q == PlacesUpto(n, I, k)
           u == A!Selected(calls, J)
           t == O!KeyedCalls(calls, J)
<1>1. n \in Nat /\ k \in 0..n
  BY OnBody
<1>2. /\ Sequence(calls) /\ Len(calls) = Len(PlacesUpto(n, N, k))
      /\ \A j \in DOMAIN calls : OnStands(b, calls[j], P[j])
  BY DEF OnPlaced, OnPlaces
<1>3. /\ \A i \in 1..n : i \in I => i \in N
      /\ \A j \in DOMAIN calls : j \in J <=> PlacesUpto(n, N, k)[j] \in I
  BY DEF OnPlaces
<1>4. \A j \in DOMAIN calls : P[j] \in N
  BY OnPlacedAre DEF OnPlaces
<1> HIDE DEF n, N
<1>5. Chosen(calls, P, u, Q)
  BY <1>1, <1>2, <1>3, SelectedPlaces
<1>6. u = O!Selected(calls, J)
  BY <1>2, SelectedIs
<1>7. t = [i \in DOMAIN u |-> O!Call(O!Key(u[i]), u[i].name, O!Input(u[i]))]
  BY <1>6 DEF O!KeyedCalls
<1> HIDE DEF t, u, P, Q
<1>8. /\ DOMAIN t = DOMAIN u /\ t = [i \in DOMAIN u |-> t[i]]
      /\ \A m \in DOMAIN u : /\ t[m].id = O!Key(u[m]) /\ t[m].name = u[m].name
                             /\ t[m].input = O!Input(u[m])
  BY <1>7 DEF O!Call
<1>9. Sequence(u) /\ Len(u) = Len(Q)
  BY <1>5 DEF Chosen
<1>10. Sequence(t)
  BY <1>8, <1>9, SequenceLike
<1>11. Len(t) = Len(Q)
  <2>1. DOMAIN t = 1..Len(t) /\ Len(t) \in Nat /\ DOMAIN u = 1..Len(u) /\ Len(u) \in Nat
    BY <1>9, <1>10, SequenceIs
  <2> QED BY <1>8, <1>9, <2>1, SameLength
<1>12. ASSUME NEW m \in DOMAIN t PROVE OnEntry(b.output[Q[m]], t[m])
  <2>1. PICK j \in DOMAIN calls : u[m] = calls[j] /\ Q[m] = P[j]
    BY <1>5, <1>8 DEF Chosen
  <2> DEFINE i == P[j]
             c == calls[j]
             item == b.output[i]
  <2>2. OnStands(b, c, i) /\ i \in OnItems(b)
    BY <1>2, <1>4 DEF N
  <2>3. OnIs(b, c, i)
    BY <2>2 DEF OnStands
  <2> HIDE DEF i, c
  <2>4. O!Key(c) = O!Key(item)
    BY <2>2, <2>3, OnIsOf
  <2>5. /\ t[m].id = O!Key(c) /\ t[m].name = c.name /\ t[m].input = O!Input(c)
    BY <1>8, <2>1 DEF c
  <2>6. OnEntry(item, t[m])
    BY <2>2, <2>3, <2>4, <2>5 DEF OnEntry, OnStands, OnIs
  <2> QED BY <2>1, <2>6 DEF i
<1>13. OnLists(b, I, k, t)
  BY <1>10, <1>11, <1>12 DEF OnLists, Q, n, OnPlaces
<1> QED BY <1>13 DEF t

LEMMA OnListsOf ==
  ASSUME NEW b, OnWell(b), NEW k \in 0..Len(b.output), NEW calls, OnPlaced(b, calls, k)
  PROVE  /\ OnLists(b, ToolItems(b), k, O!KeyedCalls(calls, ToolPlaces(calls)))
         /\ OnLists(b, WebItems(b), k, O!KeyedCalls(calls, WebPlaces(calls)))
<1> DEFINE P == OnPlaces(b, OnItems(b), k)
<1>1. \A j \in DOMAIN calls : P[j] \in OnItems(b)
  BY OnPlacedAre
<1>2. \A j \in DOMAIN calls : OnIs(b, calls[j], P[j])
  BY DEF OnPlaced, OnStands
<1> HIDE DEF P
<1>3. ASSUME NEW j \in DOMAIN calls
      PROVE  /\ j \in ToolPlaces(calls) <=> P[j] \in ToolItems(b)
             /\ j \in WebPlaces(calls) <=> P[j] \in WebItems(b)
  <2> DEFINE i == P[j]
             c == calls[j]
  <2>1. OnIs(b, c, i) /\ i \in DOMAIN b.output /\ O!NameOf(b.output[i]) # ""
    BY <1>1, <1>2 DEF OnItems
  <2>2. j \in ToolPlaces(calls) <=> c.name # "" /\ ~ c.web
    BY DEF ToolPlaces, O!Named
  <2>3. j \in WebPlaces(calls) <=> c.web /\ O!IsWeb(c)
    BY DEF WebPlaces
  <2> HIDE DEF i, c
  <2>4. O!IsWeb(c) <=> O!IsWeb(b.output[i])
    BY <2>1 DEF OnIs, O!IsWeb
  <2>5. c.name # "" /\ (c.web <=> O!IsWeb(b.output[i]))
    BY <2>1 DEF OnIs
  <2>6. (c.name # "" /\ ~ c.web <=> i \in ToolItems(b)) /\ (c.web /\ O!IsWeb(c) <=> i \in WebItems(b))
    BY <2>1, <2>4, <2>5 DEF ToolItems, WebItems
  <2> QED BY <2>2, <2>3, <2>6 DEF i
<1>4. ToolItems(b) \subseteq OnItems(b)
  BY DEF ToolItems, OnItems
<1>5. WebItems(b) \subseteq OnItems(b)
  <2>1. \A i \in WebItems(b) : i \in DOMAIN b.output /\ O!NameOf(b.output[i]) = "web_search_call"
    BY OnBody DEF WebItems
  <2> QED BY <2>1 DEF OnItems
<1>6. ToolPlaces(calls) \subseteq DOMAIN calls /\ WebPlaces(calls) \subseteq DOMAIN calls
  BY DEF ToolPlaces, WebPlaces, O!Named
<1>7. OnLists(b, ToolItems(b), k, O!KeyedCalls(calls, ToolPlaces(calls)))
  BY <1>3, <1>4, <1>6, OnKeyed DEF P
<1>8. OnLists(b, WebItems(b), k, O!KeyedCalls(calls, WebPlaces(calls)))
  BY <1>3, <1>5, <1>6, OnKeyed DEF P
<1> QED BY <1>7, <1>8

----------------------------------------------------------------------------
(* The parser between two items and within one.                            *)
OnBegun(p) == OnShape(p) /\ p.chat = << >> /\ p.result.error = ""

OnAfter(b, k, p) ==
  OnBegun(p) /\ OnPlaced(b, p.calls, k) /\ OnLists(b, WebItems(b), k, p.result.web)

OnDrafted(b, k, calls) ==
  \E c, e : OnPlaced(b, c, k) /\ Extended(c, e, calls) /\ OnDraft(b, e, k + 1)

OnWithin(b, k, p) ==
  IF k + 1 \in OnItems(b) THEN OnBegun(p) /\ OnDrafted(b, k, p.calls) ELSE OnAfter(b, k, p)

\* Other calls, and the lists that follow from them.
OnRelisted(calls, r) == OnBegun(r) /\ r.calls = calls

LEMMA OnSynced ==
  ASSUME NEW p, OnBegun(p), NEW calls, Sequence(calls)
  PROVE  LET q == [p EXCEPT !.calls = calls]
             r == O!SyncWebRequests(O!SyncToolCalls(q))
         IN  /\ OnRelisted(calls, O!SyncToolCalls(q))
             /\ OnRelisted(calls, O!SyncWebRequests(q))
             /\ OnRelisted(calls, r)
             /\ r.result.web = O!KeyedCalls(calls, WebPlaces(calls))
<1> DEFINE q == [p EXCEPT !.calls = calls]
           v == O!SyncToolCalls(q)
           u == O!SyncWebRequests(q)
           r == O!SyncWebRequests(v)
           web == O!KeyedCalls(v.calls, WebPlaces(v.calls))
<1>1. OnShape(q) /\ q.calls = calls /\ q.chat = << >> /\ q.result.error = ""
  BY DEF OnBegun, OnShape
<1> HIDE DEF q
<1>2. Sequence(q.calls) /\ Sequence(q.chat)
  BY <1>1, EmptySequence
<1>3. OnShape(v) /\ v.calls = q.calls /\ v.chat = q.chat /\ v.result.error = q.result.error
  BY <1>1, <1>2, OnToolsListed
<1>4. OnShape(u) /\ u.calls = q.calls /\ u.chat = q.chat /\ u.result.error = q.result.error
  BY <1>1, <1>2, OnWebListed
<1>5. r = [v EXCEPT !.result.web = web]
  BY DEF O!SyncWebRequests, WebPlaces
<1> HIDE DEF u, v, web, r
<1>6. Sequence(v.calls)
  BY <1>2, <1>3
<1>7. LET s == O!SyncWebRequests(v)
      IN  OnShape(s) /\ s.calls = v.calls /\ s.chat = v.chat /\ s.result.error = v.result.error
  BY <1>3, <1>6, OnWebListed
<1>8. OnShape(r) /\ r.calls = v.calls /\ r.chat = v.chat /\ r.result.error = v.result.error
  BY <1>7 DEF r
<1>9. r.result.web = web
  BY <1>3, <1>5 DEF OnShape, ResultFields
<1>10. v.calls = calls
  BY <1>1, <1>3
<1>11. web = O!KeyedCalls(calls, WebPlaces(calls))
  BY <1>10 DEF web
<1>12. OnRelisted(calls, v) /\ OnRelisted(calls, u) /\ OnRelisted(calls, r)
  BY <1>1, <1>3, <1>4, <1>8 DEF OnRelisted, OnBegun
<1> QED BY <1>9, <1>11, <1>12 DEF q, v, u, r

----------------------------------------------------------------------------
(* The events of an item.                                                  *)
OnRenewed(old, item) ==
  LET fresh == item.given /\ item.input # << >>
      bare  == ~ item.given /\ O!Input(old) = << >>
  IN [old EXCEPT !.id      = O!First(item.id, old.id, ""),
                 !.callId  = O!First(item.callId, old.callId, ""),
                 !.type    = O!First(item.type, old.type, ""),
                 !.name    = O!NameOf(item),
                 !.web     = O!IsWeb(item),
                 !.input   = IF fresh THEN item.input ELSE IF bare THEN O!Raw ELSE old.input,
                 !.partial = IF fresh THEN << >> ELSE old.partial]

OnTakes(b, i, old, item, new) ==
  /\ OnIs(b, new, i)
  /\ item.given /\ item.input # << >> => new.input = item.input /\ new.partial = << >>
  /\ ~ item.given /\ O!Input(old) = << >> => new.input = O!Raw /\ new.partial = old.partial
  /\ ~ (item.given /\ item.input # << >>) /\ ~ (~ item.given /\ O!Input(old) = << >>)
       => new.input = old.input /\ new.partial = old.partial

LEMMA OnRenews ==
  ASSUME NEW b, OnWell(b), NEW i \in OnItems(b), NEW item, O!SameItem(item, b.output[i]),
         item.given \in BOOLEAN, NEW old,
         OnBlank(old, item.id, item.callId, i - 1) \/ OnIs(b, old, i)
  PROVE  OnTakes(b, i, old, item, OnRenewed(old, item))
<1> DEFINE fresh == item.given /\ item.input # << >>
           bare  == ~ item.given /\ O!Input(old) = << >>
           input == IF fresh THEN item.input ELSE IF bare THEN O!Raw ELSE old.input
           part  == IF fresh THEN << >> ELSE old.partial
           name  == O!NameOf(item)
           web   == O!IsWeb(item)
           new   == [old EXCEPT !.id      = O!First(item.id, old.id, ""),
                                !.callId  = O!First(item.callId, old.callId, ""),
                                !.type    = O!First(item.type, old.type, ""),
                                !.name    = name,
                                !.web     = web,
                                !.input   = input,
                                !.partial = part]
           t     == b.output[i]
<1>1. OnRenewed(old, item) = new
  BY DEF OnRenewed
<1>2. /\ item.id = t.id /\ item.callId = t.callId /\ item.type = t.type /\ name = O!NameOf(t)
      /\ web = O!IsWeb(t)
  BY DEF O!SameItem, O!NameOf, O!IsWeb
<1>3. DOMAIN old = OnCallFields /\ old.index = i - 1
  BY DEF OnBlank, OnIs
<1>4. /\ old.id \in {t.id, O!Key(t)}
      /\ old.callId = t.callId
      /\ old.type \in {"", t.type}
  BY <1>2 DEF OnBlank, OnIs
<1> HIDE DEF input, part, name, web
<1>5. /\ DOMAIN new = OnCallFields /\ new.index = old.index
      /\ new.id = O!First(item.id, old.id, "")
      /\ new.callId = O!First(item.callId, old.callId, "")
      /\ new.type = O!First(item.type, old.type, "")
      /\ new.name = name /\ new.web = web /\ new.input = input /\ new.partial = part
  BY <1>3 DEF OnCallFields
<1> HIDE DEF new
<1>6. new.id \in {t.id, O!Key(t)} /\ new.callId = t.callId /\ new.type = t.type
  BY <1>2, <1>4, <1>5 DEF O!First
<1>7. OnIs(b, new, i)
  BY <1>2, <1>3, <1>5, <1>6 DEF OnIs
<1>8. OnTakes(b, i, old, item, new)
  BY <1>5, <1>7 DEF OnTakes, input, part
<1> QED BY <1>1, <1>8

LEMMA OnMerging ==
  ASSUME NEW p, NEW item, NEW index
  PROVE  LET s == O!Slot(p.calls, item.id, item.callId, index)
             i == O!At(s, item.id, item.callId, index)
             calls == [s EXCEPT ![i] = OnRenewed(s[i], item)]
         IN  O!MergeItem(p, item, index) =
               IF O!NameOf(item) = "" THEN p
               ELSE O!SyncWebRequests(O!SyncToolCalls([p EXCEPT !.calls = calls]))
  BY DEF O!MergeItem, OnRenewed

LEMMA OnIndex == \A k \in Nat : (k + 1) - 1 = k /\ k # O!Absent
  BY DEF O!Absent

LEMMA OnAdded ==
  ASSUME NEW b, OnWell(b), NEW k \in Nat, k < Len(b.output), NEW p, OnAfter(b, k, p),
         NEW item, O!SameItem(item, b.output[k + 1]), item.given \in BOOLEAN, item.input = << >>,
         O!IsWeb(b.output[k + 1]) => ~ item.given
  PROVE  OnWithin(b, k, O!MergeItem(p, item, k))
<1> DEFINE s     == O!Slot(p.calls, item.id, item.callId, k)
           i     == O!At(s, item.id, item.callId, k)
           old   == s[i]
           new   == OnRenewed(old, item)
           calls == [s EXCEPT ![i] = new]
           q     == O!MergeItem(p, item, k)
<1>1. k + 1 \in DOMAIN b.output
  BY OnPlacesNext
<1>2. O!NameOf(item) = O!NameOf(b.output[k + 1]) /\ GoesBy(b, k + 1, item.id, item.callId, k)
  BY OnIndex DEF O!SameItem, O!NameOf, GoesBy, O!IsPlace
<1>3. q = IF O!NameOf(item) = "" THEN p
          ELSE O!SyncWebRequests(O!SyncToolCalls([p EXCEPT !.calls = calls]))
  BY OnMerging
<1> HIDE DEF q
<1>4. CASE k + 1 \notin OnItems(b)
  BY <1>1, <1>2, <1>3, <1>4 DEF OnItems, OnWithin, q
<1>5. CASE k + 1 \in OnItems(b)
  <2>1. OnBegun(p) /\ OnPlaced(b, p.calls, k) /\ Sequence(p.calls)
    BY DEF OnAfter, OnPlaced
  <2>2. OnAdds(p.calls, item.id, item.callId, k)
    BY <1>2, <2>1, OnNew, OnIndex
  <2>3. PICK c : Extended(p.calls, c, s) /\ OnBlank(c, item.id, item.callId, k)
    BY <2>2 DEF OnAdds
  <2>4. i = Len(p.calls) + 1
    BY <2>2 DEF OnAdds
  <2> HIDE DEF s, i
  <2>5. old = c
    BY <2>3, <2>4 DEF Extended
  <2> HIDE DEF old
  <2>6. OnBlank(old, item.id, item.callId, (k + 1) - 1)
    BY <2>3, <2>5, OnIndex
  <2>7. OnTakes(b, k + 1, old, item, new)
    BY <1>5, <2>6, OnRenews
  <2>8. OnDraft(b, new, k + 1)
    <3>1. O!Input(old) = << >> /\ old.partial = << >>
      BY <2>6 DEF OnBlank, O!Input
    <3> QED BY <2>7, <3>1 DEF OnDraft, OnTakes
  <2> HIDE DEF new
  <2>9. Extended(p.calls, new, calls)
    BY <2>1, <2>3, <2>4, ExtendedAnew
  <2> HIDE DEF calls
  <2>10. OnDrafted(b, k, calls)
    BY <2>1, <2>8, <2>9 DEF OnDrafted
  <2>11. Sequence(calls)
    BY <2>9 DEF Extended
  <2> DEFINE r == O!SyncWebRequests(O!SyncToolCalls([p EXCEPT !.calls = calls]))
  <2>12. OnRelisted(calls, r)
    BY <2>1, <2>11, OnSynced
  <2>13. q = r
    BY <1>1, <1>2, <1>3, <1>5 DEF OnItems
  <2> HIDE DEF r
  <2>14. OnWithin(b, k, q)
    BY <1>5, <2>10, <2>12, <2>13 DEF OnRelisted, OnWithin
  <2> QED BY <2>14 DEF q
<1> QED BY <1>4, <1>5

\* The item as a whole.
LEMMA OnDone ==
  ASSUME NEW b, OnWell(b), NEW k \in Nat, k < Len(b.output), NEW p, OnWithin(b, k, p)
  PROVE  OnAfter(b, k + 1, O!MergeItem(p, b.output[k + 1], k))
<1> DEFINE item  == b.output[k + 1]
           s     == O!Slot(p.calls, item.id, item.callId, k)
           i     == O!At(s, item.id, item.callId, k)
           old   == s[i]
           new   == OnRenewed(old, item)
           calls == [s EXCEPT ![i] = new]
           q     == O!MergeItem(p, item, k)
<1>1. k + 1 \in DOMAIN b.output /\ k + 1 \in 0..Len(b.output) /\ k \in 0..Len(b.output)
  BY OnPlacesNext
<1>2. GoesBy(b, k + 1, item.id, item.callId, k) /\ O!SameItem(item, b.output[k + 1])
  BY OnIndex DEF O!SameItem, GoesBy, O!IsPlace
<1>3. q = IF O!NameOf(item) = "" THEN p
          ELSE O!SyncWebRequests(O!SyncToolCalls([p EXCEPT !.calls = calls]))
  BY OnMerging
<1> HIDE DEF q
<1>4. CASE k + 1 \notin OnItems(b)
  <2>1. q = p /\ OnAfter(b, k, p)
    BY <1>1, <1>3, <1>4 DEF OnItems, OnWithin
  <2>2. OnPlaced(b, p.calls, k + 1)
    BY <1>4, <2>1, OnPlacedNext DEF OnAfter
  <2>3. k + 1 \notin WebItems(b)
    <3>1. O!IsWeb(b.output[k + 1]) => O!NameOf(b.output[k + 1]) = "web_search_call"
      BY <1>1, OnBody
    <3> QED BY <1>1, <1>4, <3>1 DEF OnItems, WebItems
  <2>4. OnPlaces(b, WebItems(b), k + 1) = OnPlaces(b, WebItems(b), k)
    BY <2>3, OnPlacesNext
  <2>5. OnLists(b, WebItems(b), k + 1, p.result.web)
    BY <2>1, <2>4 DEF OnAfter, OnLists
  <2>6. OnAfter(b, k + 1, q)
    BY <2>1, <2>2, <2>5 DEF OnAfter
  <2> QED BY <2>6 DEF q
<1>5. CASE k + 1 \in OnItems(b)
  <2>1. OnBegun(p) /\ OnDrafted(b, k, p.calls)
    BY <1>5 DEF OnWithin
  <2>2. PICK c, e : OnPlaced(b, c, k) /\ Extended(c, e, p.calls) /\ OnDraft(b, e, k + 1)
    BY <2>1 DEF OnDrafted
  <2>3. OnIs(b, e, k + 1) /\ Sequence(c)
    BY <2>2 DEF OnDraft, OnPlaced
  <2> HIDE DEF item
  <2>4. OnFinds(c, e, p.calls, item.id, item.callId, k)
    BY <1>2, <2>2, <2>3, OnOwn, OnIndex
  <2>5. s = p.calls /\ i = Len(c) + 1
    BY <2>4 DEF OnFinds
  <2> HIDE DEF s, i
  <2>6. old = e
    BY <2>2, <2>5 DEF Extended
  <2> HIDE DEF old
  <2>7. item.given \in BOOLEAN
    BY <1>1, OnBody DEF item
  <2>8. OnTakes(b, k + 1, old, item, new)
    BY <1>2, <1>5, <2>3, <2>6, <2>7, OnRenews
  <2> HIDE DEF new
  <2>9. OnStands(b, new, k + 1)
    <3>1. ~ item.given => item.input = << >>
      BY <1>1, OnBody DEF item
    <3>2. O!IsWeb(item) => old.input = O!Raw /\ old.partial = << >>
      BY <2>2, <2>6 DEF OnDraft, item
    <3>3. OnIs(b, new, k + 1)
      BY <2>8 DEF OnTakes
    <3>4. CASE item.given /\ item.input # << >>
      <4>1. O!Input(new) = item.input /\ OnInputOf(item) = item.input
        BY <2>8, <3>4 DEF OnTakes, O!Input, OnInputOf
      <4> QED BY <3>3, <4>1 DEF OnStands, item
    <3>5. CASE OnInputOf(item) = << >>
      BY <3>3, <3>5 DEF OnStands, item
    <3>6. CASE O!IsWeb(item) /\ ~ item.given
      <4>1. O!Input(old) = O!Raw /\ O!Raw # << >>
        BY <3>2, <3>6 DEF O!Input, O!Raw
      <4>2. new.input = O!Raw /\ new.partial = << >>
        BY <2>8, <3>2, <3>6, <4>1 DEF OnTakes
      <4>3. O!Input(new) = OnInputOf(item)
        BY <3>6, <4>2 DEF O!Input, OnInputOf
      <4> QED BY <3>3, <4>3 DEF OnStands, item
    <3> QED BY <3>1, <3>4, <3>5, <3>6 DEF OnInputOf
  <2>10. Extended(c, new, calls)
    BY <2>2, <2>3, <2>5, ExtendedAnew
  <2> HIDE DEF calls
  <2>11. OnPlaced(b, calls, k + 1)
    BY <1>5, <2>2, <2>9, <2>10, OnPlacedNext
  <2>12. Sequence(calls)
    BY <2>10 DEF Extended
  <2> DEFINE r == O!SyncWebRequests(O!SyncToolCalls([p EXCEPT !.calls = calls]))
  <2>13. OnRelisted(calls, r) /\ r.result.web = O!KeyedCalls(calls, WebPlaces(calls))
    BY <2>1, <2>12, OnSynced
  <2>14. q = r
    BY <1>1, <1>3, <1>5 DEF OnItems, item
  <2> HIDE DEF r
  <2>15. OnLists(b, WebItems(b), k + 1, O!KeyedCalls(calls, WebPlaces(calls)))
    BY <1>1, <2>11, OnListsOf
  <2>16. OnAfter(b, k + 1, q)
    BY <2>11, <2>13, <2>14, <2>15 DEF OnRelisted, OnAfter
  <2> QED BY <2>16 DEF q, item
<1> QED BY <1>4, <1>5

\* An item of a web search.
LEMMA OnSearchItem ==
  ASSUME NEW b, OnWell(b), NEW i \in DOMAIN b.output, O!IsWeb(b.output[i])
  PROVE  O!NameOf(b.output[i]) = "web_search_call" /\ b.output[i].id # ""
  BY OnBody

----------------------------------------------------------------------------
(* What comes between the announcement of an item and its end.             *)
LEMMA OnContinued ==
  ASSUME NEW b, OnWell(b), NEW k \in Nat, k < Len(b.output), k + 1 \in OnItems(b),
         NEW p, OnWithin(b, k, p),
         NEW event, event.id = b.output[k + 1].id, event.index = k
  PROVE  /\ O!IsWeb(b.output[k + 1]) /\ event.action = << >>
              => OnWithin(b, k, O!MergeWebEvent(p, event))
         /\ ~ O!IsWeb(b.output[k + 1])
              => OnWithin(b, k, O!AppendInput(p, event)) /\ OnWithin(b, k, O!SetInput(p, event))
<1> DEFINE item == b.output[k + 1]
           s    == O!Slot(p.calls, event.id, "", event.index)
           i    == O!At(s, event.id, "", event.index)
           old  == s[i]
           true == TRUE
           input  == O!First(event.action, O!First(old.input, O!Raw, << >>), << >>)
           search == [old EXCEPT !.id = event.id, !.type = "web_search_call",
                                 !.name = "web_search_call", !.web = true,
                                 !.input = input, !.partial = << >>]
           longer == [old EXCEPT !.partial = Append(old.partial, event.fragment)]
           whole  == [old EXCEPT !.input = event.input, !.partial = << >>]
           With(c) == [p EXCEPT !.calls = [s EXCEPT ![i] = c]]
           q == With(search)
           r == With(longer)
           t == With(whole)
<1>1. /\ O!MergeWebEvent(p, event) = IF event.id = "" THEN p ELSE O!SyncWebRequests(q)
      /\ O!AppendInput(p, event) = IF old.web THEN O!SyncWebRequests(r) ELSE O!SyncToolCalls(r)
      /\ O!SetInput(p, event) = IF old.web THEN O!SyncWebRequests(t) ELSE O!SyncToolCalls(t)
  <2>1. O!MergeWebEvent(p, event) = IF event.id = "" THEN p ELSE O!SyncWebRequests(q)
    BY DEF O!MergeWebEvent
  <2>2. O!AppendInput(p, event) = IF old.web THEN O!SyncWebRequests(r) ELSE O!SyncToolCalls(r)
    BY DEF O!AppendInput, O!ChangeInput
  <2>3. O!SetInput(p, event) = IF old.web THEN O!SyncWebRequests(t) ELSE O!SyncToolCalls(t)
    BY DEF O!SetInput, O!ChangeInput
  <2> QED BY <2>1, <2>2, <2>3
<1>2. GoesBy(b, k + 1, event.id, "", event.index)
  BY OnIndex DEF GoesBy, O!IsPlace
<1>3. k + 1 \in DOMAIN b.output
  BY OnPlacesNext
<1>4. OnBegun(p) /\ OnDrafted(b, k, p.calls)
  BY DEF OnWithin
<1>5. PICK c, e : OnPlaced(b, c, k) /\ Extended(c, e, p.calls) /\ OnDraft(b, e, k + 1)
  BY <1>4 DEF OnDrafted
<1>6. OnIs(b, e, k + 1) /\ Sequence(c)
  BY <1>5 DEF OnDraft, OnPlaced
<1>7. OnFinds(c, e, p.calls, event.id, "", event.index)
  <2>1. event.index = k /\ event.index # O!Absent
    BY OnIndex
  <2> QED BY <1>2, <1>5, <1>6, <2>1, OnOwn
<1>8. s = p.calls /\ i = Len(c) + 1
  BY <1>7 DEF OnFinds
<1> HIDE DEF s, i
<1>9. old = e
  BY <1>5, <1>8 DEF Extended
<1>10. ASSUME NEW f, OnDraft(b, f, k + 1)
       PROVE  /\ OnWithin(b, k, O!SyncWebRequests(With(f)))
              /\ OnWithin(b, k, O!SyncToolCalls(With(f)))
  <2> DEFINE calls == [s EXCEPT ![i] = f]
  <2>1. Extended(c, f, calls)
    BY <1>5, <1>6, <1>8, ExtendedAnew
  <2> HIDE DEF calls
  <2>2. OnDrafted(b, k, calls)
    BY <1>5, <1>10, <2>1 DEF OnDrafted
  <2>3. Sequence(calls)
    BY <2>1 DEF Extended
  <2> DEFINE u == [p EXCEPT !.calls = calls]
  <2>4. OnRelisted(calls, O!SyncWebRequests(u)) /\ OnRelisted(calls, O!SyncToolCalls(u))
    BY <1>4, <2>3, OnSynced
  <2> HIDE DEF u
  <2>5. OnWithin(b, k, O!SyncWebRequests(u)) /\ OnWithin(b, k, O!SyncToolCalls(u))
    BY <2>2, <2>4 DEF OnRelisted, OnWithin
  <2> QED BY <2>5 DEF u, calls
<1> HIDE DEF old
<1>11. OnDraft(b, old, k + 1)
  BY <1>5, <1>9
<1>12. ASSUME O!IsWeb(item), event.action = << >>
       PROVE  OnWithin(b, k, O!MergeWebEvent(p, event))
  <2>0. O!IsWeb(item) = TRUE
    BY <1>12 DEF O!IsWeb
  <2>1. /\ item.type = "web_search_call" /\ O!NameOf(item) = "web_search_call"
        /\ item.id # "" /\ true = O!IsWeb(item)
    <3>1. item.type = "web_search_call"
      BY <1>12 DEF O!IsWeb
    <3>2. O!NameOf(item) = "web_search_call" /\ item.id # ""
      BY <1>3, <1>12, OnSearchItem
    <3>3. true = O!IsWeb(item)
      BY <2>0
    <3> QED BY <3>1, <3>2, <3>3
  <2>2. input = O!Raw
    BY <1>11, <1>12 DEF OnDraft, O!First, O!Raw
  <2> HIDE DEF input, true
  <2>3. OnIs(b, old, k + 1)
    BY <1>11 DEF OnDraft
  <2>4. /\ DOMAIN search = OnCallFields /\ search.index = old.index /\ search.callId = old.callId
        /\ search.id = event.id /\ search.type = "web_search_call"
        /\ search.name = "web_search_call" /\ search.web = true
        /\ search.input = input /\ search.partial = << >>
    BY <2>3 DEF OnIs, OnCallFields
  <2> HIDE DEF search
  <2>5. OnIs(b, search, k + 1)
    BY <2>1, <2>3, <2>4 DEF OnIs
  <2>6. OnDraft(b, search, k + 1)
    BY <2>2, <2>4, <2>5 DEF OnDraft
  <2> QED BY <1>1, <1>10, <2>1, <2>6
<1>13. ASSUME ~ O!IsWeb(item)
       PROVE  OnWithin(b, k, O!AppendInput(p, event)) /\ OnWithin(b, k, O!SetInput(p, event))
  <2>1. OnIs(b, old, k + 1)
    BY <1>11 DEF OnDraft
  <2>2. DOMAIN old = OnCallFields
    BY <2>1 DEF OnIs
  <2>3. SameBut(old, longer) /\ SameBut(old, whole)
    BY <2>2 DEF SameBut, OnCallFields
  <2> HIDE DEF longer, whole
  <2>4. OnIs(b, longer, k + 1) /\ OnIs(b, whole, k + 1)
    BY <2>1, <2>3 DEF SameBut, OnIs
  <2>5. OnDraft(b, longer, k + 1) /\ OnDraft(b, whole, k + 1)
    BY <1>13, <2>4 DEF OnDraft
  <2> QED BY <1>1, <1>10, <2>5
<1> QED BY <1>12, <1>13

----------------------------------------------------------------------------
(* The events of an item, one group.                                       *)
OnAnnounces(item, index, e) ==
  /\ DOMAIN e = {"type", "item", "index"}
  /\ e.type = "response.output_item.added"
  /\ e.index = index
  /\ O!SameItem(e.item, item)
  /\ e.item.given \in BOOLEAN /\ e.item.input = << >>
  /\ O!IsWeb(item) => ~ e.item.given

OnFills(item, index, e) ==
  /\ {"type", "id", "index"} \subseteq DOMAIN e /\ "depth" \notin DOMAIN e
  /\ e.id = item.id /\ e.index = index
  /\ IF O!IsWeb(item)
     THEN "action" \in DOMAIN e /\ e.type = "response.web_search_call" /\ e.action = << >>
     ELSE e.type \in {"arguments.delta", "arguments.done"}

OnEndsItem(item, index, e) ==
  /\ DOMAIN e = {"type", "item", "index"}
  /\ e.type = "response.output_item.done"
  /\ e.index = index
  /\ e.item = item

OnGroup(item, index, g) ==
  /\ Sequence(g) /\ 1 < Len(g)
  /\ OnAnnounces(item, index, g[1])
  /\ \A z \in 1..Len(g) : 1 < z /\ z < Len(g) =>
       OnFills(item, index, g[z]) /\ O!NameOf(item) # ""
  /\ OnEndsItem(item, index, g[Len(g)])

LEMMA FourOf ==
  ASSUME NEW a, NEW b, NEW c, NEW d
  PROVE  /\ Sequence(<<a, b, c, d>>) /\ Len(<<a, b, c, d>>) = 4
         /\ <<a, b, c, d>>[1] = a /\ <<a, b, c, d>>[2] = b
         /\ <<a, b, c, d>>[3] = c /\ <<a, b, c, d>>[4] = d
<1>1. <<a, b, c, d>> \in Seq({a, b, c, d})
  OBVIOUS
<1> QED BY <1>1 DEF Sequence

LEMMA MiddlePlaces ==
  /\ 1 \in 1..1 /\ 1 \in 1..2 /\ 2 \in 1..2 /\ 1 < 4
  /\ \A z \in 1..4 : 1 < z /\ z < 4 => z = 2 \/ z = 3
  /\ \A m \in Nat : /\ 1 \in 1..(m + 1) /\ 1 < m + 3
                    /\ (1 + m) + 1 = m + 2 /\ (1 + m) + 2 = m + 3 /\ 1 + m = m + 1
  /\ \A m \in Nat : \A z \in 1..(m + 3) : 1 < z /\ z < m + 3 =>
       z = m + 2 \/ (z - 1 \in 1..m /\ 1 + (z - 1) = z /\ z \in 1..(m + 1))
<1>1. \A z \in 1..4 : 1 < z /\ z < 4 => z = 2 \/ z = 3
  OBVIOUS
<1>2. \A m \in Nat : /\ 1 \in 1..(m + 1) /\ 1 < m + 3
                    /\ (1 + m) + 1 = m + 2 /\ (1 + m) + 2 = m + 3 /\ 1 + m = m + 1
  OBVIOUS
<1>3. ASSUME NEW m \in Nat, NEW z \in 1..(m + 3), 1 < z, z < m + 3
      PROVE  z = m + 2 \/ (z - 1 \in 1..m /\ 1 + (z - 1) = z /\ z \in 1..(m + 1))
  BY <1>3
<1>4. 1 \in 1..1 /\ 1 \in 1..2 /\ 2 \in 1..2 /\ 1 < 4
  OBVIOUS
<1> QED BY <1>1, <1>2, <1>3, <1>4, Zenon

LEMMA OnSearched ==
  ASSUME NEW item, NEW index, O!IsWeb(item), O!NameOf(item) # "",
         NEW a, OnAnnounces(item, index, a), NEW s, OnFills(item, index, s),
         NEW d, OnEndsItem(item, index, d)
  PROVE  OnGroup(item, index, <<a, s, s, d>>)
<1> DEFINE g == <<a, s, s, d>>
<1>1. Sequence(g) /\ Len(g) = 4 /\ g[1] = a /\ g[2] = s /\ g[3] = s /\ g[4] = d
  BY FourOf
<1> HIDE DEF g
<1>2. /\ Sequence(g) /\ 1 < Len(g) /\ OnEndsItem(item, index, g[Len(g)])
      /\ OnAnnounces(item, index, g[1])
  <2>1. OnAnnounces(item, index, g[1])
    BY <1>1, Zenon
  <2>2. OnEndsItem(item, index, g[4])
    BY <1>1, Zenon
  <2> DEFINE l == Len(g)
  <2>3. l = 4
    BY <1>1
  <2> HIDE DEF l
  <2>4. OnEndsItem(item, index, g[l]) /\ 1 < l
    BY <2>2, <2>3, MiddlePlaces, Zenon
  <2> QED BY <1>1, <2>1, <2>4, Zenon DEF l
<1>3. \A z \in 1..Len(g) : 1 < z /\ z < Len(g) => g[z] = s
  <2> DEFINE l == Len(g)
  <2>1. l = 4
    BY <1>1
  <2> HIDE DEF l
  <2>2. ASSUME NEW z \in 1..l, 1 < z, z < l PROVE g[z] = s
    <3>1. z \in 1..4 /\ 1 < z /\ z < 4
      BY <2>1, <2>2, Zenon
    <3>2. z = 2 \/ z = 3
      BY <3>1, MiddlePlaces, Zenon
    <3> QED BY <1>1, <3>2, Zenon
  <2> QED BY <2>2, Zenon DEF l
<1>4. OnGroup(item, index, g)
  BY <1>2, <1>3 DEF OnGroup
<1> QED BY <1>4 DEF g

LEMMA OnBrief ==
  ASSUME NEW item, NEW index, NEW a, OnAnnounces(item, index, a), NEW d, OnEndsItem(item, index, d)
  PROVE  OnGroup(item, index, <<a, d>>)
<1> DEFINE g == <<a, d>>
<1>1. Sequence(g) /\ Len(g) = 2 /\ g[1] = a /\ g[2] = d
  BY OneOrTwo
<1> HIDE DEF g
<1>2. \A z \in 1..2 : ~ (1 < z /\ z < 2)
  OBVIOUS
<1>3. OnGroup(item, index, g)
  BY <1>1, <1>2 DEF OnGroup
<1> QED BY <1>3 DEF g

LEMMA OnStreamed ==
  ASSUME NEW item, NEW index, ~ O!IsWeb(item), O!NameOf(item) # "",
         NEW a, OnAnnounces(item, index, a),
         NEW f, Sequence(f), \A z \in DOMAIN f : OnFills(item, index, f[z]),
         NEW w, OnFills(item, index, w), NEW d, OnEndsItem(item, index, d)
  PROVE  OnGroup(item, index, (<<a>> \o f) \o <<w, d>>)
<1> DEFINE h == <<a>> \o f
           g == h \o <<w, d>>
           l == Len(f)
<1>1. /\ Sequence(<<a>>) /\ Len(<<a>>) = 1 /\ DOMAIN <<a>> = 1..1 /\ <<a>>[1] = a
      /\ Sequence(<<w, d>>) /\ Len(<<w, d>>) = 2 /\ DOMAIN <<w, d>> = 1..2
      /\ <<w, d>>[1] = w /\ <<w, d>>[2] = d
  BY OneOrTwo
<1>2. Spliced(<<a>>, f, h)
  BY <1>1, ConcatSplices
<1>3. l \in Nat /\ DOMAIN f = 1..l
  BY SequenceIs
<1> HIDE DEF h
<1>4. Sequence(h) /\ Len(h) = 1 + l
  BY <1>1, <1>2 DEF Spliced
<1>5. Spliced(h, <<w, d>>, g)
  BY <1>1, <1>4, ConcatSplices
<1> HIDE DEF g, l
<1>0. 1 \in 1..1 /\ 1 \in 1..2 /\ 2 \in 1..2
  BY MiddlePlaces, Zenon
<1>7. /\ 1 \in 1..(l + 1) /\ 1 < l + 3
      /\ (1 + l) + 1 = l + 2 /\ (1 + l) + 2 = l + 3 /\ 1 + l = l + 1
  BY <1>3, MiddlePlaces
<1>6. Sequence(g) /\ Len(g) = l + 3 /\ DOMAIN h = 1..(l + 1)
  <2>1. Sequence(g) /\ Len(g) = Len(h) + 2
    BY <1>1, <1>5 DEF Spliced
  <2>2. DOMAIN h = 1..Len(h)
    BY <1>4, SequenceIs
  <2> QED BY <1>4, <1>7, <2>1, <2>2
<1>8. g[1] = a
  <2>1. h[1] = a
    BY <1>0, <1>1, <1>2 DEF Spliced
  <2>2. 1 \in DOMAIN h
    BY <1>3, <1>6, <1>7
  <2> QED BY <1>5, <2>1, <2>2 DEF Spliced
<1>9. g[l + 2] = w /\ g[l + 3] = d
  <2>1. g[(1 + l) + 1] = w /\ g[(1 + l) + 2] = d
    BY <1>0, <1>1, <1>4, <1>5 DEF Spliced
  <2> QED BY <1>3, <1>7, <2>1
<1>10. ASSUME NEW z \in 1..(l + 3), 1 < z, z < l + 3 PROVE OnFills(item, index, g[z])
  <2>1. CASE z = l + 2
    BY <1>9, <2>1
  <2>2. CASE z - 1 \in 1..l /\ 1 + (z - 1) = z /\ z \in 1..(l + 1)
    <3> DEFINE y == z - 1
    <3>1. y \in DOMAIN f /\ 1 + y = z /\ z \in DOMAIN h
      BY <1>3, <1>6, <2>2
    <3> HIDE DEF y
    <3>2. h[1 + y] = f[y]
      BY <1>1, <1>2, <3>1 DEF Spliced
    <3>3. g[z] = f[y]
      BY <1>5, <3>1, <3>2 DEF Spliced
    <3> QED BY <3>1, <3>3
  <2>3. z = l + 2 \/ (z - 1 \in 1..l /\ 1 + (z - 1) = z /\ z \in 1..(l + 1))
    BY <1>3, <1>10, MiddlePlaces
  <2> QED BY <2>1, <2>2, <2>3
<1>11. 1 < l + 3
  BY <1>3, <1>7
<1>12. OnGroup(item, index, g)
  BY <1>6, <1>8, <1>9, <1>10, <1>11 DEF OnGroup
<1> QED BY <1>12 DEF g, h

\* The events of an item are such a group.
LEMMA OnItemEvents ==
  ASSUME NEW b, OnWell(b), NEW i \in DOMAIN b.output
  PROVE  OnGroup(b.output[i], i - 1, O!ItemEvents(b.output[i], i - 1))
<1> DEFINE item == b.output[i]
           index == i - 1
           no == FALSE
           bare == [item EXCEPT !.input = << >>, !.given = no]
           same == [item EXCEPT !.input = << >>]
           Added(x) == [type |-> "response.output_item.added", item |-> x, index |-> index]
           first == Added(bare)
           begun == Added(same)
           done == [type |-> "response.output_item.done", item |-> item, index |-> index]
           search == [type |-> "response.web_search_call", id |-> item.id, index |-> index,
                      action |-> << >>]
           f == [z \in DOMAIN item.input |->
                   [type |-> "arguments.delta", id |-> item.id, index |-> index,
                    fragment |-> item.input[z]]]
           whole == [type |-> "arguments.done", id |-> item.id, index |-> index,
                     input |-> item.input]
           g == O!ItemEvents(item, index)
<1>1. /\ O!IsWeb(item) => g = <<first, search, search, done>>
      /\ ~ O!IsWeb(item) /\ item.type = "function_call" => g = (<<begun>> \o f) \o <<whole, done>>
      /\ ~ O!IsWeb(item) /\ item.type # "function_call" => g = <<first, done>>
  <2> DEFINE kind == item.type
  <2>1. g = CASE O!IsWeb(item) -> <<first, search, search, done>>
              [] kind = "function_call" -> (<<begun>> \o f) \o <<whole, done>>
              [] OTHER -> <<first, done>>
    BY DEF O!ItemEvents
  <2>2. O!IsWeb(item) <=> kind = "web_search_call"
    BY DEF O!IsWeb
  <2> HIDE DEF g, first, search, done, begun, f, whole, kind
  <2>3. /\ O!IsWeb(item) => g = <<first, search, search, done>>
        /\ ~ O!IsWeb(item) /\ kind = "function_call" => g = (<<begun>> \o f) \o <<whole, done>>
        /\ ~ O!IsWeb(item) /\ kind # "function_call" => g = <<first, done>>
    BY <2>1, <2>2
  <2> QED BY <2>3 DEF kind
<1>2. /\ DOMAIN item = {"type", "id", "callId", "name", "given", "input"}
      /\ item.given \in BOOLEAN /\ Sequence(item.input)
      /\ O!IsWeb(item) => O!NameOf(item) = "web_search_call"
  BY OnBody
<1>3. O!IsWeb(item) => O!NameOf(item) # ""
  BY <1>2
<1> HIDE DEF item, index
<1>4. ~ no /\ no \in BOOLEAN
  OBVIOUS
<1> HIDE DEF no
<1>5. O!SameItem(bare, item) /\ bare.input = << >> /\ bare.given = no
  BY <1>2 DEF O!SameItem
<1>6. O!SameItem(same, item) /\ same.input = << >> /\ same.given = item.given
  BY <1>2 DEF O!SameItem
<1> HIDE DEF bare, same
<1>7. OnAnnounces(item, index, first)
  BY <1>4, <1>5 DEF OnAnnounces
<1>8. ~ O!IsWeb(item) => OnAnnounces(item, index, begun)
  BY <1>2, <1>6 DEF OnAnnounces
<1>9. OnEndsItem(item, index, done)
  BY DEF OnEndsItem
<1>10. O!IsWeb(item) => OnFills(item, index, search)
  <2>1. /\ DOMAIN search = {"type", "id", "index", "action"} /\ search.type = "response.web_search_call"
        /\ search.id = item.id /\ search.index = index /\ search.action = << >>
    OBVIOUS
  <2> HIDE DEF search
  <2> QED BY <2>1 DEF OnFills
<1>11. ~ O!IsWeb(item) => OnFills(item, index, whole)
  <2>1. /\ DOMAIN whole = {"type", "id", "index", "input"} /\ whole.type = "arguments.done"
        /\ whole.id = item.id /\ whole.index = index
    OBVIOUS
  <2> HIDE DEF whole
  <2> QED BY <2>1 DEF OnFills
<1>12. f = [z \in DOMAIN item.input |-> f[z]] /\ DOMAIN f = DOMAIN item.input
  OBVIOUS
<1>13. ~ O!IsWeb(item) => \A z \in DOMAIN f : OnFills(item, index, f[z])
  <2> SUFFICES ASSUME ~ O!IsWeb(item), NEW z \in DOMAIN f PROVE OnFills(item, index, f[z])
    OBVIOUS
  <2> DEFINE d == f[z]
  <2>1. /\ DOMAIN d = {"type", "id", "index", "fragment"} /\ d.type = "arguments.delta"
        /\ d.id = item.id /\ d.index = index
    OBVIOUS
  <2> HIDE DEF d
  <2>2. OnFills(item, index, d)
    BY <2>1 DEF OnFills
  <2> QED BY <2>2 DEF d
<1> HIDE DEF first, begun, done, search, whole, f, g
<1>14. Sequence(f)
  BY <1>2, <1>12, SequenceLike
<1>15. CASE O!IsWeb(item)
  <2>1. g = <<first, search, search, done>>
    BY <1>1, <1>15
  <2>2. OnGroup(item, index, <<first, search, search, done>>)
    BY <1>3, <1>7, <1>9, <1>10, <1>15, OnSearched
  <2> QED BY <2>1, <2>2 DEF g, item, index
<1>16. CASE ~ O!IsWeb(item) /\ item.type = "function_call"
  <2>1. g = (<<begun>> \o f) \o <<whole, done>>
    BY <1>1, <1>16
  <2>2. O!NameOf(item) # ""
    BY <1>16 DEF O!NameOf, O!ToolTypes
  <2>3. OnGroup(item, index, (<<begun>> \o f) \o <<whole, done>>)
    BY <1>8, <1>9, <1>11, <1>13, <1>14, <1>16, <2>2, OnStreamed
  <2> QED BY <2>1, <2>3 DEF g, item, index
<1>17. CASE ~ O!IsWeb(item) /\ item.type # "function_call"
  <2>1. g = <<first, done>>
    BY <1>1, <1>17
  <2>2. OnGroup(item, index, <<first, done>>)
    BY <1>7, <1>9, OnBrief
  <2> QED BY <2>1, <2>2 DEF g, item, index
<1> QED BY <1>15, <1>16, <1>17

OnGroups(b) == [i \in DOMAIN b.output |-> O!ItemEvents(b.output[i], i - 1)]

LEMMA OnGroupsAre ==
  ASSUME NEW b, OnWell(b)
  PROVE  /\ Groups(OnGroups(b)) /\ Len(OnGroups(b)) = Len(b.output)
         /\ \A i \in DOMAIN b.output : OnGroup(b.output[i], i - 1, OnGroups(b)[i])
<1> DEFINE G == OnGroups(b)
<1>1. Sequence(b.output) /\ Len(b.output) \in Nat /\ DOMAIN b.output = 1..Len(b.output)
  BY OnBody
<1>2. G = [i \in DOMAIN b.output |-> G[i]] /\ DOMAIN G = DOMAIN b.output
  BY DEF OnGroups
<1>3. ASSUME NEW i \in DOMAIN b.output PROVE OnGroup(b.output[i], i - 1, G[i])
  <2>1. G[i] = O!ItemEvents(b.output[i], i - 1)
    BY DEF OnGroups
  <2>2. OnGroup(b.output[i], i - 1, O!ItemEvents(b.output[i], i - 1))
    BY OnItemEvents
  <2> QED BY <2>1, <2>2
<1> HIDE DEF G
<1>4. Sequence(G)
  BY <1>1, <1>2, SequenceLike
<1>5. Len(G) = Len(b.output)
  <2>1. DOMAIN G = 1..Len(G) /\ Len(G) \in Nat
    BY <1>4, SequenceIs
  <2> QED BY <1>1, <1>2, <2>1, SameLength
<1>6. \A i \in DOMAIN G : Sequence(G[i]) /\ Len(G[i]) > 0
  <2> SUFFICES ASSUME NEW i \in DOMAIN G PROVE Sequence(G[i]) /\ Len(G[i]) > 0
    OBVIOUS
  <2>1. Sequence(G[i]) /\ 1 < Len(G[i])
    BY <1>2, <1>3 DEF OnGroup
  <2>2. Len(G[i]) \in Nat
    BY <2>1, SequenceIs
  <2> QED BY <2>1, <2>2
<1>7. Groups(G)
  BY <1>4, <1>6 DEF Groups
<1> QED BY <1>2, <1>3, <1>5, <1>7 DEF G

----------------------------------------------------------------------------
(* The parser when the events have come that FlatAt tells.                 *)
OnIn(b, k, j, p) == IF j = 0 THEN OnAfter(b, k, p) ELSE OnWithin(b, k, p)

LEMMA OnItemHandled ==
  ASSUME NEW p, NEW e, NEW w, Like(e, w)
  PROVE  /\ "item" \in DOMAIN e /\ "index" \in DOMAIN e /\ "type" \in DOMAIN e
              /\ e.type \in {"response.output_item.added", "response.output_item.done"}
              => O!HandleInner(p, w) = O!MergeItem(p, e.item, e.index)
         /\ "type" \in DOMAIN e /\ e.type = "response.web_search_call"
              => O!HandleInner(p, w) = O!MergeWebEvent(p, w)
         /\ "type" \in DOMAIN e /\ e.type \in {"arguments.delta", "arguments.done"}
              => O!HandleInner(p, w) \in {O!AppendInput(p, w), O!SetInput(p, w)}
<1>1. "type" \in DOMAIN e => w.type = e.type
  BY DEF Like
<1>2. ASSUME "item" \in DOMAIN e, "index" \in DOMAIN e, "type" \in DOMAIN e,
             e.type \in {"response.output_item.added", "response.output_item.done"}
      PROVE  O!HandleInner(p, w) = O!MergeItem(p, e.item, e.index)
  <2>1. w.item = e.item /\ w.index = e.index
    BY <1>2 DEF Like
  <2>2. O!HandleInner(p, w) = O!MergeItem(p, w.item, w.index)
    BY <1>1, <1>2 DEF O!HandleInner
  <2> QED BY <2>1, <2>2
<1>3. ASSUME "type" \in DOMAIN e, e.type = "response.web_search_call"
      PROVE  O!HandleInner(p, w) = O!MergeWebEvent(p, w)
  BY <1>1, <1>3 DEF O!HandleInner
<1>4. ASSUME "type" \in DOMAIN e, e.type \in {"arguments.delta", "arguments.done"}
      PROVE  O!HandleInner(p, w) \in {O!AppendInput(p, w), O!SetInput(p, w)}
  BY <1>1, <1>4 DEF O!HandleInner
<1> QED BY <1>2, <1>3, <1>4

LEMMA OnItemStep ==
  ASSUME NEW b, OnWell(b), NEW m \in Nat, m < Len(FlattenSeq(OnGroups(b))),
         NEW k, NEW j, FlatAt(OnGroups(b), m, k, j), NEW p, OnIn(b, k, j, p),
         NEW w, Like(FlattenSeq(OnGroups(b))[m + 1], w)
  PROVE  \E i, z : FlatAt(OnGroups(b), m + 1, i, z) /\ OnIn(b, i, z, O!HandleInner(p, w))
<1> DEFINE G == OnGroups(b)
           g == G[k + 1]
           e == FlattenSeq(G)[m + 1]
           item == b.output[k + 1]
           q == O!HandleInner(p, w)
<1>1. Groups(G) /\ Len(G) = Len(b.output)
  BY OnGroupsAre
<1>2. FlatStep(G, m, k, j)
  BY <1>1, FlatNext
<1>3. /\ k < Len(G) /\ k + 1 \in DOMAIN G /\ j + 1 \in DOMAIN g /\ e = g[j + 1]
      /\ IF j + 1 < Len(g) THEN FlatAt(G, m + 1, k, j + 1)
         ELSE j + 1 = Len(g) /\ FlatAt(G, m + 1, k + 1, 0)
  BY <1>2 DEF FlatStep
<1>4. k \in Nat /\ j \in Nat
  BY DEF FlatAt
<1>5. k < Len(b.output) /\ k + 1 \in DOMAIN b.output
  BY <1>1, <1>3, <1>4, OnPlacesNext
<1>6. OnGroup(item, k, g)
  <2>1. OnGroup(item, (k + 1) - 1, g)
    BY <1>5, OnGroupsAre
  <2> QED BY <1>4, <2>1, OnIndex
<1>7. DOMAIN g = 1..Len(g) /\ Len(g) \in Nat
  BY <1>6, SequenceIs DEF OnGroup
<1>8. Like(e, w)
  OBVIOUS
<1> SUFFICES \E i, z : FlatAt(G, m + 1, i, z) /\ OnIn(b, i, z, q)
  OBVIOUS
<1> HIDE DEF G, g, e, item, q
<1>9. CASE j = 0
  <2>1. j + 1 = 1 /\ 1 < Len(g)
    <3>1. 1 < Len(g)
      BY <1>6 DEF OnGroup
    <3>2. j + 1 = 1
      BY <1>9
    <3> QED BY <3>1, <3>2
  <2>2. OnAnnounces(item, k, e)
    BY <1>3, <1>6, <2>1 DEF OnGroup
  <2>3. q = O!MergeItem(p, e.item, e.index) /\ e.index = k
    <3>1. /\ "item" \in DOMAIN e /\ "index" \in DOMAIN e /\ "type" \in DOMAIN e
          /\ e.type \in {"response.output_item.added", "response.output_item.done"}
          /\ e.index = k
      BY <2>2 DEF OnAnnounces
    <3> QED BY <1>8, <3>1, OnItemHandled DEF q
  <2>4. OnAfter(b, k, p)
    BY <1>9 DEF OnIn
  <2> DEFINE x == e.item
  <2>5. /\ O!SameItem(x, item) /\ x.given \in BOOLEAN /\ x.input = << >>
        /\ O!IsWeb(item) => ~ x.given
    BY <2>2 DEF OnAnnounces
  <2> HIDE DEF x
  <2>6. OnWithin(b, k, O!MergeItem(p, x, k))
    BY <1>4, <1>5, <2>4, <2>5, OnAdded DEF item
  <2>7. OnWithin(b, k, q)
    BY <2>3, <2>6 DEF x
  <2>8. OnIn(b, k, 1, q)
    BY <2>7 DEF OnIn
  <2>9. FlatAt(G, m + 1, k, 1)
    BY <1>3, <2>1
  <2> QED BY <2>8, <2>9
<1>10. CASE j # 0 /\ j + 1 < Len(g)
  <2>1. 1 < j + 1 /\ j + 1 \in 1..Len(g) /\ j + 1 # 0
    BY <1>3, <1>4, <1>7, <1>10
  <2>2. OnFills(item, k, e) /\ O!NameOf(item) # ""
    BY <1>3, <1>6, <1>10, <2>1 DEF OnGroup
  <2>3. OnWithin(b, k, p)
    BY <1>10 DEF OnIn
  <2>4. k + 1 \in OnItems(b)
    BY <1>5, <2>2 DEF OnItems, item
  <2>5. /\ "type" \in DOMAIN e /\ "id" \in DOMAIN e /\ "index" \in DOMAIN e
        /\ e.id = item.id /\ e.index = k
    BY <2>2 DEF OnFills
  <2>6. w.id = item.id /\ w.index = k
    BY <1>8, <2>5 DEF Like
  <2>7. /\ O!IsWeb(item) /\ w.action = << >> => OnWithin(b, k, O!MergeWebEvent(p, w))
        /\ ~ O!IsWeb(item) => OnWithin(b, k, O!AppendInput(p, w)) /\ OnWithin(b, k, O!SetInput(p, w))
    BY <1>4, <1>5, <2>3, <2>4, <2>6, OnContinued DEF item
  <2>8. CASE O!IsWeb(item)
    <3>1. e.type = "response.web_search_call" /\ "action" \in DOMAIN e /\ e.action = << >>
      BY <2>2, <2>8 DEF OnFills
    <3>2. w.action = << >>
      BY <1>8, <3>1 DEF Like
    <3>3. q = O!MergeWebEvent(p, w)
      BY <1>8, <2>5, <3>1, OnItemHandled DEF q
    <3>4. OnIn(b, k, j + 1, q)
      BY <2>1, <2>7, <2>8, <3>2, <3>3 DEF OnIn
    <3> QED BY <1>3, <1>10, <3>4
  <2>9. CASE ~ O!IsWeb(item)
    <3>1. e.type \in {"arguments.delta", "arguments.done"}
      BY <2>2, <2>9 DEF OnFills
    <3>2. q \in {O!AppendInput(p, w), O!SetInput(p, w)}
      BY <1>8, <2>5, <3>1, OnItemHandled DEF q
    <3>3. OnWithin(b, k, q)
      BY <2>7, <2>9, <3>2
    <3>4. OnIn(b, k, j + 1, q)
      BY <2>1, <3>3 DEF OnIn
    <3> QED BY <1>3, <1>10, <3>4
  <2> QED BY <2>8, <2>9
<1>11. CASE j # 0 /\ ~ (j + 1 < Len(g))
  <2>1. j + 1 = Len(g) /\ FlatAt(G, m + 1, k + 1, 0)
    BY <1>3, <1>11
  <2>2. OnEndsItem(item, k, e)
    BY <1>3, <1>6, <2>1 DEF OnGroup
  <2>3. q = O!MergeItem(p, item, k)
    <3>1. /\ "item" \in DOMAIN e /\ "index" \in DOMAIN e /\ "type" \in DOMAIN e
          /\ e.type \in {"response.output_item.added", "response.output_item.done"}
          /\ e.index = k /\ e.item = item
      BY <2>2 DEF OnEndsItem
    <3>2. q = O!MergeItem(p, e.item, e.index)
      BY <1>8, <3>1, OnItemHandled DEF q
    <3> QED BY <3>1, <3>2
  <2>4. OnWithin(b, k, p)
    BY <1>11 DEF OnIn
  <2>5. OnAfter(b, k + 1, O!MergeItem(p, b.output[k + 1], k))
    BY <1>4, <1>5, <2>4, OnDone
  <2>6. OnIn(b, k + 1, 0, q)
    BY <2>3, <2>5 DEF OnIn, item
  <2> QED BY <2>1, <2>6
<1> QED BY <1>9, <1>10, <1>11

----------------------------------------------------------------------------
(* What the body lists of itself.                                          *)
LEMMA PlacesAll ==
  ASSUME NEW n \in Nat, NEW N, NEW k \in 0..n, NEW i \in 1..k, i \in N
  PROVE  \E j \in DOMAIN PlacesUpto(n, N, k) : PlacesUpto(n, N, k)[j] = i
<1> DEFINE h == i - 1
           P == PlacesUpto(n, N, h)
           Q == PlacesUpto(n, N, i)
           R == PlacesUpto(n, N, k)
<1>1. h \in Nat /\ h < n /\ h + 1 = i /\ h \in 0..n /\ i \in 0..n /\ k \in i..n
  OBVIOUS
<1>2. PlacesUpto(n, N, h + 1) = IF h + 1 \in N THEN Append(P, h + 1) ELSE P
  BY <1>1, PlacesStep
<1> HIDE DEF h
<1>3. Q = Append(P, i)
  BY <1>1, <1>2
<1>4. Sequence(P)
  BY <1>1, PlacesAre
<1>5. Begins(Q, R)
  BY <1>1, PlacesGrow
<1>6. Sequence(Q) /\ Sequence(R)
  BY <1>1, PlacesAre
<1> HIDE DEF P, Q, R
<1>7. Extended(P, i, Q)
  BY <1>3, <1>4, AppendExtends
<1> DEFINE j == Len(P) + 1
<1>8. j \in DOMAIN Q /\ Q[j] = i
  BY <1>7 DEF Extended
<1> HIDE DEF j
<1>9. j \in 1..Len(Q) /\ DOMAIN R = 1..Len(R) /\ Len(Q) \in Nat /\ Len(R) \in Nat
  BY <1>6, <1>8, SequenceIs
<1>10. Len(Q) <= Len(R) /\ R[j] = Q[j]
  BY <1>5, <1>9 DEF Begins
<1>11. j \in DOMAIN R
  BY <1>9, <1>10
<1> QED BY <1>8, <1>10, <1>11 DEF R

OnExact(b, I, t) ==
  /\ Sequence(t)
  /\ Len(t) = Len(OnPlaces(b, I, Len(b.output)))
  /\ \A m \in DOMAIN t :
       LET i == OnPlaces(b, I, Len(b.output))[m]
       IN  /\ i \in I
           /\ t[m].id = O!Key(b.output[i])
           /\ t[m].name = O!NameOf(b.output[i])
           /\ t[m].input = OnInputOf(b.output[i])

LEMMA OnListsExact ==
  ASSUME NEW b, OnWell(b)
  PROVE  /\ OnExact(b, ToolItems(b), O!OutputCalls(b.output))
         /\ OnExact(b, WebItems(b), O!OutputWebRequests(b.output))
<1> DEFINE items == b.output
           n == Len(items)
           Gives(u, t) == /\ DOMAIN t = DOMAIN u
                          /\ t = [m \in DOMAIN u |-> t[m]]
<1>1. Sequence(items) /\ n \in Nat
  BY OnBody
<1>2. ASSUME NEW I, NEW u, u = O!Selected(items, I), NEW t, Gives(u, t)
      PROVE  LET Q == OnPlaces(b, I, n)
             IN  /\ Sequence(t) /\ Len(t) = Len(Q)
                 /\ \A m \in DOMAIN t : u[m] = items[Q[m]] /\ Q[m] \in I
  <2> DEFINE Q == PlacesUpto(n, I, n)
             v == A!Selected(items, I)
  <2>1. u = v
    BY <1>1, <1>2, SelectedIs
  <2>2. AtPlaces(items, v, Q)
    BY <1>1, SelectedAtPlaces
  <2>3. Sequence(Q) /\ \A j \in DOMAIN Q : Q[j] \in 1..n /\ Q[j] \in I
    <3>1. n \in 0..n
      BY <1>1
    <3> QED BY <1>1, <3>1, PlacesAre
  <2> HIDE DEF Q, v
  <2>4. Sequence(u) /\ Len(u) = Len(Q) /\ \A m \in DOMAIN u : u[m] = items[Q[m]]
    BY <2>1, <2>2 DEF AtPlaces
  <2>5. Sequence(t)
    BY <1>2, <2>4, SequenceLike
  <2>6. /\ DOMAIN t = 1..Len(t) /\ Len(t) \in Nat /\ DOMAIN u = 1..Len(u) /\ Len(u) \in Nat
        /\ DOMAIN Q = 1..Len(Q)
    BY <2>3, <2>4, <2>5, SequenceIs
  <2>7. Len(t) = Len(u) /\ DOMAIN Q = DOMAIN t
    BY <1>2, <2>4, <2>6, SameLength
  <2>8. OnPlaces(b, I, n) = Q
    BY DEF OnPlaces, Q
  <2> QED BY <1>2, <2>3, <2>4, <2>5, <2>7, <2>8
<1>3. OnExact(b, ToolItems(b), O!OutputCalls(b.output))
  <2> DEFINE I == ToolItems(b)
             u == O!Selected(items, I)
             t == O!OutputCalls(items)
             Q == OnPlaces(b, I, n)
  <2>1. t = [i \in DOMAIN u |-> O!Call(O!Key(u[i]), O!NameOf(u[i]), u[i].input)]
    BY DEF O!OutputCalls, ToolItems
  <2> HIDE DEF u, t
  <2>2. Gives(u, t)
    BY <2>1
  <2>3. \A m \in DOMAIN t : /\ t[m].id = O!Key(u[m]) /\ t[m].name = O!NameOf(u[m])
                            /\ t[m].input = u[m].input
    BY <2>1 DEF O!Call
  <2>4. Sequence(t) /\ Len(t) = Len(Q) /\ \A m \in DOMAIN t : u[m] = items[Q[m]] /\ Q[m] \in I
    BY <1>2, <2>2 DEF u
  <2> HIDE DEF Q
  <2>5. \A i \in I : OnInputOf(items[i]) = items[i].input
    BY DEF ToolItems, OnInputOf
  <2> HIDE DEF I
  <2>6. OnExact(b, I, t)
    BY <2>3, <2>4, <2>5 DEF OnExact, Q
  <2> QED BY <2>6 DEF I, t
<1>4. OnExact(b, WebItems(b), O!OutputWebRequests(b.output))
  <2> DEFINE I == WebItems(b)
             u == O!Selected(items, I)
             t == O!OutputWebRequests(items)
             Q == OnPlaces(b, I, n)
  <2>1. t = [i \in DOMAIN u |-> O!Call(O!Key(u[i]), "web_search_call",
                                       IF u[i].given THEN u[i].input ELSE O!Raw)]
    BY DEF O!OutputWebRequests, WebItems
  <2> HIDE DEF u, t
  <2>2. Gives(u, t)
    BY <2>1
  <2>3. \A m \in DOMAIN t : /\ t[m].id = O!Key(u[m]) /\ t[m].name = "web_search_call"
                            /\ t[m].input = IF u[m].given THEN u[m].input ELSE O!Raw
    BY <2>1 DEF O!Call
  <2>4. Sequence(t) /\ Len(t) = Len(Q) /\ \A m \in DOMAIN t : u[m] = items[Q[m]] /\ Q[m] \in I
    BY <1>2, <2>2 DEF u
  <2> HIDE DEF Q
  <2>5. \A i \in I : /\ OnInputOf(items[i]) = IF items[i].given THEN items[i].input ELSE O!Raw
                     /\ O!NameOf(items[i]) = "web_search_call"
    BY OnBody DEF WebItems, OnInputOf
  <2> HIDE DEF I
  <2>6. OnExact(b, I, t)
    BY <2>3, <2>4, <2>5 DEF OnExact, Q
  <2> QED BY <2>6 DEF I, t
<1> QED BY <1>3, <1>4

LEMMA OnExactLists ==
  ASSUME NEW b, OnWell(b), NEW I, NEW r, OnExact(b, I, r)
  PROVE  /\ OnLists(b, I, Len(b.output), r)
         /\ \A t : OnLists(b, I, Len(b.output), t) => SameCalls(t, r)
<1> DEFINE Q == OnPlaces(b, I, Len(b.output))
<1>1. /\ Sequence(r) /\ Len(r) = Len(Q)
      /\ \A m \in DOMAIN r : /\ r[m].id = O!Key(b.output[Q[m]])
                             /\ r[m].name = O!NameOf(b.output[Q[m]])
                             /\ r[m].input = OnInputOf(b.output[Q[m]])
  BY DEF OnExact
<1>2. OnLists(b, I, Len(b.output), r)
  BY <1>1 DEF OnLists, OnEntry
<1>3. ASSUME NEW t, OnLists(b, I, Len(b.output), t) PROVE SameCalls(t, r)
  <2>1. Sequence(t) /\ Len(t) = Len(Q) /\ \A m \in DOMAIN t : OnEntry(b.output[Q[m]], t[m])
    BY <1>3 DEF OnLists
  <2> HIDE DEF Q
  <2>2. Len(t) = Len(r) /\ DOMAIN t = DOMAIN r
    BY <1>1, <2>1, SequenceIs
  <2> QED BY <1>1, <2>1, <2>2 DEF SameCalls, OnEntry
<1> QED BY <1>2, <1>3

LEMMA NothingListed == O!OutputCalls(<< >>) = << >> /\ O!OutputWebRequests(<< >>) = << >>
<1>1. ASSUME NEW I PROVE O!Selected(<< >>, I) = << >>
  <2>1. Len(<< >>) = 0
    BY EmptySequence
  <2>2. PICK g : TakesUpto(<< >>, I, Len(<< >>), g) /\ A!Selected(<< >>, I) = g[Len(<< >>)]
    BY EmptySequence, SelectedIs
  <2>3. g[0] = << >>
    BY <2>1, <2>2 DEF TakesUpto
  <2>4. A!Selected(<< >>, I) = O!Selected(<< >>, I)
    BY EmptySequence, SelectedIs
  <2> QED BY <2>1, <2>2, <2>3, <2>4
<1> DEFINE e == << >>
<1>2. DOMAIN e = {}
  OBVIOUS
<1>3. ASSUME NEW f, DOMAIN f = {}, f = [x \in {} |-> f[x]] PROVE f = << >>
  BY <1>3
<1>4. O!OutputCalls(<< >>) = << >>
  <2> DEFINE t == O!OutputCalls(<< >>)
             u == O!Selected(<< >>, {i \in DOMAIN << >> : ~ O!IsWeb(<< >>[i]) /\ O!NameOf(<< >>[i]) # ""})
  <2>1. t = [i \in DOMAIN u |-> O!Call(O!Key(u[i]), O!NameOf(u[i]), u[i].input)]
    BY DEF O!OutputCalls
  <2>2. u = << >>
    BY <1>1
  <2> HIDE DEF t, u
  <2>3. DOMAIN t = {} /\ t = [x \in {} |-> t[x]]
    BY <1>2, <2>1, <2>2
  <2> QED BY <1>3, <2>3 DEF t
<1>5. O!OutputWebRequests(<< >>) = << >>
  <2> DEFINE t == O!OutputWebRequests(<< >>)
             u == O!Selected(<< >>, {i \in DOMAIN << >> : O!IsWeb(<< >>[i])})
  <2>1. t = [i \in DOMAIN u |-> O!Call(O!Key(u[i]), "web_search_call",
                                       IF u[i].given THEN u[i].input ELSE O!Raw)]
    BY DEF O!OutputWebRequests
  <2>2. u = << >>
    BY <1>1
  <2> HIDE DEF t, u
  <2>3. DOMAIN t = {} /\ t = [x \in {} |-> t[x]]
    BY <1>2, <2>1, <2>2
  <2> QED BY <1>3, <2>3 DEF t
<1> QED BY <1>4, <1>5

----------------------------------------------------------------------------
(* The calls of the final response are those that the stream had.          *)
OnFinal(b, call) ==
  \E k \in ToolItems(b) :
    /\ call.id = O!Key(b.output[k])
    /\ call.name = O!NameOf(b.output[k])
    /\ call.input = OnInputOf(b.output[k])

LEMMA UpToItself == \A n \in Nat : n \in 0..n
  OBVIOUS

OnAllPlaced(b, calls) == OnPlaced(b, calls, Len(b.output))

LEMMA OnCompletedPlaced ==
  ASSUME NEW b, OnWell(b), NEW calls, OnAllPlaced(b, calls), NEW call, OnFinal(b, call)
  PROVE  OnAllPlaced(b, O!MergeCompletedCall(calls, call))
<1> DEFINE s     == O!Slot(calls, call.id, "", O!Absent)
           i     == O!At(calls, call.id, "", O!Absent)
           old   == calls[i]
           id    == O!First(call.id, old.id, "")
           input == O!First(call.input, old.input, << >>)
           part  == IF call.input = << >> THEN old.partial ELSE << >>
           new   == [old EXCEPT !.id = id, !.name = call.name, !.input = input, !.partial = part]
           next  == [calls EXCEPT ![i] = new]
           n     == Len(b.output)
           P     == OnPlaces(b, OnItems(b), n)
<1>1. PICK k \in ToolItems(b) : /\ call.id = O!Key(b.output[k])
                                /\ call.name = O!NameOf(b.output[k])
                                /\ call.input = OnInputOf(b.output[k])
  BY DEF OnFinal
<1> DEFINE item == b.output[k]
<1>2. k \in DOMAIN b.output /\ k \in OnItems(b) /\ ~ O!IsWeb(item)
  BY DEF ToolItems, OnItems
<1>3. /\ n \in Nat /\ DOMAIN b.output = 1..n /\ n \in 0..n
      /\ O!Key(item) # ""
  <2>1. n \in Nat /\ DOMAIN b.output = 1..n /\ O!Key(item) # ""
    BY <1>2, OnBody
  <2> QED BY <2>1, UpToItself
<1>4. Sequence(calls) /\ Len(calls) = Len(P) /\ \A j \in DOMAIN calls : OnStands(b, calls[j], P[j])
  BY DEF OnAllPlaced, OnPlaced
<1>5. \A j \in DOMAIN calls : P[j] \in 1..n /\ P[j] \in OnItems(b)
  BY <1>3, OnPlacedAre DEF OnAllPlaced
<1>6. \E j \in DOMAIN calls : P[j] = k
  <2> DEFINE N == OnItems(b)
             h == n
  <2>1. n \in Nat /\ h \in 0..n /\ k \in 1..h /\ k \in N
    BY <1>2, <1>3
  <2> HIDE DEF N, h, P, n
  <2>2. \E j \in DOMAIN PlacesUpto(n, N, h) : PlacesUpto(n, N, h)[j] = k
    BY <2>1, PlacesAll
  <2>3. \E j \in DOMAIN P : P[j] = k
    BY <2>2 DEF P, N, h, n, OnPlaces
  <2>4. Sequence(P)
    BY <1>3, OnPlacesAre DEF P, n
  <2>5. DOMAIN P = DOMAIN calls
    BY <1>4, <2>4, SequenceIs
  <2> QED BY <2>3, <2>5
<1> HIDE DEF P, n
<1>7. O!Key(item) = IF item.callId # "" THEN item.callId ELSE item.id
  BY DEF O!Key, O!First
<1>8. \E j \in DOMAIN calls : O!Matches(calls[j], call.id, "", O!Absent)
  <2>1. PICK j \in DOMAIN calls : P[j] = k
    BY <1>6
  <2> DEFINE c == calls[j]
  <2>2. OnIs(b, c, k)
    BY <1>4, <2>1 DEF OnStands
  <2> HIDE DEF c
  <2>3. c.id \in {item.id, O!Key(item)} /\ c.callId = item.callId
    BY <2>2 DEF OnIs
  <2>4. O!Matches(c, call.id, "", O!Absent)
    BY <1>1, <1>3, <1>7, <2>3 DEF O!Matches
  <2> QED BY <2>4 DEF c
<1>9. s = calls
  BY <1>8 DEF O!Slot
<1>10. i \in DOMAIN calls /\ O!Matches(calls[i], call.id, "", O!Absent)
  BY <1>4, <1>8, OnAt
<1>11. O!MergeCompletedCall(calls, call) = next
  <2> DEFINE r == O!MergeCompletedCall(calls, call)
             z == O!At(s, call.id, "", O!Absent)
  <2>1. r = [s EXCEPT ![z] = [s[z] EXCEPT !.id = O!First(call.id, s[z].id, ""),
                                          !.name = call.name,
                                          !.input = O!First(call.input, s[z].input, << >>),
                                          !.partial = IF call.input = << >> THEN s[z].partial
                                                      ELSE << >>]]
    BY DEF O!MergeCompletedCall
  <2> HIDE DEF r, s
  <2> QED BY <1>9, <2>1 DEF r
<1>12. GoesBy(b, k, call.id, "", O!Absent)
  BY <1>1, <1>7 DEF GoesBy, O!IsPlace
<1> HIDE DEF s, i
<1>13. OnIs(b, old, P[i]) /\ OnStands(b, old, P[i])
  BY <1>4, <1>10 DEF OnStands
<1> DEFINE l == P[i]
<1>14. l = k
  <2>1. l \in OnItems(b) /\ OnIs(b, old, l) /\ O!Matches(old, call.id, "", O!Absent)
    BY <1>5, <1>10, <1>13
  <2> HIDE DEF l, old
  <2> QED BY <1>2, <1>12, <2>1, OnSameIs
<1>15. OnIs(b, old, k)
  BY <1>13, <1>14
<1> HIDE DEF l, old, id, input, part
<1>16. DOMAIN old = OnCallFields
  BY <1>15 DEF OnIs
<1>17. /\ DOMAIN new = OnCallFields /\ new.index = old.index /\ new.callId = old.callId
       /\ new.id = id /\ new.type = old.type /\ new.web = old.web
       /\ new.name = call.name /\ new.input = input /\ new.partial = part
  BY <1>16 DEF OnCallFields
<1> HIDE DEF new
<1>18. id = O!Key(item)
  BY <1>1, <1>3 DEF id, O!First
<1>19. OnIs(b, new, k)
  BY <1>1, <1>15, <1>17, <1>18 DEF OnIs
<1>20. OnStands(b, new, k)
  <2> SUFFICES ASSUME OnInputOf(item) # << >> PROVE O!Input(new) = OnInputOf(item)
    BY <1>19 DEF OnStands
  <2>1. input = OnInputOf(item) /\ part = << >>
    BY <1>1 DEF input, part, O!First
  <2> QED BY <1>17, <2>1 DEF O!Input
<1>21. /\ Sequence(next) /\ Len(next) = Len(calls) /\ DOMAIN next = DOMAIN calls
       /\ \A j \in DOMAIN calls : next[j] = IF j = i THEN new ELSE calls[j]
  <2>1. Sequence(calls) /\ i \in DOMAIN calls
    BY <1>4, <1>10
  <2> QED BY <2>1, SequenceExcept, SequenceIs
<1>22. ASSUME NEW j \in DOMAIN next PROVE OnStands(b, next[j], P[j])
  <2>1. CASE j = i
    BY <1>10, <1>14, <1>20, <2>1 DEF l
  <2>2. CASE j # i
    BY <1>4, <1>21, <2>2
  <2> QED BY <2>1, <2>2
<1> HIDE DEF next
<1>23. OnAllPlaced(b, next)
  BY <1>4, <1>21, <1>22 DEF OnAllPlaced, OnPlaced, P, n
<1> QED BY <1>11, <1>23

LEMMA OnCompletedAll ==
  ASSUME NEW b, OnWell(b), NEW calls, OnAllPlaced(b, calls), NEW tools, Sequence(tools),
         \A i \in DOMAIN tools : OnFinal(b, tools[i]), NEW g,
         CallsUpto(calls, tools, Len(tools), g)
  PROVE  OnAllPlaced(b, g[Len(tools)])
<1>1. Len(tools) \in Nat /\ DOMAIN tools = 1..Len(tools)
  BY SequenceIs
<1>2. \A i \in 0..Len(tools) :
        g[i] = IF i = 0 THEN calls ELSE O!MergeCompletedCall(g[i - 1], tools[i])
  BY DEF CallsUpto
<1> DEFINE N == {n \in Nat : n <= Len(tools) => OnAllPlaced(b, g[n])}
<1>3. 0 \in N
  <2>1. g[0] = calls
    BY <1>1, <1>2
  <2> QED BY <2>1
<1>4. ASSUME NEW n \in Nat, n \in N PROVE n + 1 \in N
  <2> SUFFICES ASSUME n + 1 <= Len(tools) PROVE OnAllPlaced(b, g[n + 1])
    OBVIOUS
  <2> DEFINE m == n + 1
             c == g[n]
  <2>1. m \in 0..Len(tools) /\ m \in DOMAIN tools /\ m # 0 /\ m - 1 = n /\ n <= Len(tools)
    BY <1>1
  <2>2. OnAllPlaced(b, c)
    BY <1>4, <2>1
  <2> HIDE DEF m, N
  <2>3. g[m] = O!MergeCompletedCall(g[m - 1], tools[m])
    BY <1>2, <2>1
  <2>4. g[m] = O!MergeCompletedCall(c, tools[m])
    BY <2>1, <2>3, Zenon
  <2> HIDE DEF c
  <2>5. OnAllPlaced(b, g[m])
    BY <2>1, <2>2, <2>4, OnCompletedPlaced
  <2> QED BY <2>5 DEF m
<1> HIDE DEF N
<1>5. Nat \subseteq N
  BY <1>3, <1>4, NatSetInduction
<1> QED BY <1>1, <1>5 DEF N

\* Nothing comes to the web requests of the stream.
NoneNew(previous, incoming) ==
  \A m \in DOMAIN incoming : incoming[m].id # "" /\ incoming[m].id \in A!Ids(previous)

LEMMA NoneMerged ==
  ASSUME NEW previous, NEW incoming, Sequence(incoming), NoneNew(previous, incoming)
  PROVE  previous # << >> => O!MergeWebRequests(previous, incoming) = previous
<1>1. Len(incoming) \in Nat /\ DOMAIN incoming = 1..Len(incoming)
  BY SequenceIs
<1> DEFINE g == CHOOSE g : WebUpto(previous, incoming, Len(incoming), g)
<1>0. WebUpto(previous, incoming, Len(incoming), g)
  BY <1>1, WebExists
<1>2. O!MergeWebRequests(previous, incoming)
        = IF previous = << >> THEN incoming ELSE g[Len(incoming)]
  BY DEF O!MergeWebRequests, WebUpto
<1> HIDE DEF g
<1>3. \A i \in 0..Len(incoming) :
        g[i] = IF i = 0 THEN previous ELSE O!MergeWebRequest(g[i - 1], incoming[i])
  BY <1>0 DEF WebUpto
<1> DEFINE N == {n \in Nat : n <= Len(incoming) => g[n] = previous}
<1>4. 0 \in N
  <2>1. g[0] = previous
    BY <1>1, <1>3
  <2> QED BY <2>1
<1>5. ASSUME NEW n \in Nat, n \in N PROVE n + 1 \in N
  <2> SUFFICES ASSUME n + 1 <= Len(incoming) PROVE g[n + 1] = previous
    OBVIOUS
  <2> DEFINE m == n + 1
  <2>1. /\ m \in 0..Len(incoming) /\ m \in DOMAIN incoming /\ m # 0 /\ m - 1 = n
        /\ n <= Len(incoming)
    BY <1>1
  <2>2. g[n] = previous
    BY <1>5, <2>1
  <2> HIDE DEF m, N
  <2>3. g[m] = O!MergeWebRequest(g[m - 1], incoming[m])
    BY <1>3, <2>1
  <2>4. g[m] = O!MergeWebRequest(previous, incoming[m])
    BY <2>1, <2>2, <2>3, Zenon
  <2>5. incoming[m].id # "" /\ incoming[m].id \in O!Ids(previous)
    BY <2>1 DEF NoneNew, A!Ids, O!Ids
  <2>6. g[m] = previous
    BY <2>4, <2>5 DEF O!MergeWebRequest
  <2> QED BY <2>6 DEF m
<1> HIDE DEF N
<1>6. Nat \subseteq N
  BY <1>4, <1>5, NatSetInduction
<1> QED BY <1>1, <1>2, <1>6 DEF N

LEMMA OnWebKept ==
  ASSUME NEW b, OnWell(b), NEW t, OnLists(b, WebItems(b), Len(b.output), t), NEW s,
         s \in {O!OutputWebRequests(b.output), << >>}
  PROVE  OnLists(b, WebItems(b), Len(b.output), O!MergeWebRequests(t, s))
<1> DEFINE r == O!OutputWebRequests(b.output)
           I == WebItems(b)
           z == O!MergeWebRequests(t, s)
           Q == OnPlaces(b, I, Len(b.output))
<1>1. OnExact(b, I, r)
  BY OnListsExact
<1>2. OnLists(b, I, Len(b.output), r)
  BY <1>1, OnExactLists
<1>3. Sequence(t) /\ Len(t) = Len(Q) /\ \A m \in DOMAIN t : t[m].id = O!Key(b.output[Q[m]])
  BY DEF OnLists, OnEntry
<1>4. /\ Sequence(r) /\ Len(r) = Len(Q)
      /\ \A m \in DOMAIN r : Q[m] \in I /\ r[m].id = O!Key(b.output[Q[m]])
  BY <1>1 DEF OnExact
<1>5. \A i \in I : O!Key(b.output[i]) # ""
  BY OnBody DEF WebItems
<1> HIDE DEF r, Q, I
<1>6. DOMAIN t = DOMAIN r
  BY <1>3, <1>4, SequenceIs
<1>7. \A m \in DOMAIN r : r[m].id # "" /\ r[m].id \in A!Ids(t)
  BY <1>3, <1>4, <1>5, <1>6 DEF A!Ids
<1>8. Sequence(s) /\ NoneNew(t, s)
  <2>1. CASE s = << >>
    BY <2>1, EmptySequence DEF NoneNew
  <2>2. CASE s = r
    BY <1>4, <1>7, <2>2 DEF NoneNew
  <2> QED BY <2>1, <2>2 DEF r
<1>9. t # << >> => z = t
  BY <1>8, NoneMerged
<1>10. t = << >> => z = s
  BY DEF O!MergeWebRequests
<1> HIDE DEF z
<1>11. t # << >> => OnLists(b, I, Len(b.output), z)
  BY <1>9 DEF I
<1>12. t = << >> => OnLists(b, I, Len(b.output), z)
  <2> SUFFICES ASSUME t = << >> PROVE OnLists(b, I, Len(b.output), z)
    OBVIOUS
  <2>1. CASE s = << >>
    BY <1>10, <2>1 DEF I
  <2>2. CASE s = r
    BY <1>2, <1>10, <2>2 DEF I
  <2> QED BY <2>1, <2>2 DEF r
<1> QED BY <1>11, <1>12 DEF z, I

----------------------------------------------------------------------------
(* What the response, taken over, makes of the lists.                      *)
LEMMA ConcatNothing == ASSUME NEW s, Sequence(s) PROVE s \o << >> = s
<1> DEFINE e == << >>
           c == s \o e
<1>1. Sequence(e) /\ Len(e) = 0
  BY EmptySequence
<1> HIDE DEF e
<1>2. Spliced(s, e, c)
  BY <1>1, ConcatSplices
<1> HIDE DEF c
<1>3. Len(s) \in Nat /\ DOMAIN s = 1..Len(s)
  BY SequenceIs
<1>4. Sequence(c) /\ Len(c) = Len(s) /\ \A i \in 1..Len(s) : c[i] = s[i]
  BY <1>1, <1>2, <1>3 DEF Spliced
<1>5. c = s
  BY <1>4, SameSequence
<1> QED BY <1>5 DEF c, e

\* What the parser lists when there are no calls of a chat.
LEMMA OnToolsAlone ==
  ASSUME NEW p, OnShape(p), Sequence(p.calls), p.chat = << >>
  PROVE  LET q == O!SyncToolCalls(p)
         IN  /\ q.result.tools = O!KeyedCalls(p.calls, ToolPlaces(p.calls))
             /\ q.result.usage = p.result.usage
<1> DEFINE q == O!SyncToolCalls(p)
           s == O!KeyedCalls(p.calls, ToolPlaces(p.calls))
           view == [i \in DOMAIN p.chat |->
                      O!Call(p.chat[i].id, p.chat[i].name, p.chat[i].partial)]
           t == O!ChatCalls(view)
           tools == s \o t
<1>1. q = [p EXCEPT !.result.tools = tools]
  BY DEF O!SyncToolCalls, ToolPlaces
<1>2. view = << >>
  <2>1. DOMAIN view = {} /\ view = [i \in {} |-> view[i]]
    BY EmptySequence
  <2> HIDE DEF view
  <2> QED BY <2>1
<1>3. Sequence(s)
  BY KeyedIds DEF ToolPlaces, O!Named
<1> HIDE DEF s, view
<1>4. t = << >>
  BY <1>2, NoChatCalls
<1> HIDE DEF t
<1>5. tools = s
  BY <1>3, <1>4, ConcatNothing
<1> HIDE DEF tools
<1>6. q.result.tools = tools /\ q.result.usage = p.result.usage
  BY <1>1 DEF OnShape, ResultFields
<1> QED BY <1>5, <1>6 DEF s

\* The body and what is in its last event.
OnResponse(b, r) ==
  /\ r.id = b.id /\ r.usage = b.usage /\ r.error = b.error /\ r.chat = << >>
  /\ r.output \in {b.output, << >>}

OnWholeIs(b, c) ==
  /\ DOMAIN c = ResultFields
  /\ c.id = b.id
  /\ c.usage = O!ToUsage(b.usage)
  /\ Sequence(c.tools) /\ \A i \in DOMAIN c.tools : OnFinal(b, c.tools[i])
  /\ c.web \in {O!OutputWebRequests(b.output), << >>}

LEMMA OnResponseListed ==
  ASSUME NEW b, OnWell(b), NEW r, OnResponse(b, r)
  PROVE  OnWholeIs(b, O!Completed(r))
<1> DEFINE c == O!Completed(r)
           s == O!OutputCalls(r.output)
           w == O!OutputWebRequests(r.output)
           t == s \o << >>
           u == O!ToUsage(r.usage)
<1>1. c = [id |-> r.id, usage |-> u, tools |-> t, web |-> w, error |-> ""]
  BY NoChatCalls DEF O!Completed, OnResponse
<1>2. r.output \in {b.output, << >>}
  BY DEF OnResponse
<1>3. OnExact(b, ToolItems(b), O!OutputCalls(b.output))
  BY OnListsExact
<1>4. Sequence(s) /\ \A i \in DOMAIN s : OnFinal(b, s[i])
  <2>1. CASE r.output = << >>
    <3>1. s = << >>
      BY <2>1, NothingListed
    <3> QED BY <3>1, EmptySequence
  <2>2. CASE r.output = b.output
    <3>1. OnExact(b, ToolItems(b), s)
      BY <1>3, <2>2
    <3> QED BY <3>1 DEF OnExact, OnFinal
  <2> QED BY <1>2, <2>1, <2>2
<1>5. w \in {O!OutputWebRequests(b.output), << >>}
  BY <1>2, NothingListed
<1>6. u = O!ToUsage(b.usage) /\ r.id = b.id
  BY DEF OnResponse
<1> HIDE DEF s, w, u, c
<1>7. t = s
  BY <1>4, ConcatNothing
<1> HIDE DEF t
<1>8. /\ DOMAIN c = ResultFields /\ c.id = r.id /\ c.tools = t /\ c.web = w /\ c.usage = u
  BY <1>1 DEF ResultFields
<1>9. OnWholeIs(b, c)
  BY <1>4, <1>5, <1>6, <1>7, <1>8 DEF OnWholeIs
<1> QED BY <1>9 DEF c

----------------------------------------------------------------------------
(* The end of a response.                                                  *)
OnEnding(b, e) ==
  /\ e.type = IF b.error = "" THEN "response.completed" ELSE "response.failed"
  /\ e.carries = "response"
  /\ e.error = ""
  /\ OnResponse(b, e.response)

OnEnds(b, q) ==
  /\ OnShape(q)
  /\ q.result.id = b.id
  /\ q.result.error = b.error
  /\ q.result.usage = O!ToUsage(b.usage)
  /\ OnLists(b, ToolItems(b), Len(b.output), q.result.tools)
  /\ OnLists(b, WebItems(b), Len(b.output), q.result.web)

LEMMA OnTaken ==
  ASSUME NEW b, OnWell(b), NEW p, OnAfter(b, Len(b.output), p), NEW event, OnEnding(b, event)
  PROVE  OnEnds(b, O!TakeResponse(p, event))
<1> DEFINE c      == O!Completed(event.response)
           given  == [c EXCEPT !.error = p.result.error]
           r      == [p EXCEPT !.result = given]
           failed == event.type = "response.failed" /\ event.response.error # ""
           g      == CHOOSE g : CallsUpto(r.calls, c.tools, Len(c.tools), g)
           calls  == g[Len(c.tools)]
           s      == [r EXCEPT !.calls = calls]
           u      == O!SyncToolCalls(s)
           web    == O!MergeWebRequests(p.result.web, c.web)
           error  == IF failed THEN event.response.error ELSE u.result.error
           q      == [u EXCEPT !.result.web = web, !.result.error = error]
           n      == Len(b.output)
<1>1. O!TakeResponse(p, event) =
        [O!MergeCompletedCalls(r, c.tools) EXCEPT
           !.result.web = web,
           !.result.error = IF failed THEN event.response.error
                            ELSE O!MergeCompletedCalls(r, c.tools).result.error]
  BY DEF O!TakeResponse
<1>2. O!MergeCompletedCalls(r, c.tools) = u
  BY DEF O!MergeCompletedCalls, CallsUpto
<1>3. O!TakeResponse(p, event) = q
  BY <1>1, <1>2
<1>4. OnWholeIs(b, c)
  BY OnResponseListed DEF OnEnding
<1>5. /\ failed <=> b.error # ""
      /\ event.response.error = b.error
  BY DEF OnEnding, OnResponse
<1> HIDE DEF c, failed
<1>6. /\ DOMAIN c = ResultFields /\ c.id = b.id /\ c.usage = O!ToUsage(b.usage)
      /\ Sequence(c.tools) /\ \A i \in DOMAIN c.tools : OnFinal(b, c.tools[i])
      /\ c.web \in {O!OutputWebRequests(b.output), << >>}
  BY <1>4 DEF OnWholeIs
<1>7. /\ OnShape(p) /\ OnAllPlaced(b, p.calls) /\ p.chat = << >> /\ p.result.error = ""
      /\ OnLists(b, WebItems(b), n, p.result.web)
  BY DEF OnAfter, OnBegun, OnAllPlaced
<1>8. /\ n \in Nat /\ n \in 0..n
  <2>1. n \in Nat
    BY OnBody
  <2> QED BY <2>1, UpToItself
<1> HIDE DEF n
<1>9. OnLists(b, WebItems(b), n, web)
  BY <1>6, <1>7, OnWebKept DEF n
<1> HIDE DEF web
<1>10. Sequence(web)
  BY <1>9 DEF OnLists
<1>11. Sequence(c.web)
  <2>1. Sequence(O!OutputWebRequests(b.output))
    BY OnListsExact DEF OnExact
  <2> QED BY <1>6, <2>1, EmptySequence
<1>12. /\ DOMAIN given = ResultFields /\ given.id = b.id /\ given.error = ""
       /\ given.web = c.web /\ given.usage = c.usage
  BY <1>6, <1>7 DEF ResultFields
<1> HIDE DEF given
<1>13. /\ DOMAIN r = DOMAIN p /\ r.result = given /\ r.calls = p.calls /\ r.chat = p.chat
       /\ r.terminal = p.terminal
  BY <1>7 DEF OnShape
<1> HIDE DEF r
<1>14. CallsUpto(r.calls, c.tools, Len(c.tools), g)
  BY <1>6, CallsExist, SequenceIs
<1> HIDE DEF g
<1>15. OnAllPlaced(b, calls)
  BY <1>6, <1>7, <1>13, <1>14, OnCompletedAll
<1> HIDE DEF calls
<1>16. /\ OnShape(s) /\ s.calls = calls /\ s.chat = << >> /\ s.result = given
  BY <1>7, <1>11, <1>12, <1>13 DEF OnShape
<1> HIDE DEF s
<1>17. Sequence(s.calls) /\ Sequence(s.chat)
  BY <1>15, <1>16, EmptySequence DEF OnAllPlaced, OnPlaced
<1>18. /\ OnShape(u) /\ u.result.id = b.id /\ u.result.error = ""
  BY <1>12, <1>16, <1>17, OnToolsListed
<1>19. /\ u.result.tools = O!KeyedCalls(s.calls, ToolPlaces(s.calls))
       /\ u.result.usage = s.result.usage
  BY <1>16, <1>17, OnToolsAlone
<1>20. u.result.usage = O!ToUsage(b.usage)
  BY <1>6, <1>12, <1>16, <1>19
<1>21. u.result.tools = O!KeyedCalls(calls, ToolPlaces(calls))
  BY <1>16, <1>19
<1>22. OnLists(b, ToolItems(b), n, O!KeyedCalls(calls, ToolPlaces(calls)))
  BY <1>8, <1>15, OnListsOf DEF OnAllPlaced, n
<1> HIDE DEF u
<1>23. error = b.error
  BY <1>5, <1>18
<1> HIDE DEF error
<1>24. /\ OnShape(q) /\ q.result.id = b.id /\ q.result.error = error /\ q.result.web = web
       /\ q.result.tools = u.result.tools /\ q.result.usage = u.result.usage
  BY <1>10, <1>18 DEF OnShape, ResultFields
<1> HIDE DEF q
<1>25. OnEnds(b, q)
  BY <1>9, <1>20, <1>21, <1>22, <1>23, <1>24 DEF OnEnds, n
<1> QED BY <1>3, <1>25

\* No call of a tool has the id of a web search.
LEMMA OnApart ==
  ASSUME NEW b, OnWell(b), NEW t, OnLists(b, ToolItems(b), Len(b.output), t)
  PROVE  NotWeb(t, O!OutputWebRequests(b.output)) = t
<1> DEFINE w == O!OutputWebRequests(b.output)
           P == OnPlaces(b, ToolItems(b), Len(b.output))
<1>1. Sequence(t) /\ Len(t) = Len(P) /\ \A m \in DOMAIN t : t[m].id = O!Key(b.output[P[m]])
  BY DEF OnLists, OnEntry
<1>2. Sequence(P) /\ \A j \in DOMAIN P : P[j] \in ToolItems(b)
  <2>1. Len(b.output) \in 0..Len(b.output)
    BY OnBody, UpToItself
  <2> QED BY <2>1, OnPlacesAre
<1>3. OnExact(b, WebItems(b), w)
  BY OnListsExact
<1>4. \A x \in A!Ids(w) : \E k \in WebItems(b) : x = O!Key(b.output[k])
  BY <1>3 DEF OnExact, A!Ids
<1> HIDE DEF P, w
<1>5. ASSUME NEW i \in ToolItems(b), NEW k \in WebItems(b) PROVE O!Key(b.output[i]) # O!Key(b.output[k])
  <2>1. i \in DOMAIN b.output /\ k \in DOMAIN b.output /\ i # k
    BY DEF ToolItems, WebItems
  <2>2. /\ {b.output[i].id, b.output[i].callId}
              \cap {b.output[k].id, b.output[k].callId} \subseteq {""}
        /\ O!Key(b.output[i]) # ""
    BY <2>1 DEF OnWell, O!WellNamed
  <2>3. \A item : O!Key(item) \in {item.id, item.callId}
    BY DEF O!Key, O!First
  <2> QED BY <2>2, <2>3
<1>6. DOMAIN P = DOMAIN t
  BY <1>1, <1>2, SequenceIs
<1>7. \A m \in DOMAIN t : t[m].id \notin A!Ids(w)
  BY <1>1, <1>2, <1>4, <1>5, <1>6
<1> DEFINE I == {i \in DOMAIN t : t[i].id \notin A!Ids(w)}
<1>8. DOMAIN t \subseteq I
  BY <1>7
<1>9. NotWeb(t, w) = A!Selected(t, I)
  BY DEF NotWeb
<1> HIDE DEF I
<1>10. NotWeb(t, w) = t
  BY <1>1, <1>8, <1>9, SelectedAll
<1> QED BY <1>10 DEF w

LEMMA OnConcludes ==
  ASSUME NEW b, OnWell(b), b.chat = << >>, NEW p, OnAfter(b, Len(b.output), p),
         NEW event, OnEnding(b, event)
  PROVE  LET q == O!Conclude(p, event)
         IN  OnShape(q) /\ \A t, s : Accounted(O!Completed(b), b.error, t, s, q)
<1> DEFINE q     == CASE event.carries = "response"  -> O!TakeResponse(p, event)
                      [] event.carries = "malformed" -> [p EXCEPT !.malformed = TRUE]
                      [] event.carries = "nothing"   -> p
           error == O!First(q.result.error, event.error, "")
           r     == O!Conclude(p, event)
           n     == Len(b.output)
           whole == O!Completed(b)
           tools == O!OutputCalls(b.output)
           web   == O!OutputWebRequests(b.output)
           true  == TRUE
<1>1. r = [q EXCEPT !.terminal = true, !.result.error = error] /\ true = TRUE
  BY DEF O!Conclude
<1>2. q = O!TakeResponse(p, event)
  BY DEF OnEnding
<1>3. OnEnds(b, q)
  BY <1>2, OnTaken
<1> HIDE DEF q, r, true
<1>4. error = b.error
  BY <1>3 DEF OnEnds, OnEnding, O!First
<1> HIDE DEF error
<1>5. OnShape(q)
  BY <1>3 DEF OnEnds
<1>6. /\ OnShape(r) /\ r.terminal = TRUE
      /\ r.result.id = q.result.id /\ r.result.error = error /\ r.result.usage = q.result.usage
      /\ r.result.web = q.result.web /\ r.result.tools = q.result.tools
  BY <1>1, <1>5 DEF OnShape, ResultFields
<1>7. OnExact(b, ToolItems(b), tools) /\ OnExact(b, WebItems(b), web)
  BY OnListsExact
<1>8. whole.id = b.id /\ whole.usage = O!ToUsage(b.usage) /\ whole.tools = tools /\ whole.web = web
  <2>1. Sequence(tools)
    BY <1>7 DEF OnExact
  <2> HIDE DEF tools
  <2>2. tools \o << >> = tools
    BY <2>1, ConcatNothing
  <2> DEFINE both == tools \o << >>
             usage == O!ToUsage(b.usage)
  <2>3. whole = [id |-> b.id, usage |-> usage, tools |-> both, web |-> web, error |-> ""]
    BY NoChatCalls DEF O!Completed, tools
  <2> HIDE DEF both, web, whole, usage
  <2>4. whole.id = b.id /\ whole.usage = usage /\ whole.tools = both /\ whole.web = web
    BY <2>3
  <2> QED BY <2>2, <2>4 DEF both, usage
<1> HIDE DEF whole, tools, web
<1>9. /\ r.result.id = b.id /\ r.result.error = b.error /\ r.result.usage = O!ToUsage(b.usage)
      /\ OnLists(b, ToolItems(b), n, r.result.tools) /\ OnLists(b, WebItems(b), n, r.result.web)
  BY <1>3, <1>4, <1>6 DEF OnEnds
<1>10. SameCalls(r.result.tools, tools) /\ SameCalls(r.result.web, web)
  BY <1>7, <1>9, OnExactLists
<1>11. NotWeb(r.result.tools, web) = r.result.tools
  BY <1>9, OnApart DEF web
<1>12. \A t, s : Accounted(whole, b.error, t, s, r)
  BY <1>6, <1>8, <1>9, <1>10, <1>11, Zenon DEF Accounted
<1>13. OnShape(r) /\ \A t, s : Accounted(whole, b.error, t, s, r)
  BY <1>6, <1>12, Zenon
<1> QED BY <1>13, Zenon DEF r, whole

----------------------------------------------------------------------------
(* The parser when m of the events of a response have come.                *)
OnFlat(b) == FlattenSeq(OnGroups(b))

OnSettled(b, p) == OnShape(p) /\ \A t, s : Accounted(O!Completed(b), b.error, t, s, p)

OnAtItems(b, m, p) == \E k, j : FlatAt(OnGroups(b), m, k, j) /\ OnIn(b, k, j, p)

OnStreamAt(b, m, p) ==
  \/ m \in 0..Len(OnFlat(b)) /\ OnAtItems(b, m, p)
  \/ m = Len(OnFlat(b)) + 1 /\ OnSettled(b, p)

OnStream(b, depth, E) ==
  LET F == OnFlat(b)
      l == Len(F)
  IN /\ l \in Nat
     /\ Sequence(E) /\ Len(E) = l + 1
     /\ \A i \in 1..l : E[i] = O!Wrapped(F[i], depth)
     /\ \E f : /\ DOMAIN f = {"type", "carries", "response", "error"}
               /\ OnEnding(b, f)
               /\ E[l + 1] = O!Wrapped(f, depth)

LEMMA OnStreamIs ==
  ASSUME NEW b, OnWell(b), b.chat = << >>, NEW w \in BOOLEAN, NEW depth
  PROVE  OnStream(b, depth, O!Events(b, w, depth))
<1> DEFINE F == OnFlat(b)
           l == Len(F)
           none == [b EXCEPT !.output = << >>]
           r == IF w THEN b ELSE none
           t == IF b.error = "" THEN "response.completed" ELSE "response.failed"
           f == [type |-> t, carries |-> "response", response |-> r, error |-> ""]
           h == O!ResponseEvents(b, w)
           E == O!Events(b, w, depth)
<1>1. h = F \o <<f>>
  BY DEF O!ResponseEvents, OnFlat, OnGroups, O!FlattenSeq, FlattenSeq
<1>2. DOMAIN b = {"id", "usage", "output", "chat", "error"}
  BY DEF OnWell, O!WellFormed
<1>3. /\ none.id = b.id /\ none.usage = b.usage /\ none.error = b.error /\ none.chat = b.chat
      /\ none.output = << >>
  BY <1>2
<1> HIDE DEF none
<1>4. OnResponse(b, r)
  BY <1>3 DEF OnResponse
<1> HIDE DEF r
<1>5. /\ DOMAIN f = {"type", "carries", "response", "error"} /\ f.type = t
      /\ f.carries = "response" /\ f.response = r /\ f.error = ""
  OBVIOUS
<1> HIDE DEF f
<1>6. OnEnding(b, f)
  BY <1>4, <1>5 DEF OnEnding
<1>7. E = [i \in DOMAIN h |-> O!Wrapped(h[i], depth)]
  BY DEF O!Events
<1>8. Sequence(F) /\ l \in Nat /\ DOMAIN F = 1..l
  BY OnGroupsAre, FlatSequence, SequenceIs DEF OnFlat
<1> HIDE DEF F, h, E
<1>9. Sequence(<<f>>) /\ Len(<<f>>) = 1 /\ DOMAIN <<f>> = 1..1 /\ <<f>>[1] = f
  BY OneOrTwo
<1> DEFINE c == <<f>>
<1>10. Sequence(c) /\ Len(c) = 1 /\ DOMAIN c = 1..1 /\ c[1] = f /\ h = F \o c
  BY <1>1, <1>9
<1> HIDE DEF c
<1>11. Spliced(F, c, h)
  BY <1>8, <1>10, ConcatSplices
<1>12. Sequence(h) /\ Len(h) = l + 1
  BY <1>10, <1>11 DEF Spliced
<1>13. DOMAIN E = DOMAIN h /\ E = [i \in DOMAIN h |-> E[i]]
       /\ \A i \in DOMAIN h : E[i] = O!Wrapped(h[i], depth)
  BY <1>7
<1>14. Sequence(E)
  BY <1>12, <1>13, SequenceLike
<1>15. DOMAIN E = 1..Len(E) /\ Len(E) \in Nat /\ DOMAIN h = 1..Len(h) /\ Len(h) \in Nat
  BY <1>12, <1>14, SequenceIs
<1>16. Len(E) = l + 1
  BY <1>12, <1>13, <1>15, SameLength
<1>17. \A m \in Nat : m + 1 \in 1..(m + 1) /\ 1 \in 1..1 /\ \A i \in 1..m : i \in 1..(m + 1)
  OBVIOUS
<1>18. \A i \in 1..l : E[i] = O!Wrapped(F[i], depth)
  BY <1>8, <1>11, <1>12, <1>13, <1>15, <1>17 DEF Spliced
<1>19. E[l + 1] = O!Wrapped(f, depth)
  <2>1. h[l + 1] = f
    BY <1>10, <1>11, <1>17 DEF Spliced
  <2>2. l + 1 \in DOMAIN h
    BY <1>8, <1>12, <1>15, <1>17
  <2> QED BY <1>13, <2>1, <2>2
<1>20. OnStream(b, depth, E)
  BY <1>5, <1>6, <1>8, <1>14, <1>16, <1>18, <1>19 DEF OnStream, F
<1> QED BY <1>20 DEF E

\* One more of its events.
LEMMA OnAtNext ==
  ASSUME NEW b, OnWell(b), b.chat = << >>, NEW w \in BOOLEAN, NEW depth \in 0..O!MaxNestDepth,
         NEW m \in Nat, m < Len(O!Events(b, w, depth)), NEW p, OnStreamAt(b, m, p)
  PROVE  OnStreamAt(b, m + 1, O!Handle(p, O!Events(b, w, depth)[m + 1]))
<1> DEFINE E == O!Events(b, w, depth)
           F == OnFlat(b)
           l == Len(F)
           G == OnGroups(b)
           n == Len(b.output)
           e == E[m + 1]
           q == O!Handle(p, e)
<1>1. OnStream(b, depth, E)
  BY OnStreamIs
<1>2. l \in Nat /\ Len(E) = l + 1 /\ Len(G) = n /\ Groups(G)
  BY <1>1, OnGroupsAre DEF OnStream
<1> HIDE DEF E, F
<1> SUFFICES OnStreamAt(b, m + 1, q)
  BY DEF q, e, E
<1>3. m + 1 \in 0..(l + 1) /\ (m < l \/ m = l) /\ m # l + 1
  BY <1>2 DEF E
<1>4. OnAtItems(b, m, p)
  BY <1>2, <1>3 DEF OnStreamAt, F
<1>5. PICK k, j : FlatAt(G, m, k, j) /\ OnIn(b, k, j, p)
  BY <1>4 DEF OnAtItems
<1>6. CASE m < l
  <2> DEFINE f == F[m + 1]
  <2>1. m + 1 \in 1..l /\ m + 1 \in 0..l
    BY <1>2, <1>6
  <2>2. e = O!Wrapped(f, depth)
    BY <1>1, <2>1 DEF OnStream, F
  <2>3. "depth" \notin DOMAIN f
    <3>1. FlatStep(G, m, k, j)
      BY <1>2, <1>5, <1>6, FlatNext DEF F, OnFlat
    <3>2. /\ k + 1 \in DOMAIN G /\ j + 1 \in DOMAIN G[k + 1] /\ f = G[k + 1][j + 1]
          /\ k < Len(G)
      BY <3>1 DEF FlatStep, F, OnFlat
    <3> DEFINE item == b.output[k + 1]
               g == G[k + 1]
               z == j + 1
    <3>3. k \in Nat /\ j \in Nat
      BY <1>5 DEF FlatAt
    <3>4. k + 1 \in DOMAIN b.output
      BY <1>2, <3>2, <3>3, OnPlacesNext
    <3>5. OnGroup(item, (k + 1) - 1, g)
      BY <3>4, OnGroupsAre
    <3> DEFINE index == (k + 1) - 1
    <3> HIDE DEF g, item, index, z, G
    <3>6. OnGroup(item, index, g)
      BY <3>5 DEF index
    <3>7. DOMAIN g = 1..Len(g) /\ Len(g) \in Nat /\ z \in DOMAIN g /\ f = g[z]
      BY <3>2, <3>6, SequenceIs DEF OnGroup, g, z
    <3>8. z = 1 \/ z = Len(g) \/ (1 < z /\ z < Len(g))
      <4>1. \A x \in Nat : \A y \in 1..x : y = 1 \/ y = x \/ (1 < y /\ y < x)
        OBVIOUS
      <4> QED BY <3>7, <4>1
    <3> HIDE DEF f
    <3>9. \/ OnAnnounces(item, index, f) \/ OnFills(item, index, f) \/ OnEndsItem(item, index, f)
      BY <3>6, <3>7, <3>8 DEF OnGroup
    <3> QED BY <3>9 DEF OnAnnounces, OnFills, OnEndsItem
  <2>4. Like(f, e) /\ q = O!HandleInner(p, e)
    BY <2>2, <2>3, OnWrapped
  <2> HIDE DEF q
  <2>5. Like(FlattenSeq(OnGroups(b))[m + 1], e) /\ m < Len(FlattenSeq(OnGroups(b)))
    BY <1>6, <2>4 DEF F, OnFlat
  <2> HIDE DEF e, f
  <2>6. \E i, z : FlatAt(OnGroups(b), m + 1, i, z) /\ OnIn(b, i, z, O!HandleInner(p, e))
    BY <1>5, <2>5, OnItemStep
  <2>7. OnAtItems(b, m + 1, q)
    BY <2>4, <2>6 DEF OnAtItems
  <2> QED BY <2>1, <2>7 DEF OnStreamAt, F
<1>7. CASE m = l
  <2>1. FlatAt(G, Len(FlattenSeq(G)), k, j)
    BY <1>5, <1>7 DEF F, OnFlat
  <2>2. k = n /\ j = 0
    BY <1>2, <2>1, FlatLast
  <2>3. OnAfter(b, n, p)
    BY <1>5, <2>2 DEF OnIn
  <2>4. PICK f : /\ DOMAIN f = {"type", "carries", "response", "error"}
                 /\ OnEnding(b, f) /\ e = O!Wrapped(f, depth)
    BY <1>1, <1>7 DEF OnStream, F
  <2>5. Like(f, e) /\ q = O!HandleInner(p, e)
    BY <2>4, OnWrapped
  <2> HIDE DEF q, e
  <2>6. e.type = f.type /\ e.carries = f.carries /\ e.response = f.response /\ e.error = f.error
    BY <2>4, <2>5 DEF Like
  <2>7. OnEnding(b, e)
    BY <2>4, <2>6 DEF OnEnding
  <2>8. q = O!Conclude(p, e)
    <3>1. e.type \in {"response.completed", "response.failed"}
      BY <2>7 DEF OnEnding
    <3> QED BY <2>5, <3>1 DEF O!HandleInner
  <2>9. LET r == O!Conclude(p, e)
        IN  OnShape(r) /\ \A t, s : Accounted(O!Completed(b), b.error, t, s, r)
    BY <2>3, <2>7, OnConcludes
  <2>10. OnSettled(b, q)
    BY <2>8, <2>9 DEF OnSettled
  <2> QED BY <1>7, <2>10 DEF OnStreamAt, F
<1> QED BY <1>3, <1>6, <1>7

LEMMA OnAtStill ==
  ASSUME NEW b, NEW m, NEW p, OnStreamAt(b, m, p), NEW q, OnShape(q), q.result = p.result,
         q.calls = p.calls, q.chat = p.chat, q.terminal = p.terminal
  PROVE  OnStreamAt(b, m, q)
<1>1. OnBegun(p) => OnBegun(q)
  BY DEF OnBegun
<1>2. \A k : OnAfter(b, k, p) => OnAfter(b, k, q)
  BY <1>1 DEF OnAfter
<1>3. \A k : OnWithin(b, k, p) => OnWithin(b, k, q)
  BY <1>1, <1>2 DEF OnWithin
<1>4. OnAtItems(b, m, p) => OnAtItems(b, m, q)
  BY <1>2, <1>3 DEF OnAtItems, OnIn
<1>5. OnSettled(b, p) => OnSettled(b, q)
  BY DEF OnSettled, Accounted
<1> QED BY <1>4, <1>5 DEF OnStreamAt

LEMMA OnAtFirst ==
  ASSUME NEW b, OnWell(b)
  PROVE  OnStreamAt(b, 0, O!Start)
<1> DEFINE p == O!Start
           G == OnGroups(b)
           n == Len(b.output)
<1>1. /\ OnShape(p) /\ p.calls = << >> /\ p.chat = << >> /\ p.result.error = ""
      /\ p.result.web = << >>
  BY EmptySequence DEF O!Start, OnShape, ResultFields
<1> HIDE DEF p
<1>2. \A I : OnPlaces(b, I, 0) = << >>
  <2>1. n \in Nat
    BY OnBody
  <2> HIDE DEF n
  <2>2. \A I : PlacesUpto(n, I, 0) = << >>
    BY <2>1, PlacesStep
  <2> QED BY <2>2 DEF n, OnPlaces
<1>3. OnAfter(b, 0, p)
  <2> DEFINE e == << >>
  <2>1. Sequence(e) /\ DOMAIN e = {} /\ Len(e) = 0
    BY EmptySequence
  <2>2. OnPlaced(b, e, 0) /\ OnLists(b, WebItems(b), 0, e)
    BY <1>2, <2>1 DEF OnPlaced, OnLists
  <2> QED BY <1>1, <2>2 DEF OnAfter, OnBegun
<1>4. FlatAt(G, 0, 0, 0)
  BY OnGroupsAre, FlatFirst
<1>5. OnAtItems(b, 0, p)
  BY <1>3, <1>4 DEF OnAtItems, OnIn
<1>6. Len(OnFlat(b)) \in Nat
  BY OnGroupsAre, FlatSequence, SequenceIs DEF OnFlat
<1>7. 0 \in 0..Len(OnFlat(b))
  BY <1>6
<1> QED BY <1>5, <1>7 DEF OnStreamAt, p

LEMMA ConcatOne == ASSUME NEW v, Sequence(v), NEW x PROVE v \o <<x>> = Append(v, x)
<1> DEFINE e == <<x>>
           c == v \o e
           a == Append(v, x)
<1>1. Sequence(e) /\ Len(e) = 1 /\ DOMAIN e = 1..1 /\ e[1] = x
  BY OneOrTwo
<1> HIDE DEF e
<1>2. Spliced(v, e, c)
  BY <1>1, ConcatSplices
<1>3. /\ Sequence(a) /\ Len(a) = Len(v) + 1 /\ a[Len(v) + 1] = x
      /\ \A j \in DOMAIN v : a[j] = v[j]
  BY SequenceAppend
<1> HIDE DEF c, a
<1>4. Len(v) \in Nat /\ DOMAIN v = 1..Len(v)
  BY SequenceIs
<1>5. 1 \in 1..1
  OBVIOUS
<1>6. Sequence(c) /\ Len(c) = Len(v) + 1 /\ c[Len(v) + 1] = x
  BY <1>1, <1>2, <1>5 DEF Spliced
<1>7. 1..(Len(v) + 1) = 1..Len(v) \cup {Len(v) + 1}
  BY <1>4, NextPlace
<1>8. \A j \in 1..(Len(v) + 1) : c[j] = a[j]
  BY <1>2, <1>3, <1>4, <1>6, <1>7 DEF Spliced
<1>9. c = a
  BY <1>3, <1>6, <1>8, SameSequence
<1> QED BY <1>9 DEF c, a, e

----------------------------------------------------------------------------
(* The calls of a chat, k of them whole and j fragments of the next.       *)
ChatFields == {"index", "id", "name", "partial"}

ChIs(b, c, i, j, k) ==
  /\ DOMAIN c = ChatFields
  /\ c.index = i - 1
  /\ c.id = b.chat[i].id
  /\ c.name = b.chat[i].name
  /\ c.partial = IF i = k + 1 THEN SubSeq(b.chat[i].input, 1, j) ELSE b.chat[i].input

ChPlaced(b, chat, k, j) ==
  /\ Sequence(chat)
  /\ Len(chat) = IF j = 0 THEN k ELSE k + 1
  /\ \A i \in DOMAIN chat : ChIs(b, chat[i], i, j, k)

LEMMA ChBody ==
  ASSUME NEW b, OnWell(b)
  PROVE  /\ Sequence(b.chat) /\ Len(b.chat) \in Nat /\ DOMAIN b.chat = 1..Len(b.chat)
         /\ \A i \in DOMAIN b.chat : Sequence(b.chat[i].input) /\ b.chat[i].input # << >>
         /\ b.chat # << >> => b.output = << >> /\ b.error = ""
<1>1. Sequence(b.chat)
  BY DEF OnWell, O!WellFormed, Sequence
<1>2. \A i \in DOMAIN b.chat : Sequence(b.chat[i].input) /\ b.chat[i].input # << >>
  BY DEF OnWell, O!WellFormed, Sequence
<1>3. b.chat # << >> => b.output = << >> /\ b.error = ""
  BY DEF OnWell, O!WellFormed
<1> QED BY <1>1, <1>2, <1>3, SequenceIs

\* The fragment that is next.
ChDelta(b, k, j, d) ==
  /\ d.index = k
  /\ d.input = <<b.chat[k + 1].input[j + 1]>>
  /\ d.id = IF j = 0 THEN b.chat[k + 1].id ELSE ""
  /\ d.name = IF j = 0 THEN b.chat[k + 1].name ELSE ""

\* Where it goes.
ChFound(b, k, j, d, s, i) ==
  /\ Sequence(s) /\ Len(s) = k + 1 /\ i = k + 1
  /\ DOMAIN s[i] = ChatFields
  /\ s[i].index = k
  /\ s[i].partial = SubSeq(b.chat[k + 1].input, 1, j)
  /\ O!First(d.id, s[i].id, "") = b.chat[k + 1].id
  /\ O!First(d.name, s[i].name, "") = b.chat[k + 1].name
  /\ \A h \in 1..k : ChIs(b, s[h], h, j + 1, k)

LEMMA ChPlace ==
  \A k \in Nat :
    /\ k + 1 \in 1..(k + 1) /\ (k + 1) - 1 = k
    /\ \A h \in 1..(k + 1) : (h # k + 1 => h \in 1..k) /\ (h - 1 = k => h = k + 1)
    /\ \A h \in 1..k : h # k + 1 /\ h - 1 # k /\ h \in 1..(k + 1)
  OBVIOUS

LEMMA ChThere ==
  ASSUME NEW s, Sequence(s), NEW k \in Nat, Len(s) = k + 1, \A h \in 1..(k + 1) : s[h].index = h - 1
  PROVE  (\E h \in DOMAIN s : s[h].index = k) /\ O!ChatAt(s, k) = k + 1
<1> DEFINE i == O!ChatAt(s, k)
           l == k + 1
<1>1. DOMAIN s = 1..l /\ \A h \in 1..l : s[h].index = h - 1
  BY SequenceIs
<1>2. l \in 1..l /\ l - 1 = k /\ \A h \in 1..l : h - 1 = k => h = l
  BY ChPlace
<1>3. i = CHOOSE h \in DOMAIN s : s[h].index = k
  BY DEF O!ChatAt
<1> HIDE DEF i, l
<1>4. l \in DOMAIN s /\ s[l].index = k /\ \A h \in DOMAIN s : s[h].index = k => h = l
  BY <1>1, <1>2
<1>5. i = l
  BY <1>3, <1>4
<1> QED BY <1>4, <1>5 DEF i, l

LEMMA ChNew ==
  ASSUME NEW b, OnWell(b), NEW k \in Nat, k + 1 \in DOMAIN b.chat,
         NEW chat, ChPlaced(b, chat, k, 0), NEW d, ChDelta(b, k, 0, d)
  PROVE  LET s == O!ChatSlot(chat, d.index)
         IN  ChFound(b, k, 0, d, s, O!ChatAt(s, d.index))
<1> DEFINE s    == O!ChatSlot(chat, d.index)
           i    == O!ChatAt(s, d.index)
           call == b.chat[k + 1]
           blank == [index |-> d.index, id |-> "", name |-> "", partial |-> << >>]
           l    == k + 1
           v    == SubSeq(call.input, 1, 0)
<1>1. Sequence(chat) /\ Len(chat) = k /\ \A h \in DOMAIN chat : ChIs(b, chat[h], h, 0, k)
  BY DEF ChPlaced
<1>2. d.index = k /\ d.id = call.id /\ d.name = call.name
  BY DEF ChDelta
<1>3. v = << >>
  BY ChBody, PrefixEnds
<1> HIDE DEF call, v
<1>4. DOMAIN chat = 1..k /\ \A h \in 1..k : chat[h].index = h - 1
  BY <1>1, SequenceIs DEF ChIs
<1>5. ~ \E h \in DOMAIN chat : chat[h].index = d.index
  BY <1>2, <1>4, ChPlace
<1>6. s = Append(chat, blank)
  BY <1>5 DEF O!ChatSlot
<1>7. /\ DOMAIN blank = ChatFields /\ blank.id = "" /\ blank.name = ""
      /\ blank.index = d.index /\ blank.partial = << >>
  BY DEF ChatFields
<1> HIDE DEF blank
<1>8. Extended(chat, blank, s)
  BY <1>1, <1>6, AppendExtends, Zenon
<1>9. Len(s) = Len(chat) + 1
  BY <1>1, <1>8, ExtendedIs, Zenon
<1> HIDE DEF s, i
<1>10. /\ Sequence(s) /\ Len(s) = l /\ s[l] = blank
       /\ \A h \in 1..k : s[h] = chat[h]
  BY <1>1, <1>4, <1>8, <1>9 DEF Extended
<1>11. \A h \in 1..l : s[h].index = h - 1
  <2> SUFFICES ASSUME NEW h \in 1..l PROVE s[h].index = h - 1
    OBVIOUS
  <2>1. CASE h = l
    BY <1>2, <1>7, <1>10, <2>1, ChPlace
  <2>2. CASE h # l
    BY <1>4, <1>10, <2>2, ChPlace
  <2> QED BY <2>1, <2>2
<1>12. i = l
  <2>1. O!ChatAt(s, k) = k + 1
    BY <1>10, <1>11, ChThere
  <2> QED BY <1>2, <2>1 DEF i
<1>13. \A h \in 1..k : ChIs(b, s[h], h, 1, k)
  <2> SUFFICES ASSUME NEW h \in 1..k PROVE ChIs(b, s[h], h, 1, k)
    OBVIOUS
  <2>1. ChIs(b, chat[h], h, 0, k)
    BY <1>1, <1>4
  <2>2. h # k + 1
    BY ChPlace
  <2>3. s[h] = chat[h]
    BY <1>10
  <2> HIDE DEF ChIs
  <2>4. ChIs(b, chat[h], h, 1, k)
    BY <2>1, <2>2 DEF ChIs
  <2> QED BY <2>3, <2>4
<1>14. s[i] = blank
  BY <1>10, <1>12
<1> HIDE DEF l
<1>15. O!First(d.id, s[i].id, "") = call.id /\ O!First(d.name, s[i].name, "") = call.name
  BY <1>2, <1>7, <1>14 DEF O!First
<1>16. DOMAIN s[i] = ChatFields /\ s[i].index = k /\ s[i].partial = v
  BY <1>2, <1>3, <1>7, <1>14
<1>17. 0 + 1 = 1
  OBVIOUS
<1>18. ChFound(b, k, 0, d, s, i)
  BY <1>10, <1>12, <1>13, <1>15, <1>16, <1>17 DEF ChFound, call, v, l
<1> QED BY <1>18 DEF s, i

LEMMA ChOld ==
  ASSUME NEW b, OnWell(b), NEW k \in Nat, k + 1 \in DOMAIN b.chat, NEW j \in Nat, j # 0,
         NEW chat, ChPlaced(b, chat, k, j), NEW d, ChDelta(b, k, j, d)
  PROVE  LET s == O!ChatSlot(chat, d.index)
         IN  ChFound(b, k, j, d, s, O!ChatAt(s, d.index))
<1> DEFINE s    == O!ChatSlot(chat, d.index)
           i    == O!ChatAt(s, d.index)
           call == b.chat[k + 1]
           l    == k + 1
           old  == chat[l]
           v    == SubSeq(call.input, 1, j)
<1>1. Sequence(chat) /\ Len(chat) = l /\ \A h \in DOMAIN chat : ChIs(b, chat[h], h, j, k)
  BY DEF ChPlaced
<1>2. d.index = k /\ d.id = "" /\ d.name = ""
  BY DEF ChDelta
<1>3. DOMAIN chat = 1..l /\ \A h \in 1..l : chat[h].index = h - 1
  BY <1>1, SequenceIs DEF ChIs
<1>4. (\E h \in DOMAIN chat : chat[h].index = k) /\ O!ChatAt(chat, k) = l
  BY <1>1, <1>3, ChThere
<1>5. s = chat
  BY <1>2, <1>4 DEF O!ChatSlot
<1>6. i = l
  BY <1>2, <1>4, <1>5
<1>7. ChIs(b, old, l, j, k)
  BY <1>1, <1>3, ChPlace
<1> HIDE DEF s, i
<1>8. /\ DOMAIN old = ChatFields /\ old.index = k /\ old.partial = v
      /\ old.id = call.id /\ old.name = call.name
  BY <1>7, ChPlace DEF ChIs
<1> HIDE DEF old, v, call
<1>9. s[i] = old
  BY <1>5, <1>6 DEF old
<1>10. O!First(d.id, s[i].id, "") = call.id /\ O!First(d.name, s[i].name, "") = call.name
  BY <1>2, <1>8, <1>9 DEF O!First
<1>11. \A h \in 1..k : ChIs(b, s[h], h, j + 1, k)
  BY <1>1, <1>3, <1>5, ChPlace DEF ChIs
<1>12. DOMAIN s[i] = ChatFields /\ s[i].index = k /\ s[i].partial = v
  BY <1>8, <1>9
<1>13. ChFound(b, k, j, d, s, i)
  BY <1>1, <1>5, <1>6, <1>10, <1>11, <1>12 DEF ChFound, call, v
<1> QED BY <1>13 DEF s, i

LEMMA ChPlacedNext ==
  ASSUME NEW b, OnWell(b), NEW k \in Nat, k + 1 \in DOMAIN b.chat,
         NEW j \in Nat, j < Len(b.chat[k + 1].input),
         NEW chat, ChPlaced(b, chat, k, j), NEW d, ChDelta(b, k, j, d)
  PROVE  LET next == O!MergeChatCall(chat, d)
         IN  IF j + 1 < Len(b.chat[k + 1].input) THEN ChPlaced(b, next, k, j + 1)
             ELSE ChPlaced(b, next, k + 1, 0)
<1> DEFINE s    == O!ChatSlot(chat, d.index)
           i    == O!ChatAt(s, d.index)
           old  == s[i]
           call == b.chat[k + 1]
           part == old.partial \o d.input
           id   == O!First(d.id, old.id, "")
           name == O!First(d.name, old.name, "")
           new  == [old EXCEPT !.id = id, !.name = name, !.partial = part]
           next == [s EXCEPT ![i] = new]
           v    == SubSeq(call.input, 1, j)
           l    == k + 1
<1>1. O!MergeChatCall(chat, d) = next
  BY DEF O!MergeChatCall
<1>2. ChFound(b, k, j, d, s, i)
  <2>1. CASE j = 0
    BY <2>1, ChNew
  <2>2. CASE j # 0
    BY <2>2, ChOld
  <2> QED BY <2>1, <2>2
<1> HIDE DEF s, i
<1>3. /\ Sequence(s) /\ Len(s) = l /\ i = l
      /\ DOMAIN old = ChatFields /\ old.index = k /\ old.partial = v
      /\ id = call.id /\ name = call.name
      /\ \A h \in 1..k : ChIs(b, s[h], h, j + 1, k)
  BY <1>2 DEF ChFound
<1>4. Sequence(call.input) /\ Len(call.input) \in Nat
  BY ChBody, SequenceIs
<1>5. d.input = <<call.input[j + 1]>>
  BY DEF ChDelta
<1> DEFINE w == SubSeq(call.input, 1, j + 1)
<1>6. w = Append(v, call.input[j + 1]) /\ Sequence(v)
  <2>1. Sequence(v)
    <3>1. PICK S : call.input \in Seq(S)
      BY <1>4 DEF Sequence
    <3>2. v \in Seq(S)
      BY <1>4, <3>1
    <3> QED BY <3>2 DEF Sequence
  <2> QED BY <1>4, <2>1, SubSeqNext
<1>7. ~ (j + 1 < Len(call.input)) => w = call.input
  <2>1. \A m \in Nat : j < m /\ ~ (j + 1 < m) => j + 1 = m
    OBVIOUS
  <2> QED BY <1>4, <2>1, PrefixEnds
<1> HIDE DEF v, w, call, old
<1>8. part = w
  BY <1>3, <1>5, <1>6, ConcatOne
<1> HIDE DEF part, id, name
<1>9. /\ DOMAIN new = ChatFields /\ new.index = k /\ new.id = id /\ new.name = name
      /\ new.partial = part
  BY <1>3 DEF ChatFields
<1> HIDE DEF new
<1>10. i \in DOMAIN s /\ DOMAIN s = 1..l
  BY <1>3, SequenceIs, ChPlace
<1>11. /\ Sequence(next) /\ DOMAIN next = DOMAIN s /\ next[i] = new
       /\ \A h \in DOMAIN s : h # i => next[h] = s[h]
  BY <1>3, <1>10, SequenceExcept
<1> HIDE DEF next
<1>12. Len(next) = l
  <2>1. DOMAIN next = 1..Len(next) /\ Len(next) \in Nat /\ l \in Nat
    BY <1>11, SequenceIs
  <2> HIDE DEF l
  <2> QED BY <1>10, <1>11, <2>1, SameLength
<1>13. ChIs(b, next[l], l, j + 1, k)
  BY <1>3, <1>8, <1>9, <1>11, ChPlace DEF ChIs, call, w
<1>14. \A h \in 1..l : ChIs(b, next[h], h, j + 1, k)
  <2> SUFFICES ASSUME NEW h \in 1..l PROVE ChIs(b, next[h], h, j + 1, k)
    OBVIOUS
  <2>1. CASE h = l
    BY <1>13, <2>1
  <2>2. CASE h # l
    <3>1. h \in 1..k
      BY <2>2, ChPlace
    <3>2. h \in DOMAIN s /\ h # i
      BY <1>3, <1>10, <2>2
    <3> QED BY <1>3, <1>11, <3>1, <3>2
  <2> QED BY <2>1, <2>2
<1>15. DOMAIN next = 1..l
  BY <1>10, <1>11
<1>16. CASE j + 1 < Len(call.input)
  <2>1. j + 1 # 0
    OBVIOUS
  <2> DEFINE z == j + 1
  <2>2. z # 0 /\ \A h \in DOMAIN next : ChIs(b, next[h], h, z, k)
    BY <1>14, <1>15, <2>1
  <2> HIDE DEF z
  <2>3. ChPlaced(b, next, k, z)
    BY <1>11, <1>12, <2>2 DEF ChPlaced
  <2> QED BY <1>1, <1>16, <2>3 DEF z, call
<1>17. CASE ~ (j + 1 < Len(call.input))
  <2>1. ASSUME NEW h \in DOMAIN next PROVE ChIs(b, next[h], h, 0, l)
    <3>1. h \in 1..l /\ h # l + 1
      BY <1>15, ChPlace
    <3>2. ChIs(b, next[h], h, j + 1, k)
      BY <1>14, <3>1
    <3>3. next[h].partial = b.chat[h].input
      <4>1. CASE h = l
        BY <1>7, <1>17, <3>2, <4>1 DEF ChIs, w, call
      <4>2. CASE h # l
        BY <3>2, <4>2 DEF ChIs
      <4> QED BY <4>1, <4>2
    <3> QED BY <3>1, <3>2, <3>3 DEF ChIs
  <2>2. ChPlaced(b, next, l, 0)
    BY <1>11, <1>12, <2>1 DEF ChPlaced
  <2> QED BY <1>1, <1>17, <2>2 DEF call
<1> QED BY <1>16, <1>17

----------------------------------------------------------------------------
(* What the parser lists of a chat.                                        *)
ChView(chat) == [i \in DOMAIN chat |-> O!Call(chat[i].id, chat[i].name, chat[i].partial)]

LEMMA NothingConcat == ASSUME NEW s, Sequence(s) PROVE << >> \o s = s
<1> DEFINE e == << >>
           c == e \o s
<1>1. Sequence(e) /\ Len(e) = 0
  BY EmptySequence
<1> HIDE DEF e
<1>2. Spliced(e, s, c)
  BY <1>1, ConcatSplices
<1> HIDE DEF c
<1>3. Len(s) \in Nat /\ DOMAIN s = 1..Len(s)
  BY SequenceIs
<1>4. \A m \in Nat : 0 + m = m
  OBVIOUS
<1>5. \A i \in 1..Len(s) : 0 + i = i
  OBVIOUS
<1>6. Sequence(c) /\ Len(c) = Len(s) /\ \A i \in 1..Len(s) : c[i] = s[i]
  BY <1>1, <1>2, <1>3, <1>4, <1>5 DEF Spliced
<1>7. c = s
  BY <1>6, SameSequence
<1> QED BY <1>7 DEF c, e

LEMMA NoneKeyed == \A I : O!KeyedCalls(<< >>, I) = << >>
<1> SUFFICES ASSUME NEW I PROVE O!KeyedCalls(<< >>, I) = << >>
  OBVIOUS
<1> DEFINE named == O!Selected(<< >>, I)
           t == O!KeyedCalls(<< >>, I)
<1>1. t = [i \in DOMAIN named |-> O!Call(O!Key(named[i]), named[i].name, O!Input(named[i]))]
  BY DEF O!KeyedCalls
<1>2. Sequence(named) /\ DOMAIN named = {}
  <2>1. named = A!Selected(<< >>, I)
    BY EmptySequence, SelectedIs
  <2> HIDE DEF named
  <2>2. LET u == A!Selected(<< >>, I)
        IN  /\ Sequence(u)
            /\ \A j \in DOMAIN u : \E i \in DOMAIN << >> : i \in I /\ u[j] = << >>[i]
            /\ \A i \in DOMAIN << >> : i \in I => \E j \in DOMAIN u : u[j] = << >>[i]
    BY EmptySequence, SelectedHolds
  <2> QED BY <2>1, <2>2, EmptySequence
<1> HIDE DEF named, t
<1>3. DOMAIN t = {} /\ t = [i \in {} |-> t[i]]
  BY <1>1, <1>2
<1> QED BY <1>3 DEF t

LEMMA OnToolsChat ==
  ASSUME NEW p, OnShape(p), p.calls = << >>, Sequence(p.chat)
  PROVE  LET q == O!SyncToolCalls(p)
         IN  /\ q.result.tools = O!ChatCalls(ChView(p.chat))
             /\ q.result.usage = p.result.usage
<1> DEFINE q == O!SyncToolCalls(p)
           s == O!KeyedCalls(p.calls, ToolPlaces(p.calls))
           t == O!ChatCalls(ChView(p.chat))
           tools == s \o t
<1>1. q = [p EXCEPT !.result.tools = tools]
  BY DEF O!SyncToolCalls, ToolPlaces, ChView
<1>2. s = << >>
  BY NoneKeyed
<1>3. Sequence(t)
  BY ChatListed DEF ChView
<1> HIDE DEF s, t
<1>4. tools = t
  BY <1>2, <1>3, NothingConcat
<1> HIDE DEF tools
<1>5. q.result.tools = tools /\ q.result.usage = p.result.usage
  BY <1>1 DEF OnShape, ResultFields
<1> QED BY <1>4, <1>5 DEF t

----------------------------------------------------------------------------
(* The parser in the course of a chat.                                     *)
ChBegun(p) == OnShape(p) /\ p.calls = << >> /\ p.result.web = << >> /\ p.result.error = ""

ChHeard(b, k, j, p) ==
  /\ ChBegun(p)
  /\ ChPlaced(b, p.chat, k, j)
  /\ p.result.tools = O!ChatCalls(ChView(p.chat))
  /\ p.result.id \in {"", b.id}
  /\ k # 0 \/ j # 0 => p.result.id = b.id

ChTaken(b, chat, event, r) ==
  /\ ChBegun(r)
  /\ r.chat = chat
  /\ r.result.tools = O!ChatCalls(ChView(chat))
  /\ r.result.id = b.id
  /\ event.usage # O!NoUsage => r.result.usage = O!ToUsage(event.usage)

LEMMA ChTakes ==
  ASSUME NEW b, NEW p, ChBegun(p), p.result.id \in {"", b.id}, NEW event, event.id = b.id,
         NEW chat, chat = O!MergeChatCalls(p.chat, event.calls), Sequence(chat)
  PROVE  ChTaken(b, chat, event, O!HandleChunk(p, event))
<1> DEFINE id   == O!First(event.id, p.result.id, "")
           q    == [p EXCEPT !.result.id = id, !.chat = chat]
           r    == O!SyncToolCalls(q)
           use  == O!ToUsage(event.usage)
           true == TRUE
           u    == [r EXCEPT !.result.usage = use, !.terminal = true]
<1>1. O!HandleChunk(p, event) = IF event.usage = O!NoUsage THEN r ELSE u
  BY DEF O!HandleChunk
<1>2. id = b.id
  BY DEF O!First
<1>3. true \in BOOLEAN
  OBVIOUS
<1> HIDE DEF id, use, true
<1>4. /\ OnShape(q) /\ q.calls = << >> /\ q.chat = chat
      /\ q.result.id = id /\ q.result.error = "" /\ q.result.web = << >>
  BY DEF ChBegun, OnShape, ResultFields
<1> HIDE DEF q
<1>5. Sequence(q.calls)
  BY <1>4, EmptySequence
<1>6. /\ OnShape(r) /\ r.calls = << >> /\ r.chat = chat
      /\ r.result.id = id /\ r.result.error = "" /\ r.result.web = << >>
  BY <1>4, <1>5, OnToolsListed
<1>7. r.result.tools = O!ChatCalls(ChView(chat))
  BY <1>4, OnToolsChat
<1> HIDE DEF r
<1>8. /\ OnShape(u) /\ u.calls = r.calls /\ u.chat = r.chat
      /\ u.result.id = r.result.id /\ u.result.error = r.result.error
      /\ u.result.web = r.result.web /\ u.result.tools = r.result.tools
      /\ u.result.usage = use
  BY <1>3, <1>6 DEF OnShape, ResultFields
<1> HIDE DEF u
<1>9. CASE event.usage = O!NoUsage
  BY <1>1, <1>2, <1>6, <1>7, <1>9 DEF ChTaken, ChBegun
<1>10. CASE event.usage # O!NoUsage
  BY <1>1, <1>2, <1>6, <1>7, <1>8, <1>10 DEF ChTaken, ChBegun, use
<1> QED BY <1>9, <1>10

LEMMA OneMerged ==
  \A chat, d : O!MergeChatCalls(chat, <<d>>) = O!MergeChatCall(chat, d)
<1> SUFFICES ASSUME NEW chat, NEW d
             PROVE  O!MergeChatCalls(chat, <<d>>) = O!MergeChatCall(chat, d)
  OBVIOUS
<1> DEFINE s == <<d>>
           g == CHOOSE g : ChatUpto(chat, s, Len(s), g)
<1>1. Len(s) = 1 /\ s[1] = d /\ 1 \in Nat
  OBVIOUS
<1>2. O!MergeChatCalls(chat, s) = g[Len(s)]
  BY DEF O!MergeChatCalls, ChatUpto
<1> HIDE DEF s
<1>3. ChatUpto(chat, s, Len(s), g)
  BY <1>1, ChatExists
<1> HIDE DEF g
<1>4. ChatUpto(chat, s, 1, g)
  BY <1>1, <1>3
<1>5. g[0] = chat /\ g[1] = O!MergeChatCall(g[1 - 1], s[1])
  BY <1>4 DEF ChatUpto
<1>6. 1 - 1 = 0
  OBVIOUS
<1>7. g[1] = O!MergeChatCall(chat, d)
  BY <1>1, <1>5, <1>6, Zenon
<1> QED BY <1>1, <1>2, <1>7 DEF s

LEMMA NoneChatMerged == \A chat : O!MergeChatCalls(chat, << >>) = chat
<1> SUFFICES ASSUME NEW chat PROVE O!MergeChatCalls(chat, << >>) = chat
  OBVIOUS
<1> DEFINE s == << >>
           g == CHOOSE g : ChatUpto(chat, s, Len(s), g)
<1>1. Len(s) = 0 /\ 0 \in Nat
  OBVIOUS
<1>2. O!MergeChatCalls(chat, s) = g[Len(s)]
  BY DEF O!MergeChatCalls, ChatUpto
<1> HIDE DEF s
<1>3. ChatUpto(chat, s, Len(s), g)
  BY <1>1, ChatExists
<1> HIDE DEF g
<1>4. ChatUpto(chat, s, 0, g)
  BY <1>1, <1>3
<1>5. g[0] = chat
  BY <1>4 DEF ChatUpto
<1> QED BY <1>1, <1>2, <1>5 DEF s

\* A chunk with a fragment.
LEMMA ChStep ==
  ASSUME NEW b, OnWell(b), NEW k \in Nat, k + 1 \in DOMAIN b.chat,
         NEW j \in Nat, j < Len(b.chat[k + 1].input), NEW p, ChHeard(b, k, j, p),
         NEW event, event.id = b.id, NEW d, event.calls = <<d>>, ChDelta(b, k, j, d)
  PROVE  LET q == O!HandleChunk(p, event)
         IN  IF j + 1 < Len(b.chat[k + 1].input) THEN ChHeard(b, k, j + 1, q)
             ELSE ChHeard(b, k + 1, 0, q)
<1> DEFINE chat == O!MergeChatCall(p.chat, d)
           q == O!HandleChunk(p, event)
           l == Len(b.chat[k + 1].input)
           x == k + 1
           y == j + 1
<1>1. ChBegun(p) /\ ChPlaced(b, p.chat, k, j) /\ p.result.id \in {"", b.id}
  BY DEF ChHeard
<1>2. IF j + 1 < l THEN ChPlaced(b, chat, k, j + 1) ELSE ChPlaced(b, chat, k + 1, 0)
  BY <1>1, ChPlacedNext
<1>3. chat = O!MergeChatCalls(p.chat, event.calls)
  BY OneMerged
<1> HIDE DEF chat, l
<1>4. Sequence(chat)
  BY <1>2 DEF ChPlaced
<1>5. ChTaken(b, chat, event, q)
  BY <1>1, <1>3, <1>4, ChTakes
<1>6. /\ ChBegun(q) /\ q.chat = chat /\ q.result.id = b.id
      /\ q.result.tools = O!ChatCalls(ChView(q.chat))
  BY <1>5 DEF ChTaken
<1> HIDE DEF q
<1>7. \A i, z : ChPlaced(b, chat, i, z) => ChHeard(b, i, z, q)
  BY <1>6 DEF ChHeard
<1>8. IF y < l THEN ChHeard(b, k, y, q) ELSE ChHeard(b, x, 0, q)
  BY <1>2, <1>7
<1> QED BY <1>8 DEF q, l

----------------------------------------------------------------------------
(* The chunks of the calls of a chat.                                      *)
ChGroups(b) == [i \in DOMAIN b.chat |-> O!CallChunks(b, i)]

ChFlat(b) == FlattenSeq(ChGroups(b))

ChFragment(b, k, j, e) ==
  /\ DOMAIN e = {"type", "id", "calls", "usage"}
  /\ e.type = "chat.completion.chunk" /\ e.id = b.id
  /\ \E d : e.calls = <<d>> /\ ChDelta(b, k, j, d)

ChGroup(b, k, g) ==
  /\ Sequence(g) /\ Len(g) = Len(b.chat[k + 1].input)
  /\ \A j \in Nat : j + 1 \in DOMAIN g => ChFragment(b, k, j, g[j + 1])

LEMMA ChGroupIs ==
  ASSUME NEW b, OnWell(b), NEW k \in Nat, k + 1 \in DOMAIN b.chat
  PROVE  ChGroup(b, k, O!CallChunks(b, k + 1))
<1> DEFINE i == k + 1
           call == b.chat[i]
           g == O!CallChunks(b, i)
           delta(j) == [index |-> i - 1, input |-> <<call.input[j]>>,
                        id    |-> IF j = 1 THEN call.id ELSE "",
                        name  |-> IF j = 1 THEN call.name ELSE ""]
<1>1. g = [j \in DOMAIN call.input |-> O!Chunk(b.id, <<delta(j)>>, O!NoUsage)]
  BY DEF O!CallChunks
<1>2. Sequence(call.input) /\ Len(call.input) \in Nat /\ DOMAIN call.input = 1..Len(call.input)
  BY ChBody, SequenceIs
<1>3. Sequence(g) /\ DOMAIN g = DOMAIN call.input
  <2>1. DOMAIN g = DOMAIN call.input /\ g = [j \in DOMAIN call.input |-> g[j]]
    BY <1>1
  <2> HIDE DEF g, call
  <2> QED BY <1>2, <2>1, SequenceLike
<1>4. Len(g) = Len(call.input)
  <2>1. DOMAIN g = 1..Len(g) /\ Len(g) \in Nat
    BY <1>3, SequenceIs
  <2> QED BY <1>2, <1>3, <2>1, SameLength
<1>5. i - 1 = k /\ \A j \in Nat : j + 1 = 1 <=> j = 0
  OBVIOUS
<1>6. ASSUME NEW j \in Nat, j + 1 \in DOMAIN g
      PROVE  ChFragment(b, k, j, g[j + 1])
  <2> DEFINE d == delta(j + 1)
             e == g[j + 1]
  <2>1. e = O!Chunk(b.id, <<d>>, O!NoUsage)
    BY <1>1, <1>3, <1>6
  <2>2. ChDelta(b, k, j, d)
    BY <1>5 DEF ChDelta
  <2> HIDE DEF d
  <2>3. DOMAIN e = {"type", "id", "calls", "usage"} /\ e.type = "chat.completion.chunk"
        /\ e.id = b.id /\ e.calls = <<d>>
    BY <2>1 DEF O!Chunk
  <2> HIDE DEF e
  <2>4. ChFragment(b, k, j, e)
    BY <2>2, <2>3 DEF ChFragment
  <2> QED BY <2>4 DEF e
<1>7. ChGroup(b, k, g)
  <2> HIDE DEF g
  <2> QED BY <1>3, <1>4, <1>6 DEF ChGroup, call, i
<1> QED BY <1>7 DEF g

LEMMA ChGroupsAre ==
  ASSUME NEW b, OnWell(b)
  PROVE  /\ Groups(ChGroups(b)) /\ Len(ChGroups(b)) = Len(b.chat)
         /\ \A k \in Nat : k + 1 \in DOMAIN b.chat => ChGroup(b, k, ChGroups(b)[k + 1])
<1> DEFINE G == ChGroups(b)
<1>1. Sequence(b.chat) /\ Len(b.chat) \in Nat /\ DOMAIN b.chat = 1..Len(b.chat)
  BY ChBody
<1>2. DOMAIN G = DOMAIN b.chat /\ G = [i \in DOMAIN b.chat |-> G[i]]
      /\ \A i \in DOMAIN b.chat : G[i] = O!CallChunks(b, i)
  BY DEF ChGroups
<1> HIDE DEF G
<1>3. Sequence(G)
  BY <1>1, <1>2, SequenceLike
<1>4. Len(G) = Len(b.chat)
  <2>1. DOMAIN G = 1..Len(G) /\ Len(G) \in Nat
    BY <1>3, SequenceIs
  <2> QED BY <1>1, <1>2, <2>1, SameLength
<1>5. \A k \in Nat : k + 1 \in DOMAIN b.chat => ChGroup(b, k, G[k + 1])
  BY <1>2, ChGroupIs
<1>6. ASSUME NEW i \in DOMAIN G PROVE Sequence(G[i]) /\ Len(G[i]) > 0
  <2> DEFINE k == i - 1
  <2>1. k \in Nat /\ k + 1 = i
    BY <1>1, <1>2
  <2> HIDE DEF k
  <2>2. ChGroup(b, k, G[i])
    BY <1>2, <1>5, <2>1
  <2>3. Sequence(b.chat[i].input) /\ b.chat[i].input # << >>
    BY <1>2, ChBody
  <2>4. Len(b.chat[i].input) \in Nat /\ Len(b.chat[i].input) # 0
    BY <2>3, SequenceIs, EmptySequence
  <2>5. Sequence(G[i]) /\ Len(G[i]) = Len(b.chat[i].input)
    BY <2>1, <2>2 DEF ChGroup
  <2> QED BY <2>4, <2>5
<1>7. Groups(G)
  BY <1>3, <1>6 DEF Groups
<1> QED BY <1>4, <1>5, <1>7 DEF G

----------------------------------------------------------------------------
(* The stream of a chat.                                                   *)
ChStream(b, w, depth, E) ==
  LET F == ChFlat(b)
      l == Len(F)
  IN /\ l \in Nat
     /\ Sequence(E) /\ Len(E) = IF w THEN l + 2 ELSE l + 1
     /\ \A i \in 1..l : E[i] = O!Wrapped(F[i], depth)
     /\ w => E[l + 1] = O!Wrapped(O!Chunk(b.id, << >>, b.usage), depth)
     /\ E[IF w THEN l + 2 ELSE l + 1] = O!Wrapped([type |-> "[DONE]"], depth)

LEMMA ChPlaces ==
  \A l \in Nat :
    /\ 1 \in 1..1 /\ l + 1 \in 1..(l + 1) /\ l + 1 \in 1..(l + 2) /\ l + 2 \in 1..(l + 2)
    /\ (l + 1) + 1 = l + 2 /\ l + 1 \in Nat
    /\ \A i \in 1..l : i \in 1..(l + 1) /\ i \in 1..(l + 2)
  OBVIOUS

LEMMA ChStreamIs ==
  ASSUME NEW b, OnWell(b), b.chat # << >>, NEW w \in BOOLEAN, NEW depth
  PROVE  ChStream(b, w, depth, O!Events(b, w, depth))
<1> DEFINE F == ChFlat(b)
           l == Len(F)
           x == O!Chunk(b.id, << >>, b.usage)
           y == [type |-> "[DONE]"]
           h == O!ChatEvents(b, w)
           E == O!Events(b, w, depth)
           n == IF w THEN l + 2 ELSE l + 1
           u == <<x>>
           c == <<y>>
           none == << >>
           f == F \o u
           v == F \o none
<1>1. h = IF w THEN f \o c ELSE v \o c
  <2> DEFINE z == IF w THEN u ELSE none
             k == F \o z
  <2>1. h = k \o c
    BY DEF O!ChatEvents, ChFlat, ChGroups, O!FlattenSeq, FlattenSeq
  <2> HIDE DEF h, c, u, none, F
  <2> QED BY <2>1
<1>2. E = [i \in DOMAIN h |-> O!Wrapped(h[i], depth)]
  BY DEF O!Events
<1>3. Sequence(F) /\ l \in Nat /\ DOMAIN F = 1..l
  BY ChGroupsAre, FlatSequence, SequenceIs DEF ChFlat
<1> HIDE DEF F, h, E, x, y
<1>4. /\ Sequence(u) /\ Len(u) = 1 /\ u[1] = x
      /\ Sequence(c) /\ Len(c) = 1 /\ c[1] = y
  BY OneOrTwo
<1>5. v = F
  BY <1>3, ConcatNothing
<1> HIDE DEF u, c, none, v
<1>6. Spliced(F, u, f)
  BY <1>3, <1>4, ConcatSplices
<1> HIDE DEF f
<1>7. /\ Sequence(f) /\ Len(f) = l + 1 /\ f[l + 1] = x
      /\ \A i \in 1..l : f[i] = F[i]
  BY <1>3, <1>4, <1>6, ChPlaces DEF Spliced
<1>8. /\ Sequence(h) /\ Len(h) = n /\ h[n] = y
      /\ \A i \in 1..l : h[i] = F[i]
      /\ w => h[l + 1] = x
  <2>1. CASE w
    <3> DEFINE a == f \o c
    <3>1. Spliced(f, c, a)
      BY <1>4, <1>7, ConcatSplices
    <3>2. h = a
      BY <1>1, <2>1
    <3> HIDE DEF a
    <3> DEFINE m == l + 1
    <3>3. m + 1 = n /\ m \in 1..m /\ m \in Nat /\ \A i \in 1..l : i \in 1..m
      BY <1>3, <2>1, ChPlaces
    <3>4. Len(f) = m
      BY <1>7
    <3> HIDE DEF m, n
    <3>5. Sequence(a) /\ Len(a) = n /\ a[n] = y /\ \A i \in 1..m : a[i] = f[i]
      BY <1>4, <3>1, <3>3, <3>4, ChPlaces DEF Spliced
    <3>6. \A i \in 1..l : a[i] = F[i]
      BY <1>7, <3>3, <3>5
    <3>7. a[l + 1] = x
      BY <1>7, <3>3, <3>5 DEF m
    <3> QED BY <3>2, <3>5, <3>6, <3>7
  <2>2. CASE ~ w
    <3> DEFINE a == F \o c
    <3>1. Spliced(F, c, a)
      BY <1>3, <1>4, ConcatSplices
    <3>2. h = a
      BY <1>1, <1>5, <2>2
    <3> HIDE DEF a
    <3> QED BY <1>3, <1>4, <2>2, <3>1, <3>2, ChPlaces DEF Spliced
  <2> QED BY <2>1, <2>2
<1>9. DOMAIN E = DOMAIN h /\ E = [i \in DOMAIN h |-> E[i]]
      /\ \A i \in DOMAIN h : E[i] = O!Wrapped(h[i], depth)
  BY <1>2
<1>10. Sequence(E)
  BY <1>8, <1>9, SequenceLike
<1>11. DOMAIN E = 1..Len(E) /\ Len(E) \in Nat /\ DOMAIN h = 1..Len(h) /\ Len(h) \in Nat
  BY <1>8, <1>10, SequenceIs
<1>12. Len(E) = n
  BY <1>8, <1>9, <1>11, SameLength
<1>13. n \in 1..n /\ (\A i \in 1..l : i \in 1..n) /\ (w => l + 1 \in 1..n)
  BY <1>3, ChPlaces
<1>14. DOMAIN h = 1..n
  BY <1>8, <1>11
<1> HIDE DEF n
<1>15. /\ \A i \in 1..l : E[i] = O!Wrapped(F[i], depth)
       /\ w => E[l + 1] = O!Wrapped(x, depth)
       /\ E[n] = O!Wrapped(y, depth)
  BY <1>8, <1>9, <1>13, <1>14
<1>16. ChStream(b, w, depth, E)
  BY <1>3, <1>10, <1>12, <1>15 DEF ChStream, F, x, y, n
<1> QED BY <1>16 DEF E

----------------------------------------------------------------------------
(* The parser when m of the events of a chat have come.                    *)
ChAtCalls(b, m, p) == \E k, j : FlatAt(ChGroups(b), m, k, j) /\ ChHeard(b, k, j, p)

ChAll(b, w, p) ==
  /\ ChHeard(b, Len(b.chat), 0, p)
  /\ w /\ b.usage # O!NoUsage => p.result.usage = O!ToUsage(b.usage)

ChAt(b, w, m, p) ==
  LET l == Len(ChFlat(b))
  IN \/ m \in 0..l /\ ChAtCalls(b, m, p)
     \/ w /\ m = l + 1 /\ ChAll(b, w, p)
     \/ m = (IF w THEN l + 2 ELSE l + 1) /\ ChAll(b, w, p) /\ p.terminal

LEMMA ChHeardStill ==
  ASSUME NEW b, NEW k, NEW j, NEW p, ChHeard(b, k, j, p), NEW q, OnShape(q),
         q.result = p.result, q.calls = p.calls, q.chat = p.chat
  PROVE  ChHeard(b, k, j, q)
  BY DEF ChHeard, ChBegun

LEMMA ChAtStill ==
  ASSUME NEW b, NEW w, NEW m, NEW p, ChAt(b, w, m, p), NEW q, OnShape(q), q.result = p.result,
         q.calls = p.calls, q.chat = p.chat, q.terminal = p.terminal
  PROVE  ChAt(b, w, m, q)
<1>1. ChAtCalls(b, m, p) => ChAtCalls(b, m, q)
  BY ChHeardStill DEF ChAtCalls
<1>2. ChAll(b, w, p) => ChAll(b, w, q)
  BY ChHeardStill DEF ChAll
<1> QED BY <1>1, <1>2 DEF ChAt

LEMMA ChAtFirst ==
  ASSUME NEW b, OnWell(b), NEW w
  PROVE  ChAt(b, w, 0, O!Start)
<1> DEFINE p == O!Start
           G == ChGroups(b)
<1>1. /\ OnShape(p) /\ p.calls = << >> /\ p.chat = << >> /\ p.result.error = ""
      /\ p.result.web = << >> /\ p.result.tools = << >> /\ p.result.id = ""
  BY EmptySequence DEF O!Start, OnShape, ResultFields
<1> HIDE DEF p
<1>2. ChPlaced(b, p.chat, 0, 0)
  <2> DEFINE e == << >>
  <2>1. Sequence(e) /\ DOMAIN e = {} /\ Len(e) = 0
    BY EmptySequence
  <2> HIDE DEF e
  <2>2. ChPlaced(b, e, 0, 0)
    BY <2>1 DEF ChPlaced
  <2> QED BY <1>1, <2>2 DEF e
<1>3. p.result.tools = O!ChatCalls(ChView(p.chat))
  <2> DEFINE e == << >>
             v == ChView(e)
  <2>1. v = << >>
    <3>1. DOMAIN v = {} /\ v = [i \in {} |-> v[i]]
      BY EmptySequence DEF ChView
    <3> HIDE DEF v
    <3> QED BY <3>1
  <2> QED BY <1>1, <2>1, NoChatCalls
<1>4. ChHeard(b, 0, 0, p)
  BY <1>1, <1>2, <1>3 DEF ChHeard, ChBegun
<1>5. FlatAt(G, 0, 0, 0)
  BY ChGroupsAre, FlatFirst
<1>6. ChAtCalls(b, 0, p)
  BY <1>4, <1>5 DEF ChAtCalls
<1>7. Len(ChFlat(b)) \in Nat
  BY ChGroupsAre, FlatSequence, SequenceIs DEF ChFlat
<1>8. 0 \in 0..Len(ChFlat(b))
  BY <1>7
<1>9. ChAt(b, w, 0, p)
  BY <1>6, <1>8 DEF ChAt
<1> QED BY <1>9 DEF p

\* A chunk of one of the calls.
LEMMA ChCallStep ==
  ASSUME NEW b, OnWell(b), NEW m \in Nat, m < Len(ChFlat(b)), NEW p, ChAtCalls(b, m, p)
  PROVE  /\ DOMAIN ChFlat(b)[m + 1] = {"type", "id", "calls", "usage"}
         /\ \A event : Like(ChFlat(b)[m + 1], event) =>
              event.type = "chat.completion.chunk" /\ ChAtCalls(b, m + 1, O!HandleChunk(p, event))
<1> DEFINE G == ChGroups(b)
           F == ChFlat(b)
           f == F[m + 1]
<1>1. PICK k, j : FlatAt(G, m, k, j) /\ ChHeard(b, k, j, p)
  BY DEF ChAtCalls
<1>2. FlatStep(G, m, k, j)
  BY <1>1, ChGroupsAre, FlatNext DEF ChFlat
<1>3. k \in Nat /\ j \in Nat
  <2>1. Len(G) \in Nat
    BY ChGroupsAre, SequenceIs DEF Groups
  <2> QED BY <1>1, <2>1 DEF FlatAt
<1> DEFINE g == G[k + 1]
           l == Len(b.chat[k + 1].input)
<1>4. /\ k + 1 \in DOMAIN G /\ j + 1 \in DOMAIN g /\ f = g[j + 1]
      /\ IF j + 1 < Len(g) THEN FlatAt(G, m + 1, k, j + 1) ELSE FlatAt(G, m + 1, k + 1, 0)
  BY <1>2 DEF FlatStep, ChFlat
<1>5. k + 1 \in DOMAIN b.chat
  BY <1>4 DEF ChGroups
<1>6. ChGroup(b, k, g)
  BY <1>3, <1>5, ChGroupsAre
<1> HIDE DEF G, F, f, g
<1>7. Sequence(g) /\ Len(g) = l /\ ChFragment(b, k, j, f)
  BY <1>3, <1>4, <1>6 DEF ChGroup
<1>8. j < l
  <2>1. DOMAIN g = 1..l /\ l \in Nat
    BY <1>7, SequenceIs
  <2> HIDE DEF l
  <2> QED BY <1>3, <1>4, <2>1
<1>9. PICK d : f.calls = <<d>> /\ ChDelta(b, k, j, d)
  BY <1>7 DEF ChFragment
<1>10. /\ DOMAIN f = {"type", "id", "calls", "usage"} /\ f.type = "chat.completion.chunk"
       /\ f.id = b.id
  BY <1>7 DEF ChFragment
<1>11. ASSUME NEW event, Like(f, event)
       PROVE  /\ event.type = "chat.completion.chunk"
              /\ ChAtCalls(b, m + 1, O!HandleChunk(p, event))
  <2> DEFINE q == O!HandleChunk(p, event)
             x == k + 1
             y == j + 1
             n == m + 1
             s == <<d>>
  <2>1. f.calls = s
    BY <1>9
  <2> HIDE DEF s
  <2>2. event.type = f.type /\ event.id = f.id /\ event.calls = f.calls
    BY <1>10, <1>11 DEF Like
  <2>3. event.calls = <<d>>
    BY <2>1, <2>2 DEF s
  <2>4. event.id = b.id /\ event.type = "chat.completion.chunk"
    BY <1>10, <2>2
  <2>5. IF y < l THEN ChHeard(b, k, y, q) ELSE ChHeard(b, x, 0, q)
    BY <1>1, <1>3, <1>5, <1>8, <1>9, <2>3, <2>4, ChStep
  <2>6. IF y < l THEN FlatAt(G, n, k, y) ELSE FlatAt(G, n, x, 0)
    BY <1>4, <1>7
  <2> HIDE DEF q, x, y, n, l
  <2>7. ChAtCalls(b, n, q)
    BY <2>5, <2>6 DEF ChAtCalls, G
  <2> QED BY <2>4, <2>7 DEF n, q
<1> QED BY <1>10, <1>11 DEF f, F

\* All of them have come.
LEMMA ChCallsOver ==
  ASSUME NEW b, OnWell(b), NEW p, ChAtCalls(b, Len(ChFlat(b)), p)
  PROVE  ChHeard(b, Len(b.chat), 0, p)
<1>1. PICK k, j : FlatAt(ChGroups(b), Len(FlattenSeq(ChGroups(b))), k, j) /\ ChHeard(b, k, j, p)
  BY DEF ChAtCalls, ChFlat
<1>2. k = Len(b.chat) /\ j = 0
  BY <1>1, ChGroupsAre, FlatLast
<1> QED BY <1>1, <1>2

LEMMA ChUsageStep ==
  ASSUME NEW b, OnWell(b), b.chat # << >>, NEW w, NEW p, ChHeard(b, Len(b.chat), 0, p),
         NEW event, event.id = b.id, event.calls = << >>, event.usage = b.usage
  PROVE  ChAll(b, w, O!HandleChunk(p, event))
<1> DEFINE q == O!HandleChunk(p, event)
           n == Len(b.chat)
<1>1. ChBegun(p) /\ ChPlaced(b, p.chat, n, 0) /\ p.result.id \in {"", b.id}
  BY DEF ChHeard
<1>2. p.chat = O!MergeChatCalls(p.chat, event.calls)
  BY NoneChatMerged
<1>3. Sequence(p.chat)
  BY <1>1 DEF ChPlaced
<1>4. ChTaken(b, p.chat, event, q)
  BY <1>1, <1>2, <1>3, ChTakes
<1> HIDE DEF q, n
<1>5. ChHeard(b, n, 0, q)
  BY <1>1, <1>4 DEF ChTaken, ChHeard
<1>6. b.usage # O!NoUsage => q.result.usage = O!ToUsage(b.usage)
  BY <1>4 DEF ChTaken
<1> QED BY <1>5, <1>6 DEF ChAll, q, n

LEMMA ChLastStep ==
  ASSUME NEW b, NEW w, NEW p, ChAll(b, w, p), NEW event, event.type = "[DONE]"
  PROVE  LET q == O!HandleInner(p, event) IN ChAll(b, w, q) /\ q.terminal
<1> DEFINE true == TRUE
           q == [p EXCEPT !.terminal = true]
<1>1. O!HandleInner(p, event) = q
  BY DEF O!HandleInner
<1>2. true \in BOOLEAN /\ OnShape(p)
  BY DEF ChAll, ChHeard, ChBegun
<1>3. true
  OBVIOUS
<1> HIDE DEF true
<1>4. /\ OnShape(q) /\ q.result = p.result /\ q.calls = p.calls /\ q.chat = p.chat
      /\ q.terminal = true
  BY <1>2 DEF OnShape
<1> HIDE DEF q
<1>5. ChHeard(b, Len(b.chat), 0, q)
  BY <1>4, ChHeardStill DEF ChAll
<1> QED BY <1>1, <1>3, <1>4, <1>5 DEF ChAll

\* One more of the events of a chat.
LEMMA ChAtNext ==
  ASSUME NEW b, OnWell(b), b.chat # << >>, NEW w \in BOOLEAN, NEW depth \in 0..O!MaxNestDepth,
         NEW m \in Nat, m < Len(O!Events(b, w, depth)), NEW p, ChAt(b, w, m, p)
  PROVE  ChAt(b, w, m + 1, O!Handle(p, O!Events(b, w, depth)[m + 1]))
<1> DEFINE E == O!Events(b, w, depth)
           F == ChFlat(b)
           l == Len(F)
           n == IF w THEN l + 2 ELSE l + 1
           e == E[m + 1]
           q == O!Handle(p, e)
           x == O!Chunk(b.id, << >>, b.usage)
           y == [type |-> "[DONE]"]
<1>1. /\ l \in Nat /\ Len(E) = n
      /\ \A i \in 1..l : E[i] = O!Wrapped(F[i], depth)
      /\ w => E[l + 1] = O!Wrapped(x, depth)
      /\ E[n] = O!Wrapped(y, depth)
  BY ChStreamIs DEF ChStream
<1> HIDE DEF E, F
<1> SUFFICES ChAt(b, w, m + 1, q)
  BY DEF q, e, E
<1>2. m < n
  BY <1>1 DEF E
<1>3. \/ m < l
      \/ m = l /\ w
      \/ m = l /\ ~ w
      \/ m = l + 1 /\ w
  BY <1>1, <1>2
<1>4. \/ m \in 0..l /\ ChAtCalls(b, m, p)
      \/ w /\ m = l + 1 /\ ChAll(b, w, p)
  BY <1>1, <1>2 DEF ChAt, F
<1>5. CASE m < l
  <2> DEFINE f == F[m + 1]
  <2>1. m + 1 \in 1..l /\ m + 1 \in 0..l /\ ChAtCalls(b, m, p)
    BY <1>1, <1>4, <1>5
  <2>2. e = O!Wrapped(f, depth)
    BY <1>1, <2>1
  <2>3. /\ DOMAIN f = {"type", "id", "calls", "usage"}
        /\ \A event : Like(f, event) =>
             event.type = "chat.completion.chunk" /\ ChAtCalls(b, m + 1, O!HandleChunk(p, event))
    BY <1>5, <2>1, ChCallStep DEF F
  <2>4. "depth" \notin DOMAIN f
    BY <2>3
  <2> HIDE DEF f
  <2>5. Like(f, e) /\ q = O!HandleInner(p, e)
    BY <2>2, <2>4, OnWrapped
  <2> HIDE DEF q, e
  <2>6. e.type = "chat.completion.chunk" /\ ChAtCalls(b, m + 1, O!HandleChunk(p, e))
    BY <2>3, <2>5
  <2>7. q = O!HandleChunk(p, e)
    BY <2>5, <2>6 DEF O!HandleInner
  <2> QED BY <2>1, <2>6, <2>7 DEF ChAt, F
<1>6. CASE m = l /\ w
  <2>1. e = O!Wrapped(x, depth)
    BY <1>1, <1>6
  <2>2. /\ DOMAIN x = {"type", "id", "calls", "usage"} /\ x.type = "chat.completion.chunk"
        /\ x.id = b.id /\ x.calls = << >> /\ x.usage = b.usage
    BY DEF O!Chunk
  <2> HIDE DEF x
  <2>3. "depth" \notin DOMAIN x
    BY <2>2
  <2>4. Like(x, e) /\ q = O!HandleInner(p, e)
    BY <2>1, <2>3, OnWrapped
  <2> HIDE DEF q, e
  <2>5. /\ e.type = "chat.completion.chunk" /\ e.id = b.id /\ e.calls = << >>
        /\ e.usage = b.usage
    BY <2>2, <2>4 DEF Like
  <2>6. q = O!HandleChunk(p, e)
    BY <2>4, <2>5 DEF O!HandleInner
  <2>7. ChAtCalls(b, Len(ChFlat(b)), p)
    <3>1. m # l + 1
      BY <1>1, <1>6
    <3> QED BY <1>4, <1>6, <3>1 DEF F
  <2>8. ChHeard(b, Len(b.chat), 0, p)
    BY <2>7, ChCallsOver
  <2>9. ChAll(b, w, q)
    BY <2>5, <2>6, <2>8, ChUsageStep
  <2> QED BY <1>6, <2>9 DEF ChAt, F
<1>7. CASE (m = l /\ ~ w) \/ (m = l + 1 /\ w)
  <2>1. m + 1 = n
    BY <1>1, <1>7
  <2>2. e = O!Wrapped(y, depth)
    BY <1>1, <2>1
  <2>3. DOMAIN y = {"type"} /\ y.type = "[DONE]"
    OBVIOUS
  <2> HIDE DEF y
  <2>4. "depth" \notin DOMAIN y
    BY <2>3
  <2>5. Like(y, e) /\ q = O!HandleInner(p, e)
    BY <2>2, <2>4, OnWrapped
  <2> HIDE DEF q, e
  <2>6. e.type = "[DONE]"
    BY <2>3, <2>5 DEF Like
  <2>7. ChAll(b, w, p)
    <3>1. CASE m = l /\ ~ w
      <4>1. ChAtCalls(b, Len(ChFlat(b)), p)
        BY <1>4, <3>1 DEF F
      <4>2. ChHeard(b, Len(b.chat), 0, p)
        BY <4>1, ChCallsOver
      <4> QED BY <3>1, <4>2 DEF ChAll
    <3>2. CASE m = l + 1 /\ w
      <4>1. m \notin 0..l
        BY <1>1, <3>2
      <4> QED BY <1>4, <4>1
    <3> QED BY <1>7, <3>1, <3>2
  <2>8. ChAll(b, w, O!HandleInner(p, e)) /\ O!HandleInner(p, e).terminal
    BY <2>6, <2>7, ChLastStep
  <2>9. ChAll(b, w, q) /\ q.terminal
    BY <2>5, <2>8
  <2>10. m + 1 = IF w THEN Len(ChFlat(b)) + 2 ELSE Len(ChFlat(b)) + 1
    BY <1>1, <1>7 DEF F
  <2> HIDE DEF l, n
  <2> QED BY <2>9, <2>10 DEF ChAt
<1> QED BY <1>3, <1>5, <1>6, <1>7

\* Calls that are alike are listed alike.
LEMMA ChatAlike ==
  ASSUME NEW v, Sequence(v), NEW u, Sequence(u), Len(u) = Len(v),
         \A i \in DOMAIN v : u[i].id = v[i].id /\ u[i].name = v[i].name /\ u[i].input = v[i].input
  PROVE  O!ChatCalls(u) = O!ChatCalls(v) /\ Sequence(O!ChatCalls(v))
<1> DEFINE I == O!Named(v)
           n == Len(v)
           Q == PlacesUpto(n, I, n)
           nv == O!Selected(v, I)
           nu == O!Selected(u, I)
           cv == O!ChatCalls(v)
           cu == O!ChatCalls(u)
<1>1. n \in Nat /\ DOMAIN v = 1..n /\ DOMAIN u = 1..n
  BY SequenceIs
<1>2. O!Named(u) = I
  BY <1>1 DEF O!Named
<1>3. /\ cv = [i \in DOMAIN nv |-> O!Call(nv[i].id, nv[i].name, nv[i].input)]
      /\ cu = [i \in DOMAIN nu |-> O!Call(nu[i].id, nu[i].name, nu[i].input)]
  BY <1>2 DEF O!ChatCalls
<1>4. nv = A!Selected(v, I) /\ nu = A!Selected(u, I)
  BY SelectedIs
<1>5. Sequence(Q) /\ \A j \in DOMAIN Q : Q[j] \in 1..n
  <2>1. n \in 0..n
    BY <1>1
  <2> HIDE DEF n
  <2> QED BY <1>1, <2>1, PlacesAre
<1>6. AtPlaces(v, nv, Q) /\ AtPlaces(u, nu, Q)
  <2>1. AtPlaces(v, A!Selected(v, I), PlacesUpto(Len(v), I, Len(v)))
    BY SelectedAtPlaces
  <2>2. AtPlaces(u, A!Selected(u, I), PlacesUpto(Len(u), I, Len(u)))
    BY SelectedAtPlaces
  <2> QED BY <1>4, <2>1, <2>2
<1> HIDE DEF cv, cu, nv, nu, Q, I
<1>7. /\ Sequence(nv) /\ Sequence(nu) /\ DOMAIN nv = DOMAIN Q /\ DOMAIN nu = DOMAIN Q
      /\ \A i \in DOMAIN Q : nv[i] = v[Q[i]] /\ nu[i] = u[Q[i]]
  BY <1>5, <1>6, SequenceIs DEF AtPlaces
<1>8. \A i \in DOMAIN Q :
        nu[i].id = nv[i].id /\ nu[i].name = nv[i].name /\ nu[i].input = nv[i].input
  BY <1>1, <1>5, <1>7
<1>9. cu = cv
  BY <1>3, <1>7, <1>8
<1>10. Sequence(cv)
  <2>1. cv = [i \in DOMAIN nv |-> cv[i]]
    BY <1>3
  <2> QED BY <1>7, <2>1, SequenceLike
<1> QED BY <1>9, <1>10 DEF cv, cu

LEMMA ChAgrees ==
  ASSUME NEW b, OnWell(b), b.chat # << >>, NEW w \in BOOLEAN, NEW depth,
         NEW p, ChAt(b, w, Len(O!Events(b, w, depth)), p),
         NEW told, told => w /\ b.usage # O!NoUsage, NEW plain
  PROVE  OnShape(p) /\ Accounted(O!Completed(b), b.error, told, plain, p)
<1> DEFINE l == Len(ChFlat(b))
           n == IF w THEN l + 2 ELSE l + 1
           whole == O!Completed(b)
           k == Len(b.chat)
           view == ChView(p.chat)
<1>1. l \in Nat /\ Len(O!Events(b, w, depth)) = n
  BY ChStreamIs DEF ChStream
<1>2. ChAll(b, w, p) /\ p.terminal
  <2>1. n \notin 0..l /\ (w => n # l + 1)
    BY <1>1
  <2> HIDE DEF n
  <2> QED BY <1>1, <2>1 DEF ChAt
<1>3. Sequence(b.chat) /\ k \in Nat /\ DOMAIN b.chat = 1..k /\ k # 0
  <2>1. Sequence(b.chat)
    BY ChBody
  <2>2. Len(b.chat) # 0
    BY <2>1, SequenceIs, EmptySequence
  <2> QED BY <2>2, ChBody
<1>4. /\ ChBegun(p) /\ ChPlaced(b, p.chat, k, 0) /\ p.result.tools = O!ChatCalls(view)
      /\ p.result.id = b.id
  BY <1>2, <1>3 DEF ChAll, ChHeard
<1>5. b.output = << >> /\ b.error = ""
  BY ChBody
<1>6. /\ Sequence(view) /\ Len(view) = Len(b.chat)
      /\ \A i \in DOMAIN b.chat : /\ view[i].id = b.chat[i].id
                                  /\ view[i].name = b.chat[i].name
                                  /\ view[i].input = b.chat[i].input
  <2>1. /\ Sequence(p.chat) /\ Len(p.chat) = k
        /\ \A i \in DOMAIN p.chat : ChIs(b, p.chat[i], i, 0, k)
    BY <1>4 DEF ChPlaced
  <2>2. DOMAIN p.chat = 1..k
    BY <2>1, SequenceIs
  <2>3. DOMAIN view = DOMAIN p.chat /\ view = [i \in DOMAIN p.chat |-> view[i]]
        /\ \A i \in DOMAIN p.chat : view[i] = O!Call(p.chat[i].id, p.chat[i].name, p.chat[i].partial)
    BY DEF ChView
  <2> HIDE DEF view
  <2>4. Sequence(view)
    BY <2>1, <2>3, SequenceLike
  <2>5. Len(view) = k
    <3>1. DOMAIN view = 1..Len(view) /\ Len(view) \in Nat
      BY <2>4, SequenceIs
    <3> QED BY <1>3, <2>2, <2>3, <3>1, SameLength
  <2>6. ASSUME NEW i \in DOMAIN b.chat
        PROVE  /\ view[i].id = b.chat[i].id
               /\ view[i].name = b.chat[i].name
               /\ view[i].input = b.chat[i].input
    <3>1. i \in DOMAIN p.chat /\ i # k + 1
      BY <1>3, <2>2
    <3>2. ChIs(b, p.chat[i], i, 0, k)
      BY <2>1, <3>1
    <3>3. p.chat[i].id = b.chat[i].id /\ p.chat[i].name = b.chat[i].name
          /\ p.chat[i].partial = b.chat[i].input
      BY <3>1, <3>2 DEF ChIs
    <3> DEFINE c == p.chat[i]
    <3>4. view[i] = O!Call(c.id, c.name, c.partial)
      BY <2>3, <3>1
    <3> HIDE DEF c
    <3>5. view[i].id = c.id /\ view[i].name = c.name /\ view[i].input = c.partial
      BY <3>4 DEF O!Call
    <3> QED BY <3>3, <3>5 DEF c
  <2> QED BY <2>4, <2>5, <2>6
<1> DEFINE tools == O!ChatCalls(b.chat)
<1>7. p.result.tools = tools /\ Sequence(tools)
  <2> HIDE DEF view
  <2>1. O!ChatCalls(view) = O!ChatCalls(b.chat) /\ Sequence(O!ChatCalls(b.chat))
    BY <1>3, <1>6, ChatAlike
  <2> QED BY <1>4, <2>1
<1>8. /\ whole.id = b.id /\ whole.usage = O!ToUsage(b.usage) /\ whole.tools = tools
      /\ whole.web = << >>
  <2> DEFINE out == O!OutputCalls(b.output)
             web == O!OutputWebRequests(b.output)
             both == out \o tools
             usage == O!ToUsage(b.usage)
  <2>1. whole = [id |-> b.id, usage |-> usage, tools |-> both, web |-> web, error |-> ""]
    BY DEF O!Completed
  <2>2. out = << >> /\ web = << >>
    BY <1>5, NothingListed
  <2> HIDE DEF tools, out, web, usage, whole
  <2>3. both = tools
    BY <1>7, <2>2, NothingConcat
  <2> HIDE DEF both
  <2>4. whole.id = b.id /\ whole.usage = usage /\ whole.tools = both /\ whole.web = web
    BY <2>1
  <2> QED BY <2>2, <2>3, <2>4 DEF usage
<1> HIDE DEF tools, whole
<1>9. NotWeb(tools, << >>) = tools
  <2> DEFINE e == << >>
             I == {i \in DOMAIN tools : tools[i].id \notin A!Ids(e)}
  <2>1. A!Ids(e) = {}
    BY EmptySequence DEF A!Ids
  <2>2. NotWeb(tools, e) = A!Selected(tools, I)
    BY DEF NotWeb
  <2> HIDE DEF e
  <2>3. DOMAIN tools \subseteq I
    BY <2>1
  <2> HIDE DEF I
  <2>4. A!Selected(tools, I) = tools
    BY <1>7, <2>3, SelectedAll
  <2> QED BY <2>2, <2>4 DEF e
<1>10. SameCalls(NotWeb(p.result.tools, whole.web), whole.tools)
  BY <1>7, <1>8, <1>9, SameAsItself
<1>11. SameCalls(p.result.web, whole.web)
  BY <1>4, <1>8, SameAsItself DEF ChBegun
<1>12. p.result.error = b.error /\ OnShape(p)
  BY <1>4, <1>5 DEF ChBegun
<1>13. told => p.result.usage = whole.usage
  BY <1>2, <1>8 DEF ChAll
<1> QED BY <1>2, <1>4, <1>8, <1>10, <1>11, <1>12, <1>13 DEF Accounted, whole

----------------------------------------------------------------------------
(* Both providers' parsers, when m of the events have come.                *)
LEMMA AnAtFirst == ASSUME NEW b, NEW w PROVE AnAt(b, w, 0, A!Start)
<1> DEFINE p == A!Start
           f == FALSE
           u == A!ToUsage(A!NoUsage)
           n == A!NoUsage
<1>1. /\ p = [result |-> [id |-> "", usage |-> u, tools |-> << >>, web |-> << >>, error |-> ""],
              usage |-> n, calls |-> << >>, terminal |-> f, malformed |-> f]
      /\ n \in [A!UsageFields -> Int] /\ f \in BOOLEAN
  BY DEF A!Start, A!NoUsage, A!Absent
<1> HIDE DEF p, f, u, n
<1>2. /\ AnShape(p) /\ p.usage = n /\ p.calls = << >>
      /\ p.result.error = "" /\ p.result.usage = u
      /\ p.result.tools = << >> /\ p.result.web = << >>
  BY <1>1 DEF AnShape, ResultFields
<1>3. AnFresh(p)
  BY <1>2 DEF AnFresh, u, n
<1>4. AnAt(b, w, 0, p)
  BY <1>3 DEF AnAt
<1> QED BY <1>4 DEF p

----------------------------------------------------------------------------
(* A body as the provider streams it: its events, one of the ways to do    *)
(* so, and the parser when m of them have come.                            *)
BodyEvents(x, w, d) ==
  IF x.provider = "anthropic" THEN A!Events(x.body, w) ELSE O!Events(x.body, w, d)

StreamedAs(x, w, d) ==
  /\ w \in BOOLEAN /\ d \in 0..O!MaxNestDepth
  /\ Told(x, BodyEvents(x, w, d))
  /\ IF x.provider = "anthropic"
     THEN /\ A!WellFormed(x.body)
          /\ x.plain => \A i \in DOMAIN x.body.content :
                          A!IsWeb(x.body.content[i]) => x.body.content[i].name # ""
     ELSE /\ OnWell(x.body)
          /\ x.reported /\ x.body.chat # << >> => w /\ x.body.usage # O!NoUsage

ParserAt(x, w, m, p) ==
  IF x.provider = "anthropic" THEN AnAt(x.body, w, m, p)
  ELSE IF x.body.chat = << >> THEN OnStreamAt(x.body, m, p)
  ELSE ChAt(x.body, w, m, p)

LEMMA StreamedSomehow ==
  ASSUME NEW x \in Exchanges, x.complete
  PROVE  \E w, d : StreamedAs(x, w, d)
<1>1. StreamsBody(x) /\ WellNamed(x.provider, x.body)
  BY StreamsAssumption
<1>2. CASE x.provider = "anthropic"
  <2>1. PICK w \in BOOLEAN : Told(x, A!Events(x.body, w))
    BY <1>1, <1>2 DEF StreamsBody
  <2>2. 0 \in 0..O!MaxNestDepth
    BY DEF O!MaxNestDepth
  <2>3. StreamedAs(x, w, 0)
    BY <1>1, <1>2, <2>1, <2>2 DEF StreamsBody, StreamedAs, BodyEvents
  <2> QED BY <2>3
<1>3. CASE x.provider # "anthropic"
  <2>1. PICK w \in BOOLEAN, d \in 0..O!MaxNestDepth :
          /\ Told(x, O!Events(x.body, w, d))
          /\ x.reported /\ x.body.chat # << >> => w /\ x.body.usage # O!NoUsage
    BY <1>1, <1>3 DEF StreamsBody
  <2>2. OnWell(x.body)
    BY <1>1, <1>3 DEF StreamsBody, WellNamed, OnWell
  <2>3. StreamedAs(x, w, d)
    BY <1>3, <2>1, <2>2 DEF StreamedAs, BodyEvents
  <2> QED BY <2>3
<1> QED BY <1>2, <1>3

LEMMA ParserAtFirst ==
  ASSUME NEW x, NEW w, NEW d, StreamedAs(x, w, d)
  PROVE  ParserAt(x, w, 0, NewStreamParser(x.provider))
<1>1. CASE x.provider = "anthropic"
  BY <1>1, AnAtFirst DEF ParserAt, NewStreamParser
<1>2. CASE x.provider # "anthropic"
  <2>1. OnWell(x.body)
    BY <1>2 DEF StreamedAs
  <2> QED BY <1>2, <2>1, OnAtFirst, ChAtFirst DEF ParserAt, NewStreamParser
<1> QED BY <1>1, <1>2

LEMMA ParserAtNext ==
  ASSUME NEW x, NEW w, NEW d, StreamedAs(x, w, d),
         NEW m \in Nat, m < Len(BodyEvents(x, w, d)), NEW p, ParserAt(x, w, m, p)
  PROVE  ParserAt(x, w, m + 1, Handle(x.provider, p, BodyEvents(x, w, d)[m + 1]))
<1> DEFINE b == x.body
           E == BodyEvents(x, w, d)
           q == Handle(x.provider, p, E[m + 1])
<1>1. w \in BOOLEAN /\ d \in 0..O!MaxNestDepth
  BY DEF StreamedAs
<1>2. CASE x.provider = "anthropic"
  <2>1. E = A!Events(b, w) /\ A!WellFormed(b) /\ AnAt(b, w, m, p)
    BY <1>2 DEF StreamedAs, BodyEvents, ParserAt
  <2>2. AnAt(b, w, m + 1, A!Handle(p, A!Events(b, w)[m + 1]))
    BY <1>1, <2>1, AnAtNext
  <2> QED BY <1>2, <2>1, <2>2 DEF ParserAt, Handle
<1>3. CASE x.provider # "anthropic" /\ b.chat = << >>
  <2>1. E = O!Events(b, w, d) /\ OnWell(b) /\ OnStreamAt(b, m, p)
    BY <1>3 DEF StreamedAs, BodyEvents, ParserAt
  <2>2. OnStreamAt(b, m + 1, O!Handle(p, O!Events(b, w, d)[m + 1]))
    BY <1>1, <1>3, <2>1, OnAtNext
  <2> QED BY <1>3, <2>1, <2>2 DEF ParserAt, Handle
<1>4. CASE x.provider # "anthropic" /\ b.chat # << >>
  <2>1. E = O!Events(b, w, d) /\ OnWell(b) /\ ChAt(b, w, m, p)
    BY <1>4 DEF StreamedAs, BodyEvents, ParserAt
  <2>2. ChAt(b, w, m + 1, O!Handle(p, O!Events(b, w, d)[m + 1]))
    BY <1>1, <1>4, <2>1, ChAtNext
  <2> QED BY <1>4, <2>1, <2>2 DEF ParserAt, Handle
<1> QED BY <1>2, <1>3, <1>4

\* A flag that is raised changes nothing of it.
LEMMA ParserAtStill ==
  ASSUME NEW x, NEW w, NEW m, NEW p, ParserAt(x, w, m, p), Says(x, p), NEW flag
  PROVE  ParserAt(x, w, m, [p EXCEPT !.malformed = flag])
<1> DEFINE q == [p EXCEPT !.malformed = flag]
           b == x.body
<1>1. CASE x.provider = "anthropic"
  <2>1. AnInv(b, p) /\ AnAt(b, w, m, p)
    BY <1>1 DEF Says, ParserAt
  <2>2. /\ AnShape(q) /\ q.calls = p.calls /\ q.terminal = p.terminal /\ q.result = p.result
        /\ q.usage = p.usage
    BY <2>1 DEF AnInv, AnShape
  <2> HIDE DEF q, b
  <2>3. AnAt(b, w, m, q)
    BY <2>1, <2>2, AnAtStill
  <2> QED BY <1>1, <2>3 DEF ParserAt, q, b
<1>2. CASE x.provider # "anthropic"
  <2>1. OnSays(b, p) /\ (IF b.chat = << >> THEN OnStreamAt(b, m, p) ELSE ChAt(b, w, m, p))
    BY <1>2 DEF Says, ParserAt
  <2>2. /\ OnShape(q) /\ q.calls = p.calls /\ q.chat = p.chat /\ q.terminal = p.terminal
        /\ q.result = p.result
    BY <2>1 DEF OnSays, OnShape
  <2> HIDE DEF q, b
  <2>3. IF b.chat = << >> THEN OnStreamAt(b, m, q) ELSE ChAt(b, w, m, q)
    BY <2>1, <2>2, OnAtStill, ChAtStill
  <2> QED BY <1>2, <2>3 DEF ParserAt, q, b
<1> QED BY <1>1, <1>2

LEMMA ParserAtEnd ==
  ASSUME NEW x, NEW w, NEW d, StreamedAs(x, w, d),
         NEW p, ParserAt(x, w, Len(BodyEvents(x, w, d)), p)
  PROVE  Accounted(ExtractCompleted(x.provider, x.body), x.body.error, x.reported, x.plain, p)
<1> DEFINE b == x.body
           told == x.reported
           plain == x.plain
<1>1. w \in BOOLEAN /\ d \in 0..O!MaxNestDepth
  BY DEF StreamedAs
<1>2. CASE x.provider = "anthropic"
  <2>1. /\ A!WellFormed(b) /\ AnAt(b, w, Len(A!Events(b, w)), p)
        /\ plain => \A i \in DOMAIN b.content : A!IsWeb(b.content[i]) => b.content[i].name # ""
        /\ ExtractCompleted(x.provider, b) = A!Completed(b)
    BY <1>2 DEF StreamedAs, BodyEvents, ParserAt, ExtractCompleted
  <2> HIDE DEF b, told, plain
  <2>2. Accounted(A!Completed(b), b.error, TRUE, plain, p)
    BY <1>1, <2>1, AnAgrees
  <2>3. Accounted(A!Completed(b), b.error, told, plain, p)
    BY <2>2 DEF Accounted
  <2> QED BY <2>1, <2>3 DEF b, told, plain
<1>3. CASE x.provider # "anthropic" /\ b.chat = << >>
  <2>1. OnWell(b) /\ OnStreamAt(b, Len(O!Events(b, w, d)), p)
        /\ ExtractCompleted(x.provider, b) = O!Completed(b)
    BY <1>3 DEF StreamedAs, BodyEvents, ParserAt, ExtractCompleted
  <2> DEFINE l == Len(OnFlat(b))
  <2>2. l \in Nat /\ Len(O!Events(b, w, d)) = l + 1
    BY <1>1, <1>3, <2>1, OnStreamIs DEF OnStream
  <2>3. l + 1 \notin 0..l
    BY <2>2
  <2>4. OnSettled(b, p)
    <3> HIDE DEF b
    <3> QED BY <2>1, <2>2, <2>3 DEF OnStreamAt
  <2>5. Accounted(O!Completed(b), b.error, told, plain, p)
    BY <2>4 DEF OnSettled
  <2> QED BY <2>1, <2>5
<1>4. CASE x.provider # "anthropic" /\ b.chat # << >>
  <2>1. /\ OnWell(b) /\ ChAt(b, w, Len(O!Events(b, w, d)), p)
        /\ told => w /\ b.usage # O!NoUsage
        /\ ExtractCompleted(x.provider, b) = O!Completed(b)
    BY <1>4 DEF StreamedAs, BodyEvents, ParserAt, ExtractCompleted
  <2> HIDE DEF b, told, plain
  <2>2. Accounted(O!Completed(b), b.error, told, plain, p)
    BY <1>1, <1>4, <2>1, ChAgrees
  <2> QED BY <2>1, <2>2 DEF b, told, plain
<1> QED BY <1>2, <1>3, <1>4

LEMMA BodyEventsAre ==
  ASSUME NEW x, NEW w, NEW d, StreamedAs(x, w, d)
  PROVE  Sequence(BodyEvents(x, w, d))
<1>1. w \in BOOLEAN
  BY DEF StreamedAs
<1>2. CASE x.provider = "anthropic"
  <2>1. A!WellFormed(x.body)
    BY <1>2 DEF StreamedAs
  <2> QED BY <1>1, <1>2, <2>1, AnStreamIs DEF AnStream, BodyEvents
<1>3. CASE x.provider # "anthropic"
  <2>1. OnWell(x.body)
    BY <1>3 DEF StreamedAs
  <2>2. CASE x.body.chat = << >>
    BY <1>1, <1>3, <2>1, <2>2, OnStreamIs DEF OnStream, BodyEvents
  <2>3. CASE x.body.chat # << >>
    BY <1>1, <1>3, <2>1, <2>3, ChStreamIs DEF ChStream, BodyEvents
  <2> QED BY <2>2, <2>3
<1> QED BY <1>2, <1>3

----------------------------------------------------------------------------
(* How many of the first k frames hold an event.                           *)
Heeded(x, k) == Len(PlacesUpto(Len(x.frames), Proper(x), k))

LEMMA HeededFirst ==
  ASSUME NEW x \in Exchanges
  PROVE  Heeded(x, 0) = 0
<1>1. Len(x.frames) \in Nat
  BY StreamsAssumption, LenProperties
<1> DEFINE n == Len(x.frames)
           N == Proper(x)
<1> HIDE DEF n, N
<1>2. PlacesUpto(n, N, 0) = << >>
  BY <1>1, PlacesStep DEF n
<1> QED BY <1>2, EmptySequence DEF Heeded, n, N

\* Each event of the body is in the next of these frames.
LEMMA HeededIs ==
  ASSUME NEW x \in Exchanges, NEW w, NEW d, StreamedAs(x, w, d)
  PROVE  LET E == BodyEvents(x, w, d)
             n == Len(x.frames)
             P == PlacesUpto(n, Proper(x), n)
         IN  /\ Sequence(P) /\ Len(P) = Len(E) /\ Heeded(x, n) = Len(E)
             /\ \A m \in DOMAIN P : Parsed(x)[P[m]] = <<E[m]>>
<1> DEFINE E == BodyEvents(x, w, d)
           n == Len(x.frames)
           I == Proper(x)
           P == PlacesUpto(n, I, n)
           s == Parsed(x)
           u == A!Selected(s, I)
<1>1. Sequence(x.frames) /\ n \in Nat /\ DOMAIN x.frames = 1..n
  <2>1. x.frames \in Seq(Seq(Token))
    BY StreamsAssumption
  <2> QED BY <2>1, SequenceIs DEF Sequence
<1>2. Sequence(s) /\ Len(s) = n
  <2>1. DOMAIN s = DOMAIN x.frames /\ s = [i \in DOMAIN x.frames |-> s[i]]
    BY DEF Parsed
  <2> HIDE DEF s
  <2>2. Sequence(s)
    BY <1>1, <2>1, SequenceLike
  <2>3. DOMAIN s = 1..Len(s) /\ Len(s) \in Nat
    BY <2>2, SequenceIs
  <2> QED BY <1>1, <2>1, <2>2, <2>3, SameLength
<1>3. Sequence(P)
  <2>1. n \in 0..n
    BY <1>1
  <2> HIDE DEF n, I
  <2> QED BY <1>1, <2>1, PlacesAre
<1>4. u = [e \in DOMAIN E |-> <<E[e]>>]
  BY DEF StreamedAs, Told
<1>5. Sequence(E)
  BY BodyEventsAre
<1> HIDE DEF s, I, E, u, n
<1>6. AtPlaces(s, u, PlacesUpto(n, I, n))
  <2>1. AtPlaces(s, A!Selected(s, I), PlacesUpto(Len(s), I, Len(s)))
    BY <1>2, SelectedAtPlaces
  <2> QED BY <1>2, <2>1 DEF u
<1> HIDE DEF P
<1>7. Sequence(u) /\ Len(u) = Len(P) /\ \A m \in DOMAIN u : u[m] = s[P[m]]
  BY <1>6 DEF AtPlaces, P
<1>8. DOMAIN u = DOMAIN E /\ \A e \in DOMAIN E : u[e] = <<E[e]>>
  BY <1>4
<1>9. /\ DOMAIN u = 1..Len(u) /\ Len(u) \in Nat /\ DOMAIN E = 1..Len(E) /\ Len(E) \in Nat
      /\ DOMAIN P = 1..Len(P) /\ Len(P) \in Nat
  BY <1>3, <1>5, <1>7, SequenceIs
<1>10. Len(u) = Len(E)
  BY <1>8, <1>9, SameLength
<1>11. \A m \in DOMAIN P : s[P[m]] = <<E[m]>>
  BY <1>7, <1>8, <1>9, <1>10
<1>12. Heeded(x, n) = Len(P)
  BY DEF Heeded, P, n, I
<1> QED BY <1>3, <1>7, <1>10, <1>11, <1>12 DEF E, n, I, P, s

LEMMA HeededNext ==
  ASSUME NEW x \in Exchanges, NEW w, NEW d, StreamedAs(x, w, d),
         NEW k \in Nat, k < Len(x.frames)
  PROVE  LET E == BodyEvents(x, w, d)
             m == Heeded(x, k)
         IN  /\ m \in Nat
             /\ IF k + 1 \in Proper(x)
                THEN m < Len(E) /\ Heeded(x, k + 1) = m + 1 /\ Parsed(x)[k + 1] = <<E[m + 1]>>
                ELSE Heeded(x, k + 1) = m
<1> DEFINE E == BodyEvents(x, w, d)
           m == Heeded(x, k)
           n == Len(x.frames)
           I == Proper(x)
           P == PlacesUpto(n, I, n)
           before == PlacesUpto(n, I, k)
           after == PlacesUpto(n, I, k + 1)
           s == Parsed(x)
<1>1. n \in Nat
  BY StreamsAssumption, LenProperties
<1>2. Sequence(P) /\ Len(P) = Len(E) /\ \A i \in DOMAIN P : s[P[i]] = <<E[i]>>
  BY HeededIs
<1> HIDE DEF n, I, s, E
<1>3. k < n /\ k \in 0..n /\ k + 1 \in 0..n /\ n \in (k + 1)..n
  BY <1>1 DEF n
<1>4. after = IF k + 1 \in I THEN Append(before, k + 1) ELSE before
  <2> QED BY <1>1, <1>3, PlacesNext
<1>5. Sequence(before)
  BY <1>1, <1>3, PlacesAre
<1>6. Begins(after, P)
  BY <1>1, <1>3, PlacesGrow
<1>7. m = Len(before) /\ Heeded(x, k + 1) = Len(after)
  BY DEF Heeded, n, I
<1> HIDE DEF before, after, P, m
<1>8. m \in Nat
  BY <1>5, <1>7, SequenceIs
<1>9. CASE k + 1 \in I
  <2>1. after = Append(before, k + 1)
    BY <1>4, <1>9
  <2>2. Sequence(after) /\ Len(after) = m + 1 /\ after[m + 1] = k + 1
    BY <1>5, <1>7, <2>1, SequenceAppend
  <2>3. Len(P) \in Nat /\ DOMAIN P = 1..Len(P)
    BY <1>2, SequenceIs
  <2>4. m + 1 \in DOMAIN P /\ P[m + 1] = k + 1 /\ m < Len(P)
    BY <1>6, <1>8, <2>2, <2>3 DEF Begins
  <2>5. s[k + 1] = <<E[m + 1]>>
    BY <1>2, <2>4
  <2> QED BY <1>2, <1>7, <1>8, <1>9, <2>2, <2>4, <2>5 DEF m, s, E, I
<1>10. CASE k + 1 \notin I
  BY <1>4, <1>7, <1>8, <1>10 DEF m, I
<1> QED BY <1>9, <1>10

\* A frame without the blank line that ends it.
LEMMA ContentIs ==
  ASSUME NEW q \in Seq(Token), NEW d \in BlankLines
  PROVE  Content(q \o d) = q
<1> DEFINE f == q \o d
           n == Len(q)
<1>1. n \in Nat /\ LF \in Token /\ CR \in Token /\ LF # CR
  BY SseAssumption, LenProperties
<1>2. CASE d = <<LF, LF>>
  <2>1. d \in Seq(Token) /\ Len(d) = 2 /\ d[1] = LF
    BY <1>1, <1>2
  <2>2. f \in Seq(Token) /\ Len(f) = n + 2 /\ f[n + 1] = LF
    <3> DEFINE l == Len(d)
    <3>1. f \in Seq(Token)
      BY <2>1, ConcatProperties
    <3>2. l = 2 /\ 1 \in 1..l
      BY <2>1
    <3>3. Spliced(q, d, f)
      <4>1. Sequence(q) /\ Sequence(d)
        BY <2>1 DEF Sequence
      <4> QED BY <4>1, ConcatSplices
    <3> HIDE DEF f
    <3>4. Len(f) = n + l /\ \A i \in 1..l : f[n + i] = d[i]
      BY <3>3 DEF Spliced
    <3> HIDE DEF n, l
    <3> QED BY <2>1, <3>1, <3>2, <3>4
  <2>3. SubSeq(f, 1, n) = q
    BY <2>1
  <2> HIDE DEF f, n
  <2>4. Len(f) - 1 = n + 1 /\ Len(f) - 2 = n
    BY <1>1, <2>2
  <2>5. Content(f) = SubSeq(f, 1, n)
    BY <2>2, <2>4 DEF Content
  <2> QED BY <2>3, <2>5 DEF f
<1>3. CASE d = <<CR, LF, CR, LF>>
  <2>1. d \in Seq(Token) /\ Len(d) = 4 /\ d[3] = CR
    BY <1>1, <1>3
  <2>2. f \in Seq(Token) /\ Len(f) = n + 4 /\ f[n + 3] = CR
    <3> DEFINE l == Len(d)
    <3>1. f \in Seq(Token)
      BY <2>1, ConcatProperties
    <3>2. l = 4 /\ 3 \in 1..l
      BY <2>1
    <3>3. Spliced(q, d, f)
      <4>1. Sequence(q) /\ Sequence(d)
        BY <2>1 DEF Sequence
      <4> QED BY <4>1, ConcatSplices
    <3> HIDE DEF f
    <3>4. Len(f) = n + l /\ \A i \in 1..l : f[n + i] = d[i]
      BY <3>3 DEF Spliced
    <3> HIDE DEF n, l
    <3> QED BY <2>1, <3>1, <3>2, <3>4
  <2>3. SubSeq(f, 1, n) = q
    BY <2>1
  <2> HIDE DEF f, n
  <2>4. Len(f) - 1 = n + 3 /\ Len(f) - 4 = n
    BY <1>1, <2>2
  <2>5. Content(f) = SubSeq(f, 1, n)
    BY <1>1, <2>2, <2>4 DEF Content
  <2> QED BY <2>3, <2>5 DEF f
<1> QED BY <1>2, <1>3, Zenon DEF BlankLines

\* The handler is given the content of the frame that is next.
LEMMA HandedContent ==
  ASSUME SseIInv, AsSent, HandleFrame
  PROVE  frames'[Len(frames')] = Content(exchange.frames[Len(frames')])
<1> DEFINE k == Len(frames')
<1>1. AsSent' /\ SseIInv' /\ exchange' = exchange
  BY FrameAsSent, SseInduction, FrameKeeps DEF HandleFrame
<1>2. k = Len(frames) + 1 /\ frames' \in Seq(Seq(Token)) /\ Len(frames) \in Nat
  BY <1>1, HandedOver, LenProperties DEF SseIInv, SseTypeOK
<1>3. k \in 1..Len(frames') /\ k \in DOMAIN frames'
  BY <1>2
<1>4. PICK d \in BlankLines : exchange.frames[k] = frames'[k] \o d
  BY <1>1, <1>3 DEF AsSent
<1>5. frames'[k] \in Seq(Token)
  <2> HIDE DEF k
  <2> QED BY <1>2, <1>3, ElementOfSeq, SMT
<1> HIDE DEF k
<1>6. Content(frames'[k] \o d) = frames'[k]
  BY <1>5, ContentIs
<1>7. Content(exchange.frames[k]) = frames'[k]
  BY <1>4, <1>6
<1> QED BY <1>7 DEF k

----------------------------------------------------------------------------
(* The inductive invariant: the parser stands where the events of the      *)
(* frames that it has been given lead.                                     *)
Standing ==
  \A w, d : exchange.complete /\ ~ latched /\ StreamedAs(exchange, w, d) =>
    ParserAt(exchange, w, Heeded(exchange, Len(frames)), parser)

Judged == outcome # "none" /\ parser.terminal => outcome = "ok"

\* A frame without an event shows a parser nothing but, perhaps, an error.
LEMMA Unheeded ==
  ASSUME NEW x, NEW i \in DOMAIN x.frames, i \notin Proper(x), Parsed(x)[i] # << >>, NEW p
  PROVE  LET flag == TRUE
         IN  Handle(x.provider, p, Parsed(x)[i][1]) = [p EXCEPT !.malformed = flag]
<1> DEFINE e == Parsed(x)[i][1]
           flag == TRUE
           q == [p EXCEPT !.malformed = flag]
<1>1. e.type = "malformed"
  BY DEF Proper
<1> HIDE DEF e, flag
<1>2. CASE x.provider = "anthropic"
  <2>1. A!Handle(p, e) = q
    BY <1>1 DEF A!Handle, flag
  <2> QED BY <1>2, <2>1 DEF Handle, e, flag
<1>3. CASE x.provider # "anthropic"
  <2>1. O!HandleInner(p, e) = q
    BY <1>1 DEF O!HandleInner, flag
  <2>2. O!Handle(p, e) = q
    BY <2>1 DEF O!Handle, flag
  <2> QED BY <1>3, <2>2 DEF Handle, e, flag
<1> QED BY <1>2, <1>3

LEMMA FrameStands ==
  ASSUME ContractIInv, Standing, HandleFrame
  PROVE  Standing'
<1> DEFINE x == exchange
           k == Len(frames)
           event == Parse(x, frames'[Len(frames')])
<1>1. SseIInv /\ AsSent /\ Says(x, parser) /\ x \in Exchanges
  BY DEF ContractIInv, Heard, AsSent
<1>2. /\ Len(frames') = k + 1 /\ k < Len(x.frames) /\ k + 1 \in DOMAIN x.frames
      /\ exchange' = x /\ latched' = latched
  BY <1>1, HandedOver DEF HandleFrame, Frame
<1>3. k \in Nat
  BY <1>1, LenProperties DEF SseIInv, SseTypeOK
<1>4. event = Parsed(x)[k + 1]
  <2>1. frames'[Len(frames')] = Content(x.frames[Len(frames')])
    BY <1>1, HandedContent
  <2> QED BY <1>2, <2>1 DEF Parsed
<1>5. parser' = IF event = << >> THEN parser ELSE Handle(x.provider, parser, event[1])
  BY DEF HandleFrame
<1> HIDE DEF event, k
<1> SUFFICES ASSUME NEW w, NEW d, x.complete, ~ latched, StreamedAs(x, w, d)
             PROVE  ParserAt(x, w, Heeded(x, k + 1), parser')
  BY <1>2 DEF Standing
<1> DEFINE m == Heeded(x, k)
           E == BodyEvents(x, w, d)
<1>6. ParserAt(x, w, m, parser)
  BY DEF Standing, k
<1>7. /\ m \in Nat
      /\ IF k + 1 \in Proper(x)
         THEN m < Len(E) /\ Heeded(x, k + 1) = m + 1 /\ event = <<E[m + 1]>>
         ELSE Heeded(x, k + 1) = m
  BY <1>1, <1>2, <1>3, <1>4, HeededNext
<1>8. CASE k + 1 \in Proper(x)
  <2> DEFINE e == E[m + 1]
  <2>1. event = <<e>> /\ m < Len(E) /\ Heeded(x, k + 1) = m + 1
    BY <1>7, <1>8
  <2>2. ParserAt(x, w, m + 1, Handle(x.provider, parser, e))
    BY <1>6, <1>7, <2>1, ParserAtNext
  <2> HIDE DEF e, m, E, x
  <2>3. event # << >> /\ event[1] = e
    BY <2>1
  <2>4. parser' = Handle(x.provider, parser, e)
    BY <1>5, <2>3
  <2> QED BY <2>1, <2>2, <2>4
<1>9. CASE k + 1 \notin Proper(x)
  <2>1. Heeded(x, k + 1) = m
    BY <1>7, <1>9
  <2>2. CASE event = << >>
    BY <1>5, <1>6, <2>1, <2>2
  <2>3. CASE event # << >>
    <3> DEFINE flag == TRUE
               q == [parser EXCEPT !.malformed = flag]
    <3>1. Handle(x.provider, parser, event[1]) = q
      BY <1>2, <1>4, <1>9, <2>3, Unheeded
    <3>2. ParserAt(x, w, m, q)
      BY <1>1, <1>6, ParserAtStill
    <3> HIDE DEF q, m, x
    <3> QED BY <1>5, <2>1, <2>3, <3>1, <3>2
  <2> QED BY <2>2, <2>3
<1> QED BY <1>8, <1>9

LEMMA ReceiveStands ==
  ASSUME ContractIInv, Standing, NEW n, Receive(n)
  PROVE  Standing'
<1> DEFINE flag == parser.malformed \/ latched'
           q == [parser EXCEPT !.malformed = flag]
<1>1. /\ parser' = q /\ exchange' = exchange /\ frames' = frames
      /\ ~ latched' => ~ latched
  BY DEF Receive, Feed
<1>2. Says(exchange, parser)
  BY DEF ContractIInv, Heard
<1>3. \A w, m : ParserAt(exchange, w, m, parser) => ParserAt(exchange, w, m, q)
  BY <1>2, ParserAtStill
<1> HIDE DEF q
<1> QED BY <1>1, <1>3 DEF Standing

AgreesIInv == ContractIInv /\ Standing /\ Judged

LEMMA AgreesInitially ==
  ASSUME StreamsInit
  PROVE  AgreesIInv
<1>1. ContractIInv
  BY ContractInitially
<1>2. exchange \in Exchanges /\ parser = NewStreamParser(exchange.provider) /\ outcome = "none"
  BY DEF StreamsInit
<1>3. Len(frames) = 0
  BY EmptySequence DEF StreamsInit, SseStart
<1>4. Heeded(exchange, Len(frames)) = 0
  BY <1>2, <1>3, HeededFirst
<1>5. Standing
  BY <1>2, <1>4, ParserAtFirst DEF Standing
<1> QED BY <1>1, <1>2, <1>5 DEF AgreesIInv, Judged

LEMMA AgreesInduction ==
  ASSUME AgreesIInv, [StreamsNext]_streamVars
  PROVE  AgreesIInv'
<1>1. ContractIInv /\ Standing /\ Judged
  BY DEF AgreesIInv
<1>2. ContractIInv'
  BY <1>1, ContractSteps
<1>3. CASE \E n \in 1..MaxChunk : Receive(n)
  <2>1. PICK n \in 1..MaxChunk : Receive(n)
    BY <1>3
  <2>2. Standing'
    BY <1>1, <2>1, ReceiveStands
  <2>3. outcome' = "none"
    BY <2>1 DEF Receive
  <2> QED BY <1>2, <2>2, <2>3 DEF AgreesIInv, Judged
<1>4. CASE HandleFrame
  <2>1. Standing'
    BY <1>1, <1>4, FrameStands
  <2>2. outcome' = "none"
    BY <1>1, <1>4 DEF ContractIInv, Asked, HandleFrame, Frame
  <2> QED BY <1>2, <2>1, <2>2 DEF AgreesIInv, Judged
<1>5. CASE End
  <2>1. UNCHANGED <<sseVars, exchange, parser>>
    BY <1>5 DEF End
  <2>2. Standing'
    BY <1>1, <2>1 DEF Standing, sseVars
  <2>3. parser.terminal => outcome' = "ok"
    BY <1>5 DEF End
  <2> QED BY <1>2, <2>1, <2>2, <2>3 DEF AgreesIInv, Judged
<1>6. CASE UNCHANGED streamVars
  BY <1>1, <1>2, <1>6 DEF streamVars, sseVars, AgreesIInv, Standing, Judged
<1> QED BY <1>3, <1>4, <1>5, <1>6 DEF StreamsNext

\* When a response has been fed whole, all of its frames have been cut off.
LEMMA AllHandedOver ==
  ASSUME SseIInv, AsSent, Idle, ~ latched, fed = Len(wire)
  PROVE  Len(frames) = Len(exchange.frames)
<1>1. /\ Len(exchange.frames) \in Nat /\ Len(frames) \in Nat
      /\ buf \in Seq(Token) /\ Len(buf) \in Nat /\ cut \in Nat /\ Len(wire) \in Nat
      /\ Len(frames) <= Len(exchange.frames)
  BY StreamsAssumption, LenProperties DEF AsSent, SseIInv, SseTypeOK
<1>2. cut + Len(buf) = Len(wire)
  BY DEF SseIInv, BufferIsTheRest
<1> SUFFICES ASSUME Len(frames) < Len(exchange.frames) PROVE FALSE
  BY <1>1
<1>3. /\ OfOneFrame(Coming) /\ Agree(buf, Coming) /\ Len(Coming) \in Nat
      /\ cut + Len(Coming) <= Len(wire)
  BY BufferBeginsWithComing
<1>4. Len(buf) >= Len(Coming)
  BY <1>1, <1>2, <1>3
<1>5. Delimiters(buf) # {}
  BY <1>1, <1>3, <1>4, WholeFrame
<1> QED BY <1>5 DEF Idle

LEMMA StandingIsEnough ==
  ASSUME AgreesIInv
  PROVE  AgreesWithBody
<1> DEFINE x == exchange
           whole == ExtractCompleted(x.provider, x.body)
           r == parser.result
<1> SUFFICES ASSUME x.complete, ~ latched, outcome # "none", fed = Len(wire)
             PROVE  /\ outcome = "ok"
                    /\ r.id = whole.id
                    /\ r.error = x.body.error
                    /\ x.reported => r.usage = whole.usage
                    /\ SameCalls(NotWeb(r.tools, whole.web), whole.tools)
                    /\ x.plain => SameCalls(r.web, whole.web)
  BY Zenon DEF AgreesWithBody
<1>1. /\ SseIInv /\ AsSent /\ Idle /\ Standing /\ Judged /\ x \in Exchanges
  BY DEF AgreesIInv, ContractIInv, Asked, AsSent
<1>2. Len(frames) = Len(x.frames)
  BY <1>1, AllHandedOver
<1>3. PICK w, d : StreamedAs(x, w, d)
  BY <1>1, StreamedSomehow
<1> DEFINE E == BodyEvents(x, w, d)
<1>4. Heeded(x, Len(x.frames)) = Len(E)
  BY <1>1, <1>3, HeededIs
<1>5. ParserAt(x, w, Len(E), parser)
  BY <1>1, <1>2, <1>3, <1>4 DEF Standing
<1>6. Accounted(whole, x.body.error, x.reported, x.plain, parser)
  BY <1>3, <1>5, ParserAtEnd
<1> HIDE DEF whole
<1>7. outcome = "ok"
  BY <1>1, <1>6 DEF Judged, Accounted
<1> QED BY <1>6, <1>7 DEF Accounted

\* A response of either provider that was streamed to its end, in whatever
\* chunks and with whatever comments between its frames, is accounted for
\* like the same response in one body: the result is no error and has the
\* body's id, error, usage, tool calls and web requests.
THEOREM StreamsAgreesWithBody == StreamsSpec => []AgreesWithBody
<1>1. StreamsInit => AgreesIInv
  BY AgreesInitially
<1>2. AgreesIInv /\ [StreamsNext]_streamVars => AgreesIInv'
  BY AgreesInduction
<1>3. AgreesIInv => AgreesWithBody
  BY StandingIsEnough
<1> QED BY <1>1, <1>2, <1>3, PTL DEF StreamsSpec
============================================================================
