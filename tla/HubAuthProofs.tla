--------------------------- MODULE HubAuthProofs ----------------------------
(***************************************************************************)
(* Theorems about HubAuth, for any number of clients, addresses, keys and  *)
(* handlers and any durations.                                             *)
(*                                                                         *)
(* A request that a client waits for is its own and is being served        *)
(* (OwnRequest).  A challenge that opened a session, or is about to, is no *)
(* longer in the hub's map and in no other handler's hands (Consuming).    *)
(* What the hub is about to answer is honoured (Answers), and so is what a *)
(* client keeps, for as long as is left of it by the hub's clock (Kept).   *)
(***************************************************************************)
EXTENDS HubAuth, FiniteSetTheorems, TLAPS

OwnRequest ==
  \A c \in Client : logins[c].pc = "await" =>
    /\ requests[logins[c].handler].pc # "free"
    /\ requests[logins[c].handler].from = c

Types ==
  /\ HubAuthTypeOK
  /\ IsFiniteSet(DOMAIN challenges)
  /\ OwnRequest

Consuming ==
  /\ \A i \in spent : i \notin DOMAIN challenges
  /\ \A h \in Serving({"mint"}) : requests[h].id \notin DOMAIN challenges

Answers ==
  \A h \in Serving({"accepted"}) : requests[h].left > 0 =>
    /\ requests[h].value \in DOMAIN sessions
    /\ sessions[requests[h].value] >= requests[h].left

\* What is left, by the hub's clock, of the credential that c keeps.
Remaining(c) == cached[c].left - Behind[c]

Kept ==
  \A c \in Client : cached[c].known /\ cached[c].left > 0 /\ Remaining(c) > 0 =>
    /\ cached[c].value \in DOMAIN sessions
    /\ sessions[cached[c].value] >= Remaining(c)

-----------------------------------------------------------------------------
(* Records, maps and failures.                                             *)

LEMMA Requests ==
  \A r \in Request :
    /\ r.pc = "free" => r = Free
    /\ r.pc \in {"permit", "verify", "mint", "fail", "limited", "rejected"} => r \in Pending
    /\ r.pc = "accepted" => r \in Granting
    /\ r.pc \in {"free", "permit", "verify", "mint", "fail", "limited", "rejected", "accepted"}
    /\ r.pc # "free" => /\ r.from \in Client \cup {None} /\ r.address \in Address
                        /\ r.id \in ChallengeId /\ r.key \in Key
  BY DEF Request, Free, Pending, Granting

LEMMA Logins ==
  \A l \in LoginState :
    /\ l.pc \in {"idle", "await", "use"}
    /\ l.pc = "idle" => l \in [pc : {"idle"}, wait : 0..RetryDelay]
    /\ l.pc = "await" =>
         l \in [pc : {"await"}, id : ChallengeId, key : Nat \ {0}, handler : Handler]
  BY DEF LoginState

\* A map with one more entry.
LEMMA Extended ==
  ASSUME NEW i, NEW x, NEW f
  PROVE  /\ DOMAIN With(f, i, x) = DOMAIN f \cup {i}
         /\ With(f, i, x)[i] = x
         /\ \A j \in DOMAIN f : j # i => With(f, i, x)[j] = f[j]
  BY DEF With

LEMMA GoneInRange ==
  ASSUME NEW s \in Seq(0..Window)
  PROVE  Gone(s) \in 0..Len(s)
<1>1. IsFiniteSet(DOMAIN s) /\ Cardinality(DOMAIN s) = Len(s)
  <2>1. DOMAIN s = 1..Len(s) /\ Len(s) \in Nat
    OBVIOUS
  <2>2. IsFiniteSet(1..Len(s)) /\ Cardinality(1..Len(s)) = IF 1 > Len(s) THEN 0 ELSE Len(s) - 1 + 1
    BY <2>1, FS_Interval
  <2> QED
    BY <2>1, <2>2
<1>2. {n \in DOMAIN s : s[n] =< 1} \in SUBSET DOMAIN s
  OBVIOUS
<1>3. /\ IsFiniteSet({n \in DOMAIN s : s[n] =< 1})
      /\ Cardinality({n \in DOMAIN s : s[n] =< 1}) <= Cardinality(DOMAIN s)
  BY <1>1, <1>2, FS_Subset
<1>4. Cardinality({n \in DOMAIN s : s[n] =< 1}) \in Nat
  BY <1>3, FS_CardinalityType
<1> QED
  BY <1>1, <1>3, <1>4 DEF Gone

\* Time takes no failure away but those that are too old, and adds none.
LEMMA FailuresAge ==
  ASSUME NEW s \in Seq(0..Window)
  PROVE  OlderSeq(s) \in Seq(0..Window) /\ Len(OlderSeq(s)) <= Len(s)
<1>1. Gone(s) \in 0..Len(s) /\ Window \in Nat /\ Len(s) \in Nat
  BY GoneInRange, HubAuthAssumption
<1> DEFINE k == Len(s) - Gone(s)
<1>2. k \in Nat /\ k <= Len(s)
  BY <1>1
<1>3. ASSUME NEW n \in 1..k PROVE Less(s[n + Gone(s)]) \in 0..Window
  <2>1. n + Gone(s) \in 1..Len(s)
    BY <1>1
  <2>2. \A S : \A t \in Seq(S) : \A m \in 1..Len(t) : t[m] \in S
    OBVIOUS
  <2> DEFINE v == s[n + Gone(s)]
  <2>3. v \in 0..Window
    BY <2>1, <2>2
  <2> HIDE DEF v
  <2>4. Less(v) \in 0..Window
    BY <1>1, <2>3 DEF Less
  <2> QED
    BY <2>4 DEF v
<1>4. OlderSeq(s) = [n \in 1..k |-> Less(s[n + Gone(s)])]
  BY DEF OlderSeq
<1> HIDE DEF k
<1>5. OlderSeq(s) \in Seq(0..Window) /\ Len(OlderSeq(s)) = k
  BY <1>2, <1>3, <1>4
<1> QED
  BY <1>2, <1>5

LEMMA FreeHandlerIsFree ==
  ASSUME FreeHandlers # {}
  PROVE  FreeHandler \in Handler /\ requests[FreeHandler].pc = "free"
  BY DEF FreeHandler, FreeHandlers, Serving

-----------------------------------------------------------------------------
(* Types.                                                                  *)

RequestTypes == requests \in [Handler -> Request] /\ OwnRequest

\* A step of a handler changes its request's state, and not whose it is.
LEMMA ServedOn ==
  ASSUME Types, NEW h \in Handler, NEW r \in Request,
         requests' = [requests EXCEPT ![h] = r],
         r.pc # "free", requests[h].pc # "free", r.from = requests[h].from,
         logins' = logins
  PROVE  RequestTypes'
<1>1. requests' \in [Handler -> Request]
  BY DEF Types, HubAuthTypeOK
<1>2. \A g \in Handler : requests'[g] = IF g = h THEN r ELSE requests[g]
  BY DEF Types, HubAuthTypeOK
<1>3. \A c \in Client : logins[c].pc = "await" => logins[c].handler \in Handler
  BY Logins DEF Types, HubAuthTypeOK
<1>4. OwnRequest'
  BY <1>2, <1>3 DEF Types, OwnRequest
<1> QED
  BY <1>1, <1>4 DEF RequestTypes

\* A client whose request is answered takes the handler with it.
LEMMA ReadByClient ==
  ASSUME Types, NEW c \in Client, logins[c].pc = "await",
         NEW l \in LoginState, l.pc # "await",
         requests' = Read(c), Goto(c, l)
  PROVE  RequestTypes' /\ logins' \in [Client -> LoginState]
<1>1. logins[c].handler \in Handler
  BY Logins DEF Types, HubAuthTypeOK
<1>2. requests' \in [Handler -> Request]
  BY <1>1 DEF Read, Types, HubAuthTypeOK, Request
<1>3. \A g \in Handler : g # logins[c].handler => requests'[g] = requests[g]
  BY <1>1 DEF Read, Types, HubAuthTypeOK
<1>4. /\ logins' \in [Client -> LoginState]
      /\ \A d \in Client : logins'[d] = IF d = c THEN l ELSE logins[d]
  BY DEF Goto, Types, HubAuthTypeOK
<1>5. \A d \in Client : logins[d].pc = "await" => logins[d].handler \in Handler
  BY Logins DEF Types, HubAuthTypeOK
<1>6. \A d \in Client \ {c} : logins[d].pc = "await" => logins[d].handler # logins[c].handler
  BY DEF Types, OwnRequest
<1>7. OwnRequest'
  BY <1>3, <1>4, <1>5, <1>6 DEF Types, OwnRequest
<1> QED
  BY <1>2, <1>4, <1>7 DEF RequestTypes

\* A new request goes to a handler that serves nobody.
LEMMA PutInFree ==
  ASSUME Types, FreeHandlers # {}, NEW r \in Request, r.pc # "free",
         requests' = [requests EXCEPT ![FreeHandler] = r]
  PROVE  /\ requests' \in [Handler -> Request]
         /\ requests'[FreeHandler] = r
         /\ \A g \in Handler : requests[g].pc # "free" => requests'[g] = requests[g]
  BY FreeHandlerIsFree DEF Types, HubAuthTypeOK

LEMMA WaitingIsIdle == Waiting \in LoginState /\ Waiting.pc = "idle"
  BY HubAuthAssumption DEF Waiting, LoginState

LEMMA IdleIsIdle == Idle \in LoginState /\ Idle.pc = "idle"
  BY HubAuthAssumption DEF Idle, LoginState

\* An idle client has no request.
LEMMA BackOffTypes ==
  ASSUME Types, NEW c \in Client, NEW l \in LoginState, l.pc # "await", Goto(c, l),
         requests' = requests
  PROVE  RequestTypes' /\ logins' \in [Client -> LoginState]
<1>1. /\ logins' \in [Client -> LoginState]
      /\ \A d \in Client : logins'[d] = IF d = c THEN l ELSE logins[d]
  BY DEF Goto, Types, HubAuthTypeOK
<1>2. OwnRequest'
  BY <1>1 DEF Types, OwnRequest
<1> QED
  BY <1>1, <1>2 DEF RequestTypes, Types, HubAuthTypeOK
ChallengesTyped(f) ==
  /\ DOMAIN f \subseteq ChallengeId
  /\ IsFiniteSet(DOMAIN f)
  /\ Cardinality(DOMAIN f) =< MaxChallenges
  /\ \A i \in DOMAIN f : f[i] \in 0..ChallengeTTL

SessionsTyped(f) ==
  /\ DOMAIN f \subseteq Credential
  /\ \A v \in DOMAIN f : f[v] \in 0..SessionTTL

LEMMA FewerChallenges ==
  ASSUME NEW f, ChallengesTyped(f), NEW D \in SUBSET DOMAIN f
  PROVE  IsFiniteSet(D) /\ Cardinality(D) =< MaxChallenges
<1>1. IsFiniteSet(D) /\ Cardinality(D) =< Cardinality(DOMAIN f)
  BY FS_Subset DEF ChallengesTyped
<1>2. Cardinality(D) \in Nat /\ Cardinality(DOMAIN f) \in Nat /\ MaxChallenges \in Nat
  BY <1>1, FS_CardinalityType, HubAuthAssumption DEF ChallengesTyped
<1> QED
  BY <1>1, <1>2 DEF ChallengesTyped

LEMMA WithoutTyped ==
  ASSUME NEW f, NEW x
  PROVE  /\ ChallengesTyped(f) => ChallengesTyped(Without(f, x))
         /\ SessionsTyped(f) => SessionsTyped(Without(f, x))
<1>1. DOMAIN Without(f, x) = DOMAIN f \ {x} /\ \A y \in DOMAIN f \ {x} : Without(f, x)[y] = f[y]
  BY DEF Without
<1>2. DOMAIN Without(f, x) \in SUBSET DOMAIN f
  BY <1>1
<1>3. ChallengesTyped(f) => ChallengesTyped(Without(f, x))
  BY <1>1, <1>2, FewerChallenges DEF ChallengesTyped
<1> QED
  BY <1>1, <1>3 DEF SessionsTyped

LEMMA OlderTyped ==
  ASSUME NEW f
  PROVE  /\ ChallengesTyped(f) => ChallengesTyped(Older(f))
         /\ SessionsTyped(f) => SessionsTyped(Older(f))
<1>1. /\ DOMAIN Older(f) = {y \in DOMAIN f : f[y] > 1}
      /\ \A y \in DOMAIN Older(f) : Older(f)[y] = f[y] - 1 /\ y \in DOMAIN f /\ f[y] > 1
  BY DEF Older
<1>2. DOMAIN Older(f) \in SUBSET DOMAIN f
  BY <1>1
<1>3. ChallengeTTL \in Nat /\ SessionTTL \in Nat
  BY HubAuthAssumption
<1>4. ASSUME ChallengesTyped(f) PROVE ChallengesTyped(Older(f))
  <2>1. \A y \in DOMAIN Older(f) : Older(f)[y] \in 0..ChallengeTTL
    BY <1>1, <1>3, <1>4 DEF ChallengesTyped
  <2> QED
    BY <1>2, <1>4, <2>1, FewerChallenges DEF ChallengesTyped
<1>5. ASSUME SessionsTyped(f) PROVE SessionsTyped(Older(f))
  <2>1. \A y \in DOMAIN Older(f) : Older(f)[y] \in 0..SessionTTL
    BY <1>1, <1>3, <1>5 DEF SessionsTyped
  <2> QED
    BY <1>2, <1>5, <2>1 DEF SessionsTyped
<1> QED
  BY <1>4, <1>5

\* A full map is left as it is.
LEMMA IssuedTyped ==
  ASSUME ChallengesTyped(challenges), NEW i \in ChallengeId
  PROVE  ChallengesTyped(Issued(i))
<1>1. CASE Cardinality(DOMAIN challenges) >= MaxChallenges
  BY <1>1 DEF Issued
<1>2. CASE ~ (Cardinality(DOMAIN challenges) >= MaxChallenges)
  <2>1. Issued(i) = With(challenges, i, ChallengeTTL)
    BY <1>2 DEF Issued
  <2>2. DOMAIN Issued(i) = DOMAIN challenges \cup {i}
    BY <2>1, Extended
  <2>3. /\ IsFiniteSet(DOMAIN challenges \cup {i})
        /\ Cardinality(DOMAIN challenges \cup {i}) =
             IF i \in DOMAIN challenges THEN Cardinality(DOMAIN challenges)
             ELSE Cardinality(DOMAIN challenges) + 1
    BY FS_AddElement DEF ChallengesTyped
  <2>4. Cardinality(DOMAIN challenges) \in Nat /\ MaxChallenges \in Nat /\ ChallengeTTL \in Nat
    BY FS_CardinalityType, HubAuthAssumption DEF ChallengesTyped
  <2>5. Cardinality(DOMAIN challenges \cup {i}) =< MaxChallenges
    BY <1>2, <2>3, <2>4
  <2>6. ASSUME NEW j \in DOMAIN Issued(i) PROVE Issued(i)[j] \in 0..ChallengeTTL
    <3>1. Issued(i)[j] = IF j = i THEN ChallengeTTL ELSE challenges[j]
      BY <2>1, <2>2, <2>6 DEF With
    <3>2. j # i => challenges[j] \in 0..ChallengeTTL
      BY <2>2, <2>6 DEF ChallengesTyped
    <3> QED
      BY <2>4, <3>1, <3>2
  <2> QED
    BY <2>2, <2>3, <2>5, <2>6 DEF ChallengesTyped
<1> QED
  BY <1>1, <1>2

LEMMA WithSession ==
  ASSUME SessionsTyped(sessions), NEW v \in Credential
  PROVE  SessionsTyped(With(sessions, v, SessionTTL))
<1>1. SessionTTL \in 0..SessionTTL
  BY HubAuthAssumption
<1> DEFINE f == With(sessions, v, SessionTTL)
<1>2. DOMAIN f = DOMAIN sessions \cup {v}
  BY Extended
<1>3. \A w \in DOMAIN f : f[w] = IF w = v THEN SessionTTL ELSE sessions[w]
  BY DEF With
<1> HIDE DEF f
<1>4. SessionsTyped(f)
  BY <1>1, <1>2, <1>3 DEF SessionsTyped
<1> QED
  BY <1>4 DEF f

LEMMA NothingTyped == ChallengesTyped(<<>>) /\ SessionsTyped(<<>>)
<1>1. DOMAIN <<>> = {}
  OBVIOUS
<1>2. IsFiniteSet({}) /\ Cardinality({}) = 0 /\ 0 =< MaxChallenges
  BY FS_EmptySet, HubAuthAssumption
<1> QED
  BY <1>1, <1>2 DEF ChallengesTyped, SessionsTyped

-----------------------------------------------------------------------------
CacheTyped == cached \in [Client -> [value : Credential \cup {None}, left : Nat,
                                     known : BOOLEAN]]

LEMMA TypesSplit ==
  Types <=> /\ ChallengesTyped(challenges)
            /\ SessionsTyped(sessions)
            /\ failures \in [Address -> Seq(0..Window)]
            /\ RequestTypes
            /\ logins \in [Client -> LoginState]
            /\ CacheTyped
            /\ spent \subseteq ChallengeId
            /\ faults \in 0..MaxFaults
  BY DEF Types, HubAuthTypeOK, ChallengesTyped, SessionsTyped, RequestTypes, CacheTyped

LEMMA TypesNext ==
  ASSUME ChallengesTyped(challenges'), SessionsTyped(sessions'),
         failures' \in [Address -> Seq(0..Window)],
         RequestTypes', logins' \in [Client -> LoginState], CacheTyped',
         spent' \subseteq ChallengeId, faults' \in 0..MaxFaults
  PROVE  Types'
  BY DEF Types, HubAuthTypeOK, ChallengesTyped, SessionsTyped, RequestTypes, CacheTyped

LEMMA TypesInitially == HubAuthInit => Types
<1> SUFFICES ASSUME HubAuthInit PROVE Types
  OBVIOUS
<1>1. ChallengesTyped(challenges) /\ SessionsTyped(sessions)
  BY NothingTyped DEF HubAuthInit
<1>2. failures \in [Address -> Seq(0..Window)]
  BY DEF HubAuthInit
<1>3. RequestTypes /\ logins \in [Client -> LoginState]
  BY IdleIsIdle DEF HubAuthInit, RequestTypes, OwnRequest, Request
<1>4. CacheTyped
  BY HubAuthAssumption DEF HubAuthInit, CacheTyped, NoCredential
<1>5. spent \subseteq ChallengeId /\ faults \in 0..MaxFaults
  BY HubAuthAssumption DEF HubAuthInit
<1> QED
  BY <1>1, <1>2, <1>3, <1>4, <1>5, TypesSplit

\* The handlers' sections.
LEMMA ServeTypes ==
  ASSUME Types, NEW h \in Handler, Serve(h)
  PROVE  Types'
<1> USE TypesSplit
<1> DEFINE r == requests[h]
<1>0. r \in Request
  BY DEF RequestTypes
<1>1. CASE Permit(h)
  <2>1. r \in Pending
    BY <1>0, <1>1, Requests DEF Permit
  <2>2. PICK p \in {"limited", "verify"} : requests' = [requests EXCEPT ![h] = [r EXCEPT !.pc = p]]
    BY <1>1 DEF Permit
  <2>3. /\ [r EXCEPT !.pc = p] \in Request
        /\ [r EXCEPT !.pc = p].pc # "free" /\ [r EXCEPT !.pc = p].from = r.from
    BY <2>1, <2>2 DEF Pending, Request
  <2>4. RequestTypes'
    BY <1>1, <2>2, <2>3, ServedOn DEF Permit
  <2> QED
    BY <1>1, <2>4, TypesNext DEF Permit, hubVars, CacheTyped
<1>2. CASE Verify(h)
  <2>1. r \in Pending
    BY <1>0, <1>2, Requests DEF Verify
  <2>2. PICK p \in {"mint", "fail"} : requests' = [requests EXCEPT ![h] = [r EXCEPT !.pc = p]]
    BY <1>2 DEF Verify
  <2>3. /\ [r EXCEPT !.pc = p] \in Request
        /\ [r EXCEPT !.pc = p].pc # "free" /\ [r EXCEPT !.pc = p].from = r.from
    BY <2>1, <2>2 DEF Pending, Request
  <2>4. RequestTypes'
    BY <1>2, <2>2, <2>3, ServedOn DEF Verify
  <2>5. ChallengesTyped(challenges')
    BY <1>2, WithoutTyped DEF Verify, Consumed
  <2> QED
    BY <1>2, <2>4, <2>5, TypesNext DEF Verify, CacheTyped
<1>3. CASE Mint(h)
  <2>1. r \in Pending
    BY <1>0, <1>3, Requests DEF Mint
  <2> DEFINE v == CHOOSE v \in FreshCredentials : TRUE
             q == [pc |-> "accepted", from |-> r.from, address |-> r.address, id |-> r.id,
                   key |-> r.key, value |-> v, left |-> SessionTTL]
  <2>2. v \in Credential
    BY <1>3 DEF Mint, FreshCredentials
  <2>3. requests' = [requests EXCEPT ![h] = q] /\ sessions' = With(sessions, v, SessionTTL)
    BY <1>3 DEF Mint
  <2>4. q \in Request /\ q.pc # "free" /\ q.from = r.from
    BY <2>1, <2>2, HubAuthAssumption DEF Pending, Granting, Request
  <2> HIDE DEF v, q
  <2>5. RequestTypes'
    BY <1>3, <2>3, <2>4, ServedOn DEF Mint
  <2>6. SessionsTyped(sessions')
    BY <2>2, <2>3, WithSession
  <2>7. r.id \in ChallengeId
    BY <2>1 DEF Pending
  <2> QED
    BY <1>3, <2>5, <2>6, <2>7, TypesNext DEF Mint, CacheTyped
<1>4. CASE Failed(h)
  <2>1. r \in Pending
    BY <1>0, <1>4, Requests DEF Failed
  <2>2. requests' = [requests EXCEPT ![h] = [r EXCEPT !.pc = "rejected"]]
    BY <1>4 DEF Failed
  <2>3. /\ [r EXCEPT !.pc = "rejected"] \in Request
        /\ [r EXCEPT !.pc = "rejected"].pc # "free" /\ [r EXCEPT !.pc = "rejected"].from = r.from
    BY <2>1 DEF Pending, Request
  <2>4. RequestTypes'
    BY <1>4, <2>2, <2>3, ServedOn DEF Failed
  <2>5. r.address \in Address /\ Window \in 0..Window
    BY <2>1, HubAuthAssumption DEF Pending
  <2>6. Append(failures[r.address], Window) \in Seq(0..Window)
    BY <2>5
  <2>7. failures' \in [Address -> Seq(0..Window)]
    BY <1>4, <2>6 DEF Failed
  <2> QED
    BY <1>4, <2>4, <2>7, TypesNext DEF Failed, CacheTyped
<1>5. CASE Unread(h)
  <2>1. requests' \in [Handler -> Request] /\ \A g \in Handler : g # h => requests'[g] = requests[g]
    BY <1>5 DEF Unread, RequestTypes, Request
  <2>2. \A c \in Client : logins[c].pc = "await" =>
          logins[c].handler \in Handler /\ logins[c].handler # h
    BY <1>5, Logins, HubAuthAssumption DEF Unread, RequestTypes, OwnRequest
  <2>3. OwnRequest'
    BY <1>5, <2>1, <2>2 DEF Unread, RequestTypes, OwnRequest
  <2> QED
    BY <1>5, <2>1, <2>3, TypesNext DEF Unread, hubVars, CacheTyped, RequestTypes
<1> QED
  BY <1>1, <1>2, <1>3, <1>4, <1>5 DEF Serve

-----------------------------------------------------------------------------
(* The clients' steps.                                                     *)

LEMMA KeyOfClient ==
  ASSUME NEW c \in Client, NEW n \in 1..Len(KeysOf[c])
  PROVE  KeysOf[c][n] \in Key
  BY HubAuthAssumption DEF Key

LEMMA HasFirstKey == \A c \in Client : 1 \in 1..Len(KeysOf[c])
  BY HubAuthAssumption

LEMMA PostTypes ==
  ASSUME Types, NEW c \in Client, NEW i \in ChallengeId, Ready(c), Post(c, i, 1)
  PROVE  RequestTypes' /\ logins' \in [Client -> LoginState]
<1> DEFINE r == [pc |-> "permit", from |-> c, address |-> AddressOf[c], id |-> i,
                 key |-> KeysOf[c][1]]
           l == [pc |-> "await", id |-> i, key |-> 1, handler |-> FreeHandler]
<1>1. requests' = [requests EXCEPT ![FreeHandler] = r] /\ FreeHandlers # {}
  BY DEF Post
<1>2. KeysOf[c][1] \in Key /\ AddressOf[c] \in Address
  BY KeyOfClient, HasFirstKey, HubAuthAssumption
<1>3. r \in Request /\ r.pc # "free" /\ r.from = c
  BY <1>2 DEF Request, Pending
<1>4. l \in LoginState /\ l.handler = FreeHandler
  BY <1>1, FreeHandlerIsFree DEF LoginState
<1>5. logins' = [logins EXCEPT ![c] = l]
  BY DEF Post, Goto
<1> HIDE DEF r, l
<1>6. /\ requests' \in [Handler -> Request]
      /\ requests'[FreeHandler] = r
      /\ \A g \in Handler : requests[g].pc # "free" => requests'[g] = requests[g]
  BY <1>1, <1>3, PutInFree
<1>7. /\ logins' \in [Client -> LoginState]
      /\ \A d \in Client : logins'[d] = IF d = c THEN l ELSE logins[d]
  BY <1>4, <1>5 DEF Types, HubAuthTypeOK
<1>8. \A d \in Client : logins[d].pc = "await" => logins[d].handler \in Handler
  BY Logins DEF Types, HubAuthTypeOK
<1>9. OwnRequest'
  <2> SUFFICES ASSUME NEW d \in Client, logins'[d].pc = "await"
               PROVE  /\ requests'[logins'[d].handler].pc # "free"
                      /\ requests'[logins'[d].handler].from = d
    BY DEF OwnRequest
  <2>1. CASE d = c
    BY <1>3, <1>4, <1>6, <1>7, <2>1
  <2>2. CASE d # c
    BY <1>6, <1>7, <1>8, <2>2 DEF Types, OwnRequest
  <2> QED
    BY <2>1, <2>2
<1> QED
  BY <1>6, <1>7, <1>9 DEF RequestTypes

LEMMA IssueTypes ==
  ASSUME Types, NEW i \in FreshIds, Issue(i)
  PROVE  ChallengesTyped(challenges') /\ spent' \subseteq ChallengeId /\ i \in ChallengeId
<1>1. i \in ChallengeId
  BY DEF FreshIds
<1>2. challenges' = Issued(i) /\ spent' = spent \ FreshIds
  BY DEF Issue
<1> QED
  BY <1>1, <1>2, IssuedTyped, TypesSplit

LEMMA FaultTypes ==
  ASSUME Types, Fault
  PROVE  faults' \in 0..MaxFaults
  BY HubAuthAssumption DEF Types, HubAuthTypeOK, Fault

LEMMA LoginTypes ==
  ASSUME Types, NEW c \in Client, Login(c)
  PROVE  Types'
<1> USE TypesSplit
<1>1. ASSUME NEW i \in FreshIds, AskChallenge(c, i) PROVE Types'
  <2>1. ChallengesTyped(challenges') /\ spent' \subseteq ChallengeId /\ i \in ChallengeId
    BY <1>1, IssueTypes DEF AskChallenge
  <2>2. CASE Post(c, i, 1)
    <3>1. RequestTypes' /\ logins' \in [Client -> LoginState]
      BY <1>1, <2>1, <2>2, PostTypes DEF AskChallenge
    <3> QED
      BY <1>1, <2>1, <3>1, TypesNext DEF AskChallenge, CacheTyped
  <2>3. CASE BackOff(c) /\ UNCHANGED requests
    <3>1. RequestTypes' /\ logins' \in [Client -> LoginState]
      BY <2>3, WaitingIsIdle, BackOffTypes DEF BackOff
    <3> QED
      BY <1>1, <2>1, <3>1, TypesNext DEF AskChallenge, CacheTyped
  <2> QED
    BY <1>1, <2>2, <2>3 DEF AskChallenge
<1>2. CASE Limited(c)
  <2>1. RequestTypes' /\ logins' \in [Client -> LoginState]
    BY <1>2, WaitingIsIdle, ReadByClient DEF Limited, BackOff, Answered
  <2> QED
    BY <1>2, <2>1, TypesNext DEF Limited, CacheTyped, hubVars
<1>3. CASE Rejected(c)
  <2> DEFINE n == logins[c].key
             h == logins[c].handler
  <2>1. n \in Nat \ {0} /\ h \in Handler /\ requests[h].pc = "rejected" /\ logins[c].pc = "await"
    BY <1>3, Logins DEF Rejected, Answered
  <2>2. CASE n < Len(KeysOf[c])
    <3> DEFINE q == [requests[h] EXCEPT !.pc = "permit", !.key = KeysOf[c][n + 1]]
               l == [logins[c] EXCEPT !.key = n + 1]
    <3>0. Len(KeysOf[c]) \in Nat
      BY HubAuthAssumption
    <3>1. n + 1 \in 1..Len(KeysOf[c]) /\ n + 1 \in Nat \ {0}
      BY <2>1, <2>2, <3>0
    <3>2. KeysOf[c][n + 1] \in Key
      BY <3>1, KeyOfClient
    <3>3. requests[h] \in Pending
      BY <2>1, Requests DEF RequestTypes
    <3>4. q \in Request /\ q.pc # "free" /\ q.from = requests[h].from
      BY <3>2, <3>3 DEF Pending, Request
    <3>5. logins[c] \in [pc : {"await"}, id : ChallengeId, key : Nat \ {0}, handler : Handler]
      BY <2>1, Logins
    <3>6. l \in LoginState /\ l.pc = "await" /\ l.handler = h
      BY <3>1, <3>5 DEF LoginState
    <3>7. requests' = [requests EXCEPT ![h] = q] /\ logins' = [logins EXCEPT ![c] = l]
      BY <1>3, <2>2 DEF Rejected, Goto
    <3> HIDE DEF q, l
    <3>8. requests' \in [Handler -> Request] /\ \A g \in Handler :
            requests'[g] = IF g = h THEN q ELSE requests[g]
      BY <2>1, <3>4, <3>7 DEF RequestTypes
    <3>9. logins' \in [Client -> LoginState] /\ \A d \in Client :
            logins'[d] = IF d = c THEN l ELSE logins[d]
      BY <3>6, <3>7
    <3>10. \A d \in Client : logins[d].pc = "await" => logins[d].handler \in Handler
      BY Logins
    <3>11. OwnRequest'
      <4>1. requests[h].from = c
        BY <2>1 DEF OwnRequest, RequestTypes
      <4> SUFFICES ASSUME NEW d \in Client, logins'[d].pc = "await"
                   PROVE  /\ requests'[logins'[d].handler].pc # "free"
                          /\ requests'[logins'[d].handler].from = d
        BY DEF OwnRequest
      <4>2. CASE d = c
        BY <2>1, <3>4, <3>6, <3>8, <3>9, <4>1, <4>2
      <4>3. CASE d # c
        BY <3>8, <3>9, <3>10, <4>1, <4>3 DEF OwnRequest, RequestTypes
      <4> QED
        BY <4>2, <4>3
    <3> QED
      BY <1>3, <3>8, <3>9, <3>11, TypesNext DEF Rejected, CacheTyped, hubVars, RequestTypes
  <2>3. CASE ~ (n < Len(KeysOf[c]))
    <3>1. requests' = Read(c) /\ BackOff(c)
      BY <1>3, <2>3 DEF Rejected
    <3>2. RequestTypes' /\ logins' \in [Client -> LoginState]
      BY <2>1, <3>1, WaitingIsIdle, ReadByClient DEF BackOff
    <3> QED
      BY <1>3, <3>2, TypesNext DEF Rejected, CacheTyped, hubVars
  <2> QED
    BY <2>2, <2>3
<1>4. CASE Accepted(c)
  <2> DEFINE r == requests[logins[c].handler]
  <2>1. logins[c].pc = "await" /\ r.pc = "accepted" /\ logins[c].handler \in Handler
    BY <1>4, Logins DEF Accepted, Answered
  <2>2. r \in Granting
    BY <2>1, Requests DEF RequestTypes
  <2>3. Granted(c, r) \in [value : Credential \cup {None}, left : Nat, known : BOOLEAN]
    BY <2>2, HubAuthAssumption DEF Granted, Granting
  <2>4. cached' = [cached EXCEPT ![c] = Granted(c, r)]
    BY <1>4 DEF Accepted
  <2>5. CacheTyped'
    BY <2>3, <2>4 DEF CacheTyped
  <2>6. [pc |-> "use"] \in LoginState /\ [pc |-> "use"].pc # "await"
    BY DEF LoginState
  <2>7. RequestTypes' /\ logins' \in [Client -> LoginState]
    BY <1>4, <2>1, <2>6, ReadByClient DEF Accepted
  <2> QED
    BY <1>4, <2>5, <2>7, TypesNext DEF Accepted, hubVars
<1>5. CASE Use(c)
  <2>1. SessionsTyped(sessions')
    BY <1>5, WithoutTyped DEF Use
  <2>2. NoCredential \in [value : Credential \cup {None}, left : Nat, known : BOOLEAN]
    BY HubAuthAssumption DEF NoCredential
  <2>3. CacheTyped'
    BY <1>5, <2>2 DEF Use, CacheTyped
  <2>4. RequestTypes' /\ logins' \in [Client -> LoginState]
    BY <1>5, WaitingIsIdle, IdleIsIdle, BackOffTypes DEF Use, BackOff
  <2> QED
    BY <1>5, <2>1, <2>3, <2>4, TypesNext DEF Use
<1> QED
  BY <1>1, <1>2, <1>3, <1>4, <1>5 DEF Login

-----------------------------------------------------------------------------
(* Time and faults.                                                        *)

LEMMA ChallengeLostTypes ==
  ASSUME Types, NEW c \in Client, NEW i \in FreshIds, ChallengeLost(c, i)
  PROVE  Types'
<1>1. ChallengesTyped(challenges') /\ spent' \subseteq ChallengeId /\ faults' \in 0..MaxFaults
  BY IssueTypes, FaultTypes DEF ChallengeLost
<1>2. RequestTypes' /\ logins' \in [Client -> LoginState]
  BY WaitingIsIdle, BackOffTypes DEF ChallengeLost, BackOff
<1> QED
  BY <1>1, <1>2, TypesSplit, TypesNext DEF ChallengeLost, CacheTyped

LEMMA GiveUpTypes ==
  ASSUME Types, NEW c \in Client, GiveUp(c)
  PROVE  Types'
<1> DEFINE h == logins[c].handler
           q == [requests[h] EXCEPT !.from = None]
<1>1. h \in Handler /\ requests[h].pc # "free" /\ requests[h] \in Request /\ logins[c].pc = "await"
  BY Logins DEF GiveUp, Types, HubAuthTypeOK, OwnRequest
<1>2. requests[h] \in Pending \cup Granting
  BY <1>1 DEF Request, Free
<1>3. q \in Request /\ q.pc = requests[h].pc
  BY <1>2 DEF Pending, Granting, Request
<1>4. requests' = [requests EXCEPT ![h] = q]
  BY DEF GiveUp
<1> HIDE DEF q
<1>5. requests' \in [Handler -> Request] /\ \A g \in Handler : g # h => requests'[g] = requests[g]
  BY <1>3, <1>4 DEF Types, HubAuthTypeOK
<1>6. /\ logins' \in [Client -> LoginState]
      /\ \A d \in Client : logins'[d] = IF d = c THEN Waiting ELSE logins[d]
  BY WaitingIsIdle DEF GiveUp, BackOff, Goto, Types, HubAuthTypeOK
<1>7. \A d \in Client : logins[d].pc = "await" => logins[d].handler \in Handler
  BY Logins DEF Types, HubAuthTypeOK
<1>8. \A d \in Client \ {c} : logins[d].pc = "await" => logins[d].handler # h
  BY <1>1 DEF Types, OwnRequest
<1>9. OwnRequest'
  BY <1>5, <1>6, <1>7, <1>8, WaitingIsIdle DEF Types, OwnRequest
<1>10. RequestTypes' /\ faults' \in 0..MaxFaults
  BY <1>5, <1>9, FaultTypes DEF RequestTypes, GiveUp
<1> QED
  BY <1>6, <1>10, TypesSplit, TypesNext DEF GiveUp, CacheTyped, hubVars

LEMMA RepeatTypes ==
  ASSUME Types, NEW h \in Handler, Repeat(h)
  PROVE  Types'
<1> DEFINE r == requests[h]
           q == [pc |-> "permit", from |-> None, address |-> r.address, id |-> r.id, key |-> r.key]
<1>1. r \in Request /\ r.pc # "free"
  BY DEF Repeat, Types, HubAuthTypeOK
<1>2. q \in Request /\ q.pc # "free"
  BY <1>1, Requests DEF Request, Pending
<1>3. requests' = [requests EXCEPT ![FreeHandler] = q] /\ FreeHandlers # {}
  BY DEF Repeat
<1> HIDE DEF q
<1>4. /\ requests' \in [Handler -> Request]
      /\ \A g \in Handler : requests[g].pc # "free" => requests'[g] = requests[g]
  BY <1>2, <1>3, PutInFree
<1>5. \A d \in Client : logins[d].pc = "await" => logins[d].handler \in Handler
  BY Logins DEF Types, HubAuthTypeOK
<1>6. OwnRequest'
  BY <1>4, <1>5 DEF Types, OwnRequest, Repeat
<1>7. RequestTypes' /\ faults' \in 0..MaxFaults
  BY <1>4, <1>6, FaultTypes DEF RequestTypes, Repeat
<1> QED
  BY <1>7, TypesSplit, TypesNext DEF Repeat, CacheTyped, hubVars

LEMMA LessInRange ==
  ASSUME NEW m \in Nat, NEW n \in 0..m
  PROVE  Less(n) \in 0..m
  BY DEF Less

\* What Tick leaves alone of a request and of a login, and what it ages.
LEMMA TickRequests ==
  ASSUME Types, Tick
  PROVE  /\ requests' \in [Handler -> Request]
         /\ \A h \in Handler :
              /\ requests'[h].pc = requests[h].pc
              /\ requests[h].pc # "free" => /\ requests'[h].from = requests[h].from
                                            /\ requests'[h].id = requests[h].id
                                            /\ requests'[h].address = requests[h].address
              /\ requests[h].pc = "accepted" => /\ requests'[h].value = requests[h].value
                                                /\ requests'[h].left = requests[h].left - 1
<1>1. requests' = [h \in Handler |->
         IF requests[h].pc = "accepted" THEN [requests[h] EXCEPT !.left = requests[h].left - 1]
         ELSE requests[h]]
  BY DEF Tick
<1>2. ASSUME NEW h \in Handler
      PROVE  /\ requests'[h] \in Request
             /\ requests'[h].pc = requests[h].pc
             /\ requests[h].pc # "free" => /\ requests'[h].from = requests[h].from
                                           /\ requests'[h].id = requests[h].id
                                           /\ requests'[h].address = requests[h].address
             /\ requests[h].pc = "accepted" => /\ requests'[h].value = requests[h].value
                                               /\ requests'[h].left = requests[h].left - 1
  <2>1. requests[h] \in Request
    BY DEF Types, HubAuthTypeOK
  <2>2. CASE requests[h].pc = "accepted"
    <3>1. requests[h] \in Granting
      BY <2>1, <2>2, Requests
    <3>2. requests[h].left - 1 \in {n \in Int : n =< SessionTTL}
      BY <3>1, HubAuthAssumption DEF Granting
    <3>3. requests'[h] = [requests[h] EXCEPT !.left = requests[h].left - 1]
      BY <1>1, <2>2
    <3>4. requests'[h] \in Granting
      BY <3>1, <3>2, <3>3 DEF Granting
    <3> QED
      BY <3>1, <3>3, <3>4 DEF Granting, Request
  <2>3. CASE requests[h].pc # "accepted"
    BY <1>1, <2>1, <2>3
  <2> QED
    BY <2>2, <2>3
<1> QED
  BY <1>1, <1>2

LEMMA TickTypes ==
  ASSUME Types, Tick
  PROVE  Types'
<1> USE TypesSplit
<1>1. ChallengesTyped(challenges') /\ SessionsTyped(sessions')
  BY OlderTyped DEF Tick
<1>2. failures' \in [Address -> Seq(0..Window)]
  BY FailuresAge DEF Tick
<1>3. faults' \in 0..MaxFaults
  BY FaultTypes DEF Tick
<1>4. logins' = [c \in Client |->
         IF logins[c].pc = "idle" THEN [logins[c] EXCEPT !.wait = Less(logins[c].wait)]
         ELSE logins[c]]
  BY DEF Tick
<1>5. ASSUME NEW c \in Client
      PROVE  /\ logins'[c] \in LoginState
             /\ logins'[c].pc = logins[c].pc
             /\ logins[c].pc = "await" => logins'[c] = logins[c] /\ logins[c].handler \in Handler
  <2>1. CASE logins[c].pc = "idle"
    <3>1. logins[c] \in [pc : {"idle"}, wait : 0..RetryDelay]
      BY <2>1, Logins
    <3>2. Less(logins[c].wait) \in 0..RetryDelay
      BY <3>1, LessInRange, HubAuthAssumption
    <3>3. logins'[c] = [logins[c] EXCEPT !.wait = Less(logins[c].wait)]
      BY <1>4, <2>1
    <3> QED
      BY <2>1, <3>1, <3>2, <3>3 DEF LoginState
  <2>2. CASE logins[c].pc # "idle"
    BY <1>4, <2>2, Logins
  <2> QED
    BY <2>1, <2>2
<1>6. logins' \in [Client -> LoginState]
  BY <1>4, <1>5
<1>7. OwnRequest'
  BY <1>5, TickRequests DEF OwnRequest, RequestTypes
<1>8. CacheTyped'
  <2>1. cached' = [c \in Client |-> [cached[c] EXCEPT !.left = Less(cached[c].left)]]
    BY DEF Tick
  <2>2. ASSUME NEW c \in Client PROVE Less(cached[c].left) \in Nat
    BY DEF CacheTyped, Less
  <2> QED
    BY <2>1, <2>2 DEF CacheTyped
<1>9. spent' = spent
  BY DEF Tick
<1> QED
  BY <1>1, <1>2, <1>3, <1>6, <1>7, <1>8, <1>9, TickRequests, TypesNext DEF RequestTypes

LEMMA RestartTypes ==
  ASSUME Types, HubRestart
  PROVE  Types'
<1> USE TypesSplit
<1>1. ChallengesTyped(challenges') /\ SessionsTyped(sessions')
  BY NothingTyped DEF HubRestart
<1>2. failures' \in [Address -> Seq(0..Window)]
  BY DEF HubRestart
<1>3. /\ logins' \in [Client -> LoginState]
      /\ \A c \in Client : logins'[c].pc # "await"
  BY WaitingIsIdle DEF HubRestart
<1>4. RequestTypes'
  BY <1>3 DEF HubRestart, RequestTypes, OwnRequest, Request
<1>5. CacheTyped'
  BY DEF HubRestart, CacheTyped
<1>6. spent' = spent /\ faults' \in 0..MaxFaults
  BY FaultTypes DEF HubRestart
<1> QED
  BY <1>1, <1>2, <1>3, <1>4, <1>5, <1>6, TypesNext

LEMMA TypesStep == Types /\ [HubAuthNext]_vars => Types'
<1> SUFFICES ASSUME Types, [HubAuthNext]_vars PROVE Types'
  OBVIOUS
<1>1. ASSUME NEW h \in Handler, Serve(h) \/ Repeat(h) PROVE Types'
  BY <1>1, ServeTypes, RepeatTypes
<1>2. ASSUME NEW c \in Client, Login(c) \/ (\E i \in FreshIds : ChallengeLost(c, i)) \/ GiveUp(c)
      PROVE  Types'
  BY <1>2, LoginTypes, ChallengeLostTypes, GiveUpTypes
<1>3. CASE Tick \/ HubRestart
  BY <1>3, TickTypes, RestartTypes
<1>4. CASE UNCHANGED vars
  BY <1>4 DEF vars, hubVars, Types, HubAuthTypeOK, OwnRequest
<1> QED
  BY <1>1, <1>2, <1>3, <1>4 DEF HubAuthNext

\* Types; and however many challenges are asked for, the hub's map never holds
\* more of them than its limit.
THEOREM HubAuthTypeCorrect == HubAuthSpec => []HubAuthTypeOK
<1>1. Types => HubAuthTypeOK
  BY DEF Types
<1> QED
  BY <1>1, TypesInitially, TypesStep, PTL DEF HubAuthSpec

-----------------------------------------------------------------------------
(* What a step does to the requests that other steps are interested in.    *)

\* What is being decided about the requests of G, and what was decided, is as before.
Unmoved(G) ==
  \A h \in G :
    requests'[h].pc \in {"verify", "mint", "fail", "accepted"} =>
      /\ requests'[h].pc = requests[h].pc
      /\ requests'[h].id = requests[h].id
      /\ requests'[h].address = requests[h].address
      /\ requests[h].pc = "accepted" => /\ requests'[h].value = requests[h].value
                                        /\ requests'[h].left = requests[h].left

\* A section of the hub leaves the other handlers alone.
LEMMA OthersUnmoved ==
  ASSUME Types, NEW h \in Handler, Serve(h)
  PROVE  Unmoved(Handler \ {h}) /\ DOMAIN requests = Handler
<1>1. \E r : requests' = [requests EXCEPT ![h] = r]
  BY DEF Serve, Permit, Verify, Mint, Failed, Unread
<1> QED
  BY <1>1 DEF Unmoved, Types, HubAuthTypeOK

LEMMA UnreadUnmoved ==
  ASSUME Types, NEW h \in Handler, Unread(h)
  PROVE  Unmoved(Handler)
  BY DEF Unmoved, Unread, Types, HubAuthTypeOK, Free

\* A client starts a request, takes its answer or lets go of it.
LEMMA LoginUnmoved ==
  ASSUME Types, NEW c \in Client, Login(c)
  PROVE  Unmoved(Handler)
<1>0. requests \in [Handler -> Request]
  BY DEF Types, HubAuthTypeOK
<1>1. ASSUME NEW i \in FreshIds, AskChallenge(c, i) PROVE Unmoved(Handler)
  <2>1. CASE Post(c, i, 1)
    BY <1>0, <2>1 DEF Post, Unmoved
  <2>2. CASE UNCHANGED requests
    BY <2>2 DEF Unmoved
  <2> QED
    BY <1>1, <2>1, <2>2 DEF AskChallenge
<1>2. CASE Limited(c) \/ Accepted(c)
  BY <1>0, <1>2 DEF Limited, Accepted, Read, Unmoved, Free
<1>3. CASE Rejected(c)
  <2>1. CASE requests' = Read(c)
    BY <1>0, <2>1 DEF Read, Unmoved, Free
  <2>2. CASE requests' = [requests EXCEPT ![logins[c].handler] =
                [requests[logins[c].handler]
                   EXCEPT !.pc = "permit", !.key = KeysOf[c][logins[c].key + 1]]]
    <3>1. requests[logins[c].handler].pc = "rejected" /\ logins[c].handler \in Handler
      BY <1>3, Logins DEF Rejected, Answered, Types, HubAuthTypeOK
    <3>2. requests[logins[c].handler] \in Pending
      BY <1>0, <3>1, Requests
    <3>3. requests'[logins[c].handler].pc = "permit"
      BY <1>0, <2>2, <3>1, <3>2 DEF Pending
    <3>4. \A h \in Handler : h # logins[c].handler => requests'[h] = requests[h]
      BY <1>0, <2>2
    <3> QED
      BY <3>3, <3>4 DEF Unmoved
  <2> QED
    BY <1>3, <2>1, <2>2 DEF Rejected
<1>4. CASE Use(c)
  BY <1>4 DEF Use, Unmoved
<1> QED
  BY <1>1, <1>2, <1>3, <1>4 DEF Login

LEMMA FaultsUnmoved ==
  ASSUME Types,
         \/ \E c \in Client : GiveUp(c) \/ \E i \in FreshIds : ChallengeLost(c, i)
         \/ \E h \in Handler : Repeat(h)
         \/ HubRestart
  PROVE  Unmoved(Handler)
<1>0. requests \in [Handler -> Request]
  BY DEF Types, HubAuthTypeOK
<1>1. ASSUME NEW c \in Client, GiveUp(c) PROVE Unmoved(Handler)
  <2> DEFINE g == logins[c].handler
  <2>1. g \in Handler /\ requests[g].pc # "free"
    BY <1>1, Logins DEF GiveUp, Types, HubAuthTypeOK, OwnRequest
  <2>2. requests[g] \in Pending \cup Granting
    BY <1>0, <2>1 DEF Request, Free
  <2>3. requests' = [requests EXCEPT ![g] = [requests[g] EXCEPT !.from = None]]
    BY <1>1 DEF GiveUp
  <2>4. \A h \in Handler : h # g => requests'[h] = requests[h]
    BY <1>0, <2>3
  <2>5. requests'[g] = [requests[g] EXCEPT !.from = None]
    BY <1>0, <2>1, <2>3
  <2> HIDE DEF g
  <2>6. Unmoved({g})
    BY <2>2, <2>5 DEF Unmoved, Pending, Granting
  <2> QED
    BY <2>4, <2>6 DEF Unmoved
<1>2. ASSUME NEW c \in Client, NEW i \in FreshIds, ChallengeLost(c, i) PROVE Unmoved(Handler)
  BY <1>2 DEF ChallengeLost, Unmoved
<1>3. ASSUME NEW h \in Handler, Repeat(h) PROVE Unmoved(Handler)
  BY <1>0, <1>3 DEF Repeat, Unmoved
<1>4. CASE HubRestart
  BY <1>4 DEF HubRestart, Unmoved, Free
<1> QED
  BY <1>1, <1>2, <1>3, <1>4

-----------------------------------------------------------------------------
(* A challenge is consumed once.                                           *)

Once == Types /\ Consuming /\ OneSessionPerChallenge

\* A step that decides nothing, and whose new challenges are fresh.
LEMMA OnceKept ==
  ASSUME Once, spent' \subseteq spent,
         \A h \in Handler : requests'[h].pc = "mint" =>
           requests[h].pc = "mint" /\ requests'[h].id = requests[h].id,
         \A i \in DOMAIN challenges' : i \in DOMAIN challenges
                                       \/ (i \in FreshIds /\ i \notin spent')
  PROVE  Consuming' /\ OneSessionPerChallenge'
<1>1. \A h \in Handler : requests[h].pc = "mint" => requests[h].id \notin FreshIds
  BY DEF FreshIds, FreeHandlers, Serving
<1>2. Consuming'
  BY <1>1 DEF Once, Consuming, Serving
<1>3. OneSessionPerChallenge'
  BY DEF Once, OneSessionPerChallenge, Serving
<1> QED
  BY <1>2, <1>3

LEMMA OnceServed ==
  ASSUME Once, NEW h \in Handler, Serve(h)
  PROVE  Consuming' /\ OneSessionPerChallenge'
<1>0. /\ requests \in [Handler -> Request]
      /\ \A g \in Handler \ {h} : requests'[g].pc = "mint" =>
           requests[g].pc = "mint" /\ requests'[g].id = requests[g].id
  BY OthersUnmoved DEF Unmoved, Once, Types, HubAuthTypeOK
<1>1. CASE Permit(h) \/ Failed(h) \/ Unread(h)
  <2>1. requests'[h].pc # "mint"
    BY <1>0, <1>1, Requests DEF Permit, Failed, Unread, Free, Pending
  <2> QED
    BY <1>0, <1>1, <2>1, OnceKept DEF Permit, Failed, Unread, hubVars
<1>2. CASE Verify(h)
  <2>1. requests[h] \in Pending
    BY <1>0, <1>2, Requests DEF Verify
  <2>2. CASE Valid(requests[h])
    <3>1. /\ DOMAIN challenges' = DOMAIN challenges \ {requests[h].id}
          /\ requests[h].id \in DOMAIN challenges
          /\ spent' = spent
      BY <1>2, <2>2 DEF Verify, Valid, Consumed, Without
    <3>2. requests'[h].id = requests[h].id
      BY <1>0, <1>2, <2>1 DEF Verify, Pending
    <3>3. requests[h].id \notin spent
      BY <3>1 DEF Once, Consuming
    <3>4. \A g \in Handler : requests[g].pc = "mint" => requests[g].id \notin DOMAIN challenges
      BY DEF Once, Consuming, Serving
    <3>5. \A g \in Handler \ {h} : requests'[g].pc = "mint" => requests'[g].id # requests[h].id
      BY <1>0, <3>1, <3>4
    <3>6. Consuming'
      BY <1>0, <3>1, <3>2, <3>4 DEF Once, Consuming, Serving
    <3>7. OneSessionPerChallenge'
      BY <1>0, <3>1, <3>2, <3>3, <3>5 DEF Once, OneSessionPerChallenge, Serving
    <3> QED
      BY <3>6, <3>7
  <2>3. CASE ~ Valid(requests[h])
    <3>1. requests'[h].pc = "fail"
      BY <1>0, <1>2, <2>1, <2>3 DEF Verify, Pending
    <3> QED
      BY <1>0, <1>2, <2>3, <3>1, OnceKept DEF Verify
  <2> QED
    BY <2>2, <2>3
<1>3. CASE Mint(h)
  <2>1. /\ requests[h].pc = "mint" /\ challenges' = challenges
        /\ spent' \subseteq spent \cup {requests[h].id}
    BY <1>3 DEF Mint
  <2>2. requests'[h].pc = "accepted"
    BY <1>0, <1>3 DEF Mint
  <2>3. Consuming'
    BY <1>0, <2>1, <2>2 DEF Once, Consuming, Serving
  <2>4. \A g \in Handler \ {h} : requests[g].pc = "mint" => requests[g].id # requests[h].id
    BY <2>1 DEF Once, OneSessionPerChallenge, Serving
  <2>5. OneSessionPerChallenge'
    BY <1>0, <2>1, <2>2, <2>4 DEF Once, OneSessionPerChallenge, Serving
  <2> QED
    BY <2>3, <2>5
<1> QED
  BY <1>1, <1>2, <1>3 DEF Serve

\* A challenge that is issued is fresh, or the map is full.
LEMMA IssuedFresh ==
  ASSUME NEW i \in FreshIds, Issue(i)
  PROVE  /\ spent' \subseteq spent
         /\ \A j \in DOMAIN challenges' : j \in DOMAIN challenges
                                         \/ (j \in FreshIds /\ j \notin spent')
<1>1. DOMAIN Issued(i) \subseteq DOMAIN challenges \cup {i}
  <2>1. DOMAIN With(challenges, i, ChallengeTTL) = DOMAIN challenges \cup {i}
    BY Extended
  <2> QED
    BY <2>1 DEF Issued
<1> QED
  BY <1>1 DEF Issue

LEMMA OnceStep == Once /\ [HubAuthNext]_vars => Once'
<1> SUFFICES ASSUME Once, [HubAuthNext]_vars PROVE Consuming' /\ OneSessionPerChallenge'
  BY TypesStep DEF Once
<1> DEFINE NoMint == \A h \in Handler : requests'[h].pc = "mint" =>
                       requests[h].pc = "mint" /\ requests'[h].id = requests[h].id
<1>0. Types /\ (Unmoved(Handler) => NoMint)
  BY DEF Once, Unmoved
<1>1. ASSUME NEW h \in Handler, Serve(h) PROVE Consuming' /\ OneSessionPerChallenge'
  BY <1>1, OnceServed
<1>2. ASSUME NEW c \in Client, Login(c) PROVE Consuming' /\ OneSessionPerChallenge'
  <2>1. NoMint
    BY <1>0, <1>2, LoginUnmoved
  <2>2. ASSUME NEW i \in FreshIds, AskChallenge(c, i) PROVE Consuming' /\ OneSessionPerChallenge'
    <3>1. Issue(i)
      BY <2>2 DEF AskChallenge
    <3> QED
      BY <2>1, <3>1, IssuedFresh, OnceKept
  <2>3. CASE Limited(c) \/ Rejected(c) \/ Accepted(c) \/ Use(c)
    <3>1. challenges' = challenges /\ spent' = spent
      BY <2>3 DEF Limited, Rejected, Accepted, Use, hubVars
    <3> QED
      BY <2>1, <3>1, OnceKept
  <2> QED
    BY <1>2, <2>2, <2>3 DEF Login
<1>3. ASSUME NEW c \in Client, NEW i \in FreshIds, ChallengeLost(c, i)
      PROVE  Consuming' /\ OneSessionPerChallenge'
  <2>1. NoMint /\ Issue(i)
    BY <1>0, <1>3, FaultsUnmoved DEF ChallengeLost
  <2> QED
    BY <2>1, IssuedFresh, OnceKept
<1>4. CASE (\E c \in Client : GiveUp(c)) \/ (\E h \in Handler : Repeat(h))
  <2>1. NoMint
    BY <1>0, <1>4, FaultsUnmoved
  <2>2. challenges' = challenges /\ spent' = spent
    BY <1>4 DEF GiveUp, Repeat, hubVars
  <2> QED
    BY <2>1, <2>2, OnceKept
<1>5. CASE HubRestart
  <2>1. NoMint
    BY <1>0, <1>5, FaultsUnmoved
  <2>2. DOMAIN challenges' = {} /\ spent' = spent
    BY <1>5 DEF HubRestart
  <2> QED
    BY <2>1, <2>2, OnceKept
<1>6. CASE Tick
  <2>1. NoMint
    BY <1>0, <1>6, TickRequests
  <2>2. DOMAIN challenges' \subseteq DOMAIN challenges /\ spent' = spent
    BY <1>6 DEF Tick, Older
  <2> QED
    BY <2>1, <2>2, OnceKept
<1>7. CASE UNCHANGED vars
  BY <1>7, OnceKept DEF vars, hubVars
<1> QED
  BY <1>1, <1>2, <1>3, <1>4, <1>5, <1>6, <1>7 DEF HubAuthNext

\* However requests are repeated and interleave, a challenge opens one session at most.
THEOREM ChallengesOpenOneSession == HubAuthSpec => []OneSessionPerChallenge
<1>1. HubAuthInit => Once
  BY TypesInitially DEF HubAuthInit, Once, Consuming, OneSessionPerChallenge, Serving, Free
<1>2. Once => OneSessionPerChallenge
  BY DEF Once
<1> QED
  BY <1>1, <1>2, OnceStep, PTL DEF HubAuthSpec

-----------------------------------------------------------------------------
(* What the hub promises, it keeps until it restarts.                      *)

Honest == Types /\ Answers /\ Kept

\* The sessions that the hub would accept are there with the time they had.
SessionsKept == \A v \in DOMAIN sessions : v \in DOMAIN sessions' /\ sessions'[v] = sessions[v]

LEMMA AnswersKept ==
  ASSUME Honest, SessionsKept, Unmoved(Handler)
  PROVE  Answers'
  BY DEF Honest, Answers, SessionsKept, Unmoved, Serving

LEMMA CacheKept ==
  ASSUME Honest, SessionsKept, cached' = cached
  PROVE  Kept'
  BY DEF Honest, Kept, Remaining, SessionsKept

LEMMA HonestServed ==
  ASSUME Honest, NEW h \in Handler, Serve(h)
  PROVE  Answers' /\ Kept'
<1>0. /\ requests \in [Handler -> Request] /\ Types
      /\ Unmoved(Handler \ {h})
  BY OthersUnmoved DEF Honest, Types, HubAuthTypeOK
<1>1. CASE Permit(h) \/ Verify(h) \/ Failed(h) \/ Unread(h)
  <2>1. requests'[h].pc # "accepted"
    BY <1>0, <1>1, Requests DEF Permit, Verify, Failed, Unread, Free, Pending
  <2>2. sessions' = sessions /\ cached' = cached
    BY <1>1 DEF Permit, Verify, Failed, Unread, hubVars
  <2>3. Answers'
    BY <1>0, <2>1, <2>2 DEF Honest, Answers, Serving, Unmoved
  <2> QED
    BY <2>2, <2>3, CacheKept DEF SessionsKept
<1>2. CASE Mint(h)
  <2>1. PICK v \in FreshCredentials :
          /\ sessions' = With(sessions, v, SessionTTL)
          /\ requests'[h].value = v /\ requests'[h].left = SessionTTL
    <3> DEFINE v == CHOOSE v \in FreshCredentials : TRUE
    <3>1. v \in FreshCredentials
      BY <1>2 DEF Mint
    <3>2. sessions' = With(sessions, v, SessionTTL)
      BY <1>2 DEF Mint
    <3>3. requests' = [requests EXCEPT ![h] =
            [pc |-> "accepted", from |-> requests[h].from, address |-> requests[h].address,
             id |-> requests[h].id, key |-> requests[h].key, value |-> v, left |-> SessionTTL]]
      BY <1>2 DEF Mint
    <3> HIDE DEF v
    <3>4. requests'[h].value = v /\ requests'[h].left = SessionTTL
      BY <1>0, <3>3
    <3> QED
      BY <3>1, <3>2, <3>4
  <2>2. v \notin DOMAIN sessions
    BY DEF FreshCredentials
  <2>3. /\ v \in DOMAIN sessions' /\ sessions'[v] = SessionTTL
        /\ \A w \in DOMAIN sessions : w # v => w \in DOMAIN sessions' /\ sessions'[w] = sessions[w]
    <3> DEFINE f == With(sessions, v, SessionTTL)
    <3>1. /\ DOMAIN f = DOMAIN sessions \cup {v}
          /\ f[v] = SessionTTL
          /\ \A w \in DOMAIN sessions : w # v => f[w] = sessions[w]
      BY DEF With
    <3>2. sessions' = f
      BY <2>1
    <3> HIDE DEF f
    <3> QED
      BY <3>1, <3>2
  <2>4. SessionsKept
    BY <2>2, <2>3 DEF SessionsKept
  <2>5. sessions'[requests'[h].value] >= requests'[h].left
    BY <2>1, <2>3, HubAuthAssumption
  <2>6. Answers'
    BY <1>0, <2>1, <2>3, <2>4, <2>5 DEF Honest, Answers, Serving, Unmoved, SessionsKept
  <2> QED
    BY <1>2, <2>4, <2>6, CacheKept DEF Mint
<1> QED
  BY <1>1, <1>2 DEF Serve

LEMMA HonestLogin ==
  ASSUME Honest, NEW c \in Client, Login(c)
  PROVE  Answers' /\ Kept'
<1>0. Types /\ Unmoved(Handler)
  BY LoginUnmoved DEF Honest
<1>1. CASE sessions' = sessions /\ cached' = cached
  BY <1>0, <1>1, AnswersKept, CacheKept DEF SessionsKept
<1>2. CASE Accepted(c)
  <2>1. sessions' = sessions
    BY <1>2 DEF Accepted, hubVars
  <2> DEFINE h == logins[c].handler
  <2>2. h \in Serving({"accepted"})
    BY <1>0, <1>2, Logins DEF Accepted, Answered, Serving, Types, HubAuthTypeOK
  <2>3. cached' = [cached EXCEPT ![c] = Granted(c, requests[h])]
    BY <1>2 DEF Accepted
  <2> HIDE DEF h
  <2>4. /\ Granted(c, requests[h]).value = requests[h].value
        /\ Granted(c, requests[h]).left > 0 =>
             Granted(c, requests[h]).left - Behind[c] = requests[h].left
    <3>1. requests[h] \in Granting /\ Behind[c] \in Int
      BY <1>0, <2>2, Requests, HubAuthAssumption DEF Serving, Types, HubAuthTypeOK
    <3>2. requests[h].left \in Int
      BY <3>1 DEF Granting
    <3> QED
      BY <3>1, <3>2 DEF Granted
  <2>5. cached'[c] = Granted(c, requests[h]) /\ \A d \in Client \ {c} : cached'[d] = cached[d]
    BY <1>0, <2>3 DEF Types, HubAuthTypeOK
  <2>6. Kept'
    <3>1. ASSUME NEW d \in Client, cached'[d].known, cached'[d].left > 0, Remaining(d)' > 0
          PROVE  cached'[d].value \in DOMAIN sessions /\ sessions[cached'[d].value] >= Remaining(d)'
      <4>1. CASE d = c
        BY <2>2, <2>4, <2>5, <3>1, <4>1 DEF Honest, Answers, Remaining
      <4>2. CASE d # c
        BY <2>5, <3>1, <4>2 DEF Honest, Kept, Remaining
      <4> QED
        BY <4>1, <4>2
    <3> QED
      BY <2>1, <3>1 DEF Kept
  <2> QED
    BY <1>0, <2>1, <2>6, AnswersKept DEF SessionsKept
<1>3. CASE Use(c)
  <2>1. SessionsKept
    <3>1. sessions' = sessions \/ ~ Accepts(cached[c].value)
      BY <1>3 DEF Use
    <3>2. CASE ~ Accepts(cached[c].value)
      <4>1. sessions' = Without(sessions, cached[c].value)
        BY <1>3, <3>2 DEF Use
      <4> QED
        BY <3>2, <4>1 DEF Accepts, Without, SessionsKept
    <3> QED
      BY <3>1, <3>2 DEF SessionsKept
  <2>2. \A d \in Client : cached'[d] = cached[d] \/ cached'[d] = NoCredential
    BY <1>0, <1>3 DEF Use, Types, HubAuthTypeOK
  <2>3. NoCredential.known = FALSE
    BY DEF NoCredential
  <2>4. Kept'
    BY <2>1, <2>2, <2>3 DEF Honest, Kept, Remaining, SessionsKept
  <2> QED
    BY <1>0, <2>1, <2>4, AnswersKept
<1>4. ASSUME NEW i \in FreshIds, AskChallenge(c, i) PROVE sessions' = sessions /\ cached' = cached
  BY <1>4 DEF AskChallenge
<1>5. CASE Limited(c) \/ Rejected(c)
  BY <1>1, <1>5 DEF Limited, Rejected, hubVars
<1> QED
  BY <1>1, <1>2, <1>3, <1>4, <1>5 DEF Login

\* A session, an answer and a cached credential grow old at the same pace.
LEMMA HonestTick ==
  ASSUME Honest, Tick
  PROVE  Answers' /\ Kept'
<1>0. Types
  BY DEF Honest
<1>1. ASSUME NEW v, NEW n \in Int, n > 1, v \in DOMAIN sessions, sessions[v] >= n
      PROVE  v \in DOMAIN sessions' /\ sessions'[v] >= n - 1
  <2>1. sessions[v] \in 0..SessionTTL /\ SessionTTL \in Nat
    BY <1>0, <1>1, HubAuthAssumption DEF Types, HubAuthTypeOK
  <2>2. sessions[v] \in Int /\ sessions[v] > 1
    BY <1>1, <2>1
  <2>3. v \in DOMAIN sessions' /\ sessions'[v] = sessions[v] - 1
    BY <1>1, <2>2 DEF Tick, Older
  <2>4. \A m \in Int : m >= n => m - 1 >= n - 1
    OBVIOUS
  <2> QED
    BY <1>1, <2>2, <2>3, <2>4
<1>2. Answers'
  <2> SUFFICES ASSUME NEW h \in Handler, requests'[h].pc = "accepted", requests'[h].left > 0
               PROVE  /\ requests'[h].value \in DOMAIN sessions'
                      /\ sessions'[requests'[h].value] >= requests'[h].left
    BY DEF Answers, Serving
  <2>1. /\ requests[h].pc = "accepted"
        /\ requests'[h].value = requests[h].value /\ requests'[h].left = requests[h].left - 1
    BY <1>0, TickRequests
  <2>2. requests[h].left \in Int
    BY <1>0, <2>1, Requests DEF Types, HubAuthTypeOK, Granting
  <2>3. requests[h].left > 1
    BY <2>1, <2>2
  <2>4. /\ requests[h].value \in DOMAIN sessions
        /\ sessions[requests[h].value] >= requests[h].left
    BY <2>1, <2>2, <2>3 DEF Honest, Answers, Serving
  <2> QED
    BY <1>1, <2>1, <2>2, <2>3, <2>4
<1>3. Kept'
  <2> SUFFICES ASSUME NEW c \in Client, cached'[c].known, cached'[c].left > 0, Remaining(c)' > 0
               PROVE  /\ cached'[c].value \in DOMAIN sessions'
                      /\ sessions'[cached'[c].value] >= Remaining(c)'
    BY DEF Kept
  <2>1. cached[c] \in [value : Credential \cup {None}, left : Nat, known : BOOLEAN]
    BY <1>0 DEF Types, HubAuthTypeOK
  <2>2. cached'[c] = [cached[c] EXCEPT !.left = Less(cached[c].left)]
    BY DEF Tick
  <2>3. /\ cached'[c].value = cached[c].value /\ cached'[c].known = cached[c].known
        /\ cached'[c].left = Less(cached[c].left) /\ cached[c].left \in Nat
    BY <2>1, <2>2
  <2>4. cached[c].left > 1 /\ cached'[c].left = cached[c].left - 1
    BY <2>3 DEF Less
  <2>5. Behind[c] \in Int
    BY HubAuthAssumption
  <2>6. Remaining(c) \in Int /\ Remaining(c)' = Remaining(c) - 1 /\ Remaining(c) > 1
    BY <2>3, <2>4, <2>5 DEF Remaining
  <2>7. cached[c].value \in DOMAIN sessions /\ sessions[cached[c].value] >= Remaining(c)
    BY <2>3, <2>4, <2>6 DEF Honest, Kept
  <2> QED
    BY <1>1, <2>3, <2>6, <2>7
<1> QED
  BY <1>2, <1>3

LEMMA HonestStep == Honest /\ [HubAuthNext]_vars => Honest'
<1> SUFFICES ASSUME Honest, [HubAuthNext]_vars PROVE Answers' /\ Kept'
  BY TypesStep DEF Honest
<1>0. Types
  BY DEF Honest
<1>1. ASSUME NEW h \in Handler, Serve(h) PROVE Answers' /\ Kept'
  BY <1>1, HonestServed
<1>2. ASSUME NEW c \in Client, Login(c) PROVE Answers' /\ Kept'
  BY <1>2, HonestLogin
<1>3. CASE \/ \E c \in Client : GiveUp(c) \/ \E i \in FreshIds : ChallengeLost(c, i)
           \/ \E h \in Handler : Repeat(h)
  <2>1. Unmoved(Handler)
    BY <1>0, <1>3, FaultsUnmoved
  <2>2. sessions' = sessions /\ cached' = cached
    BY <1>3 DEF GiveUp, ChallengeLost, Repeat, hubVars
  <2> QED
    BY <2>1, <2>2, AnswersKept, CacheKept DEF SessionsKept
<1>4. CASE HubRestart
  <2>1. \A h \in Handler : requests'[h].pc = "free"
    BY <1>4 DEF HubRestart, Free
  <2>2. \A c \in Client : ~ cached'[c].known
    BY <1>0, <1>4 DEF HubRestart, Types, HubAuthTypeOK
  <2> QED
    BY <2>1, <2>2 DEF Answers, Serving, Kept
<1>5. CASE Tick
  BY <1>5, HonestTick
<1>6. CASE UNCHANGED vars
  BY <1>6 DEF vars, hubVars, Honest, Answers, Serving, Kept, Remaining
<1> QED
  BY <1>1, <1>2, <1>3, <1>4, <1>5, <1>6 DEF HubAuthNext

\* A credential that Client.Credential returns from its cache is accepted by the hub,
\* unless the hub has restarted since, for every client whose clock is behind the hub's
\* by no more than the margin.
THEOREM CredentialsAreHonoured == HubAuthSpec => []HonouredUntilRestart
<1>1. HubAuthInit => Honest
  <2> SUFFICES ASSUME HubAuthInit PROVE Answers /\ Kept
    BY TypesInitially DEF Honest
  <2> QED
    BY DEF HubAuthInit, Answers, Serving, Free, Kept, NoCredential
<1>2. Honest => HonouredUntilRestart
  <2> SUFFICES ASSUME Honest, NEW c \in Client,
                      cached[c].known, HasCredential(c), Behind[c] =< Margin
               PROVE  /\ cached[c].value \in DOMAIN sessions
                      /\ sessions[cached[c].value] >= cached[c].left - Behind[c]
    BY DEF HonouredUntilRestart
  <2>1. cached[c] \in [value : Credential \cup {None}, left : Nat, known : BOOLEAN]
    BY DEF Honest, Types, HubAuthTypeOK
  <2>2. cached[c].left \in Nat /\ Behind[c] \in Int /\ Margin \in Nat
    BY <2>1, HubAuthAssumption
  <2>3. cached[c].left > 0 /\ Remaining(c) > 0
    BY <2>2 DEF HasCredential, Remaining
  <2> QED
    BY <2>3 DEF Honest, Kept, Remaining
<1> QED
  BY <1>1, <1>2, HonestStep, PTL DEF HubAuthSpec

-----------------------------------------------------------------------------
(* The limit on failures.                                                  *)

LEMMA UnderWayBounded ==
  ASSUME NEW a
  PROVE  /\ IsFiniteSet(UnderWay(a)) /\ Cardinality(UnderWay(a)) \in Nat
         /\ Cardinality(Handler) \in Nat
         /\ Cardinality(UnderWay(a)) =< Cardinality(Handler)
<1>1. UnderWay(a) \in SUBSET Handler
  BY DEF UnderWay, Serving
<1> QED
  BY <1>1, FS_Subset, FS_CardinalityType, HubAuthAssumption

LEMMA UnderWayBoundedNext ==
  ASSUME NEW a
  PROVE  /\ IsFiniteSet(UnderWay(a)') /\ Cardinality(UnderWay(a)') \in Nat
         /\ Cardinality(UnderWay(a)') =< Cardinality(Handler)
<1>1. UnderWay(a)' \in SUBSET Handler
  BY DEF UnderWay, Serving
<1> QED
  BY <1>1, FS_Subset, FS_CardinalityType, HubAuthAssumption

\* A step after which no more failures are recorded or on their way.
LEMMA CountKept ==
  ASSUME Types, RateLimited, failures' \in [Address -> Seq(0..Window)],
         \A a \in Address : Len(failures'[a]) =< Len(failures[a]),
         \A h \in Handler : requests'[h].pc \in {"verify", "fail"} =>
           requests[h].pc \in {"verify", "fail"} /\ requests'[h].address = requests[h].address
  PROVE  RateLimited'
<1> SUFFICES ASSUME NEW a \in Address
             PROVE  Len(failures'[a]) + Cardinality(UnderWay(a)')
                      =< MaxFailures - 1 + Cardinality(Handler)
  BY DEF RateLimited
<1>1. UnderWay(a)' \in SUBSET UnderWay(a)
  BY DEF UnderWay, Serving
<1>2. Cardinality(UnderWay(a)') =< Cardinality(UnderWay(a))
  BY <1>1, UnderWayBounded, FS_Subset
<1>3. Len(failures[a]) + Cardinality(UnderWay(a)) =< MaxFailures - 1 + Cardinality(Handler)
  BY DEF RateLimited
<1>4. Len(failures[a]) \in Nat /\ Len(failures'[a]) \in Nat
  BY DEF Types, HubAuthTypeOK
<1>5. MaxFailures \in Nat /\ Len(failures'[a]) =< Len(failures[a])
  BY HubAuthAssumption
<1> QED
  BY <1>2, <1>3, <1>4, <1>5, UnderWayBounded, UnderWayBoundedNext

LEMMA LimitServed ==
  ASSUME Types, RateLimited, NEW h \in Handler, Serve(h)
  PROVE  RateLimited'
<1>0. /\ requests \in [Handler -> Request]
      /\ failures \in [Address -> Seq(0..Window)]
      /\ failures' \in [Address -> Seq(0..Window)]
      /\ \A g \in Handler \ {h} : requests'[g].pc \in {"verify", "fail"} =>
           /\ requests[g].pc \in {"verify", "fail"}
           /\ requests'[g].address = requests[g].address
  <2>1. Types'
    BY ServeTypes
  <2> QED
    BY <2>1, OthersUnmoved DEF Unmoved, Types, HubAuthTypeOK
<1>1. CASE Permit(h)
  <2>1. requests[h] \in Pending /\ requests[h].address \in Address
    BY <1>0, <1>1, Requests DEF Permit, Pending
  <2>2. failures' = failures
    BY <1>1 DEF Permit, hubVars
  <2>3. requests'[h].address = requests[h].address
    BY <1>0, <1>1, <2>1 DEF Permit, Pending
  <2>4. CASE Refused(failures[requests[h].address])
    <3>1. requests'[h].pc = "limited"
      BY <1>0, <1>1, <2>1, <2>4 DEF Permit, Pending
    <3>2. \A a \in Address : Len(failures'[a]) =< Len(failures[a])
      BY <1>0, <2>2
    <3> QED
      BY <1>0, <3>1, <3>2, CountKept
  <2>5. CASE ~ Refused(failures[requests[h].address])
    <3> SUFFICES ASSUME NEW a \in Address
                 PROVE  Len(failures'[a]) + Cardinality(UnderWay(a)')
                          =< MaxFailures - 1 + Cardinality(Handler)
      BY DEF RateLimited
    <3>1. Len(failures[a]) \in Nat /\ MaxFailures \in Nat
      BY <1>0, HubAuthAssumption
    <3>2. CASE a = requests[h].address
      <4>1. Len(failures[a]) < MaxFailures
        BY <2>5, <3>1, <3>2 DEF Refused
      <4>2. /\ Cardinality(UnderWay(a)') \in Nat /\ Cardinality(Handler) \in Nat
            /\ Cardinality(UnderWay(a)') =< Cardinality(Handler)
        BY UnderWayBounded, UnderWayBoundedNext
      <4>3. \A k, m, n, p \in Nat : k < m /\ n =< p => k + n =< m - 1 + p
        OBVIOUS
      <4> QED
        BY <2>2, <3>1, <4>1, <4>2, <4>3
    <3>3. CASE a # requests[h].address
      <4>1. UnderWay(a)' \in SUBSET UnderWay(a)
        BY <1>0, <2>3, <3>3 DEF UnderWay, Serving
      <4>2. Cardinality(UnderWay(a)') =< Cardinality(UnderWay(a))
        BY <4>1, UnderWayBounded, FS_Subset
      <4>3. Len(failures[a]) + Cardinality(UnderWay(a)) =< MaxFailures - 1 + Cardinality(Handler)
        BY DEF RateLimited
      <4> QED
        BY <2>2, <3>1, <4>2, <4>3, UnderWayBounded, UnderWayBoundedNext
    <3> QED
      BY <3>2, <3>3
  <2> QED
    BY <2>4, <2>5
<1>2. CASE Verify(h) \/ Mint(h) \/ Unread(h)
  <2>1. /\ requests'[h].pc \in {"verify", "fail"} =>
             requests[h].pc \in {"verify", "fail"} /\ requests'[h].address = requests[h].address
    <3>1. CASE Verify(h)
      <4>1. requests[h] \in Pending
        BY <1>0, <3>1, Requests DEF Verify
      <4> QED
        BY <1>0, <3>1, <4>1 DEF Verify, Pending
    <3>2. CASE Mint(h) \/ Unread(h)
      BY <1>0, <3>2 DEF Mint, Unread, Free
    <3> QED
      BY <1>2, <3>1, <3>2
  <2>2. failures' = failures
    BY <1>2 DEF Verify, Mint, Unread, hubVars
  <2>3. \A a \in Address : Len(failures'[a]) =< Len(failures[a])
    BY <1>0, <2>2
  <2> QED
    BY <1>0, <2>1, <2>3, CountKept
<1>3. CASE Failed(h)
  <2>1. requests[h] \in Pending /\ requests[h].address \in Address /\ requests[h].pc = "fail"
    BY <1>0, <1>3, Requests DEF Failed, Pending
  <2>2. requests'[h].pc = "rejected"
    BY <1>0, <1>3, <2>1 DEF Failed, Pending
  <2> SUFFICES ASSUME NEW a \in Address
               PROVE  Len(failures'[a]) + Cardinality(UnderWay(a)')
                        =< MaxFailures - 1 + Cardinality(Handler)
    BY DEF RateLimited
  <2>3. Len(failures[a]) + Cardinality(UnderWay(a)) =< MaxFailures - 1 + Cardinality(Handler)
    BY DEF RateLimited
  <2>4. Len(failures[a]) \in Nat /\ MaxFailures \in Nat
    BY <1>0, HubAuthAssumption
  <2>5. CASE a = requests[h].address
    <3>1. failures'[a] = Append(failures[a], Window)
      BY <1>0, <1>3, <2>5 DEF Failed
    <3>2. failures[a] \in Seq(0..Window)
      BY <1>0
    <3>3. Len(failures'[a]) = Len(failures[a]) + 1
      BY <3>1, <3>2
    <3>4. h \in UnderWay(a) /\ UnderWay(a)' \in SUBSET (UnderWay(a) \ {h})
      BY <1>0, <2>1, <2>2, <2>5 DEF UnderWay, Serving
    <3>5. /\ IsFiniteSet(UnderWay(a) \ {h})
          /\ Cardinality(UnderWay(a) \ {h}) = Cardinality(UnderWay(a)) - 1
      BY <3>4, UnderWayBounded, FS_RemoveElement
    <3>6. Cardinality(UnderWay(a)') =< Cardinality(UnderWay(a)) - 1
      BY <3>4, <3>5, FS_Subset
    <3> QED
      BY <2>3, <2>4, <3>3, <3>6, UnderWayBounded, UnderWayBoundedNext
  <2>6. CASE a # requests[h].address
    <3>1. failures'[a] = failures[a]
      BY <1>0, <1>3, <2>1, <2>6 DEF Failed
    <3>2. UnderWay(a)' \in SUBSET UnderWay(a)
      BY <1>0, <2>2 DEF UnderWay, Serving
    <3>3. Cardinality(UnderWay(a)') =< Cardinality(UnderWay(a))
      BY <3>2, UnderWayBounded, FS_Subset
    <3> QED
      BY <2>3, <2>4, <3>1, <3>3, UnderWayBounded, UnderWayBoundedNext
  <2> QED
    BY <2>5, <2>6
<1> QED
  BY <1>1, <1>2, <1>3 DEF Serve

LEMMA LimitStep == Types /\ RateLimited /\ [HubAuthNext]_vars => RateLimited'
<1> SUFFICES ASSUME Types, RateLimited, [HubAuthNext]_vars PROVE RateLimited'
  OBVIOUS
<1>0. /\ failures \in [Address -> Seq(0..Window)]
      /\ failures' \in [Address -> Seq(0..Window)]
      /\ \A a \in Address : Len(failures[a]) \in Nat
  BY TypesStep DEF Types, HubAuthTypeOK
<1> DEFINE NoneStarts ==
             \A h \in Handler : requests'[h].pc \in {"verify", "fail"} =>
               /\ requests[h].pc \in {"verify", "fail"}
               /\ requests'[h].address = requests[h].address
<1>1. Unmoved(Handler) => NoneStarts
  BY DEF Unmoved
<1>2. ASSUME NoneStarts, failures' = failures PROVE RateLimited'
  BY <1>0, <1>2, CountKept
<1>3. ASSUME NEW h \in Handler, Serve(h) PROVE RateLimited'
  BY <1>3, LimitServed
<1>4. ASSUME NEW c \in Client, Login(c) PROVE RateLimited'
  <2>1. NoneStarts
    BY <1>1, <1>4, LoginUnmoved
  <2>2. failures' = failures
    BY <1>4 DEF Login, AskChallenge, Limited, Rejected, Accepted, Use, hubVars
  <2> QED
    BY <1>2, <2>1, <2>2
<1>5. CASE \/ \E c \in Client : GiveUp(c) \/ \E i \in FreshIds : ChallengeLost(c, i)
           \/ \E h \in Handler : Repeat(h)
  <2>1. NoneStarts
    BY <1>1, <1>5, FaultsUnmoved
  <2>2. failures' = failures
    BY <1>5 DEF GiveUp, ChallengeLost, Repeat, hubVars
  <2> QED
    BY <1>2, <2>1, <2>2
<1>6. CASE HubRestart
  <2>1. NoneStarts
    BY <1>1, <1>6, FaultsUnmoved
  <2>2. \A a \in Address : failures'[a] = <<>>
    BY <1>6 DEF HubRestart
  <2>3. \A a \in Address : Len(failures'[a]) =< Len(failures[a])
    BY <1>0, <2>2
  <2> QED
    BY <1>0, <2>1, <2>3, CountKept
<1>7. CASE Tick
  <2>1. NoneStarts
    BY <1>7, TickRequests
  <2>2. \A a \in Address : Len(failures'[a]) =< Len(failures[a])
    BY <1>0, <1>7, FailuresAge DEF Tick
  <2> QED
    BY <1>0, <2>1, <2>2, CountKept
<1>8. CASE UNCHANGED vars
  <2>1. NoneStarts /\ failures' = failures
    BY <1>8 DEF vars, hubVars
  <2> QED
    BY <1>2, <2>1
<1> QED
  BY <1>3, <1>4, <1>5, <1>6, <1>7, <1>8 DEF HubAuthNext

\* The requests that passed the check of the limit together exceed it by no more
\* than the other handlers there are.
THEOREM FailuresAreLimited == HubAuthSpec => []RateLimited
<1>1. HubAuthInit => Types /\ RateLimited
  <2> SUFFICES ASSUME HubAuthInit, NEW a \in Address
               PROVE  Len(failures[a]) + Cardinality(UnderWay(a))
                        =< MaxFailures - 1 + Cardinality(Handler)
    BY TypesInitially DEF RateLimited
  <2>1. Len(failures[a]) = 0
    BY DEF HubAuthInit
  <2>2. MaxFailures \in Nat \ {0}
    BY HubAuthAssumption
  <2> QED
    BY <2>1, <2>2, UnderWayBounded
<1>2. Types /\ RateLimited /\ [HubAuthNext]_vars => (Types /\ RateLimited)'
  BY TypesStep, LimitStep
<1> QED
  BY <1>1, <1>2, PTL DEF HubAuthSpec
=============================================================================
