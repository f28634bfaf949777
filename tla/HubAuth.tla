------------------------------ MODULE HubAuth ------------------------------
(***************************************************************************)
(* The Ed25519 login of the remote hub (internal/hubauth).  A client keeps *)
(* one credential; when it is missing or about to expire it asks for a     *)
(* challenge and sends it back signed with each of its keys in turn.  The  *)
(* hub's handler of such a request holds the mutex four times, one section *)
(* at a time (rate limit, challenge, session, failure), so that requests   *)
(* of several clients interleave between them.                             *)
(*                                                                         *)
(* Instants are modelled by what is left until them: Tick takes one unit   *)
(* from every expiry, and a failure is a number of units in the window.    *)
(* The hub sends a credential's expiry as an instant of its own clock, and *)
(* the client holds it against the client's clock, which may be behind the *)
(* hub's or ahead of it by an amount that does not change.                 *)
(* Faults: answers that are lost, requests that are delivered twice, steps *)
(* that take longer than a tick, restarts of the hub, which keeps its      *)
(* state in memory.                                                        *)
(***************************************************************************)
EXTENDS Integers, Sequences, FiniteSets
LOCAL INSTANCE FiniteSetsExt

CONSTANTS
  Client,         \* processes that log in, each with one hubauth.Client
  Address,        \* the hub's names for where requests come from
  AddressOf,      \* AddressOf[c]
  KeysOf,         \* KeysOf[c]: the sequence discoverKeys returns
  Behind,         \* Behind[c]: the ticks by which c's clock is behind the hub's
  Allowed,        \* the keys of the authorized_keys file
  ChallengeId,    \* enough names for challenges
  Credential,     \* enough names for credentials
  Handler,        \* the requests the hub may be serving at once
  MaxChallenges,  \* maxChallenges
  MaxFailures,    \* the failures within Window after which an address is refused
  ChallengeTTL, SessionTTL, Window, Margin, RetryDelay,   \* in ticks
  None,           \* no client, no credential
  MaxFaults       \* how many faults a behaviour has

Key == UNION {{KeysOf[c][k] : k \in DOMAIN KeysOf[c]} : c \in Client}

ASSUME HubAuthAssumption ==
  /\ AddressOf \in [Client -> Address]
  /\ \A c \in Client : KeysOf[c] \in Seq(Key) /\ KeysOf[c] # <<>>
  /\ Behind \in [Client -> Int]
  /\ {MaxChallenges, MaxFailures, ChallengeTTL, SessionTTL, Window, RetryDelay}
       \subseteq Nat \ {0}
  /\ {Margin, MaxFaults} \subseteq Nat
  /\ IsFiniteSet(Handler)
  /\ None \notin Client \cup Credential

VARIABLES
  challenges,  \* Hub.challenges: what is left of each challenge
  sessions,    \* Hub.sessions: what is left of each credential
  failures,    \* Hub.failures: per address, what is left of each failure
  requests,    \* requests[h]: the login request that handler h serves
  logins,      \* logins[c]: where client c is in Credential and login
  cached,      \* cached[c]: Client.session
  spent,       \* history: the challenges in use that opened a session
  faults       \* how many faults there have been

hubVars == <<challenges, sessions, failures>>
vars    == <<hubVars, requests, logins, cached, spent, faults>>

Free         == [pc |-> "free"]
Idle         == [pc |-> "idle", wait |-> 0]
NoCredential == [value |-> None, left |-> 0, known |-> FALSE]

-----------------------------------------------------------------------------
With(f, x, v) == [y \in DOMAIN f \cup {x} |-> IF y = x THEN v ELSE f[y]]
Without(f, x) == [y \in DOMAIN f \ {x} |-> f[y]]
Older(f)      == [x \in {y \in DOMAIN f : f[y] > 1} |-> f[x] - 1]
Less(n)       == IF n = 0 THEN 0 ELSE n - 1

\* Failures are kept in the order in which they happened: the oldest are in front.
Gone(s)     == Cardinality({n \in DOMAIN s : s[n] =< 1})
OlderSeq(s) == [n \in 1..(Len(s) - Gone(s)) |-> Less(s[n + Gone(s)])]

Serving(pcs)  == {h \in Handler : requests[h].pc \in pcs}
FreeHandlers  == Serving({"free"})

\* Handlers are interchangeable.
FreeHandler   == CHOOSE h \in FreeHandlers : TRUE

\* Identifiers are random: a new one names nothing that is still around.
FreshIds ==
  ChallengeId \ (DOMAIN challenges
                 \cup {requests[h].id : h \in Handler \ FreeHandlers}
                 \cup {logins[c].id : c \in {d \in Client : logins[d].pc = "await"}})

FreshCredentials ==
  Credential \ (DOMAIN sessions
                \cup {requests[h].value : h \in Serving({"accepted"})}
                \cup {cached[c].value : c \in Client})

HubAuthInit ==
  /\ challenges = <<>>
  /\ sessions = <<>>
  /\ failures = [a \in Address |-> <<>>]
  /\ requests = [h \in Handler |-> Free]
  /\ logins = [c \in Client |-> Idle]
  /\ cached = [c \in Client |-> NoCredential]
  /\ spent = {}
  /\ faults = 0

Fault == faults < MaxFaults /\ faults' = faults + 1

-----------------------------------------------------------------------------
(* The hub.  One action per critical section of Hub.mu.                    *)

\* Mutant of Issued: room is left for one more.
IssuedOneMore(i) ==
  IF Cardinality(DOMAIN challenges) > MaxChallenges
  THEN challenges
  ELSE With(challenges, i, ChallengeTTL)

\* What Hub.challenge leaves in the map; a full map is answered with 503.
Issued(i) ==
  IF Cardinality(DOMAIN challenges) >= MaxChallenges
  THEN challenges
  ELSE With(challenges, i, ChallengeTTL)

\* Mutant of Refused: the limit is not applied.
RefusedNever(s) == FALSE

\* Mutant of Refused: one failure too early.
RefusedEarly(s) == Len(s) + 1 >= MaxFailures

Refused(s) == Len(s) >= MaxFailures

\* permitted: drops old failures, then refuses with 429 at the limit.
Permit(h) ==
  LET r == requests[h]
  IN  /\ r.pc = "permit"
      /\ requests' = [requests EXCEPT ![h].pc =
           IF Refused(failures[r.address]) THEN "limited" ELSE "verify"]
      /\ UNCHANGED <<hubVars, logins, cached, spent, faults>>

\* The challenge is there and not expired, and the key that signed it is allowed.
Valid(r) ==
  /\ r.id \in DOMAIN challenges
  /\ r.key \in Allowed

\* Mutant of Consumed: a challenge that was used stays.
ConsumedNever(i) == challenges

Consumed(i) == Without(challenges, i)

Verify(h) ==
  LET r == requests[h]
  IN  /\ r.pc = "verify"
      /\ requests' = [requests EXCEPT ![h].pc = IF Valid(r) THEN "mint" ELSE "fail"]
      /\ challenges' = IF Valid(r) THEN Consumed(r.id) ELSE challenges
      /\ UNCHANGED <<sessions, failures, logins, cached, spent, faults>>

\* A second critical section puts the session of the new credential in the map.
Mint(h) ==
  /\ requests[h].pc = "mint"
  /\ FreshCredentials # {}
  /\ LET v == CHOOSE v \in FreshCredentials : TRUE
     IN  /\ sessions' = With(sessions, v, SessionTTL)
         /\ requests' = [requests EXCEPT ![h] =
              [pc |-> "accepted", from |-> @.from, address |-> @.address, id |-> @.id,
               key |-> @.key, value |-> v, left |-> SessionTTL]]
  /\ spent' = (spent \ FreshIds) \cup {requests[h].id}
  /\ UNCHANGED <<challenges, failures, logins, cached, faults>>

\* failed: one more failure of the address, and the answer is 401.
Failed(h) ==
  LET r == requests[h]
  IN  /\ r.pc = "fail"
      /\ failures' = [failures EXCEPT ![r.address] = Append(@, Window)]
      /\ requests' = [requests EXCEPT ![h].pc = "rejected"]
      /\ UNCHANGED <<challenges, sessions, logins, cached, spent, faults>>

\* Nobody waits for the answer.
Unread(h) ==
  /\ requests[h].pc \in {"limited", "accepted", "rejected"}
  /\ requests[h].from = None
  /\ requests' = [requests EXCEPT ![h] = Free]
  /\ UNCHANGED <<hubVars, logins, cached, spent, faults>>

Serve(h) == Permit(h) \/ Verify(h) \/ Mint(h) \/ Failed(h) \/ Unread(h)

-----------------------------------------------------------------------------
(* The client.                                                             *)

Goto(c, login) == logins' = [logins EXCEPT ![c] = login]

\* An error goes back to the caller, which waits before it tries again.
Waiting    == [pc |-> "idle", wait |-> RetryDelay]
BackOff(c) == Goto(c, Waiting)

Ready(c) == logins[c].pc = "idle" /\ logins[c].wait = 0

\* Mutant of HasCredential: the cached one is returned until it expires.
HasCredentialToTheEnd(c) == cached[c].left > 0

\* Credential: the cached one is returned unless it is about to expire.
HasCredential(c) == cached[c].left > Margin

Issue(i) ==
  /\ FreshIds # {}
  /\ i = CHOOSE j \in FreshIds : TRUE
  /\ challenges' = Issued(i)
  /\ spent' = spent \ FreshIds

\* The challenge i, signed with the client's n-th key, is sent.
Post(c, i, n) ==
  /\ FreeHandlers # {}
  /\ requests' = [requests EXCEPT ![FreeHandler] =
       [pc |-> "permit", from |-> c, address |-> AddressOf[c], id |-> i, key |-> KeysOf[c][n]]]
  /\ Goto(c, [pc |-> "await", id |-> i, key |-> n, handler |-> FreeHandler])

AskChallenge(c, i) ==
  /\ Ready(c) /\ ~HasCredential(c)
  /\ Issue(i)
  /\ IF i \in DOMAIN challenges' THEN Post(c, i, 1) ELSE BackOff(c) /\ UNCHANGED requests
  /\ UNCHANGED <<sessions, failures, cached, faults>>

\* The hub made a challenge that the client never sees.
ChallengeLost(c, i) ==
  /\ Fault
  /\ Ready(c) /\ ~HasCredential(c)
  /\ Issue(i)
  /\ BackOff(c)
  /\ UNCHANGED <<sessions, failures, requests, cached>>

\* The answer that c waits for has come.
Answered(c, pc) == logins[c].pc = "await" /\ requests[logins[c].handler].pc = pc

Read(c) == [requests EXCEPT ![logins[c].handler] = Free]

\* 429: an error, as is every status but 200 and 401.
Limited(c) ==
  /\ Answered(c, "limited")
  /\ requests' = Read(c)
  /\ BackOff(c)
  /\ UNCHANGED <<hubVars, cached, spent, faults>>

\* 401: the next key is tried, and an error is returned after the last one.
Rejected(c) ==
  LET n == logins[c].key
      h == logins[c].handler
  IN  /\ Answered(c, "rejected")
      /\ IF n < Len(KeysOf[c])
         THEN /\ requests' = [requests EXCEPT ![h] =
                   [@ EXCEPT !.pc = "permit", !.key = KeysOf[c][n + 1]]]
              /\ Goto(c, [logins[c] EXCEPT !.key = n + 1])
         ELSE /\ requests' = Read(c)
              /\ BackOff(c)
      /\ UNCHANGED <<hubVars, cached, spent, faults>>

\* The credential and, until the instant that the hub named, what is left by c's clock.
Granted(c, r) ==
  [value |-> r.value,
   left  |-> IF r.left + Behind[c] > 0 THEN r.left + Behind[c] ELSE 0,
   known |-> TRUE]

Accepted(c) ==
  /\ Answered(c, "accepted")
  /\ cached' = [cached EXCEPT ![c] = Granted(c, requests[logins[c].handler])]
  /\ requests' = Read(c)
  /\ Goto(c, [pc |-> "use"])
  /\ UNCHANGED <<hubVars, spent, faults>>

Accepts(v) == v \in DOMAIN sessions

\* ATTACH: ValidateSession; after "Authentication failed" the caller invalidates.
Use(c) ==
  LET v == cached[c].value
  IN  /\ logins[c].pc = "use" \/ (Ready(c) /\ HasCredential(c))
      /\ sessions' = IF Accepts(v) THEN sessions ELSE Without(sessions, v)
      /\ cached' = IF Accepts(v) THEN cached ELSE [cached EXCEPT ![c] = NoCredential]
      /\ IF Accepts(v) THEN Goto(c, Idle) ELSE BackOff(c)
      /\ UNCHANGED <<challenges, failures, requests, spent, faults>>

Login(c) ==
  \/ \E i \in FreshIds : AskChallenge(c, i)
  \/ Limited(c) \/ Rejected(c) \/ Accepted(c)
  \/ Use(c)

-----------------------------------------------------------------------------
(* Time and faults.                                                        *)

\* No request is under way and no client is between two of them.
Quiet ==
  /\ FreeHandlers = Handler
  /\ \A c \in Client : logins[c].pc = "idle"

\* Time passes; while a login is under way it counts as a fault, a slow step.
Tick ==
  /\ IF Quiet THEN UNCHANGED faults ELSE Fault
  /\ challenges' = Older(challenges)
  /\ sessions' = Older(sessions)
  /\ failures' = [a \in Address |-> OlderSeq(failures[a])]
  /\ requests' = [h \in Handler |->
       IF requests[h].pc = "accepted" THEN [requests[h] EXCEPT !.left = @ - 1]
       ELSE requests[h]]
  /\ logins' = [c \in Client |->
       IF logins[c].pc = "idle" THEN [logins[c] EXCEPT !.wait = Less(@)] ELSE logins[c]]
  /\ cached' = [c \in Client |-> [cached[c] EXCEPT !.left = Less(@)]]
  /\ UNCHANGED spent

\* The client's call fails or times out; the hub goes on with the request.
GiveUp(c) ==
  /\ Fault
  /\ logins[c].pc = "await"
  /\ requests' = [requests EXCEPT ![logins[c].handler].from = None]
  /\ BackOff(c)
  /\ UNCHANGED <<hubVars, cached, spent>>

\* The request reaches the hub once more.
Repeat(h) ==
  /\ Fault
  /\ requests[h].pc # "free"
  /\ FreeHandlers # {}
  /\ LET r == requests[h]
     IN  requests' = [requests EXCEPT ![FreeHandler] =
           [pc |-> "permit", from |-> None, address |-> r.address, id |-> r.id, key |-> r.key]]
  /\ UNCHANGED <<hubVars, logins, cached, spent>>

\* The hub's maps are gone, and the calls in progress fail.
HubRestart ==
  /\ Fault
  /\ challenges' = <<>>
  /\ sessions' = <<>>
  /\ failures' = [a \in Address |-> <<>>]
  /\ requests' = [h \in Handler |-> Free]
  /\ logins' = [c \in Client |->
       IF logins[c].pc = "await" THEN Waiting ELSE logins[c]]
  /\ cached' = [c \in Client |-> [cached[c] EXCEPT !.known = FALSE]]
  /\ UNCHANGED spent

-----------------------------------------------------------------------------
HubAuthNext ==
  \/ \E h \in Handler : Serve(h) \/ Repeat(h)
  \/ \E c \in Client : Login(c) \/ (\E i \in FreshIds : ChallengeLost(c, i)) \/ GiveUp(c)
  \/ Tick \/ HubRestart

HubAuthSpec == HubAuthInit /\ [][HubAuthNext]_vars

(* Fairness: clients and the hub's handlers go on, the reaper runs, and    *)
(* time does not stop however often the logins of others interrupt Quiet.  *)
HubAuthFairness ==
  /\ \A h \in Handler : WF_vars(Serve(h))
  /\ \A c \in Client : WF_vars(Login(c))
  /\ SF_vars(Tick)

HubAuthFairSpec == HubAuthSpec /\ HubAuthFairness

-----------------------------------------------------------------------------
Pending ==
  [pc : {"permit", "verify", "mint", "fail", "limited", "rejected"},
   from : Client \cup {None}, address : Address, id : ChallengeId, key : Key]

Granting ==
  [pc : {"accepted"}, from : Client \cup {None}, address : Address,
   id : ChallengeId, key : Key, value : Credential, left : {n \in Int : n =< SessionTTL}]

Request == {Free} \cup Pending \cup Granting

LoginState ==
  [pc : {"idle"}, wait : 0..RetryDelay]
  \cup [pc : {"await"}, id : ChallengeId, key : Nat \ {0}, handler : Handler]
  \cup [pc : {"use"}]

\* Types; the hub holds no more challenges than maxChallenges.
HubAuthTypeOK ==
  /\ DOMAIN challenges \subseteq ChallengeId
  /\ Cardinality(DOMAIN challenges) =< MaxChallenges
  /\ \A i \in DOMAIN challenges : challenges[i] \in 0..ChallengeTTL
  /\ DOMAIN sessions \subseteq Credential
  /\ \A v \in DOMAIN sessions : sessions[v] \in 0..SessionTTL
  /\ failures \in [Address -> Seq(0..Window)]
  /\ requests \in [Handler -> Request]
  /\ logins \in [Client -> LoginState]
  /\ cached \in [Client -> [value : Credential \cup {None}, left : Nat, known : BOOLEAN]]
  /\ spent \subseteq ChallengeId
  /\ faults \in 0..MaxFaults

(* "A successful challenge is consumed and cannot be replayed" (the tests):*)
(* however requests are repeated and interleave between the two critical   *)
(* sections of a login, a challenge opens at most one session.             *)
OneSessionPerChallenge ==
  \A h \in Serving({"mint"}) :
    /\ requests[h].id \notin spent
    /\ \A g \in Serving({"mint"}) \ {h} : requests[g].id # requests[h].id

UnderWay(a) == {h \in Serving({"verify", "fail"}) : requests[h].address = a}

(* The limit is read in one critical section and the failure counted in    *)
(* another: the requests that passed the check in between can exceed it,   *)
(* by no more than the other handlers there are.                           *)
RateLimited ==
  \A a \in Address :
    Len(failures[a]) + Cardinality(UnderWay(a))
      =< MaxFailures - 1 + Cardinality(Handler)

(* A credential that Client.Credential returns from its cache is one the   *)
(* hub still accepts, unless the hub has restarted since: slow answers,    *)
(* reaping and other logins do not shorten it.  This needs a client whose  *)
(* clock is behind the hub's by no more than the margin of 15 seconds;     *)
(* then the hub has at least as much left as the client has, less what its *)
(* clock is behind.                                                        *)
HonouredUntilRestart ==
  \A c \in Client :
    cached[c].known /\ HasCredential(c) /\ Behind[c] =< Margin =>
      /\ cached[c].value \in DOMAIN sessions
      /\ sessions[cached[c].value] >= cached[c].left - Behind[c]

\* The keys that the hub rejects before it comes to one that it accepts.
RejectedFirst(c) ==
  {n \in DOMAIN KeysOf[c] : \A k \in 1..n : KeysOf[c][k] \notin Allowed}

\* How long the client uses a credential.
Lifetime(c) == SessionTTL + Behind[c] - Margin

\* How often c can log in within Window: a login that failed is tried again after
\* RetryDelay, one that succeeded after the credential's lifetime.
LoginsInWindow(c) ==
  LET apart == Min({RetryDelay, Lifetime(c)})
  IN  (Window + apart - 1) \div apart

\* The hub can bear the clients: each has an allowed key and a clock that gives a
\* credential some lifetime, there is room for a challenge of each, and the keys that
\* those of one address have rejected within Window stay below the limit.
Bearable ==
  /\ \A c \in Client : RejectedFirst(c) # DOMAIN KeysOf[c] /\ Lifetime(c) > 0
  /\ Cardinality(Client) =< MaxChallenges
  /\ \A a \in Address :
       MapThenSumSet(LAMBDA c : LoginsInWindow(c) * Cardinality(RejectedFirst(c)),
                     {c \in Client : AddressOf[c] = a}) < MaxFailures

(* "Clients use an allowed Ed25519 SSH key" among those they find, and     *)
(* events are forwarded "once [the hub is] reachable again" (README): a    *)
(* client that needs a credential gets one, whatever was lost or repeated  *)
(* before and although each rejected key counts as a failure of the whole  *)
(* address.  Only clients the hub can bear are promised this: those that   *)
(* have more keys rejected can keep their address refused for ever.        *)
AllowedClientLogsIn ==
  Bearable => \A c \in Client : ~HasCredential(c) ~> HasCredential(c)
=============================================================================
