--------------------------- MODULE DeliveryProofs ---------------------------
(***************************************************************************)
(* Proofs about the delivery of events from the outboxes to the hub's      *)
(* ledger, for every set of machines and events, every batch limit, every  *)
(* number of failures and every retention.                                 *)
(***************************************************************************)
EXTENDS Delivery, WellFoundedInduction, TLAPS

LEMMA LeastIsLeast ==
  ASSUME NEW S, S \subseteq Nat, S # {}
  PROVE  Least(S) \in S /\ \A y \in S : Least(S) =< y
<1> DEFINE R == {ss \in Nat \X Nat : ss[1] < ss[2]}
<1>1. IsWellFoundedOn(R, Nat)
  BY NatLessThanWellFounded DEF OpToRel
<1>2. PICK x \in S : \A y \in S : ~ (<<y, x>> \in R)
  <2> HIDE DEF R
  <2> QED BY <1>1, WFMin
<1>3. ASSUME NEW y \in S
      PROVE  x =< y
  <2>1. x \in Nat /\ y \in Nat
    OBVIOUS
  <2>2. <<y, x>> \notin R
    BY <1>2
  <2>3. ~ (y < x)
    BY <2>1, <2>2
  <2>4. QED
    BY <2>1, <2>3
<1>4. QED
  BY <1>3, Zenon DEF Least

\* The registry's next value: the old time or the start of an event that was seen.
LEMMA SeenWithFacts ==
  ASSUME DeliveryTypeOK, NEW E, E \subseteq Event, NEW s \in Session
  PROVE  /\ SeenWith(E)[s] \in Nat
         /\ SeenWith(E)[s] =< firstSeen[s]
         /\ \A e \in Of(E, s) : SeenWith(E)[s] =< Started[e]
         /\ \/ SeenWith(E)[s] = firstSeen[s]
            \/ \E e \in Of(E, s) : SeenWith(E)[s] = Started[e]
<1> DEFINE S == {firstSeen[s]} \cup {Started[e] : e \in Of(E, s)}
<1>1. S \subseteq Nat /\ S # {}
  BY DeliveryAssumption DEF DeliveryTypeOK, Of
<1>2. Least(S) \in S /\ \A y \in S : Least(S) =< y
  <2> HIDE DEF S
  <2> QED BY <1>1, LeastIsLeast
<1>3. SeenWith(E)[s] = Least(S)
  BY DEF SeenWith
<1>4. QED
  BY <1>1, <1>2, <1>3

-----------------------------------------------------------------------------
(***************************************************************************)
(* Types.                                                                  *)
(***************************************************************************)
LEMMA OldestIsSubset == \A S : Oldest(S) \subseteq S
  BY DEF Oldest

LEMMA SeenWithType ==
  ASSUME DeliveryTypeOK, NEW E, E \subseteq Event
  PROVE  SeenWith(E) \in [Session -> Nat]
<1>1. \A s \in Session : SeenWith(E)[s] \in Nat
  BY SeenWithFacts
<1>2. QED
  BY <1>1 DEF SeenWith

\* Appending to the staging tables leaves a merge's snapshot within them.
LEMMA AppendedType ==
  ASSUME DeliveryTypeOK, NEW R
  PROVE  /\ Appended(R) \in [Row -> Nat]
         /\ \A r \in Row : Appended(R)[r] >= staged[r]
         /\ \A r \in Row : r \in R => Appended(R)[r] > 0
         /\ \A r \in Row : r \notin R => Appended(R)[r] = staged[r]
  BY DEF DeliveryTypeOK, Appended

LEMMA ForwardType ==
  ASSUME DeliveryTypeOK, NEW c \in Client, Forward(c)
  PROVE  DeliveryTypeOK'
<1> USE DEF DeliveryTypeOK, hubVars, Goto, Step, Stages
<1>1. CASE Pending(c)
  BY <1>1, OldestIsSubset DEF Pending
<1>2. CASE UseCached(c) \/ Login(c) \/ Attach(c)
  BY <1>2 DEF UseCached, Login, Attach
<1>3. CASE AuthFails(c) \/ Unreachable(c)
  BY <1>3 DEF AuthFails, Unreachable, Fail
<1>4. CASE SkipStage(c)
  BY <1>4 DEF SkipStage, After
<1>5. CASE Stage(c)
  <2>1. staged' \in [Row -> Nat] /\ \A r \in Row : merging'[r] =< staged'[r]
    BY <1>5, AppendedType DEF Stage
  <2>2. step' \in [Client -> Step]
    BY <1>5 DEF Stage, After
  <2>3. QED
    BY <1>5, <2>1, <2>2 DEF Stage
<1>6. CASE Acknowledge(c) \/ Retry(c)
  BY <1>6 DEF Acknowledge, Retry
<1>7. QED
  BY <1>1, <1>2, <1>3, <1>4, <1>5, <1>6 DEF Forward

LEMMA ClientFaultType ==
  ASSUME DeliveryTypeOK, NEW c \in Client,
         CallFails(c) \/ AnswerLost(c) \/ LoginExpires(c) \/ ClientRestart(c)
  PROVE  DeliveryTypeOK'
<1> USE DEF DeliveryTypeOK, Goto, Step, Stages, Fault, Fail
<1>1. CASE CallFails(c)
  BY <1>1 DEF CallFails
<1>2. CASE AnswerLost(c)
  <2>1. staged' \in [Row -> Nat] /\ \A r \in Row : merging'[r] =< staged'[r]
    BY <1>2, AppendedType DEF AnswerLost
  <2>2. QED
    BY <1>2, <2>1 DEF AnswerLost
<1>3. CASE LoginExpires(c)
  <2>1. [cached EXCEPT ![c] = FALSE] \in [Client -> BOOLEAN]
    OBVIOUS
  <2>2. cached' \in [Client -> BOOLEAN]
    BY <1>3, <2>1 DEF LoginExpires
  <2>3. QED
    BY <1>3, <2>2 DEF LoginExpires
<1>4. CASE ClientRestart(c)
  BY <1>4 DEF ClientRestart
<1>5. QED
  BY <1>1, <1>2, <1>3, <1>4

LEMMA HubType ==
  ASSUME DeliveryTypeOK,
         Merge \/ MergeFails \/ HubStop \/ \E cut \in Cutoff : HubStart(cut)
  PROVE  DeliveryTypeOK'
<1> USE DEF DeliveryTypeOK, clientVars, NoRows
<1>1. CASE MergeBegin \/ MergeFails \/ HubStop
  <2>1. merging' \in [Row -> Nat] /\ \A r \in Row : merging'[r] =< staged'[r]
    BY <1>1 DEF MergeBegin, MergeFails, HubStop
  <2>2. faults' \in Nat
    BY <1>1 DEF MergeBegin, MergeFails, HubStop, Fault
  <2>3. QED
    BY <1>1, <2>1, <2>2 DEF MergeBegin, MergeFails, HubStop
<1>2. CASE MergeCommit
  <2>1. firstSeen' \in [Session -> Nat]
    BY <1>2, SeenWithType DEF MergeCommit, Seen
  <2>2. staged' \in [Row -> Nat] /\ merging' = NoRows
    BY <1>2 DEF MergeCommit, Cleared
  <2>3. ledger' \in [LedgerRow -> Nat]
    BY <1>2 DEF MergeCommit, Folded
  <2>4. QED
    BY <1>2, <2>1, <2>2, <2>3 DEF MergeCommit
<1>3. ASSUME NEW cut \in Cutoff, HubStart(cut)
      PROVE  DeliveryTypeOK'
  <2>1. firstSeen' \in [Session -> Nat]
    BY <1>3, SeenWithType DEF HubStart, Requests
  <2>2. ledger' \in [LedgerRow -> Nat]
    BY <1>3 DEF HubStart, Retained
  <2>3. QED
    BY <1>3, <2>1, <2>2, DeliveryAssumption DEF HubStart
<1>4. QED
  BY <1>1, <1>2, <1>3 DEF Merge

LEMMA DeliveryTypeStep ==
  ASSUME DeliveryTypeOK, [DeliveryNext]_vars
  PROVE  DeliveryTypeOK'
<1>1. CASE UNCHANGED vars
  BY <1>1 DEF DeliveryTypeOK, vars, clientVars, hubVars
<1>2. ASSUME NEW c \in Client, NEW E \in SUBSET Event, Spool(c, E)
      PROVE  DeliveryTypeOK'
  BY <1>2 DEF DeliveryTypeOK, Spool, clientVars, hubVars
<1>3. QED
  BY <1>1, <1>2, ForwardType, ClientFaultType, HubType DEF DeliveryNext

LEMMA DeliveryTypeInitially == DeliveryInit => DeliveryTypeOK
  BY DeliveryAssumption DEF DeliveryInit, DeliveryTypeOK, NoRows, Step

(* Every variable keeps its type, and a merge never deletes more copies of *)
(* a row than are staged.                                                  *)
THEOREM DeliveryTypeCorrect == DeliverySpec => []DeliveryTypeOK
  BY DeliveryTypeInitially, DeliveryTypeStep, PTL DEF DeliverySpec

-----------------------------------------------------------------------------
(***************************************************************************)
(* The inductive invariant.  An event leaves an outbox only as part of the *)
(* batch of a forwarder that has passed every stage, and what a stage has  *)
(* secured stays so: staged rows move to the ledger in the merge that      *)
(* deletes them, and leave it only when they are older than the cutoff.    *)
(***************************************************************************)
\* The stages whose statements a forwarder at st has sent for its batch.
Passed(st) ==
  IF st = "ack" THEN Stages
  ELSE IF st = "web_requests" THEN {"requests", "sessions", "tool_calls"}
  ELSE IF st = "tool_calls" THEN {"requests", "sessions"}
  ELSE IF st = "sessions" THEN {"requests"}
  ELSE {}

\* A forwarder sends what its machine spooled, and has not deleted it yet.
OutboxSound ==
  \A c \in Client :
    /\ batch[c] \subseteq outbox[c]
    /\ \A e \in outbox[c] : e \in spooled /\ Owner[e] = c

\* What a forwarder has staged stays secured while it sends the rest.
Held ==
  \A c \in Client : \A e \in batch[c] :
    /\ \A t \in Parts[e] : t \in Passed(step[c]) => Secured(<<t, e>>)
    /\ "sessions" \in Passed(step[c]) => SessionSecured(e)

\* A hub that is down has no transaction.
IdleWhenDown == hubUp \/ merging = NoRows

\* Rows on the hub are rows of spooled events.
RowsKnown ==
  /\ \A r \in Row : staged[r] > 0 =>
       r[2] \in spooled /\ (r[1] \in Table => r[1] \in Parts[r[2]])
  /\ \A r \in LedgerRow : ledger[r] > 0 => r[2] \in spooled /\ r[1] \in Parts[r[2]]

\* A staged row has its request staged, recorded or expired; so has a merge's snapshot.
Parented ==
  \A e \in Event : \A t \in Table :
    /\ staged[<<t, e>>] > 0 => Secured(<<"requests", e>>)
    /\ merging[<<t, e>>] > 0 => \/ merging[<<"requests", e>>] > 0
                                \/ ledger[<<"requests", e>>] > 0
                                \/ Started[e] < cutoff

DeliveryIInv ==
  /\ DeliveryTypeOK
  /\ OutboxSound
  /\ Held
  /\ IdleWhenDown
  /\ RowsKnown
  /\ Parented
  /\ NothingLost
  /\ SessionStartKept
  /\ RecordedOnce

-----------------------------------------------------------------------------
(***************************************************************************)
(* What is secured stays secured.                                          *)
(***************************************************************************)
\* The steps that touch the staging tables, the ledger or the registry.
Appends == \E c \in Client :
  /\ step[c] \in Stages
  /\ staged' = Appended(StageRows(step[c], batch[c]))
  /\ UNCHANGED <<merging, ledger, firstSeen, cutoff>>

hubData == <<staged, ledger, firstSeen, cutoff>>

LEMMA HubDataSteps ==
  ASSUME [DeliveryNext]_vars
  PROVE  UNCHANGED hubData \/ Appends \/ MergeCommit \/ \E cut \in Cutoff : HubStart(cut)
<1> USE DEF hubData, hubVars
<1>1. CASE UNCHANGED vars
  BY <1>1 DEF vars
<1>2. ASSUME NEW c \in Client, NEW E \in SUBSET Event, Spool(c, E)
      PROVE  UNCHANGED hubData
  BY <1>2 DEF Spool
<1>3. ASSUME NEW c \in Client, Forward(c)
      PROVE  UNCHANGED hubData \/ Appends
  <2>1. CASE Stage(c)
    BY <2>1 DEF Stage, Appends
  <2>2. CASE ~ Stage(c)
    BY <1>3, <2>2 DEF Forward, Pending, UseCached, Login, Attach, AuthFails, SkipStage,
                      Unreachable, Acknowledge, Retry
  <2>3. QED
    BY <2>1, <2>2
<1>4. ASSUME NEW c \in Client,
             CallFails(c) \/ AnswerLost(c) \/ LoginExpires(c) \/ ClientRestart(c)
      PROVE  UNCHANGED hubData \/ Appends
  BY <1>4 DEF CallFails, AnswerLost, LoginExpires, ClientRestart, Appends
<1>5. CASE MergeBegin \/ MergeFails \/ HubStop
  BY <1>5 DEF MergeBegin, MergeFails, HubStop
<1>6. QED
  BY <1>1, <1>2, <1>3, <1>4, <1>5 DEF DeliveryNext, Merge

LEMMA SecuredStable ==
  ASSUME DeliveryTypeOK, [DeliveryNext]_vars, NEW r \in LedgerRow, Secured(r)
  PROVE  Secured(r)'
<1> USE DEF DeliveryTypeOK, Secured, LedgerRow, Row, Table, Stages
<1>0. Started[r[2]] \in Nat
  BY DeliveryAssumption
<1>1. CASE UNCHANGED hubData
  BY <1>1 DEF hubData
<1>2. CASE Appends
  <2>1. r \in Row
    OBVIOUS
  <2>2. staged'[r] \in Nat /\ staged[r] \in Nat /\ staged'[r] >= staged[r]
    BY <1>2, <2>1, AppendedType DEF Appends
  <2>3. ledger' = ledger /\ cutoff' = cutoff
    BY <1>2 DEF Appends
  <2>4. QED
    BY <2>2, <2>3
<1>3. CASE MergeCommit
  <2>1. staged'[r] = staged[r] - merging[r] /\ cutoff' = cutoff
    BY <1>3 DEF MergeCommit, Cleared
  <2>2. ledger'[r] = IF ledger[r] = 0 /\ merging[r] > 0 THEN 1 ELSE ledger[r]
    BY <1>3 DEF MergeCommit, Folded
  <2>3. QED
    BY <2>1, <2>2
<1>4. ASSUME NEW cut \in Cutoff, HubStart(cut)
      PROVE  Secured(r)'
  <2>1. cutoff' = cut /\ cutoff =< cut /\ cut \in Nat /\ staged' = staged
    BY <1>4, DeliveryAssumption DEF HubStart
  <2>2. ledger'[r] = ledger[r] \/ Started[r[2]] < cut
    BY <1>4 DEF HubStart, Retained
  <2>3. QED
    BY <1>0, <2>1, <2>2
<1>5. QED
  BY <1>1, <1>2, <1>3, <1>4, HubDataSteps

LEMMA SessionSecuredStable ==
  ASSUME DeliveryTypeOK, [DeliveryNext]_vars, NEW e \in Event, SessionSecured(e)
  PROVE  SessionSecured(e)'
<1> SUFFICES ASSUME SessionOf[e] \in Session
             PROVE  \/ firstSeen'[SessionOf[e]] =< Started[e]
                    \/ \E f \in Of(Event, SessionOf[e]) :
                         Started[f] =< Started[e] /\ staged'[<<"sessions", f>>] > 0
  BY DEF SessionSecured
<1> DEFINE s == SessionOf[e]
<1>0. firstSeen[s] \in Nat /\ \A f \in Event : Started[f] \in Nat
  BY DeliveryAssumption DEF DeliveryTypeOK
<1>a. ASSUME NEW E, E \subseteq Event, firstSeen' = SeenWith(E)
      PROVE  /\ firstSeen'[s] \in Nat
             /\ firstSeen'[s] =< firstSeen[s]
             /\ \A f \in Of(E, s) : firstSeen'[s] =< Started[f]
  BY <1>a, SeenWithFacts
<1>1. CASE UNCHANGED hubData
  BY <1>1 DEF hubData, SessionSecured
<1>2. CASE Appends
  <2>1. \A r \in Row : staged'[r] \in Nat /\ staged[r] \in Nat /\ staged'[r] >= staged[r]
    BY <1>2, AppendedType DEF Appends, DeliveryTypeOK
  <2>2. \A f \in Of(Event, s) : <<"sessions", f>> \in Row
    BY DEF Of, Row, Stages
  <2>3. \A f \in Of(Event, s) : staged[<<"sessions", f>>] > 0 => staged'[<<"sessions", f>>] > 0
    BY <2>1, <2>2
  <2>4. QED
    BY <1>2, <2>3 DEF Appends, SessionSecured
<1>3. CASE MergeCommit
  <2>1. /\ firstSeen'[s] \in Nat
        /\ firstSeen'[s] =< firstSeen[s]
        /\ \A f \in Of(Seen(merging), s) : firstSeen'[s] =< Started[f]
    BY <1>3, <1>a DEF MergeCommit, Seen
  <2>2. CASE firstSeen[s] =< Started[e]
    BY <1>0, <2>1, <2>2
  <2>3. ASSUME NEW f \in Of(Event, s),
               Started[f] =< Started[e], staged[<<"sessions", f>>] > 0
        PROVE  \/ firstSeen'[s] =< Started[e]
               \/ staged'[<<"sessions", f>>] > 0
    <3>1. /\ <<"sessions", f>> \in Row
          /\ staged[<<"sessions", f>>] \in Nat
          /\ merging[<<"sessions", f>>] \in Nat
      BY DEF Of, Row, Stages, DeliveryTypeOK
    <3>2. CASE merging[<<"sessions", f>>] > 0
      <4>1. f \in Of(Seen(merging), s)
        BY <3>2 DEF Of, Seen
      <4>2. firstSeen'[s] =< Started[f] /\ Started[f] \in Nat
        BY <4>1, <2>1, <1>0 DEF Of
      <4>3. QED
        BY <4>2, <2>1, <2>3, <1>0
    <3>3. CASE merging[<<"sessions", f>>] = 0
      <4>1. staged'[<<"sessions", f>>] = staged[<<"sessions", f>>] - merging[<<"sessions", f>>]
        BY <1>3, <3>1 DEF MergeCommit, Cleared
      <4>2. QED
        BY <4>1, <3>1, <3>3, <2>3
    <3>4. QED
      BY <3>1, <3>2, <3>3
  <2>4. QED
    BY <2>2, <2>3 DEF SessionSecured
<1>4. ASSUME NEW cut \in Cutoff, HubStart(cut)
      PROVE  \/ firstSeen'[s] =< Started[e]
             \/ \E f \in Of(Event, s) :
                  Started[f] =< Started[e] /\ staged'[<<"sessions", f>>] > 0
  <2>1. firstSeen'[s] \in Nat /\ firstSeen'[s] =< firstSeen[s] /\ staged' = staged
    <3>1. Requests \subseteq Event
      BY DEF Requests
    <3>2. firstSeen' = SeenWith(Requests) /\ staged' = staged
      BY <1>4 DEF HubStart
    <3>3. QED
      BY <3>1, <3>2, <1>a
  <2>2. CASE firstSeen[s] =< Started[e]
    BY <1>0, <2>1, <2>2
  <2>3. CASE \E f \in Of(Event, s) : Started[f] =< Started[e] /\ staged[<<"sessions", f>>] > 0
    BY <2>1, <2>3
  <2>4. QED
    BY <2>2, <2>3 DEF SessionSecured
<1>5. QED
  BY <1>1, <1>2, <1>3, <1>4, HubDataSteps

-----------------------------------------------------------------------------
(***************************************************************************)
(* What a step does to a batch and to an outbox.                           *)
(***************************************************************************)
\* The forwarder of c passes the stage it is at.
Advances(c) ==
  /\ step[c] \in Stages
  /\ step'[c] = After[step[c]]
  /\ batch'[c] = batch[c]
  /\ \/ StageRows(step[c], batch[c]) = {} /\ staged' = staged
     \/ staged' = Appended(StageRows(step[c], batch[c]))

LEMMA BatchSteps ==
  ASSUME DeliveryTypeOK, OutboxSound, [DeliveryNext]_vars, NEW c \in Client
  PROVE  \/ batch'[c] = {}
         \/ batch'[c] \subseteq outbox[c] /\ Passed(step'[c]) = {}
         \/ batch'[c] = batch[c] /\ step'[c] = step[c]
         \/ Advances(c)
<1> DEFINE Goal == \/ batch'[c] = {}
                   \/ batch'[c] \subseteq outbox[c] /\ Passed(step'[c]) = {}
                   \/ batch'[c] = batch[c] /\ step'[c] = step[c]
                   \/ Advances(c)
<1> USE DEF DeliveryTypeOK, Goto
<1>1. CASE UNCHANGED <<step, batch>>
  BY <1>1
<1>2. ASSUME NEW d \in Client, Forward(d)
      PROVE  Goal
  <2>1. CASE d # c
    BY <1>2, <2>1 DEF Forward, Pending, UseCached, Login, Attach, AuthFails, SkipStage,
                      Stage, Unreachable, Acknowledge, Retry, Fail
  <2>2. CASE d = c
    <3>1. CASE Pending(c)
      <4>1. batch'[c] \subseteq outbox[c]
        BY <3>1, OldestIsSubset DEF Pending
      <4>2. step'[c] \in {"requests", "credential"}
        BY <3>1 DEF Pending
      <4>3. QED
        BY <4>1, <4>2 DEF Passed
    <3>2. CASE UseCached(c) \/ Login(c) \/ Attach(c) \/ Retry(c)
      <4>1. batch'[c] \subseteq outbox[c]
        BY <3>2 DEF UseCached, Login, Attach, Retry, OutboxSound
      <4>2. step'[c] \in {"attach", "requests", "pending"}
        BY <3>2 DEF UseCached, Login, Attach, Retry
      <4>3. QED
        BY <4>1, <4>2 DEF Passed
    <3>3. CASE AuthFails(c) \/ Unreachable(c) \/ Acknowledge(c)
      BY <3>3 DEF AuthFails, Unreachable, Acknowledge, Fail
    <3>4. CASE SkipStage(c)
      BY <3>4 DEF SkipStage, Advances
    <3>5. CASE Stage(c)
      BY <3>5 DEF Stage, Advances
    <3>6. QED
      BY <1>2, <2>2, <3>1, <3>2, <3>3, <3>4, <3>5 DEF Forward
  <2>3. QED
    BY <2>1, <2>2
<1>3. ASSUME NEW d \in Client,
             CallFails(d) \/ AnswerLost(d) \/ LoginExpires(d) \/ ClientRestart(d)
      PROVE  Goal
  BY <1>3 DEF CallFails, AnswerLost, LoginExpires, ClientRestart, Fail
<1>4. ASSUME NEW d \in Client, NEW E \in SUBSET Event, Spool(d, E)
      PROVE  UNCHANGED <<step, batch>>
  BY <1>4 DEF Spool, clientVars
<1>5. CASE Merge \/ MergeFails \/ HubStop \/ \E cut \in Cutoff : HubStart(cut)
  BY <1>5 DEF Merge, MergeBegin, MergeCommit, MergeFails, HubStop, HubStart, clientVars
<1>6. CASE UNCHANGED vars
  BY <1>6 DEF vars, clientVars
<1>7. QED
  BY <1>1, <1>2, <1>3, <1>4, <1>5, <1>6 DEF DeliveryNext

LEMMA OutboxSteps ==
  ASSUME [DeliveryNext]_vars
  PROVE  \/ UNCHANGED <<outbox, spooled>>
         \/ \E c \in Client : \E E \in SUBSET Event : Spool(c, E)
         \/ \E c \in Client : Acknowledge(c)
<1>1. CASE UNCHANGED vars
  BY <1>1 DEF vars
<1>2. ASSUME NEW c \in Client, Forward(c)
      PROVE  UNCHANGED <<outbox, spooled>> \/ Acknowledge(c)
  BY <1>2 DEF Forward, Pending, UseCached, Login, Attach, AuthFails, SkipStage,
              Stage, Unreachable, Retry
<1>3. ASSUME NEW c \in Client,
             CallFails(c) \/ AnswerLost(c) \/ LoginExpires(c) \/ ClientRestart(c)
      PROVE  UNCHANGED <<outbox, spooled>>
  BY <1>3 DEF CallFails, AnswerLost, LoginExpires, ClientRestart
<1>4. CASE Merge \/ MergeFails \/ HubStop \/ \E cut \in Cutoff : HubStart(cut)
  BY <1>4 DEF Merge, MergeBegin, MergeCommit, MergeFails, HubStop, HubStart
<1>5. QED
  BY <1>1, <1>2, <1>3, <1>4 DEF DeliveryNext

LEMMA OutboxSoundStep ==
  ASSUME DeliveryTypeOK, OutboxSound, [DeliveryNext]_vars
  PROVE  OutboxSound'
<1> USE DEF DeliveryTypeOK, OutboxSound
<1>1. CASE UNCHANGED <<outbox, spooled>>
  BY <1>1, BatchSteps DEF Advances
<1>2. ASSUME NEW c \in Client, NEW E \in SUBSET Event, Spool(c, E)
      PROVE  OutboxSound'
  BY <1>2 DEF Spool, clientVars
<1>3. ASSUME NEW c \in Client, Acknowledge(c)
      PROVE  OutboxSound'
  BY <1>3 DEF Acknowledge
<1>4. QED
  BY <1>1, <1>2, <1>3, OutboxSteps

-----------------------------------------------------------------------------
(***************************************************************************)
(* The rows of one staging statement.                                      *)
(***************************************************************************)
LEMMA FirstIsFirst ==
  ASSUME NEW B, B \subseteq Event, B # {}
  PROVE  First(B) \in B /\ \A f \in B : Started[First(B)] =< Started[f]
<1> DEFINE S == {Started[e] : e \in B}
<1>1. S \subseteq Nat /\ S # {}
  <2>1. \A e \in B : Started[e] \in Nat
    BY DeliveryAssumption
  <2>2. QED
    BY <2>1
<1>2. Least(S) \in S /\ \A y \in S : Least(S) =< y
  <2> HIDE DEF S
  <2> QED BY <1>1, LeastIsLeast
<1>3. PICK e \in B : Least(S) = Started[e]
  BY <1>2
<1>4. \A f \in B : Started[e] =< Started[f]
  BY <1>2, <1>3
<1>5. QED
  BY <1>4, Zenon DEF First

LEMMA StageRowsAreOfBatch ==
  ASSUME NEW t \in Stages, NEW B, B \subseteq Event, NEW r \in StageRows(t, B)
  PROVE  /\ r = <<t, r[2]>>
         /\ r[2] \in B
         /\ t \in Table => t \in Parts[r[2]]
<1>1. CASE t = "sessions"
  <2>1. PICK s \in Session : Of(B, s) # {} /\ r = <<t, First(Of(B, s))>>
    BY <1>1 DEF StageRows
  <2>2. Of(B, s) \subseteq B
    BY DEF Of
  <2>3. First(Of(B, s)) \in B
    BY <2>1, <2>2, FirstIsFirst
  <2>4. QED
    BY <1>1, <2>1, <2>3 DEF Table
<1>2. CASE t # "sessions"
  BY <1>2 DEF StageRows
<1>3. QED
  BY <1>1, <1>2

LEMMA StageRowsCoverParts ==
  ASSUME NEW t \in Table, NEW B, NEW e \in B, t \in Parts[e]
  PROVE  <<t, e>> \in StageRows(t, B)
  BY DEF StageRows, Table

LEMMA StageRowsCoverSessions ==
  ASSUME NEW B, B \subseteq Event, NEW e \in B, SessionOf[e] \in Session
  PROVE  \E f \in Of(Event, SessionOf[e]) :
           Started[f] =< Started[e] /\ <<"sessions", f>> \in StageRows("sessions", B)
<1> DEFINE s == SessionOf[e]
<1> DEFINE f == First(Of(B, s))
<1>1. e \in Of(B, s) /\ Of(B, s) \subseteq Event
  BY DEF Of
<1>2. f \in Of(B, s) /\ Started[f] =< Started[e]
  BY <1>1, FirstIsFirst
<1>3. <<"sessions", f>> \in StageRows("sessions", B)
  BY <1>1 DEF StageRows
<1>4. f \in Of(Event, s)
  BY <1>2 DEF Of
<1>5. QED
  BY <1>2, <1>3, <1>4

\* The statement of a stage secures what it is about.
LEMMA AdvanceSecures ==
  ASSUME DeliveryTypeOK, NEW c \in Client, Advances(c), NEW e \in batch[c],
         NEW t, t = step[c]
  PROVE  /\ t \in Parts[e] => Secured(<<t, e>>)'
         /\ t = "sessions" => SessionSecured(e)'
<1> DEFINE R == StageRows(t, batch[c])
<1>0. batch[c] \subseteq Event /\ e \in Event /\ t \in Stages
  BY DEF DeliveryTypeOK, Advances
<1>a. ASSUME NEW r \in R
      PROVE  staged'[r] > 0
  <2>1. r \in Row
    BY <1>0, StageRowsAreOfBatch DEF Row
  <2>2. staged' = Appended(R)
    BY <1>a DEF Advances
  <2>3. QED
    BY <2>1, <2>2, AppendedType
<1>1. ASSUME t \in Parts[e]
      PROVE  Secured(<<t, e>>)'
  <2>1. t \in Table
    BY <1>0, <1>1, DeliveryAssumption
  <2>2. <<t, e>> \in R
    BY <1>1, <2>1, StageRowsCoverParts
  <2>3. staged'[<<t, e>>] > 0
    BY <2>2, <1>a
  <2>4. QED
    BY <2>3 DEF Secured
<1>2. ASSUME t = "sessions", SessionOf[e] \in Session
      PROVE  \E f \in Of(Event, SessionOf[e]) :
               Started[f] =< Started[e] /\ staged'[<<"sessions", f>>] > 0
  BY <1>0, <1>2, <1>a, StageRowsCoverSessions
<1>3. t = "sessions" => SessionSecured(e)'
  BY <1>2 DEF SessionSecured
<1>4. QED
  BY <1>1, <1>3

LEMMA HeldStep ==
  ASSUME DeliveryTypeOK, OutboxSound, Held, [DeliveryNext]_vars
  PROVE  Held'
<1> SUFFICES ASSUME NEW c \in Client, NEW e \in batch'[c]
             PROVE  /\ \A t \in Parts[e] : t \in Passed(step'[c]) => Secured(<<t, e>>)'
                    /\ "sessions" \in Passed(step'[c]) => SessionSecured(e)'
  BY DEF Held
<1>0. ASSUME e \in batch[c]
      PROVE  e \in Event /\ \A t \in Parts[e] : <<t, e>> \in LedgerRow
  BY <1>0, DeliveryAssumption DEF DeliveryTypeOK, LedgerRow
<1>1. CASE batch'[c] \subseteq outbox[c] /\ Passed(step'[c]) = {}
  BY <1>1
<1>2. CASE batch'[c] = batch[c] /\ step'[c] = step[c]
  <2>1. \A t \in Parts[e] : t \in Passed(step[c]) => Secured(<<t, e>>)'
    BY <1>0, <1>2, SecuredStable DEF Held
  <2>2. "sessions" \in Passed(step[c]) => SessionSecured(e)'
    BY <1>0, <1>2, SessionSecuredStable DEF Held
  <2>3. QED
    BY <1>2, <2>1, <2>2
<1>3. CASE Advances(c)
  <2>1. e \in batch[c]
    BY <1>3 DEF Advances
  <2>2. Passed(step'[c]) = Passed(step[c]) \cup {step[c]}
    BY <1>3 DEF Advances, After, Passed, Stages
  <2>3. \A t \in Parts[e] : t \in Passed(step[c]) => Secured(<<t, e>>)'
    BY <1>0, <2>1, SecuredStable DEF Held
  <2>4. "sessions" \in Passed(step[c]) => SessionSecured(e)'
    BY <1>0, <2>1, SessionSecuredStable DEF Held
  <2>5. ASSUME NEW t, t = step[c]
        PROVE  /\ t \in Parts[e] => Secured(<<t, e>>)'
               /\ t = "sessions" => SessionSecured(e)'
    BY <1>3, <2>1, <2>5, AdvanceSecures
  <2>6. QED
    BY <2>2, <2>3, <2>4, <2>5
<1>4. QED
  BY <1>1, <1>2, <1>3, BatchSteps

-----------------------------------------------------------------------------
(***************************************************************************)
(* The conjuncts about the hub, and the invariant.                         *)
(***************************************************************************)
\* An event that leaves its outbox has had all its rows secured.
LEMMA NothingLostStep ==
  ASSUME DeliveryIInv, [DeliveryNext]_vars
  PROVE  NothingLost' /\ SessionStartKept'
<1> USE DEF DeliveryIInv
<1> SUFFICES ASSUME NEW e \in spooled'
             PROVE  \/ e \in outbox'[Owner[e]]
                    \/ /\ \A t \in Parts[e] : Secured(<<t, e>>)'
                       /\ SessionSecured(e)'
  BY DEF NothingLost, SessionStartKept
<1>1. ASSUME e \in Event, \A t \in Parts[e] : Secured(<<t, e>>), SessionSecured(e)
      PROVE  /\ \A t \in Parts[e] : Secured(<<t, e>>)'
             /\ SessionSecured(e)'
  <2>1. \A t \in Parts[e] : <<t, e>> \in LedgerRow
    BY <1>1, DeliveryAssumption DEF LedgerRow
  <2>2. QED
    BY <1>1, <2>1, SecuredStable, SessionSecuredStable
<1>2. ASSUME e \in spooled, e \notin outbox[Owner[e]]
      PROVE  /\ \A t \in Parts[e] : Secured(<<t, e>>)'
             /\ SessionSecured(e)'
  BY <1>1, <1>2 DEF NothingLost, SessionStartKept, DeliveryTypeOK
<1>3. CASE UNCHANGED <<outbox, spooled>>
  BY <1>2, <1>3
<1>4. ASSUME NEW c \in Client, NEW E \in SUBSET Event, Spool(c, E)
      PROVE  \/ e \in outbox'[Owner[e]]
             \/ /\ \A t \in Parts[e] : Secured(<<t, e>>)'
                /\ SessionSecured(e)'
  <2>1. CASE e \in E
    BY <1>4, <2>1 DEF Spool, DeliveryTypeOK
  <2>2. CASE e \in spooled
    <3>1. Owner[e] \in Client
      BY <2>2, DeliveryAssumption DEF DeliveryTypeOK
    <3>2. outbox[Owner[e]] \subseteq outbox'[Owner[e]]
      BY <1>4, <3>1 DEF Spool, DeliveryTypeOK
    <3>3. QED
      BY <1>2, <2>2, <3>2
  <2>3. QED
    BY <1>4, <2>1, <2>2 DEF Spool
<1>5. ASSUME NEW c \in Client, Acknowledge(c)
      PROVE  \/ e \in outbox'[Owner[e]]
             \/ /\ \A t \in Parts[e] : Secured(<<t, e>>)'
                /\ SessionSecured(e)'
  <2>1. e \in spooled /\ e \in Event
    BY <1>5 DEF Acknowledge, DeliveryTypeOK
  <2>2. CASE e \notin outbox[Owner[e]]
    BY <1>2, <2>1, <2>2
  <2>3. CASE e \in outbox[Owner[e]] /\ e \notin batch[c]
    BY <1>5, <2>1, <2>3, DeliveryAssumption DEF Acknowledge, DeliveryTypeOK
  <2>4. CASE e \in batch[c]
    <3>1. Passed(step[c]) = Stages
      BY <1>5 DEF Acknowledge, Passed
    <3>2. \A t \in Parts[e] : t \in Stages
      BY <2>1, DeliveryAssumption DEF Table, Stages
    <3>3. (\A t \in Parts[e] : Secured(<<t, e>>)) /\ SessionSecured(e)
      BY <2>4, <3>1, <3>2 DEF Held, Stages
    <3>4. QED
      BY <1>1, <2>1, <3>3
  <2>5. QED
    BY <2>2, <2>3, <2>4
<1>6. QED
  BY <1>3, <1>4, <1>5, OutboxSteps

LEMMA IdleStep ==
  ASSUME IdleWhenDown, [DeliveryNext]_vars
  PROVE  IdleWhenDown'
<1> USE DEF IdleWhenDown, hubVars
<1>1. CASE UNCHANGED vars
  BY <1>1 DEF vars
<1>2. ASSUME NEW c \in Client, NEW E \in SUBSET Event, Spool(c, E)
      PROVE  IdleWhenDown'
  BY <1>2, Zenon DEF Spool
<1>3. ASSUME NEW c \in Client, Forward(c)
      PROVE  UNCHANGED <<hubUp, merging>>
  BY <1>3 DEF Forward, Pending, UseCached, Login, Attach, AuthFails, SkipStage,
              Stage, Unreachable, Acknowledge, Retry
<1>4. ASSUME NEW c \in Client,
             CallFails(c) \/ AnswerLost(c) \/ LoginExpires(c) \/ ClientRestart(c)
      PROVE  UNCHANGED <<hubUp, merging>>
  BY <1>4 DEF CallFails, AnswerLost, LoginExpires, ClientRestart
<1>5. CASE Merge \/ MergeFails \/ HubStop \/ \E cut \in Cutoff : HubStart(cut)
  BY <1>5 DEF Merge, MergeBegin, MergeCommit, MergeFails, HubStop, HubStart, NoRows
<1>6. QED
  BY <1>1, <1>2, <1>3, <1>4, <1>5 DEF DeliveryNext, IdleWhenDown

\* What a merge sees, step by step.
LEMMA MergingSteps ==
  ASSUME [DeliveryNext]_vars
  PROVE  \/ merging' = merging
         \/ merging' = NoRows
         \/ MergeBegin
<1>1. CASE UNCHANGED vars
  BY <1>1 DEF vars, hubVars
<1>2. ASSUME NEW c \in Client, NEW E \in SUBSET Event, Spool(c, E)
      PROVE  merging' = merging
  BY <1>2 DEF Spool, hubVars
<1>3. ASSUME NEW c \in Client, Forward(c)
      PROVE  merging' = merging
  BY <1>3 DEF Forward, Pending, UseCached, Login, Attach, AuthFails, SkipStage,
              Stage, Unreachable, Acknowledge, Retry, hubVars
<1>4. ASSUME NEW c \in Client,
             CallFails(c) \/ AnswerLost(c) \/ LoginExpires(c) \/ ClientRestart(c)
      PROVE  merging' = merging
  BY <1>4 DEF CallFails, AnswerLost, LoginExpires, ClientRestart
<1>5. CASE Merge \/ MergeFails \/ HubStop \/ \E cut \in Cutoff : HubStart(cut)
  BY <1>5 DEF Merge, MergeCommit, MergeFails, HubStop, HubStart
<1>6. QED
  BY <1>1, <1>2, <1>3, <1>4, <1>5 DEF DeliveryNext

\* What the ledger gains it gains from a snapshot, one copy of a row at a time.
LEMMA FoldedFacts ==
  ASSUME DeliveryTypeOK, MergeCommit, NEW r \in LedgerRow
  PROVE  /\ r \in Row
         /\ ledger'[r] = IF ledger[r] = 0 /\ merging[r] > 0 THEN 1 ELSE ledger[r]
         /\ staged'[r] = staged[r] - merging[r]
  BY DEF MergeCommit, Folded, Cleared, LedgerRow, Row, Table, Stages

LEMMA RowsKnownStep ==
  ASSUME DeliveryTypeOK, OutboxSound, RowsKnown, [DeliveryNext]_vars
  PROVE  RowsKnown'
<1>0. spooled \subseteq spooled'
  BY OutboxSteps DEF Spool, Acknowledge
<1>1. CASE UNCHANGED hubData
  BY <1>0, <1>1 DEF RowsKnown, hubData
<1>2. CASE Appends
  <2>1. PICK c \in Client : /\ step[c] \in Stages
                            /\ staged' = Appended(StageRows(step[c], batch[c]))
                            /\ ledger' = ledger
    BY <1>2 DEF Appends
  <2>2. ASSUME NEW r \in Row, staged'[r] > 0
        PROVE  r[2] \in spooled /\ (r[1] \in Table => r[1] \in Parts[r[2]])
    <3>1. CASE r \in StageRows(step[c], batch[c])
      <4>1. /\ r = <<step[c], r[2]>>
            /\ r[2] \in batch[c]
            /\ step[c] \in Table => step[c] \in Parts[r[2]]
        BY <2>1, <3>1, StageRowsAreOfBatch DEF DeliveryTypeOK
      <4>2. r[1] = step[c]
        BY <4>1
      <4>3. QED
        BY <4>1, <4>2 DEF OutboxSound
    <3>2. CASE r \notin StageRows(step[c], batch[c])
      BY <2>1, <2>2, <3>2, AppendedType DEF RowsKnown
    <3>3. QED
      BY <3>1, <3>2
  <2>3. QED
    BY <1>0, <2>1, <2>2 DEF RowsKnown
<1>3. CASE MergeCommit
  <2>1. \A r \in Row : staged'[r] > 0 => staged[r] > 0
    BY <1>3 DEF MergeCommit, Cleared, DeliveryTypeOK
  <2>2. ASSUME NEW r \in LedgerRow, ledger'[r] > 0
        PROVE  r[2] \in spooled /\ r[1] \in Parts[r[2]]
    <3>1. ledger[r] > 0 \/ staged[r] > 0
      BY <1>3, <2>2, FoldedFacts DEF DeliveryTypeOK
    <3>2. r \in Row /\ r[1] \in Table
      BY DEF LedgerRow, Row, Table, Stages
    <3>3. QED
      BY <3>1, <3>2 DEF RowsKnown
  <2>3. QED
    BY <1>0, <2>1, <2>2 DEF RowsKnown
<1>4. ASSUME NEW cut \in Cutoff, HubStart(cut)
      PROVE  RowsKnown'
  <2>1. \A r \in LedgerRow : ledger'[r] > 0 => ledger[r] > 0
    BY <1>4 DEF HubStart, Retained
  <2>2. staged' = staged
    BY <1>4 DEF HubStart
  <2>3. QED
    BY <1>0, <2>1, <2>2 DEF RowsKnown
<1>5. QED
  BY <1>1, <1>2, <1>3, <1>4, HubDataSteps

LEMMA RecordedOnceStep ==
  ASSUME DeliveryTypeOK, RecordedOnce, [DeliveryNext]_vars
  PROVE  RecordedOnce'
<1>1. CASE UNCHANGED hubData \/ Appends
  BY <1>1 DEF RecordedOnce, hubData, Appends
<1>2. CASE MergeCommit
  BY <1>2, FoldedFacts DEF RecordedOnce
<1>3. ASSUME NEW cut \in Cutoff, HubStart(cut)
      PROVE  RecordedOnce'
  BY <1>3 DEF RecordedOnce, HubStart, Retained
<1>4. QED
  BY <1>1, <1>2, <1>3, HubDataSteps

LEMMA ParentedStep ==
  ASSUME DeliveryTypeOK, OutboxSound, Held, IdleWhenDown, Parented, [DeliveryNext]_vars
  PROVE  Parented'
<1> SUFFICES ASSUME NEW e \in Event, NEW t \in Table
             PROVE  /\ staged'[<<t, e>>] > 0 => Secured(<<"requests", e>>)'
                    /\ merging'[<<t, e>>] > 0 => \/ merging'[<<"requests", e>>] > 0
                                                 \/ ledger'[<<"requests", e>>] > 0
                                                 \/ Started[e] < cutoff'
  BY DEF Parented
<1>0. /\ <<t, e>> \in Row /\ <<"requests", e>> \in Row
      /\ <<"requests", e>> \in LedgerRow
  BY DEF Row, LedgerRow, Table, Stages
<1>1. ASSUME staged[<<t, e>>] > 0
      PROVE  Secured(<<"requests", e>>)'
  BY <1>0, <1>1, SecuredStable DEF Parented
<1>2. ASSUME staged'[<<t, e>>] > 0, ~ (staged[<<t, e>>] > 0)
      PROVE  Secured(<<"requests", e>>)'
  <2>1. CASE Appends
    <3>1. PICK c \in Client : /\ step[c] \in Stages
                              /\ staged' = Appended(StageRows(step[c], batch[c]))
      BY <2>1 DEF Appends
    <3>2. <<t, e>> \in StageRows(step[c], batch[c])
      BY <1>0, <1>2, <3>1, AppendedType
    <3>3. t = step[c] /\ e \in batch[c]
      BY <3>1, <3>2, StageRowsAreOfBatch DEF DeliveryTypeOK
    <3>4. CASE t = "requests"
      BY <1>2, <3>4 DEF Secured
    <3>5. CASE t # "requests"
      <4>1. "requests" \in Passed(step[c])
        BY <3>3, <3>5 DEF Passed, Table
      <4>2. Secured(<<"requests", e>>)
        BY <3>3, <4>1, DeliveryAssumption DEF Held
      <4>3. QED
        BY <1>0, <4>2, SecuredStable
    <3>6. QED
      BY <3>4, <3>5
  <2>2. CASE UNCHANGED hubData \/ \E cut \in Cutoff : HubStart(cut)
    BY <1>2, <2>2 DEF hubData, HubStart
  <2>3. CASE MergeCommit
    <3>1. staged'[<<t, e>>] = staged[<<t, e>>] - merging[<<t, e>>]
      BY <1>0, <2>3 DEF MergeCommit, Cleared
    <3>2. QED
      BY <1>0, <1>2, <3>1 DEF DeliveryTypeOK
  <2>4. QED
    BY <2>1, <2>2, <2>3, HubDataSteps
<1>3. ASSUME merging'[<<t, e>>] > 0
      PROVE  \/ merging'[<<"requests", e>>] > 0
             \/ ledger'[<<"requests", e>>] > 0
             \/ Started[e] < cutoff'
  <2>1. merging' # NoRows
    BY <1>0, <1>3 DEF NoRows
  <2>2. CASE MergeBegin
    <3>1. merging' = staged /\ ledger' = ledger /\ cutoff' = cutoff
      BY <2>2 DEF MergeBegin
    <3>2. Secured(<<"requests", e>>)
      BY <1>3, <3>1 DEF Parented
    <3>3. QED
      BY <3>1, <3>2 DEF Secured
  <2>3. CASE merging' = merging
    <3>1. ~ MergeCommit
      BY <2>1 DEF MergeCommit
    <3>2. ~ \E cut \in Cutoff : HubStart(cut)
      BY <2>1, <2>3 DEF HubStart, IdleWhenDown
    <3>3. ledger' = ledger /\ cutoff' = cutoff
      BY <3>1, <3>2, HubDataSteps DEF hubData, Appends
    <3>4. QED
      BY <1>3, <2>3, <3>3 DEF Parented
  <2>4. QED
    BY <2>1, <2>2, <2>3, MergingSteps
<1>4. QED
  BY <1>1, <1>2, <1>3

LEMMA DeliveryInvariantInitially == DeliveryInit => DeliveryIInv
<1> SUFFICES ASSUME DeliveryInit
             PROVE  DeliveryIInv
  OBVIOUS
<1>1. OutboxSound /\ Held /\ IdleWhenDown /\ NothingLost /\ SessionStartKept
  BY DEF DeliveryInit, OutboxSound, Held, IdleWhenDown, NothingLost, SessionStartKept
<1>2. RowsKnown /\ Parented /\ RecordedOnce
  BY DEF DeliveryInit, RowsKnown, Parented, RecordedOnce, NoRows, Row, LedgerRow,
         Table, Stages
<1>3. QED
  BY <1>1, <1>2, DeliveryTypeInitially DEF DeliveryIInv

LEMMA DeliveryInvariantStep == DeliveryIInv /\ [DeliveryNext]_vars => DeliveryIInv'
  BY DeliveryTypeStep, OutboxSoundStep, HeldStep, IdleStep, RowsKnownStep, ParentedStep,
     NothingLostStep, RecordedOnceStep DEF DeliveryIInv

THEOREM DeliveryInvariant == DeliverySpec => []DeliveryIInv
  BY DeliveryInvariantInitially, DeliveryInvariantStep, PTL DEF DeliverySpec

(* Each row of a spooled event is in its outbox, staged, recorded or       *)
(* expired, and each session's start is kept, whatever fails.              *)
THEOREM DeliveryLosesNothing == DeliverySpec => [](NothingLost /\ SessionStartKept)
<1>1. DeliveryIInv => NothingLost /\ SessionStartKept
  BY DEF DeliveryIInv
<1>2. QED
  BY <1>1, DeliveryInvariant, PTL

\* The registry keeps the start of every session that was spooled, in spite of
\* late batches, lost answers and retention.
THEOREM DeliveryKeepsSessionStarts == DeliverySpec => []SessionStartKept
<1>1. NothingLost /\ SessionStartKept => SessionStartKept
  OBVIOUS
<1>2. QED
  BY <1>1, DeliveryLosesNothing, PTL

(* A row is never twice in the ledger.                                     *)
THEOREM DeliveryRecordsOnce == DeliverySpec => []RecordedOnce
<1>1. DeliveryIInv => RecordedOnce
  BY DEF DeliveryIInv
<1>2. QED
  BY <1>1, DeliveryInvariant, PTL

-----------------------------------------------------------------------------
(***************************************************************************)
(* The refinement of Ledger.                                               *)
(***************************************************************************)
\* Ledger's rows.
LedgerRows == {r \in LedgerRow : ledger[r] > 0}

\* A registry updated from spooled events takes a step that Ledger allows.
LEMMA SeenWithObserves ==
  ASSUME DeliveryTypeOK, NEW E, E \subseteq Event, E \subseteq spooled,
         firstSeen' = SeenWith(E)
  PROVE  Hub!Observe
<1> SUFFICES ASSUME NEW s \in Session
             PROVE  \/ firstSeen'[s] = firstSeen[s]
                    \/ \E e \in spooled : /\ SessionOf[e] = s
                                          /\ firstSeen'[s] = Started[e]
                                          /\ Started[e] < firstSeen[s]
  BY DEF Hub!Observe
<1>1. firstSeen[s] \in Nat /\ firstSeen'[s] \in Nat /\ firstSeen'[s] =< firstSeen[s]
  BY SeenWithFacts DEF DeliveryTypeOK
<1>2. CASE firstSeen'[s] = firstSeen[s]
  BY <1>2
<1>3. ASSUME NEW e \in Of(E, s), firstSeen'[s] = Started[e], firstSeen'[s] # firstSeen[s]
      PROVE  e \in spooled /\ SessionOf[e] = s /\ Started[e] < firstSeen[s]
  BY <1>1, <1>3 DEF Of
<1>4. firstSeen'[s] = firstSeen[s] \/ \E e \in Of(E, s) : firstSeen'[s] = Started[e]
  BY SeenWithFacts
<1>5. QED
  BY <1>2, <1>3, <1>4

LEMMA MergeRecords ==
  ASSUME DeliveryIInv, MergeCommit
  PROVE  Hub!Record
<1> USE DEF DeliveryIInv
<1>1. LedgerRows \subseteq LedgerRows'
  BY FoldedFacts DEF LedgerRows
<1>2. ASSUME NEW r \in LedgerRows' \ LedgerRows
      PROVE  /\ r[2] \in spooled
             /\ r[1] \in Parts[r[2]]
             /\ <<"requests", r[2]>> \in LedgerRows' \/ Started[r[2]] < cutoff
  <2>1. r \in LedgerRow /\ r \in Row /\ merging[r] > 0
    BY <1>2, FoldedFacts DEF LedgerRows
  <2>2. staged[r] > 0 /\ r[1] \in Table /\ r[2] \in Event /\ r = <<r[1], r[2]>>
    BY <2>1 DEF DeliveryTypeOK, LedgerRow
  <2>3. r[2] \in spooled /\ r[1] \in Parts[r[2]]
    BY <2>1, <2>2 DEF RowsKnown
  <2>4. \/ merging[<<"requests", r[2]>>] > 0
        \/ ledger[<<"requests", r[2]>>] > 0
        \/ Started[r[2]] < cutoff
    BY <2>1, <2>2 DEF Parented
  <2>5. <<"requests", r[2]>> \in LedgerRow
    BY <2>2 DEF LedgerRow, Table
  <2>6. ledger[<<"requests", r[2]>>] \in Nat
    BY <2>5 DEF DeliveryTypeOK
  <2>7. <<"requests", r[2]>> \in LedgerRows' \/ Started[r[2]] < cutoff
    BY <2>4, <2>5, <2>6, FoldedFacts DEF LedgerRows
  <2>8. QED
    BY <2>3, <2>7
<1>3. Hub!Observe
  <2>1. Seen(merging) \subseteq Event
    BY DEF Seen
  <2>2. ASSUME NEW e \in Seen(merging)
        PROVE  e \in spooled
    <3>1. <<"sessions", e>> \in Row /\ merging[<<"sessions", e>>] > 0
      BY DEF Seen, Row, Stages
    <3>2. staged[<<"sessions", e>>] > 0
      BY <3>1 DEF DeliveryTypeOK
    <3>3. QED
      BY <3>1, <3>2 DEF RowsKnown
  <2>3. firstSeen' = SeenWith(Seen(merging))
    BY DEF MergeCommit
  <2>4. QED
    BY <2>1, <2>2, <2>3, SeenWithObserves
<1>4. UNCHANGED <<spooled, cutoff>>
  BY DEF MergeCommit
<1>5. QED
  BY <1>1, <1>2, <1>3, <1>4 DEF Hub!Record, LedgerRows

LEMMA StartExpires ==
  ASSUME DeliveryIInv, NEW cut \in Cutoff, HubStart(cut)
  PROVE  Hub!Expire
<1> USE DEF DeliveryIInv
<1>1. LedgerRows' = {r \in LedgerRows :
                       ~ (<<"requests", r[2]>> \in LedgerRows /\ Started[r[2]] < cutoff')}
  <2>1. ledger' = Retained(cut) /\ cutoff' = cut
    BY DEF HubStart
  <2>2. \A r \in LedgerRow : r[2] \in Requests <=> <<"requests", r[2]>> \in LedgerRows
    BY DEF LedgerRow, Requests, LedgerRows, Table
  <2>3. \A r \in LedgerRow : ledger'[r] =
          IF <<"requests", r[2]>> \in LedgerRows /\ Started[r[2]] < cutoff'
          THEN 0 ELSE ledger[r]
    BY <2>1, <2>2 DEF Retained
  <2>4. ASSUME NEW r \in LedgerRow
        PROVE  ledger'[r] > 0 <=>
                 /\ ledger[r] > 0
                 /\ ~ (<<"requests", r[2]>> \in LedgerRows /\ Started[r[2]] < cutoff')
    <3>1. CASE <<"requests", r[2]>> \in LedgerRows /\ Started[r[2]] < cutoff'
      <4>1. ledger'[r] = 0
        BY <2>3, <3>1
      <4>2. QED
        BY <3>1, <4>1
    <3>2. CASE ~ (<<"requests", r[2]>> \in LedgerRows /\ Started[r[2]] < cutoff')
      <4>1. ledger'[r] = ledger[r]
        BY <2>3, <3>2
      <4>2. QED
        BY <3>2, <4>1
    <3>3. QED
      BY <3>1, <3>2
  <2>5. QED
    BY <2>4 DEF LedgerRows
<1>2. Hub!Observe
  <2>1. Requests \subseteq Event
    BY DEF Requests
  <2>2. ASSUME NEW e \in Requests
        PROVE  e \in spooled
    <3>1. <<"requests", e>> \in LedgerRow /\ ledger[<<"requests", e>>] > 0
      BY DEF Requests, LedgerRow, Table
    <3>2. QED
      BY <3>1 DEF RowsKnown
  <2>3. firstSeen' = SeenWith(Requests)
    BY DEF HubStart
  <2>4. QED
    BY <2>1, <2>2, <2>3, SeenWithObserves
<1>3. cutoff =< cutoff' /\ spooled' = spooled
  BY DEF HubStart
<1>4. QED
  BY <1>1, <1>2, <1>3 DEF Hub!Expire, LedgerRows

(* The hub's ledger, fed by failing clients through staging tables, does   *)
(* what Ledger promises its readers.                                       *)
THEOREM DeliveryImplementsLedger == DeliverySpec => ImplementsLedger
<1>1. DeliveryInit => Hub!LedgerInit
  BY DEF DeliveryInit, Hub!LedgerInit
<1>2. DeliveryIInv /\ [DeliveryNext]_vars => [Hub!LedgerNext]_(Hub!ledgerVars)
  <2> SUFFICES ASSUME DeliveryIInv, [DeliveryNext]_vars
               PROVE  Hub!LedgerNext
    BY DEF Hub!ledgerVars
  <2>1. CASE UNCHANGED hubData \/ Appends
    <3>1. spooled \subseteq spooled'
      BY OutboxSteps DEF Spool, Acknowledge
    <3>2. UNCHANGED <<ledger, firstSeen, cutoff>>
      BY <2>1 DEF hubData, Appends
    <3>3. QED
      BY <3>1, <3>2 DEF Hub!LedgerNext, Hub!Offer
  <2>2. CASE MergeCommit
    BY <2>2, MergeRecords DEF Hub!LedgerNext
  <2>3. ASSUME NEW cut \in Cutoff, HubStart(cut)
        PROVE  Hub!LedgerNext
    <3>1. Hub!Expire
      BY <2>3, StartExpires
    <3>2. QED
      BY <3>1, Zenon DEF Hub!LedgerNext
  <2>4. QED
    BY <2>1, <2>2, <2>3, HubDataSteps
<1>3. QED
  BY <1>1, <1>2, DeliveryInvariant, PTL DEF DeliverySpec, ImplementsLedger, Hub!LedgerSpec

=============================================================================
