------------------------------- MODULE Ledger -------------------------------
(***************************************************************************)
(* What the shared hub promises its reports, without outboxes, staging     *)
(* tables, credentials or crashes: the rows of events that some machine    *)
(* spooled appear, never before the request row they belong to, and stay   *)
(* until startup retention removes them; a session's first-seen time is    *)
(* the start of one of its events and only ever moves back.                *)
(***************************************************************************)
EXTENDS Naturals

CONSTANTS Event,      \* usage events
          Parts,      \* Parts[e]: the ledger tables in which e has rows
          Started,    \* Started[e]: started_at
          Session,    \* sessions, each a provider and a session id
          SessionOf,  \* SessionOf[e]: the session of e, a non-member of Session if none
          Unseen      \* the first-seen time of a session not in the registry

VARIABLES offered, rows, firstSeen, cutoff

ledgerVars == <<offered, rows, firstSeen, cutoff>>

LedgerInit ==
  /\ offered = {}
  /\ rows = {}
  /\ firstSeen = [s \in Session |-> Unseen]
  /\ cutoff = 0

\* first_seen_at = LEAST(first_seen_at, ...) over events that were offered.
Observe ==
  \A s \in Session :
    \/ firstSeen'[s] = firstSeen[s]
    \/ \E e \in offered : /\ SessionOf[e] = s
                          /\ firstSeen'[s] = Started[e]
                          /\ Started[e] < firstSeen[s]

Offer ==
  /\ offered \subseteq offered'
  /\ UNCHANGED <<rows, firstSeen, cutoff>>

\* Child rows come with or after their request, unless it has expired meanwhile.
Record ==
  /\ rows \subseteq rows'
  /\ \A r \in rows' \ rows :
       /\ r[2] \in offered
       /\ r[1] \in Parts[r[2]]
       /\ <<"requests", r[2]>> \in rows' \/ Started[r[2]] < cutoff
  /\ Observe
  /\ UNCHANGED <<offered, cutoff>>

\* The hub starts: retention removes whole requests older than the cutoff.
Expire ==
  /\ cutoff =< cutoff'
  /\ rows' = {r \in rows : ~ (<<"requests", r[2]>> \in rows /\ Started[r[2]] < cutoff')}
  /\ Observe
  /\ UNCHANGED offered

LedgerNext == Offer \/ Record \/ Expire

LedgerSpec == LedgerInit /\ [][LedgerNext]_ledgerVars
=============================================================================
