------------------------------- MODULE Tunnel -------------------------------
(***************************************************************************)
(* A CONNECT tunnel of the proxy (internal/proxy, handleWebConnect).  The  *)
(* handler takes the client's connection from the HTTP server, dials the   *)
(* target, answers 200 and starts two copies, one goroutine for each       *)
(* direction; the first one to end makes it close both connections, which  *)
(* ends the other.                                                         *)
(*                                                                         *)
(* Around it are two peers.  A peer sends chunks, numbered from 1; it may  *)
(* finish its side (a FIN, which leaves it able to read), break the        *)
(* connection, or stop reading for good: no write has a deadline, so a     *)
(* copy that writes to it then blocks.                                     *)
(***************************************************************************)
EXTENDS Naturals, Sequences

CONSTANT Chunks     \* how many chunks each peer may send

ASSUME TunnelAssumption == Chunks \in Nat

Side == {"client", "upstream"}
Other(s) == IF s = "client" THEN "upstream" ELSE "client"

VARIABLES
  sent,       \* chunks each peer has sent
  peer,       \* each peer's side of its connection
  stalled,    \* peers that have stopped reading
  early,      \* chunks of the client in the server's reader when Hijack returned
  pc,         \* where the handler is
  conn,       \* the proxy's ends of the two connections
  copy,       \* the copy from each side to the other
  position,   \* the last chunk each copy has read
  delivered   \* the chunks each copy has written, in order

peers   == <<sent, peer, stalled>>
handler == <<pc, conn, early>>
copies  == <<copy, position, delivered>>
vars    == <<peers, handler, copies>>

TunnelTypeOK ==
  /\ sent \in [Side -> 0..Chunks]
  /\ peer \in [Side -> {"open", "finished", "broken"}]
  /\ stalled \in [Side -> BOOLEAN]
  /\ early \in 0..Chunks
  /\ pc \in {"hijack", "dial", "establish", "wait", "drain", "returned"}
  /\ conn \in [Side -> {"none", "open", "closed"}]
  /\ copy \in [Side -> {"off", "read", "write", "ended"}]
  /\ position \in [Side -> 0..Chunks]
  /\ delivered \in [Side -> Seq(1..Chunks)]

\* The request has been read; its body may follow before anybody asked for it.
Init ==
  /\ sent = [s \in Side |-> 0]
  /\ peer = [s \in Side |-> "open"]
  /\ stalled = [s \in Side |-> FALSE]
  /\ early = 0
  /\ pc = "hijack"
  /\ conn = [client |-> "open", upstream |-> "none"]
  /\ copy = [s \in Side |-> "off"]
  /\ position = [s \in Side |-> 0]
  /\ delivered = [s \in Side |-> <<>>]

-----------------------------------------------------------------------------
(* The peers.  The upstream has a connection once it is dialled.           *)

Sends(s) ==
  /\ peer[s] = "open" /\ conn[s] # "none" /\ sent[s] < Chunks
  /\ sent' = [sent EXCEPT ![s] = @ + 1]
  /\ UNCHANGED <<peer, stalled, handler, copies>>

Finishes(s) ==
  /\ peer[s] = "open" /\ conn[s] # "none"
  /\ peer' = [peer EXCEPT ![s] = "finished"]
  /\ UNCHANGED <<sent, stalled, handler, copies>>

Breaks(s) ==
  /\ peer[s] # "broken" /\ conn[s] # "none"
  /\ peer' = [peer EXCEPT ![s] = "broken"]
  /\ UNCHANGED <<sent, stalled, handler, copies>>

Stalls(s) ==
  /\ ~ stalled[s] /\ conn[s] # "none"
  /\ stalled' = [stalled EXCEPT ![s] = TRUE]
  /\ UNCHANGED <<sent, peer, handler, copies>>

-----------------------------------------------------------------------------
(* The handler.                                                            *)

\* The deferred closes: a connection that was never made stays so.
Closed == [s \in Side |-> IF conn[s] = "none" THEN "none" ELSE "closed"]

Returns ==
  /\ pc' = "returned"
  /\ conn' = Closed

\* No target, or a response writer that cannot be hijacked: the server answers
\* and keeps the connection.
Refuse ==
  /\ pc = "hijack"
  /\ pc' = "returned"
  /\ UNCHANGED <<peers, conn, early, copies>>

\* The server's reader may have read ahead: those chunks are in clientRW.Reader
\* and will not be read from the connection again.
Hijack ==
  /\ pc = "hijack"
  /\ early' \in 0..sent["client"]
  /\ pc' = "dial"
  /\ UNCHANGED <<peers, conn, copies>>

Dial ==
  /\ pc = "dial"
  /\ conn' = [conn EXCEPT !["upstream"] = "open"]
  /\ pc' = "establish"
  /\ UNCHANGED <<peers, early, copies>>

\* The client is told 502, as far as it still listens.
DialFails ==
  /\ pc = "dial"
  /\ Returns
  /\ UNCHANGED <<peers, early, copies>>

\* The 200 is written and flushed; then the two goroutines start.
Establish ==
  /\ pc = "establish"
  /\ copy' = [s \in Side |-> "read"]
  /\ pc' = "wait"
  /\ UNCHANGED <<peers, conn, early, position, delivered>>

EstablishFails ==
  /\ pc = "establish" /\ peer["client"] = "broken"
  /\ Returns
  /\ UNCHANGED <<peers, early, copies>>

Ended(s) == copy[s] = "ended"

\* Mutant: the handler leaves the client's connection to its deferred close.
UpstreamClosed == [conn EXCEPT !["upstream"] = "closed"]

\* Both ends, whichever copy ended.
BothClosed == [s \in Side |-> "closed"]

\* <-copyDone, and the two closes.
TearDown ==
  /\ pc = "wait" /\ \E s \in Side : Ended(s)
  /\ conn' = BothClosed
  /\ pc' = "drain"
  /\ UNCHANGED <<peers, early, copies>>

Drain ==
  /\ pc = "drain" /\ \A s \in Side : Ended(s)
  /\ Returns
  /\ UNCHANGED <<peers, early, copies>>

-----------------------------------------------------------------------------
(* The copies (io.Copy).                                                   *)

\* Mutant: the raw connection is copied, past what the server had read ahead.
RawPosition(s) ==
  IF s = "client" /\ position[s] < early THEN early + 1 ELSE position[s] + 1

\* The client's direction reads clientRW.Reader: what was read ahead, then the
\* connection.
NextPosition(s) == position[s] + 1

Buffered(s) == s = "client" /\ position[s] < early

\* What was read ahead is there whatever has become of the connection.
Read(s) ==
  /\ copy[s] = "read"
  /\ Buffered(s) \/ (conn[s] = "open" /\ peer[s] # "broken")
  /\ NextPosition(s) <= sent[s]
  /\ position' = [position EXCEPT ![s] = NextPosition(s)]
  /\ copy' = [copy EXCEPT ![s] = "write"]
  /\ UNCHANGED <<peers, handler, delivered>>

\* EOF, a broken connection, or one the handler has closed.
ReadEnds(s) ==
  /\ copy[s] = "read" /\ ~ Buffered(s)
  /\ \/ conn[s] = "closed"
     \/ peer[s] = "broken"
     \/ peer[s] = "finished" /\ NextPosition(s) > sent[s]
  /\ copy' = [copy EXCEPT ![s] = "ended"]
  /\ UNCHANGED <<peers, handler, position, delivered>>

\* A connection that broke may still take a write that nobody will read.
Write(s) ==
  /\ copy[s] = "write"
  /\ conn[Other(s)] = "open" /\ ~ stalled[Other(s)]
  /\ delivered' = [delivered EXCEPT ![s] = Append(@, position[s])]
  /\ copy' = [copy EXCEPT ![s] = "read"]
  /\ UNCHANGED <<peers, handler, position>>

WriteEnds(s) ==
  /\ copy[s] = "write"
  /\ conn[Other(s)] = "closed" \/ peer[Other(s)] = "broken"
  /\ copy' = [copy EXCEPT ![s] = "ended"]
  /\ UNCHANGED <<peers, handler, position, delivered>>

Copy(s) == Read(s) \/ ReadEnds(s) \/ Write(s) \/ WriteEnds(s)

-----------------------------------------------------------------------------

Handle == \/ Refuse \/ Hijack \/ Dial \/ DialFails \/ Establish \/ EstablishFails
          \/ TearDown \/ Drain

Peer(s) == Sends(s) \/ Finishes(s) \/ Breaks(s) \/ Stalls(s)

Next == Handle \/ \E s \in Side : Copy(s) \/ Peer(s)

\* The handler and the copies are goroutines that run when they can; nothing is
\* asked of the peers.
Spec == Init /\ [][Next]_vars /\ WF_vars(Handle) /\ \A s \in Side : WF_vars(Copy(s))

-----------------------------------------------------------------------------
(* Properties                                                              *)

\* A prefix of what was sent, in order and with nothing left out: what the
\* server had read ahead included.  And the direction that ends the tunnel
\* because its sender finished has delivered all of it, unless its receiver is gone.
DeliveredInOrder ==
  \A s \in Side :
    /\ \A i \in DOMAIN delivered[s] : delivered[s][i] = i
    /\ (pc = "wait" /\ Ended(s) /\ peer[s] = "finished" /\ peer[Other(s)] # "broken")
         => Len(delivered[s]) = sent[s]

\* A tunnel with a peer that has finished or broken comes to its end, both copies
\* with it, whatever the other peer does; unless a peer has stopped reading, for
\* a copy that writes to it waits for ever.
TunnelEnds ==
  \A s \in Side :
    (pc = "wait" /\ peer[s] # "open")
      ~> (pc = "returned" \/ \E t \in Side : stalled[t])
=============================================================================
