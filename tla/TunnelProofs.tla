---------------------------- MODULE TunnelProofs ----------------------------
(***************************************************************************)
(* Theorems about Tunnel, for tunnels that carry any number of chunks.     *)
(*                                                                         *)
(* What a copy has written is what it has read, but for the chunk that it  *)
(* is about to write or gave up (Relayed); and a copy ends, while the      *)
(* handler has closed nothing, for a reason that lies with the peers       *)
(* (EndsForCause).  Both need to know which connections are open at which  *)
(* point of the handler (Connected).                                       *)
(***************************************************************************)
EXTENDS Tunnel, TLAPS

Connected ==
  /\ pc = "dial" => conn["client"] = "open"
  /\ pc = "hijack" => conn["client"] = "open"
  /\ pc \in {"establish", "wait"} => \A s \in Side : conn[s] = "open"
  /\ pc \in {"hijack", "dial", "establish"} => \A s \in Side : copy[s] = "off"

Relayed(s) ==
  /\ position[s] <= sent[s]
  /\ copy[s] \in {"off", "read"} => Len(delivered[s]) = position[s]
  /\ copy[s] = "write" => Len(delivered[s]) + 1 = position[s]

InOrder(s) == \A i \in DOMAIN delivered[s] : delivered[s][i] = i

EndsForCause(s) ==
  pc = "wait" /\ Ended(s) =>
    \/ peer[s] = "broken"
    \/ peer[Other(s)] = "broken"
    \/ peer[s] = "finished" /\ Len(delivered[s]) = sent[s]

TunnelIInv ==
  /\ TunnelTypeOK
  /\ Connected
  /\ \A s \in Side : Relayed(s) /\ InOrder(s) /\ EndsForCause(s)

LEMMA OtherSide == \A s \in Side : Other(s) \in Side /\ Other(s) # s
  BY DEF Side, Other

LEMMA TunnelInitial == Init => TunnelIInv
<1> SUFFICES ASSUME Init PROVE TunnelIInv
  OBVIOUS
<1>1. TunnelTypeOK
  BY TunnelAssumption DEF Init, TunnelTypeOK, Side
<1>2. Connected
  BY DEF Init, Connected, Side
<1>3. ASSUME NEW s \in Side PROVE Relayed(s) /\ InOrder(s) /\ EndsForCause(s)
  BY DEF Init, Relayed, InOrder, EndsForCause, Ended
<1> QED
  BY <1>1, <1>2, <1>3 DEF TunnelIInv

-----------------------------------------------------------------------------
(* The peers' steps: a peer that has stopped sending for good does not     *)
(* start again, and one that broke stays broken.                           *)

LEMMA PeerStep ==
  ASSUME TunnelIInv, NEW t \in Side, Peer(t)
  PROVE  TunnelIInv'
<1> USE DEF TunnelIInv
<1>1. TunnelTypeOK' /\ \A s \in Side : sent'[s] >= sent[s] /\ (peer[s] # "open" => sent'[s] = sent[s])
  <2>1. CASE Sends(t)
    <3>1. sent[t] \in 0..Chunks /\ sent[t] < Chunks /\ peer[t] = "open"
      BY <2>1 DEF Sends, TunnelTypeOK
    <3>2. sent[t] + 1 \in 0..Chunks /\ sent[t] + 1 >= sent[t]
      BY <3>1, TunnelAssumption
    <3>3. sent' = [sent EXCEPT ![t] = sent[t] + 1]
      BY <2>1 DEF Sends
    <3>4. TunnelTypeOK'
      BY <2>1, <3>2, <3>3 DEF Sends, TunnelTypeOK, handler, copies
    <3>5. ASSUME NEW s \in Side
          PROVE  sent'[s] >= sent[s] /\ (peer[s] # "open" => sent'[s] = sent[s])
      <4>1. sent[s] \in Nat /\ sent'[s] = IF s = t THEN sent[t] + 1 ELSE sent[s]
        BY <3>3, TunnelAssumption DEF TunnelTypeOK
      <4> QED
        BY <3>1, <3>2, <4>1
    <3> QED
      BY <3>4, <3>5
  <2>2. CASE Finishes(t) \/ Breaks(t) \/ Stalls(t)
    <3>1. TunnelTypeOK'
      BY <2>2 DEF Finishes, Breaks, Stalls, TunnelTypeOK, handler, copies
    <3>2. sent' = sent /\ \A s \in Side : sent[s] \in Nat
      BY <2>2, TunnelAssumption DEF Finishes, Breaks, Stalls, TunnelTypeOK
    <3> QED
      BY <3>1, <3>2
  <2> QED
    BY <2>1, <2>2 DEF Peer
<1>2. UNCHANGED <<pc, conn, early, copy, position, delivered>>
  BY DEF Peer, Sends, Finishes, Breaks, Stalls, handler, copies
<1>3. Connected'
  BY <1>2 DEF Connected
<1>4. ASSUME NEW s \in Side PROVE Relayed(s)' /\ InOrder(s)' /\ EndsForCause(s)'
  <2>1. Relayed(s) /\ InOrder(s) /\ EndsForCause(s)
    OBVIOUS
  <2>2. sent[s] \in Nat /\ position[s] \in Nat /\ sent'[s] \in Nat
    BY <1>1, TunnelAssumption DEF TunnelTypeOK
  <2>3. /\ sent'[s] >= sent[s]
        /\ peer[s] # "open" => sent'[s] = sent[s]
    BY <1>1
  <2>4. Relayed(s)'
    BY <1>2, <2>1, <2>2, <2>3, SMT DEF Relayed
  <2>5. InOrder(s)'
    BY <1>2, <2>1 DEF InOrder
  <2>6. \A r \in Side : peer[r] = "broken" => peer'[r] = "broken"
    BY DEF Peer, Sends, Finishes, Breaks, Stalls, TunnelTypeOK
  <2>7. peer[s] = "finished" => peer'[s] \in {"finished", "broken"}
    BY DEF Peer, Sends, Finishes, Breaks, Stalls, TunnelTypeOK
  <2>8. EndsForCause(s)'
    BY <1>2, <2>1, <2>3, <2>6, <2>7, OtherSide, Zenon DEF EndsForCause, Ended
  <2> QED
    BY <2>4, <2>5, <2>8
<1> QED
  BY <1>1, <1>3, <1>4

-----------------------------------------------------------------------------
(* The handler's steps: the copies start once, with nothing copied.        *)

LEMMA HandleStep ==
  ASSUME TunnelIInv, Handle
  PROVE  TunnelIInv'
<1> USE DEF TunnelIInv
<1>1. TunnelTypeOK'
  <2>1. CASE Refuse
    BY <2>1 DEF Refuse, TunnelTypeOK, peers, copies
  <2>2. CASE Hijack
    BY <2>2, TunnelAssumption DEF Hijack, TunnelTypeOK, peers, copies, Side
  <2>3. CASE Dial
    BY <2>3 DEF Dial, TunnelTypeOK, peers, copies
  <2>4. CASE DialFails \/ EstablishFails \/ Drain
    BY <2>4 DEF DialFails, EstablishFails, Drain, Returns, Closed, TunnelTypeOK, peers, copies
  <2>5. CASE Establish
    BY <2>5 DEF Establish, TunnelTypeOK, peers
  <2>6. CASE TearDown
    BY <2>6 DEF TearDown, BothClosed, TunnelTypeOK, peers, copies
  <2> QED
    BY <2>1, <2>2, <2>3, <2>4, <2>5, <2>6 DEF Handle
<1>2. Connected'
  <2>1. CASE Refuse
    BY <2>1 DEF Refuse, Connected, peers, copies
  <2>2. CASE Hijack
    BY <2>2 DEF Hijack, Connected, peers, copies
  <2>3. CASE Dial
    BY <2>3 DEF Dial, Connected, TunnelTypeOK, Side, peers, copies
  <2>4. CASE DialFails \/ EstablishFails \/ Drain
    BY <2>4 DEF DialFails, EstablishFails, Drain, Returns, Connected
  <2>5. CASE Establish
    BY <2>5 DEF Establish, Connected, peers
  <2>6. CASE TearDown
    BY <2>6 DEF TearDown, Connected
  <2> QED
    BY <2>1, <2>2, <2>3, <2>4, <2>5, <2>6 DEF Handle
<1>3. ASSUME NEW s \in Side PROVE Relayed(s)' /\ InOrder(s)' /\ EndsForCause(s)'
  <2>1. Relayed(s) /\ InOrder(s) /\ EndsForCause(s)
    OBVIOUS
  <2>2. UNCHANGED <<sent, peer, stalled, position, delivered>>
    BY DEF Handle, Refuse, Hijack, Dial, DialFails, Establish, EstablishFails, TearDown, Drain,
           peers, copies
  <2>3. CASE Establish
    <3>1. copy[s] = "off" /\ copy'[s] = "read"
      BY <2>3 DEF Establish, Connected
    <3> QED
      BY <2>1, <2>2, <3>1 DEF Relayed, InOrder, EndsForCause, Ended
  <2>4. CASE ~ Establish
    <3>1. copy' = copy /\ pc' # "wait"
      BY <2>4 DEF Handle, Refuse, Hijack, Dial, DialFails, EstablishFails, TearDown, Drain,
                  Returns, copies
    <3> QED
      BY <2>1, <2>2, <3>1 DEF Relayed, InOrder, EndsForCause
  <2> QED
    BY <2>3, <2>4
<1> QED
  BY <1>1, <1>2, <1>3

-----------------------------------------------------------------------------
(* The copies' steps.                                                      *)

\* A chunk that is written is the next one: the sequence stays in order.
LEMMA AppendsNext ==
  ASSUME NEW S, NEW q \in Seq(S), NEW x \in S, x = Len(q) + 1,
         \A i \in DOMAIN q : q[i] = i
  PROVE  /\ Append(q, x) \in Seq(S)
         /\ Len(Append(q, x)) = x
         /\ \A i \in DOMAIN Append(q, x) : Append(q, x)[i] = i
  OBVIOUS

LEMMA CopyStep ==
  ASSUME TunnelIInv, NEW t \in Side, Copy(t)
  PROVE  TunnelIInv'
<1> USE DEF TunnelIInv
<1>1. /\ Relayed(t) /\ InOrder(t)
      /\ sent[t] \in Nat /\ position[t] \in Nat /\ delivered[t] \in Seq(1..Chunks)
      /\ copy[t] \in {"read", "write"}
  BY TunnelAssumption DEF TunnelTypeOK, Copy, Read, ReadEnds, Write, WriteEnds
<1>2. UNCHANGED <<sent, peer, stalled, pc, conn, early>>
  BY DEF Copy, Read, ReadEnds, Write, WriteEnds, peers, handler
<1>3. \A s \in Side : s # t =>
        /\ copy'[s] = copy[s] /\ position'[s] = position[s] /\ delivered'[s] = delivered[s]
  BY DEF Copy, Read, ReadEnds, Write, WriteEnds, TunnelTypeOK
<1>4. pc \notin {"hijack", "dial", "establish"}
  BY <1>1 DEF Connected
<1>5. Connected'
  BY <1>2, <1>4 DEF Connected
<1>6. TunnelTypeOK' /\ Relayed(t)' /\ InOrder(t)'
  <2>1. CASE Read(t)
    <3>1. /\ position' = [position EXCEPT ![t] = position[t] + 1]
          /\ position[t] + 1 <= sent[t] /\ copy[t] = "read"
          /\ copy' = [copy EXCEPT ![t] = "write"] /\ delivered' = delivered
      BY <2>1 DEF Read, NextPosition
    <3>2. position[t] + 1 \in 0..Chunks
      BY <1>1, <3>1, TunnelAssumption, SMT DEF TunnelTypeOK
    <3>3. TunnelTypeOK'
      BY <1>2, <3>1, <3>2 DEF TunnelTypeOK
    <3>4. position'[t] = position[t] + 1 /\ copy'[t] = "write"
      BY <3>1 DEF TunnelTypeOK
    <3>5. Relayed(t)'
      BY <1>1, <1>2, <3>1, <3>4, SMT DEF Relayed
    <3> QED
      BY <1>1, <3>1, <3>3, <3>5 DEF InOrder
  <2>2. CASE ReadEnds(t) \/ WriteEnds(t)
    <3>1. copy' = [copy EXCEPT ![t] = "ended"] /\ UNCHANGED <<position, delivered>>
      BY <2>2 DEF ReadEnds, WriteEnds
    <3>2. TunnelTypeOK'
      BY <1>2, <3>1 DEF TunnelTypeOK
    <3>3. copy'[t] = "ended"
      BY <3>1 DEF TunnelTypeOK
    <3> QED
      BY <1>1, <1>2, <3>1, <3>2, <3>3 DEF Relayed, InOrder
  <2>3. CASE Write(t)
    <3>1. /\ delivered' = [delivered EXCEPT ![t] = Append(delivered[t], position[t])]
          /\ copy[t] = "write" /\ copy' = [copy EXCEPT ![t] = "read"] /\ position' = position
      BY <2>3 DEF Write
    <3>2. position[t] = Len(delivered[t]) + 1 /\ position[t] \in 0..Chunks
      BY <1>1, <3>1 DEF Relayed, TunnelTypeOK
    <3>3. position[t] \in 1..Chunks
      BY <1>1, <3>2, TunnelAssumption
    <3>4. /\ Append(delivered[t], position[t]) \in Seq(1..Chunks)
          /\ Len(Append(delivered[t], position[t])) = position[t]
          /\ \A i \in DOMAIN Append(delivered[t], position[t]) :
                Append(delivered[t], position[t])[i] = i
      BY <1>1, <3>2, <3>3, AppendsNext DEF InOrder
    <3>5. TunnelTypeOK'
      BY <1>2, <3>1, <3>4 DEF TunnelTypeOK
    <3>6. /\ delivered'[t] = Append(delivered[t], position[t])
          /\ copy'[t] = "read" /\ position'[t] = position[t]
      BY <3>1 DEF TunnelTypeOK
    <3>7. Relayed(t)'
      BY <1>1, <1>2, <3>4, <3>6 DEF Relayed
    <3> QED
      BY <3>4, <3>5, <3>6, <3>7 DEF InOrder
  <2> QED
    BY <2>1, <2>2, <2>3 DEF Copy
<1>7. EndsForCause(t)'
  <2> SUFFICES ASSUME pc' = "wait", Ended(t)'
               PROVE  \/ peer'[t] = "broken"
                      \/ peer'[Other(t)] = "broken"
                      \/ peer'[t] = "finished" /\ Len(delivered'[t]) = sent'[t]
    BY DEF EndsForCause
  <2>1. conn[t] = "open" /\ conn[Other(t)] = "open"
    BY <1>2, OtherSide DEF Connected
  <2>2. CASE ReadEnds(t)
    <3>1. peer[t] = "broken" \/ (peer[t] = "finished" /\ position[t] + 1 > sent[t])
      BY <2>1, <2>2 DEF ReadEnds, NextPosition
    <3>2. copy[t] = "read" /\ delivered' = delivered
      BY <2>2 DEF ReadEnds
    <3>3. position[t] + 1 > sent[t] => Len(delivered[t]) = sent[t]
      BY <1>1, <3>2, SMT DEF Relayed
    <3> QED
      BY <1>2, <3>1, <3>2, <3>3
  <2>3. CASE WriteEnds(t)
    BY <1>2, <2>1, <2>3 DEF WriteEnds
  <2>4. CASE Read(t) \/ Write(t)
    BY <2>4 DEF Read, Write, TunnelTypeOK, Ended
  <2> QED
    BY <2>2, <2>3, <2>4 DEF Copy
<1>8. ASSUME NEW s \in Side, s # t PROVE Relayed(s)' /\ InOrder(s)' /\ EndsForCause(s)'
  BY <1>2, <1>3, <1>8 DEF Relayed, InOrder, EndsForCause, Ended
<1> QED
  BY <1>5, <1>6, <1>7, <1>8

LEMMA TunnelInductive == TunnelIInv /\ [Next]_vars => TunnelIInv'
<1> SUFFICES ASSUME TunnelIInv, [Next]_vars PROVE TunnelIInv'
  OBVIOUS
<1>1. CASE Handle
  BY <1>1, HandleStep
<1>2. ASSUME NEW s \in Side, Copy(s) PROVE TunnelIInv'
  BY <1>2, CopyStep
<1>3. ASSUME NEW s \in Side, Peer(s) PROVE TunnelIInv'
  BY <1>3, PeerStep
<1>4. CASE UNCHANGED vars
  BY <1>4 DEF vars, peers, handler, copies, TunnelIInv, TunnelTypeOK, Connected, Relayed,
              InOrder, EndsForCause, Ended
<1> QED
  BY <1>1, <1>2, <1>3, <1>4 DEF Next

LEMMA TunnelInvariant == Spec => []TunnelIInv
  BY TunnelInitial, TunnelInductive, PTL DEF Spec

-----------------------------------------------------------------------------

\* What each peer has been sent is a prefix of what the other sent, in order, the
\* bytes that the server had read ahead included; and a direction whose sender
\* finished, and whose receiver is there, has delivered all of it before anything
\* is closed.
THEOREM TunnelDeliversInOrder == Spec => []DeliveredInOrder
<1>1. TunnelIInv => DeliveredInOrder
  <2> SUFFICES ASSUME TunnelIInv, NEW s \in Side
               PROVE  /\ InOrder(s)
                      /\ (pc = "wait" /\ Ended(s) /\ peer[s] = "finished" /\ peer[Other(s)] # "broken")
                           => Len(delivered[s]) = sent[s]
    BY DEF DeliveredInOrder, InOrder
  <2> QED
    BY DEF TunnelIInv, EndsForCause
<1> QED
  BY <1>1, TunnelInvariant, PTL
=============================================================================
