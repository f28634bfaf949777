---------------------------- MODULE DaemonProofs ----------------------------
(***************************************************************************)
(* Proofs about the serve daemon.                                          *)
(*                                                                         *)
(* The usage queue, for every set of events, every capacity and every      *)
(* batch size; the daemon around it, which uses the queue as Queue         *)
(* specifies it, and whose orderly exit accounts for every event; and a    *)
(* request on its way through the proxy, for responses of any length and   *)
(* captures of any limit.                                                  *)
(***************************************************************************)
EXTENDS Serve, Proxy, SequenceTheorems, TLAPS

-----------------------------------------------------------------------------
(* The queue.                                                              *)

Injective(s) == \A i, j \in DOMAIN s : s[i] = s[j] => i = j

LEMMA EventsAssociate ==
  ASSUME NEW s \in Seq(Event), NEW t \in Seq(Event), NEW u \in Seq(Event)
  PROVE  (s \o t) \o u = s \o (t \o u)
  BY ConcatAssociative

\* The elements of a concatenation.
LEMMA ElementsConcat ==
  ASSUME NEW S, NEW s \in Seq(S), NEW t \in Seq(S)
  PROVE  Elements(s \o t) = Elements(s) \cup Elements(t)
<1>1. /\ s \o t \in Seq(S)
      /\ DOMAIN (s \o t) = 1 .. (Len(s) + Len(t))
      /\ DOMAIN s = 1 .. Len(s) /\ DOMAIN t = 1 .. Len(t)
      /\ Len(s) \in Nat /\ Len(t) \in Nat
  BY ConcatProperties, LenProperties
<1>2. ASSUME NEW x \in Elements(s \o t)
      PROVE  x \in Elements(s) \cup Elements(t)
  <2>1. PICK i \in 1 .. (Len(s) + Len(t)) : x = (s \o t)[i]
    BY <1>1, <1>2 DEF Elements
  <2>2. CASE i <= Len(s)
    BY <1>1, <2>1, <2>2, i \in 1 .. Len(s), (s \o t)[i] = s[i] DEF Elements
  <2>3. CASE i > Len(s)
    <3>1. i - Len(s) \in DOMAIN t /\ (s \o t)[i] = t[i - Len(s)]
      BY <1>1, <2>3
    <3>2. QED
      BY <2>1, <3>1 DEF Elements
  <2>4. QED
    BY <1>1, <2>2, <2>3
<1>3. ASSUME NEW x \in Elements(s)
      PROVE  x \in Elements(s \o t)
  <2>1. PICK i \in 1 .. Len(s) : x = s[i]
    BY <1>1, <1>3 DEF Elements
  <2>2. i \in DOMAIN (s \o t) /\ (s \o t)[i] = s[i]
    BY <1>1
  <2>3. QED
    BY <2>1, <2>2 DEF Elements
<1>4. ASSUME NEW x \in Elements(t)
      PROVE  x \in Elements(s \o t)
  <2>1. PICK i \in 1 .. Len(t) : x = t[i]
    BY <1>1, <1>4 DEF Elements
  <2>2. i + Len(s) \in DOMAIN (s \o t) /\ (s \o t)[i + Len(s)] = t[i]
    BY <1>1
  <2>3. QED
    BY <2>1, <2>2 DEF Elements
<1>5. QED
  BY <1>2, <1>3, <1>4

\* A sequence without repetitions splits into two that share no element.
LEMMA InjectiveSplit ==
  ASSUME NEW S, NEW s \in Seq(S), NEW t \in Seq(S), Injective(s \o t)
  PROVE  /\ Injective(s)
         /\ Injective(t)
         /\ Elements(s) \cap Elements(t) = {}
<1>1. /\ DOMAIN (s \o t) = 1 .. (Len(s) + Len(t))
      /\ DOMAIN s = 1 .. Len(s) /\ DOMAIN t = 1 .. Len(t)
      /\ Len(s) \in Nat /\ Len(t) \in Nat
  BY ConcatProperties, LenProperties
<1>2. \A i \in DOMAIN s : i \in DOMAIN (s \o t) /\ (s \o t)[i] = s[i]
  BY <1>1
<1>3. \A i \in DOMAIN t : /\ i + Len(s) \in DOMAIN (s \o t)
                          /\ (s \o t)[i + Len(s)] = t[i]
  BY <1>1
<1>4. Injective(s)
  BY <1>2 DEF Injective
<1>5. Injective(t)
  <2>1. SUFFICES ASSUME NEW i \in DOMAIN t, NEW j \in DOMAIN t, t[i] = t[j]
                 PROVE  i = j
    BY DEF Injective
  <2>2. i + Len(s) = j + Len(s)
    BY <1>3, <2>1 DEF Injective
  <2>3. QED
    BY <1>1, <2>2
<1>6. Elements(s) \cap Elements(t) = {}
  <2>1. SUFFICES ASSUME NEW i \in DOMAIN s, NEW j \in DOMAIN t, s[i] = t[j]
                 PROVE  FALSE
    BY DEF Elements
  <2>2. i = j + Len(s)
    BY <1>2, <1>3, <2>1 DEF Injective
  <2>3. QED
    BY <1>1, <2>2
<1>7. QED
  BY <1>4, <1>5, <1>6

\* Moving the head of a sequence to the end of the one before it.
LEMMA MoveHead ==
  ASSUME NEW S, NEW s \in Seq(S), NEW t \in Seq(S), t # <<>>
  PROVE  Append(s, Head(t)) \o Tail(t) = s \o t
<1>1. /\ Head(t) \in S /\ Tail(t) \in Seq(S)
      /\ Len(Tail(t)) = Len(t) - 1
      /\ Head(t) = t[1]
      /\ \A i \in 1 .. Len(Tail(t)) : Tail(t)[i] = t[i + 1]
  BY HeadTailProperties
<1>2. /\ Append(s, Head(t)) \in Seq(S)
      /\ Len(Append(s, Head(t))) = Len(s) + 1
      /\ \A i \in 1 .. Len(s) : Append(s, Head(t))[i] = s[i]
      /\ Append(s, Head(t))[Len(s) + 1] = Head(t)
  BY <1>1, AppendProperties
<1> DEFINE u == Append(s, Head(t)) \o Tail(t)
<1>3. Len(s) \in Nat /\ Len(t) \in Nat
  BY LenProperties
<1>4. /\ u \in Seq(S) /\ Len(u) = Len(s) + Len(t)
      /\ \A i \in 1 .. Len(s) + Len(t) :
           u[i] = IF i <= Len(s) + 1 THEN Append(s, Head(t))[i]
                  ELSE Tail(t)[i - (Len(s) + 1)]
  BY <1>1, <1>2, <1>3, ConcatProperties
<1>5. /\ s \o t \in Seq(S) /\ Len(s \o t) = Len(s) + Len(t)
      /\ \A i \in 1 .. Len(s) + Len(t) :
           (s \o t)[i] = IF i <= Len(s) THEN s[i] ELSE t[i - Len(s)]
  BY ConcatProperties
<1>6. ASSUME NEW i \in 1 .. Len(s) + Len(t)
      PROVE  u[i] = (s \o t)[i]
  <2>1. CASE i <= Len(s)
    BY <1>2, <1>3, <1>4, <1>5, <2>1
  <2>2. CASE i = Len(s) + 1
    BY <1>1, <1>2, <1>3, <1>4, <1>5, <2>2
  <2>3. CASE i > Len(s) + 1
    <3>1. i - (Len(s) + 1) \in 1 .. Len(Tail(t))
      BY <1>1, <1>3, <2>3
    <3>2. Tail(t)[i - (Len(s) + 1)] = t[(i - (Len(s) + 1)) + 1]
      BY <1>1, <3>1
    <3>3. (i - (Len(s) + 1)) + 1 = i - Len(s)
      BY <1>3
    <3>4. QED
      BY <1>3, <1>4, <1>5, <2>3, <3>2, <3>3
  <2>4. QED
    BY <1>3, <2>1, <2>2, <2>3
<1>7. QED
  BY <1>4, <1>5, <1>6, SeqEqual

\* What Append adds.
LEMMA ElementsAppend ==
  ASSUME NEW S, NEW s \in Seq(S), NEW x \in S
  PROVE  /\ Append(s, x) \in Seq(S)
         /\ Len(Append(s, x)) = Len(s) + 1
         /\ Elements(Append(s, x)) = Elements(s) \cup {x}
         /\ Injective(s) /\ x \notin Elements(s) => Injective(Append(s, x))
<1>1. /\ Append(s, x) \in Seq(S)
      /\ Len(Append(s, x)) = Len(s) + 1
      /\ \A i \in 1 .. Len(s) : Append(s, x)[i] = s[i]
      /\ Append(s, x)[Len(s) + 1] = x
      /\ DOMAIN s = 1 .. Len(s) /\ Len(s) \in Nat
      /\ DOMAIN Append(s, x) = 1 .. (Len(s) + 1)
  BY AppendProperties, LenProperties
<1>2. Elements(Append(s, x)) = Elements(s) \cup {x}
  BY <1>1 DEF Elements
<1>3. ASSUME Injective(s), x \notin Elements(s),
             NEW i \in 1 .. (Len(s) + 1), NEW j \in 1 .. (Len(s) + 1),
             Append(s, x)[i] = Append(s, x)[j]
      PROVE  i = j
  BY <1>1, <1>3 DEF Injective, Elements
<1>4. QED
  BY <1>1, <1>2, <1>3 DEF Injective

\* The three parts of a concatenation.
LEMMA ThreeParts ==
  ASSUME NEW S, NEW s \in Seq(S), NEW t \in Seq(S), NEW u \in Seq(S)
  PROVE  /\ Elements((s \o t) \o u) = Elements(s) \cup Elements(t) \cup Elements(u)
         /\ Len((s \o t) \o u) = Len(s) + Len(t) + Len(u)
<1> DEFINE v == s \o t
<1>1. v \in Seq(S) /\ Len(v) = Len(s) + Len(t)
  BY ConcatProperties
<1>2. Elements(v) = Elements(s) \cup Elements(t)
  BY ElementsConcat
<1> HIDE DEF v
<1>3. Len(v \o u) = Len(v) + Len(u)
  BY <1>1, ConcatProperties
<1>4. Elements(v \o u) = Elements(v) \cup Elements(u)
  BY <1>1, ElementsConcat
<1>5. QED
  BY <1>1, <1>2, <1>3, <1>4 DEF v

\* Parts of a sequence without repetitions share no element.
LEMMA DisjointParts ==
  ASSUME NEW S, NEW s \in Seq(S), NEW t \in Seq(S), NEW u \in Seq(S),
         Injective((s \o t) \o u)
  PROVE  /\ Elements(s) \cap Elements(t) = {}
         /\ Elements(s) \cap Elements(u) = {}
         /\ Elements(t) \cap Elements(u) = {}
<1> DEFINE v == s \o t
<1>1. v \in Seq(S)
  BY ConcatProperties
<1>2. Elements(v) = Elements(s) \cup Elements(t)
  BY ElementsConcat
<1>3. Injective(v) => Elements(s) \cap Elements(t) = {}
  BY InjectiveSplit
<1>4. Injective(v \o u)
  OBVIOUS
<1> HIDE DEF v
<1>5. Injective(v) /\ Elements(v) \cap Elements(u) = {}
  BY <1>1, <1>4, InjectiveSplit
<1>6. QED
  BY <1>2, <1>3, <1>5

-----------------------------------------------------------------------------
(***************************************************************************)
(* The inductive invariant: the order of the pipeline and the outcome of   *)
(* handed events are inductive by themselves; uniqueness needs the calls   *)
(* that have been sent, and the promise of Close needs to know what the    *)
(* writer still holds while it drains.                                     *)
(***************************************************************************)
\* No event is sent twice, and the sent events are those whose call says so.
SentOnce ==
  /\ Injective(accepted)
  /\ Elements(accepted) = {e \in Event : call[e] = "sent"}

\* What InsertBatch was given is committed or failed, not both.
HandedOutcome ==
  /\ Elements(handed) = stored \cup failed
  /\ stored \cap failed = {}

\* What the writer knows at each point of its exit.
ExitInv ==
  /\ atClose <= Len(accepted)
  /\ writer \in {"drain", "lastFlush", "done"} => closer # "open"
  /\ writer = "lastFlush" => Len(handed) + Len(batch) >= atClose
  /\ writer = "done" => batch = <<>> /\ Len(handed) >= atClose

QueueIInv ==
  /\ QueueTypeOK
  /\ PipelineInOrder
  /\ SentOnce
  /\ HandedOutcome
  /\ ExitInv
  /\ Bounded

\* The three parts of the pipeline have no element in common and no repetition.
LEMMA PipelineParts ==
  ASSUME QueueIInv
  PROVE  /\ Elements(accepted)
              = Elements(handed) \cup Elements(batch) \cup Elements(events)
         /\ Elements(handed) \cap Elements(batch) = {}
         /\ Elements(handed) \cap Elements(events) = {}
         /\ Elements(batch) \cap Elements(events) = {}
         /\ Len(accepted) = Len(handed) + Len(batch) + Len(events)
<1>1. handed \in Seq(Event) /\ batch \in Seq(Event) /\ events \in Seq(Event)
  BY DEF QueueIInv, QueueTypeOK
<1>2. accepted = (handed \o batch) \o events /\ Injective(accepted)
  BY DEF QueueIInv, PipelineInOrder, SentOnce
<1>3. /\ Elements((handed \o batch) \o events)
           = Elements(handed) \cup Elements(batch) \cup Elements(events)
      /\ Len((handed \o batch) \o events) = Len(handed) + Len(batch) + Len(events)
  BY <1>1, ThreeParts, SMT
<1>4. Injective((handed \o batch) \o events)
  BY <1>2
<1>5. /\ Elements(handed) \cap Elements(batch) = {}
      /\ Elements(handed) \cap Elements(events) = {}
      /\ Elements(batch) \cap Elements(events) = {}
  BY <1>1, <1>4, DisjointParts, SMT
<1>6. QED
  BY <1>2, <1>3, <1>5

LEMMA InvariantInitially == QueueInit => QueueIInv
<1> SUFFICES ASSUME QueueInit PROVE QueueIInv
  OBVIOUS
<1> USE DEF QueueInit
<1>1. Elements(<<>>) = {} /\ Injective(<<>>) /\ Len(<<>>) = 0 /\ <<>> \in Seq(Event)
  BY DEF Elements, Injective
<1>2. QueueTypeOK
  BY <1>1 DEF QueueTypeOK, CallState, WriterState, CloserState
<1>3. PipelineInOrder
  BY <1>1, ConcatEmptySeq DEF PipelineInOrder
<1>4. SentOnce /\ HandedOutcome /\ ExitInv /\ Bounded
  BY <1>1, QueueAssumption DEF SentOnce, HandedOutcome, ExitInv, Bounded
<1>5. QED
  BY <1>2, <1>3, <1>4 DEF QueueIInv

\* TakeEvent moves the head of the channel to the end of the batch.
LEMMA TakeEventFacts ==
  ASSUME QueueTypeOK, TakeEvent
  PROVE  /\ batch' \in Seq(Event) /\ events' \in Seq(Event)
         /\ Len(batch') = Len(batch) + 1
         /\ Len(events') = Len(events) - 1
         /\ batch' \o events' = batch \o events
<1>1. batch \in Seq(Event) /\ events \in Seq(Event) /\ events # <<>>
  BY DEF QueueTypeOK, TakeEvent
<1>2. /\ Head(events) \in Event /\ Tail(events) \in Seq(Event)
      /\ Len(Tail(events)) = Len(events) - 1
  BY <1>1, HeadTailProperties
<1>3. /\ Append(batch, Head(events)) \in Seq(Event)
      /\ Len(Append(batch, Head(events))) = Len(batch) + 1
  BY <1>1, <1>2, AppendProperties
<1>4. Append(batch, Head(events)) \o Tail(events) = batch \o events
  BY <1>1, MoveHead
<1>5. QED
  BY <1>2, <1>3, <1>4 DEF TakeEvent

LEMMA TypeStep == QueueTypeOK /\ [QueueNext]_queueVars => QueueTypeOK'
<1> SUFFICES ASSUME QueueTypeOK, [QueueNext]_queueVars
             PROVE  QueueTypeOK'
  OBVIOUS
<1> USE DEF QueueTypeOK, queueVars, callVars, writerVars, closeVars,
            CallState, WriterState, CloserState
<1>1. ASSUME NEW e \in Event, Send(e)
      PROVE  QueueTypeOK'
  BY <1>1, AppendProperties DEF Send
<1>2. ASSUME NEW e \in Event, Enqueue(e)
      PROVE  QueueTypeOK'
  <2>1. CASE EnqueueWait(e)
    BY <2>1 DEF EnqueueWait
  <2>2. CASE EnqueueTimeout(e)
    BY <2>2 DEF EnqueueTimeout
  <2>3. QED
    BY <1>1, <1>2, <2>1, <2>2 DEF Enqueue, EnqueueNow, EnqueueLate
<1>3. CASE TakeEvent /\ writer' \in WriterState
  <2>1. batch' \in Seq(Event) /\ events' \in Seq(Event)
    BY <1>3, TakeEventFacts
  <2>2. QED
    BY <1>3, <2>1 DEF TakeEvent
<1>4. CASE Receive \/ DrainOne
  BY <1>3, <1>4 DEF Receive, DrainOne
<1>5. CASE Tick \/ SeeClosing \/ DrainEnd
  BY <1>5 DEF Tick, SeeClosing, DrainEnd
<1>6. CASE FlushOK \/ FlushError
  <2>1. handed \o batch \in Seq(Event)
    BY ConcatProperties
  <2>2. Elements(batch) \subseteq Event
    BY ElementOfSeq, LenProperties DEF Elements
  <2>3. FlushReturn /\ <<>> \in Seq(Event)
    BY <1>6 DEF FlushOK, FlushError
  <2>4. stored' \in SUBSET Event /\ failed' \in SUBSET Event
    BY <1>6, <2>2 DEF FlushOK, FlushError
  <2>5. QED
    BY <2>1, <2>3, <2>4 DEF FlushReturn
<1>7. CASE Close
  <2>1. Len(accepted) \in Nat
    BY LenProperties
  <2>2. QED
    BY <1>7, <2>1 DEF Close, CloseCall, CloseReturn, CloseTimeout
<1>8. CASE UNCHANGED queueVars
  BY <1>8
<1>9. QED
  BY <1>2, <1>4, <1>5, <1>6, <1>7, <1>8 DEF QueueNext, Writer

\* A send appends one new event to the channel and to the accepted events.
LEMMA SendStep ==
  ASSUME QueueIInv, NEW e \in Event, Send(e), call[e] # "sent"
  PROVE  /\ PipelineInOrder'
         /\ SentOnce'
         /\ HandedOutcome'
         /\ ExitInv'
         /\ Bounded'
<1>1. /\ events \in Seq(Event) /\ accepted \in Seq(Event)
      /\ handed \in Seq(Event) /\ batch \in Seq(Event)
      /\ call \in [Event -> CallState]
  BY DEF QueueIInv, QueueTypeOK
<1>2. UNCHANGED <<batch, writer, handed, stored, failed, closer, atClose>>
  BY DEF Send, writerVars, closeVars
<1>3. PipelineInOrder'
  <2>1. handed \o batch \in Seq(Event)
    BY <1>1, ConcatProperties
  <2> DEFINE v == handed \o batch
  <2>2. v \o events \in Seq(Event) /\ Append(v \o events, e) = v \o Append(events, e)
    <3>1. v \in Seq(Event)
      BY <2>1
    <3> HIDE DEF v
    <3>2. v \o events \in Seq(Event)
      BY <1>1, <3>1, ConcatProperties
    <3>3. /\ Append(v \o events, e) = (v \o events) \o <<e>>
          /\ Append(events, e) = events \o <<e>>
      BY <1>1, <3>2, AppendIsConcat
    <3>4. <<e>> \in Seq(Event)
      OBVIOUS
    <3>5. (v \o events) \o <<e>> = v \o (events \o <<e>>)
      <4> DEFINE w == <<e>>
      <4>1. events \in Seq(Event) /\ w \in Seq(Event)
        BY <1>1, <3>4
      <4> HIDE DEF w
      <4>2. (v \o events) \o w = v \o (events \o w)
        BY <3>1, <4>1, EventsAssociate
      <4>3. QED
        BY <4>2 DEF w
    <3>6. QED
      BY <3>2, <3>3, <3>5
  <2>3. accepted = v \o events
    BY DEF QueueIInv, PipelineInOrder
  <2>4. accepted' = v \o events'
    BY <2>2, <2>3 DEF Send
  <2>5. QED
    BY <1>2, <2>4 DEF PipelineInOrder
<1>4. SentOnce'
  <2>1. e \notin Elements(accepted) /\ Injective(accepted)
    BY DEF QueueIInv, SentOnce
  <2>2. /\ Injective(accepted')
        /\ Elements(accepted') = Elements(accepted) \cup {e}
    BY <1>1, <2>1, ElementsAppend DEF Send
  <2>3. call' = [call EXCEPT ![e] = "sent"]
    BY DEF Send
  <2>4. QED
    BY <1>1, <2>2, <2>3 DEF QueueIInv, SentOnce
<1>5. HandedOutcome'
  BY <1>2 DEF QueueIInv, HandedOutcome
<1>6. ExitInv'
  <2>1. Len(accepted') = Len(accepted) + 1 /\ Len(accepted) \in Nat
    BY <1>1, AppendProperties, LenProperties DEF Send
  <2>2. QED
    BY <1>2, <2>1 DEF QueueIInv, QueueTypeOK, ExitInv
<1>7. Bounded'
  <2>1. /\ Len(events') = Len(events) + 1 /\ Len(events) \in Nat
        /\ Len(events) < Capacity
    BY <1>1, AppendProperties, LenProperties DEF Send
  <2>2. QED
    BY <1>2, <2>1, QueueAssumption DEF QueueIInv, Bounded
<1>8. QED
  BY <1>3, <1>4, <1>5, <1>6, <1>7

\* Waiting, and giving up, leave the pipeline alone.
LEMMA WaitStep ==
  ASSUME QueueIInv, NEW e \in Event, EnqueueWait(e) \/ EnqueueTimeout(e)
  PROVE  /\ PipelineInOrder'
         /\ SentOnce'
         /\ HandedOutcome'
         /\ ExitInv'
         /\ Bounded'
<1>1. /\ UNCHANGED <<events, accepted, batch, writer, handed, stored, failed,
                     closer, atClose>>
      /\ call[e] # "sent"
      /\ \E c \in CallState \ {"sent"} : call' = [call EXCEPT ![e] = c]
  BY DEF EnqueueWait, EnqueueTimeout, writerVars, closeVars, CallState
<1>2. SentOnce'
  <2>1. call \in [Event -> CallState]
    BY DEF QueueIInv, QueueTypeOK
  <2>2. {x \in Event : call'[x] = "sent"} = {x \in Event : call[x] = "sent"}
    BY <1>1, <2>1
  <2>3. QED
    BY <1>1, <2>2 DEF QueueIInv, SentOnce
<1>3. QED
  BY <1>1, <1>2
     DEF QueueIInv, PipelineInOrder, HandedOutcome, ExitInv, Bounded

\* Taking an event from the channel, in the loop or in the drain.
LEMMA TakeStep ==
  ASSUME QueueIInv, Receive \/ DrainOne
  PROVE  /\ PipelineInOrder'
         /\ SentOnce'
         /\ HandedOutcome'
         /\ ExitInv'
         /\ Bounded'
<1>1. QueueTypeOK /\ TakeEvent
  BY DEF QueueIInv, Receive, DrainOne
<1>2. /\ batch' \in Seq(Event) /\ events' \in Seq(Event)
      /\ Len(batch') = Len(batch) + 1
      /\ Len(events') = Len(events) - 1
      /\ batch' \o events' = batch \o events
  BY <1>1, TakeEventFacts
<1>3. /\ handed \in Seq(Event) /\ batch \in Seq(Event) /\ events \in Seq(Event)
      /\ Len(batch) \in Nat /\ Len(events) \in Nat
  BY <1>1, LenProperties DEF QueueTypeOK
<1>4. UNCHANGED <<call, dropped, accepted, handed, stored, failed, closer, atClose>>
  BY <1>1 DEF TakeEvent, callVars, closeVars
<1>5. PipelineInOrder'
  <2>1. (handed \o batch') \o events' = handed \o (batch' \o events')
    <3>1. handed \in Seq(Event) /\ batch' \in Seq(Event) /\ events' \in Seq(Event)
      BY <1>2, <1>3
    <3>2. QED
      BY <3>1, ConcatAssociative
  <2>2. (handed \o batch) \o events = handed \o (batch \o events)
    BY <1>3, ConcatAssociative
  <2>3. QED
    BY <1>2, <1>4, <2>1, <2>2 DEF QueueIInv, PipelineInOrder
<1>6. SentOnce' /\ HandedOutcome'
  BY <1>4 DEF QueueIInv, SentOnce, HandedOutcome
<1>7. ExitInv' /\ Bounded'
  BY <1>2, <1>3, <1>4, QueueAssumption
     DEF QueueIInv, ExitInv, Bounded, Receive, DrainOne
<1>8. QED
  BY <1>5, <1>6, <1>7

\* The ticker, the closing channel and the end of the drain only move the writer.
LEMMA ControlStep ==
  ASSUME QueueIInv, Tick \/ SeeClosing \/ DrainEnd
  PROVE  /\ PipelineInOrder'
         /\ SentOnce'
         /\ HandedOutcome'
         /\ ExitInv'
         /\ Bounded'
<1>1. UNCHANGED <<call, dropped, events, accepted, batch, handed, stored, failed,
                  closer, atClose>>
  BY DEF Tick, SeeClosing, DrainEnd, callVars, closeVars
<1>2. PipelineInOrder' /\ SentOnce' /\ HandedOutcome'
  BY <1>1 DEF QueueIInv, PipelineInOrder, SentOnce, HandedOutcome
<1>3. /\ Len(batch) \in Nat /\ Len(handed) \in Nat /\ Len(events) \in Nat
      /\ Len(<<>>) = 0
      /\ Len(accepted) = Len(handed) + Len(batch) + Len(events)
  BY PipelineParts, LenProperties DEF QueueIInv, QueueTypeOK
<1>4. ExitInv'
  BY <1>1, <1>3 DEF QueueIInv, QueueTypeOK, ExitInv, Tick, SeeClosing, DrainEnd
<1>5. Bounded'
  BY <1>1, <1>3, QueueAssumption DEF QueueIInv, Bounded, Tick, SeeClosing, DrainEnd
<1>6. QED
  BY <1>2, <1>4, <1>5

\* InsertBatch returned: the batch moves, whole, to the handed events.
LEMMA FlushStep ==
  ASSUME QueueIInv, FlushOK \/ FlushError
  PROVE  /\ PipelineInOrder'
         /\ SentOnce'
         /\ HandedOutcome'
         /\ ExitInv'
         /\ Bounded'
<1>1. /\ handed' = handed \o batch
      /\ batch' = <<>>
      /\ UNCHANGED <<call, events, accepted, closer, atClose>>
      /\ writer \in {"flush", "lastFlush"}
      /\ writer' = IF writer = "flush" THEN "select" ELSE "done"
  BY DEF FlushOK, FlushError, FlushReturn, callVars, closeVars
<1>2. /\ handed \in Seq(Event) /\ batch \in Seq(Event) /\ events \in Seq(Event)
      /\ Len(batch) \in Nat /\ Len(handed) \in Nat /\ Len(events) \in Nat
  BY LenProperties DEF QueueIInv, QueueTypeOK
<1>3. /\ handed \o batch \in Seq(Event)
      /\ Len(handed \o batch) = Len(handed) + Len(batch)
  BY <1>2, ConcatProperties
<1>4. PipelineInOrder'
  <2>1. (handed \o batch) \o <<>> = handed \o batch
    BY <1>3, ConcatEmptySeq
  <2>2. accepted = (handed \o batch) \o events
    BY DEF QueueIInv, PipelineInOrder
  <2>3. QED
    BY <1>1, <2>1, <2>2 DEF PipelineInOrder
<1>5. HandedOutcome'
  <2>1. Elements(handed \o batch) = Elements(handed) \cup Elements(batch)
    BY <1>2, ElementsConcat
  <2>2. Elements(handed') = Elements(handed) \cup Elements(batch)
    BY <1>1, <2>1
  <2>3. Elements(handed) \cap Elements(batch) = {}
    BY PipelineParts
  <2>4. /\ Elements(handed) = stored \cup failed
        /\ stored \cap failed = {}
    BY DEF QueueIInv, HandedOutcome
  <2>5. CASE FlushOK
    <3>1. stored' = stored \cup Elements(batch) /\ failed' = failed
      BY <2>5 DEF FlushOK
    <3>2. QED
      BY <2>2, <2>3, <2>4, <3>1 DEF HandedOutcome
  <2>6. CASE FlushError
    <3>1. failed' = failed \cup Elements(batch) /\ stored' = stored
      BY <2>6 DEF FlushError
    <3>2. QED
      BY <2>2, <2>3, <2>4, <3>1 DEF HandedOutcome
  <2>7. QED
    BY <2>5, <2>6
<1>6. SentOnce'
  BY <1>1 DEF QueueIInv, SentOnce
<1>7. ExitInv'
  <2>1. Len(handed') = Len(handed) + Len(batch)
    BY <1>1, <1>3
  <2>2. QED
    BY <1>1, <1>2, <2>1 DEF QueueIInv, ExitInv
<1>8. Bounded'
  <2>1. Len(batch') = 0
    BY <1>1
  <2>2. QED
    BY <1>1, <2>1, QueueAssumption DEF QueueIInv, Bounded
<1>9. QED
  BY <1>4, <1>5, <1>6, <1>7, <1>8

\* Close records how much it owes and otherwise only waits.
LEMMA CloseStep ==
  ASSUME QueueIInv, Close
  PROVE  /\ PipelineInOrder'
         /\ SentOnce'
         /\ HandedOutcome'
         /\ ExitInv'
         /\ Bounded'
<1>1. /\ UNCHANGED <<call, dropped, events, accepted, batch, writer, handed,
                     stored, failed>>
      /\ closer' # "open"
      /\ \/ atClose' = atClose
         \/ closer = "open" /\ atClose' = Len(accepted)
  BY DEF Close, CloseCall, CloseReturn, CloseTimeout, callVars, writerVars
<1>2. PipelineInOrder' /\ SentOnce' /\ HandedOutcome' /\ Bounded'
  BY <1>1 DEF QueueIInv, PipelineInOrder, SentOnce, HandedOutcome, Bounded
<1>3. ExitInv'
  <2>1. Len(accepted) \in Nat
    BY LenProperties DEF QueueIInv, QueueTypeOK
  <2>2. QED
    BY <1>1, <2>1 DEF QueueIInv, ExitInv
<1>4. QED
  BY <1>2, <1>3

LEMMA InvariantStep == QueueIInv /\ [QueueNext]_queueVars => QueueIInv'
<1> SUFFICES ASSUME QueueIInv, [QueueNext]_queueVars
             PROVE  QueueIInv'
  OBVIOUS
<1>1. QueueTypeOK'
  BY TypeStep DEF QueueIInv
<1>2. ASSUME NEW e \in Event, Enqueue(e)
      PROVE  QueueIInv'
  <2>1. CASE EnqueueNow(e) \/ EnqueueLate(e)
    <3>1. Send(e) /\ call[e] # "sent"
      BY <2>1 DEF EnqueueNow, EnqueueLate
    <3>2. QED
      BY <1>1, <3>1, SendStep DEF QueueIInv
  <2>2. CASE EnqueueWait(e) \/ EnqueueTimeout(e)
    BY <1>1, <2>2, WaitStep DEF QueueIInv
  <2>3. QED
    BY <1>2, <2>1, <2>2 DEF Enqueue
<1>3. CASE Writer
  <2>1. CASE Receive \/ DrainOne
    BY <1>1, <2>1, TakeStep DEF QueueIInv
  <2>2. CASE Tick \/ SeeClosing \/ DrainEnd
    BY <1>1, <2>2, ControlStep DEF QueueIInv
  <2>3. CASE FlushOK \/ FlushError
    BY <1>1, <2>3, FlushStep DEF QueueIInv
  <2>4. QED
    BY <1>3, <2>1, <2>2, <2>3 DEF Writer
<1>4. CASE Close
  BY <1>1, <1>4, CloseStep DEF QueueIInv
<1>5. CASE UNCHANGED queueVars
  BY <1>1, <1>5
     DEF QueueIInv, PipelineInOrder, SentOnce, HandedOutcome, ExitInv, Bounded,
         queueVars, callVars, writerVars, closeVars
<1>6. QED
  BY <1>2, <1>3, <1>4, <1>5 DEF QueueNext

-----------------------------------------------------------------------------
(* The queue's variables keep their types.                                 *)
THEOREM QueueTypeCorrect == QueueSpec => []QueueTypeOK
<1>1. QueueInit => QueueTypeOK
  BY InvariantInitially DEF QueueIInv
<1>2. QED
  BY <1>1, TypeStep, PTL DEF QueueSpec

(* The inductive invariant holds of every reachable state.                 *)
THEOREM QueueInvariant == QueueSpec => []QueueIInv
  BY InvariantInitially, InvariantStep, PTL DEF QueueSpec

(* run and Enqueue: for every capacity and batch size the pipeline from    *)
(* Enqueue to InsertBatch neither loses, duplicates nor reorders an event. *)
THEOREM QueuePipelineInOrder == QueueSpec => []PipelineInOrder
<1>1. QueueIInv => PipelineInOrder
  BY DEF QueueIInv
<1>2. QED
  BY <1>1, QueueInvariant, PTL

(* The channel and the batches written from the loop stay in their bounds. *)
THEOREM QueueBounded == QueueSpec => []Bounded
<1>1. QueueIInv => Bounded
  BY DEF QueueIInv
<1>2. QED
  BY <1>1, QueueInvariant, PTL

(* drainRemaining: a writer that has exited was told to, and has handed    *)
(* over everything that was buffered when Close was called.                *)
THEOREM QueueCloseDrainsBuffered == QueueSpec => []CloseDrainsBuffered
<1>1. QueueIInv => CloseDrainsBuffered
  BY DEF QueueIInv, ExitInv, CloseDrainsBuffered
<1>2. QED
  BY <1>1, QueueInvariant, PTL

(* An event whose Enqueue sent it is in exactly one of the channel, the    *)
(* writer's batch, the store and the logged failures; no other event is in *)
(* any of them.                                                            *)
THEOREM QueueExactlyOneFate == QueueSpec => []ExactlyOneFate
<1>1. ASSUME QueueIInv
      PROVE  ExactlyOneFate
  <2>1. /\ Elements(accepted)
             = Elements(handed) \cup Elements(batch) \cup Elements(events)
        /\ Elements(handed) \cap Elements(batch) = {}
        /\ Elements(handed) \cap Elements(events) = {}
        /\ Elements(batch) \cap Elements(events) = {}
    BY <1>1, PipelineParts
  <2>2. /\ Elements(handed) = stored \cup failed
        /\ stored \cap failed = {}
        /\ Elements(accepted) = {e \in Event : call[e] = "sent"}
    BY <1>1 DEF QueueIInv, HandedOutcome, SentOnce
  <2>3. ASSUME NEW e \in Event
        PROVE  call[e] = "sent" <=> \E p \in Place : InPlace(e, p)
    BY <2>1, <2>2 DEF Place, InPlace
  <2>4. ASSUME NEW e \in Event, NEW p \in Place, NEW q \in Place,
               InPlace(e, p), InPlace(e, q)
        PROVE  p = q
    BY <2>1, <2>2, <2>4 DEF Place, InPlace
  <2>5. QED
    BY <2>3, <2>4 DEF ExactlyOneFate
<1>2. QED
  BY <1>1, QueueInvariant, PTL

-----------------------------------------------------------------------------
(* The daemon.                                                             *)

(* Run, the handlers and the writer goroutine take no step that Queue does *)
(* not allow, so whatever holds of the queue holds inside the daemon.      *)
LEMMA ServeImplementsQueue == ServeSpec => QueueSpec
<1>1. ServeInit => QueueInit
  BY DEF ServeInit
<1>2. [ServeNext]_serveVars => [QueueNext]_queueVars
  <2> SUFFICES ASSUME [ServeNext]_serveVars
               PROVE  [QueueNext]_queueVars
    OBVIOUS
  <2>1. CASE UNCHANGED serveVars
    BY <2>1 DEF serveVars
  <2>2. CASE WriterStep
    BY <2>2 DEF WriterStep, QueueNext, Writer
  <2>3. ASSUME NEW e \in Event,
               StartRequest(e) \/ HandlerEnqueue(e) \/ FinishRequest(e)
        PROVE  [QueueNext]_queueVars
    BY <2>3 DEF StartRequest, HandlerEnqueue, FinishRequest, QueueNext
  <2>4. CASE ListenFails \/ Signal \/ Teardown
    BY <2>4 DEF ListenFails, Signal, Teardown, ShutdownOK, ShutdownTimeout,
                CloseQueue, QueueClosed, StopForwarder, CloseStore, Exit,
                QueueNext, Close
  <2>5. QED
    BY <2>1, <2>2, <2>3, <2>4 DEF ServeNext
<1>3. QED
  BY <1>1, <1>2, PTL DEF ServeSpec, QueueSpec

-----------------------------------------------------------------------------
(***************************************************************************)
(* The inductive invariant.  An Enqueue call is on its handler's           *)
(* goroutine, so a server without handlers has no Enqueue call left; the   *)
(* queue is closed only after the server; hence after a shutdown that      *)
(* returned nil the drain finds the channel empty for good.                *)
(***************************************************************************)
\* A waiting Enqueue call is inside a running handler.
CallsInHandlers == \A e \in Event : call[e] = "waiting" => handler[e] = "serving"

\* Close is called after the server's shutdown.
ServerBeforeQueue ==
  /\ proc \in {"serving", "shutdown"} => closer = "open" /\ shutdown = "pending"
  /\ closer = "closed" => writer = "done"

\* After a shutdown without timeout no handler runs and a drained channel stays empty.
Quiescent ==
  shutdown = "ok" =>
    /\ \A e \in Event : handler[e] # "serving"
    /\ writer \in {"lastFlush", "done"} => events = <<>>

\* Run goes on past the queue's Close once it has returned, in time or not.
QueueBeforeStore ==
  proc \in {"stopForwarder", "closeStore", "return", "exited"} =>
    closer \in {"closed", "timedOut"}

ServeIInv == ServeTypeOK /\ CallsInHandlers /\ ServerBeforeQueue /\ Quiescent

LEMMA ServeInvariantInitially == ServeInit => ServeIInv
  BY DEF ServeInit, QueueInit, ServeIInv, ServeTypeOK, CallsInHandlers,
         ServerBeforeQueue, Quiescent, HandlerState, ProcState, ShutdownState

LEMMA ServeInvariantStep ==
  ServeIInv /\ QueueIInv /\ [ServeNext]_serveVars => ServeIInv'
<1> SUFFICES ASSUME ServeIInv, QueueIInv, [ServeNext]_serveVars
             PROVE  ServeIInv'
  OBVIOUS
<1> USE DEF ServeIInv, ServeTypeOK, HandlerState, ProcState, ShutdownState
<1>0. /\ call \in [Event -> CallState]
      /\ writer \in {"drain", "lastFlush", "done"} => closer # "open"
  BY DEF QueueIInv, QueueTypeOK, ExitInv
<1>1. CASE UNCHANGED serveVars
  BY <1>1 DEF serveVars, queueVars, callVars, writerVars, closeVars,
              CallsInHandlers, ServerBeforeQueue, Quiescent
<1>2. ASSUME NEW e \in Event, StartRequest(e) \/ FinishRequest(e)
      PROVE  ServeIInv'
  BY <1>0, <1>2 DEF StartRequest, FinishRequest, queueVars, callVars, writerVars,
         closeVars, CallsInHandlers, ServerBeforeQueue, Quiescent
<1>3. ASSUME NEW e \in Event, HandlerEnqueue(e)
      PROVE  ServeIInv'
  <2>1. /\ handler[e] = "serving"
        /\ UNCHANGED <<handler, proc, shutdown, storeOpen, writer, closer>>
        /\ \E c \in CallState : call' = [call EXCEPT ![e] = c]
    BY <1>3 DEF HandlerEnqueue, Enqueue, EnqueueNow, EnqueueWait, EnqueueLate,
           EnqueueTimeout, Send, callVars, writerVars, closeVars, CallState
  <2>2. CallsInHandlers'
    BY <1>0, <2>1 DEF CallsInHandlers
  <2>3. QED
    BY <2>1, <2>2 DEF ServerBeforeQueue, Quiescent
<1>4. CASE WriterStep
  <2>1. UNCHANGED <<call, handler, proc, shutdown, storeOpen, closer>>
    BY <1>4 DEF WriterStep, Receive, TakeEvent, Tick, SeeClosing, DrainOne,
           DrainEnd, FlushOK, FlushError, FlushReturn, callVars, closeVars
  <2>2. writer # "done"
    BY <1>4 DEF WriterStep, Receive, Tick, SeeClosing, DrainOne, DrainEnd,
           FlushOK, FlushError, FlushReturn
  <2>3. Quiescent'
    <3>1. \/ writer' \in {"select", "flush", "drain"}
          \/ events = <<>> /\ events' = events
          \/ writer = "lastFlush" /\ events' = events
      BY <1>4 DEF WriterStep, Receive, Tick, SeeClosing, DrainOne, DrainEnd,
             FlushOK, FlushError, FlushReturn
    <3>2. QED
      BY <2>1, <3>1 DEF Quiescent
  <2>4. QED
    BY <2>1, <2>2, <2>3 DEF CallsInHandlers, ServerBeforeQueue
<1>5. CASE ShutdownOK
  BY <1>0, <1>5 DEF ShutdownOK, queueVars, callVars, writerVars, closeVars,
         CallsInHandlers, ServerBeforeQueue, Quiescent
<1>6. CASE ListenFails \/ Signal \/ ShutdownTimeout
  BY <1>6 DEF ListenFails, Signal, ShutdownTimeout, queueVars, callVars,
         writerVars, closeVars, CallsInHandlers, ServerBeforeQueue, Quiescent
<1>7. CASE CloseQueue \/ QueueClosed
  BY <1>7 DEF CloseQueue, QueueClosed, CloseCall, CloseReturn, CloseTimeout,
         callVars, writerVars, closeVars, CallsInHandlers, ServerBeforeQueue,
         Quiescent
<1>8. CASE StopForwarder \/ CloseStore \/ Exit
  BY <1>8 DEF StopForwarder, CloseStore, Exit, queueVars, callVars, writerVars,
         closeVars, CallsInHandlers, ServerBeforeQueue, Quiescent
<1>9. QED
  BY <1>1, <1>2, <1>3, <1>4, <1>5, <1>6, <1>7, <1>8 DEF ServeNext, Teardown

(* The daemon's own variables keep their types.                            *)
THEOREM ServeTypeCorrect == ServeSpec => []ServeTypeOK
<1>1. ServeIInv => ServeTypeOK
  BY DEF ServeIInv
<1>2. QED
  BY <1>1, ServeInvariantInitially, ServeInvariantStep, ServeImplementsQueue,
     QueueInvariant, PTL DEF ServeSpec

(* Run's exit: when Shutdown and Close both returned nil, every event that *)
(* a handler gave to Enqueue is in the store, in a logged failure or in    *)
(* the dropped count.                                                      *)
THEOREM OrderlyExitAccounts == ServeSpec => []OrderlyExitLosesNothing
<1>1. ASSUME ServeIInv, QueueIInv
      PROVE  OrderlyExitLosesNothing
  <2>1. SUFFICES ASSUME shutdown = "ok", closer = "closed", NEW e \in Event
                 PROVE  ~Unaccounted(e)
    BY DEF OrderlyExitLosesNothing
  <2>2. writer = "done" /\ events = <<>> /\ batch = <<>> /\ call[e] # "waiting"
    BY <1>1, <2>1 DEF ServeIInv, CallsInHandlers, ServerBeforeQueue, Quiescent,
           QueueIInv, ExitInv
  <2>3. Elements(events) = {} /\ Elements(batch) = {}
    BY <2>2 DEF Elements
  <2>4. Elements(accepted)
          = Elements(handed) \cup Elements(batch) \cup Elements(events)
    BY <1>1, PipelineParts
  <2>5. /\ Elements(accepted) = {x \in Event : call[x] = "sent"}
        /\ Elements(handed) = stored \cup failed
    BY <1>1 DEF QueueIInv, SentOnce, HandedOutcome
  <2>6. QED
    BY <2>2, <2>3, <2>4, <2>5 DEF Unaccounted
<1>2. QED
  BY <1>1, ServeInvariantInitially, ServeInvariantStep, ServeImplementsQueue,
     QueueInvariant, PTL DEF ServeSpec

(* Run's exit when Close returned nil, whatever became of the server: what *)
(* was accepted before Close was called is the beginning of what the       *)
(* writer has handed over.                                                 *)
THEOREM ServeExitLosesOnlyLatecomers == ServeSpec => []ExitLosesOnlyLatecomers
<1>1. ASSUME ServeIInv, QueueIInv
      PROVE  ExitLosesOnlyLatecomers
  <2>1. SUFFICES ASSUME closer = "closed", NEW i \in 1..atClose
                 PROVE  accepted[i] \in stored \cup failed
    BY DEF ExitLosesOnlyLatecomers
  <2>2. /\ writer = "done" /\ batch = <<>> /\ Len(handed) >= atClose
        /\ handed \in Seq(Event) /\ events \in Seq(Event) /\ batch \in Seq(Event)
        /\ atClose \in Nat
        /\ accepted = handed \o batch \o events
    BY <1>1, <2>1 DEF ServeIInv, ServerBeforeQueue, QueueIInv, QueueTypeOK, ExitInv,
           PipelineInOrder
  <2>3. i \in 1..Len(handed) /\ Len(handed) \in Nat
    BY <2>2
  <2>4. accepted[i] = handed[i]
    BY <2>2, <2>3
  <2>5. handed[i] \in Elements(handed)
    BY <2>2, <2>3 DEF Elements
  <2>6. QED
    BY <1>1, <2>4, <2>5 DEF QueueIInv, HandedOutcome
<1>2. QED
  BY <1>1, ServeInvariantInitially, ServeInvariantStep, ServeImplementsQueue,
     QueueInvariant, PTL DEF ServeSpec

LEMMA QueueBeforeStoreStep ==
  ASSUME QueueBeforeStore, [ServeNext]_serveVars
  PROVE  QueueBeforeStore'
<1> USE DEF QueueBeforeStore
<1>1. CASE UNCHANGED serveVars
  BY <1>1 DEF serveVars, queueVars, closeVars
<1>2. ASSUME NEW e \in Event, StartRequest(e) \/ HandlerEnqueue(e) \/ FinishRequest(e)
      PROVE  QueueBeforeStore'
  BY <1>2 DEF StartRequest, HandlerEnqueue, FinishRequest, Enqueue, EnqueueNow, EnqueueWait,
         EnqueueLate, EnqueueTimeout, Send, queueVars, closeVars
<1>3. CASE WriterStep
  BY <1>3 DEF WriterStep, Receive, TakeEvent, Tick, SeeClosing, DrainOne, DrainEnd,
         FlushOK, FlushError, FlushReturn, closeVars
<1>4. CASE ListenFails \/ Signal \/ ShutdownOK \/ ShutdownTimeout
  BY <1>4 DEF ListenFails, Signal, ShutdownOK, ShutdownTimeout
<1>5. CASE CloseQueue \/ QueueClosed
  BY <1>5 DEF CloseQueue, QueueClosed, CloseCall, CloseReturn, CloseTimeout
<1>6. CASE StopForwarder \/ CloseStore \/ Exit
  BY <1>6 DEF StopForwarder, CloseStore, Exit, queueVars, closeVars
<1>7. QED
  BY <1>1, <1>2, <1>3, <1>4, <1>5, <1>6 DEF ServeNext, Teardown

(* Only CloseStore closes the store, and Run reaches it when the queue's   *)
(* Close has returned: the writer is done, or the drain has timed out.     *)
THEOREM ServeStoreOutlivesWriter == ServeSpec => StoreOutlivesWriter
<1> DEFINE Keeps == storeOpen /\ ~ storeOpen' => writer = "done" \/ closer = "timedOut"
<1>1. ServeInit => QueueBeforeStore
  BY DEF ServeInit, QueueBeforeStore
<1>2. QueueBeforeStore /\ [ServeNext]_serveVars => QueueBeforeStore'
  BY QueueBeforeStoreStep
<1>3. ServeIInv /\ QueueBeforeStore /\ [ServeNext]_serveVars => [Keeps]_serveVars
  <2> SUFFICES ASSUME ServeIInv, QueueBeforeStore, ServeNext, storeOpen, ~ storeOpen'
               PROVE  writer = "done" \/ closer = "timedOut"
    OBVIOUS
  <2>1. CloseStore
    BY DEF ServeNext, StartRequest, HandlerEnqueue, FinishRequest, WriterStep, ListenFails,
           Signal, Teardown, ShutdownOK, ShutdownTimeout, CloseQueue, QueueClosed,
           StopForwarder, Exit
  <2>2. closer \in {"closed", "timedOut"}
    BY <2>1 DEF CloseStore, QueueBeforeStore
  <2>3. QED
    BY <2>2 DEF ServeIInv, ServerBeforeQueue
<1>4. QED
  BY <1>1, <1>2, <1>3, ServeInvariantInitially, ServeInvariantStep, ServeImplementsQueue,
     QueueInvariant, PTL DEF ServeSpec, StoreOutlivesWriter

-----------------------------------------------------------------------------
(* A request through the proxy: the inductive invariant.                   *)

\* How far the copy is, at each point of its loop.
Relayed ==
  /\ pc = "do" => read = 0 /\ received = 0
  /\ pc \in {"read", "capture", "pipe", "rearm"} => received = read
  /\ pc = "write" => received + 1 = read
  /\ pc \in {"finish", "conclude"} /\ cerr = "none" => upstream = "ended" /\ read = sent /\ received = read

\* The parser of a response that is not compressed is given each chunk at once.
FedDirectly ==
  encoding # "gzip" =>
    /\ pipe # "full" /\ pc # "pipe" /\ decoder = "header" /\ taken = 0 /\ ~garbled
    /\ encoding = "identity" => IF pc = "capture" THEN fed = received - 1 ELSE fed = received
    /\ encoding = "other" => fed = 0

\* The chunk that the decoder has not taken yet is in the pipe or in the handler.
FedByDecoder ==
  encoding = "gzip" =>
    /\ fed =< taken
    /\ pc = "do" => decoder = "header" /\ pipe = "empty"
    /\ pipe = "full" => pc = "pipe"
    /\ pipe = "closed" => pc \in {"finish", "conclude", "returned"}
    /\ garbled \/ IF pc = "capture" \/ pipe = "full" THEN taken = received - 1 ELSE taken = received
    /\ decoder = "header" => taken = 0
    /\ decoder \in {"header", "decode"} => ~garbled
    /\ decoder = "drain" => garbled
    /\ decoder = "done" => pipe = "closed" /\ (garbled \/ fed = taken)
    /\ pc = "conclude" => decoder = "done"
    /\ pc = "returned" => decoder = "done" \/ (decoder = "header" /\ pipe = "empty")

\* A failed read has a cause, and only two causes cancel the upstream call.
Causes ==
  /\ cancelled /\ pc # "returned" => gone \/ idled
  /\ cerr = "upstream" => upstream = "broken" \/ gone \/ idled
  /\ pc # "returned" => row = "none"

ProxyInv ==
  /\ ProxyTypeOK
  /\ Relayed
  /\ FedDirectly
  /\ FedByDecoder
  /\ Causes
  /\ CompletedIsRecorded
  /\ RowsAreEarned

-----------------------------------------------------------------------------
\* Every response starts with nothing read, fed or recorded.
LEMMA ProxyInvInit == ProxyInit => ProxyInv
<1> SUFFICES ASSUME ProxyInit PROVE ProxyInv
  OBVIOUS
<1> USE ProxyAssumption
    DEF ProxyInit, ProxyInv, ProxyTypeOK, Relayed, FedDirectly, FedByDecoder, Causes,
        CompletedIsRecorded, RowsAreEarned, Readable, Terminated, Handler, Row, Kind, Encoding
<1>1. ProxyTypeOK
  <2>1. /\ cancelled \in BOOLEAN /\ clientUp \in BOOLEAN /\ gone \in BOOLEAN
        /\ idled \in BOOLEAN /\ garbled \in BOOLEAN
    BY Zenon
  <2>2. QED
    BY <2>1, SMT
<1>2. Relayed
  BY SMT
<1>3. FedDirectly
  BY SMT
<1>4. FedByDecoder
  BY SMT
<1>5. Causes
  BY SMT
<1>6. CompletedIsRecorded
  BY SMT
<1>7. RowsAreEarned
  BY SMT
<1>8. QED
  BY <1>1, <1>2, <1>3, <1>4, <1>5, <1>6, <1>7, Zenon

\* One step for each action.
LEMMA ProxyInvStep == ProxyInv /\ [ProxyNext]_vars => ProxyInv'
<1> SUFFICES ASSUME ProxyInv, [ProxyNext]_vars PROVE ProxyInv'
  OBVIOUS
<1> USE ProxyAssumption
    DEF ProxyInv, ProxyTypeOK, Relayed, FedDirectly, FedByDecoder, Causes, CompletedIsRecorded,
        RowsAreEarned, Readable, Terminated, Handler, Row, Kind, Encoding,
        response, world, relay, decoderVars, history
<1>1. CASE UpstreamSends
  BY <1>1, SMT DEF UpstreamSends
<1>2. CASE UpstreamStops
  BY <1>2, SMT DEF UpstreamStops
<1>3. CASE ClientHangsUp
  <2>1. clientUp' \in BOOLEAN
    BY <1>3, Zenon DEF ClientHangsUp
  <2>2. QED
    BY <1>3, <2>1, SMT DEF ClientHangsUp
<1>4. CASE ServerNotices
  BY <1>4, SMT DEF ServerNotices
<1>5. CASE TimerFires
  BY <1>5, SMT DEF TimerFires
<1>6. CASE DoFails
  BY <1>6, SMT DEF DoFails
<1>7. CASE DoAnswers
  BY <1>7, SMT DEF DoAnswers
<1>7a. CASE DeadlineFails
  BY <1>7a, SMT DEF DeadlineFails, Copied
<1>8. CASE ReadChunk
  BY <1>8, SMT DEF ReadChunk
<1>9. CASE ReadEOF
  BY <1>9, SMT DEF ReadEOF, Copied
<1>10. CASE ReadError
  BY <1>10, SMT DEF ReadError, Copied
<1>11. CASE WriteOK
  BY <1>11, SMT DEF WriteOK
<1>12. CASE WriteFails
  BY <1>12, SMT DEF WriteFails, Copied
<1>13. CASE Capture
  BY <1>13, SMT DEF Capture
<1>14. CASE PipeTaken
  BY <1>14, SMT DEF PipeTaken
<1>15. CASE Rearm
  BY <1>15, SMT DEF Rearm
<1>16. CASE RearmFails
  BY <1>16, SMT DEF RearmFails, Copied
<1>17. CASE FinishCapture
  BY <1>17, SMT DEF FinishCapture
<1>18. CASE Conclude
  BY <1>18, SMT DEF Conclude, Abandoned, Parsed, WholeBody
<1>19. CASE encoding = "gzip" /\ DecoderStarts
  <2>1. CASE decoder' = "decode"
    <3>1. ~garbled'
      BY <1>19, <2>1, SMT DEF DecoderStarts
    <3>2. QED
      BY <1>19, <2>1, <3>1, SMT DEF DecoderStarts
  <2>2. CASE decoder' = "drain"
    <3>1. garbled' = TRUE
      BY <1>19, <2>2, Zenon DEF DecoderStarts
    <3>2. QED
      BY <1>19, <2>2, <3>1, SMT DEF DecoderStarts
  <2>3. QED
    BY <1>19, <2>1, <2>2, Zenon DEF DecoderStarts
<1>20. CASE encoding = "gzip" /\ DecoderTakes
  BY <1>20, SMT DEF DecoderTakes
<1>21. CASE encoding = "gzip" /\ DecoderFeeds
  BY <1>21, SMT DEF DecoderFeeds
<1>22. CASE encoding = "gzip" /\ DecoderGivesUp
  BY <1>22, SMT DEF DecoderGivesUp
<1>23. CASE encoding = "gzip" /\ DecoderDrains
  BY <1>23, SMT DEF DecoderDrains
<1>24. CASE encoding = "gzip" /\ DecoderEnds
  BY <1>24, SMT DEF DecoderEnds
<1>25. CASE UNCHANGED vars
  BY <1>25, SMT DEF vars
<1>26. QED
  BY <1>1, <1>2, <1>3, <1>4, <1>5, <1>6, <1>7, <1>7a, <1>8, <1>9, <1>10, <1>11, <1>12, <1>13,
     <1>14, <1>15, <1>16, <1>17, <1>18, <1>19, <1>20, <1>21, <1>22, <1>23, <1>24, <1>25, Zenon DEF ProxyNext, Handle, Decode

\* The invariant holds in every reachable state.
LEMMA ProxyInvHolds == ProxySpec => []ProxyInv
  BY ProxyInvInit, ProxyInvStep, PTL DEF ProxySpec

-----------------------------------------------------------------------------
(* What the invariant is for.                                              *)

\* Types; the client, the decoder and the capture are never ahead of the copy.
THEOREM ProxyTypeCorrect == ProxySpec => []ProxyTypeOK
<1>1. ProxyInv => ProxyTypeOK
  BY Zenon DEF ProxyInv
<1>2. QED
  BY <1>1, ProxyInvHolds, PTL

\* finishCapture makes the parser see exactly what the client was sent.
THEOREM ProxyRowSeesWhatClientGot == ProxySpec => []RowSeesWhatClientGot
<1>1. ProxyInv => RowSeesWhatClientGot
  <2> SUFFICES ASSUME ProxyInv, pc \in {"conclude", "returned"}, Readable
               PROVE  fed = received
    BY Zenon DEF RowSeesWhatClientGot
  <2> USE DEF ProxyInv, ProxyTypeOK, FedDirectly, FedByDecoder, Readable, Encoding
  <2>1. CASE encoding = "gzip"
    BY <2>1, SMT
  <2>2. CASE encoding = "identity"
    BY <2>2, SMT
  <2>3. QED
    BY <2>1, <2>2, SMT
<1>2. QED
  BY <1>1, ProxyInvHolds, PTL

\* A response whose terminal event was passed on is recorded, whoever ends it.
THEOREM ProxyCompletedIsRecorded == ProxySpec => []CompletedIsRecorded
<1>1. ProxyInv => CompletedIsRecorded
  BY Zenon DEF ProxyInv
<1>2. QED
  BY <1>1, ProxyInvHolds, PTL

\* A disconnect of the client is never recorded as a broken upstream.
THEOREM ProxyRowsAreEarned == ProxySpec => []RowsAreEarned
<1>1. ProxyInv => RowsAreEarned
  BY Zenon DEF ProxyInv
<1>2. QED
  BY <1>1, ProxyInvHolds, PTL
=============================================================================
