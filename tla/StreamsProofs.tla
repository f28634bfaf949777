--------------------------- MODULE StreamsProofs ---------------------------
(***************************************************************************)
(* What the run of Streams checks for a few responses, proved for every    *)
(* response, every limit and every way to cut it: of the splitter, that it *)
(* hands over the frames as they were sent; of the two parsers behind it,  *)
(* that they implement StreamContract.                                     *)
(***************************************************************************)
EXTENDS Streams, SequenceTheorems, WellFoundedInduction, TLAPS

----------------------------------------------------------------------------
\* A set of numbers that is not empty has a least one.
LEMMA HasLeast ==
  ASSUME NEW S, S \subseteq Nat, S # {}
  PROVE  \E x \in S : \A y \in S : x <= y
<1> DEFINE R == {ss \in Nat \X Nat : ss[1] < ss[2]}
<1>1. IsWellFoundedOn(R, Nat)
  BY NatLessThanWellFounded DEF OpToRel
<1>2. PICK x \in S : \A y \in S : ~ (<<y, x>> \in R)
  <2> HIDE DEF R
  <2> QED BY <1>1, WFMin
<1>3. ASSUME NEW y \in S
      PROVE  x <= y
  <2>1. x \in Nat /\ y \in Nat
    OBVIOUS
  <2>2. <<y, x>> \notin R
    BY <1>2
  <2>3. ~ (y < x)
    BY <2>1, <2>2
  <2> QED BY <2>1, <2>3
<1> QED BY <1>3

\* Induction over the numbers, as membership in a set.
LEMMA NatSetInduction ==
  ASSUME NEW S, 0 \in S, \A n \in Nat : n \in S => n + 1 \in S
  PROVE  Nat \subseteq S
<1> DEFINE T == Nat \ S
<1>1. SUFFICES ASSUME T # {} PROVE FALSE
  OBVIOUS
<1>2. PICK n \in T : \A m \in T : n <= m
  BY <1>1, HasLeast
<1>3. n # 0 /\ n - 1 \in Nat
  OBVIOUS
<1>4. n - 1 \notin T
  BY <1>2, <1>3
<1>5. n - 1 + 1 \in S
  BY <1>3, <1>4
<1> QED BY <1>5, <1>3

\* Where a frame of the buffer ends, its delimiter is within the buffer.
LEMMA FrameEndWithin ==
  ASSUME NEW b \in Seq(Token), Delimiters(b) # {}
  PROVE  /\ FrameEnd(b) \in 1..Len(b)
         /\ DelimiterLength(b, FrameEnd(b)) \in {2, 4}
         /\ FrameEnd(b) + DelimiterLength(b, FrameEnd(b)) - 1 <= Len(b)
<1>1. Len(b) \in Nat
  BY LenProperties
<1>2. \E i \in Delimiters(b) : \A j \in Delimiters(b) : i <= j
  <2>1. Delimiters(b) \subseteq Nat
    BY <1>1 DEF Delimiters
  <2> QED BY <2>1, HasLeast
<1>3. FrameEnd(b) \in Delimiters(b)
  BY <1>2 DEF FrameEnd
<1>4. LF # CR
  BY SseAssumption
<1> QED BY <1>1, <1>3, <1>4 DEF Delimiters, DelimiterLength

----------------------------------------------------------------------------
(* How a frame ends, and where the buffer is cut.                          *)

\* The blank line of a frame, token by token.
Stop(f, n) ==
  \/ n >= 2 /\ f[n - 1] = LF /\ f[n] = LF
  \/ n >= 4 /\ f[n - 3] = CR /\ f[n - 2] = LF /\ f[n - 1] = CR /\ f[n] = LF

LEMMA EndsIsStop ==
  ASSUME NEW f \in Seq(Token), NEW n \in 0..Len(f)
  PROVE  EndsFrame(SubSeq(f, 1, n)) <=> Stop(f, n)
<1> DEFINE g == SubSeq(f, 1, n)
<1>1. g \in Seq(Token) /\ Len(g) = n /\ n \in Nat /\ \A i \in 1..n : g[i] = f[i]
  <2>1. Len(f) \in Nat /\ n \in Nat /\ n <= Len(f)
    BY LenProperties
  <2> QED BY <2>1
<1> HIDE DEF g
<1>2. EndsFrame(g) <=> \/ 2 <= n /\ SubSeq(g, n - 1, n) = <<LF, LF>>
                       \/ 4 <= n /\ SubSeq(g, n - 3, n) = <<CR, LF, CR, LF>>
  <2>1. Len(<<LF, LF>>) = 2 /\ Len(<<CR, LF, CR, LF>>) = 4
    OBVIOUS
  <2>2. n - 2 + 1 = n - 1 /\ n - 4 + 1 = n - 3
    BY <1>1
  <2>3. EndsFrame(g) <=>
          \/ Len(<<LF, LF>>) <= Len(g)
             /\ SubSeq(g, Len(g) - Len(<<LF, LF>>) + 1, Len(g)) = <<LF, LF>>
          \/ Len(<<CR, LF, CR, LF>>) <= Len(g)
             /\ SubSeq(g, Len(g) - Len(<<CR, LF, CR, LF>>) + 1, Len(g)) = <<CR, LF, CR, LF>>
    BY Zenon DEF EndsFrame, BlankLines
  <2> QED BY <1>1, <2>1, <2>2, <2>3
<1>3. ASSUME 2 <= n
      PROVE  SubSeq(g, n - 1, n) = <<LF, LF>> <=> g[n - 1] = LF /\ g[n] = LF
  <2> DEFINE s == SubSeq(g, n - 1, n)
  <2>1. s \in Seq(Token) /\ Len(s) = 2 /\ s[1] = g[n - 1] /\ s[2] = g[n]
    <3>1. s \in Seq(Token) /\ Len(s) = 2
      BY <1>1, <1>3
    <3>2. \A i \in 1..2 : s[i] = g[n - 1 + i - 1]
      BY <1>1, <1>3
    <3>3. n - 1 + 1 - 1 = n - 1 /\ n - 1 + 2 - 1 = n
      BY <1>1
    <3>4. s[1] = g[n - 1 + 1 - 1] /\ s[2] = g[n - 1 + 2 - 1]
      BY <3>2
    <3> HIDE DEF s
    <3> QED BY <3>1, <3>3, <3>4
  <2> HIDE DEF s
  <2>2. s = <<s[1], s[2]>>
    BY <2>1
  <2> QED BY <2>1, <2>2 DEF s
<1>4. ASSUME 4 <= n
      PROVE  SubSeq(g, n - 3, n) = <<CR, LF, CR, LF>>
             <=> g[n - 3] = CR /\ g[n - 2] = LF /\ g[n - 1] = CR /\ g[n] = LF
  <2> DEFINE s == SubSeq(g, n - 3, n)
  <2>1. /\ s \in Seq(Token) /\ Len(s) = 4
        /\ s[1] = g[n - 3] /\ s[2] = g[n - 2] /\ s[3] = g[n - 1] /\ s[4] = g[n]
    <3>1. s \in Seq(Token) /\ Len(s) = 4
      BY <1>1, <1>4
    <3>2. \A i \in 1..4 : s[i] = g[n - 3 + i - 1]
      BY <1>1, <1>4
    <3>3. /\ n - 3 + 1 - 1 = n - 3 /\ n - 3 + 2 - 1 = n - 2
          /\ n - 3 + 3 - 1 = n - 1 /\ n - 3 + 4 - 1 = n
      BY <1>1
    <3>4. s[1] = g[n - 3 + 1 - 1] /\ s[2] = g[n - 3 + 2 - 1]
          /\ s[3] = g[n - 3 + 3 - 1] /\ s[4] = g[n - 3 + 4 - 1]
      BY <3>2
    <3> HIDE DEF s
    <3> QED BY <3>1, <3>3, <3>4
  <2> HIDE DEF s
  <2>2. s = <<s[1], s[2], s[3], s[4]>>
    BY <2>1
  <2>3. s = <<CR, LF, CR, LF>> <=> s[1] = CR /\ s[2] = LF /\ s[3] = CR /\ s[4] = LF
    <3>1. ASSUME s = <<CR, LF, CR, LF>>
          PROVE  s[1] = CR /\ s[2] = LF /\ s[3] = CR /\ s[4] = LF
      BY <3>1
    <3>2. ASSUME s[1] = CR, s[2] = LF, s[3] = CR, s[4] = LF
          PROVE  s = <<CR, LF, CR, LF>>
      BY <2>2, <3>2
    <3> QED BY <3>1, <3>2
  <2>4. s[1] = g[n - 3] /\ s[2] = g[n - 2] /\ s[3] = g[n - 1] /\ s[4] = g[n]
    BY <2>1
  <2>5. s = <<CR, LF, CR, LF>>
        <=> g[n - 3] = CR /\ g[n - 2] = LF /\ g[n - 1] = CR /\ g[n] = LF
    BY <2>3, <2>4, Zenon
  <2> QED BY <2>5, Zenon DEF s
<1>5. EndsFrame(g) <=> Stop(g, n)
  BY <1>1, <1>2, <1>3, <1>4 DEF Stop
<1>6. Stop(g, n) <=> Stop(f, n)
  BY <1>1 DEF Stop
<1> QED BY <1>5, <1>6 DEF g

\* b begins as f does, as far as both go.
Agree(b, f) == \A i \in 1..Len(f) : i <= Len(b) => b[i] = f[i]

\* A frame that ends where it first can.
OfOneFrame(f) ==
  /\ f \in Seq(Token)
  /\ \A n \in 0..Len(f) : EndsFrame(SubSeq(f, 1, n)) <=> n = Len(f)

LEMMA DelimiterStops ==
  ASSUME NEW b \in Seq(Token), NEW i \in Delimiters(b)
  PROVE  /\ i \in 1..Len(b) /\ DelimiterLength(b, i) \in {2, 4}
         /\ i + DelimiterLength(b, i) - 1 \in 1..Len(b)
         /\ Stop(b, i + DelimiterLength(b, i) - 1)
<1>1. Len(b) \in Nat /\ LF # CR
  BY LenProperties, SseAssumption
<1>2. i \in 1..Len(b) /\ \/ i + 1 <= Len(b) /\ b[i] = LF /\ b[i + 1] = LF
                         \/ i + 3 <= Len(b) /\ b[i] = CR /\ b[i + 1] = LF
                            /\ b[i + 2] = CR /\ b[i + 3] = LF
  BY DEF Delimiters
<1>3. CASE b[i] = LF
  <2>1. DelimiterLength(b, i) = 2 /\ i + 2 - 1 = i + 1 /\ i + 1 - 1 = i
    BY <1>1, <1>2, <1>3 DEF DelimiterLength
  <2>2. Stop(b, i + 1)
    BY <1>1, <1>2, <1>3, <2>1 DEF Stop
  <2> QED BY <1>1, <1>2, <1>3, <2>1, <2>2
<1>4. CASE b[i] # LF
  <2>1. DelimiterLength(b, i) = 4 /\ i + 4 - 1 = i + 3 /\ i + 3 - 3 = i /\ i + 3 - 2 = i + 1 /\ i + 3 - 1 = i + 2
    BY <1>1, <1>2, <1>4 DEF DelimiterLength
  <2>2. Stop(b, i + 3)
    BY <1>1, <1>2, <1>4, <2>1 DEF Stop
  <2> QED BY <1>1, <1>2, <1>4, <2>1, <2>2
<1> QED BY <1>3, <1>4

LEMMA StopsOnlyAtEnd ==
  ASSUME NEW f, OfOneFrame(f), NEW n \in 0..Len(f)
  PROVE  Stop(f, n) <=> n = Len(f)
  BY EndsIsStop DEF OfOneFrame

LEMMA StopAgrees ==
  ASSUME NEW b \in Seq(Token), NEW f \in Seq(Token), Agree(b, f), NEW n \in Nat,
         n <= Len(b), n <= Len(f)
  PROVE  Stop(b, n) <=> Stop(f, n)
<1>1. Len(b) \in Nat /\ Len(f) \in Nat
  BY LenProperties
<1>2. ASSUME NEW i \in 1..n PROVE b[i] = f[i]
  BY <1>1 DEF Agree
<1>3. 2 <= n => n \in 1..n /\ n - 1 \in 1..n
  OBVIOUS
<1>4. 4 <= n => n - 2 \in 1..n /\ n - 3 \in 1..n
  OBVIOUS
<1> QED BY <1>2, <1>3, <1>4 DEF Stop

\* A part of a frame holds no delimiter.
LEMMA PartOfFrame ==
  ASSUME NEW b \in Seq(Token), NEW f, OfOneFrame(f), Agree(b, f), Len(b) < Len(f)
  PROVE  Delimiters(b) = {}
<1> SUFFICES ASSUME NEW i \in Delimiters(b) PROVE FALSE
  OBVIOUS
<1> DEFINE n == i + DelimiterLength(b, i) - 1
<1>1. n \in 1..Len(b) /\ Stop(b, n)
  BY DelimiterStops
<1> HIDE DEF n
<1>2. f \in Seq(Token) /\ Len(f) \in Nat /\ Len(b) \in Nat
  BY LenProperties DEF OfOneFrame
<1>3. Stop(f, n)
  BY <1>1, <1>2, StopAgrees
<1>4. n \in 0..Len(f)
  BY <1>1, <1>2
<1>5. n = Len(f)
  BY <1>3, <1>4, StopsOnlyAtEnd
<1> QED BY <1>1, <1>2, <1>5

\* A whole frame ends with the first delimiter of the buffer.
LEMMA WholeFrame ==
  ASSUME NEW b \in Seq(Token), NEW f, OfOneFrame(f), Agree(b, f), Len(b) >= Len(f)
  PROVE  /\ Delimiters(b) # {}
         /\ FrameEnd(b) + DelimiterLength(b, FrameEnd(b)) = Len(f) + 1
         /\ \E d \in BlankLines : f = SubSeq(b, 1, FrameEnd(b) - 1) \o d
<1>1. f \in Seq(Token) /\ Len(f) \in Nat /\ Len(b) \in Nat /\ LF # CR
  BY LenProperties, SseAssumption DEF OfOneFrame
<1>2. Stop(b, Len(f))
  <2>1. Stop(f, Len(f))
    BY <1>1, StopsOnlyAtEnd
  <2> QED BY <1>1, <2>1, StopAgrees
<1>3. PICK p \in Delimiters(b) : p + DelimiterLength(b, p) - 1 = Len(f)
  <2> DEFINE l == Len(f)
  <2>1. CASE l >= 2 /\ b[l - 1] = LF /\ b[l] = LF
    <3>1. l - 1 \in Delimiters(b)
      <4>1. l - 1 \in 1..Len(b) /\ l - 1 + 1 <= Len(b) /\ l - 1 + 1 = l
        BY <1>1, <2>1
      <4> QED BY <2>1, <4>1 DEF Delimiters
    <3>2. DelimiterLength(b, l - 1) = 2
      BY <2>1 DEF DelimiterLength
    <3> QED BY <1>1, <3>1, <3>2
  <2>2. CASE l >= 4 /\ b[l - 3] = CR /\ b[l - 2] = LF /\ b[l - 1] = CR /\ b[l] = LF
    <3>1. l - 3 \in Delimiters(b)
      <4>1. /\ l - 3 \in 1..Len(b) /\ l - 3 + 3 <= Len(b)
            /\ l - 3 + 3 = l /\ l - 3 + 2 = l - 1 /\ l - 3 + 1 = l - 2
        BY <1>1, <2>2
      <4> QED BY <2>2, <4>1 DEF Delimiters
    <3>2. DelimiterLength(b, l - 3) = 4
      BY <1>1, <2>2 DEF DelimiterLength
    <3> QED BY <1>1, <3>1, <3>2
  <2> QED BY <1>2, <2>1, <2>2 DEF Stop
<1> DEFINE e == FrameEnd(b)
<1>4. e \in Delimiters(b) /\ e <= p
  <2>1. \E i \in Delimiters(b) : \A j \in Delimiters(b) : i <= j
    <3>1. Delimiters(b) \subseteq Nat
      BY <1>1 DEF Delimiters
    <3> QED BY <1>3, <3>1, HasLeast
  <2> QED BY <2>1 DEF FrameEnd
<1> HIDE DEF e
<1> DEFINE n == e + DelimiterLength(b, e) - 1
<1>5. n \in 1..Len(b) /\ Stop(b, n) /\ e \in 1..Len(b) /\ DelimiterLength(b, e) \in {2, 4}
  BY <1>4, DelimiterStops
<1>6. n = Len(f)
  <2>1. CASE n <= Len(f)
    <3> HIDE DEF n
    <3>1. Stop(f, n) /\ n \in 0..Len(f)
      BY <1>1, <1>5, <2>1, StopAgrees
    <3> QED BY <3>1, StopsOnlyAtEnd
  <2>2. CASE n > Len(f)
    <3>1. p \in 1..Len(b) /\ DelimiterLength(b, p) \in {2, 4}
      BY <1>3, DelimiterStops
    <3>2. /\ DelimiterLength(b, e) = 4 /\ DelimiterLength(b, p) = 2 /\ (p = e \/ p = e + 1)
      BY <1>1, <1>3, <1>4, <1>5, <2>2, <3>1
    <3>3. b[e] # LF /\ b[p] = LF
      BY <3>2 DEF DelimiterLength
    <3>4. b[e] = CR /\ b[e + 2] = CR
      BY <1>4, <3>3 DEF Delimiters
    <3>5. b[p + 1] = LF
      BY <1>1, <1>3, <3>3 DEF Delimiters
    <3>6. p = e + 1 => p + 1 = e + 2
      BY <1>1, <1>5
    <3> QED BY <1>1, <3>2, <3>3, <3>4, <3>5, <3>6
  <2> QED BY <1>1, <1>5, <2>1, <2>2
<1>7. \E d \in BlankLines : f = SubSeq(b, 1, e - 1) \o d
  <2>0. \A i \in 1..Len(f) : b[i] = f[i]
    BY <1>1 DEF Agree
  <2>1. CASE b[e] = LF
    <3>1. DelimiterLength(b, e) = 2 /\ b[e + 1] = LF
      BY <1>1, <1>4, <2>1 DEF DelimiterLength, Delimiters
    <3>2. Len(f) = e + 1 /\ e \in Nat /\ e >= 1
      BY <1>5, <1>6, <3>1
    <3>3. f = SubSeq(b, 1, e - 1) \o <<LF, LF>>
      <4> DEFINE s == SubSeq(b, 1, e - 1)
      <4>1. s \in Seq(Token) /\ Len(s) = e - 1 /\ \A i \in 1..e - 1 : s[i] = b[i]
        BY <1>1, <1>5
      <4> HIDE DEF s
      <4>2. \A i \in 1..Len(f) : f[i] = (s \o <<LF, LF>>)[i]
        BY <1>1, <2>0, <2>1, <3>1, <3>2, <4>1
      <4>3. s \o <<LF, LF>> \in Seq(Token) /\ Len(s \o <<LF, LF>>) = Len(f)
        BY <1>1, <3>2, <4>1, SseAssumption
      <4> HIDE DEF e
      <4>4. f = s \o <<LF, LF>>
        BY <1>1, <4>2, <4>3, SeqEqual
      <4> QED BY <4>4 DEF s
    <3> QED BY <3>3 DEF BlankLines
  <2>2. CASE b[e] # LF
    <3>1. DelimiterLength(b, e) = 4 /\ b[e] = CR /\ b[e + 1] = LF /\ b[e + 2] = CR /\ b[e + 3] = LF
      BY <1>1, <1>4, <2>2 DEF DelimiterLength, Delimiters
    <3>2. Len(f) = e + 3 /\ e \in Nat /\ e >= 1
      BY <1>5, <1>6, <3>1
    <3>3. f = SubSeq(b, 1, e - 1) \o <<CR, LF, CR, LF>>
      <4> DEFINE s == SubSeq(b, 1, e - 1)
                 c == <<CR, LF, CR, LF>>
      <4>1. s \in Seq(Token) /\ Len(s) = e - 1 /\ \A i \in 1..e - 1 : s[i] = b[i]
        BY <1>1, <1>5
      <4>2. c \in Seq(Token) /\ Len(c) = 4 /\ c[1] = CR /\ c[2] = LF /\ c[3] = CR /\ c[4] = LF
        BY SseAssumption
      <4> HIDE DEF s, c
      <4>3. /\ s \o c \in Seq(Token) /\ Len(s \o c) = Len(s) + Len(c)
            /\ \A i \in 1..Len(s) + Len(c) :
                 (s \o c)[i] = IF i <= Len(s) THEN s[i] ELSE c[i - Len(s)]
        BY <4>1, <4>2, ConcatProperties
      <4>4. Len(s \o c) = Len(f)
        <5>1. Len(s \o c) = e - 1 + 4
          BY <4>1, <4>2, <4>3
        <5> QED BY <3>2, <5>1
      <4>6. ASSUME NEW i \in 1..Len(f) PROVE f[i] = (s \o c)[i]
        <5>1. CASE i <= e - 1
          <6>1. (s \o c)[i] = s[i] /\ s[i] = b[i]
            BY <3>2, <4>1, <4>2, <4>3, <5>1
          <6> QED BY <2>0, <6>1
        <5>2. CASE i > e - 1
          <6>1. (s \o c)[i] = c[i - (e - 1)]
            BY <3>2, <4>1, <4>2, <4>3, <5>2
          <6>2. i = e \/ i = e + 1 \/ i = e + 2 \/ i = e + 3
            BY <3>2, <5>2
          <6>3. e - (e - 1) = 1 /\ e + 1 - (e - 1) = 2 /\ e + 2 - (e - 1) = 3 /\ e + 3 - (e - 1) = 4
            BY <3>2
          <6>4. b[i] = c[i - (e - 1)]
            <7>1. CASE i = e
              BY <3>1, <4>2, <6>3, <7>1
            <7>2. CASE i = e + 1
              <8>0. i - (e - 1) = 2
                BY <3>2, <7>2
              <8>1. c[i - (e - 1)] = c[2] /\ b[i] = b[e + 1]
                BY <7>2, <8>0, Zenon
              <8> QED BY <3>1, <4>2, <8>1
            <7>3. CASE i = e + 2
              <8>0. i - (e - 1) = 3
                BY <3>2, <7>3
              <8>1. c[i - (e - 1)] = c[3] /\ b[i] = b[e + 2]
                BY <7>3, <8>0, Zenon
              <8> QED BY <3>1, <4>2, <8>1
            <7>4. CASE i = e + 3
              <8>0. i - (e - 1) = 4
                BY <3>2, <7>4
              <8>1. c[i - (e - 1)] = c[4] /\ b[i] = b[e + 3]
                BY <7>4, <8>0, Zenon
              <8> QED BY <3>1, <4>2, <8>1
            <7> QED BY <6>2, <7>1, <7>2, <7>3, <7>4
          <6> QED BY <2>0, <6>1, <6>4
        <5>3. i <= e - 1 \/ i > e - 1
          BY <3>2
        <5> QED BY <5>1, <5>2, <5>3
      <4>5. f = s \o c
        BY <1>1, <4>3, <4>4, <4>6, SeqEqual
      <4> QED BY <4>5 DEF s, c
    <3> QED BY <3>3 DEF BlankLines
  <2> QED BY <2>1, <2>2
<1>8. e + DelimiterLength(b, e) = Len(f) + 1
  BY <1>1, <1>5, <1>6
<1> QED BY <1>3, <1>7, <1>8 DEF e

----------------------------------------------------------------------------
(* The response as the frames one after the other.                         *)

\* The concatenation of FlattenSeq, from the left.
Flattens(seqs, n, g) ==
  g = [i \in 1..n |-> IF i = 1 THEN seqs[i] ELSE g[i - 1] \o seqs[i]]

LEMMA FlattenExists ==
  ASSUME NEW seqs, NEW l \in Nat
  PROVE  \E g : Flattens(seqs, l, g)
<1> DEFINE N == {n \in Nat : \E g : Flattens(seqs, n, g)}
<1>1. 0 \in N
  <2> DEFINE g == [i \in 1..0 |-> 0]
  <2>1. Flattens(seqs, 0, g)
    BY DEF Flattens
  <2> QED BY <2>1
<1>2. ASSUME NEW n \in Nat, n \in N PROVE n + 1 \in N
  <2>1. PICK g : Flattens(seqs, n, g)
    BY <1>2
  <2> DEFINE last == IF n = 0 THEN seqs[1] ELSE g[n] \o seqs[n + 1]
             h == [i \in 1..(n + 1) |-> IF i = n + 1 THEN last ELSE g[i]]
  <2>2. \A i \in 1..n : h[i] = g[i]
    OBVIOUS
  <2>3. \A i \in 1..n : g[i] = IF i = 1 THEN seqs[i] ELSE g[i - 1] \o seqs[i]
    BY <2>1 DEF Flattens
  <2>4. ASSUME NEW i \in 1..(n + 1)
        PROVE  h[i] = IF i = 1 THEN seqs[i] ELSE h[i - 1] \o seqs[i]
    <3>1. CASE i = n + 1
      <4>1. h[i] = last /\ i - 1 = n /\ (i # 1 => n # 0 /\ h[i - 1] = g[n])
        BY <3>1
      <4>2. i = 1 => n = 0
        BY <3>1
      <4> HIDE DEF h
      <4> QED BY <3>1, <4>1, <4>2
    <3>2. CASE i \in 1..n
      <4>1. h[i] = g[i] /\ (i # 1 => i - 1 \in 1..n /\ h[i - 1] = g[i - 1])
        BY <2>2, <3>2
      <4> HIDE DEF h
      <4> QED BY <2>3, <3>2, <4>1
    <3> QED BY <3>1, <3>2
  <2>5. DOMAIN h = 1..(n + 1) /\ h = [i \in DOMAIN h |-> h[i]]
    OBVIOUS
  <2> HIDE DEF h
  <2>6. Flattens(seqs, n + 1, h)
    BY <2>4, <2>5 DEF Flattens
  <2> QED BY <2>6
<1> HIDE DEF N
<1>3. Nat \subseteq N
  BY <1>1, <1>2, NatSetInduction
<1> QED BY <1>3 DEF N

LEMMA FlattensStep ==
  ASSUME NEW seqs, NEW l \in Nat, NEW g, Flattens(seqs, l, g), NEW n \in Nat, n < l
  PROVE  g[n + 1] = IF n = 0 THEN seqs[n + 1] ELSE g[n] \o seqs[n + 1]
<1>1. \A i \in 1..l : g[i] = IF i = 1 THEN seqs[i] ELSE g[i - 1] \o seqs[i]
  BY DEF Flattens
<1> DEFINE m == n + 1
<1>2. m \in 1..l /\ m - 1 = n /\ (m = 1 <=> n = 0)
  OBVIOUS
<1> HIDE DEF m
<1>3. g[m] = IF m = 1 THEN seqs[m] ELSE g[m - 1] \o seqs[m]
  BY <1>1, <1>2, Zenon
<1>4. g[m] = IF n = 0 THEN seqs[m] ELSE g[n] \o seqs[m]
  BY <1>2, <1>3, Zenon
<1> QED BY <1>4 DEF m

\* The tokens of the first k frames.
Upto(fs, k) == FlattenSeq(SubSeq(fs, 1, k))

\* They are computed in common.
LEMMA UptoIs ==
  ASSUME NEW T, NEW fs \in Seq(Seq(T)), NEW g, Flattens(fs, Len(fs), g),
         NEW k \in 0..Len(fs)
  PROVE  Upto(fs, k) = IF k = 0 THEN << >> ELSE g[k]
<1> DEFINE s == SubSeq(fs, 1, k)
<1>1. s \in Seq(Seq(T)) /\ Len(s) = k /\ k \in Nat /\ Len(fs) \in Nat
      /\ \A i \in 1..k : s[i] = fs[i]
  <2>1. Len(fs) \in Nat /\ k \in Nat /\ k <= Len(fs)
    BY LenProperties
  <2> QED BY <2>1
<1> HIDE DEF s
<1>2. CASE k = 0
  <2>1. s = << >>
    BY <1>1, <1>2, EmptySeq
  <2> QED BY <1>1, <1>2, <2>1 DEF Upto, FlattenSeq, s
<1>3. CASE k # 0
  <2> DEFINE h == CHOOSE h : Flattens(s, k, h)
  <2>1. Flattens(s, k, h)
    BY <1>1, FlattenExists
  <2>2. FlattenSeq(s) = h[k]
    BY <1>1, <1>3 DEF FlattenSeq, Flattens
  <2> HIDE DEF h
  <2> DEFINE N == {n \in Nat : n \in 1..k => h[n] = g[n]}
  <2>3. 0 \in N
    OBVIOUS
  <2>4. ASSUME NEW n \in Nat, n \in N PROVE n + 1 \in N
    <3> SUFFICES ASSUME n + 1 \in 1..k PROVE h[n + 1] = g[n + 1]
      OBVIOUS
    <3>0. n < k /\ n < Len(fs) /\ k \in Nat /\ Len(fs) \in Nat
      BY <1>1
    <3> HIDE DEF N
    <3>1. h[n + 1] = IF n = 0 THEN s[n + 1] ELSE h[n] \o s[n + 1]
      BY <2>1, <3>0, FlattensStep
    <3>2. g[n + 1] = IF n = 0 THEN fs[n + 1] ELSE g[n] \o fs[n + 1]
      BY <3>0, FlattensStep
    <3>3. (n # 0 => n \in 1..k) /\ s[n + 1] = fs[n + 1]
      BY <1>1
    <3>4. n # 0 => h[n] = g[n]
      BY <2>4, <3>3 DEF N
    <3> QED BY <3>1, <3>2, <3>3, <3>4, Zenon
  <2> HIDE DEF N
  <2>5. Nat \subseteq N
    BY <2>3, <2>4, NatSetInduction
  <2>6. h[k] = g[k]
    BY <1>1, <1>3, <2>5 DEF N
  <2> QED BY <1>3, <2>2, <2>6 DEF Upto, s
<1> QED BY <1>2, <1>3

LEMMA UptoStep ==
  ASSUME NEW T, NEW fs \in Seq(Seq(T))
  PROVE  /\ Upto(fs, 0) = << >>
         /\ \A k \in Nat : k < Len(fs) => Upto(fs, k + 1) = Upto(fs, k) \o fs[k + 1]
         /\ Upto(fs, Len(fs)) = FlattenSeq(fs)
<1>1. Len(fs) \in Nat
  BY LenProperties
<1>2. PICK g : Flattens(fs, Len(fs), g)
  BY <1>1, FlattenExists
<1>3. \A k \in 0..Len(fs) : Upto(fs, k) = IF k = 0 THEN << >> ELSE g[k]
  BY <1>2, UptoIs
<1>4. ASSUME NEW k \in Nat, k < Len(fs) PROVE Upto(fs, k + 1) = Upto(fs, k) \o fs[k + 1]
  <2>1. k \in 0..Len(fs) /\ k + 1 \in 0..Len(fs) /\ k + 1 \in 1..Len(fs) /\ k + 1 # 0
    BY <1>1, <1>4
  <2>2. g[k + 1] = IF k = 0 THEN fs[k + 1] ELSE g[k] \o fs[k + 1]
    BY <1>1, <1>2, <1>4, FlattensStep
  <2>3. fs[k + 1] \in Seq(T)
    BY <2>1, ElementOfSeq
  <2>4. << >> \o fs[k + 1] = fs[k + 1]
    BY <2>3, ConcatEmptySeq
  <2>5. Upto(fs, k + 1) = g[k + 1] /\ Upto(fs, k) = IF k = 0 THEN << >> ELSE g[k]
    BY <1>3, <2>1
  <2> QED BY <2>2, <2>4, <2>5, Zenon
<1>5. SubSeq(fs, 1, Len(fs)) = fs
  BY SubSeqFull
<1>6. Upto(fs, 0) = << >>
  BY <1>1, <1>3
<1>7. Upto(fs, Len(fs)) = FlattenSeq(fs)
  BY <1>5 DEF Upto
<1> QED BY <1>4, <1>6, <1>7

LEMMA UptoTokens ==
  ASSUME NEW T, NEW fs \in Seq(Seq(T)), NEW k \in 0..Len(fs)
  PROVE  Upto(fs, k) \in Seq(T)
<1>1. Len(fs) \in Nat /\ k \in Nat
  BY LenProperties
<1> DEFINE N == {n \in Nat : n <= Len(fs) => Upto(fs, n) \in Seq(T)}
<1>2. 0 \in N
  <2>1. Upto(fs, 0) = << >> /\ << >> \in Seq(T)
    BY UptoStep
  <2> QED BY <2>1
<1>3. ASSUME NEW n \in Nat, n \in N PROVE n + 1 \in N
  <2> SUFFICES ASSUME n + 1 <= Len(fs) PROVE Upto(fs, n + 1) \in Seq(T)
    OBVIOUS
  <2>1. n + 1 \in 1..Len(fs) /\ n < Len(fs) /\ n <= Len(fs)
    BY <1>1
  <2>2. Upto(fs, n) \in Seq(T) /\ fs[n + 1] \in Seq(T)
    BY <1>3, <2>1, ElementOfSeq
  <2>3. Upto(fs, n + 1) = Upto(fs, n) \o fs[n + 1]
    BY <2>1, UptoStep
  <2> QED BY <2>2, <2>3, ConcatProperties
<1> HIDE DEF N
<1>4. Nat \subseteq N
  BY <1>2, <1>3, NatSetInduction
<1> QED BY <1>1, <1>4 DEF N

\* More frames begin with the fewer.
Begins(s, t) == Len(s) <= Len(t) /\ \A i \in 1..Len(s) : t[i] = s[i]

LEMMA UptoGrows ==
  ASSUME NEW T, NEW fs \in Seq(Seq(T)), NEW k \in 0..Len(fs), NEW m \in k..Len(fs)
  PROVE  Begins(Upto(fs, k), Upto(fs, m))
<1>1. Len(fs) \in Nat /\ k \in Nat /\ m \in Nat
  BY LenProperties
<1> DEFINE u == Upto(fs, k)
           N == {n \in Nat : k <= n /\ n <= Len(fs) => Begins(u, Upto(fs, n))}
<1>0. u \in Seq(T) /\ Len(u) \in Nat
  BY UptoTokens, LenProperties
<1>2. Begins(u, u)
  BY <1>0 DEF Begins
<1>3. 0 \in N
  <2>1. k <= 0 => k = 0
    BY <1>1
  <2> HIDE DEF u
  <2>2. k = 0 => u = Upto(fs, 0)
    BY DEF u
  <2> QED BY <1>2, <2>1, <2>2
<1>4. ASSUME NEW n \in Nat, n \in N PROVE n + 1 \in N
  <2> SUFFICES ASSUME k <= n + 1, n + 1 <= Len(fs) PROVE Begins(u, Upto(fs, n + 1))
    OBVIOUS
  <2>1. CASE k = n + 1
    BY <1>2, <2>1
  <2>2. CASE k # n + 1
    <3>1. k <= n /\ n <= Len(fs) /\ n \in 0..Len(fs) /\ n + 1 \in 1..Len(fs) /\ n < Len(fs)
      BY <1>1, <2>2
    <3>2. Begins(u, Upto(fs, n))
      BY <1>4, <3>1
    <3> DEFINE v == Upto(fs, n)
               f == fs[n + 1]
    <3>3. v \in Seq(T) /\ f \in Seq(T)
      BY <3>1, UptoTokens, ElementOfSeq
    <3>4. Upto(fs, n + 1) = v \o f
      BY <3>1, UptoStep
    <3> HIDE DEF u, v, f
    <3>5. Len(v) \in Nat /\ Len(f) \in Nat /\ Len(v \o f) = Len(v) + Len(f)
          /\ \A i \in 1..Len(v) : (v \o f)[i] = v[i]
      BY <3>3
    <3>6. Begins(u, v)
      BY <3>2 DEF v
    <3>7. Begins(u, v \o f)
      BY <1>0, <3>5, <3>6 DEF Begins
    <3> QED BY <3>4, <3>7
  <2> QED BY <2>1, <2>2
<1> HIDE DEF N, u
<1>5. Nat \subseteq N
  BY <1>3, <1>4, NatSetInduction
<1> QED BY <1>1, <1>5 DEF N, u

\* Where a frame of the response is.
LEMMA FrameIsThere ==
  ASSUME NEW T, NEW fs \in Seq(Seq(T)), NEW k \in Nat, k < Len(fs)
  PROVE  LET w == FlattenSeq(fs)
             c == Len(Upto(fs, k))
             f == fs[k + 1]
         IN  /\ w \in Seq(T) /\ c \in Nat /\ f \in Seq(T)
             /\ Len(Upto(fs, k + 1)) = c + Len(f)
             /\ c + Len(f) <= Len(w)
             /\ \A j \in 1..Len(f) : w[c + j] = f[j]
<1> DEFINE w == FlattenSeq(fs)
           u == Upto(fs, k)
           f == fs[k + 1]
<1>1. Len(fs) \in Nat
  BY LenProperties
<1>2. /\ k \in 0..Len(fs) /\ k + 1 \in 1..Len(fs) /\ k + 1 \in 0..Len(fs)
      /\ Len(fs) \in k + 1..Len(fs) /\ Len(fs) \in 0..Len(fs)
  BY <1>1
<1>3. u \in Seq(T) /\ f \in Seq(T)
  BY <1>2, UptoTokens, ElementOfSeq
<1>4. Upto(fs, k + 1) = u \o f /\ w = Upto(fs, Len(fs))
  BY <1>2, UptoStep
<1>5. w \in Seq(T) /\ Begins(u \o f, w)
  BY <1>2, <1>4, UptoTokens, UptoGrows
<1> HIDE DEF w, u, f
<1>6. /\ Len(u) \in Nat /\ Len(f) \in Nat /\ Len(w) \in Nat /\ Len(u \o f) = Len(u) + Len(f)
      /\ \A j \in 1..Len(f) : (u \o f)[Len(u) + j] = f[j]
  BY <1>3, <1>5
<1>7. Len(u) + Len(f) <= Len(w) /\ \A j \in 1..Len(f) : w[Len(u) + j] = f[j]
  <2>1. Len(u) + Len(f) <= Len(w) /\ \A i \in 1..Len(u) + Len(f) : w[i] = (u \o f)[i]
    BY <1>5, <1>6 DEF Begins
  <2>2. \A j \in 1..Len(f) : Len(u) + j \in 1..Len(u) + Len(f)
    BY <1>6
  <2> QED BY <1>6, <2>1, <2>2
<1> QED BY <1>3, <1>4, <1>5, <1>6, <1>7 DEF w, u, f

----------------------------------------------------------------------------
(* The inductive invariant of the splitter.                                *)
SseIInv ==
  /\ SseTypeOK
  /\ BufferBounded
  /\ BufferIsTheRest

LEMMA SseInitially ==
  ASSUME wire \in Wires, SseStart
  PROVE  SseIInv
<1>1. wire \in Seq(Token) /\ Len(wire) \in Nat /\ Limit \in Nat
  BY SseAssumption, LenProperties
<1>2. SubSeq(wire, 1, 0) = << >>
  BY SubSeqEmpty
<1>3. << >> \in Seq(Token) /\ << >> \in Seq(Seq(Token)) /\ Len(<< >>) = 0
  BY EmptySeq
<1>4. SseTypeOK
  <2>1. latched \in BOOLEAN
    BY Zenon DEF SseStart
  <2>2. fed = 0 /\ buf = << >> /\ cut = 0 /\ frames = << >>
    BY DEF SseStart
  <2>3. fed \in 0..Len(wire) /\ cut \in Nat
    BY <1>1, <2>2
  <2> QED BY <1>1, <1>3, <2>1, <2>2, <2>3, Zenon DEF SseTypeOK
<1>5. BufferBounded
  BY <1>1, <1>3 DEF SseStart, BufferBounded
<1>6. BufferIsTheRest
  <2>1. cut = 0 /\ buf = << >> /\ fed = 0 /\ Len(buf) = 0
    BY <1>3 DEF SseStart
  <2>2. cut + 1 = 1 /\ cut + Len(buf) = 0
    BY <2>1
  <2> QED BY <1>2, <2>1, <2>2 DEF BufferIsTheRest
<1> QED BY <1>4, <1>5, <1>6 DEF SseIInv

\* A part of the response is a sequence of tokens, of the length it says.
LEMMA Part ==
  ASSUME NEW w \in Seq(Token), NEW m \in Nat, NEW n \in Nat, m >= 1, n <= Len(w)
  PROVE  /\ SubSeq(w, m, n) \in Seq(Token)
         /\ Len(SubSeq(w, m, n)) = IF m <= n THEN n - m + 1 ELSE 0
<1>1. \A i \in m..n : w[i] \in Token
  BY LenProperties, ElementOfSeq
<1> QED BY <1>1, SubSeqProperties

LEMMA FeedKeeps ==
  ASSUME SseIInv, NEW n \in 1..MaxChunk, Feed(n)
  PROVE  SseIInv'
<1> USE DEF SseIInv, SseTypeOK
<1>1. /\ Limit \in Nat /\ Len(wire) \in Nat /\ Len(buf) \in Nat
      /\ n \in Nat /\ n >= 1 /\ fed \in Nat /\ fed + n <= Len(wire)
  BY SseAssumption, LenProperties DEF Feed
<1>2. /\ wire' = wire /\ cut' = cut /\ frames' = frames
      /\ fed' = fed + n
      /\ latched' \in BOOLEAN
  BY Zenon DEF Feed
<1>3. CASE latched'
  <2>1. buf' = buf
    BY <1>3 DEF Feed
  <2> QED BY <1>1, <1>2, <1>3, <2>1 DEF BufferBounded, BufferIsTheRest
<1>4. CASE ~ latched'
  <2>1. ~ latched /\ Len(buf) + n <= Limit
    <3>1. ~ latched /\ ~ (Len(buf) + n > Limit)
      BY <1>4, Zenon DEF Feed
    <3> QED BY <1>1, <3>1
  <2>2. buf' = buf \o SubSeq(wire, fed + 1, fed + n)
    BY <1>4 DEF Feed
  <2>3. cut + Len(buf) = fed /\ buf = SubSeq(wire, cut + 1, fed)
    BY <2>1 DEF BufferIsTheRest
  <2>4. buf' = SubSeq(wire, cut + 1, fed + n)
    <3>1. /\ cut + 1 \in 1..Len(wire) + 1
          /\ fed \in (cut + 1) - 1..Len(wire)
          /\ fed + n \in fed..Len(wire)
      BY <1>1, <2>3
    <3> QED BY <2>2, <2>3, <3>1, ConcatAdjacentSubSeq
  <2>5. buf' \in Seq(Token) /\ Len(buf') = fed + n - cut
    BY <1>1, <2>3, <2>4, Part
  <2>6. Len(buf') = Len(buf) + n /\ cut + Len(buf') = fed + n
    BY <1>1, <2>3, <2>5
  <2> QED BY <1>1, <1>2, <2>1, <2>4, <2>5, <2>6 DEF BufferBounded, BufferIsTheRest
<1> QED BY <1>2, <1>3, <1>4

LEMMA FrameKeeps ==
  ASSUME SseIInv, Frame
  PROVE  SseIInv'
<1> USE DEF SseIInv, SseTypeOK
<1> DEFINE end  == FrameEnd(buf)
           next == end + DelimiterLength(buf, end)
<1>1. /\ Limit \in Nat /\ Len(wire) \in Nat /\ Len(buf) \in Nat
      /\ end \in 1..Len(buf) /\ next \in Nat /\ next >= 2 /\ next - 1 <= Len(buf)
  <2>1. Limit \in Nat /\ Len(wire) \in Nat /\ Len(buf) \in Nat
    BY SseAssumption, LenProperties
  <2>2. buf \in Seq(Token) /\ Delimiters(buf) # {}
    BY DEF Frame, Idle
  <2>3. /\ end \in 1..Len(buf)
        /\ DelimiterLength(buf, end) \in {2, 4}
        /\ end + DelimiterLength(buf, end) - 1 <= Len(buf)
    BY <2>2, FrameEndWithin
  <2> HIDE DEF end
  <2> QED BY <2>1, <2>3
<1>2. /\ wire' = wire /\ fed' = fed /\ latched' = latched
      /\ frames' = Append(frames, SubSeq(buf, 1, end - 1))
      /\ buf' = SubSeq(buf, next, Len(buf))
      /\ cut' = cut + next - 1
  BY DEF Frame
<1> HIDE DEF end, next
<1>3. buf' \in Seq(Token) /\ Len(buf') = Len(buf) - next + 1
  <2>1. buf \in Seq(Token) /\ next \in Nat /\ Len(buf) \in Nat /\ next >= 1
    BY <1>1
  <2>2. /\ SubSeq(buf, next, Len(buf)) \in Seq(Token)
        /\ Len(SubSeq(buf, next, Len(buf))) = IF next <= Len(buf) THEN Len(buf) - next + 1 ELSE 0
    BY <2>1, Part
  <2>3. (IF next <= Len(buf) THEN Len(buf) - next + 1 ELSE 0) = Len(buf) - next + 1
    BY <1>1
  <2>4. buf' = SubSeq(buf, next, Len(buf))
    BY <1>2, Zenon
  <2> QED BY <2>2, <2>3, <2>4, Zenon
<1>4. frames' \in Seq(Seq(Token))
  <2>1. SubSeq(buf, 1, end - 1) \in Seq(Token)
    BY <1>1, Part
  <2> QED BY <1>2, <2>1
<1>5. cut' + Len(buf') = cut + Len(buf)
  BY <1>1, <1>2, <1>3
<1>6. buf' = SubSeq(wire, cut' + 1, cut + Len(buf))
  <2>1. buf = SubSeq(wire, cut + 1, cut + Len(buf)) /\ cut + Len(buf) <= fed /\ fed <= Len(wire)
    BY DEF BufferIsTheRest
  <2>2. CASE next = Len(buf) + 1
    <3>1. /\ cut + Len(buf) < cut' + 1 /\ Len(buf) < next
          /\ cut' + 1 \in Int /\ cut + Len(buf) \in Int
      BY <1>1, <1>2, <2>2
    <3>2. SubSeq(wire, cut' + 1, cut + Len(buf)) = << >> /\ SubSeq(buf, next, Len(buf)) = << >>
      BY <1>1, <3>1, SubSeqEmpty
    <3> QED BY <1>2, <3>2
  <2>3. CASE next <= Len(buf)
    <3> DEFINE i == cut + 1
               j == cut + Len(buf)
    <3>1. /\ i \in 1..Len(wire) /\ j \in 1..Len(wire)
          /\ next \in 1..j - i + 1 /\ Len(buf) \in 1..j - i + 1
          /\ i + next - 1 = cut' + 1 /\ i + Len(buf) - 1 = j
      BY <1>1, <1>2, <2>1, <2>3
    <3> HIDE DEF i, j
    <3>2. SubSeq(SubSeq(wire, i, j), next, Len(buf)) = SubSeq(wire, i + next - 1, i + Len(buf) - 1)
      BY <3>1, SubSeqOfSubSeq
    <3> QED BY <1>2, <2>1, <3>1, <3>2 DEF i, j
  <2>4. next = Len(buf) + 1 \/ next <= Len(buf)
    BY <1>1
  <2> QED BY <2>2, <2>3, <2>4, Zenon
<1>7. SseTypeOK'
  <2>1. fed' \in 0..Len(wire') /\ cut' \in Nat
    BY <1>1, <1>2
  <2> QED BY <1>2, <1>3, <1>4, <2>1
<1>8. BufferBounded'
  BY <1>1, <1>3 DEF BufferBounded
<1>9. BufferIsTheRest'
  BY <1>2, <1>5, <1>6 DEF BufferIsTheRest
<1> QED BY <1>7, <1>8, <1>9 DEF SseIInv

LEMMA SseInduction ==
  ASSUME SseIInv, [SseNext]_sseVars
  PROVE  SseIInv'
<1>1. CASE UNCHANGED sseVars
  BY <1>1 DEF sseVars, SseIInv, SseTypeOK, BufferBounded, BufferIsTheRest
<1>2. CASE \E n \in 1..MaxChunk : Feed(n)
  BY <1>2, FeedKeeps
<1>3. CASE Frame
  BY <1>3, FrameKeeps
<1> QED BY <1>1, <1>2, <1>3 DEF SseNext

\* The variables of the splitter have their types in every reachable state.
THEOREM SseTypeCorrect == SseSpec => []SseTypeOK
<1>1. SseInit => SseIInv
  BY SseInitially DEF SseInit
<1>2. SseIInv /\ [SseNext]_sseVars => SseIInv'
  BY SseInduction
<1>3. SseIInv => SseTypeOK
  BY DEF SseIInv
<1> QED BY <1>1, <1>2, <1>3, PTL DEF SseSpec

\* Parser.buf never outgrows the limit, however long a frame or a chunk is.
THEOREM SseBufferBounded == SseSpec => []BufferBounded
<1>1. SseInit => SseIInv
  BY SseInitially DEF SseInit
<1>2. SseIInv /\ [SseNext]_sseVars => SseIInv'
  BY SseInduction
<1>3. SseIInv => BufferBounded
  BY DEF SseIInv
<1> QED BY <1>1, <1>2, <1>3, PTL DEF SseSpec

\* Appending chunks and cutting off frames neither loses, repeats nor moves
\* a byte of the response.
THEOREM SseBufferIsTheRest == SseSpec => []BufferIsTheRest
<1>1. SseInit => SseIInv
  BY SseInitially DEF SseInit
<1>2. SseIInv /\ [SseNext]_sseVars => SseIInv'
  BY SseInduction
<1>3. SseIInv => BufferIsTheRest
  BY DEF SseIInv
<1> QED BY <1>1, <1>2, <1>3, PTL DEF SseSpec

----------------------------------------------------------------------------
(* The splitter of a stream.  Its handler changes none of its variables.   *)
LEMMA StreamsInitially == StreamsInit => SseInit
  BY StreamsAssumption DEF StreamsInit, SseInit

LEMMA StreamsStep == [StreamsNext]_streamVars => [SseNext]_sseVars
<1> SUFFICES ASSUME [StreamsNext]_streamVars
             PROVE  [SseNext]_sseVars
  OBVIOUS
<1>1. CASE \E n \in 1..MaxChunk : Receive(n)
  BY <1>1 DEF Receive, SseNext
<1>2. CASE HandleFrame
  BY <1>2 DEF HandleFrame, SseNext
<1>3. CASE End
  BY <1>3 DEF End
<1>4. CASE UNCHANGED streamVars
  BY <1>4 DEF streamVars
<1> QED BY <1>1, <1>2, <1>3, <1>4 DEF StreamsNext

\* A stream through the parser of either provider is a run of the splitter.
THEOREM StreamsSplit == StreamsSpec => SseSpec
  BY StreamsInitially, StreamsStep, PTL DEF StreamsSpec, SseSpec

\* While a stream is parsed, the splitter's buffer never outgrows its limit.
THEOREM StreamsBufferBounded == StreamsSpec => []BufferBounded
  BY StreamsSplit, SseBufferBounded, PTL

\* Nothing that arrived of a stream is lost, kept twice or moved: what the
\* frames have not taken is in the buffer.
THEOREM StreamsBufferIsTheRest == StreamsSpec => []BufferIsTheRest
  BY StreamsSplit, SseBufferIsTheRest, PTL

----------------------------------------------------------------------------
(* The inductive invariant: the frames cut off are the first of those      *)
(* sent, and the buffer begins with the next.                              *)
AsSent ==
  /\ exchange \in Exchanges
  /\ wire = FlattenSeq(exchange.frames)
  /\ Len(frames) <= Len(exchange.frames)
  /\ cut = Len(Upto(exchange.frames, Len(frames)))
  /\ \A i \in 1..Len(frames) : \E d \in BlankLines : exchange.frames[i] = frames[i] \o d

\* The next frame of the exchange.
Coming == exchange.frames[Len(frames) + 1]

LEMMA BufferBeginsWithComing ==
  ASSUME SseIInv, AsSent, Len(frames) < Len(exchange.frames)
  PROVE  /\ OfOneFrame(Coming)
         /\ Agree(buf, Coming)
         /\ Len(Coming) \in Nat
         /\ Len(Upto(exchange.frames, Len(frames) + 1)) = cut + Len(Coming)
         /\ cut + Len(Coming) <= Len(wire)
<1> DEFINE k == Len(frames)
<1>1. /\ exchange.frames \in Seq(Seq(Token)) /\ Len(exchange.frames) \in Nat
      /\ k \in Nat /\ buf \in Seq(Token) /\ Len(buf) \in Nat /\ cut \in Nat
      /\ wire \in Seq(Token) /\ Len(wire) \in Nat
  BY StreamsAssumption, LenProperties DEF AsSent, SseIInv, SseTypeOK
<1>2. /\ Coming \in Seq(Token)
      /\ Len(Upto(exchange.frames, k + 1)) = cut + Len(Coming)
      /\ cut + Len(Coming) <= Len(wire)
      /\ \A j \in 1..Len(Coming) : wire[cut + j] = Coming[j]
  <2> DEFINE fs == exchange.frames
  <2>1. fs \in Seq(Seq(Token)) /\ k < Len(fs)
    BY <1>1
  <2>2. cut = Len(Upto(fs, k)) /\ wire = FlattenSeq(fs) /\ Coming = fs[k + 1]
    BY DEF AsSent, Coming
  <2> HIDE DEF fs
  <2>3. /\ fs[k + 1] \in Seq(Token)
        /\ Len(Upto(fs, k + 1)) = Len(Upto(fs, k)) + Len(fs[k + 1])
        /\ Len(Upto(fs, k)) + Len(fs[k + 1]) <= Len(FlattenSeq(fs))
        /\ \A j \in 1..Len(fs[k + 1]) : FlattenSeq(fs)[Len(Upto(fs, k)) + j] = fs[k + 1][j]
    BY <1>1, <2>1, FrameIsThere
  <2> QED BY <2>2, <2>3 DEF fs
<1>3. OfOneFrame(Coming)
  <2>1. k + 1 \in DOMAIN exchange.frames
    BY <1>1
  <2>2. \A n \in 0..Len(exchange.frames[k + 1]) :
          EndsFrame(SubSeq(exchange.frames[k + 1], 1, n)) <=> n = Len(exchange.frames[k + 1])
    BY <2>1, StreamsAssumption DEF AsSent
  <2> QED BY <1>2, <2>2 DEF OfOneFrame, Coming
<1>4. Agree(buf, Coming)
  <2> SUFFICES ASSUME NEW i \in 1..Len(Coming), i <= Len(buf)
               PROVE  buf[i] = Coming[i]
    BY DEF Agree
  <2>1. buf = SubSeq(wire, cut + 1, cut + Len(buf)) /\ cut + Len(buf) <= Len(wire)
    BY <1>1 DEF SseIInv, SseTypeOK, BufferIsTheRest
  <2>2. i \in Nat /\ i >= 1
    BY <1>2, LenProperties
  <2> DEFINE a == cut + 1
             z == cut + Len(buf)
  <2>3. a \in Nat /\ z \in Nat /\ a >= 1 /\ z <= Len(wire) /\ i \in 1..z - a + 1 /\ a + i - 1 = cut + i
    BY <1>1, <2>1, <2>2
  <2> HIDE DEF a, z
  <2>4. SubSeq(wire, a, z)[i] = wire[a + i - 1]
    BY <1>1, <2>3, SubSeqProperties
  <2>5. buf[i] = wire[cut + i]
    BY <2>1, <2>3, <2>4, Zenon DEF a, z
  <2> QED BY <1>2, <2>5
<1> QED BY <1>2, <1>3, <1>4, LenProperties

\* When all frames have been cut off, the buffer is empty.
LEMMA NoneComing ==
  ASSUME SseIInv, AsSent, ~ Idle
  PROVE  Len(frames) < Len(exchange.frames)
<1>1. /\ exchange.frames \in Seq(Seq(Token)) /\ Len(exchange.frames) \in Nat
      /\ Len(frames) \in Nat /\ Len(buf) \in Nat /\ cut \in Nat /\ Len(wire) \in Nat
  BY StreamsAssumption, LenProperties DEF AsSent, SseIInv, SseTypeOK
<1> SUFFICES ASSUME Len(frames) = Len(exchange.frames) PROVE FALSE
  BY <1>1 DEF AsSent
<1>2. cut = Len(wire)
  BY <1>1, UptoStep DEF AsSent
<1>3. Len(buf) = 0
  BY <1>1, <1>2 DEF SseIInv, SseTypeOK, BufferIsTheRest
<1> QED BY <1>3 DEF Idle, Delimiters

LEMMA AsSentInitially ==
  ASSUME StreamsInit
  PROVE  AsSent
<1>1. frames = << >> /\ cut = 0 /\ Len(frames) = 0
  BY EmptySeq DEF StreamsInit, SseStart
<1>2. exchange \in Exchanges /\ wire = FlattenSeq(exchange.frames)
  BY DEF StreamsInit
<1>3. exchange.frames \in Seq(Seq(Token)) /\ Len(exchange.frames) \in Nat
  BY <1>2, StreamsAssumption, LenProperties
<1>4. Len(Upto(exchange.frames, 0)) = 0
  BY <1>3, UptoStep, EmptySeq
<1> QED BY <1>1, <1>2, <1>3, <1>4 DEF AsSent

LEMMA FrameAsSent ==
  ASSUME SseIInv, AsSent, HandleFrame
  PROVE  AsSent'
<1> DEFINE k == Len(frames)
           end == FrameEnd(buf)
           next == end + DelimiterLength(buf, end)
           piece == SubSeq(buf, 1, end - 1)
<1>1. ~ Idle /\ buf \in Seq(Token) /\ Len(buf) \in Nat /\ cut \in Nat /\ frames \in Seq(Seq(Token))
  BY LenProperties DEF SseIInv, SseTypeOK, HandleFrame, Frame
<1>2. /\ Len(frames) < Len(exchange.frames)
      /\ OfOneFrame(Coming) /\ Agree(buf, Coming) /\ Len(Coming) \in Nat
      /\ Len(Upto(exchange.frames, k + 1)) = cut + Len(Coming)
  BY <1>1, NoneComing, BufferBeginsWithComing
<1>3. Len(buf) >= Len(Coming)
  <2>1. ~ (Len(buf) < Len(Coming))
    BY <1>1, <1>2, PartOfFrame DEF Idle
  <2> QED BY <1>1, <1>2, <2>1
<1>4. next = Len(Coming) + 1 /\ \E d \in BlankLines : Coming = piece \o d
  BY <1>1, <1>2, <1>3, WholeFrame
<1>5. /\ frames' = Append(frames, piece) /\ cut' = cut + next - 1
      /\ UNCHANGED <<wire, exchange>>
  BY DEF HandleFrame, Frame
<1>6. piece \in Seq(Token)
  <2>1. Delimiters(buf) # {}
    BY <1>1 DEF Idle
  <2>2. end \in 1..Len(buf)
    BY <1>1, <2>1, FrameEndWithin
  <2> HIDE DEF end
  <2> QED BY <1>1, <2>2, Part
<1> HIDE DEF end, next, piece
<1>7. k \in Nat /\ Len(exchange.frames) \in Nat
  BY <1>1, StreamsAssumption, LenProperties DEF AsSent
<1>8. /\ Len(frames') = k + 1 /\ frames'[k + 1] = piece
      /\ \A i \in 1..k : frames'[i] = frames[i]
  BY <1>1, <1>5, <1>6, AppendProperties
<1>9. cut' = Len(Upto(exchange'.frames, Len(frames')))
  <2>1. cut' = cut + Len(Coming)
    BY <1>1, <1>2, <1>4, <1>5
  <2> QED BY <1>2, <1>5, <1>8, <2>1, Zenon
<1>10. ASSUME NEW i \in 1..Len(frames')
       PROVE  \E d \in BlankLines : exchange'.frames[i] = frames'[i] \o d
  <2>1. i \in 1..k \/ i = k + 1
    BY <1>7, <1>8
  <2>2. CASE i \in 1..k
    BY <1>5, <1>8, <2>2 DEF AsSent
  <2>3. CASE i = k + 1
    <3>1. exchange'.frames[i] = Coming /\ frames'[i] = piece
      BY <1>5, <1>8, <2>3 DEF Coming
    <3> QED BY <1>4, <3>1, Zenon
  <2> QED BY <2>1, <2>2, <2>3
<1>11. Len(frames') <= Len(exchange'.frames)
  BY <1>2, <1>5, <1>7, <1>8
<1> QED BY <1>5, <1>9, <1>10, <1>11 DEF AsSent

LEMMA StreamsInduction ==
  ASSUME SseIInv, AsSent, [StreamsNext]_streamVars
  PROVE  AsSent'
<1>1. CASE \E n \in 1..MaxChunk : Receive(n)
  BY <1>1 DEF Receive, Feed, AsSent
<1>2. CASE HandleFrame
  BY <1>2, FrameAsSent
<1>3. CASE End
  BY <1>3 DEF End, sseVars, AsSent
<1>4. CASE UNCHANGED streamVars
  BY <1>4 DEF streamVars, sseVars, AsSent
<1> QED BY <1>1, <1>2, <1>3, <1>4 DEF StreamsNext

\* Once the buffer holds no whole frame, all that arrived have been cut off.
LEMMA AllThatArrived ==
  ASSUME SseIInv, AsSent, Idle, ~ latched
  PROVE  Arrived(fed) = SubSeq(exchange.frames, 1, Len(frames))
<1> DEFINE fs == exchange.frames
           k == Len(frames)
           counts == {j \in 0..Len(fs) : Len(FlattenSeq(SubSeq(fs, 1, j))) <= fed}
<1>1. /\ fs \in Seq(Seq(Token)) /\ Len(fs) \in Nat /\ k \in Nat /\ k <= Len(fs)
      /\ buf \in Seq(Token) /\ Len(buf) \in Nat /\ cut \in Nat /\ fed \in Nat
  BY StreamsAssumption, LenProperties DEF AsSent, SseIInv, SseTypeOK
<1>2. cut + Len(buf) = fed /\ cut = Len(Upto(fs, k))
  BY DEF AsSent, SseIInv, BufferIsTheRest
<1>3. k \in counts
  BY <1>1, <1>2 DEF Upto
<1>4. ASSUME NEW j \in counts PROVE j <= k
  <2> SUFFICES ASSUME j > k PROVE FALSE
    BY <1>1
  <2>1. /\ k < Len(fs) /\ j \in 0..Len(fs) /\ k + 1 \in 0..Len(fs) /\ j \in k + 1..Len(fs)
    BY <1>1
  <2>2. Len(Upto(fs, j)) <= fed
    BY DEF Upto
  <2>3. Len(Upto(fs, k + 1)) <= Len(Upto(fs, j))
    BY <1>1, <2>1, UptoGrows DEF Begins
  <2>4. Upto(fs, j) \in Seq(Token) /\ Upto(fs, k + 1) \in Seq(Token)
    BY <1>1, <2>1, UptoTokens
  <2>5. Len(Upto(fs, j)) \in Nat /\ Len(Upto(fs, k + 1)) \in Nat
    BY <2>4, LenProperties
  <2>6. /\ OfOneFrame(Coming) /\ Agree(buf, Coming) /\ Len(Coming) \in Nat
        /\ Len(Upto(fs, k + 1)) = cut + Len(Coming)
    BY <2>1, BufferBeginsWithComing
  <2>7. Len(buf) >= Len(Coming)
    BY <1>1, <1>2, <2>2, <2>3, <2>5, <2>6
  <2>8. Delimiters(buf) # {}
    BY <1>1, <2>6, <2>7, WholeFrame
  <2> QED BY <2>8 DEF Idle
<1>5. counts \subseteq Nat
  BY <1>1
<1> HIDE DEF counts
<1>6. (CHOOSE n \in counts : \A j \in counts : j <= n) = k
  <2> DEFINE c == CHOOSE n \in counts : \A j \in counts : j <= n
  <2>1. c \in counts /\ \A j \in counts : j <= c
    BY <1>3, <1>4
  <2> HIDE DEF c
  <2>2. c <= k /\ k <= c
    BY <1>3, <1>4, <2>1
  <2>3. c \in Nat
    BY <1>5, <2>1
  <2>4. c = k
    BY <1>1, <2>2, <2>3
  <2> QED BY <2>4 DEF c
<1> QED BY <1>6 DEF Arrived, counts

LEMMA AsSentIsEnough ==
  ASSUME SseIInv, AsSent
  PROVE  FramesAsSent
<1> SUFFICES ASSUME Idle, ~ latched
             PROVE  /\ Len(frames) = Len(Arrived(fed))
                    /\ \A i \in DOMAIN Arrived(fed) :
                         \E d \in BlankLines : Arrived(fed)[i] = frames[i] \o d
  BY Zenon DEF FramesAsSent
<1> DEFINE s == SubSeq(exchange.frames, 1, Len(frames))
<1>1. Arrived(fed) = s
  BY AllThatArrived
<1>2. /\ exchange.frames \in Seq(Seq(Token)) /\ Len(exchange.frames) \in Nat
      /\ Len(frames) \in Nat /\ Len(frames) <= Len(exchange.frames)
  BY StreamsAssumption, LenProperties DEF AsSent, SseIInv, SseTypeOK
<1>3. Len(s) = Len(frames) /\ DOMAIN s = 1..Len(frames)
      /\ \A i \in 1..Len(frames) : s[i] = exchange.frames[i]
  BY <1>2
<1> HIDE DEF s
<1>4. ASSUME NEW i \in DOMAIN s PROVE \E d \in BlankLines : s[i] = frames[i] \o d
  BY <1>3 DEF AsSent
<1> QED BY <1>1, <1>3, <1>4

\* The handler is given the frames of a stream as they were sent, whole and
\* in order, however long they are and wherever the chunks cut them.
THEOREM StreamsFramesAsSent == StreamsSpec => []FramesAsSent
<1>1. StreamsInit => SseIInv /\ AsSent
  BY StreamsInitially, SseInitially, AsSentInitially DEF SseInit
<1>2. SseIInv /\ AsSent /\ [StreamsNext]_streamVars => (SseIInv /\ AsSent)'
  BY StreamsStep, SseInduction, StreamsInduction
<1>3. SseIInv /\ AsSent => FramesAsSent
  BY AsSentIsEnough
<1> QED BY <1>1, <1>2, <1>3, PTL DEF StreamsSpec

----------------------------------------------------------------------------
(* Sequences of whatever values.                                           *)
Sequence(s) == \E S : s \in Seq(S)

LEMMA SequenceIs ==
  ASSUME NEW s, Sequence(s)
  PROVE  Len(s) \in Nat /\ DOMAIN s = 1..Len(s)
  BY LenProperties DEF Sequence

LEMMA EmptySequence == Sequence(<< >>) /\ DOMAIN << >> = {} /\ Len(<< >>) = 0
<1>1. << >> \in Seq({})
  OBVIOUS
<1> QED BY <1>1 DEF Sequence

LEMMA SequenceAppend ==
  ASSUME NEW s, Sequence(s), NEW e
  PROVE  /\ Sequence(Append(s, e))
         /\ Len(Append(s, e)) = Len(s) + 1
         /\ Append(s, e)[Len(s) + 1] = e
         /\ \A i \in DOMAIN s : Append(s, e)[i] = s[i]
<1>1. PICK S : s \in Seq(S)
  BY DEF Sequence
<1> DEFINE T == S \cup {e}
<1>2. s \in Seq(T) /\ e \in T
  BY <1>1, SeqMonotonic
<1> HIDE DEF T
<1>3. /\ Append(s, e) \in Seq(T)
      /\ Len(Append(s, e)) = Len(s) + 1
      /\ \A i \in 1..Len(s) : Append(s, e)[i] = s[i]
      /\ Append(s, e)[Len(s) + 1] = e
  BY <1>2, AppendProperties
<1> QED BY <1>3, SequenceIs DEF Sequence

LEMMA SequenceExcept ==
  ASSUME NEW s, Sequence(s), NEW i \in DOMAIN s, NEW e
  PROVE  /\ Sequence([s EXCEPT ![i] = e])
         /\ DOMAIN [s EXCEPT ![i] = e] = DOMAIN s
         /\ [s EXCEPT ![i] = e][i] = e
         /\ \A j \in DOMAIN s : j # i => [s EXCEPT ![i] = e][j] = s[j]
<1>1. PICK S : s \in Seq(S)
  BY DEF Sequence
<1> DEFINE T == S \cup {e}
<1>2. s \in Seq(T) /\ e \in T
  BY <1>1, SeqMonotonic
<1> HIDE DEF T
<1>3. [s EXCEPT ![i] = e] \in Seq(T)
  BY <1>2, SequenceIs, ExceptSeq
<1> QED BY <1>3 DEF Sequence

\* c has the elements of s and of t, and no others.
Joined(s, t, c) ==
  /\ Sequence(c)
  /\ \A i \in DOMAIN c :
       (\E j \in DOMAIN s : c[i] = s[j]) \/ (\E j \in DOMAIN t : c[i] = t[j])
  /\ \A j \in DOMAIN s : \E i \in DOMAIN c : c[i] = s[j]
  /\ \A j \in DOMAIN t : \E i \in DOMAIN c : c[i] = t[j]

LEMMA SequenceConcat ==
  ASSUME NEW s, Sequence(s), NEW t, Sequence(t)
  PROVE  Joined(s, t, s \o t)
<1>1. PICK S : s \in Seq(S)
  BY DEF Sequence
<1>2. PICK U : t \in Seq(U)
  BY DEF Sequence
<1> DEFINE T == S \cup U
           c == s \o t
<1>3. s \in Seq(T) /\ t \in Seq(T)
  BY <1>1, <1>2, SeqMonotonic
<1> HIDE DEF T
<1>4. /\ c \in Seq(T) /\ Len(c) = Len(s) + Len(t)
      /\ \A i \in 1..Len(s) + Len(t) : c[i] = IF i <= Len(s) THEN s[i] ELSE t[i - Len(s)]
  BY <1>3, ConcatProperties
<1>5. /\ Len(s) \in Nat /\ Len(t) \in Nat /\ DOMAIN s = 1..Len(s) /\ DOMAIN t = 1..Len(t)
  BY SequenceIs
<1>6. Sequence(c)
  BY <1>4 DEF Sequence
<1>7. DOMAIN c = 1..Len(s) + Len(t)
  BY <1>4, <1>6, SequenceIs
<1> HIDE DEF c
<1>8. ASSUME NEW i \in DOMAIN c
      PROVE  (\E j \in DOMAIN s : c[i] = s[j]) \/ (\E j \in DOMAIN t : c[i] = t[j])
  <2>1. CASE i <= Len(s)
    BY <1>4, <1>5, <1>7, <2>1
  <2>2. CASE i > Len(s)
    <3>1. i - Len(s) \in DOMAIN t /\ c[i] = t[i - Len(s)]
      BY <1>4, <1>5, <1>7, <2>2
    <3> QED BY <3>1
  <2> QED BY <1>5, <1>7, <2>1, <2>2
<1>9. ASSUME NEW j \in DOMAIN s PROVE \E i \in DOMAIN c : c[i] = s[j]
  <2>1. j \in DOMAIN c /\ c[j] = s[j]
    BY <1>4, <1>5, <1>7
  <2> QED BY <2>1
<1>10. ASSUME NEW j \in DOMAIN t PROVE \E i \in DOMAIN c : c[i] = t[j]
  <2> DEFINE i == Len(s) + j
  <2>1. i \in DOMAIN c /\ i - Len(s) = j /\ ~ (i <= Len(s))
    BY <1>5, <1>7
  <2>2. i \in 1..Len(s) + Len(t)
    BY <1>7, <2>1
  <2> HIDE DEF i
  <2>3. c[i] = t[i - Len(s)]
    BY <1>4, <2>1, <2>2
  <2> QED BY <2>1, <2>3
<1>11. Joined(s, t, c)
  BY <1>6, <1>8, <1>9, <1>10 DEF Joined
<1> QED BY <1>11 DEF c

LEMMA NextPlace == \A n \in Nat : 1..(n + 1) = 1..n \cup {n + 1}
  OBVIOUS

\* t is s with one more element.
Extended(s, e, t) ==
  /\ Sequence(t)
  /\ DOMAIN t = DOMAIN s \cup {Len(s) + 1}
  /\ t[Len(s) + 1] = e
  /\ \A j \in DOMAIN s : t[j] = s[j]

LEMMA AppendExtends ==
  ASSUME NEW s, Sequence(s), NEW e
  PROVE  Extended(s, e, Append(s, e))
<1> DEFINE t == Append(s, e)
<1>1. Len(s) \in Nat /\ DOMAIN s = 1..Len(s)
  BY SequenceIs
<1>2. /\ Sequence(t) /\ Len(t) = Len(s) + 1 /\ t[Len(s) + 1] = e
      /\ \A j \in DOMAIN s : t[j] = s[j]
  BY SequenceAppend
<1> HIDE DEF t
<1>3. DOMAIN t = 1..(Len(s) + 1)
  BY <1>2, SequenceIs
<1>4. 1..(Len(s) + 1) = 1..Len(s) \cup {Len(s) + 1}
  BY <1>1, NextPlace
<1> QED BY <1>1, <1>2, <1>3, <1>4 DEF Extended, t

----------------------------------------------------------------------------
(* What is selected of a sequence.                                         *)
TakesUpto(s, I, l, g) ==
  g = [n \in 0..l |-> IF n = 0 THEN << >>
                      ELSE IF n \in I THEN Append(g[n - 1], s[n]) ELSE g[n - 1]]

LEMMA TakesExists ==
  ASSUME NEW s, NEW I, NEW l \in Nat
  PROVE  \E g : TakesUpto(s, I, l, g)
<1> DEFINE N == {n \in Nat : \E g : TakesUpto(s, I, n, g)}
<1>1. 0 \in N
  <2> DEFINE g == [i \in 0..0 |-> << >>]
  <2>1. TakesUpto(s, I, 0, g)
    BY DEF TakesUpto
  <2> QED BY <2>1
<1>2. ASSUME NEW n \in Nat, n \in N PROVE n + 1 \in N
  <2>1. PICK g : TakesUpto(s, I, n, g)
    BY <1>2
  <2> DEFINE last == IF n + 1 \in I THEN Append(g[n], s[n + 1]) ELSE g[n]
             h == [i \in 0..(n + 1) |-> IF i = n + 1 THEN last ELSE g[i]]
  <2>2. \A i \in 0..n : h[i] = g[i]
    OBVIOUS
  <2>3. \A i \in 0..n : g[i] = IF i = 0 THEN << >>
                               ELSE IF i \in I THEN Append(g[i - 1], s[i]) ELSE g[i - 1]
    BY <2>1 DEF TakesUpto
  <2>4. ASSUME NEW i \in 0..(n + 1)
        PROVE  h[i] = IF i = 0 THEN << >>
                      ELSE IF i \in I THEN Append(h[i - 1], s[i]) ELSE h[i - 1]
    <3>1. CASE i = n + 1
      <4>1. h[i] = last /\ i - 1 = n /\ h[i - 1] = g[n] /\ i # 0
        BY <3>1
      <4> HIDE DEF h
      <4> QED BY <3>1, <4>1
    <3>2. CASE i \in 0..n
      <4>1. h[i] = g[i] /\ (i # 0 => i - 1 \in 0..n /\ h[i - 1] = g[i - 1])
        BY <2>2, <3>2
      <4> HIDE DEF h
      <4> QED BY <2>3, <3>2, <4>1
    <3> QED BY <3>1, <3>2
  <2>5. DOMAIN h = 0..(n + 1) /\ h = [i \in DOMAIN h |-> h[i]]
    OBVIOUS
  <2> HIDE DEF h
  <2>6. TakesUpto(s, I, n + 1, h)
    BY <2>4, <2>5 DEF TakesUpto
  <2> QED BY <2>6
<1> HIDE DEF N
<1>3. Nat \subseteq N
  BY <1>1, <1>2, NatSetInduction
<1> QED BY <1>3 DEF N

LEMMA SelectedIs ==
  ASSUME NEW s, Sequence(s), NEW I
  PROVE  /\ \E g : TakesUpto(s, I, Len(s), g) /\ A!Selected(s, I) = g[Len(s)]
         /\ A!Selected(s, I) = O!Selected(s, I)
<1> DEFINE g == CHOOSE g : TakesUpto(s, I, Len(s), g)
<1>1. TakesUpto(s, I, Len(s), g)
  BY SequenceIs, TakesExists
<1>2. A!Selected(s, I) = g[Len(s)]
  BY DEF A!Selected, TakesUpto
<1>3. O!Selected(s, I) = g[Len(s)]
  BY DEF O!Selected, TakesUpto
<1> QED BY <1>1, <1>2, <1>3

\* What is selected are the elements at the chosen places, no others.
LEMMA SelectedHolds ==
  ASSUME NEW s, Sequence(s), NEW I
  PROVE  LET t == A!Selected(s, I)
         IN  /\ Sequence(t)
             /\ \A j \in DOMAIN t : \E i \in DOMAIN s : i \in I /\ t[j] = s[i]
             /\ \A i \in DOMAIN s : i \in I => \E j \in DOMAIN t : t[j] = s[i]
<1> DEFINE Holds(t, n) ==
             /\ Sequence(t)
             /\ \A j \in DOMAIN t : \E i \in 1..n : i \in I /\ t[j] = s[i]
             /\ \A i \in 1..n : i \in I => \E j \in DOMAIN t : t[j] = s[i]
<1>1. PICK g : TakesUpto(s, I, Len(s), g) /\ A!Selected(s, I) = g[Len(s)]
  BY SelectedIs
<1>2. Len(s) \in Nat /\ DOMAIN s = 1..Len(s)
  BY SequenceIs
<1>3. \A i \in 0..Len(s) : g[i] = IF i = 0 THEN << >>
                                  ELSE IF i \in I THEN Append(g[i - 1], s[i]) ELSE g[i - 1]
  BY <1>1 DEF TakesUpto
<1> DEFINE N == {n \in Nat : n <= Len(s) => Holds(g[n], n)}
<1>4. 0 \in N
  <2>1. g[0] = << >>
    BY <1>2, <1>3
  <2>2. 1..0 = {}
    OBVIOUS
  <2> QED BY <2>1, <2>2, EmptySequence
<1>5. ASSUME NEW n \in Nat, n \in N PROVE n + 1 \in N
  <2> HIDE DEF Holds
  <2> SUFFICES ASSUME n + 1 <= Len(s) PROVE Holds(g[n + 1], n + 1)
    OBVIOUS
  <2> USE DEF Holds
  <2> DEFINE m == n + 1
             t == g[n]
  <2>1. m \in 0..Len(s) /\ m # 0 /\ m - 1 = n /\ n <= Len(s) /\ 1..m = 1..n \cup {m}
    BY <1>2
  <2>2. Holds(t, n)
    BY <1>5, <2>1
  <2> HIDE DEF m, N
  <2>3. g[m] = IF m \in I THEN Append(g[m - 1], s[m]) ELSE g[m - 1]
    BY <1>3, <2>1
  <2>4. g[m] = IF m \in I THEN Append(t, s[m]) ELSE t
    BY <2>1, <2>3, Zenon
  <2> HIDE DEF t
  <2>5. CASE m \notin I
    BY <2>1, <2>2, <2>4, <2>5
  <2>6. CASE m \in I
    <3> DEFINE u == Append(t, s[m])
    <3>1. /\ Sequence(u) /\ Len(u) = Len(t) + 1 /\ u[Len(t) + 1] = s[m]
          /\ \A i \in DOMAIN t : u[i] = t[i]
      BY <2>2, SequenceAppend
    <3>2. DOMAIN t = 1..Len(t) /\ Len(t) \in Nat /\ DOMAIN u = 1..Len(u)
      BY <2>2, <3>1, SequenceIs
    <3> HIDE DEF u
    <3>3. DOMAIN u = DOMAIN t \cup {Len(t) + 1}
      BY <3>1, <3>2
    <3>4. \A j \in DOMAIN u : \E i \in 1..m : i \in I /\ u[j] = s[i]
      BY <2>1, <2>2, <2>6, <3>1, <3>3
    <3>5. \A i \in 1..m : i \in I => \E j \in DOMAIN u : u[j] = s[i]
      <4>1. ASSUME NEW i \in 1..n, i \in I PROVE \E j \in DOMAIN u : u[j] = s[i]
        BY <2>2, <3>1, <3>3, <4>1
      <4>2. Len(t) + 1 \in DOMAIN u /\ u[Len(t) + 1] = s[m]
        BY <3>1, <3>3
      <4> QED BY <2>1, <4>1, <4>2
    <3>6. g[m] = u
      BY <2>4, <2>6 DEF u
    <3> QED BY <3>1, <3>4, <3>5, <3>6 DEF m
  <2> QED BY <2>5, <2>6 DEF m
<1> HIDE DEF N
<1>6. Nat \subseteq N
  BY <1>4, <1>5, NatSetInduction
<1>7. Holds(g[Len(s)], Len(s))
  BY <1>2, <1>6 DEF N
<1> QED BY <1>1, <1>2, <1>7

----------------------------------------------------------------------------
(* The places that are selected, and what is selected of them.             *)
(* What is selected of a sequence depends on nothing that comes after.     *)
LEMMA TakesAlike ==
  ASSUME NEW s, Sequence(s), NEW I, NEW t, Sequence(t), NEW J, Len(s) <= Len(t),
         \A i \in DOMAIN s : t[i] = s[i] /\ (i \in I <=> i \in J),
         NEW h, TakesUpto(t, J, Len(t), h)
  PROVE  h[Len(s)] = A!Selected(s, I)
<1>1. PICK g : TakesUpto(s, I, Len(s), g) /\ A!Selected(s, I) = g[Len(s)]
  BY SelectedIs
<1>2. Len(s) \in Nat /\ DOMAIN s = 1..Len(s) /\ Len(t) \in Nat
  BY SequenceIs
<1>3. \A i \in 0..Len(s) : g[i] = IF i = 0 THEN << >>
                                  ELSE IF i \in I THEN Append(g[i - 1], s[i]) ELSE g[i - 1]
  BY <1>1 DEF TakesUpto
<1>4. \A i \in 0..Len(t) : h[i] = IF i = 0 THEN << >>
                                  ELSE IF i \in J THEN Append(h[i - 1], t[i]) ELSE h[i - 1]
  BY DEF TakesUpto
<1> DEFINE N == {n \in Nat : n <= Len(s) => h[n] = g[n]}
<1>5. 0 \in N
  <2>1. 0 \in 0..Len(s) /\ 0 \in 0..Len(t)
    BY <1>2
  <2>2. g[0] = << >> /\ h[0] = << >>
    BY <1>3, <1>4, <2>1
  <2> QED BY <2>2
<1>6. ASSUME NEW n \in Nat, n \in N PROVE n + 1 \in N
  <2> SUFFICES ASSUME n + 1 <= Len(s) PROVE h[n + 1] = g[n + 1]
    OBVIOUS
  <2> DEFINE m == n + 1
  <2>1. /\ m \in 0..Len(s) /\ m \in 0..Len(t) /\ m \in DOMAIN s /\ m # 0 /\ m - 1 = n
        /\ n <= Len(s)
    BY <1>2
  <2>2. h[n] = g[n]
    BY <1>6, <2>1
  <2> HIDE DEF m, N
  <2>3. g[m] = IF m \in I THEN Append(g[m - 1], s[m]) ELSE g[m - 1]
    BY <1>3, <2>1
  <2>4. h[m] = IF m \in J THEN Append(h[m - 1], t[m]) ELSE h[m - 1]
    BY <1>4, <2>1
  <2>5. t[m] = s[m] /\ (m \in I <=> m \in J)
    BY <2>1
  <2>6. h[m - 1] = g[m - 1]
    BY <2>1, <2>2
  <2>7. h[m] = g[m]
    BY <2>3, <2>4, <2>5, <2>6, Zenon
  <2> QED BY <2>7 DEF m
<1> HIDE DEF N
<1>7. Nat \subseteq N
  BY <1>5, <1>6, NatSetInduction
<1>8. h[Len(s)] = g[Len(s)]
  BY <1>2, <1>7 DEF N
<1> QED BY <1>1, <1>8

\* The same is selected of the same elements.
LEMMA SelectedAlike ==
  ASSUME NEW s, Sequence(s), NEW I, NEW t, Sequence(t), NEW J, Len(t) = Len(s),
         \A i \in DOMAIN s : t[i] = s[i] /\ (i \in I <=> i \in J)
  PROVE  A!Selected(t, J) = A!Selected(s, I)
<1>1. PICK h : TakesUpto(t, J, Len(t), h) /\ A!Selected(t, J) = h[Len(t)]
  BY SelectedIs
<1>2. Len(s) \in Nat
  BY SequenceIs
<1>3. h[Len(s)] = A!Selected(s, I)
  BY <1>1, <1>2, TakesAlike
<1> QED BY <1>1, <1>3

\* One element more may be one more that is selected.
LEMMA SelectedAppend ==
  ASSUME NEW s, Sequence(s), NEW I, NEW e, NEW J, \A i \in DOMAIN s : i \in I <=> i \in J
  PROVE  A!Selected(Append(s, e), J) =
           IF Len(s) + 1 \in J THEN Append(A!Selected(s, I), e) ELSE A!Selected(s, I)
<1> DEFINE t == Append(s, e)
           m == Len(s) + 1
<1>1. /\ Sequence(t) /\ Len(t) = m /\ t[m] = e
      /\ \A i \in DOMAIN s : t[i] = s[i]
  BY SequenceAppend
<1> HIDE DEF t
<1>2. Len(s) \in Nat /\ m \in Nat /\ Len(s) <= m /\ m # 0 /\ m - 1 = Len(s) /\ m \in 0..m
  BY SequenceIs
<1>3. PICK h : TakesUpto(t, J, Len(t), h) /\ A!Selected(t, J) = h[Len(t)]
  BY <1>1, SelectedIs
<1>4. h[Len(s)] = A!Selected(s, I)
  BY <1>1, <1>2, <1>3, TakesAlike
<1> HIDE DEF m
<1>5. \A i \in 0..m : h[i] = IF i = 0 THEN << >>
                             ELSE IF i \in J THEN Append(h[i - 1], t[i]) ELSE h[i - 1]
  BY <1>1, <1>3 DEF TakesUpto
<1>6. h[m] = IF m \in J THEN Append(h[m - 1], t[m]) ELSE h[m - 1]
  BY <1>2, <1>5
<1>7. h[m] = IF m \in J THEN Append(A!Selected(s, I), e) ELSE A!Selected(s, I)
  BY <1>1, <1>2, <1>4, <1>6
<1> QED BY <1>1, <1>3, <1>7 DEF t, m

\* Sequences are the same if their elements are.
LEMMA SameSequence ==
  ASSUME NEW s, Sequence(s), NEW t, Sequence(t), Len(t) = Len(s),
         \A i \in 1..Len(s) : t[i] = s[i]
  PROVE  t = s
<1>1. PICK S : s \in Seq(S)
  BY DEF Sequence
<1>2. PICK T : t \in Seq(T)
  BY DEF Sequence
<1>3. s \in Seq(S \cup T) /\ t \in Seq(S \cup T)
  BY <1>1, <1>2, SeqMonotonic
<1> QED BY <1>3, SeqEqual

\* All that there is.
LEMMA SelectedAll ==
  ASSUME NEW s, Sequence(s), NEW I, DOMAIN s \subseteq I
  PROVE  A!Selected(s, I) = s
<1>1. PICK g : TakesUpto(s, I, Len(s), g) /\ A!Selected(s, I) = g[Len(s)]
  BY SelectedIs
<1>2. Len(s) \in Nat /\ DOMAIN s = 1..Len(s)
  BY SequenceIs
<1>3. \A i \in 0..Len(s) : g[i] = IF i = 0 THEN << >>
                                  ELSE IF i \in I THEN Append(g[i - 1], s[i]) ELSE g[i - 1]
  BY <1>1 DEF TakesUpto
<1> DEFINE Is(t, n) == Sequence(t) /\ Len(t) = n /\ \A i \in 1..n : t[i] = s[i]
           N == {n \in Nat : n <= Len(s) => Is(g[n], n)}
<1>4. 0 \in N
  <2>1. 0 \in 0..Len(s) /\ 1..0 = {}
    BY <1>2
  <2>2. g[0] = << >>
    BY <1>3, <2>1
  <2> QED BY <2>1, <2>2, EmptySequence
<1>5. ASSUME NEW n \in Nat, n \in N PROVE n + 1 \in N
  <2> HIDE DEF Is
  <2> SUFFICES ASSUME n + 1 <= Len(s) PROVE Is(g[n + 1], n + 1)
    OBVIOUS
  <2> DEFINE m == n + 1
             t == g[n]
  <2>1. /\ m \in 0..Len(s) /\ m \in DOMAIN s /\ m # 0 /\ m - 1 = n /\ n <= Len(s)
        /\ 1..m = 1..n \cup {m}
    BY <1>2
  <2>2. Is(t, n)
    BY <1>5, <2>1
  <2> HIDE DEF N, m
  <2>3. g[m] = Append(g[m - 1], s[m])
    BY <1>3, <2>1
  <2>4. g[m] = Append(t, s[m])
    BY <2>1, <2>3, Zenon
  <2> HIDE DEF t
  <2> DEFINE u == Append(t, s[m])
  <2>5. /\ Sequence(u) /\ Len(u) = Len(t) + 1 /\ u[Len(t) + 1] = s[m]
        /\ \A i \in DOMAIN t : u[i] = t[i]
    BY <2>2, SequenceAppend DEF Is
  <2> HIDE DEF u
  <2>6. Len(t) = n /\ DOMAIN t = 1..n /\ \A i \in 1..n : t[i] = s[i]
    BY <2>2, SequenceIs DEF Is
  <2>7. Is(u, m)
    BY <2>1, <2>5, <2>6 DEF Is, m
  <2> QED BY <2>4, <2>7 DEF u, m
<1> HIDE DEF N, Is
<1>6. Nat \subseteq N
  BY <1>4, <1>5, NatSetInduction
<1> DEFINE t == g[Len(s)]
<1>7. Is(t, Len(s))
  BY <1>2, <1>6 DEF N
<1> HIDE DEF t
<1>8. Sequence(t) /\ Len(t) = Len(s) /\ \A i \in 1..Len(s) : t[i] = s[i]
  BY <1>7 DEF Is
<1>9. t = s
  BY <1>2, <1>8, SameSequence
<1> QED BY <1>1, <1>9 DEF t

----------------------------------------------------------------------------
(* What has been taken up to a place stays, and more may follow.           *)
LEMMA TakesSequence ==
  ASSUME NEW s, NEW I, NEW l \in Nat, NEW g, TakesUpto(s, I, l, g)
  PROVE  \A k \in 0..l : Sequence(g[k])
<1>1. \A i \in 0..l : g[i] = IF i = 0 THEN << >>
                             ELSE IF i \in I THEN Append(g[i - 1], s[i]) ELSE g[i - 1]
  BY DEF TakesUpto
<1> DEFINE N == {n \in Nat : n <= l => Sequence(g[n])}
<1>2. 0 \in N
  <2>1. g[0] = << >>
    BY <1>1
  <2> QED BY <2>1, EmptySequence
<1>3. ASSUME NEW n \in Nat, n \in N PROVE n + 1 \in N
  <2> SUFFICES ASSUME n + 1 <= l PROVE Sequence(g[n + 1])
    OBVIOUS
  <2> DEFINE m == n + 1
             t == g[n]
  <2>1. m \in 0..l /\ m # 0 /\ m - 1 = n /\ n <= l
    OBVIOUS
  <2>2. Sequence(t)
    BY <1>3, <2>1
  <2> HIDE DEF m, N
  <2>3. g[m] = IF m \in I THEN Append(g[m - 1], s[m]) ELSE g[m - 1]
    BY <1>1, <2>1
  <2>4. g[m] = IF m \in I THEN Append(t, s[m]) ELSE t
    BY <2>1, <2>3, Zenon
  <2> HIDE DEF t
  <2>5. Sequence(Append(t, s[m]))
    BY <2>2, SequenceAppend
  <2> QED BY <2>2, <2>4, <2>5, Zenon DEF m
<1> HIDE DEF N
<1>4. Nat \subseteq N
  BY <1>2, <1>3, NatSetInduction
<1> QED BY <1>4 DEF N

LEMMA TakesGrow ==
  ASSUME NEW s, NEW I, NEW l \in Nat, NEW g, TakesUpto(s, I, l, g), NEW k \in 0..l, NEW m \in k..l
  PROVE  Begins(g[k], g[m])
<1>0. k \in Nat /\ m \in Nat /\ k <= l /\ m <= l
  OBVIOUS
<1>1. \A i \in 0..l : g[i] = IF i = 0 THEN << >>
                             ELSE IF i \in I THEN Append(g[i - 1], s[i]) ELSE g[i - 1]
  BY DEF TakesUpto
<1>2. \A i \in 0..l : Sequence(g[i])
  BY TakesSequence
<1> DEFINE u == g[k]
           N == {n \in Nat : k <= n /\ n <= l => Begins(u, g[n])}
<1>3. Sequence(u) /\ Len(u) \in Nat
  BY <1>2, SequenceIs
<1>4. Begins(u, u)
  BY <1>3 DEF Begins
<1> HIDE DEF u
<1>5. 0 \in N
  <2>1. k <= 0 => k = 0
    BY <1>0
  <2> QED BY <1>4, <2>1 DEF u
<1>6. ASSUME NEW n \in Nat, n \in N PROVE n + 1 \in N
  <2> SUFFICES ASSUME k <= n + 1, n + 1 <= l PROVE Begins(u, g[n + 1])
    OBVIOUS
  <2>1. CASE k = n + 1
    BY <1>4, <2>1 DEF u
  <2>2. CASE k # n + 1
    <3> DEFINE i == n + 1
               t == g[n]
    <3>1. k <= n /\ n <= l /\ n \in 0..l /\ i \in 0..l /\ i # 0 /\ i - 1 = n
      BY <1>0, <2>2
    <3>2. Begins(u, t) /\ Sequence(t)
      BY <1>2, <1>6, <3>1
    <3> HIDE DEF i, N
    <3>3. g[i] = IF i \in I THEN Append(g[i - 1], s[i]) ELSE g[i - 1]
      BY <1>1, <3>1
    <3>4. g[i] = IF i \in I THEN Append(t, s[i]) ELSE t
      BY <3>1, <3>3, Zenon
    <3> HIDE DEF t
    <3> DEFINE v == Append(t, s[i])
    <3>5. Sequence(v) /\ Len(v) = Len(t) + 1 /\ \A j \in DOMAIN t : v[j] = t[j]
      BY <3>2, SequenceAppend
    <3> HIDE DEF v
    <3>6. Len(t) \in Nat /\ DOMAIN t = 1..Len(t)
      BY <3>2, SequenceIs
    <3>7. Begins(u, v)
      BY <1>3, <3>2, <3>5, <3>6 DEF Begins
    <3> QED BY <3>2, <3>4, <3>7, Zenon DEF v, i
  <2> QED BY <2>1, <2>2
<1> HIDE DEF N
<1>7. Nat \subseteq N
  BY <1>5, <1>6, NatSetInduction
<1> QED BY <1>0, <1>7 DEF N, u

\* The places of a sequence of length n that are in N, up to the k-th.
PlacesUpto(n, N, k) == (CHOOSE g : TakesUpto([i \in 1..n |-> i], N, n, g))[k]

\* g gives the places up to each.
PlacesBy(n, N, g) ==
  /\ \A k : PlacesUpto(n, N, k) = g[k]
  /\ g[0] = << >>
  /\ \A k \in Nat : k < n =>
       g[k + 1] = IF k + 1 \in N THEN Append(g[k], k + 1) ELSE g[k]

LEMMA PlacesSome == ASSUME NEW n \in Nat, NEW N PROVE \E g : PlacesBy(n, N, g)
<1> DEFINE ids == [i \in 1..n |-> i]
           g == CHOOSE g : TakesUpto(ids, N, n, g)
<1>1. TakesUpto(ids, N, n, g)
  BY TakesExists
<1>2. \A k : PlacesUpto(n, N, k) = g[k]
  BY DEF PlacesUpto
<1> HIDE DEF g
<1>3. \A i \in 0..n : g[i] = IF i = 0 THEN << >>
                             ELSE IF i \in N THEN Append(g[i - 1], ids[i]) ELSE g[i - 1]
  BY <1>1 DEF TakesUpto
<1>4. g[0] = << >>
  <2>1. 0 \in 0..n
    OBVIOUS
  <2> QED BY <1>3, <2>1
<1>5. ASSUME NEW k \in Nat, k < n
      PROVE  g[k + 1] = IF k + 1 \in N THEN Append(g[k], k + 1) ELSE g[k]
  <2> DEFINE m == k + 1
  <2>1. m \in 0..n /\ m # 0 /\ m - 1 = k /\ ids[m] = m
    BY <1>5
  <2> HIDE DEF m, ids
  <2>2. g[m] = IF m \in N THEN Append(g[m - 1], ids[m]) ELSE g[m - 1]
    BY <1>3, <2>1
  <2>3. g[m] = IF m \in N THEN Append(g[k], m) ELSE g[k]
    BY <2>1, <2>2, Zenon
  <2> QED BY <2>3 DEF m
<1> HIDE DEF g
<1>6. PlacesBy(n, N, g)
  BY <1>2, <1>4, <1>5 DEF PlacesBy
<1> QED BY <1>6

\* One place more.
LEMMA PlacesNext ==
  ASSUME NEW n \in Nat, NEW N, NEW k \in Nat, k < n
  PROVE  PlacesUpto(n, N, k + 1) =
           IF k + 1 \in N THEN Append(PlacesUpto(n, N, k), k + 1) ELSE PlacesUpto(n, N, k)
<1>1. PICK g : PlacesBy(n, N, g)
  BY PlacesSome
<1>2. g[k + 1] = IF k + 1 \in N THEN Append(g[k], k + 1) ELSE g[k]
  BY <1>1 DEF PlacesBy
<1>3. PlacesUpto(n, N, k + 1) = g[k + 1] /\ PlacesUpto(n, N, k) = g[k]
  BY <1>1 DEF PlacesBy
<1> QED BY <1>2, <1>3, Zenon

LEMMA PlacesStep ==
  ASSUME NEW n \in Nat, NEW N
  PROVE  /\ PlacesUpto(n, N, 0) = << >>
         /\ \A k \in Nat : k < n => PlacesUpto(n, N, k + 1) =
              IF k + 1 \in N THEN Append(PlacesUpto(n, N, k), k + 1) ELSE PlacesUpto(n, N, k)
<1>1. PlacesUpto(n, N, 0) = << >>
  <2>1. PICK g : PlacesBy(n, N, g)
    BY PlacesSome
  <2> QED BY <2>1 DEF PlacesBy
<1>2. ASSUME NEW k \in Nat, k < n
      PROVE  PlacesUpto(n, N, k + 1) =
               IF k + 1 \in N THEN Append(PlacesUpto(n, N, k), k + 1) ELSE PlacesUpto(n, N, k)
  BY <1>2, PlacesNext
<1> QED BY <1>1, <1>2

LEMMA PlacesAre ==
  ASSUME NEW n \in Nat, NEW N, NEW k \in 0..n
  PROVE  LET P == PlacesUpto(n, N, k)
         IN  Sequence(P) /\ \A j \in DOMAIN P : P[j] \in 1..k /\ P[j] \in N
<1> DEFINE Is(P, l) == Sequence(P) /\ \A j \in DOMAIN P : P[j] \in 1..l /\ P[j] \in N
           M == {l \in Nat : l <= n => Is(PlacesUpto(n, N, l), l)}
<1>0. \A l \in Nat : l < n => PlacesUpto(n, N, l + 1) =
        IF l + 1 \in N THEN Append(PlacesUpto(n, N, l), l + 1) ELSE PlacesUpto(n, N, l)
  BY PlacesStep
<1>1. 0 \in M
  <2>1. PlacesUpto(n, N, 0) = << >>
    BY PlacesStep
  <2> QED BY <2>1, EmptySequence
<1>2. ASSUME NEW l \in Nat, l \in M PROVE l + 1 \in M
  <2> HIDE DEF Is
  <2> SUFFICES ASSUME l + 1 <= n PROVE Is(PlacesUpto(n, N, l + 1), l + 1)
    OBVIOUS
  <2> DEFINE P == PlacesUpto(n, N, l)
             m == l + 1
  <2>1. l < n /\ l <= n /\ m \in 1..m /\ 1..l \subseteq 1..m
    OBVIOUS
  <2>2. Is(P, l)
    BY <1>2, <2>1
  <2>3. PlacesUpto(n, N, m) = IF m \in N THEN Append(P, m) ELSE P
    <3>1. PlacesUpto(n, N, l + 1) =
            IF l + 1 \in N THEN Append(PlacesUpto(n, N, l), l + 1) ELSE PlacesUpto(n, N, l)
      BY <1>0, <2>1
    <3> QED BY <3>1
  <2> HIDE DEF P, m, M
  <2>4. Sequence(P) /\ \A j \in DOMAIN P : P[j] \in 1..m /\ P[j] \in N
    BY <2>1, <2>2 DEF Is
  <2>5. CASE m \in N
    <3> DEFINE Q == Append(P, m)
    <3>1. Extended(P, m, Q)
      BY <2>4, AppendExtends, Zenon
    <3> HIDE DEF Q
    <3>2. Is(Q, m)
      BY <2>1, <2>4, <2>5, <3>1 DEF Is, Extended
    <3> QED BY <2>3, <2>5, <3>2 DEF Q, m
  <2>6. CASE m \notin N
    <3>1. Is(P, m)
      BY <2>4 DEF Is
    <3> QED BY <2>3, <2>6, <3>1 DEF m
  <2> QED BY <2>5, <2>6
<1> HIDE DEF M, Is
<1>3. Nat \subseteq M
  BY <1>1, <1>2, NatSetInduction
<1>4. Is(PlacesUpto(n, N, k), k)
  <2>1. k \in Nat /\ k <= n
    OBVIOUS
  <2> QED BY <1>3, <2>1 DEF M
<1> QED BY <1>4 DEF Is

\* The places up to one are the first of those up to a later one.
LEMMA PlacesGrow ==
  ASSUME NEW n \in Nat, NEW N, NEW k \in 0..n, NEW m \in k..n
  PROVE  Begins(PlacesUpto(n, N, k), PlacesUpto(n, N, m))
<1> DEFINE ids == [i \in 1..n |-> i]
           g == CHOOSE g : TakesUpto(ids, N, n, g)
<1>1. TakesUpto(ids, N, n, g)
  BY TakesExists
<1>2. \A l : PlacesUpto(n, N, l) = g[l]
  BY DEF PlacesUpto
<1> HIDE DEF g, ids
<1>3. Begins(g[k], g[m])
  BY <1>1, TakesGrow
<1> QED BY <1>2, <1>3

\* They are the same if none of the places between is taken.
LEMMA PlacesSkip ==
  ASSUME NEW n \in Nat, NEW N, NEW k \in 0..n, NEW m \in k..n, \A i \in (k + 1)..m : i \notin N
  PROVE  PlacesUpto(n, N, m) = PlacesUpto(n, N, k)
<1> DEFINE M == {l \in Nat : k <= l /\ l <= m => PlacesUpto(n, N, l) = PlacesUpto(n, N, k)}
<1>0. k \in Nat /\ m \in Nat /\ m <= n /\ k <= m
  OBVIOUS
<1>1. 0 \in M
  BY <1>0
<1>2. ASSUME NEW l \in Nat, l \in M PROVE l + 1 \in M
  <2> SUFFICES ASSUME k <= l + 1, l + 1 <= m
               PROVE  PlacesUpto(n, N, l + 1) = PlacesUpto(n, N, k)
    OBVIOUS
  <2>1. CASE k = l + 1
    BY <2>1
  <2>2. CASE k # l + 1
    <3>1. k <= l /\ l <= m /\ l < n /\ l + 1 \in (k + 1)..m
      BY <1>0, <2>2
    <3>2. PlacesUpto(n, N, l) = PlacesUpto(n, N, k)
      BY <1>2, <3>1
    <3>3. PlacesUpto(n, N, l + 1) =
            IF l + 1 \in N THEN Append(PlacesUpto(n, N, l), l + 1) ELSE PlacesUpto(n, N, l)
      BY <3>1, PlacesStep
    <3>4. l + 1 \notin N
      BY <3>1
    <3> QED BY <3>2, <3>3, <3>4
  <2> QED BY <2>1, <2>2
<1> HIDE DEF M
<1>3. Nat \subseteq M
  BY <1>1, <1>2, NatSetInduction
<1> QED BY <1>0, <1>3 DEF M

\* u are the calls, of those at the places P, that are at the places Q.
Chosen(calls, P, u, Q) ==
  /\ Sequence(u)
  /\ Len(u) = Len(Q)
  /\ \A m \in DOMAIN u : \E j \in DOMAIN calls : u[m] = calls[j] /\ Q[m] = P[j]

\* Where one sequence stands for some elements of another, in their order,
\* what is selected of the one stands for what is selected of the other.
LEMMA SelectedPlaces ==
  ASSUME NEW n \in Nat, NEW N, NEW k \in 0..n,
         NEW calls, Sequence(calls), Len(calls) = Len(PlacesUpto(n, N, k)),
         NEW I, \A i \in 1..n : i \in I => i \in N, NEW J,
         \A j \in DOMAIN calls : j \in J <=> PlacesUpto(n, N, k)[j] \in I
  PROVE  Chosen(calls, PlacesUpto(n, N, k), A!Selected(calls, J), PlacesUpto(n, I, k))
<1> DEFINE P(m) == PlacesUpto(n, N, m)
           Q(m) == PlacesUpto(n, I, m)
           full == P(k)
           l == Len(calls)
<1>1. l \in Nat /\ DOMAIN calls = 1..l /\ k \in Nat /\ k <= n
  BY SequenceIs
<1>3. PICK h : TakesUpto(calls, J, l, h) /\ A!Selected(calls, J) = h[l]
  BY SelectedIs
<1>5. \A i \in 0..l : h[i] = IF i = 0 THEN << >>
                             ELSE IF i \in J THEN Append(h[i - 1], calls[i]) ELSE h[i - 1]
  BY <1>3 DEF TakesUpto
<1>8. ASSUME NEW m \in 0..k
      PROVE  Sequence(P(m)) /\ Begins(P(m), full) /\ Sequence(Q(m))
  <2>1. m \in 0..n /\ k \in m..n
    BY <1>1
  <2>2. LET p == PlacesUpto(n, N, m) IN Sequence(p) /\ \A j \in DOMAIN p : p[j] \in 1..m /\ p[j] \in N
    BY <2>1, PlacesAre
  <2>3. LET p == PlacesUpto(n, I, m) IN Sequence(p) /\ \A j \in DOMAIN p : p[j] \in 1..m /\ p[j] \in I
    BY <2>1, PlacesAre
  <2>4. Begins(PlacesUpto(n, N, m), PlacesUpto(n, N, k))
    BY <2>1, PlacesGrow
  <2> QED BY <2>2, <2>3, <2>4
<1>9. P(0) = << >>
      /\ \A m \in Nat : m < n => P(m + 1) = IF m + 1 \in N THEN Append(P(m), m + 1) ELSE P(m)
  BY PlacesStep
<1>4. Q(0) = << >>
      /\ \A m \in Nat : m < n => Q(m + 1) = IF m + 1 \in I THEN Append(Q(m), m + 1) ELSE Q(m)
  BY PlacesStep
<1>10. \A j \in DOMAIN calls : j \in J <=> full[j] \in I
  OBVIOUS
<1>11. Len(full) = l
  OBVIOUS
<1> HIDE DEF P, Q, full
<1> DEFINE C(m) == Chosen(calls, full, h[Len(P(m))], Q(m))
           M == {m \in Nat : m <= k => C(m)}
<1>12. 0 \in M
  <2>1. 0 \in 0..l /\ Len(P(0)) = 0
    BY <1>1, <1>9, EmptySequence
  <2>2. h[0] = << >>
    BY <1>5, <2>1
  <2>3. C(0)
    BY <1>4, <2>1, <2>2, EmptySequence DEF Chosen
  <2> QED BY <2>3
<1>13. ASSUME NEW o \in Nat, o \in M PROVE o + 1 \in M
  <2> HIDE DEF C
  <2> SUFFICES ASSUME o + 1 <= k PROVE C(o + 1)
    OBVIOUS
  <2> DEFINE m == o + 1
             q == Len(P(o))
             u == h[q]
             v == Q(o)
  <2>1. /\ m \in 0..k /\ m \in 1..n /\ o <= k /\ o < n /\ o \in 0..k
    BY <1>1
  <2>2. Chosen(calls, full, u, v)
    BY <1>13, <2>1 DEF C
  <2>3. P(m) = IF m \in N THEN Append(P(o), m) ELSE P(o)
    BY <1>9, <2>1
  <2>4. Sequence(P(o)) /\ Sequence(P(m)) /\ Begins(P(m), full) /\ q \in Nat /\ Sequence(v)
    BY <1>8, <2>1, SequenceIs
  <2>6. Q(m) = IF m \in I THEN Append(v, m) ELSE v
    BY <1>4, <2>1
  <2>5. m \in I => m \in N
    BY <2>1
  <2> HIDE DEF M, m, q, v
  <2>7. CASE m \notin N
    <3>1. Q(m) = v /\ P(m) = P(o)
      BY <2>3, <2>5, <2>6, <2>7
    <3>2. Chosen(calls, full, h[Len(P(m))], Q(m))
      BY <2>2, <3>1, Zenon DEF q
    <3> QED BY <3>2 DEF C, m
  <2>8. CASE m \in N
    <3> DEFINE r == q + 1
    <3>1. Len(P(m)) = r /\ P(m)[r] = m
      BY <2>3, <2>4, <2>8, SequenceAppend DEF q
    <3>2. /\ r \in 0..l /\ r \in 1..l /\ r \in DOMAIN calls /\ r # 0 /\ r - 1 = q
          /\ full[r] = m
      BY <1>1, <1>11, <2>4, <3>1 DEF Begins
    <3> HIDE DEF r
    <3>3. h[r] = IF r \in J THEN Append(h[r - 1], calls[r]) ELSE h[r - 1]
      BY <1>5, <3>2
    <3>4. h[r] = IF m \in I THEN Append(u, calls[r]) ELSE u
      BY <1>10, <3>2, <3>3
    <3> HIDE DEF u
    <3>5. CASE m \notin I
      <4>1. Chosen(calls, full, h[r], Q(m))
        BY <2>2, <2>6, <3>4, <3>5
      <4> QED BY <3>1, <4>1, Zenon DEF C, m
    <3>6. CASE m \in I
      <4> DEFINE a == Append(u, calls[r])
                 b == Append(v, m)
      <4>1. Sequence(u) /\ Sequence(v) /\ Len(u) = Len(v)
        BY <2>2, <2>4 DEF Chosen
      <4>2. Extended(u, calls[r], a) /\ Extended(v, m, b)
        BY <4>1, AppendExtends, Zenon
      <4>3. Len(a) = Len(u) + 1 /\ Len(b) = Len(v) + 1
        BY <4>1, SequenceAppend
      <4> HIDE DEF a, b
      <4>4. DOMAIN v = DOMAIN u
        BY <4>1, SequenceIs
      <4>5. ASSUME NEW z \in DOMAIN a
            PROVE  \E j \in DOMAIN calls : a[z] = calls[j] /\ b[z] = full[j]
        <5>1. CASE z \in DOMAIN u
          <6>1. a[z] = u[z] /\ b[z] = v[z]
            BY <4>2, <4>4, <5>1 DEF Extended
          <6>2. \E j \in DOMAIN calls : u[z] = calls[j] /\ v[z] = full[j]
            BY <2>2, <5>1 DEF Chosen
          <6> QED BY <6>1, <6>2
        <5>2. CASE z = Len(u) + 1
          <6>1. a[z] = calls[r] /\ b[z] = m
            BY <4>1, <4>2, <5>2 DEF Extended
          <6> QED BY <3>2, <6>1
        <5> QED BY <4>2, <5>1, <5>2 DEF Extended
      <4>6. Chosen(calls, full, a, b)
        BY <4>1, <4>2, <4>3, <4>5 DEF Chosen, Extended
      <4>7. h[r] = a /\ Q(m) = b
        BY <2>6, <3>4, <3>6 DEF a, b
      <4>8. Chosen(calls, full, h[r], Q(m))
        BY <4>6, <4>7
      <4> QED BY <3>1, <4>8, Zenon DEF C, m
    <3> QED BY <3>5, <3>6
  <2> QED BY <2>7, <2>8
<1> HIDE DEF M, C
<1>14. Nat \subseteq M
  BY <1>12, <1>13, NatSetInduction
<1>15. C(k)
  BY <1>1, <1>14 DEF M
<1>16. Chosen(calls, full, h[l], Q(k))
  <2>1. Len(P(k)) = l
    BY <1>11 DEF full
  <2> QED BY <1>15, <2>1, Zenon DEF C
<1> QED BY <1>3, <1>16 DEF full, P, Q

\* What is selected is what is at the places.
AtPlaces(s, u, Q) == Sequence(u) /\ Len(u) = Len(Q) /\ \A m \in DOMAIN u : u[m] = s[Q[m]]

LEMMA SelectedAtPlaces ==
  ASSUME NEW s, Sequence(s), NEW I
  PROVE  AtPlaces(s, A!Selected(s, I), PlacesUpto(Len(s), I, Len(s)))
<1> DEFINE n == Len(s)
           ids == [i \in 1..n |-> i]
           N == 1..n \cup I
<1>1. n \in Nat /\ DOMAIN s = 1..n /\ n \in 0..n
  BY SequenceIs
<1>2. Sequence(ids) /\ Len(ids) = n /\ DOMAIN ids = 1..n /\ \A i \in 1..n : ids[i] = i
  <2>1. ids \in Seq(1..n) /\ Len(ids) = n
    BY <1>1
  <2> QED BY <2>1 DEF Sequence
<1>3. PlacesUpto(n, N, n) = A!Selected(ids, N)
  BY <1>2 DEF PlacesUpto, A!Selected, TakesUpto
<1> HIDE DEF ids
<1>4. A!Selected(ids, N) = ids
  BY <1>2, SelectedAll
<1>5. \A i \in 1..n : i \in I => i \in N
  OBVIOUS
<1> HIDE DEF N
<1>6. \A j \in DOMAIN s : j \in I <=> PlacesUpto(n, N, n)[j] \in I
  BY <1>1, <1>2, <1>3, <1>4
<1>7. Len(s) = Len(PlacesUpto(n, N, n))
  BY <1>2, <1>3, <1>4
<1>8. Chosen(s, PlacesUpto(n, N, n), A!Selected(s, I), PlacesUpto(n, I, n))
  BY <1>1, <1>5, <1>6, <1>7, SelectedPlaces
<1> HIDE DEF n
<1>9. Chosen(s, ids, A!Selected(s, I), PlacesUpto(n, I, n))
  BY <1>3, <1>4, <1>8
<1>10. AtPlaces(s, A!Selected(s, I), PlacesUpto(n, I, n))
  BY <1>1, <1>2, <1>9 DEF Chosen, AtPlaces
<1> QED BY <1>10 DEF n

----------------------------------------------------------------------------
(* Groups of events, one after the other; none of them is empty.           *)
Groups(G) == Sequence(G) /\ \A i \in DOMAIN G : Sequence(G[i]) /\ Len(G[i]) > 0

LEMMA SequenceOfItsOwn == ASSUME NEW s, Sequence(s) PROVE s \in Seq({s[i] : i \in DOMAIN s})
<1>1. PICK S : s \in Seq(S)
  BY DEF Sequence
<1>2. Len(s) \in Nat /\ DOMAIN s = 1..Len(s) /\ s = [i \in 1..Len(s) |-> s[i]]
  BY <1>1
<1> QED BY <1>2

LEMMA GroupsTyped == ASSUME NEW G, Groups(G) PROVE \E T : G \in Seq(Seq(T))
<1> DEFINE T == UNION {{G[i][j] : j \in DOMAIN G[i]} : i \in DOMAIN G}
<1>1. ASSUME NEW i \in DOMAIN G PROVE G[i] \in Seq(T)
  <2>1. Sequence(G[i])
    BY DEF Groups
  <2>2. G[i] \in Seq({G[i][j] : j \in DOMAIN G[i]})
    BY <2>1, SequenceOfItsOwn
  <2>3. {G[i][j] : j \in DOMAIN G[i]} \subseteq T
    OBVIOUS
  <2> HIDE DEF T
  <2> QED BY <2>2, <2>3, SeqMonotonic
<1> HIDE DEF T
<1>2. Len(G) \in Nat /\ DOMAIN G = 1..Len(G) /\ G = [i \in 1..Len(G) |-> G[i]]
  <2>1. PICK S : G \in Seq(S)
    BY DEF Groups, Sequence
  <2> QED BY <2>1
<1>3. G \in Seq(Seq(T))
  BY <1>1, <1>2
<1> QED BY <1>3

\* After m events of all groups, k groups are through and j of the next.
FlatAt(G, m, k, j) ==
  /\ k \in 0..Len(G) /\ j \in Nat
  /\ m = Len(Upto(G, k)) + j
  /\ k = Len(G) => j = 0
  /\ k < Len(G) => j < Len(G[k + 1])

LEMMA FlatFirst == ASSUME NEW G, Groups(G) PROVE FlatAt(G, 0, 0, 0)
<1>1. PICK T : G \in Seq(Seq(T))
  BY GroupsTyped
<1>2. Len(G) \in Nat /\ DOMAIN G = 1..Len(G)
  BY <1>1
<1>3. Upto(G, 0) = << >>
  BY <1>1, UptoStep
<1>4. 0 < Len(G) => 1 \in DOMAIN G
  BY <1>2
<1> QED BY <1>2, <1>3, <1>4, EmptySequence DEF FlatAt, Groups

\* What the next element is, and where it leads.
FlatStep(G, m, k, j) ==
  /\ k < Len(G) /\ k + 1 \in DOMAIN G
  /\ j + 1 \in DOMAIN G[k + 1]
  /\ FlattenSeq(G)[m + 1] = G[k + 1][j + 1]
  /\ IF j + 1 < Len(G[k + 1]) THEN FlatAt(G, m + 1, k, j + 1)
     ELSE j + 1 = Len(G[k + 1]) /\ FlatAt(G, m + 1, k + 1, 0)

LEMMA FlatNext ==
  ASSUME NEW G, Groups(G), NEW m \in Nat, m < Len(FlattenSeq(G)), NEW k, NEW j, FlatAt(G, m, k, j)
  PROVE  FlatStep(G, m, k, j)
<1>1. PICK T : G \in Seq(Seq(T))
  BY GroupsTyped
<1> DEFINE c == Len(Upto(G, k))
           f == G[k + 1]
           w == FlattenSeq(G)
<1>2. Len(G) \in Nat /\ DOMAIN G = 1..Len(G) /\ k \in Nat /\ k <= Len(G) /\ j \in Nat
  BY <1>1 DEF FlatAt
<1>0. k < Len(G) \/ k = Len(G)
  <2>1. \A a, b \in Nat : a <= b => a < b \/ a = b
    OBVIOUS
  <2> QED BY <1>2, <2>1
<1>3. k < Len(G)
  <2> SUFFICES ASSUME k = Len(G) PROVE FALSE
    BY <1>0
  <2>1. j = 0 /\ m = Len(Upto(G, Len(G))) + j
    BY DEF FlatAt
  <2>2. Upto(G, Len(G)) = FlattenSeq(G)
    BY <1>1, UptoStep
  <2>3. FlattenSeq(G) \in Seq(T)
    BY <1>1, <1>2, <2>2, UptoTokens
  <2> QED BY <2>1, <2>2, <2>3
<1>4. /\ w \in Seq(T) /\ c \in Nat /\ f \in Seq(T)
      /\ Len(Upto(G, k + 1)) = c + Len(f)
      /\ \A i \in 1..Len(f) : w[c + i] = f[i]
  <2>1. LET w_1 == FlattenSeq(G)
            c_1 == Len(Upto(G, k))
            f_1 == G[k + 1]
        IN  /\ w_1 \in Seq(T) /\ c_1 \in Nat /\ f_1 \in Seq(T)
            /\ Len(Upto(G, k + 1)) = c_1 + Len(f_1)
            /\ c_1 + Len(f_1) <= Len(w_1)
            /\ \A i \in 1..Len(f_1) : w_1[c_1 + i] = f_1[i]
    BY <1>1, <1>2, <1>3, FrameIsThere
  <2> QED BY <2>1
<1>5. m = c + j /\ j < Len(f)
  BY <1>3 DEF FlatAt
<1>6. k + 1 \in DOMAIN G /\ k + 1 \in 0..Len(G) /\ (k + 1 < Len(G) => k + 2 \in DOMAIN G)
  BY <1>2, <1>3
<1>7. k + 1 < Len(G) => 0 < Len(G[(k + 1) + 1])
  <2>1. (k + 1) + 1 = k + 2
    BY <1>2
  <2> QED BY <1>6, <2>1 DEF Groups
<1> HIDE DEF f, w
<1>8. /\ Len(f) \in Nat /\ DOMAIN f = 1..Len(f) /\ j + 1 \in 1..Len(f)
      /\ m + 1 = c + (j + 1)
  BY <1>2, <1>4, <1>5
<1>9. w[m + 1] = f[j + 1]
  BY <1>4, <1>8
<1>10. CASE j + 1 < Len(f)
  <2>1. k \in 0..Len(G) /\ j + 1 \in Nat /\ k # Len(G)
    <3>1. \A a, b, i \in Nat : a < b => a \in 0..b /\ i + 1 \in Nat /\ a # b
      OBVIOUS
    <3> QED BY <1>2, <1>3, <3>1
  <2>2. FlatAt(G, m + 1, k, j + 1)
    BY <1>8, <1>10, <2>1, Zenon DEF FlatAt, f
  <2> QED BY <1>3, <1>6, <1>8, <1>9, <1>10, <2>2 DEF FlatStep, f, w
<1>11. CASE ~ (j + 1 < Len(f))
  <2>1. j + 1 = Len(f)
    <3>1. \A a, b \in Nat : a \in 1..b /\ ~ (a < b) => a = b
      OBVIOUS
    <3>2. j + 1 \in Nat
      BY <1>2
    <3> QED BY <1>8, <1>11, <3>1, <3>2
  <2>2. m + 1 = Len(Upto(G, k + 1)) + 0
    BY <1>2, <1>4, <1>8, <2>1
  <2>3. FlatAt(G, m + 1, k + 1, 0)
    BY <1>2, <1>6, <1>7, <2>2 DEF FlatAt
  <2> QED BY <1>3, <1>6, <1>8, <1>9, <1>11, <2>1, <2>3 DEF FlatStep, f, w
<1> QED BY <1>10, <1>11

LEMMA FlatLast ==
  ASSUME NEW G, Groups(G), NEW k, NEW j, FlatAt(G, Len(FlattenSeq(G)), k, j)
  PROVE  k = Len(G) /\ j = 0
<1>1. PICK T : G \in Seq(Seq(T))
  BY GroupsTyped
<1>2. Len(G) \in Nat /\ k \in Nat /\ k <= Len(G) /\ j \in Nat
  BY <1>1 DEF FlatAt
<1> SUFFICES ASSUME k < Len(G) PROVE FALSE
  BY <1>2 DEF FlatAt
<1>4. /\ FlattenSeq(G) \in Seq(T) /\ Len(Upto(G, k)) \in Nat /\ G[k + 1] \in Seq(T)
      /\ Len(Upto(G, k)) + Len(G[k + 1]) <= Len(FlattenSeq(G))
  <2>1. LET w_1 == FlattenSeq(G)
            c_1 == Len(Upto(G, k))
            f_1 == G[k + 1]
        IN  /\ w_1 \in Seq(T) /\ c_1 \in Nat /\ f_1 \in Seq(T)
            /\ Len(Upto(G, k + 1)) = c_1 + Len(f_1)
            /\ c_1 + Len(f_1) <= Len(w_1)
            /\ \A i \in 1..Len(f_1) : w_1[c_1 + i] = f_1[i]
    BY <1>1, <1>2, FrameIsThere
  <2> QED BY <2>1
<1>5. Len(FlattenSeq(G)) = Len(Upto(G, k)) + j /\ j < Len(G[k + 1])
  BY DEF FlatAt
<1>6. Len(FlattenSeq(G)) \in Nat /\ Len(G[k + 1]) \in Nat
  BY <1>4
<1> QED BY <1>2, <1>4, <1>5, <1>6

\* All groups together are a sequence.
LEMMA FlatSequence == ASSUME NEW G, Groups(G) PROVE Sequence(FlattenSeq(G))
<1>1. PICK T : G \in Seq(Seq(T))
  BY GroupsTyped
<1>2. Len(G) \in 0..Len(G) /\ Upto(G, Len(G)) = FlattenSeq(G)
  BY <1>1, UptoStep
<1>3. FlattenSeq(G) \in Seq(T)
  BY <1>1, <1>2, UptoTokens
<1> QED BY <1>3 DEF Sequence

----------------------------------------------------------------------------
(* What either parser keeps of a response: nothing that it has reported is *)
(* taken back.                                                             *)
More(r, s) ==
  /\ A!Ids(r.tools) \subseteq A!Ids(s.tools) \cup {""}
  /\ A!Ids(r.web) \subseteq A!Ids(s.web) \cup {""}
  /\ r.id \in {"", s.id}
  /\ r.error \in {"", s.error}

ResultFields == {"id", "usage", "tools", "web", "error"}

\* What a list of calls made from a sequence of them is identified by.
LEMMA ListedIds ==
  ASSUME NEW s, Sequence(s), NEW t, DOMAIN t = DOMAIN s, \A i \in DOMAIN s : t[i].id = s[i].id
  PROVE  A!Ids(t) = {s[i].id : i \in DOMAIN s}
  BY DEF A!Ids

----------------------------------------------------------------------------
(* Anthropic's parser.  A call with a name is that of a block of the body. *)
AnOf(b, c, i) ==
  /\ c.index = i - 1
  /\ c.id = b.content[i].id
  /\ c.name = b.content[i].name
  /\ c.web = A!IsWeb(b.content[i])

AnKnows(b, c) ==
  /\ DOMAIN c = {"index", "id", "name", "input", "partial", "web"}
  /\ \/ c.name = "" /\ c.web = FALSE
     \/ \E i \in DOMAIN b.content : AnOf(b, c, i)

AnCalls(b, calls) == Sequence(calls) /\ \A j \in DOMAIN calls : AnKnows(b, calls[j])

AnTools(calls) == {calls[j].id : j \in A!Named(calls)}

AnWeb(calls) == {calls[j].id : j \in A!NamedWeb(calls)}

AnShape(p) ==
  /\ DOMAIN p = {"result", "usage", "calls", "terminal", "malformed"}
  /\ DOMAIN p.result = ResultFields
  /\ p.terminal \in BOOLEAN
  /\ p.usage \in [A!UsageFields -> Int]

AnInv(b, p) ==
  /\ AnShape(p)
  /\ AnCalls(b, p.calls)
  /\ A!Ids(p.result.tools) \subseteq AnTools(p.calls) \cup {""}
  /\ A!Ids(p.result.web) \subseteq AnWeb(p.calls) \cup {""}
  /\ p.result.id \in {"", b.id}
  /\ p.result.error \in {"", b.error}

\* A step of the parser that loses nothing.
AnStep(b, p, q) ==
  /\ AnInv(b, q)
  /\ More(p.result, q.result)
  /\ p.terminal => q.terminal

LEMMA AnTrans ==
  ASSUME NEW b, NEW p, NEW q, NEW r, AnStep(b, p, q), AnStep(b, q, r)
  PROVE  AnStep(b, p, r)
  BY DEF AnStep, More

LEMMA AnSyncTools ==
  ASSUME NEW b, NEW p, AnInv(b, p)
  PROVE  AnStep(b, p, A!SyncToolCalls(p))
<1> DEFINE named == A!Selected(p.calls, A!Named(p.calls))
           tools == [i \in DOMAIN named |-> A!Call(named[i].id, named[i].name, A!Input(named[i]))]
           q == A!SyncToolCalls(p)
<1>1. Sequence(p.calls) /\ AnShape(p)
  BY DEF AnInv, AnCalls
<1>2. /\ Sequence(named)
      /\ \A j \in DOMAIN named : \E i \in DOMAIN p.calls : i \in A!Named(p.calls) /\ named[j] = p.calls[i]
      /\ \A i \in DOMAIN p.calls : i \in A!Named(p.calls) => \E j \in DOMAIN named : named[j] = p.calls[i]
  BY <1>1, SelectedHolds
<1>3. q = [p EXCEPT !.result.tools = tools]
  BY DEF A!SyncToolCalls
<1> HIDE DEF named
<1>4. DOMAIN tools = DOMAIN named /\ \A i \in DOMAIN named : tools[i].id = named[i].id
  BY DEF A!Call
<1> HIDE DEF tools, q
<1>5. A!Ids(tools) = AnTools(p.calls)
  <2>1. A!Ids(tools) = {named[i].id : i \in DOMAIN named}
    BY <1>2, <1>4, ListedIds
  <2>2. A!Named(p.calls) \subseteq DOMAIN p.calls
    BY DEF A!Named
  <2> QED BY <1>2, <2>1, <2>2 DEF AnTools
<1>6. /\ AnShape(q) /\ q.calls = p.calls /\ q.terminal = p.terminal
      /\ q.result.id = p.result.id /\ q.result.error = p.result.error
      /\ q.result.web = p.result.web /\ q.result.tools = tools
  BY <1>1, <1>3 DEF AnShape, ResultFields
<1>7. AnInv(b, q)
  BY <1>5, <1>6 DEF AnInv
<1>8. More(p.result, q.result)
  BY <1>5, <1>6 DEF AnInv, More
<1> QED BY <1>6, <1>7, <1>8 DEF AnStep, q

\* The searches that were counted but not seen have no id.
LEMMA SyntheticIds ==
  ASSUME NEW t, Sequence(t), NEW n \in Int
  PROVE  A!Ids(t) \subseteq A!Ids(A!AddSynthetic(t, n))
         /\ A!Ids(A!AddSynthetic(t, n)) \subseteq A!Ids(t) \cup {""}
<1> DEFINE u == [i \in 1..(n - Len(t)) |-> A!Synthetic]
           c == A!AddSynthetic(t, n)
<1>1. Sequence(u)
  <2>1. Len(t) \in Nat
    BY SequenceIs
  <2>2. CASE n >= Len(t)
    <3>1. u \in Seq({A!Synthetic})
      BY <2>1, <2>2
    <3> QED BY <3>1 DEF Sequence
  <2>3. CASE n < Len(t)
    <3>1. u \in Seq({A!Synthetic})
      <4>1. 1..(n - Len(t)) = 1..0
        BY <2>1, <2>3
      <4> QED BY <4>1
    <3> QED BY <3>1 DEF Sequence
  <2> QED BY <2>1, <2>2, <2>3
<1>2. \A i \in DOMAIN u : u[i].id = ""
  BY DEF A!Synthetic, A!Call
<1>3. c = t \o u
  BY DEF A!AddSynthetic
<1> HIDE DEF u, c
<1>4. Joined(t, u, c)
  BY <1>1, <1>3, SequenceConcat
<1>5. A!Ids(t) \subseteq A!Ids(c) /\ A!Ids(c) \subseteq A!Ids(t) \cup {""}
  <2>1. ASSUME NEW j \in DOMAIN t PROVE t[j].id \in A!Ids(c)
    BY <1>4 DEF A!Ids, Joined
  <2>2. ASSUME NEW i \in DOMAIN c PROVE c[i].id \in A!Ids(t) \cup {""}
    <3>1. CASE \E j \in DOMAIN t : c[i] = t[j]
      BY <3>1 DEF A!Ids
    <3>2. CASE \E j \in DOMAIN u : c[i] = u[j]
      BY <1>2, <3>2
    <3> QED BY <1>4, <3>1, <3>2 DEF Joined
  <2> QED BY <2>1, <2>2 DEF A!Ids
<1> QED BY <1>5 DEF c

LEMMA AnSyncWeb ==
  ASSUME NEW b, NEW p, AnInv(b, p)
  PROVE  AnStep(b, p, A!SyncWebRequests(p))
<1> DEFINE I == A!NamedWeb(p.calls)
           picked == A!Selected(p.calls, I)
           web == [i \in DOMAIN picked |-> A!Call(picked[i].id, picked[i].name, A!Input(picked[i]))]
           all == A!AddSynthetic(web, p.usage.web)
           q == A!SyncWebRequests(p)
<1>1. Sequence(p.calls) /\ AnShape(p)
  BY DEF AnInv, AnCalls
<1>2. /\ Sequence(picked)
      /\ \A j \in DOMAIN picked : \E i \in DOMAIN p.calls : i \in I /\ picked[j] = p.calls[i]
      /\ \A i \in DOMAIN p.calls : i \in I => \E j \in DOMAIN picked : picked[j] = p.calls[i]
  <2> HIDE DEF I
  <2> QED BY <1>1, SelectedHolds
<1>3. q = [p EXCEPT !.result.web = all]
  BY DEF A!SyncWebRequests
<1> HIDE DEF picked
<1>4. /\ DOMAIN web = DOMAIN picked /\ \A i \in DOMAIN picked : web[i].id = picked[i].id
      /\ Sequence(web)
  <2>1. DOMAIN web = DOMAIN picked /\ \A i \in DOMAIN picked : web[i].id = picked[i].id
    BY DEF A!Call
  <2>2. Len(picked) \in Nat /\ DOMAIN picked = 1..Len(picked)
    BY <1>2, SequenceIs
  <2>3. web \in Seq({web[i] : i \in DOMAIN picked})
    BY <2>2
  <2> HIDE DEF web
  <2> QED BY <2>1, <2>3 DEF Sequence
<1> HIDE DEF web
<1>5. A!Ids(web) = AnWeb(p.calls)
  <2>1. A!Ids(web) = {picked[i].id : i \in DOMAIN picked}
    BY <1>2, <1>4, ListedIds
  <2>2. I \subseteq DOMAIN p.calls
    BY DEF A!NamedWeb, A!Named
  <2> QED BY <1>2, <2>1, <2>2 DEF AnWeb
<1>6. AnWeb(p.calls) \subseteq A!Ids(all) /\ A!Ids(all) \subseteq AnWeb(p.calls) \cup {""}
  <2>1. p.usage.web \in Int
    BY <1>1 DEF AnShape, A!UsageFields
  <2> QED BY <1>4, <1>5, <2>1, SyntheticIds
<1> HIDE DEF all, q
<1>7. /\ AnShape(q) /\ q.calls = p.calls /\ q.terminal = p.terminal
      /\ q.result.id = p.result.id /\ q.result.error = p.result.error
      /\ q.result.web = all /\ q.result.tools = p.result.tools
  BY <1>1, <1>3 DEF AnShape, ResultFields
<1>8. AnInv(b, q)
  BY <1>6, <1>7 DEF AnInv
<1>9. More(p.result, q.result)
  BY <1>6, <1>7 DEF AnInv, More
<1> QED BY <1>7, <1>8, <1>9 DEF AnStep, q

\* Calls that are added or named lose nothing.
LEMMA AnRenew ==
  ASSUME NEW b, NEW p, AnInv(b, p), NEW calls, AnCalls(b, calls),
         AnTools(p.calls) \subseteq AnTools(calls), AnWeb(p.calls) \subseteq AnWeb(calls)
  PROVE  AnStep(b, p, [p EXCEPT !.calls = calls])
<1> DEFINE q == [p EXCEPT !.calls = calls]
<1>1. /\ AnShape(q) /\ q.calls = calls /\ q.terminal = p.terminal /\ q.result = p.result
  BY DEF AnInv, AnShape
<1> HIDE DEF q
<1>2. AnInv(b, q)
  BY <1>1 DEF AnInv
<1>3. More(p.result, q.result)
  BY <1>1 DEF AnInv, More
<1> QED BY <1>1, <1>2, <1>3 DEF AnStep, q

\* The call of a block, begun if there was none.
LEMMA AnSlot ==
  ASSUME NEW b, NEW calls, AnCalls(b, calls), NEW index
  PROVE  LET s == A!Slot(calls, index)
             i == A!At(s, index)
         IN  /\ AnCalls(b, s)
             /\ i \in DOMAIN s /\ s[i].index = index
             /\ AnTools(calls) \subseteq AnTools(s) /\ AnWeb(calls) \subseteq AnWeb(s)
<1> DEFINE new == [index |-> index, id |-> "", name |-> "", input |-> << >>,
                   partial |-> << >>, web |-> FALSE]
           s == A!Slot(calls, index)
           i == A!At(s, index)
<1>1. CASE \E j \in DOMAIN calls : calls[j].index = index
  <2>1. s = calls
    BY <1>1 DEF A!Slot
  <2>2. i \in DOMAIN s /\ s[i].index = index
    BY <1>1, <2>1 DEF A!At
  <2> QED BY <2>1, <2>2
<1>2. CASE ~ \E j \in DOMAIN calls : calls[j].index = index
  <2>1. s = Append(calls, new)
    BY <1>2 DEF A!Slot
  <2>2. AnKnows(b, new) /\ new.name = "" /\ new.index = index
    BY DEF AnKnows
  <2>3. Len(calls) \in Nat /\ DOMAIN calls = 1..Len(calls) /\ Sequence(calls)
    BY SequenceIs DEF AnCalls
  <2> HIDE DEF new
  <2>4. /\ Sequence(s) /\ DOMAIN s = DOMAIN calls \cup {Len(calls) + 1}
        /\ s[Len(calls) + 1] = new /\ \A j \in DOMAIN calls : s[j] = calls[j]
    <3>1. /\ Sequence(Append(calls, new)) /\ Len(Append(calls, new)) = Len(calls) + 1
          /\ Append(calls, new)[Len(calls) + 1] = new
          /\ \A j \in DOMAIN calls : Append(calls, new)[j] = calls[j]
      BY <2>3, SequenceAppend
    <3>2. DOMAIN Append(calls, new) = 1..Len(calls) + 1
      BY <3>1, SequenceIs
    <3>3. 1..Len(calls) + 1 = 1..Len(calls) \cup {Len(calls) + 1}
      BY <2>3
    <3> QED BY <2>1, <2>3, <3>1, <3>2, <3>3
  <2> HIDE DEF s
  <2>5. AnCalls(b, s)
    BY <2>2, <2>4 DEF AnCalls
  <2>6. i \in DOMAIN s /\ s[i].index = index
    <3>1. \E j \in DOMAIN s : s[j].index = index
      BY <2>2, <2>4
    <3> QED BY <3>1 DEF A!At
  <2>7. AnTools(calls) \subseteq AnTools(s) /\ AnWeb(calls) \subseteq AnWeb(s)
    BY <2>4 DEF AnTools, AnWeb, A!Named, A!NamedWeb
  <2> QED BY <2>5, <2>6, <2>7 DEF s
<1> QED BY <1>1, <1>2

\* A call changed in place keeps its identity, or has had none.
LEMMA AnChange ==
  ASSUME NEW b, NEW calls, AnCalls(b, calls), NEW i \in DOMAIN calls, NEW c, AnKnows(b, c),
         calls[i].name # "" => c.id = calls[i].id /\ c.name = calls[i].name /\ c.web = calls[i].web
  PROVE  LET s == [calls EXCEPT ![i] = c]
         IN  /\ AnCalls(b, s)
             /\ AnTools(calls) \subseteq AnTools(s) /\ AnWeb(calls) \subseteq AnWeb(s)
<1> DEFINE s == [calls EXCEPT ![i] = c]
<1>1. /\ Sequence(s) /\ DOMAIN s = DOMAIN calls /\ s[i] = c
      /\ \A j \in DOMAIN calls : j # i => s[j] = calls[j]
  BY SequenceExcept DEF AnCalls
<1> HIDE DEF s
<1>2. AnCalls(b, s)
  BY <1>1 DEF AnCalls
<1>3. ASSUME NEW j \in A!Named(calls)
      PROVE  /\ j \in A!Named(s) /\ s[j].id = calls[j].id /\ s[j].web = calls[j].web
  BY <1>1 DEF A!Named
<1>4. AnTools(calls) \subseteq AnTools(s) /\ AnWeb(calls) \subseteq AnWeb(s)
  <2>1. AnTools(calls) \subseteq AnTools(s)
    BY <1>3 DEF AnTools
  <2>2. ASSUME NEW j \in A!NamedWeb(calls)
        PROVE  j \in A!NamedWeb(s) /\ s[j].id = calls[j].id
    BY <1>3 DEF A!NamedWeb
  <2>3. AnWeb(calls) \subseteq AnWeb(s)
    BY <2>2 DEF AnWeb
  <2> QED BY <2>1, <2>3
<1> QED BY <1>2, <1>4 DEF s

----------------------------------------------------------------------------
(* The events of a message.                                                *)
LEMMA AnStartBlock ==
  ASSUME NEW b, NEW p, AnInv(b, p), A!WellNamed(b), NEW k \in DOMAIN b.content,
         NEW index, index = k - 1, NEW block, block.type = b.content[k].type,
         block.id = b.content[k].id, block.name = b.content[k].name
  PROVE  AnStep(b, p, A!StartBlock(p, index, block))
<1> DEFINE calls == A!Slot(p.calls, index)
           i     == A!At(calls, index)
           old   == calls[i]
           begun == [old EXCEPT !.id = block.id, !.name = block.name,
                                !.web = old.web \/ A!IsWeb(block),
                                !.input = A!First(block.input, old.input, << >>)]
           next  == [calls EXCEPT ![i] = begun]
           q     == [p EXCEPT !.calls = next]
<1>0. AnCalls(b, p.calls)
  BY DEF AnInv
<1>1. /\ AnCalls(b, calls) /\ i \in DOMAIN calls /\ old.index = index
      /\ AnTools(p.calls) \subseteq AnTools(calls) /\ AnWeb(p.calls) \subseteq AnWeb(calls)
  <2>1. LET s == A!Slot(p.calls, index)
            j == A!At(s, index)
        IN  /\ AnCalls(b, s)
            /\ j \in DOMAIN s /\ s[j].index = index
            /\ AnTools(p.calls) \subseteq AnTools(s) /\ AnWeb(p.calls) \subseteq AnWeb(s)
    BY <1>0, AnSlot
  <2> QED BY <2>1
<1>2. A!StartBlock(p, index, block) =
        IF A!IsTool(block) THEN A!SyncToolCalls(q)
        ELSE IF A!IsWeb(block) THEN A!SyncWebRequests(q) ELSE p
  BY DEF A!StartBlock
<1>3. AnKnows(b, old)
  BY <1>1 DEF AnCalls
<1> HIDE DEF calls, i, old
<1>4. A!IsWeb(block) = A!IsWeb(b.content[k])
  BY DEF A!IsWeb
<1>5. (old.name = "" /\ old.web = FALSE) \/ AnOf(b, old, k)
  <2>1. ASSUME NEW j \in DOMAIN b.content, AnOf(b, old, j) PROVE AnOf(b, old, k)
    <3>1. j - 1 = k - 1 /\ j \in Nat /\ k \in Nat
      BY <1>1, <2>1 DEF AnOf, A!WellNamed
    <3> QED BY <2>1, <3>1
  <2> QED BY <1>3, <2>1 DEF AnKnows
<1>7. A!IsWeb(block) \in BOOLEAN
  BY DEF A!IsWeb, A!IsWebToolBlock
<1>8. (old.web \/ A!IsWeb(block)) = A!IsWeb(b.content[k])
  <2> DEFINE w == A!IsWeb(block)
  <2>1. (old.web = FALSE \/ old.web = w) /\ w = A!IsWeb(b.content[k]) /\ w \in BOOLEAN
    BY <1>4, <1>5, <1>7 DEF AnOf
  <2> HIDE DEF w
  <2>2. (old.web \/ w) = w
    BY <2>1
  <2> QED BY <2>1, <2>2 DEF w
<1>9. /\ DOMAIN begun = DOMAIN old /\ begun.index = index /\ begun.id = b.content[k].id
      /\ begun.name = b.content[k].name /\ begun.web = A!IsWeb(b.content[k])
  BY <1>1, <1>3, <1>8 DEF AnKnows
<1> HIDE DEF begun
<1>10. AnKnows(b, begun)
  BY <1>3, <1>9 DEF AnKnows, AnOf
<1>11. old.name # "" => begun.id = old.id /\ begun.name = old.name /\ begun.web = old.web
  BY <1>5, <1>9 DEF AnOf
<1>12. /\ AnCalls(b, next)
       /\ AnTools(calls) \subseteq AnTools(next) /\ AnWeb(calls) \subseteq AnWeb(next)
  BY <1>1, <1>10, <1>11, AnChange DEF old
<1> HIDE DEF next
<1>13. AnStep(b, p, q)
  BY <1>1, <1>12, AnRenew
<1> HIDE DEF q
<1>14. AnInv(b, q)
  BY <1>13 DEF AnStep
<1>15. AnStep(b, p, p)
  BY DEF AnStep, More, AnInv
<1>16. AnStep(b, p, A!SyncToolCalls(q))
  BY <1>13, <1>14, AnSyncTools, AnTrans
<1>17. AnStep(b, p, A!SyncWebRequests(q))
  BY <1>13, <1>14, AnSyncWeb, AnTrans
<1> QED BY <1>2, <1>15, <1>16, <1>17

LEMMA AnAppendInput ==
  ASSUME NEW b, NEW p, AnInv(b, p), NEW index, NEW fragment
  PROVE  AnStep(b, p, A!AppendInput(p, index, fragment))
<1> DEFINE calls == A!Slot(p.calls, index)
           i     == A!At(calls, index)
           old   == calls[i]
           new   == [old EXCEPT !.partial = Append(old.partial, fragment)]
           next  == [calls EXCEPT ![i] = new]
           q     == [p EXCEPT !.calls = next]
<1>0. AnCalls(b, p.calls)
  BY DEF AnInv
<1>1. /\ AnCalls(b, calls) /\ i \in DOMAIN calls
      /\ AnTools(p.calls) \subseteq AnTools(calls) /\ AnWeb(p.calls) \subseteq AnWeb(calls)
  <2>1. LET s == A!Slot(p.calls, index)
            j == A!At(s, index)
        IN  /\ AnCalls(b, s)
            /\ j \in DOMAIN s /\ s[j].index = index
            /\ AnTools(p.calls) \subseteq AnTools(s) /\ AnWeb(p.calls) \subseteq AnWeb(s)
    BY <1>0, AnSlot
  <2> QED BY <2>1
<1>2. A!AppendInput(p, index, fragment) =
        IF old.web THEN A!SyncWebRequests(q) ELSE A!SyncToolCalls(q)
  BY DEF A!AppendInput
<1>3. AnKnows(b, old)
  BY <1>1 DEF AnCalls
<1> HIDE DEF calls, i, old
<1>9. /\ DOMAIN new = DOMAIN old /\ new.index = old.index /\ new.id = old.id
      /\ new.name = old.name /\ new.web = old.web
  BY <1>3 DEF AnKnows
<1> HIDE DEF new
<1>10. AnKnows(b, new)
  BY <1>3, <1>9 DEF AnKnows, AnOf
<1>12. /\ AnCalls(b, next)
       /\ AnTools(calls) \subseteq AnTools(next) /\ AnWeb(calls) \subseteq AnWeb(next)
  BY <1>1, <1>9, <1>10, AnChange DEF old
<1> HIDE DEF next
<1>13. AnStep(b, p, q)
  BY <1>1, <1>12, AnRenew
<1> HIDE DEF q
<1>14. AnInv(b, q)
  BY <1>13 DEF AnStep
<1>16. AnStep(b, p, A!SyncToolCalls(q))
  BY <1>13, <1>14, AnSyncTools, AnTrans
<1>17. AnStep(b, p, A!SyncWebRequests(q))
  BY <1>13, <1>14, AnSyncWeb, AnTrans
<1> QED BY <1>2, <1>16, <1>17

LEMMA AnMergeUsage ==
  ASSUME NEW b, NEW p, AnInv(b, p), NEW u \in [A!UsageFields -> Int]
  PROVE  AnStep(b, p, A!MergeUsage(p, u))
<1> DEFINE merged == [f \in A!UsageFields |-> A!First(u[f], p.usage[f], A!Absent)]
           given  == A!ToUsage(merged)
           q      == [p EXCEPT !.usage = merged, !.result.usage = given]
<1>1. A!MergeUsage(p, u) = IF u = A!NoUsage THEN p ELSE A!SyncWebRequests(q)
  BY DEF A!MergeUsage
<1>2. merged \in [A!UsageFields -> Int]
  BY DEF AnInv, AnShape, A!First, A!Absent
<1> HIDE DEF merged, given
<1>3. /\ AnShape(q) /\ q.calls = p.calls /\ q.terminal = p.terminal
      /\ q.result.id = p.result.id /\ q.result.error = p.result.error
      /\ q.result.web = p.result.web /\ q.result.tools = p.result.tools
  BY <1>2 DEF AnInv, AnShape, ResultFields
<1> HIDE DEF q
<1>4. AnInv(b, q)
  BY <1>3 DEF AnInv
<1>5. More(p.result, q.result)
  BY <1>3 DEF More
<1>6. AnStep(b, p, q)
  BY <1>3, <1>4, <1>5 DEF AnStep
<1>7. AnStep(b, p, p)
  BY DEF AnStep, More, AnInv
<1> QED BY <1>1, <1>4, <1>6, <1>7, AnSyncWeb, AnTrans

\* The rest of the handlers change the result's id, its error or a flag.
LEMMA AnNote ==
  ASSUME NEW b, NEW p, AnInv(b, p), NEW q, AnShape(q), q.calls = p.calls,
         p.terminal => q.terminal, q.result.tools = p.result.tools, q.result.web = p.result.web,
         q.result.id \in {p.result.id, b.id}, q.result.error \in {p.result.error, b.error}
  PROVE  AnStep(b, p, q)
<1>1. AnInv(b, q)
  BY DEF AnInv
<1>2. More(p.result, q.result)
  BY DEF AnInv, More
<1> QED BY <1>1, <1>2 DEF AnStep

LEMMA AnHandles ==
  ASSUME NEW b, NEW p, AnInv(b, p), A!WellNamed(b), NEW event, A!Tells(b, event)
  PROVE  AnStep(b, p, A!Handle(p, event))
<1>0. AnStep(b, p, p)
  BY DEF AnStep, More, AnInv
<1>1. CASE event.type = "message_start"
  <2> DEFINE q == [p EXCEPT !.result.id = event.id]
  <2>1. A!Handle(p, event) = A!MergeUsage(q, event.usage)
    BY <1>1 DEF A!Handle
  <2>2. event.id = b.id /\ event.usage \in [A!UsageFields -> Int]
    BY <1>1 DEF A!Tells
  <2>3. /\ AnShape(q) /\ q.calls = p.calls /\ q.terminal = p.terminal
        /\ q.result.id = b.id /\ q.result.error = p.result.error
        /\ q.result.web = p.result.web /\ q.result.tools = p.result.tools
    BY <2>2 DEF AnInv, AnShape, ResultFields
  <2> HIDE DEF q
  <2>4. AnStep(b, p, q)
    BY <2>3, AnNote
  <2> QED BY <2>1, <2>2, <2>4, AnMergeUsage, AnTrans DEF AnStep
<1>2. CASE event.type = "message_delta"
  <2>1. A!Handle(p, event) = A!MergeUsage(p, event.usage)
    BY <1>2 DEF A!Handle
  <2>2. event.usage \in [A!UsageFields -> Int]
    BY <1>2 DEF A!Tells
  <2> QED BY <2>1, <2>2, AnMergeUsage
<1>3. CASE event.type = "content_block_start"
  <2>1. A!Handle(p, event) = A!StartBlock(p, event.index, event.block)
    BY <1>3 DEF A!Handle
  <2>2. PICK i \in DOMAIN b.content :
          /\ event.index = i - 1
          /\ event.block.type = b.content[i].type
          /\ event.block.id = b.content[i].id
          /\ event.block.name = b.content[i].name
    BY <1>3 DEF A!Tells
  <2> QED BY <2>1, <2>2, AnStartBlock
<1>4. CASE event.type = "input_json_delta"
  <2>1. A!Handle(p, event) = A!AppendInput(p, event.index, event.fragment)
    BY <1>4 DEF A!Handle
  <2> QED BY <2>1, AnAppendInput
<1>5. CASE event.type = "message_stop"
  <2> DEFINE q == [p EXCEPT !.terminal = TRUE]
  <2>1. A!Handle(p, event) = q
    BY <1>5 DEF A!Handle
  <2>3. /\ AnShape(q) /\ q.calls = p.calls /\ q.terminal = TRUE /\ q.result = p.result
    BY DEF AnInv, AnShape
  <2> HIDE DEF q
  <2> QED BY <2>1, <2>3, AnNote
<1>6. CASE event.type = "error" /\ event.error # ""
  <2> DEFINE q == [p EXCEPT !.terminal = TRUE, !.result.error = event.error]
  <2>1. A!Handle(p, event) = q
    BY <1>6 DEF A!Handle
  <2>2. event.error = b.error
    BY <1>6 DEF A!Tells
  <2>3. /\ AnShape(q) /\ q.calls = p.calls /\ q.terminal = TRUE
        /\ q.result.id = p.result.id /\ q.result.error = b.error
        /\ q.result.web = p.result.web /\ q.result.tools = p.result.tools
    BY <2>2 DEF AnInv, AnShape, ResultFields
  <2> HIDE DEF q
  <2> QED BY <2>1, <2>3, AnNote
<1>7. CASE event.type = "malformed"
  <2> DEFINE q == [p EXCEPT !.malformed = TRUE]
  <2>1. A!Handle(p, event) = q
    BY <1>7 DEF A!Handle
  <2>3. /\ AnShape(q) /\ q.calls = p.calls /\ q.terminal = p.terminal /\ q.result = p.result
    BY DEF AnInv, AnShape
  <2> HIDE DEF q
  <2> QED BY <2>1, <2>3, AnNote
<1>8. CASE ~ \/ event.type \in {"message_start", "message_delta", "content_block_start",
                                "input_json_delta", "message_stop", "malformed"}
             \/ event.type = "error" /\ event.error # ""
  <2>1. A!Handle(p, event) = p
    BY <1>8 DEF A!Handle
  <2> QED BY <1>0, <2>1
<1> QED BY <1>1, <1>2, <1>3, <1>4, <1>5, <1>6, <1>7, <1>8

LEMMA AnStarts == ASSUME NEW b PROVE AnInv(b, A!Start)
<1> DEFINE p == A!Start
<1> DEFINE f == FALSE
           u == A!ToUsage(A!NoUsage)
           n == A!NoUsage
<1>0. /\ p = [result |-> [id |-> "", usage |-> u, tools |-> << >>, web |-> << >>, error |-> ""],
              usage |-> n, calls |-> << >>, terminal |-> f, malformed |-> f]
      /\ n \in [A!UsageFields -> Int] /\ f \in BOOLEAN
  BY DEF A!Start, A!NoUsage, A!Absent
<1> HIDE DEF p, f, u, n
<1>1. /\ AnShape(p) /\ p.calls = << >> /\ p.result.tools = << >> /\ p.result.web = << >>
      /\ p.result.id = "" /\ p.result.error = ""
  BY <1>0 DEF AnShape, ResultFields
<1>2. AnCalls(b, p.calls)
  BY <1>1, EmptySequence DEF AnCalls
<1>3. A!Ids(p.result.tools) = {} /\ A!Ids(p.result.web) = {}
  BY <1>1, EmptySequence DEF A!Ids
<1> QED BY <1>1, <1>2, <1>3 DEF AnInv, p

----------------------------------------------------------------------------
(* OpenAI's parser.  A call is that of an item of the body, which is known *)
(* by either of its ids or by its place.                                   *)
OnCallFields == {"index", "id", "callId", "type", "name", "input", "partial", "web"}

OnOf(b, c, i) ==
  /\ c.id \in {"", b.output[i].id, b.output[i].callId}
  /\ c.callId \in {"", b.output[i].callId}
  /\ O!IsPlace(c.index, i)
  /\ \/ c.name = "" /\ c.web = FALSE
     \/ /\ c.name # ""
        /\ O!Key(c) = O!Key(b.output[i])
        /\ c.web = O!IsWeb(b.output[i])
        /\ O!IsWeb(b.output[i]) => O!IsWeb(c)

OnKnows(b, c) == DOMAIN c = OnCallFields /\ \E i \in DOMAIN b.output : OnOf(b, c, i)

OnCalls(b, calls) == Sequence(calls) /\ \A j \in DOMAIN calls : OnKnows(b, calls[j])

ChatOf(b, c, i) == c.index = i - 1 /\ c.id \in {"", b.chat[i].id}

ChatKnows(b, c) ==
  DOMAIN c = {"index", "id", "name", "partial"} /\ \E i \in DOMAIN b.chat : ChatOf(b, c, i)

OnChat(b, chat) == Sequence(chat) /\ \A j \in DOMAIN chat : ChatKnows(b, chat[j])

ToolPlaces(calls) == {i \in O!Named(calls) : ~ calls[i].web}

WebPlaces(calls) == {i \in DOMAIN calls : calls[i].web /\ O!IsWeb(calls[i])}

OnTools(calls) == {O!Key(calls[i]) : i \in ToolPlaces(calls)}

OnWeb(calls) == {O!Key(calls[i]) : i \in WebPlaces(calls)}

ChatTools(chat) == {chat[i].id : i \in O!Named(chat)}

OnShape(p) ==
  /\ DOMAIN p = {"result", "calls", "chat", "terminal", "malformed"}
  /\ DOMAIN p.result = ResultFields
  /\ p.terminal \in BOOLEAN
  /\ Sequence(p.result.web)

OnInv(b, p) ==
  /\ OnShape(p)
  /\ OnCalls(b, p.calls)
  /\ OnChat(b, p.chat)
  /\ A!Ids(p.result.tools) \subseteq OnTools(p.calls) \cup ChatTools(p.chat) \cup {""}
  /\ A!Ids(p.result.web) \subseteq OnWeb(p.calls) \cup {""}
  /\ p.result.id \in {"", b.id}
  /\ p.result.error \in {"", b.error}

OnStep(b, p, q) ==
  /\ OnInv(b, q)
  /\ More(p.result, q.result)
  /\ p.terminal => q.terminal

LEMMA OnTrans ==
  ASSUME NEW b, NEW p, NEW q, NEW r, OnStep(b, p, q), OnStep(b, q, r)
  PROVE  OnStep(b, p, r)
  BY DEF OnStep, More

LEMMA OnStays == ASSUME NEW b, NEW p, OnInv(b, p) PROVE OnStep(b, p, p)
  BY DEF OnStep, More, OnInv

----------------------------------------------------------------------------
(* What the parser lists are its calls.                                    *)
LEMMA SequenceLike ==
  ASSUME NEW s, Sequence(s), NEW t, DOMAIN t = DOMAIN s, t = [i \in DOMAIN s |-> t[i]]
  PROVE  Sequence(t)
<1>1. Len(s) \in Nat /\ DOMAIN s = 1..Len(s)
  BY SequenceIs
<1> DEFINE T == {t[i] : i \in DOMAIN s}
<1>2. t \in [1..Len(s) -> T]
  BY <1>1
<1>3. t \in Seq(T)
  BY <1>1, <1>2
<1> QED BY <1>3 DEF Sequence

LEMMA JoinedIds ==
  ASSUME NEW s, Sequence(s), NEW t, Sequence(t)
  PROVE  A!Ids(s \o t) = A!Ids(s) \cup A!Ids(t)
<1> DEFINE c == s \o t
<1>1. Joined(s, t, c)
  BY SequenceConcat
<1> HIDE DEF c
<1>2. A!Ids(c) \subseteq A!Ids(s) \cup A!Ids(t)
  BY <1>1 DEF A!Ids, Joined
<1>3. A!Ids(s) \subseteq A!Ids(c)
  BY <1>1 DEF A!Ids, Joined
<1>4. A!Ids(t) \subseteq A!Ids(c)
  BY <1>1 DEF A!Ids, Joined
<1> QED BY <1>2, <1>3, <1>4 DEF c

LEMMA KeyedIds ==
  ASSUME NEW calls, Sequence(calls), NEW I, I \subseteq DOMAIN calls
  PROVE  /\ Sequence(O!KeyedCalls(calls, I))
         /\ A!Ids(O!KeyedCalls(calls, I)) = {O!Key(calls[i]) : i \in I}
<1> DEFINE listed == O!Selected(calls, I)
           t == O!KeyedCalls(calls, I)
<1>1. /\ Sequence(listed)
      /\ \A j \in DOMAIN listed : \E i \in DOMAIN calls : i \in I /\ listed[j] = calls[i]
      /\ \A i \in DOMAIN calls : i \in I => \E j \in DOMAIN listed : listed[j] = calls[i]
  <2>1. listed = A!Selected(calls, I)
    BY SelectedIs
  <2> HIDE DEF listed
  <2>2. LET u == A!Selected(calls, I)
        IN  /\ Sequence(u)
            /\ \A j \in DOMAIN u : \E i \in DOMAIN calls : i \in I /\ u[j] = calls[i]
            /\ \A i \in DOMAIN calls : i \in I => \E j \in DOMAIN u : u[j] = calls[i]
    BY SelectedHolds
  <2> QED BY <2>1, <2>2
<1>2. t = [i \in DOMAIN listed |-> O!Call(O!Key(listed[i]), listed[i].name, O!Input(listed[i]))]
  BY DEF O!KeyedCalls
<1> HIDE DEF listed, t
<1>3. DOMAIN t = DOMAIN listed /\ t = [i \in DOMAIN listed |-> t[i]]
  BY <1>2
<1>4. \A i \in DOMAIN t : t[i].id = O!Key(listed[i])
  BY <1>2 DEF O!Call
<1>5. Sequence(t)
  BY <1>1, <1>3, SequenceLike
<1>6. A!Ids(t) = {O!Key(calls[i]) : i \in I}
  BY <1>1, <1>3, <1>4 DEF A!Ids
<1> QED BY <1>5, <1>6 DEF t

LEMMA ChatListed ==
  ASSUME NEW chat, Sequence(chat)
  PROVE  LET t == O!ChatCalls([i \in DOMAIN chat |->
                    O!Call(chat[i].id, chat[i].name, chat[i].partial)])
         IN  Sequence(t) /\ A!Ids(t) = ChatTools(chat)
<1> DEFINE view == [i \in DOMAIN chat |-> O!Call(chat[i].id, chat[i].name, chat[i].partial)]
           I == O!Named(view)
           named == O!Selected(view, I)
           t == O!ChatCalls(view)
<1>1. DOMAIN view = DOMAIN chat /\ view = [i \in DOMAIN chat |-> view[i]]
  OBVIOUS
<1>2. \A i \in DOMAIN chat : view[i].id = chat[i].id /\ view[i].name = chat[i].name
  BY DEF O!Call
<1>3. t = [i \in DOMAIN named |-> O!Call(named[i].id, named[i].name, named[i].input)]
  BY DEF O!ChatCalls
<1> HIDE DEF view, named, t
<1>4. Sequence(view)
  BY <1>1, SequenceLike
<1>5. I = O!Named(chat)
  BY <1>1, <1>2 DEF O!Named
<1>6. I \subseteq DOMAIN view
  BY DEF O!Named
<1> HIDE DEF I
<1>7. /\ Sequence(named)
      /\ \A j \in DOMAIN named : \E i \in DOMAIN view : i \in I /\ named[j] = view[i]
      /\ \A i \in DOMAIN view : i \in I => \E j \in DOMAIN named : named[j] = view[i]
  <2>1. named = A!Selected(view, I)
    BY <1>4, SelectedIs DEF named
  <2>2. LET u == A!Selected(view, I)
        IN  /\ Sequence(u)
            /\ \A j \in DOMAIN u : \E i \in DOMAIN view : i \in I /\ u[j] = view[i]
            /\ \A i \in DOMAIN view : i \in I => \E j \in DOMAIN u : u[j] = view[i]
    BY <1>4, SelectedHolds
  <2> QED BY <2>1, <2>2
<1>8. DOMAIN t = DOMAIN named /\ t = [i \in DOMAIN named |-> t[i]]
  BY <1>3
<1>9. \A i \in DOMAIN t : t[i].id = named[i].id
  BY <1>3 DEF O!Call
<1>10. Sequence(t)
  BY <1>7, <1>8, SequenceLike
<1>11. A!Ids(t) = {view[i].id : i \in I}
  BY <1>6, <1>7, <1>8, <1>9 DEF A!Ids
<1>12. A!Ids(t) = ChatTools(chat)
  BY <1>1, <1>2, <1>5, <1>6, <1>11 DEF ChatTools
<1> QED BY <1>10, <1>12 DEF t, view

\* What the two lists of a result hold once they have been made anew.
LEMMA OnToolsListed ==
  ASSUME NEW p, OnShape(p), Sequence(p.calls), Sequence(p.chat)
  PROVE  LET q == O!SyncToolCalls(p)
         IN  /\ OnShape(q) /\ q.calls = p.calls /\ q.chat = p.chat /\ q.terminal = p.terminal
             /\ q.result.id = p.result.id /\ q.result.error = p.result.error
             /\ q.result.web = p.result.web
             /\ A!Ids(q.result.tools) = OnTools(p.calls) \cup ChatTools(p.chat)
<1> DEFINE q == O!SyncToolCalls(p)
           s == O!KeyedCalls(p.calls, ToolPlaces(p.calls))
           t == O!ChatCalls([i \in DOMAIN p.chat |->
                  O!Call(p.chat[i].id, p.chat[i].name, p.chat[i].partial)])
           tools == s \o t
<1>1. q = [p EXCEPT !.result.tools = tools]
  BY DEF O!SyncToolCalls, ToolPlaces
<1>2. Sequence(s) /\ A!Ids(s) = OnTools(p.calls)
  BY KeyedIds DEF ToolPlaces, O!Named, OnTools
<1>3. Sequence(t) /\ A!Ids(t) = ChatTools(p.chat)
  BY ChatListed
<1> HIDE DEF s, t
<1>4. A!Ids(tools) = OnTools(p.calls) \cup ChatTools(p.chat)
  BY <1>2, <1>3, JoinedIds
<1> HIDE DEF tools, q
<1>5. /\ OnShape(q) /\ q.calls = p.calls /\ q.chat = p.chat /\ q.terminal = p.terminal
      /\ q.result.id = p.result.id /\ q.result.error = p.result.error
      /\ q.result.web = p.result.web /\ q.result.tools = tools
  BY <1>1 DEF OnShape, ResultFields
<1> QED BY <1>4, <1>5 DEF q

LEMMA OnWebListed ==
  ASSUME NEW p, OnShape(p), Sequence(p.calls)
  PROVE  LET q == O!SyncWebRequests(p)
         IN  /\ OnShape(q) /\ q.calls = p.calls /\ q.chat = p.chat /\ q.terminal = p.terminal
             /\ q.result.id = p.result.id /\ q.result.error = p.result.error
             /\ q.result.tools = p.result.tools
             /\ A!Ids(q.result.web) = OnWeb(p.calls)
<1> DEFINE q == O!SyncWebRequests(p)
           web == O!KeyedCalls(p.calls, WebPlaces(p.calls))
<1>1. q = [p EXCEPT !.result.web = web]
  BY DEF O!SyncWebRequests, WebPlaces
<1>2. Sequence(web) /\ A!Ids(web) = OnWeb(p.calls)
  BY KeyedIds DEF WebPlaces, OnWeb
<1> HIDE DEF web, q
<1>3. /\ OnShape(q) /\ q.calls = p.calls /\ q.chat = p.chat /\ q.terminal = p.terminal
      /\ q.result.id = p.result.id /\ q.result.error = p.result.error
      /\ q.result.tools = p.result.tools /\ q.result.web = web
  BY <1>1, <1>2 DEF OnShape, ResultFields
<1> QED BY <1>2, <1>3 DEF q

LEMMA OnSyncs ==
  ASSUME NEW b, NEW p, OnInv(b, p)
  PROVE  OnStep(b, p, O!SyncToolCalls(p)) /\ OnStep(b, p, O!SyncWebRequests(p))
<1>1. OnShape(p) /\ Sequence(p.calls) /\ Sequence(p.chat)
  BY DEF OnInv, OnCalls, OnChat
<1> DEFINE q == O!SyncToolCalls(p)
           r == O!SyncWebRequests(p)
<1>2. /\ OnShape(q) /\ q.calls = p.calls /\ q.chat = p.chat /\ q.terminal = p.terminal
      /\ q.result.id = p.result.id /\ q.result.error = p.result.error
      /\ q.result.web = p.result.web
      /\ A!Ids(q.result.tools) = OnTools(p.calls) \cup ChatTools(p.chat)
  BY <1>1, OnToolsListed
<1>3. /\ OnShape(r) /\ r.calls = p.calls /\ r.chat = p.chat /\ r.terminal = p.terminal
      /\ r.result.id = p.result.id /\ r.result.error = p.result.error
      /\ r.result.tools = p.result.tools
      /\ A!Ids(r.result.web) = OnWeb(p.calls)
  BY <1>1, OnWebListed
<1> HIDE DEF q, r
<1>4. OnInv(b, q) /\ OnInv(b, r)
  BY <1>2, <1>3 DEF OnInv
<1>5. More(p.result, q.result)
  BY <1>2 DEF OnInv, More
<1>6. More(p.result, r.result)
  BY <1>3 DEF OnInv, More
<1> QED BY <1>2, <1>3, <1>4, <1>5, <1>6 DEF OnStep, q, r

LEMMA OnRenew ==
  ASSUME NEW b, NEW p, OnInv(b, p), NEW calls, OnCalls(b, calls),
         OnTools(p.calls) \subseteq OnTools(calls), OnWeb(p.calls) \subseteq OnWeb(calls)
  PROVE  OnStep(b, p, [p EXCEPT !.calls = calls])
<1> DEFINE q == [p EXCEPT !.calls = calls]
<1>1. /\ OnShape(q) /\ q.calls = calls /\ q.chat = p.chat /\ q.terminal = p.terminal
      /\ q.result = p.result
  BY DEF OnInv, OnShape
<1> HIDE DEF q
<1>2. OnInv(b, q)
  BY <1>1 DEF OnInv
<1>3. More(p.result, q.result)
  BY <1>1 DEF OnInv, More
<1> QED BY <1>1, <1>2, <1>3 DEF OnStep, q

----------------------------------------------------------------------------
(* The call that an event speaks of is that of the same item.              *)
LEMMA SamePlace == \A i, k \in Nat : i - 1 = k - 1 => i = k
  OBVIOUS

\* What an event may call item k by.
GoesBy(b, k, id, callId, index) ==
  /\ id \in {"", b.output[k].id, b.output[k].callId}
  /\ callId \in {"", b.output[k].callId}
  /\ O!IsPlace(index, k)

\* A call that answers to what an item goes by is that item's.
LEMMA OnSame ==
  ASSUME NEW b, O!WellNamed(b), NEW i \in DOMAIN b.output, NEW k \in DOMAIN b.output,
         NEW c, OnOf(b, c, i), NEW id, NEW callId, NEW index, GoesBy(b, k, id, callId, index),
         O!Matches(c, id, callId, index)
  PROVE  i = k
<1>1. \A x : x # "" /\ x \in {b.output[i].id, b.output[i].callId}
             /\ x \in {b.output[k].id, b.output[k].callId} => i = k
  BY DEF O!WellNamed
<1>2. CASE id # "" /\ id \in {c.id, c.callId}
  BY <1>1, <1>2 DEF OnOf, GoesBy
<1>3. CASE callId # "" /\ callId \in {c.id, c.callId}
  BY <1>1, <1>3 DEF OnOf, GoesBy
<1>4. CASE index # O!Absent /\ index = c.index
  <2>1. i - 1 = k - 1
    BY <1>4 DEF OnOf, O!IsPlace, GoesBy
  <2>2. i \in Nat /\ k \in Nat
    BY DEF O!WellNamed
  <2> QED BY <2>1, <2>2, SamePlace, Zenon
<1> QED BY <1>2, <1>3, <1>4 DEF O!Matches

\* The first call that matches.
LEMMA OnAt ==
  ASSUME NEW calls, Sequence(calls), NEW id, NEW callId, NEW index,
         \E j \in DOMAIN calls : O!Matches(calls[j], id, callId, index)
  PROVE  LET i == O!At(calls, id, callId, index)
         IN  i \in DOMAIN calls /\ O!Matches(calls[i], id, callId, index)
<1> DEFINE I == {j \in 1..Len(calls) : O!Matches(calls[j], id, callId, index)}
           i == O!At(calls, id, callId, index)
<1>1. DOMAIN calls = 1..Len(calls) /\ Len(calls) \in Nat
  BY SequenceIs
<1>2. i = IF I # {} THEN O!Min(I) ELSE 0
  BY DEF O!At, O!SelectInSeq
<1>3. I # {} /\ I \subseteq Nat
  BY <1>1
<1> HIDE DEF I, i
<1>4. i = O!Min(I)
  BY <1>2, <1>3
<1>5. i = CHOOSE x \in I : \A y \in I : x =< y
  BY <1>4 DEF O!Min
<1>6. \E x \in I : \A y \in I : x <= y
  BY <1>3, HasLeast
<1>7. i \in I
  BY <1>5, <1>6
<1> QED BY <1>1, <1>7 DEF I, i

Slotted(b, calls, s, i, k) ==
  /\ OnCalls(b, s)
  /\ i \in DOMAIN s
  /\ OnOf(b, s[i], k)
  /\ OnTools(calls) \subseteq OnTools(s)
  /\ OnWeb(calls) \subseteq OnWeb(s)

\* The call of an item, begun if there was none.
LEMMA OnSlot ==
  ASSUME NEW b, O!WellNamed(b), NEW calls, OnCalls(b, calls), NEW k \in DOMAIN b.output,
         NEW id, NEW callId, NEW index, GoesBy(b, k, id, callId, index),
         id # "" \/ callId # "" \/ index # O!Absent
  PROVE  Slotted(b, calls, O!Slot(calls, id, callId, index),
                 O!At(O!Slot(calls, id, callId, index), id, callId, index), k)
<1> DEFINE new == [index |-> index, id |-> id, callId |-> callId, type |-> "", name |-> "",
                   input |-> << >>, partial |-> << >>, web |-> FALSE]
           s == O!Slot(calls, id, callId, index)
           i == O!At(s, id, callId, index)
<1>0. Sequence(calls) /\ Len(calls) \in Nat /\ DOMAIN calls = 1..Len(calls)
  BY SequenceIs DEF OnCalls
<1>1. /\ OnCalls(b, s)
      /\ \E j \in DOMAIN s : O!Matches(s[j], id, callId, index)
      /\ OnTools(calls) \subseteq OnTools(s) /\ OnWeb(calls) \subseteq OnWeb(s)
  <2>1. CASE \E j \in DOMAIN calls : O!Matches(calls[j], id, callId, index)
    <3>1. s = calls
      BY <2>1 DEF O!Slot
    <3> QED BY <2>1, <3>1
  <2>2. CASE ~ \E j \in DOMAIN calls : O!Matches(calls[j], id, callId, index)
    <3>1. s = Append(calls, new)
      BY <2>2 DEF O!Slot
    <3> DEFINE f == FALSE
    <3>2. new = [index |-> index, id |-> id, callId |-> callId, type |-> "", name |-> "",
                 input |-> << >>, partial |-> << >>, web |-> f]
      BY DEF f
    <3>3. f = FALSE
      OBVIOUS
    <3> HIDE DEF new, f
    <3>4. /\ DOMAIN new = OnCallFields /\ new.id = id /\ new.callId = callId
          /\ new.index = index /\ new.name = "" /\ new.web = f
      BY <3>2 DEF OnCallFields
    <3>5. OnKnows(b, new)
      <4>1. OnOf(b, new, k)
        BY <3>3, <3>4 DEF OnOf, GoesBy
      <4> QED BY <3>4, <4>1 DEF OnKnows
    <3>6. O!Matches(new, id, callId, index)
      BY <3>4 DEF O!Matches
    <3>7. /\ Sequence(s) /\ DOMAIN s = DOMAIN calls \cup {Len(calls) + 1}
          /\ s[Len(calls) + 1] = new /\ \A j \in DOMAIN calls : s[j] = calls[j]
      <4>1. Extended(calls, new, s)
        BY <1>0, <3>1, AppendExtends, Zenon
      <4> HIDE DEF s
      <4> QED BY <4>1 DEF Extended
    <3> HIDE DEF s
    <3>8. OnCalls(b, s)
      BY <3>5, <3>7 DEF OnCalls
    <3>9. ToolPlaces(calls) \subseteq ToolPlaces(s) /\ WebPlaces(calls) \subseteq WebPlaces(s)
      BY <3>7 DEF ToolPlaces, WebPlaces, O!Named
    <3>10. OnTools(calls) \subseteq OnTools(s) /\ OnWeb(calls) \subseteq OnWeb(s)
      BY <3>7, <3>9 DEF OnTools, OnWeb, ToolPlaces, WebPlaces, O!Named
    <3> QED BY <3>6, <3>7, <3>8, <3>10
  <2> QED BY <2>1, <2>2
<1> HIDE DEF s
<1>2. i \in DOMAIN s /\ O!Matches(s[i], id, callId, index)
  BY <1>1, OnAt DEF OnCalls
<1> HIDE DEF i
<1>3. OnOf(b, s[i], k)
  <2>1. PICK j \in DOMAIN b.output : OnOf(b, s[i], j)
    BY <1>1, <1>2 DEF OnCalls, OnKnows
  <2>2. j = k
    <3> DEFINE c == s[i]
    <3>1. OnOf(b, c, j) /\ O!Matches(c, id, callId, index)
      BY <1>2, <2>1
    <3> HIDE DEF c
    <3> QED BY <3>1, OnSame
  <2> QED BY <2>1, <2>2
<1>4. Slotted(b, calls, s, i, k)
  BY <1>1, <1>2, <1>3 DEF Slotted
<1> QED BY <1>4 DEF s, i

Kept(b, calls, s) ==
  /\ OnCalls(b, s)
  /\ OnTools(calls) \subseteq OnTools(s)
  /\ OnWeb(calls) \subseteq OnWeb(s)

\* A call changed in place stays that of its item, and named if it was.
LEMMA OnChange ==
  ASSUME NEW b, NEW calls, OnCalls(b, calls), NEW i \in DOMAIN calls, NEW k \in DOMAIN b.output,
         OnOf(b, calls[i], k), NEW c, DOMAIN c = OnCallFields, OnOf(b, c, k),
         calls[i].name # "" => c.name # ""
  PROVE  Kept(b, calls, [calls EXCEPT ![i] = c])
<1> DEFINE s == [calls EXCEPT ![i] = c]
<1>1. /\ Sequence(s) /\ DOMAIN s = DOMAIN calls /\ s[i] = c
      /\ \A j \in DOMAIN calls : j # i => s[j] = calls[j]
  BY SequenceExcept DEF OnCalls
<1> HIDE DEF s
<1>2. OnCalls(b, s)
  BY <1>1 DEF OnCalls, OnKnows
<1>3. ASSUME NEW j \in ToolPlaces(calls)
      PROVE  j \in ToolPlaces(s) /\ O!Key(s[j]) = O!Key(calls[j])
  BY <1>1 DEF ToolPlaces, O!Named, OnOf
<1>4. ASSUME NEW j \in WebPlaces(calls)
      PROVE  j \in WebPlaces(s) /\ O!Key(s[j]) = O!Key(calls[j])
  BY <1>1 DEF WebPlaces, OnOf
<1>5. OnTools(calls) \subseteq OnTools(s)
  BY <1>3 DEF OnTools
<1>6. OnWeb(calls) \subseteq OnWeb(s)
  BY <1>4 DEF OnWeb
<1> QED BY <1>2, <1>5, <1>6 DEF Kept, s

----------------------------------------------------------------------------
(* The events of an item.  Each replaces one call.                         *)
Replaced(p, s, i, c) == [p EXCEPT !.calls = [s EXCEPT ![i] = c]]

LEMMA OnReplaced ==
  ASSUME NEW b, NEW p, OnInv(b, p), NEW k \in DOMAIN b.output, NEW s, NEW i,
         Slotted(b, p.calls, s, i, k), NEW c, DOMAIN c = OnCallFields, OnOf(b, c, k),
         s[i].name # "" => c.name # ""
  PROVE  OnStep(b, p, Replaced(p, s, i, c))
<1> DEFINE next == [s EXCEPT ![i] = c]
<1>1. Kept(b, s, next)
  BY OnChange DEF Slotted
<1> HIDE DEF next
<1>2. OnStep(b, p, [p EXCEPT !.calls = next])
  BY <1>1, OnRenew DEF Kept, Slotted
<1> QED BY <1>2 DEF Replaced, next

\* A call that has been changed, with the lists that follow from it.
LEMMA OnListed ==
  ASSUME NEW b, NEW p, NEW q, OnStep(b, p, q)
  PROVE  /\ OnStep(b, p, O!SyncToolCalls(q))
         /\ OnStep(b, p, O!SyncWebRequests(q))
         /\ OnStep(b, p, O!SyncWebRequests(O!SyncToolCalls(q)))
<1>1. OnInv(b, q)
  BY DEF OnStep
<1>2. OnStep(b, p, O!SyncToolCalls(q)) /\ OnStep(b, p, O!SyncWebRequests(q))
  BY <1>1, OnSyncs, OnTrans
<1> DEFINE r == O!SyncToolCalls(q)
<1>3. OnStep(b, p, r) /\ OnInv(b, r)
  BY <1>2 DEF OnStep
<1> HIDE DEF r
<1>4. OnStep(b, p, O!SyncWebRequests(r))
  BY <1>3, OnSyncs, OnTrans
<1> QED BY <1>2, <1>4 DEF r

LEMMA OnMergeItem ==
  ASSUME NEW b, O!WellNamed(b), NEW p, OnInv(b, p), NEW k \in DOMAIN b.output,
         NEW item, O!SameItem(item, b.output[k]), NEW index, O!IsPlace(index, k)
  PROVE  OnStep(b, p, O!MergeItem(p, item, index))
<1> DEFINE s     == O!Slot(p.calls, item.id, item.callId, index)
           i     == O!At(s, item.id, item.callId, index)
           old   == s[i]
           fresh == item.given /\ item.input # << >>
           bare  == ~ item.given /\ O!Input(old) = << >>
           input == IF fresh THEN item.input ELSE IF bare THEN O!Raw ELSE old.input
           part  == IF fresh THEN << >> ELSE old.partial
           name  == O!NameOf(item)
           web   == O!IsWeb(item)
           new   == [old EXCEPT !.id      = O!First(item.id, old.id, ""),
                                !.callId  = O!First(item.callId, old.callId, ""),
                                !.type    = O!First(item.type, old.type, ""),
                                !.name    = name,
                                !.web     = web,
                                !.input   = input,
                                !.partial = part]
           q     == Replaced(p, s, i, new)
           t     == b.output[k]
<1>1. O!MergeItem(p, item, index) =
        IF name = "" THEN p ELSE O!SyncWebRequests(O!SyncToolCalls(q))
  BY DEF O!MergeItem, Replaced
<1>2. GoesBy(b, k, item.id, item.callId, index)
  BY DEF GoesBy, O!SameItem
<1>3. O!Key(t) # "" /\ O!Key(t) = IF t.callId # "" THEN t.callId ELSE t.id
  BY DEF O!WellNamed, O!Key, O!First
<1>4. item.id = t.id /\ item.callId = t.callId /\ item.type = t.type
  BY DEF O!SameItem
<1>5. Slotted(b, p.calls, s, i, k)
  BY <1>2, <1>3, <1>4, OnSlot DEF OnInv
<1> HIDE DEF s, i
<1>6. OnOf(b, old, k) /\ DOMAIN old = OnCallFields
  BY <1>5 DEF Slotted, OnCalls, OnKnows
<1> HIDE DEF old, input, part
<1>7. web = O!IsWeb(t) /\ web \in BOOLEAN
  BY <1>4 DEF O!IsWeb
<1> HIDE DEF name, web
<1>8. /\ DOMAIN new = OnCallFields /\ new.index = old.index
      /\ new.id = O!First(item.id, old.id, "")
      /\ new.callId = O!First(item.callId, old.callId, "")
      /\ new.type = O!First(item.type, old.type, "")
      /\ new.name = name /\ new.web = web
  BY <1>6 DEF OnCallFields
<1> HIDE DEF new
<1>9. ASSUME name # "" PROVE OnOf(b, new, k)
  <2>1. new.callId = t.callId /\ new.id \in {"", t.id, t.callId} /\ O!IsPlace(new.index, k)
    BY <1>4, <1>6, <1>8 DEF OnOf, O!First
  <2>2. t.callId = "" => new.id = t.id
    BY <1>3, <1>4, <1>8 DEF O!First
  <2>3. O!Key(new) = O!Key(t)
    BY <1>3, <2>1, <2>2 DEF O!Key, O!First
  <2>4. O!IsWeb(t) => O!IsWeb(new)
    BY <1>4, <1>8 DEF O!IsWeb, O!First
  <2> QED BY <1>7, <1>8, <1>9, <2>1, <2>3, <2>4 DEF OnOf
<1>10. ASSUME name # "" PROVE OnStep(b, p, q)
  BY <1>5, <1>8, <1>9, <1>10, OnReplaced
<1> HIDE DEF q
<1> QED BY <1>1, <1>10, OnListed, OnStays

\* What has changed of a call is its input.
SameBut(c, new) ==
  /\ DOMAIN new = DOMAIN c
  /\ new.id = c.id /\ new.callId = c.callId /\ new.index = c.index
  /\ new.type = c.type /\ new.name = c.name /\ new.web = c.web

LEMMA OnNewInput ==
  ASSUME NEW b, O!WellNamed(b), NEW p, OnInv(b, p), NEW k \in DOMAIN b.output, NEW s, NEW i,
         Slotted(b, p.calls, s, i, k), NEW c, SameBut(s[i], c)
  PROVE  OnStep(b, p, Replaced(p, s, i, c))
<1>1. OnOf(b, s[i], k) /\ DOMAIN s[i] = OnCallFields
  BY DEF Slotted, OnCalls, OnKnows
<1>2. OnOf(b, c, k) /\ DOMAIN c = OnCallFields /\ c.name = s[i].name
  BY <1>1 DEF SameBut, OnOf, O!Key, O!IsWeb
<1> QED BY <1>2, OnReplaced

LEMMA OnInputs ==
  ASSUME NEW b, O!WellNamed(b), NEW p, OnInv(b, p), NEW k \in DOMAIN b.output,
         NEW event, GoesBy(b, k, event.id, "", event.index),
         event.id # "" \/ event.index # O!Absent
  PROVE  OnStep(b, p, O!AppendInput(p, event)) /\ OnStep(b, p, O!SetInput(p, event))
<1> DEFINE s   == O!Slot(p.calls, event.id, "", event.index)
           i   == O!At(s, event.id, "", event.index)
           old == s[i]
           longer == [old EXCEPT !.partial = Append(old.partial, event.fragment)]
           whole  == [old EXCEPT !.input = event.input, !.partial = << >>]
           q == Replaced(p, s, i, longer)
           r == Replaced(p, s, i, whole)
<1>1. O!AppendInput(p, event) = IF old.web THEN O!SyncWebRequests(q) ELSE O!SyncToolCalls(q)
  BY DEF O!AppendInput, O!ChangeInput, Replaced
<1>2. O!SetInput(p, event) = IF old.web THEN O!SyncWebRequests(r) ELSE O!SyncToolCalls(r)
  BY DEF O!SetInput, O!ChangeInput, Replaced
<1>4. Slotted(b, p.calls, s, i, k)
  BY OnSlot DEF OnInv
<1> HIDE DEF s, i
<1>5. DOMAIN old = OnCallFields
  BY <1>4 DEF Slotted, OnCalls, OnKnows
<1> HIDE DEF old
<1>6. SameBut(old, longer) /\ SameBut(old, whole)
  BY <1>5 DEF SameBut, OnCallFields
<1> HIDE DEF longer, whole
<1>7. OnStep(b, p, q) /\ OnStep(b, p, r)
  BY <1>4, <1>6, OnNewInput DEF old
<1> HIDE DEF q, r
<1> QED BY <1>1, <1>2, <1>7, OnListed

LEMMA OnMergeWebEvent ==
  ASSUME NEW b, O!WellNamed(b), NEW p, OnInv(b, p), NEW k \in DOMAIN b.output,
         O!IsWeb(b.output[k]), NEW event, GoesBy(b, k, event.id, "", event.index)
  PROVE  OnStep(b, p, O!MergeWebEvent(p, event))
<1> DEFINE s    == O!Slot(p.calls, event.id, "", event.index)
           i    == O!At(s, event.id, "", event.index)
           old  == s[i]
           true == TRUE
           input == O!First(event.action, O!First(old.input, O!Raw, << >>), << >>)
           new  == [old EXCEPT !.id = event.id, !.type = "web_search_call",
                               !.name = "web_search_call", !.web = true,
                               !.input = input, !.partial = << >>]
           q    == Replaced(p, s, i, new)
           t    == b.output[k]
<1>1. O!MergeWebEvent(p, event) = IF event.id = "" THEN p ELSE O!SyncWebRequests(q)
  BY DEF O!MergeWebEvent, Replaced
<1>2. t.callId = "" /\ O!Key(t) = t.id
  BY DEF O!WellNamed, O!Key, O!First
<1>3. ASSUME event.id # "" PROVE OnStep(b, p, q)
  <2>2. Slotted(b, p.calls, s, i, k)
    BY <1>3, OnSlot DEF OnInv
  <2> HIDE DEF s, i
  <2>3. OnOf(b, old, k) /\ DOMAIN old = OnCallFields
    BY <2>2 DEF Slotted, OnCalls, OnKnows
  <2> HIDE DEF old, input
  <2>4. true = TRUE
    OBVIOUS
  <2> HIDE DEF true
  <2>5. /\ DOMAIN new = OnCallFields /\ new.index = old.index /\ new.callId = old.callId
        /\ new.id = event.id /\ new.type = "web_search_call" /\ new.name = "web_search_call"
        /\ new.web = true
    BY <2>3 DEF OnCallFields
  <2> HIDE DEF new
  <2>6. new.callId = "" /\ new.id = t.id /\ O!IsPlace(new.index, k)
    BY <1>2, <1>3, <2>3, <2>5 DEF OnOf, GoesBy
  <2>7. O!Key(new) = O!Key(t)
    BY <1>2, <2>6 DEF O!Key, O!First
  <2>8. O!IsWeb(new) /\ O!IsWeb(t) = TRUE
    BY <2>5 DEF O!IsWeb
  <2>9. new.web = O!IsWeb(t) /\ new.name # ""
    BY <2>4, <2>5, <2>8
  <2>10. OnOf(b, new, k)
    BY <2>6, <2>7, <2>8, <2>9 DEF OnOf
  <2> QED BY <2>2, <2>5, <2>9, <2>10, OnReplaced
<1> HIDE DEF q
<1> QED BY <1>1, <1>3, OnListed, OnStays

----------------------------------------------------------------------------
(* The three merges are folds: each has its values up to any place.        *)
CallsUpto(calls, tools, l, g) ==
  g = [n \in 0..l |-> IF n = 0 THEN calls ELSE O!MergeCompletedCall(g[n - 1], tools[n])]

LEMMA CallsExist ==
  ASSUME NEW calls, NEW tools, NEW l \in Nat
  PROVE  \E g : CallsUpto(calls, tools, l, g)
<1> DEFINE N == {n \in Nat : \E g : CallsUpto(calls, tools, n, g)}
<1>1. 0 \in N
  <2> DEFINE g == [i \in 0..0 |-> calls]
  <2>1. CallsUpto(calls, tools, 0, g)
    BY DEF CallsUpto
  <2> QED BY <2>1
<1>2. ASSUME NEW n \in Nat, n \in N PROVE n + 1 \in N
  <2>1. PICK g : CallsUpto(calls, tools, n, g)
    BY <1>2
  <2> DEFINE last == O!MergeCompletedCall(g[n], tools[n + 1])
             h == [i \in 0..(n + 1) |-> IF i = n + 1 THEN last ELSE g[i]]
  <2>2. \A i \in 0..n : h[i] = g[i]
    OBVIOUS
  <2>3. \A i \in 0..n : g[i] = IF i = 0 THEN calls ELSE O!MergeCompletedCall(g[i - 1], tools[i])
    BY <2>1 DEF CallsUpto
  <2>4. ASSUME NEW i \in 0..(n + 1)
        PROVE  h[i] = IF i = 0 THEN calls ELSE O!MergeCompletedCall(h[i - 1], tools[i])
    <3>1. CASE i = n + 1
      <4>1. h[i] = last /\ i - 1 = n /\ h[i - 1] = g[n] /\ i # 0
        BY <3>1
      <4> HIDE DEF h
      <4> QED BY <3>1, <4>1
    <3>2. CASE i \in 0..n
      <4>1. h[i] = g[i] /\ (i # 0 => i - 1 \in 0..n /\ h[i - 1] = g[i - 1])
        BY <2>2, <3>2
      <4> HIDE DEF h
      <4> QED BY <2>3, <3>2, <4>1
    <3> QED BY <3>1, <3>2
  <2>5. DOMAIN h = 0..(n + 1) /\ h = [i \in DOMAIN h |-> h[i]]
    OBVIOUS
  <2> HIDE DEF h
  <2>6. CallsUpto(calls, tools, n + 1, h)
    BY <2>4, <2>5 DEF CallsUpto
  <2> QED BY <2>6
<1> HIDE DEF N
<1>3. Nat \subseteq N
  BY <1>1, <1>2, NatSetInduction
<1> QED BY <1>3 DEF N

WebUpto(previous, incoming, l, g) ==
  g = [n \in 0..l |-> IF n = 0 THEN previous ELSE O!MergeWebRequest(g[n - 1], incoming[n])]

LEMMA WebExists ==
  ASSUME NEW previous, NEW incoming, NEW l \in Nat
  PROVE  \E g : WebUpto(previous, incoming, l, g)
<1> DEFINE N == {n \in Nat : \E g : WebUpto(previous, incoming, n, g)}
<1>1. 0 \in N
  <2> DEFINE g == [i \in 0..0 |-> previous]
  <2>1. WebUpto(previous, incoming, 0, g)
    BY DEF WebUpto
  <2> QED BY <2>1
<1>2. ASSUME NEW n \in Nat, n \in N PROVE n + 1 \in N
  <2>1. PICK g : WebUpto(previous, incoming, n, g)
    BY <1>2
  <2> DEFINE last == O!MergeWebRequest(g[n], incoming[n + 1])
             h == [i \in 0..(n + 1) |-> IF i = n + 1 THEN last ELSE g[i]]
  <2>2. \A i \in 0..n : h[i] = g[i]
    OBVIOUS
  <2>3. \A i \in 0..n : g[i] = IF i = 0 THEN previous ELSE O!MergeWebRequest(g[i - 1], incoming[i])
    BY <2>1 DEF WebUpto
  <2>4. ASSUME NEW i \in 0..(n + 1)
        PROVE  h[i] = IF i = 0 THEN previous ELSE O!MergeWebRequest(h[i - 1], incoming[i])
    <3>1. CASE i = n + 1
      <4>1. h[i] = last /\ i - 1 = n /\ h[i - 1] = g[n] /\ i # 0
        BY <3>1
      <4> HIDE DEF h
      <4> QED BY <3>1, <4>1
    <3>2. CASE i \in 0..n
      <4>1. h[i] = g[i] /\ (i # 0 => i - 1 \in 0..n /\ h[i - 1] = g[i - 1])
        BY <2>2, <3>2
      <4> HIDE DEF h
      <4> QED BY <2>3, <3>2, <4>1
    <3> QED BY <3>1, <3>2
  <2>5. DOMAIN h = 0..(n + 1) /\ h = [i \in DOMAIN h |-> h[i]]
    OBVIOUS
  <2> HIDE DEF h
  <2>6. WebUpto(previous, incoming, n + 1, h)
    BY <2>4, <2>5 DEF WebUpto
  <2> QED BY <2>6
<1> HIDE DEF N
<1>3. Nat \subseteq N
  BY <1>1, <1>2, NatSetInduction
<1> QED BY <1>3 DEF N

ChatUpto(chat, deltas, l, g) ==
  g = [n \in 0..l |-> IF n = 0 THEN chat ELSE O!MergeChatCall(g[n - 1], deltas[n])]

LEMMA ChatExists ==
  ASSUME NEW chat, NEW deltas, NEW l \in Nat
  PROVE  \E g : ChatUpto(chat, deltas, l, g)
<1> DEFINE N == {n \in Nat : \E g : ChatUpto(chat, deltas, n, g)}
<1>1. 0 \in N
  <2> DEFINE g == [i \in 0..0 |-> chat]
  <2>1. ChatUpto(chat, deltas, 0, g)
    BY DEF ChatUpto
  <2> QED BY <2>1
<1>2. ASSUME NEW n \in Nat, n \in N PROVE n + 1 \in N
  <2>1. PICK g : ChatUpto(chat, deltas, n, g)
    BY <1>2
  <2> DEFINE last == O!MergeChatCall(g[n], deltas[n + 1])
             h == [i \in 0..(n + 1) |-> IF i = n + 1 THEN last ELSE g[i]]
  <2>2. \A i \in 0..n : h[i] = g[i]
    OBVIOUS
  <2>3. \A i \in 0..n : g[i] = IF i = 0 THEN chat ELSE O!MergeChatCall(g[i - 1], deltas[i])
    BY <2>1 DEF ChatUpto
  <2>4. ASSUME NEW i \in 0..(n + 1)
        PROVE  h[i] = IF i = 0 THEN chat ELSE O!MergeChatCall(h[i - 1], deltas[i])
    <3>1. CASE i = n + 1
      <4>1. h[i] = last /\ i - 1 = n /\ h[i - 1] = g[n] /\ i # 0
        BY <3>1
      <4> HIDE DEF h
      <4> QED BY <3>1, <4>1
    <3>2. CASE i \in 0..n
      <4>1. h[i] = g[i] /\ (i # 0 => i - 1 \in 0..n /\ h[i - 1] = g[i - 1])
        BY <2>2, <3>2
      <4> HIDE DEF h
      <4> QED BY <2>3, <3>2, <4>1
    <3> QED BY <3>1, <3>2
  <2>5. DOMAIN h = 0..(n + 1) /\ h = [i \in DOMAIN h |-> h[i]]
    OBVIOUS
  <2> HIDE DEF h
  <2>6. ChatUpto(chat, deltas, n + 1, h)
    BY <2>4, <2>5 DEF ChatUpto
  <2> QED BY <2>6
<1> HIDE DEF N
<1>3. Nat \subseteq N
  BY <1>1, <1>2, NatSetInduction
<1> QED BY <1>3 DEF N

----------------------------------------------------------------------------
(* The calls of the final response.                                        *)

\* A call of a body that is one of the tools of an item.
ToolOf(b, call) ==
  /\ call.name # ""
  /\ \E k \in DOMAIN b.output : ~ O!IsWeb(b.output[k]) /\ call.id = O!Key(b.output[k])

LEMMA OnCompletedCall ==
  ASSUME NEW b, O!WellNamed(b), NEW calls, OnCalls(b, calls), NEW call, ToolOf(b, call)
  PROVE  Kept(b, calls, O!MergeCompletedCall(calls, call))
<1> DEFINE s     == O!Slot(calls, call.id, "", O!Absent)
           i     == O!At(s, call.id, "", O!Absent)
           old   == s[i]
           input == O!First(call.input, old.input, << >>)
           part  == IF call.input = << >> THEN old.partial ELSE << >>
           new   == [old EXCEPT !.id = O!First(call.id, old.id, ""), !.name = call.name,
                                !.input = input, !.partial = part]
           next  == [s EXCEPT ![i] = new]
<1>1. O!MergeCompletedCall(calls, call) = next
  BY DEF O!MergeCompletedCall
<1>2. PICK k \in DOMAIN b.output : ~ O!IsWeb(b.output[k]) /\ call.id = O!Key(b.output[k])
  BY DEF ToolOf
<1> DEFINE t == b.output[k]
<1>3. O!Key(t) # "" /\ O!Key(t) = IF t.callId # "" THEN t.callId ELSE t.id
  BY DEF O!WellNamed, O!Key, O!First
<1>4. GoesBy(b, k, call.id, "", O!Absent)
  BY <1>2, <1>3 DEF GoesBy, O!IsPlace
<1>5. Slotted(b, calls, s, i, k)
  BY <1>2, <1>3, <1>4, OnSlot
<1> HIDE DEF s, i
<1>6. OnOf(b, old, k) /\ DOMAIN old = OnCallFields
  BY <1>5 DEF Slotted, OnCalls, OnKnows
<1> HIDE DEF old, input, part
<1>7. /\ DOMAIN new = OnCallFields /\ new.index = old.index /\ new.callId = old.callId
      /\ new.id = O!First(call.id, old.id, "") /\ new.type = old.type
      /\ new.name = call.name /\ new.web = old.web
  BY <1>6 DEF OnCallFields
<1> HIDE DEF new
<1>8. new.id = O!Key(t)
  BY <1>2, <1>3, <1>7 DEF O!First
<1>9. O!Key(new) = O!Key(t)
  <2>1. new.callId \in {"", t.callId}
    BY <1>6, <1>7 DEF OnOf
  <2> QED BY <1>3, <1>8, <2>1 DEF O!Key, O!First
<1>10. O!IsWeb(t) = FALSE
  BY <1>2 DEF O!IsWeb
<1>11. new.web = O!IsWeb(t)
  BY <1>6, <1>7, <1>10 DEF OnOf
<1>12. OnOf(b, new, k) /\ new.name # ""
  <2>1. new.id \in {"", t.id, t.callId}
    BY <1>3, <1>8
  <2> QED BY <1>2, <1>6, <1>7, <1>9, <1>11, <2>1 DEF OnOf, ToolOf
<1>13. Kept(b, s, next)
  BY <1>5, <1>6, <1>7, <1>12, OnChange DEF Slotted, old
<1> HIDE DEF next
<1> QED BY <1>1, <1>5, <1>13 DEF Kept, Slotted

LEMMA OnCompletedCalls ==
  ASSUME NEW b, O!WellNamed(b), NEW calls, OnCalls(b, calls), NEW tools, Sequence(tools),
         \A i \in DOMAIN tools : ToolOf(b, tools[i]), NEW g,
         CallsUpto(calls, tools, Len(tools), g)
  PROVE  Kept(b, calls, g[Len(tools)])
<1>1. Len(tools) \in Nat /\ DOMAIN tools = 1..Len(tools)
  BY SequenceIs
<1>2. \A i \in 0..Len(tools) :
        g[i] = IF i = 0 THEN calls ELSE O!MergeCompletedCall(g[i - 1], tools[i])
  BY DEF CallsUpto
<1> DEFINE N == {n \in Nat : n <= Len(tools) => Kept(b, calls, g[n])}
<1>3. 0 \in N
  <2>1. g[0] = calls
    BY <1>1, <1>2
  <2> QED BY <2>1 DEF Kept
<1>4. ASSUME NEW n \in Nat, n \in N PROVE n + 1 \in N
  <2> SUFFICES ASSUME n + 1 <= Len(tools) PROVE Kept(b, calls, g[n + 1])
    OBVIOUS
  <2> DEFINE m == n + 1
             c == g[n]
  <2>1. m \in 0..Len(tools) /\ m \in DOMAIN tools /\ m # 0 /\ m - 1 = n /\ n <= Len(tools)
    BY <1>1
  <2>2. Kept(b, calls, c)
    BY <1>4, <2>1
  <2> HIDE DEF m, N
  <2>3. g[m] = O!MergeCompletedCall(g[m - 1], tools[m])
    BY <1>2, <2>1
  <2>4. g[m] = O!MergeCompletedCall(c, tools[m])
    BY <2>1, <2>3, Zenon
  <2> HIDE DEF c
  <2>5. Kept(b, c, g[m])
    BY <2>1, <2>2, <2>4, OnCompletedCall DEF Kept
  <2>6. Kept(b, calls, g[m])
    BY <2>2, <2>5 DEF Kept
  <2> QED BY <2>6 DEF m
<1> HIDE DEF N
<1>5. Nat \subseteq N
  BY <1>3, <1>4, NatSetInduction
<1> QED BY <1>1, <1>5 DEF N

\* Those of the stream, and of the others none that is not asked for.
Merged(previous, incoming, s) ==
  /\ Sequence(s)
  /\ A!Ids(previous) \subseteq A!Ids(s)
  /\ A!Ids(s) \subseteq A!Ids(previous) \cup A!Ids(incoming)

LEMMA WebMerged ==
  ASSUME NEW previous, Sequence(previous), NEW incoming, Sequence(incoming)
  PROVE  Merged(previous, incoming, O!MergeWebRequests(previous, incoming))
<1>1. Len(incoming) \in Nat /\ DOMAIN incoming = 1..Len(incoming)
  BY SequenceIs
<1> DEFINE g == CHOOSE g : WebUpto(previous, incoming, Len(incoming), g)
<1>0. WebUpto(previous, incoming, Len(incoming), g)
  BY <1>1, WebExists
<1>2. O!MergeWebRequests(previous, incoming)
        = IF previous = << >> THEN incoming ELSE g[Len(incoming)]
  BY DEF O!MergeWebRequests, WebUpto
<1> HIDE DEF g
<1>3. \A i \in 0..Len(incoming) :
        g[i] = IF i = 0 THEN previous ELSE O!MergeWebRequest(g[i - 1], incoming[i])
  BY <1>0 DEF WebUpto
<1> DEFINE N == {n \in Nat : n <= Len(incoming) => Merged(previous, incoming, g[n])}
<1>4. 0 \in N
  <2>1. g[0] = previous
    BY <1>1, <1>3
  <2> QED BY <2>1 DEF Merged
<1>5. ASSUME NEW n \in Nat, n \in N PROVE n + 1 \in N
  <2> SUFFICES ASSUME n + 1 <= Len(incoming) PROVE Merged(previous, incoming, g[n + 1])
    OBVIOUS
  <2> DEFINE m == n + 1
             c == g[n]
  <2>1. /\ m \in 0..Len(incoming) /\ m \in DOMAIN incoming /\ m # 0 /\ m - 1 = n
        /\ n <= Len(incoming)
    BY <1>1
  <2>2. Merged(previous, incoming, c)
    BY <1>5, <2>1
  <2> HIDE DEF m, N
  <2>3. g[m] = O!MergeWebRequest(g[m - 1], incoming[m])
    BY <1>3, <2>1
  <2>4. g[m] = O!MergeWebRequest(c, incoming[m])
    BY <2>1, <2>3, Zenon
  <2> HIDE DEF c
  <2>5. CASE g[m] = c
    BY <2>2, <2>5 DEF m
  <2>6. CASE g[m] = Append(c, incoming[m])
    <3> DEFINE e == incoming[m]
               d == g[m]
    <3>1. Extended(c, e, d)
      BY <2>2, <2>6, AppendExtends DEF Merged
    <3>2. e.id \in A!Ids(incoming)
      BY <2>1 DEF A!Ids
    <3> HIDE DEF d, e
    <3>3. A!Ids(c) \subseteq A!Ids(d) /\ A!Ids(d) \subseteq A!Ids(c) \cup {e.id}
      BY <3>1 DEF Extended, A!Ids
    <3>4. Merged(previous, incoming, d)
      BY <2>2, <3>1, <3>2, <3>3 DEF Merged, Extended
    <3> QED BY <3>4 DEF d, m
  <2> QED BY <2>4, <2>5, <2>6 DEF O!MergeWebRequest
<1> HIDE DEF N
<1>6. Nat \subseteq N
  BY <1>4, <1>5, NatSetInduction
<1>7. previous = << >> => Merged(previous, incoming, incoming)
  BY EmptySequence DEF Merged, A!Ids
<1> QED BY <1>1, <1>2, <1>6, <1>7 DEF N

----------------------------------------------------------------------------
(* The calls of Chat Completions go by their place.                        *)
DeltaOf(b, d) ==
  \E i \in DOMAIN b.chat : d.index = i - 1 /\ d.id \in {"", b.chat[i].id}

ChatKept(b, chat, s) == OnChat(b, s) /\ ChatTools(chat) \subseteq ChatTools(s) \cup {""}

LEMMA ChatSlotted ==
  ASSUME NEW b, NEW chat, OnChat(b, chat), NEW d, DeltaOf(b, d)
  PROVE  LET s == O!ChatSlot(chat, d.index)
             i == O!ChatAt(s, d.index)
         IN  ChatKept(b, chat, s) /\ i \in DOMAIN s /\ s[i].index = d.index
<1> DEFINE new == [index |-> d.index, id |-> "", name |-> "", partial |-> << >>]
           s == O!ChatSlot(chat, d.index)
           i == O!ChatAt(s, d.index)
<1>0. Sequence(chat)
  BY DEF OnChat
<1>1. ChatKept(b, chat, s) /\ \E j \in DOMAIN s : s[j].index = d.index
  <2>1. CASE \E j \in DOMAIN chat : chat[j].index = d.index
    <3>1. s = chat
      BY <2>1 DEF O!ChatSlot
    <3> QED BY <2>1, <3>1 DEF ChatKept
  <2>2. CASE ~ \E j \in DOMAIN chat : chat[j].index = d.index
    <3>1. s = Append(chat, new)
      BY <2>2 DEF O!ChatSlot
    <3>2. /\ DOMAIN new = {"index", "id", "name", "partial"} /\ new.id = ""
          /\ new.index = d.index
      OBVIOUS
    <3> HIDE DEF new
    <3>3. ChatKnows(b, new)
      BY <3>2 DEF ChatKnows, ChatOf, DeltaOf
    <3>4. Extended(chat, new, s)
      BY <1>0, <3>1, AppendExtends, Zenon
    <3> HIDE DEF s
    <3>5. OnChat(b, s)
      BY <3>3, <3>4 DEF OnChat, Extended
    <3>6. ChatTools(chat) \subseteq ChatTools(s)
      BY <3>4 DEF ChatTools, O!Named, Extended
    <3> QED BY <3>2, <3>4, <3>5, <3>6 DEF ChatKept, Extended
  <2> QED BY <2>1, <2>2
<1> HIDE DEF s
<1>2. i \in DOMAIN s /\ s[i].index = d.index
  BY <1>1 DEF O!ChatAt
<1> QED BY <1>1, <1>2 DEF s

LEMMA ChatCallMerged ==
  ASSUME NEW b, O!WellNamed(b), NEW chat, OnChat(b, chat), NEW d, DeltaOf(b, d)
  PROVE  ChatKept(b, chat, O!MergeChatCall(chat, d))
<1> DEFINE s    == O!ChatSlot(chat, d.index)
           i    == O!ChatAt(s, d.index)
           old  == s[i]
           part == old.partial \o d.input
           new  == [old EXCEPT !.id = O!First(d.id, old.id, ""),
                               !.name = O!First(d.name, old.name, ""),
                               !.partial = part]
           next == [s EXCEPT ![i] = new]
<1>1. O!MergeChatCall(chat, d) = next
  BY DEF O!MergeChatCall
<1>2. ChatKept(b, chat, s) /\ i \in DOMAIN s /\ old.index = d.index
  BY ChatSlotted
<1> HIDE DEF s, i
<1>3. ChatKnows(b, old)
  BY <1>2 DEF ChatKept, OnChat
<1>4. PICK k \in DOMAIN b.chat : d.index = k - 1 /\ d.id \in {"", b.chat[k].id}
  BY DEF DeltaOf
<1>5. old.id \in {"", b.chat[k].id}
  <2>1. PICK j \in DOMAIN b.chat : ChatOf(b, old, j)
    BY <1>3 DEF ChatKnows
  <2>2. j - 1 = k - 1 /\ j \in Nat /\ k \in Nat
    BY <1>2, <1>4, <2>1 DEF ChatOf, O!WellNamed
  <2>3. j = k
    BY <2>2, SamePlace
  <2> QED BY <2>1, <2>3 DEF ChatOf
<1> HIDE DEF old, part
<1>6. /\ DOMAIN new = {"index", "id", "name", "partial"} /\ new.index = d.index
      /\ new.id = O!First(d.id, old.id, "") /\ new.name = O!First(d.name, old.name, "")
  BY <1>2, <1>3 DEF ChatKnows, old
<1> HIDE DEF new
<1>7. /\ new.id \in {"", b.chat[k].id} /\ old.id \in {"", new.id}
      /\ old.name # "" => new.name # ""
  BY <1>4, <1>5, <1>6 DEF O!First
<1>8. ChatKnows(b, new)
  BY <1>4, <1>6, <1>7 DEF ChatKnows, ChatOf
<1>9. /\ Sequence(next) /\ DOMAIN next = DOMAIN s /\ next[i] = new
      /\ \A j \in DOMAIN s : j # i => next[j] = s[j]
  BY <1>2, SequenceExcept DEF ChatKept, OnChat
<1> HIDE DEF next
<1>10. OnChat(b, next)
  BY <1>2, <1>8, <1>9 DEF ChatKept, OnChat
<1>11. ASSUME NEW j \in O!Named(s) PROVE j \in O!Named(next) /\ s[j].id \in {"", next[j].id}
  BY <1>2, <1>7, <1>9 DEF O!Named, old
<1>12. ChatTools(s) \subseteq ChatTools(next) \cup {""}
  BY <1>11 DEF ChatTools
<1> QED BY <1>1, <1>2, <1>10, <1>12 DEF ChatKept

LEMMA ChatMerged ==
  ASSUME NEW b, O!WellNamed(b), NEW chat, OnChat(b, chat), NEW deltas, Sequence(deltas),
         \A i \in DOMAIN deltas : DeltaOf(b, deltas[i])
  PROVE  ChatKept(b, chat, O!MergeChatCalls(chat, deltas))
<1>1. Len(deltas) \in Nat /\ DOMAIN deltas = 1..Len(deltas)
  BY SequenceIs
<1> DEFINE g == CHOOSE g : ChatUpto(chat, deltas, Len(deltas), g)
<1>0. ChatUpto(chat, deltas, Len(deltas), g)
  BY <1>1, ChatExists
<1>2. O!MergeChatCalls(chat, deltas) = g[Len(deltas)]
  BY DEF O!MergeChatCalls, ChatUpto
<1> HIDE DEF g
<1>3. \A i \in 0..Len(deltas) :
        g[i] = IF i = 0 THEN chat ELSE O!MergeChatCall(g[i - 1], deltas[i])
  BY <1>0 DEF ChatUpto
<1> DEFINE N == {n \in Nat : n <= Len(deltas) => ChatKept(b, chat, g[n])}
<1>4. 0 \in N
  <2>1. g[0] = chat
    BY <1>1, <1>3
  <2> QED BY <2>1 DEF ChatKept
<1>5. ASSUME NEW n \in Nat, n \in N PROVE n + 1 \in N
  <2> SUFFICES ASSUME n + 1 <= Len(deltas) PROVE ChatKept(b, chat, g[n + 1])
    OBVIOUS
  <2> DEFINE m == n + 1
             c == g[n]
  <2>1. /\ m \in 0..Len(deltas) /\ m \in DOMAIN deltas /\ m # 0 /\ m - 1 = n
        /\ n <= Len(deltas)
    BY <1>1
  <2>2. ChatKept(b, chat, c)
    BY <1>5, <2>1
  <2> HIDE DEF m, N
  <2>3. g[m] = O!MergeChatCall(g[m - 1], deltas[m])
    BY <1>3, <2>1
  <2>4. g[m] = O!MergeChatCall(c, deltas[m])
    BY <2>1, <2>3, Zenon
  <2> HIDE DEF c
  <2>5. ChatKept(b, c, g[m])
    BY <2>1, <2>2, <2>4, ChatCallMerged DEF ChatKept
  <2>6. ChatKept(b, chat, g[m])
    BY <2>2, <2>5 DEF ChatKept
  <2> QED BY <2>6 DEF m
<1> HIDE DEF N
<1>6. Nat \subseteq N
  BY <1>4, <1>5, NatSetInduction
<1> QED BY <1>1, <1>2, <1>6 DEF N

LEMMA OnChunk ==
  ASSUME NEW b, O!WellNamed(b), NEW p, OnInv(b, p), NEW event,
         event.type = "chat.completion.chunk", O!Tells(b, event)
  PROVE  OnStep(b, p, O!HandleChunk(p, event))
<1> DEFINE chat == O!MergeChatCalls(p.chat, event.calls)
           id   == O!First(event.id, p.result.id, "")
           q    == [p EXCEPT !.result.id = id, !.chat = chat]
           r    == O!SyncToolCalls(q)
           use  == O!ToUsage(event.usage)
           true == TRUE
           u    == [r EXCEPT !.result.usage = use, !.terminal = true]
<1>1. O!HandleChunk(p, event) = IF event.usage = O!NoUsage THEN r ELSE u
  BY DEF O!HandleChunk
<1>2. /\ event.id \in {"", b.id}
      /\ Sequence(event.calls) /\ \A j \in DOMAIN event.calls : DeltaOf(b, event.calls[j])
  BY DEF O!Tells, Sequence, DeltaOf
<1>3. ChatKept(b, p.chat, chat)
  BY <1>2, ChatMerged DEF OnInv
<1>4. id \in {"", b.id} /\ p.result.id \in {"", id}
  BY <1>2 DEF OnInv, O!First
<1>5. true = TRUE
  OBVIOUS
<1> HIDE DEF chat, id, use, true
<1>6. /\ OnShape(q) /\ q.calls = p.calls /\ q.chat = chat /\ q.terminal = p.terminal
      /\ q.result.id = id /\ q.result.error = p.result.error
      /\ q.result.web = p.result.web /\ q.result.tools = p.result.tools
  BY DEF OnInv, OnShape, ResultFields
<1> HIDE DEF q
<1>7. OnInv(b, q)
  BY <1>3, <1>4, <1>6 DEF OnInv, ChatKept
<1>8. More(p.result, q.result)
  BY <1>4, <1>6 DEF More
<1>9. OnStep(b, p, q)
  BY <1>6, <1>7, <1>8 DEF OnStep
<1>10. OnStep(b, p, r)
  BY <1>9, OnListed
<1> HIDE DEF r
<1>11. /\ OnShape(u) /\ u.calls = r.calls /\ u.chat = r.chat /\ u.terminal = TRUE
       /\ u.result.id = r.result.id /\ u.result.error = r.result.error
       /\ u.result.web = r.result.web /\ u.result.tools = r.result.tools
  BY <1>5, <1>10 DEF OnStep, OnInv, OnShape, ResultFields
<1> HIDE DEF u
<1>12. OnInv(b, u) /\ More(r.result, u.result)
  BY <1>10, <1>11 DEF OnStep, OnInv, More
<1>13. OnStep(b, r, u)
  BY <1>11, <1>12 DEF OnStep
<1> QED BY <1>1, <1>10, <1>13, OnTrans

----------------------------------------------------------------------------
(* The event that carries the response.                                    *)
Spoken(b) ==
  {""} \cup {O!Key(b.output[i]) : i \in DOMAIN b.output}
       \cup {b.chat[i].id : i \in DOMAIN b.chat}

OnSays(b, p) ==
  /\ OnShape(p)
  /\ A!Ids(p.result.tools) \subseteq Spoken(b)
  /\ A!Ids(p.result.web) \subseteq Spoken(b)
  /\ p.result.id \in {"", b.id}
  /\ p.result.error \in {"", b.error}

LEMMA OnCallsSay ==
  ASSUME NEW b, NEW calls, OnCalls(b, calls), NEW chat, OnChat(b, chat)
  PROVE  OnTools(calls) \cup OnWeb(calls) \cup ChatTools(chat) \subseteq Spoken(b)
<1>1. ASSUME NEW i \in ToolPlaces(calls) PROVE O!Key(calls[i]) \in Spoken(b)
  BY DEF OnCalls, OnKnows, OnOf, ToolPlaces, O!Named, Spoken
<1>2. ASSUME NEW i \in WebPlaces(calls) PROVE O!Key(calls[i]) \in Spoken(b)
  BY DEF OnCalls, OnKnows, OnOf, WebPlaces, Spoken
<1>3. ASSUME NEW i \in O!Named(chat) PROVE chat[i].id \in Spoken(b)
  BY DEF OnChat, ChatKnows, ChatOf, O!Named, Spoken
<1> QED BY <1>1, <1>2, <1>3 DEF OnTools, OnWeb, ChatTools

LEMMA OnInvSays == ASSUME NEW b, NEW p, OnInv(b, p) PROVE OnSays(b, p)
<1>1. OnTools(p.calls) \cup OnWeb(p.calls) \cup ChatTools(p.chat) \cup {""} \subseteq Spoken(b)
  BY OnCallsSay DEF OnInv, Spoken
<1> QED BY <1>1 DEF OnInv, OnSays

\* What a response lists is what the body holds.
LEMMA OutputListed ==
  ASSUME NEW b, NEW items, Sequence(items),
         \A j \in DOMAIN items : \E i \in DOMAIN b.output : O!SameItem(items[j], b.output[i])
  PROVE  /\ Sequence(O!OutputCalls(items)) /\ Sequence(O!OutputWebRequests(items))
         /\ \A i \in DOMAIN O!OutputCalls(items) : ToolOf(b, O!OutputCalls(items)[i])
         /\ A!Ids(O!OutputWebRequests(items)) \subseteq Spoken(b)
<1> DEFINE I == {i \in DOMAIN items : ~ O!IsWeb(items[i]) /\ O!NameOf(items[i]) # ""}
           J == {i \in DOMAIN items : O!IsWeb(items[i])}
           tools == O!Selected(items, I)
           webs  == O!Selected(items, J)
           t == O!OutputCalls(items)
           w == O!OutputWebRequests(items)
<1>1. t = [i \in DOMAIN tools |-> O!Call(O!Key(tools[i]), O!NameOf(tools[i]), tools[i].input)]
  BY DEF O!OutputCalls
<1>2. w = [i \in DOMAIN webs |-> O!Call(O!Key(webs[i]), "web_search_call",
                                        IF webs[i].given THEN webs[i].input ELSE O!Raw)]
  BY DEF O!OutputWebRequests
<1>3. \A i \in DOMAIN items : \E k \in DOMAIN b.output :
        O!Key(items[i]) = O!Key(b.output[k]) /\ O!IsWeb(items[i]) = O!IsWeb(b.output[k])
  BY DEF O!SameItem, O!Key, O!IsWeb
<1>4. Sequence(tools) /\ \A j \in DOMAIN tools : \E i \in I : tools[j] = items[i]
  <2>1. tools = A!Selected(items, I)
    BY SelectedIs
  <2> HIDE DEF tools, I
  <2>2. LET u == A!Selected(items, I)
        IN  /\ Sequence(u)
            /\ \A j \in DOMAIN u : \E i \in DOMAIN items : i \in I /\ u[j] = items[i]
            /\ \A i \in DOMAIN items : i \in I => \E j \in DOMAIN u : u[j] = items[i]
    BY SelectedHolds
  <2> QED BY <2>1, <2>2
<1>5. Sequence(webs) /\ \A j \in DOMAIN webs : \E i \in J : webs[j] = items[i]
  <2>1. webs = A!Selected(items, J)
    BY SelectedIs
  <2> HIDE DEF webs, J
  <2>2. LET u == A!Selected(items, J)
        IN  /\ Sequence(u)
            /\ \A j \in DOMAIN u : \E i \in DOMAIN items : i \in J /\ u[j] = items[i]
            /\ \A i \in DOMAIN items : i \in J => \E j \in DOMAIN u : u[j] = items[i]
    BY SelectedHolds
  <2> QED BY <2>1, <2>2
<1> HIDE DEF tools, webs, t, w
<1>6. /\ DOMAIN t = DOMAIN tools /\ t = [i \in DOMAIN tools |-> t[i]]
      /\ \A i \in DOMAIN t : t[i].id = O!Key(tools[i]) /\ t[i].name = O!NameOf(tools[i])
  BY <1>1 DEF O!Call
<1>7. /\ DOMAIN w = DOMAIN webs /\ w = [i \in DOMAIN webs |-> w[i]]
      /\ \A i \in DOMAIN w : w[i].id = O!Key(webs[i])
  BY <1>2 DEF O!Call
<1>8. Sequence(t) /\ Sequence(w)
  BY <1>4, <1>5, <1>6, <1>7, SequenceLike
<1>9. ASSUME NEW i \in DOMAIN t PROVE ToolOf(b, t[i])
  <2>1. PICK j \in I : tools[i] = items[j]
    BY <1>4, <1>6
  <2>2. PICK k \in DOMAIN b.output :
          O!Key(items[j]) = O!Key(b.output[k]) /\ O!IsWeb(items[j]) = O!IsWeb(b.output[k])
    BY <1>3
  <2>3. ~ O!IsWeb(b.output[k]) /\ t[i].id = O!Key(b.output[k]) /\ t[i].name # ""
    BY <1>6, <2>1, <2>2
  <2> QED BY <2>3 DEF ToolOf
<1>10. ASSUME NEW i \in DOMAIN w PROVE w[i].id \in Spoken(b)
  <2>1. PICK j \in J : webs[i] = items[j]
    BY <1>5, <1>7
  <2>2. PICK k \in DOMAIN b.output : O!Key(items[j]) = O!Key(b.output[k])
    BY <1>3
  <2> QED BY <1>7, <2>1, <2>2 DEF Spoken
<1> QED BY <1>8, <1>9, <1>10 DEF t, w, A!Ids

LEMMA NoChatCalls == O!ChatCalls(<< >>) = << >>
<1> DEFINE I == O!Named(<< >>)
           named == O!Selected(<< >>, I)
           t == O!ChatCalls(<< >>)
<1>1. t = [i \in DOMAIN named |-> O!Call(named[i].id, named[i].name, named[i].input)]
  BY DEF O!ChatCalls
<1>2. Sequence(named) /\ DOMAIN named = {}
  <2>1. named = A!Selected(<< >>, I)
    BY EmptySequence, SelectedIs
  <2> HIDE DEF named, I
  <2>2. LET u == A!Selected(<< >>, I)
        IN  /\ Sequence(u)
            /\ \A j \in DOMAIN u : \E i \in DOMAIN << >> : i \in I /\ u[j] = << >>[i]
            /\ \A i \in DOMAIN << >> : i \in I => \E j \in DOMAIN u : u[j] = << >>[i]
    BY EmptySequence, SelectedHolds
  <2> QED BY <2>1, <2>2, EmptySequence
<1> HIDE DEF named, t
<1>3. DOMAIN t = {} /\ t = [i \in {} |-> t[i]]
  BY <1>1, <1>2
<1> QED BY <1>3 DEF t

\* What the response of the final event brings.
LEMMA ResponseListed ==
  ASSUME NEW b, NEW response, response.chat = << >>, Sequence(response.output),
         \A j \in DOMAIN response.output : \E i \in DOMAIN b.output :
            O!SameItem(response.output[j], b.output[i])
  PROVE  LET c == O!Completed(response)
         IN  /\ DOMAIN c = ResultFields /\ c.id = response.id
             /\ Sequence(c.tools) /\ \A i \in DOMAIN c.tools : ToolOf(b, c.tools[i])
             /\ Sequence(c.web) /\ A!Ids(c.web) \subseteq Spoken(b)
<1> DEFINE c == O!Completed(response)
           s == O!OutputCalls(response.output)
           w == O!OutputWebRequests(response.output)
           t == s \o << >>
           u == O!ToUsage(response.usage)
<1>1. c = [id |-> response.id, usage |-> u, tools |-> t, web |-> w, error |-> ""]
  BY NoChatCalls DEF O!Completed
<1>2. /\ Sequence(s) /\ Sequence(w) /\ \A i \in DOMAIN s : ToolOf(b, s[i])
      /\ A!Ids(w) \subseteq Spoken(b)
  BY OutputListed
<1> HIDE DEF s, w, u, c
<1>3. Joined(s, << >>, t)
  BY <1>2, EmptySequence, SequenceConcat
<1> HIDE DEF t
<1>4. Sequence(t) /\ \A i \in DOMAIN t : ToolOf(b, t[i])
  BY <1>2, <1>3, EmptySequence DEF Joined
<1>5. /\ DOMAIN c = ResultFields /\ c.id = response.id /\ c.tools = t /\ c.web = w
  BY <1>1 DEF ResultFields
<1> QED BY <1>2, <1>4, <1>5 DEF c

Finals == {"response.completed", "response.failed", "response.incomplete"}

\* A step that may not be followed by another.
OnLast(b, p, q) ==
  /\ OnSays(b, q)
  /\ More(p.result, q.result)
  /\ p.terminal => q.terminal

LEMMA OnTakeResponse ==
  ASSUME NEW b, O!WellNamed(b), NEW p, OnInv(b, p), NEW event, event.type \in Finals,
         event.carries = "response", O!Tells(b, event)
  PROVE  OnLast(b, p, O!TakeResponse(p, event))
<1> DEFINE c      == O!Completed(event.response)
           given  == [c EXCEPT !.error = p.result.error]
           r      == [p EXCEPT !.result = given]
           failed == event.type = "response.failed" /\ event.response.error # ""
           g      == CHOOSE g : CallsUpto(r.calls, c.tools, Len(c.tools), g)
           calls  == g[Len(c.tools)]
           s      == [r EXCEPT !.calls = calls]
           u      == O!SyncToolCalls(s)
           web    == O!MergeWebRequests(p.result.web, c.web)
           error  == IF failed THEN event.response.error ELSE u.result.error
           q      == [u EXCEPT !.result.web = web, !.result.error = error]
<1>1. O!TakeResponse(p, event) =
        [O!MergeCompletedCalls(r, c.tools) EXCEPT
           !.result.web = web,
           !.result.error = IF failed THEN event.response.error
                            ELSE O!MergeCompletedCalls(r, c.tools).result.error]
  BY DEF O!TakeResponse
<1>2. O!MergeCompletedCalls(r, c.tools) = u
  BY DEF O!MergeCompletedCalls, CallsUpto
<1>3. O!TakeResponse(p, event) = q
  BY <1>1, <1>2
<1>4. /\ event.response.id = b.id /\ event.response.error \in {"", b.error}
      /\ event.response.chat = << >> /\ Sequence(event.response.output)
      /\ \A j \in DOMAIN event.response.output : \E i \in DOMAIN b.output :
           O!SameItem(event.response.output[j], b.output[i])
  BY DEF O!Tells, Sequence, Finals
<1>5. /\ DOMAIN c = ResultFields /\ c.id = b.id
      /\ Sequence(c.tools) /\ \A i \in DOMAIN c.tools : ToolOf(b, c.tools[i])
      /\ Sequence(c.web) /\ A!Ids(c.web) \subseteq Spoken(b)
  BY <1>4, ResponseListed
<1> HIDE DEF c, failed
<1>6. /\ OnShape(p) /\ OnCalls(b, p.calls) /\ OnChat(b, p.chat)
  BY DEF OnInv
<1>7. /\ DOMAIN given = ResultFields /\ given.id = b.id /\ given.error = p.result.error
      /\ given.web = c.web
  BY <1>5 DEF ResultFields
<1> HIDE DEF given
<1>8. /\ DOMAIN r = DOMAIN p /\ r.result = given /\ r.calls = p.calls /\ r.chat = p.chat
      /\ r.terminal = p.terminal
  BY <1>6 DEF OnShape
<1> HIDE DEF r
<1>9. CallsUpto(r.calls, c.tools, Len(c.tools), g)
  BY <1>5, CallsExist, SequenceIs
<1> HIDE DEF g
<1>10. Kept(b, p.calls, calls)
  BY <1>5, <1>6, <1>8, <1>9, OnCompletedCalls
<1> HIDE DEF calls
<1>11. /\ OnShape(s) /\ s.calls = calls /\ s.chat = p.chat /\ s.terminal = p.terminal
       /\ s.result = given
  BY <1>5, <1>6, <1>7, <1>8 DEF OnShape
<1> HIDE DEF s
<1>12. Sequence(s.calls) /\ Sequence(s.chat)
  BY <1>6, <1>10, <1>11 DEF Kept, OnCalls, OnChat
<1>13. /\ OnShape(u) /\ u.terminal = p.terminal
       /\ u.result.id = b.id /\ u.result.error = p.result.error
       /\ A!Ids(u.result.tools) = OnTools(calls) \cup ChatTools(p.chat)
  BY <1>7, <1>11, <1>12, OnToolsListed
<1> HIDE DEF u
<1>14. Merged(p.result.web, c.web, web)
  BY <1>5, <1>6, WebMerged DEF OnShape
<1> HIDE DEF web
<1>15. error \in {"", b.error} /\ p.result.error \in {"", error}
  BY <1>4, <1>13 DEF OnInv, failed
<1> HIDE DEF error
<1>16. /\ OnShape(q) /\ q.terminal = p.terminal /\ q.result.id = b.id
       /\ q.result.error = error /\ q.result.web = web /\ q.result.tools = u.result.tools
  BY <1>13, <1>14 DEF OnShape, ResultFields, Merged
<1> HIDE DEF q
<1>17. OnTools(calls) \cup ChatTools(p.chat) \subseteq Spoken(b)
  BY <1>6, <1>10, OnCallsSay DEF Kept
<1>18. A!Ids(p.result.web) \subseteq Spoken(b)
  BY OnInvSays DEF OnSays
<1>19. OnSays(b, q)
  BY <1>5, <1>13, <1>14, <1>15, <1>16, <1>17, <1>18 DEF OnSays, Merged
<1>20. A!Ids(p.result.tools) \subseteq A!Ids(q.result.tools) \cup {""}
  BY <1>10, <1>13, <1>16 DEF OnInv, Kept
<1>21. More(p.result, q.result)
  BY <1>14, <1>15, <1>16, <1>20 DEF More, Merged, OnInv
<1> QED BY <1>3, <1>16, <1>19, <1>21 DEF OnLast

----------------------------------------------------------------------------
(* The end of a response, and every event.                                 *)
LEMMA OnStepLasts ==
  ASSUME NEW b, NEW p, NEW q, OnStep(b, p, q)
  PROVE  OnLast(b, p, q)
  BY OnInvSays DEF OnStep, OnLast

\* A flag is set, or the error noted that the stream ends with.
LEMMA OnNote ==
  ASSUME NEW b, NEW p, NEW q, OnShape(q), q.calls = p.calls, q.chat = p.chat,
         p.terminal => q.terminal, q.result.tools = p.result.tools, q.result.web = p.result.web,
         q.result.id = p.result.id, q.result.error \in {p.result.error, b.error},
         p.result.error \in {"", q.result.error}
  PROVE  /\ OnInv(b, p) => OnStep(b, p, q)
         /\ OnSays(b, p) => OnLast(b, p, q)
<1>1. More(p.result, q.result)
  BY DEF More
<1>2. OnInv(b, p) => OnInv(b, q)
  BY DEF OnInv
<1>3. OnSays(b, p) => OnSays(b, q)
  BY DEF OnSays
<1> QED BY <1>1, <1>2, <1>3 DEF OnStep, OnLast

LEMMA OnLastTrans ==
  ASSUME NEW b, NEW p, NEW q, NEW r, OnLast(b, p, q), OnLast(b, q, r)
  PROVE  OnLast(b, p, r)
  BY DEF OnLast, More

LEMMA OnMalformed ==
  ASSUME NEW b, NEW p, OnInv(b, p)
  PROVE  OnStep(b, p, [p EXCEPT !.malformed = TRUE])
<1> DEFINE q == [p EXCEPT !.malformed = TRUE]
<1>1. /\ OnShape(q) /\ q.calls = p.calls /\ q.chat = p.chat /\ q.terminal = p.terminal
      /\ q.result = p.result
  BY DEF OnInv, OnShape
<1> HIDE DEF q
<1>2. p.result.error \in {"", q.result.error}
  BY <1>1
<1> QED BY <1>1, <1>2, OnNote DEF q

\* The end of Conclude, and of an error's event.
Ended(p, error) == [p EXCEPT !.terminal = TRUE, !.result.error = error]

LEMMA OnEnded ==
  ASSUME NEW b, NEW p, NEW error \in {p.result.error, b.error}, p.result.error \in {"", error}
  PROVE  /\ OnInv(b, p) => OnStep(b, p, Ended(p, error))
         /\ OnSays(b, p) => OnLast(b, p, Ended(p, error))
<1> SUFFICES ASSUME OnShape(p)
             PROVE  /\ OnInv(b, p) => OnStep(b, p, Ended(p, error))
                    /\ OnSays(b, p) => OnLast(b, p, Ended(p, error))
  BY DEF OnInv, OnSays
<1> DEFINE true == TRUE
           q == Ended(p, error)
<1>1. q = [p EXCEPT !.terminal = true, !.result.error = error] /\ true = TRUE
  BY DEF Ended
<1> HIDE DEF true, q
<1>2. /\ OnShape(q) /\ q.calls = p.calls /\ q.chat = p.chat /\ q.terminal = TRUE
      /\ q.result.id = p.result.id /\ q.result.error = error
      /\ q.result.web = p.result.web /\ q.result.tools = p.result.tools
  BY <1>1 DEF OnShape, ResultFields
<1>3. (OnInv(b, p) => OnStep(b, p, q)) /\ (OnSays(b, p) => OnLast(b, p, q))
  BY <1>2, OnNote
<1> QED BY <1>3 DEF q

LEMMA OnConclude ==
  ASSUME NEW b, O!WellNamed(b), NEW p, OnInv(b, p), NEW event, event.type \in Finals,
         O!Tells(b, event)
  PROVE  /\ event.carries # "response" => OnStep(b, p, O!Conclude(p, event))
         /\ OnLast(b, p, O!Conclude(p, event))
<1> DEFINE q == CASE event.carries = "response"  -> O!TakeResponse(p, event)
                  [] event.carries = "malformed" -> [p EXCEPT !.malformed = TRUE]
                  [] event.carries = "nothing"   -> p
           r == O!Conclude(p, event)
           error == O!First(q.result.error, event.error, "")
<1>1. r = Ended(q, error)
  BY DEF O!Conclude, Ended
<1>2. event.carries \in {"response", "malformed", "nothing"} /\ event.error \in {"", b.error}
  BY DEF O!Tells, Finals
<1>3. event.carries = "response" => OnLast(b, p, q)
  BY OnTakeResponse
<1>4. event.carries # "response" => OnStep(b, p, q)
  BY <1>2, OnMalformed, OnStays
<1> HIDE DEF q, r
<1>5. OnLast(b, p, q)
  BY <1>3, <1>4, OnStepLasts
<1>6. (OnInv(b, q) => OnStep(b, q, r)) /\ OnLast(b, q, r)
  <2>1. OnSays(b, q)
    BY <1>5 DEF OnLast
  <2>2. error \in {q.result.error, b.error} /\ q.result.error \in {"", error}
    BY <1>2, <2>1 DEF OnSays, O!First
  <2> HIDE DEF error
  <2> QED BY <1>1, <2>1, <2>2, OnEnded
<1>7. event.carries # "response" => OnStep(b, p, r)
  BY <1>4, <1>6, OnTrans DEF OnStep
<1> QED BY <1>5, <1>6, <1>7, OnLastTrans DEF r

LEMMA OnHandles ==
  ASSUME NEW b, NEW p, OnInv(b, p), O!WellNamed(b), NEW event, O!Tells(b, event)
  PROVE  /\ ~ (event.type \in Finals /\ event.carries = "response")
              => OnStep(b, p, O!Handle(p, event))
         /\ OnLast(b, p, O!Handle(p, event))
<1> DEFINE r == O!HandleInner(p, event)
           step == OnStep(b, p, r)
<1>1. CASE event.type \in Finals
  <2>1. r = O!Conclude(p, event)
    BY <1>1 DEF O!HandleInner, Finals
  <2>2. event.depth > O!MaxNestDepth => O!Handle(p, event) = [p EXCEPT !.malformed = TRUE]
    BY DEF O!Handle
  <2>3. ~ (event.depth > O!MaxNestDepth) => O!Handle(p, event) = r
    BY DEF O!Handle
  <2> QED BY <1>1, <2>1, <2>2, <2>3, OnConclude, OnMalformed, OnStepLasts
<1>2. CASE event.type \notin Finals
  <2>1. step
    <3>1. CASE event.type = "error" /\ event.error # ""
      <4>1. r = Ended(p, event.error)
        BY <3>1 DEF O!HandleInner, Ended
      <4>2. event.error = b.error /\ p.result.error \in {"", b.error}
        BY <3>1 DEF O!Tells, OnInv
      <4>3. OnStep(b, p, Ended(p, b.error))
        BY <4>2, OnEnded
      <4> QED BY <4>1, <4>2, <4>3
    <3>2. CASE event.type \in {"response.output_item.added", "response.output_item.done"}
      <4>1. r = O!MergeItem(p, event.item, event.index)
        BY <3>2 DEF O!HandleInner
      <4>2. PICK i \in DOMAIN b.output :
              O!SameItem(event.item, b.output[i]) /\ O!IsPlace(event.index, i)
        BY <3>2 DEF O!Tells
      <4> QED BY <4>1, <4>2, OnMergeItem
    <3>3. CASE event.type = "response.web_search_call"
      <4>1. r = O!MergeWebEvent(p, event)
        BY <3>3 DEF O!HandleInner
      <4>2. PICK i \in DOMAIN b.output :
              O!IsWeb(b.output[i]) /\ GoesBy(b, i, event.id, "", event.index)
        BY <3>3 DEF O!Tells, GoesBy
      <4> QED BY <4>1, <4>2, OnMergeWebEvent
    <3>4. CASE event.type \in {"arguments.delta", "arguments.done"}
      <4>1. r = O!AppendInput(p, event) \/ r = O!SetInput(p, event)
        BY <3>4 DEF O!HandleInner
      <4>2. PICK i \in DOMAIN b.output :
              /\ GoesBy(b, i, event.id, "", event.index)
              /\ event.id # "" \/ event.index # O!Absent
        BY <3>4 DEF O!Tells, GoesBy
      <4> QED BY <4>1, <4>2, OnInputs
    <3>5. CASE event.type = "chat.completion.chunk"
      <4>1. r = O!HandleChunk(p, event)
        BY <3>5 DEF O!HandleInner
      <4> QED BY <3>5, <4>1, OnChunk
    <3>6. CASE event.type = "[DONE]"
      <4>1. r = [p EXCEPT !.terminal = TRUE]
        BY <3>6 DEF O!HandleInner
      <4> HIDE DEF r
      <4>2. /\ OnShape(r) /\ r.calls = p.calls /\ r.chat = p.chat /\ r.terminal = TRUE
            /\ r.result = p.result
        BY <4>1 DEF OnInv, OnShape
      <4>3. p.result.error \in {"", r.result.error}
        BY <4>2
      <4> QED BY <4>2, <4>3, OnNote
    <3>7. CASE event.type = "malformed"
      <4>1. r = [p EXCEPT !.malformed = TRUE]
        BY <3>7 DEF O!HandleInner
      <4> QED BY <4>1, OnMalformed
    <3>8. CASE ~ \/ event.type \in {"response.output_item.added", "response.output_item.done",
                                    "response.web_search_call", "arguments.delta",
                                    "arguments.done", "chat.completion.chunk", "[DONE]",
                                    "malformed"}
                 \/ event.type = "error" /\ event.error # ""
      <4>1. r = p
        BY <1>2, <3>8 DEF O!HandleInner, Finals
      <4> QED BY <4>1, OnStays
    <3> QED BY <3>1, <3>2, <3>3, <3>4, <3>5, <3>6, <3>7, <3>8
  <2>2. O!Handle(p, event) \in {r, [p EXCEPT !.malformed = TRUE]}
    BY DEF O!Handle
  <2> HIDE DEF r
  <2> QED BY <1>2, <2>1, <2>2, OnMalformed, OnStepLasts
<1> QED BY <1>1, <1>2

LEMMA OnStarts == ASSUME NEW b PROVE OnInv(b, O!Start)
<1> DEFINE p == O!Start
           f == FALSE
           n == O!NoUsage
<1>1. /\ p = [result |-> [id |-> "", usage |-> n, tools |-> << >>, web |-> << >>, error |-> ""],
              calls |-> << >>, chat |-> << >>, terminal |-> f, malformed |-> f]
      /\ f \in BOOLEAN
  BY DEF O!Start
<1> HIDE DEF p, f, n
<1>2. /\ DOMAIN p = {"result", "calls", "chat", "terminal", "malformed"}
      /\ DOMAIN p.result = ResultFields /\ p.terminal \in BOOLEAN
      /\ p.calls = << >> /\ p.chat = << >> /\ p.result.tools = << >> /\ p.result.web = << >>
      /\ p.result.id = "" /\ p.result.error = ""
  BY <1>1 DEF ResultFields
<1>3. OnShape(p) /\ OnCalls(b, p.calls) /\ OnChat(b, p.chat)
  BY <1>2, EmptySequence DEF OnShape, OnCalls, OnChat
<1>4. A!Ids(p.result.tools) = {} /\ A!Ids(p.result.web) = {}
  BY <1>2, EmptySequence DEF A!Ids
<1> QED BY <1>2, <1>3, <1>4 DEF OnInv, p

----------------------------------------------------------------------------
(* The refinement.  A parser holds to what it has heard of its body; the   *)
(* final event of OpenAI's may leave it with calls that a later one would  *)
(* lose, and is the last.                                                  *)
Says(x, p) ==
  IF x.provider = "anthropic" THEN AnInv(x.body, p) ELSE OnSays(x.body, p)

\* What a parser must hold to if another event is to come.
MaySay(x, p) ==
  IF x.provider = "anthropic" THEN AnInv(x.body, p) ELSE OnInv(x.body, p)

Moves(p, q) == More(p.result, q.result) /\ (p.terminal => q.terminal)

Heard ==
  /\ Says(exchange, parser)
  /\ Len(frames) < Len(exchange.frames) => MaySay(exchange, parser)

\* Once the result has been asked for, no frame is left to hand over.
Asked ==
  /\ outcome \in {"none", "ok", "partial frame", "malformed", "no terminal event"}
  /\ outcome # "none" => Idle

LEMMA MaySays == ASSUME NEW x, NEW p, MaySay(x, p) PROVE Says(x, p)
  BY OnInvSays DEF MaySay, Says

LEMMA HandledAs ==
  ASSUME NEW x, NEW p, MaySay(x, p), WellNamed(x.provider, x.body), NEW event,
         Tells(x.provider, x.body, event)
  PROVE  LET q == Handle(x.provider, p, event)
         IN  /\ Says(x, q) /\ Moves(p, q)
             /\ ~ CarriesResponse(x.provider, event) => MaySay(x, q)
<1> DEFINE q == Handle(x.provider, p, event)
           b == x.body
<1>1. CASE x.provider = "anthropic"
  <2>1. /\ q = A!Handle(p, event) /\ A!WellNamed(b) /\ A!Tells(b, event) /\ AnInv(b, p)
    BY <1>1 DEF Handle, WellNamed, Tells, MaySay
  <2> HIDE DEF q, b
  <2>2. AnStep(b, p, q)
    BY <2>1, AnHandles
  <2> QED BY <1>1, <2>2 DEF AnStep, Says, MaySay, Moves, q, b
<1>2. CASE x.provider # "anthropic"
  <2>1. /\ q = O!Handle(p, event) /\ O!WellNamed(b) /\ O!Tells(b, event) /\ OnInv(b, p)
    BY <1>2 DEF Handle, WellNamed, Tells, MaySay
  <2>2. CarriesResponse(x.provider, event)
          <=> event.type \in Finals /\ event.carries = "response"
    BY <1>2 DEF CarriesResponse, Finals
  <2> HIDE DEF q, b
  <2>3. OnLast(b, p, q)
    BY <2>1, OnHandles
  <2>4. ~ CarriesResponse(x.provider, event) => OnStep(b, p, q)
    BY <2>1, <2>2, OnHandles
  <2> QED BY <1>2, <2>3, <2>4 DEF OnLast, OnStep, Says, MaySay, Moves, q, b
<1> QED BY <1>1, <1>2

\* An error of the splitter is noted in a flag.
LEMMA NotedAs ==
  ASSUME NEW x, NEW p, Says(x, p), NEW flag
  PROVE  LET q == [p EXCEPT !.malformed = flag]
         IN  /\ q.result = p.result /\ q.terminal = p.terminal
             /\ Says(x, q) /\ (MaySay(x, p) => MaySay(x, q))
<1> DEFINE q == [p EXCEPT !.malformed = flag]
           b == x.body
<1>1. CASE x.provider = "anthropic"
  <2>1. AnInv(b, p)
    BY <1>1 DEF Says
  <2>2. AnShape(q) /\ q.calls = p.calls /\ q.terminal = p.terminal /\ q.result = p.result
    BY <2>1 DEF AnInv, AnShape
  <2> HIDE DEF q, b
  <2>3. AnInv(b, q)
    BY <2>1, <2>2 DEF AnInv
  <2> QED BY <1>1, <2>2, <2>3 DEF Says, MaySay, q, b
<1>2. CASE x.provider # "anthropic"
  <2>1. OnSays(b, p)
    BY <1>2 DEF Says
  <2>2. /\ OnShape(q) /\ q.calls = p.calls /\ q.chat = p.chat /\ q.terminal = p.terminal
        /\ q.result = p.result
    BY <2>1 DEF OnSays, OnShape
  <2> HIDE DEF q, b
  <2>3. OnSays(b, q) /\ (OnInv(b, p) => OnInv(b, q))
    BY <2>1, <2>2 DEF OnSays, OnInv
  <2> QED BY <1>2, <2>2, <2>3 DEF Says, MaySay, q, b
<1> QED BY <1>1, <1>2

LEMMA KnownGrows == ASSUME NEW r, NEW s, More(r, s) PROVE Known(r) \subseteq Known(s)
<1> SUFFICES ASSUME NEW f \in Facts(r), f[2] # "" PROVE f \in Facts(s)
  BY DEF Known
<1>1. ASSUME NEW id \in A!Ids(r.tools), f = <<"tool", id>> PROVE f \in Facts(s)
  BY <1>1 DEF More, Facts
<1>2. ASSUME NEW id \in A!Ids(r.web), f = <<"web", id>> PROVE f \in Facts(s)
  BY <1>2 DEF More, Facts
<1>3. ASSUME f = <<"error", r.error>> PROVE f \in Facts(s)
  BY <1>3 DEF More, Facts
<1>4. ASSUME f = <<"response", r.id>> PROVE f \in Facts(s)
  BY <1>4 DEF More, Facts
<1> QED BY <1>1, <1>2, <1>3, <1>4 DEF Facts

LEMMA SpokenNames ==
  ASSUME NEW b, O!WellNamed(b)
  PROVE  Spoken(b) \subseteq STRING \cup {""}
<1>1. ASSUME NEW i \in DOMAIN b.output PROVE O!Key(b.output[i]) \in STRING
  <2>1. b.output[i].id \in STRING /\ b.output[i].callId \in STRING
    BY DEF O!WellNamed
  <2> QED BY <2>1 DEF O!Key, O!First
<1>2. ASSUME NEW i \in DOMAIN b.chat PROVE b.chat[i].id \in STRING
  BY DEF O!WellNamed
<1> QED BY <1>1, <1>2, Zenon DEF Spoken

LEMMA BlockNames ==
  ASSUME NEW b, A!WellNamed(b), NEW calls, AnCalls(b, calls)
  PROVE  AnTools(calls) \cup AnWeb(calls) \subseteq STRING
<1>1. ASSUME NEW j \in A!Named(calls) PROVE calls[j].id \in STRING
  <2>1. j \in DOMAIN calls /\ calls[j].name # ""
    BY DEF A!Named
  <2>2. PICK i \in DOMAIN b.content : AnOf(b, calls[j], i)
    BY <2>1 DEF AnCalls, AnKnows
  <2> QED BY <2>2 DEF AnOf, A!WellNamed
<1>2. A!NamedWeb(calls) \subseteq A!Named(calls)
  BY DEF A!NamedWeb
<1> QED BY <1>1, <1>2, Zenon DEF AnTools, AnWeb

\* The kinds of facts of the contract.
FactKinds == {"tool", "web", "error", "response"}

\* What a parser says is in its body, and its names are strings.
LEMMA SaysNames ==
  ASSUME NEW x, NEW p, Says(x, p), WellNamed(x.provider, x.body)
  PROVE  /\ p.terminal \in BOOLEAN
         /\ Known(p.result) \subseteq FactKinds \X STRING
<1> DEFINE r == p.result
           b == x.body
           Names == STRING \cup {""}
<1>1. /\ p.terminal \in BOOLEAN
      /\ A!Ids(r.tools) \subseteq Names /\ A!Ids(r.web) \subseteq Names
      /\ r.id \in Names /\ r.error \in Names
  <2>1. CASE x.provider = "anthropic"
    <3>1. AnInv(b, p) /\ A!WellNamed(b)
      BY <2>1 DEF Says, WellNamed
    <3> HIDE DEF b
    <3>2. AnTools(p.calls) \cup AnWeb(p.calls) \subseteq STRING
      BY <3>1, BlockNames DEF AnInv
    <3>3. b.id \in STRING /\ b.error \in STRING
      BY <3>1 DEF A!WellNamed
    <3> QED BY <3>1, <3>2, <3>3 DEF AnInv, AnShape
  <2>2. CASE x.provider # "anthropic"
    <3>1. OnSays(b, p) /\ O!WellNamed(b)
      BY <2>2 DEF Says, WellNamed
    <3> HIDE DEF b
    <3>2. Spoken(b) \subseteq Names
      BY <3>1, SpokenNames
    <3>3. b.id \in STRING /\ b.error \in STRING
      BY <3>1 DEF O!WellNamed
    <3> QED BY <3>1, <3>2, <3>3 DEF OnSays, OnShape
  <2> QED BY <2>1, <2>2
<1> HIDE DEF r, b
<1>2. ASSUME NEW f \in Facts(r), f[2] # "" PROVE f \in FactKinds \X STRING
  <2>1. ASSUME NEW kind \in FactKinds, NEW id \in Names, f = <<kind, id>> PROVE f \in FactKinds \X STRING
    <3>1. id # ""
      BY <1>2, <2>1
    <3>2. id \in STRING
      BY <3>1
    <3> QED BY <2>1, <3>2
  <2>2. \/ \E id \in A!Ids(r.tools) : f = <<"tool", id>>
        \/ \E id \in A!Ids(r.web) : f = <<"web", id>>
        \/ f = <<"error", r.error>>
        \/ f = <<"response", r.id>>
    BY <1>2 DEF Facts
  <2>3. \E kind \in FactKinds : \E id \in Names : f = <<kind, id>>
    <3> HIDE DEF Names
    <3> QED BY <1>1, <2>2, Zenon DEF FactKinds
  <2> QED BY <2>1, <2>3
<1> QED BY <1>1, <1>2 DEF Known, r

----------------------------------------------------------------------------
(* The events of an exchange are those of its frames.                      *)

\* What a frame parses to: no event, one that is malformed, or one of the
\* exchange; the one that carries the response comes from the last frame.
LEMMA ParsedAs ==
  ASSUME NEW x \in Exchanges, NEW i \in DOMAIN x.frames, NEW n \in 0..Len(x.frames[i]),
         NEW event, Parse(x, SubSeq(x.frames[i], 1, n)) = event, event # << >>
  PROVE  /\ Tells(x.provider, x.body, event[1])
         /\ CarriesResponse(x.provider, event[1]) => i = Len(x.frames)
<1> DEFINE frame == SubSeq(x.frames[i], 1, n)
           lines == SelectSeq(frame, LAMBDA t : t \notin {LF, CR, Comment})
           whole == {e \in DOMAIN x.events : lines = <<Text(e), MoreText(e)>>}
           e == CHOOSE e \in whole : TRUE
           bad == [type |-> "malformed", depth |-> 0]
<1>1. event = <<bad>> \/ (e \in whole /\ event = <<x.events[e]>>)
  <2>1. event = IF lines = << >> THEN << >> ELSE IF whole = {} THEN <<bad>> ELSE <<x.events[e]>>
    BY DEF Parse
  <2>2. whole # {} => e \in whole
    OBVIOUS
  <2> HIDE DEF lines, whole, e, bad
  <2> QED BY <2>1, <2>2
<1>2. CASE event = <<bad>>
  <2>1. event[1] = bad /\ bad.type = "malformed"
    BY <1>2
  <2> HIDE DEF bad
  <2> QED BY <2>1 DEF Tells, CarriesResponse, A!Tells, O!Tells
<1>3. CASE e \in whole /\ event = <<x.events[e]>>
  <2>1. e \in DOMAIN x.events /\ event[1] = x.events[e]
    BY <1>3
  <2> HIDE DEF e, whole, lines
  <2>2. Parse(x, SubSeq(x.frames[i], 1, n)) = <<x.events[e]>>
    BY <1>3
  <2> QED BY <2>1, <2>2, StreamsAssumption
<1> QED BY <1>1, <1>2, <1>3

\* Each frame that the splitter hands over is the beginning of its own.
LEMMA HandedOver ==
  ASSUME SseIInv, AsSent, HandleFrame
  PROVE  /\ Len(frames') = Len(frames) + 1 /\ Len(frames) < Len(exchange.frames)
         /\ Len(frames') \in DOMAIN exchange.frames
         /\ \E n \in 0..Len(exchange.frames[Len(frames')]) :
              frames'[Len(frames')] = SubSeq(exchange.frames[Len(frames')], 1, n)
<1> DEFINE k == Len(frames)
           fs == exchange.frames
           piece == frames'[k + 1]
<1>1. /\ ~ Idle /\ exchange' = exchange /\ fs \in Seq(Seq(Token)) /\ Len(fs) \in Nat
      /\ frames \in Seq(Seq(Token)) /\ k \in Nat
  BY StreamsAssumption, LenProperties DEF SseIInv, SseTypeOK, AsSent, HandleFrame, Frame
<1>2. k < Len(fs)
  BY <1>1, NoneComing
<1>3. frames' \in Seq(Seq(Token)) /\ Len(frames') = k + 1
  <2>1. SseIInv'
    BY SseInduction, FrameKeeps DEF HandleFrame
  <2>2. frames' \in Seq(Seq(Token))
    BY <2>1 DEF SseIInv, SseTypeOK
  <2>3. \E s : frames' = Append(frames, s)
    BY DEF HandleFrame, Frame
  <2> QED BY <1>1, <2>2, <2>3
<1>4. PICK d \in BlankLines : fs[k + 1] = piece \o d
  <2>1. AsSent'
    BY FrameAsSent
  <2>2. k + 1 \in 1..Len(frames')
    BY <1>1, <1>3
  <2> QED BY <1>1, <2>1, <2>2 DEF AsSent
<1>5. piece \in Seq(Token) /\ fs[k + 1] \in Seq(Token) /\ d \in Seq(Token)
  <2>1. d \in Seq(Token)
    <3>1. <<LF, LF>> \in Seq(Token) /\ <<CR, LF, CR, LF>> \in Seq(Token)
      BY SseAssumption
    <3>2. d = <<LF, LF>> \/ d = <<CR, LF, CR, LF>>
      BY Zenon DEF BlankLines
    <3> QED BY <3>1, <3>2
  <2>2. k + 1 \in DOMAIN fs /\ k + 1 \in DOMAIN frames'
    BY <1>1, <1>2, <1>3
  <2> HIDE DEF k, fs
  <2>3. fs[k + 1] \in Seq(Token) /\ frames'[k + 1] \in Seq(Token)
    BY <1>1, <1>3, <2>2, ElementOfSeq, SMT
  <2> QED BY <2>1, <2>3
<1>6. piece = SubSeq(fs[k + 1], 1, Len(piece)) /\ Len(piece) \in 0..Len(fs[k + 1])
  <2> DEFINE w == fs[k + 1]
             q == piece
  <2> HIDE DEF w, q
  <2>1. q \in Seq(Token) /\ w = q \o d /\ d \in Seq(Token)
    BY <1>4, <1>5 DEF w, q
  <2>2. q = SubSeq(w, 1, Len(q)) /\ Len(q) \in 0..Len(w)
    BY <2>1
  <2> QED BY <2>2 DEF w, q
<1> QED BY <1>1, <1>2, <1>3, <1>6

LEMMA FrameTells ==
  ASSUME SseIInv, AsSent, Heard, HandleFrame
  PROVE  Heard' /\ Moves(parser, parser')
<1> DEFINE x == exchange
           k == Len(frames)
           event == Parse(x, frames'[Len(frames')])
<1>1. /\ Len(frames') = k + 1 /\ k < Len(x.frames) /\ k + 1 \in DOMAIN x.frames
      /\ \E n \in 0..Len(x.frames[k + 1]) : frames'[k + 1] = SubSeq(x.frames[k + 1], 1, n)
  BY HandedOver
<1>2. x \in Exchanges /\ exchange' = x /\ MaySay(x, parser) /\ WellNamed(x.provider, x.body)
  BY <1>1, StreamsAssumption DEF AsSent, HandleFrame, Heard
<1>3. parser' = IF event = << >> THEN parser ELSE Handle(x.provider, parser, event[1])
  BY DEF HandleFrame
<1>4. event # << >> =>
        /\ Tells(x.provider, x.body, event[1])
        /\ CarriesResponse(x.provider, event[1]) => k + 1 = Len(x.frames)
  BY <1>1, <1>2, ParsedAs
<1> HIDE DEF event
<1>5. CASE event = << >>
  <2>1. parser' = parser
    BY <1>3, <1>5
  <2> QED BY <1>2, <2>1, MaySays DEF Heard, Moves, More
<1>6. CASE event # << >>
  <2> DEFINE q == Handle(x.provider, parser, event[1])
             e == event[1]
  <2>1. parser' = q
    BY <1>3, <1>6
  <2> HIDE DEF x
  <2>2. /\ Says(x, q) /\ Moves(parser, q)
        /\ ~ CarriesResponse(x.provider, event[1]) => MaySay(x, q)
    BY <1>2, <1>4, <1>6, HandledAs
  <2>3. Len(frames') < Len(x.frames) => ~ CarriesResponse(x.provider, event[1])
    BY <1>1, <1>4, <1>6
  <2> HIDE DEF q
  <2> QED BY <1>2, <2>1, <2>2, <2>3 DEF Heard, x
<1> QED BY <1>5, <1>6

\* Feeding the splitter shows a parser nothing but an error.
LEMMA ReceiveTells ==
  ASSUME Heard, NEW n, Receive(n)
  PROVE  /\ Heard' /\ outcome = "none" /\ outcome' = "none"
         /\ parser'.result = parser.result /\ parser'.terminal = parser.terminal
<1> DEFINE flag == parser.malformed \/ latched'
<1>1. /\ parser' = [parser EXCEPT !.malformed = flag] /\ exchange' = exchange
      /\ frames' = frames /\ outcome = "none" /\ outcome' = "none"
  BY DEF Receive, Feed
<1> HIDE DEF flag
<1>2. /\ parser'.result = parser.result /\ parser'.terminal = parser.terminal
      /\ Says(exchange, parser') /\ (MaySay(exchange, parser) => MaySay(exchange, parser'))
  BY <1>1, NotedAs DEF Heard
<1> QED BY <1>1, <1>2 DEF Heard

(* The inductive invariant of the refinement.                              *)
ContractIInv == SseIInv /\ AsSent /\ Heard /\ Asked

LEMMA ContractInitially ==
  ASSUME StreamsInit
  PROVE  ContractIInv /\ Contract!ContractInit
<1> DEFINE x == exchange
           r == parser.result
<1>1. SseIInv /\ AsSent
  BY StreamsInitially, SseInitially, AsSentInitially DEF SseInit
<1>2. MaySay(x, parser)
  <2>1. CASE x.provider = "anthropic"
    BY <2>1, AnStarts DEF StreamsInit, NewStreamParser, MaySay
  <2>2. CASE x.provider # "anthropic"
    BY <2>2, OnStarts DEF StreamsInit, NewStreamParser, MaySay
  <2> QED BY <2>1, <2>2
<1>3. outcome = "none"
  BY DEF StreamsInit
<1>4. /\ r.id = "" /\ r.error = "" /\ r.tools = << >> /\ r.web = << >>
      /\ parser.terminal = FALSE
  <2>1. parser = A!Start \/ parser = O!Start
    BY DEF StreamsInit, NewStreamParser
  <2> DEFINE f == FALSE
             a == A!ToUsage(A!NoUsage)
             o == O!NoUsage
  <2>2. A!Start = [result |-> [id |-> "", usage |-> a, tools |-> << >>, web |-> << >>,
                               error |-> ""],
                   usage |-> A!NoUsage, calls |-> << >>, terminal |-> f, malformed |-> f]
    BY DEF A!Start
  <2>3. O!Start = [result |-> [id |-> "", usage |-> o, tools |-> << >>, web |-> << >>,
                               error |-> ""],
                   calls |-> << >>, chat |-> << >>, terminal |-> f, malformed |-> f]
    BY DEF O!Start
  <2> HIDE DEF f, a, o
  <2>4. /\ r.id = "" /\ r.error = "" /\ r.tools = << >> /\ r.web = << >>
        /\ parser.terminal = f
    <3>1. CASE parser = A!Start
      BY <2>2, <3>1
    <3>2. CASE parser = O!Start
      BY <2>3, <3>2
    <3> QED BY <2>1, <3>1, <3>2
  <2> QED BY <2>4 DEF f
<1>5. Known(r) = {}
  <2> HIDE DEF r
  <2>1. A!Ids(r.tools) = {} /\ A!Ids(r.web) = {}
    BY <1>4, EmptySequence DEF A!Ids
  <2>2. ASSUME NEW f \in Facts(r) PROVE f[2] = ""
    <3>1. f = <<"error", r.error>> \/ f = <<"response", r.id>>
      BY <2>1, <2>2, Zenon DEF Facts
    <3>2. r.error = "" /\ r.id = ""
      BY <1>4
    <3>3. f = <<"error", "">> \/ f = <<"response", "">>
      BY <3>1, <3>2
    <3>4. ASSUME NEW kind, f = <<kind, "">> PROVE f[2] = ""
      BY <3>4
    <3> QED BY <3>3, <3>4
  <2> QED BY <2>2 DEF Known
<1>6. Heard /\ Asked
  BY <1>2, <1>3, MaySays DEF Heard, Asked
<1> QED BY <1>1, <1>3, <1>4, <1>5, <1>6 DEF ContractIInv, Contract!ContractInit

LEMMA ContractSteps ==
  ASSUME ContractIInv, [StreamsNext]_streamVars
  PROVE  ContractIInv' /\ [Contract!ContractNext]_(Contract!contractVars)
<1>1. SseIInv' /\ AsSent'
  BY StreamsStep, SseInduction, StreamsInduction DEF ContractIInv
<1>2. WellNamed(exchange.provider, exchange.body) /\ Says(exchange, parser)
  BY StreamsAssumption DEF ContractIInv, AsSent, Heard
<1>3. CASE \E n \in 1..MaxChunk : Receive(n)
  <2>1. PICK n \in 1..MaxChunk : Receive(n)
    BY <1>3
  <2>2. /\ Heard' /\ outcome = "none" /\ outcome' = "none"
        /\ parser'.result = parser.result /\ parser'.terminal = parser.terminal
    BY <2>1, ReceiveTells DEF ContractIInv
  <2>3. Asked'
    BY <2>2 DEF Asked
  <2> QED BY <1>1, <2>2, <2>3 DEF ContractIInv, Contract!contractVars
<1>4. CASE HandleFrame
  <2>1. Heard' /\ Moves(parser, parser') /\ exchange' = exchange
    BY <1>4, FrameTells DEF ContractIInv, HandleFrame
  <2>2. outcome = "none" /\ outcome' = "none"
    BY <1>4 DEF ContractIInv, Asked, HandleFrame, Frame
  <2>3. Says(exchange, parser')
    BY <2>1 DEF Heard
  <2>4. /\ parser.terminal \in BOOLEAN /\ parser'.terminal \in BOOLEAN
        /\ Known(parser'.result) \subseteq FactKinds \X STRING
    BY <1>2, <2>3, SaysNames
  <2>5. Known(parser.result) \subseteq Known(parser'.result)
        /\ (parser.terminal => parser'.terminal)
    BY <2>1, KnownGrows DEF Moves
  <2>6. Contract!Learn
    BY <2>2, <2>4, <2>5 DEF Contract!Learn, FactKinds
  <2>7. Asked'
    BY <2>2 DEF Asked
  <2> QED BY <1>1, <2>1, <2>6, <2>7 DEF ContractIInv, Contract!ContractNext
<1>5. CASE End
  <2>1. Idle /\ outcome = "none" /\ UNCHANGED <<sseVars, exchange, parser>>
    BY <1>5 DEF End
  <2>2. outcome' \in {"ok", "partial frame", "malformed", "no terminal event"}
        /\ (outcome' = "ok" <=> parser.terminal)
    BY <1>5 DEF End
  <2>3. Heard' /\ Asked'
    BY <2>1, <2>2 DEF ContractIInv, Heard, Asked, Idle, sseVars
  <2>4. Contract!Conclude
    BY <2>1, <2>2 DEF Contract!Conclude
  <2> QED BY <1>1, <2>3, <2>4 DEF ContractIInv, Contract!ContractNext
<1>6. CASE UNCHANGED streamVars
  BY <1>1, <1>6 DEF streamVars, sseVars, ContractIInv, Heard, Asked, Idle, Contract!contractVars
<1> QED BY <1>3, <1>4, <1>5, <1>6 DEF StreamsNext

\* Either parser, behind the splitter, keeps the contract of usageparse:
\* what it has reported of a response is not taken back by what follows, a
\* terminal event is not forgotten, and the result is an error only without
\* one.
THEOREM StreamsImplementContract == StreamsSpec => ImplementsContract
<1>1. StreamsInit => ContractIInv /\ Contract!ContractInit
  BY ContractInitially
<1>2. ContractIInv /\ [StreamsNext]_streamVars
        => ContractIInv' /\ [Contract!ContractNext]_(Contract!contractVars)
  BY ContractSteps
<1> QED BY <1>1, <1>2, PTL DEF StreamsSpec, ImplementsContract, Contract!ContractSpec
============================================================================
