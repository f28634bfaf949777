--------------------------- MODULE ReportsProofs ----------------------------
(***************************************************************************)
(* Theorems about Reports, for any ledger, windows and limits.             *)
(*                                                                         *)
(* The peak: what the sweep adds up to at an instant is the number of      *)
(* intervals begun and not ended (DeltasAddUp, ActiveCounts), and between  *)
(* two of its instants nothing begins (PeakCorrect).  The heatmap: the     *)
(* loop over the buckets reaches the one of every instant (BucketsCover),  *)
(* and a sum over classes is the sum over the set (SumOfClasses).  The     *)
(* listing: what is joined has the rows of the listed requests in order    *)
(* (RowsOf), and the listed requests are the newest (Found).               *)
(***************************************************************************)
EXTENDS Reports, FiniteSetTheorems, WellFoundedInduction, TLAPS

----------------------------------------------------------------------------
(* Induction.  The property is the membership in a set, so that the        *)
(* lemmas take no operator.                                                *)

\* Over the numbers.
LEMMA NatSetInduction ==
  ASSUME NEW S, 0 \in S, \A n \in Nat : n \in S => n + 1 \in S
  PROVE  Nat \subseteq S
<1> DEFINE T == Nat \ S
<1>1. SUFFICES ASSUME T # {} PROVE FALSE
  OBVIOUS
<1>2. PICK n \in T : \A m \in T : ~ (<<m, n>> \in OpToRel(<, Nat))
  BY <1>1, NatLessThanWellFounded, WFMin
<1>3. n # 0 /\ n - 1 \in Nat
  OBVIOUS
<1>a. <<n - 1, n>> \in OpToRel(<, Nat)
  BY <1>3 DEF OpToRel
<1>4. n - 1 \notin T
  BY <1>2, <1>a
<1>5. n - 1 + 1 \in S
  BY <1>3, <1>4
<1> QED  BY <1>5, <1>3

\* Over the subsets of a finite set.
LEMMA SetInduction ==
  ASSUME NEW S, IsFiniteSet(S), NEW F,
         {} \in F,
         \A T \in SUBSET S : T # {} /\ (\A x \in T : T \ {x} \in F) => T \in F
  PROVE  S \in F
<1> DEFINE N == {n \in Nat : \A T \in SUBSET S : Cardinality(T) = n => T \in F}
<1>1. ASSUME NEW T \in SUBSET S PROVE IsFiniteSet(T) /\ Cardinality(T) \in Nat
  BY FS_Subset, FS_CardinalityType
<1>2. 0 \in N
  BY <1>1, FS_EmptySet
<1>3. ASSUME NEW n \in Nat, n \in N PROVE n + 1 \in N
  <2>1. SUFFICES ASSUME NEW T \in SUBSET S, Cardinality(T) = n + 1 PROVE T \in F
    OBVIOUS
  <2>2. T # {}
    <3>1. Cardinality({}) = 0
      BY FS_EmptySet
    <3> QED  BY <2>1, <3>1
  <2>3. ASSUME NEW x \in T PROVE T \ {x} \in F
    <3>1. Cardinality(T \ {x}) = n
      BY <1>1, <2>1, FS_RemoveElement
    <3> QED  BY <3>1, <1>3
  <2> QED  BY <2>2, <2>3
<1> HIDE DEF N
<1>4. Nat \subseteq N
  BY <1>2, <1>3, NatSetInduction
<1>5. Cardinality(S) \in N
  BY <1>1, <1>4
<1> QED  BY <1>5 DEF N

----------------------------------------------------------------------------
(* Sums over finite sets                                                   *)

\* The fold of MapThenSumSet: which element it takes from a set, the recursive
\* function by which it adds up the values f of the elements, and the sum.
Taken(s) == CHOOSE x \in s : TRUE
AddsUp(f, S, g) ==
  g = [s \in SUBSET S |-> IF s = {} THEN 0 ELSE f[Taken(s)] + g[s \ {Taken(s)}]]
Sums(f, S) == CHOOSE g : AddsUp(f, S, g)
Sum(f, S) == Sums(f, S)[S]
Summable(f, S) == IsFiniteSet(S) /\ \A x \in S : f[x] \in Int

\* A finite set has such a function, and no other than it.
LEMMA SumsExist ==
  ASSUME NEW f, NEW S, Summable(f, S)
  PROVE  \E g \in [SUBSET S -> Int] : AddsUp(f, S, g)
<1> DEFINE Upto(n) == {s \in SUBSET S : Cardinality(s) =< n}
           Good(n, g) == \A s \in Upto(n) :
              g[s] = IF s = {} THEN 0 ELSE f[Taken(s)] + g[s \ {Taken(s)}]
           N == {n \in Nat : \E g \in [Upto(n) -> Int] : Good(n, g)}
<1>1. ASSUME NEW s \in SUBSET S
      PROVE  /\ IsFiniteSet(s) /\ Cardinality(s) \in Nat
             /\ Cardinality(s) =< Cardinality(S)
             /\ s # {} => /\ Taken(s) \in s
                          /\ s \ {Taken(s)} \in SUBSET S
                          /\ Cardinality(s \ {Taken(s)}) = Cardinality(s) - 1
  BY FS_Subset, FS_CardinalityType, FS_RemoveElement DEF Taken, Summable
<1>2. Cardinality({}) = 0
  BY FS_EmptySet
<1>3. 0 \in N
  <2> DEFINE g == [s \in Upto(0) |-> 0]
  <2>1. ASSUME NEW s \in Upto(0) PROVE s = {}
    <3>1. s \in SUBSET S /\ Cardinality(s) =< 0
      OBVIOUS
    <3>2. IsFiniteSet(s) /\ Cardinality(s) \in Nat
      BY <3>1, <1>1
    <3> HIDE DEF Upto
    <3>3. Cardinality(s) = 0
      BY <3>1, <3>2
    <3> QED  BY <3>2, <3>3, FS_EmptySet
  <2>2. g \in [Upto(0) -> Int] /\ Good(0, g)
    BY <2>1
  <2> QED  BY <2>2
<1>4. ASSUME NEW n \in Nat, n \in N PROVE n + 1 \in N
  <2>1. PICK g \in [Upto(n) -> Int] : Good(n, g)
    BY <1>4
  <2> DEFINE h == [s \in Upto(n + 1) |->
                     IF s = {} THEN 0 ELSE f[Taken(s)] + g[s \ {Taken(s)}]]
  <2>2. \A s \in Upto(n + 1) : s # {} => Taken(s) \in S /\ s \ {Taken(s)} \in Upto(n)
    BY <1>1
  <2>3. h \in [Upto(n + 1) -> Int]
    BY <2>2 DEF Summable
  <2>4. \A s \in Upto(n) : s \in Upto(n + 1) /\ h[s] = g[s]
    <3>1. ASSUME NEW s \in Upto(n) PROVE s \in Upto(n + 1)
      <4>1. s \in SUBSET S /\ Cardinality(s) =< n
        OBVIOUS
      <4>2. Cardinality(s) \in Nat
        BY <1>1, <4>1
      <4> QED  BY <4>1, <4>2
    <3>2. ASSUME NEW s \in Upto(n) PROVE g[s] = IF s = {} THEN 0 ELSE f[Taken(s)] + g[s \ {Taken(s)}]
      BY <2>1
    <3> HIDE DEF Upto
    <3> QED BY <3>1, <3>2
  <2>5. ASSUME NEW s \in Upto(n + 1)
        PROVE  h[s] = IF s = {} THEN 0 ELSE f[Taken(s)] + h[s \ {Taken(s)}]
    <3>1. h[s] = IF s = {} THEN 0 ELSE f[Taken(s)] + g[s \ {Taken(s)}]
      OBVIOUS
    <3>2. s # {} => h[s \ {Taken(s)}] = g[s \ {Taken(s)}]
      BY <2>2, <2>4
    <3> HIDE DEF h
    <3> QED  BY <3>1, <3>2
  <2>6. Good(n + 1, h)
    BY <2>5
  <2> HIDE DEF h, Upto, Good
  <2>7. \E k \in [Upto(n + 1) -> Int] : Good(n + 1, k)
    BY <2>3, <2>6
  <2> QED  BY <2>7
<1> HIDE DEF N
<1>5. Nat \subseteq N
  BY <1>3, <1>4, NatSetInduction
<1>6. Cardinality(S) \in N
  BY <1>1, <1>5
<1>7. PICK g \in [Upto(Cardinality(S)) -> Int] : Good(Cardinality(S), g)
  BY <1>6 DEF N
<1>8. Upto(Cardinality(S)) = SUBSET S
  BY <1>1
<1>9. g \in [SUBSET S -> Int] /\ AddsUp(f, S, g)
  BY <1>7, <1>8 DEF AddsUp
<1> QED  BY <1>9

LEMMA SumsUnique ==
  ASSUME NEW f, NEW S, Summable(f, S), NEW g, AddsUp(f, S, g),
         NEW U, S \subseteq U, NEW h, AddsUp(f, U, h)
  PROVE  \A s \in SUBSET S : g[s] = h[s]
<1> DEFINE F == {s \in SUBSET S : g[s] = h[s]}
<1>0. \A s \in SUBSET S : s # {} => Taken(s) \in s
  BY DEF Taken
<1>1. {} \in F
  BY DEF AddsUp
<1>2. ASSUME NEW T \in SUBSET S, T # {}, \A x \in T : T \ {x} \in F PROVE T \in F
  <2>1. Taken(T) \in T /\ T \ {Taken(T)} \in SUBSET S
    BY <1>0, <1>2
  <2>2. g[T \ {Taken(T)}] = h[T \ {Taken(T)}]
    BY <1>2, <2>1
  <2>3. T \in SUBSET U
    OBVIOUS
  <2>4. g[T] = f[Taken(T)] + g[T \ {Taken(T)}]
    BY <1>2 DEF AddsUp
  <2>5. h[T] = f[Taken(T)] + h[T \ {Taken(T)}]
    BY <1>2, <2>3 DEF AddsUp
  <2> QED  BY <2>2, <2>4, <2>5
<1> HIDE DEF F
<1>3. ASSUME NEW s \in SUBSET S PROVE s \in F
  <2>1. IsFiniteSet(s)
    BY FS_Subset DEF Summable
  <2> QED  BY <1>1, <1>2, <2>1, SetInduction
<1> QED  BY <1>3 DEF F

\* So the one that is chosen adds up, and to integers.
LEMMA SumsDefined ==
  ASSUME NEW f, NEW S, Summable(f, S)
  PROVE  AddsUp(f, S, Sums(f, S)) /\ \A s \in SUBSET S : Sums(f, S)[s] \in Int
<1>1. PICK g \in [SUBSET S -> Int] : AddsUp(f, S, g)
  BY SumsExist
<1>2. AddsUp(f, S, Sums(f, S))
  BY <1>1 DEF Sums
<1>3. \A s \in SUBSET S : g[s] = Sums(f, S)[s]
  BY <1>1, <1>2, SumsUnique
<1> QED  BY <1>1, <1>2, <1>3

\* The sums over the parts of a set are values of its one function.
LEMMA SumPart ==
  ASSUME NEW f, NEW S, Summable(f, S), NEW s \in SUBSET S
  PROVE  /\ Summable(f, s)
         /\ Sums(f, S)[s] = Sum(f, s)
         /\ Sum(f, s) \in Int
<1>1. Summable(f, s)
  BY FS_Subset DEF Summable
<1>2. AddsUp(f, S, Sums(f, S)) /\ AddsUp(f, s, Sums(f, s))
  BY <1>1, SumsDefined
<1>3. s \subseteq S /\ s \in SUBSET s
  OBVIOUS
<1>4. Sums(f, s)[s] = Sums(f, S)[s]
  BY <1>1, <1>2, <1>3, SumsUnique
<1>5. Sums(f, s)[s] \in Int
  BY <1>1, <1>3, SumsDefined
<1> QED  BY <1>1, <1>4, <1>5 DEF Sum

LEMMA SumNone == ASSUME NEW f PROVE Sum(f, {}) = 0
<1>1. Summable(f, {})
  BY FS_EmptySet DEF Summable
<1>2. AddsUp(f, {}, Sums(f, {}))
  BY <1>1, SumsDefined
<1> QED  BY <1>2 DEF AddsUp, Sum

\* What is taken first does not matter.
LEMMA SumWithout ==
  ASSUME NEW f, NEW S, Summable(f, S)
  PROVE  \A x \in S : Sum(f, S) = f[x] + Sum(f, S \ {x})
<1> DEFINE F == {s \in SUBSET S : \A x \in s : Sum(f, s) = f[x] + Sum(f, s \ {x})}
<1>1. {} \in F
  OBVIOUS
<1>2. ASSUME NEW T \in SUBSET S, T # {}, \A x \in T : T \ {x} \in F PROVE T \in F
  <2> DEFINE c == Taken(T)
  <2>1. c \in T
    BY <1>2 DEF Taken
  <2> HIDE DEF c
  <2>2. Sum(f, T) = f[c] + Sum(f, T \ {c})
    <3>1. Summable(f, T)
      BY SumPart
    <3> DEFINE g == Sums(f, T)
    <3>2. AddsUp(f, T, g)
      BY <3>1, SumsDefined
    <3>3. Sums(f, T)[T \ {c}] = Sum(f, T \ {c})
      BY <3>1, SumPart
    <3> HIDE DEF g
    <3>4. g[T] = f[c] + g[T \ {c}]
      BY <3>2, <1>2 DEF AddsUp, c
    <3> QED  BY <3>3, <3>4 DEF Sum, g
  <2>3. ASSUME NEW x \in T, x # c PROVE Sum(f, T) = f[x] + Sum(f, T \ {x})
    <3>1. Sum(f, T \ {c}) = f[x] + Sum(f, (T \ {c}) \ {x})
      BY <1>2, <2>1, <2>3
    <3>2. Sum(f, T \ {x}) = f[c] + Sum(f, (T \ {x}) \ {c})
      BY <1>2, <2>1, <2>3
    <3>3. (T \ {c}) \ {x} = (T \ {x}) \ {c}
      OBVIOUS
    <3>4. Sum(f, (T \ {c}) \ {x}) \in Int /\ f[x] \in Int /\ f[c] \in Int
      <4>1. (T \ {c}) \ {x} \in SUBSET S /\ c \in S /\ x \in S
        BY <2>1
      <4> QED  BY <4>1, SumPart DEF Summable
    <3> DEFINE rest == Sum(f, (T \ {c}) \ {x})
    <3>5. Sum(f, T) = f[c] + (f[x] + rest)
      BY <2>2, <3>1
    <3>6. f[x] + Sum(f, T \ {x}) = f[x] + (f[c] + rest)
      BY <3>2, <3>3
    <3> HIDE DEF rest
    <3>7. f[c] + (f[x] + rest) = f[x] + (f[c] + rest)
      BY <3>4 DEF rest
    <3> QED  BY <3>5, <3>6, <3>7
  <2>4. T \in SUBSET S
    OBVIOUS
  <2> QED  BY <2>2, <2>3, <2>4
<1> HIDE DEF F
<1>3. S \in F
  BY <1>1, <1>2, SetInduction DEF Summable
<1> QED  BY <1>3 DEF F

\* The sums over two sets apart.
LEMMA SumUnion ==
  ASSUME NEW f, NEW A, NEW B, A \cap B = {}, Summable(f, A \cup B)
  PROVE  Sum(f, A \cup B) = Sum(f, A) + Sum(f, B)
<1> DEFINE F == {a \in SUBSET A : Sum(f, a \cup B) = Sum(f, a) + Sum(f, B)}
<1>1. \A s \in SUBSET (A \cup B) : Summable(f, s) /\ Sum(f, s) \in Int
  BY SumPart
<1>2. {} \in F
  <2>1. Sum(f, B) \in Int /\ {} \cup B = B
    BY <1>1
  <2> QED  BY <2>1, SumNone
<1>3. ASSUME NEW T \in SUBSET A, T # {}, \A x \in T : T \ {x} \in F PROVE T \in F
  <2>1. PICK x \in T : TRUE
    BY <1>3
  <2>2. Summable(f, T \cup B) /\ Summable(f, T)
    <3>1. T \cup B \in SUBSET (A \cup B) /\ T \in SUBSET (A \cup B)
      OBVIOUS
    <3> QED  BY <1>1, <3>1
  <2>3. Sum(f, T \cup B) = f[x] + Sum(f, (T \ {x}) \cup B)
    <3>1. (T \cup B) \ {x} = (T \ {x}) \cup B /\ x \in T \cup B
      OBVIOUS
    <3> QED  BY <2>2, <3>1, SumWithout
  <2>4. Sum(f, T) = f[x] + Sum(f, T \ {x})
    BY <2>2, SumWithout
  <2>5. Sum(f, (T \ {x}) \cup B) = Sum(f, T \ {x}) + Sum(f, B)
    BY <1>3
  <2>6. f[x] \in Int /\ Sum(f, T \ {x}) \in Int /\ Sum(f, B) \in Int
    <3>1. T \ {x} \in SUBSET (A \cup B) /\ B \in SUBSET (A \cup B)
      OBVIOUS
    <3> QED  BY <2>2, <1>1, <3>1 DEF Summable
  <2>7. Sum(f, T \cup B) = Sum(f, T) + Sum(f, B)
    BY <2>3, <2>4, <2>5, <2>6
  <2> QED  BY <2>7
<1> HIDE DEF F
<1>4. IsFiniteSet(A)
  BY FS_Subset DEF Summable
<1>5. A \in F
  BY <1>2, <1>3, <1>4, SetInduction
<1> QED  BY <1>5 DEF F

\* The sum over the classes of a finite set is the sum over the set.
ClassOf(S, key, k) == {x \in S : key[x] = k}
ClassesOf(S, key, K) == {x \in S : key[x] \in K}

LEMMA SumOfClasses ==
  ASSUME NEW f, NEW S, Summable(f, S), NEW Keys, IsFiniteSet(Keys),
         NEW key, NEW total,
         \A k \in Keys : total[k] = Sum(f, ClassOf(S, key, k))
  PROVE  /\ Summable(total, Keys)
         /\ Sum(total, Keys) = Sum(f, ClassesOf(S, key, Keys))
<1> DEFINE F == {K \in SUBSET Keys : Sum(total, K) = Sum(f, ClassesOf(S, key, K))}
<1>1. \A s \in SUBSET S : Summable(f, s) /\ Sum(f, s) \in Int
  BY SumPart
<1>2. Summable(total, Keys)
  <2>1. \A k \in Keys : ClassOf(S, key, k) \in SUBSET S
    BY DEF ClassOf
  <2> QED  BY <1>1, <2>1 DEF Summable
<1>3. {} \in F
  <2>1. ClassesOf(S, key, {}) = {}
    BY DEF ClassesOf
  <2> QED  BY <2>1, SumNone
<1>4. ASSUME NEW T \in SUBSET Keys, T # {}, \A x \in T : T \ {x} \in F PROVE T \in F
  <2>1. PICK k \in T : TRUE
    BY <1>4
  <2>2. Sum(total, T) = total[k] + Sum(total, T \ {k})
    BY <1>2, SumPart, SumWithout
  <2>3. Sum(total, T \ {k}) = Sum(f, ClassesOf(S, key, T \ {k}))
    BY <1>4
  <2>4. Sum(f, ClassesOf(S, key, T)) = Sum(f, ClassOf(S, key, k)) + Sum(f, ClassesOf(S, key, T \ {k}))
    <3> DEFINE A == ClassOf(S, key, k)
               B == ClassesOf(S, key, T \ {k})
    <3>1. A \cap B = {} /\ A \cup B = ClassesOf(S, key, T) /\ ClassesOf(S, key, T) \in SUBSET S
      BY DEF ClassOf, ClassesOf
    <3>2. Summable(f, A \cup B)
      BY <1>1, <3>1
    <3> HIDE DEF A, B
    <3>3. Sum(f, A \cup B) = Sum(f, A) + Sum(f, B)
      BY <3>1, <3>2, SumUnion
    <3> QED  BY <3>1, <3>3 DEF A, B
  <2>5. Sum(total, T) = Sum(f, ClassesOf(S, key, T))
    BY <2>2, <2>3, <2>4
  <2> QED  BY <2>5
<1> HIDE DEF F
<1>5. Keys \in F
  BY <1>3, <1>4, SetInduction
<1> QED  BY <1>2, <1>5 DEF F

\* The sums of the model: the sweep at an instant, the tokens of some requests
\* and the totals of an answer.
LEMMA ActiveIsSum ==
  ASSUME NEW w, NEW t, NEW d, Summable(d, Times(w)), \A u \in Times(w) : d[u] = Delta(u, w)
  PROVE  Active(t, w) = Sum(d, {u \in Times(w) : u =< t})
<1> DEFINE S == {u \in Times(w) : u =< t}
           Step(g) == [s \in SUBSET S |->
             IF s = {} THEN 0 ELSE Delta(Taken(s), w) + g[s \ {Taken(s)}]]
           G == CHOOSE g : g = Step(g)
<1>1. Active(t, w) = G[S]
  BY DEF Active, MapThenSumSet, MapThenFoldSet, Taken
<1>2. ASSUME NEW g PROVE AddsUp(d, S, g) <=> g = Step(g)
  <2>1. ASSUME NEW s \in SUBSET S, s # {} PROVE d[Taken(s)] = Delta(Taken(s), w)
    <3>1. Taken(s) \in s
      BY <2>1 DEF Taken
    <3> QED  BY <3>1
  <2>2. Step(g) = [s \in SUBSET S |-> IF s = {} THEN 0 ELSE d[Taken(s)] + g[s \ {Taken(s)}]]
    BY <2>1
  <2> QED  BY <2>2 DEF AddsUp
<1>3. Summable(d, S)
  <2>1. S \in SUBSET Times(w)
    OBVIOUS
  <2> QED  BY <2>1, SumPart
<1>4. PICK g : AddsUp(d, S, g)
  BY <1>3, SumsExist
<1>5. g = Step(g)
  BY <1>2, <1>4
<1>6. G = Step(G)
  BY <1>5
<1> HIDE DEF G
<1>7. AddsUp(d, S, G)
  BY <1>2, <1>6
<1>8. AddsUp(d, S, Sums(d, S))
  BY <1>3, SumsDefined
<1> HIDE DEF S
<1>9. G[S] = Sums(d, S)[S]
  BY <1>3, <1>7, <1>8, SumsUnique
<1> QED  BY <1>1, <1>9 DEF Sum, S

LEMMA TotalIsSum ==
  ASSUME NEW S, NEW d, Summable(d, S), \A r \in S : d[r] = r.tokens
  PROVE  Total(S) = Sum(d, S)
<1> DEFINE Step(g) == [s \in SUBSET S |->
             IF s = {} THEN 0 ELSE Taken(s).tokens + g[s \ {Taken(s)}]]
           G == CHOOSE g : g = Step(g)
<1>1. Total(S) = G[S]
  BY DEF Total, MapThenSumSet, MapThenFoldSet, Taken
<1>2. ASSUME NEW g PROVE AddsUp(d, S, g) <=> g = Step(g)
  <2>1. ASSUME NEW s \in SUBSET S, s # {} PROVE d[Taken(s)] = Taken(s).tokens
    <3>1. Taken(s) \in s
      BY <2>1 DEF Taken
    <3> QED  BY <3>1
  <2>2. Step(g) = [s \in SUBSET S |-> IF s = {} THEN 0 ELSE d[Taken(s)] + g[s \ {Taken(s)}]]
    BY <2>1
  <2> QED  BY <2>2 DEF AddsUp
<1>4. PICK g : AddsUp(d, S, g)
  BY SumsExist
<1>5. g = Step(g)
  BY <1>2, <1>4
<1>6. G = Step(G)
  BY <1>5
<1> HIDE DEF G
<1>7. AddsUp(d, S, G)
  BY <1>2, <1>6
<1>8. AddsUp(d, S, Sums(d, S))
  BY SumsDefined
<1>9. G[S] = Sums(d, S)[S]
  BY <1>7, <1>8, SumsUnique
<1> QED  BY <1>1, <1>9 DEF Sum

LEMMA AnswerIsSum ==
  ASSUME NEW a, NEW S, Summable(a, S)
  PROVE  MapThenSumSet(LAMBDA x : a[x], S) = Sum(a, S)
<1> DEFINE Step(g) == [s \in SUBSET S |->
             IF s = {} THEN 0 ELSE a[Taken(s)] + g[s \ {Taken(s)}]]
           G == CHOOSE g : g = Step(g)
<1>1. MapThenSumSet(LAMBDA x : a[x], S) = G[S]
  BY DEF MapThenSumSet, MapThenFoldSet, Taken
<1>2. G = Sums(a, S)
  BY DEF Sums, AddsUp
<1> QED  BY <1>1, <1>2 DEF Sum

----------------------------------------------------------------------------
(* The peak                                                                *)

\* The ends of the interval of a request.
Lo(r, w) == Clipped(r, w)[1]
Hi(r, w) == Clipped(r, w)[2]

LEMMA TwoOf ==
  ASSUME NEW x \in Int, NEW y \in Int
  PROVE  /\ Max({x, y}) = IF x >= y THEN x ELSE y
         /\ Min({x, y}) = IF x =< y THEN x ELSE y
<1>1. CASE x >= y
  <2>1. x \in {x, y} /\ \A z \in {x, y} : x >= z
    BY <1>1
  <2>2. Max({x, y}) \in {x, y} /\ \A z \in {x, y} : Max({x, y}) >= z
    BY <2>1 DEF Max
  <2>3. Max({x, y}) = x
    BY <2>2, <1>1
  <2>4. Min({x, y}) \in {x, y} /\ \A z \in {x, y} : Min({x, y}) =< z
    <3>1. y \in {x, y} /\ \A z \in {x, y} : y =< z
      BY <1>1
    <3> QED  BY <3>1 DEF Min
  <2> QED  BY <2>3, <2>4, <1>1
<1>2. CASE x < y
  <2>1. y \in {x, y} /\ \A z \in {x, y} : y >= z
    BY <1>2
  <2>2. Max({x, y}) \in {x, y} /\ \A z \in {x, y} : Max({x, y}) >= z
    BY <2>1 DEF Max
  <2>3. Max({x, y}) = y
    BY <2>2, <1>2
  <2>4. Min({x, y}) \in {x, y} /\ \A z \in {x, y} : Min({x, y}) =< z
    <3>1. x \in {x, y} /\ \A z \in {x, y} : x =< z
      BY <1>2
    <3> QED  BY <3>1 DEF Min
  <2> QED  BY <2>3, <2>4, <1>2
<1> QED  BY <1>1, <1>2

\* What comes before and after the clipped ends.
LEMMA ClippedEnds ==
  ASSUME NEW w \in Windows, NEW r \in Pool
  PROVE  /\ Lo(r, w) \in Nat /\ Hi(r, w) \in Nat
         /\ Since(w) =< Lo(r, w) /\ Hi(r, w) =< Until(w)
         /\ \A t \in Nat : /\ Lo(r, w) =< t <=> r.start =< t /\ Since(w) =< t
                           /\ t < Hi(r, w) <=> t < r.stop /\ t < Until(w)
<1>1. /\ r.start \in Nat /\ r.stop \in Nat
      /\ Since(w) \in Nat /\ Until(w) \in Nat
  BY ReportsAssumption DEF Since, Until
<1>2. /\ Lo(r, w) = IF r.start >= Since(w) THEN r.start ELSE Since(w)
      /\ Hi(r, w) = IF r.stop =< Until(w) THEN r.stop ELSE Until(w)
  <2>1. Lo(r, w) = Max({r.start, Since(w)}) /\ Hi(r, w) = Min({r.stop, Until(w)})
    BY DEF Lo, Hi, Clipped
  <2>2. r.start \in Int /\ r.stop \in Int /\ Since(w) \in Int /\ Until(w) \in Int
    BY <1>1
  <2>3. Max({r.start, Since(w)}) = IF r.start >= Since(w) THEN r.start ELSE Since(w)
    BY <2>2, TwoOf
  <2>4. Min({r.stop, Until(w)}) = IF r.stop =< Until(w) THEN r.stop ELSE Until(w)
    BY <2>2, TwoOf
  <2> QED  BY <2>1, <2>3, <2>4
<1> QED  BY <1>1, <1>2

\* The intervals and their ends, of a ledger with finitely many rows.
LEMMA Recorded ==
  ASSUME NEW w \in Windows, requests \subseteq Pool, IsFiniteSet(requests)
  PROVE  /\ Intervals(w) \subseteq requests
         /\ IsFiniteSet(Intervals(w))
         /\ Times(w) \subseteq Nat
         /\ IsFiniteSet(Times(w))
         /\ \A r \in Intervals(w) : /\ r \in Pool /\ Lo(r, w) < Hi(r, w)
                                    /\ Lo(r, w) \in Times(w) /\ Hi(r, w) \in Times(w)
<1>1. Intervals(w) \subseteq requests
  BY DEF Intervals, Overlapping
<1>2. \A r \in Intervals(w) : /\ r \in Pool /\ Lo(r, w) < Hi(r, w)
                              /\ Lo(r, w) \in Times(w) /\ Hi(r, w) \in Times(w)
  BY <1>1 DEF Intervals, Lo, Hi, Times
<1>3. \A t \in Times(w) : \E r \in Intervals(w) : t = Lo(r, w) \/ t = Hi(r, w)
  BY DEF Times, Lo, Hi
<1>4. Until(w) \in Nat
  BY ReportsAssumption DEF Until
<1>5. \A t \in Times(w) : t \in Nat /\ t =< Until(w)
  <2>1. SUFFICES ASSUME NEW t \in Times(w) PROVE t \in Nat /\ t =< Until(w)
    OBVIOUS
  <2>2. PICK r \in Intervals(w) : t = Lo(r, w) \/ t = Hi(r, w)
    BY <1>3
  <2>3. /\ Lo(r, w) \in Nat /\ Hi(r, w) \in Nat /\ Hi(r, w) =< Until(w)
        /\ Lo(r, w) < Hi(r, w)
    BY <1>2, ClippedEnds
  <2> QED  BY <1>4, <2>2, <2>3
<1>6. IsFiniteSet(Times(w))
  <2>1. Times(w) \in SUBSET Nat
    BY <1>5
  <2> QED  BY <1>4, <1>5, <2>1, FS_BoundedSetOfNaturals
<1>7. IsFiniteSet(Intervals(w))
  BY <1>1, FS_Subset
<1> QED  BY <1>1, <1>2, <1>5, <1>6, <1>7

\* How many of the intervals begin, or end, at the instants of a set.
Beginning(s, w) == {r \in Intervals(w) : Lo(r, w) \in s}
Ending(s, w) == {r \in Intervals(w) : Hi(r, w) \in s}

LEMMA DisjointCardinality ==
  ASSUME NEW A, NEW B, IsFiniteSet(A), IsFiniteSet(B), A \cap B = {}
  PROVE  Cardinality(A \cup B) = Cardinality(A) + Cardinality(B)
<1>1. Cardinality(A \cap B) = 0
  BY FS_EmptySet
<1>2. Cardinality(A \cup B) = Cardinality(A) + Cardinality(B) - Cardinality(A \cap B)
  BY FS_Union
<1>3. Cardinality(A) \in Nat /\ Cardinality(B) \in Nat
  BY FS_CardinalityType
<1> QED  BY <1>1, <1>2, <1>3

\* What begins less what ends adds up over any instants of the sweep.
LEMMA DeltasAddUp ==
  ASSUME NEW w \in Windows, requests \subseteq Pool, IsFiniteSet(requests),
         NEW d, d = [t \in Times(w) |-> Delta(t, w)], NEW S \in SUBSET Times(w)
  PROVE  /\ Summable(d, Times(w))
         /\ Sum(d, S) = Cardinality(Beginning(S, w)) - Cardinality(Ending(S, w))
<1> DEFINE F == {s \in SUBSET S :
                   Sum(d, s) = Cardinality(Beginning(s, w)) - Cardinality(Ending(s, w))}
<1>1. IsFiniteSet(Intervals(w)) /\ IsFiniteSet(Times(w))
  BY Recorded
<1>2. ASSUME NEW s PROVE /\ IsFiniteSet(Beginning(s, w)) /\ IsFiniteSet(Ending(s, w))
                         /\ Cardinality(Beginning(s, w)) \in Nat
                         /\ Cardinality(Ending(s, w)) \in Nat
  <2>1. Beginning(s, w) \in SUBSET Intervals(w) /\ Ending(s, w) \in SUBSET Intervals(w)
    BY DEF Beginning, Ending
  <2> QED  BY <1>1, <2>1, FS_Subset, FS_CardinalityType
<1>3. ASSUME NEW t
      PROVE  Delta(t, w) = Cardinality(Beginning({t}, w)) - Cardinality(Ending({t}, w))
  <2>1. /\ Beginning({t}, w) = {r \in Intervals(w) : Clipped(r, w)[1] = t}
        /\ Ending({t}, w) = {r \in Intervals(w) : Clipped(r, w)[2] = t}
    BY DEF Beginning, Ending, Lo, Hi
  <2> QED  BY <2>1 DEF Delta
<1>4. Summable(d, Times(w))
  <2>1. SUFFICES ASSUME NEW t \in Times(w) PROVE d[t] \in Int
    BY <1>1 DEF Summable
  <2>2. d[t] = Cardinality(Beginning({t}, w)) - Cardinality(Ending({t}, w))
    BY <1>3
  <2> QED  BY <1>2, <2>2
<1>5. {} \in F
  <2>1. Beginning({}, w) = {} /\ Ending({}, w) = {}
    BY DEF Beginning, Ending
  <2>2. Cardinality({}) = 0
    BY FS_EmptySet
  <2> QED  BY <2>1, <2>2, SumNone
<1>6. ASSUME NEW s, NEW t \in s
      PROVE  /\ Cardinality(Beginning(s, w))
                  = Cardinality(Beginning({t}, w)) + Cardinality(Beginning(s \ {t}, w))
             /\ Cardinality(Ending(s, w))
                  = Cardinality(Ending({t}, w)) + Cardinality(Ending(s \ {t}, w))
  <2>1. /\ Beginning({t}, w) \cup Beginning(s \ {t}, w) = Beginning(s, w)
        /\ Beginning({t}, w) \cap Beginning(s \ {t}, w) = {}
        /\ Ending({t}, w) \cup Ending(s \ {t}, w) = Ending(s, w)
        /\ Ending({t}, w) \cap Ending(s \ {t}, w) = {}
    BY <1>6 DEF Beginning, Ending
  <2> QED  BY <2>1, <1>2, DisjointCardinality
<1>7. ASSUME NEW T \in SUBSET S, T # {}, \A t \in T : T \ {t} \in F PROVE T \in F
  <2>1. PICK t \in T : TRUE
    BY <1>7
  <2>2. Summable(d, T)
    BY <1>4, SumPart
  <2>3. Sum(d, T) = d[t] + Sum(d, T \ {t})
    BY <2>2, SumWithout
  <2>4. Sum(d, T \ {t})
          = Cardinality(Beginning(T \ {t}, w)) - Cardinality(Ending(T \ {t}, w))
    BY <1>7
  <2>5. d[t] = Cardinality(Beginning({t}, w)) - Cardinality(Ending({t}, w))
    BY <1>3
  <2>6. Sum(d, T) = Cardinality(Beginning(T, w)) - Cardinality(Ending(T, w))
    <3> DEFINE b1 == Cardinality(Beginning({t}, w))
               e1 == Cardinality(Ending({t}, w))
               b2 == Cardinality(Beginning(T \ {t}, w))
               e2 == Cardinality(Ending(T \ {t}, w))
    <3>1. b1 \in Nat /\ e1 \in Nat /\ b2 \in Nat /\ e2 \in Nat
      BY <1>2
    <3>2. /\ Cardinality(Beginning(T, w)) = b1 + b2
          /\ Cardinality(Ending(T, w)) = e1 + e2
      BY <1>6
    <3>3. Sum(d, T) = (b1 - e1) + (b2 - e2)
      BY <2>3, <2>4, <2>5
    <3> HIDE DEF b1, e1, b2, e2
    <3> QED  BY <3>1, <3>2, <3>3
  <2> QED  BY <2>6
<1> HIDE DEF F
<1>8. S \in F
  <2>1. IsFiniteSet(S)
    BY <1>1, FS_Subset
  <2> QED  BY <2>1, <1>5, <1>7, SetInduction
<1> QED  BY <1>4, <1>8 DEF F

\* The requests under way at an instant, and the intervals that hold it.
UnderWay(t) == {r \in requests : r.stop # 0 /\ r.start =< t /\ t < r.stop}
UnderWayIn(t, w) == {r \in Intervals(w) : Lo(r, w) =< t /\ t < Hi(r, w)}

\* The sweep counts the intervals that hold the instant.
LEMMA ActiveCounts ==
  ASSUME NEW w \in Windows, requests \subseteq Pool, IsFiniteSet(requests), NEW t \in Nat
  PROVE  Active(t, w) = Cardinality(UnderWayIn(t, w))
<1> DEFINE d == [u \in Times(w) |-> Delta(u, w)]
           S == {u \in Times(w) : u =< t}
           A == UnderWayIn(t, w)
           B == Beginning(S, w)
           E == Ending(S, w)
<1>1. Summable(d, Times(w)) /\ Sum(d, S) = Cardinality(B) - Cardinality(E)
  <2>1. S \in SUBSET Times(w)
    OBVIOUS
  <2> HIDE DEF S
  <2> QED  BY <2>1, DeltasAddUp
<1>2. Active(t, w) = Sum(d, S)
  <2>1. \A u \in Times(w) : d[u] = Delta(u, w)
    OBVIOUS
  <2> HIDE DEF d
  <2> QED  BY <1>1, <2>1, ActiveIsSum
<1>3. /\ B = {r \in Intervals(w) : Lo(r, w) =< t}
      /\ E = {r \in Intervals(w) : Hi(r, w) =< t}
  BY Recorded DEF Beginning, Ending
<1>4. \A r \in Intervals(w) : /\ Lo(r, w) < Hi(r, w)
                              /\ Lo(r, w) \in Nat /\ Hi(r, w) \in Nat
  BY Recorded, ClippedEnds
<1>5. A \cup E = B /\ A \cap E = {}
  BY <1>3, <1>4 DEF UnderWayIn
<1>6. IsFiniteSet(A) /\ IsFiniteSet(E)
  <2>1. A \in SUBSET Intervals(w) /\ E \in SUBSET Intervals(w)
    BY DEF UnderWayIn, Ending
  <2> HIDE DEF A, E
  <2> QED  BY <2>1, Recorded, FS_Subset
<1> HIDE DEF A, B, E
<1>7. Cardinality(B) = Cardinality(A) + Cardinality(E)
  BY <1>5, <1>6, DisjointCardinality
<1>8. Cardinality(A) \in Nat /\ Cardinality(E) \in Nat
  BY <1>6, FS_CardinalityType
<1>9. Active(t, w) = Cardinality(A)
  BY <1>1, <1>2, <1>7, <1>8
<1> QED  BY <1>9 DEF A

\* Within the range these are the requests under way; outside there are none.
LEMMA UnderWayInRange ==
  ASSUME NEW w \in Windows, requests \subseteq Pool, NEW t \in Nat
  PROVE  /\ InRange(t, w) => UnderWayIn(t, w) = UnderWay(t)
         /\ ~ InRange(t, w) => UnderWayIn(t, w) = {}
<1>1. Since(w) \in Nat /\ Until(w) \in Nat
  BY ReportsAssumption DEF Since, Until
<1>2. ASSUME NEW r \in requests
      PROVE  r \in UnderWayIn(t, w) <=> InRange(t, w) /\ r \in UnderWay(t)
  <2>1. r.start \in Nat /\ r.stop \in Nat
    BY ReportsAssumption
  <2>2. /\ Lo(r, w) \in Nat /\ Hi(r, w) \in Nat
        /\ Lo(r, w) =< t <=> r.start =< t /\ Since(w) =< t
        /\ t < Hi(r, w) <=> t < r.stop /\ t < Until(w)
    BY ClippedEnds
  <2>3. r \in Intervals(w) <=>
          /\ r.stop # 0 /\ r.stop > Since(w) /\ r.start < Until(w)
          /\ Lo(r, w) < Hi(r, w)
    BY DEF Intervals, Overlapping, Lo, Hi
  <2>4. r \in UnderWayIn(t, w) <=> r \in Intervals(w) /\ Lo(r, w) =< t /\ t < Hi(r, w)
    BY DEF UnderWayIn
  <2>5. r \in UnderWay(t) <=> r.stop # 0 /\ r.start =< t /\ t < r.stop
    BY DEF UnderWay
  <2>6. ASSUME InRange(t, w), r \in UnderWay(t) PROVE r \in UnderWayIn(t, w)
    <3>1. Lo(r, w) =< t /\ t < Hi(r, w)
      BY <2>2, <2>5, <2>6 DEF InRange
    <3>2. r \in Intervals(w)
      BY <1>1, <2>1, <2>2, <2>3, <2>5, <2>6, <3>1 DEF InRange
    <3> QED  BY <2>4, <3>1, <3>2
  <2>7. ASSUME r \in UnderWayIn(t, w) PROVE InRange(t, w) /\ r \in UnderWay(t)
    <3>1. r \in Intervals(w) /\ Lo(r, w) =< t /\ t < Hi(r, w)
      BY <2>4, <2>7
    <3> QED  BY <2>2, <2>3, <2>5, <3>1 DEF InRange
  <2> QED  BY <2>6, <2>7
<1>3. UnderWay(t) \subseteq requests /\ UnderWayIn(t, w) \subseteq requests
  BY DEF UnderWay, UnderWayIn, Intervals, Overlapping
<1> QED  BY <1>2, <1>3

\* A set of numbers that are not above some bound has a greatest one.
LEMMA Greatest ==
  ASSUME NEW S \in SUBSET Nat, S # {}, NEW n \in Nat, \A x \in S : x =< n
  PROVE  Max(S) \in S /\ \A x \in S : x =< Max(S)
<1> DEFINE T == {n - x : x \in S}
<1>1. T \subseteq Nat /\ T # {}
  OBVIOUS
<1> HIDE DEF T
<1>2. PICK m \in T : \A k \in T : ~ (<<k, m>> \in OpToRel(<, Nat))
  BY <1>1, NatLessThanWellFounded, WFMin
<1>3. ASSUME NEW k \in T PROVE m =< k
  <2>1. k \in Nat /\ m \in Nat
    BY <1>1
  <2>2. k < m => <<k, m>> \in OpToRel(<, Nat)
    BY <2>1 DEF OpToRel
  <2>3. ~ (<<k, m>> \in OpToRel(<, Nat))
    BY <1>2
  <2>4. ~ (k < m)
    BY <2>2, <2>3
  <2> QED  BY <2>1, <2>4
<1>4. PICK x \in S : m = n - x
  BY DEF T
<1>5. \A y \in S : y =< x
  <2>1. \A y \in S : m =< n - y
    BY <1>3 DEF T
  <2> QED  BY <1>4, <2>1
<1>6. \A y \in S : x >= y
  BY <1>5
<1>7. Max(S) \in S /\ \A y \in S : Max(S) >= y
  BY <1>6 DEF Max
<1> QED  BY <1>7

LEMMA GreatestIs ==
  ASSUME NEW S \in SUBSET Nat, NEW m \in S, \A x \in S : x =< m
  PROVE  Max(S) = m
<1>1. \A x \in S : m >= x
  OBVIOUS
<1>2. Max(S) \in S /\ \A x \in S : Max(S) >= x
  BY <1>1 DEF Max
<1>3. m \in Nat /\ Max(S) \in Nat /\ Max(S) =< m /\ Max(S) >= m
  BY <1>2
<1> QED  BY <1>3

\* The most there are at one of the ends is the most there are at any instant.
LEMMA PeakCorrect ==
  ASSUME NEW w \in Windows, requests \subseteq Pool, IsFiniteSet(requests)
  PROVE  Peak(w) = Max({0} \cup {Cardinality(UnderWay(t)) : t \in Since(w)..(Until(w) - 1)})
<1> DEFINE S == {0} \cup {Active(t, w) : t \in Times(w)}
           U == {0} \cup {Cardinality(UnderWay(t)) : t \in Since(w)..(Until(w) - 1)}
           n == Cardinality(Intervals(w))
<1>1. Since(w) \in Nat /\ Until(w) \in Nat
  BY ReportsAssumption DEF Since, Until
<1>2. IsFiniteSet(Intervals(w)) /\ n \in Nat /\ Times(w) \subseteq Nat
  BY Recorded, FS_CardinalityType
<1>3. ASSUME NEW t
      PROVE  /\ IsFiniteSet(UnderWayIn(t, w))
             /\ Cardinality(UnderWayIn(t, w)) \in Nat
             /\ Cardinality(UnderWayIn(t, w)) =< n
  <2>1. UnderWayIn(t, w) \in SUBSET Intervals(w)
    BY DEF UnderWayIn
  <2> QED  BY <1>2, <2>1, FS_Subset, FS_CardinalityType
<1>4. \A t \in Times(w) : t \in Nat /\ Active(t, w) = Cardinality(UnderWayIn(t, w))
  BY <1>2, ActiveCounts
<1>5. \A t \in Since(w)..(Until(w) - 1) :
         t \in Nat /\ InRange(t, w) /\ UnderWay(t) = UnderWayIn(t, w)
  <2>1. \A t \in Since(w)..(Until(w) - 1) : t \in Nat /\ InRange(t, w)
    BY <1>1 DEF InRange
  <2> QED  BY <2>1, UnderWayInRange
<1>6. S \subseteq U
  <2>1. SUFFICES ASSUME NEW t \in Times(w) PROVE Active(t, w) \in U
    OBVIOUS
  <2>2. CASE InRange(t, w)
    <3>1. t \in Since(w)..(Until(w) - 1)
      BY <1>1, <1>2, <2>2 DEF InRange
    <3> QED  BY <1>4, <1>5, <3>1
  <2>3. CASE ~ InRange(t, w)
    <3>1. UnderWayIn(t, w) = {}
      BY <1>2, <2>3, UnderWayInRange
    <3>2. Cardinality({}) = 0
      BY FS_EmptySet
    <3> QED  BY <1>4, <3>1, <3>2
  <2> QED  BY <2>2, <2>3
<1>7. S \in SUBSET Nat /\ U \in SUBSET Nat /\ S # {} /\ \A x \in S : x =< n
  BY <1>2, <1>3, <1>4, <1>5
<1>8. ASSUME NEW t \in Since(w)..(Until(w) - 1)
      PROVE  \E x \in S : Cardinality(UnderWay(t)) =< x
  <2> DEFINE A == UnderWayIn(t, w)
             L == {Lo(r, w) : r \in A}
  <2>1. CASE A = {}
    <3>1. Cardinality(UnderWay(t)) = 0
      BY <1>5, <2>1, FS_EmptySet
    <3> QED  BY <3>1
  <2>2. CASE A # {}
    <3>1. \A r \in A : /\ r \in Intervals(w) /\ r \in Pool /\ Lo(r, w) \in Nat
                       /\ Hi(r, w) \in Nat /\ Lo(r, w) =< t /\ t < Hi(r, w)
                       /\ Lo(r, w) \in Times(w)
      BY Recorded, ClippedEnds DEF UnderWayIn
    <3>2. L \in SUBSET Nat /\ L # {} /\ t \in Nat /\ \A x \in L : x =< t
      BY <1>5, <2>2, <3>1
    <3> DEFINE u == Max(L)
    <3> HIDE DEF A
    <3>3. u \in L /\ \A x \in L : x =< u
      BY <3>2, Greatest
    <3>4. u \in Times(w) /\ u \in Nat /\ u =< t
      BY <3>1, <3>2, <3>3
    <3> HIDE DEF u
    <3>5. A \subseteq UnderWayIn(u, w)
      <4>1. SUFFICES ASSUME NEW r \in A PROVE r \in UnderWayIn(u, w)
        OBVIOUS
      <4>2. Lo(r, w) =< u
        BY <3>3
      <4>3. u < Hi(r, w)
        BY <3>1, <3>2, <3>4
      <4> QED  BY <3>1, <4>2, <4>3 DEF UnderWayIn
    <3>6. Cardinality(A) =< Cardinality(UnderWayIn(u, w))
      BY <1>3, <3>5, FS_Subset
    <3>7. Cardinality(UnderWayIn(u, w)) \in S
      BY <1>4, <3>4
    <3> QED  BY <1>5, <3>6, <3>7 DEF A
  <2> QED  BY <2>1, <2>2
<1>9. Max(S) \in S /\ \A x \in S : x =< Max(S)
  <2> HIDE DEF S, n
  <2> QED  BY <1>2, <1>7, Greatest
<1>10. Max(S) \in Nat
  <2> HIDE DEF S
  <2> QED  BY <1>7, <1>9
<1>11. ASSUME NEW y \in U PROVE y =< Max(S)
  <2>1. 0 \in S
    OBVIOUS
  <2>2. CASE y = 0
    <3> HIDE DEF S
    <3> QED  BY <1>9, <2>1, <2>2
  <2>3. CASE y # 0
    <3>1. PICK t \in Since(w)..(Until(w) - 1) : y = Cardinality(UnderWay(t))
      BY <2>3
    <3>2. PICK x \in S : y =< x
      BY <1>8, <3>1
    <3> HIDE DEF S, U
    <3>3. x \in Nat /\ y \in Nat /\ x =< Max(S)
      BY <1>7, <1>9
    <3> QED  BY <1>10, <3>2, <3>3
  <2> QED  BY <2>2, <2>3
<1>12. Max(U) = Max(S)
  <2> HIDE DEF S, U
  <2> QED  BY <1>6, <1>7, <1>9, <1>11, GreatestIs
<1> QED  BY <1>12 DEF Peak

----------------------------------------------------------------------------
(* Questions                                                               *)

\* The ledger holds finitely many of the rows there may be, and what a report
\* was asked for is a question of its kind.
Asking ==
  /\ requests \subseteq Pool /\ IsFiniteSet(requests)
  /\ step \in {"idle", "candidates", "join", "peak", "activity", "done"}
  /\ step \in {"candidates", "join"} => asked \in Listings
  /\ step = "peak" => asked \in Peaks
  /\ step = "activity" => asked \in Activities
  /\ step = "done" => asked \in Listings \cup Peaks \cup Activities

LEMMA AskingInitially == Init => Asking
<1> SUFFICES ASSUME Init PROVE Asking
  OBVIOUS
<1>1. IsFiniteSet({})
  BY FS_EmptySet
<1> QED  BY <1>1 DEF Init, Asking

LEMMA AskingKept == Asking /\ [Next]_vars => Asking'
<1> SUFFICES ASSUME Asking, [Next]_vars PROVE Asking'
  OBVIOUS
<1>1. CASE Write
  <2>1. PICK r \in Pool : Insert(r) \/ MergeChildren(r)
    BY <1>1 DEF Write
  <2>2. requests' = requests \cup {r} \/ requests' = requests
    BY <2>1 DEF Insert, MergeChildren
  <2>3. requests' \subseteq Pool /\ IsFiniteSet(requests')
    BY <2>2, FS_AddElement DEF Asking
  <2>4. UNCHANGED <<step, asked>>
    BY <2>1 DEF Insert, MergeChildren, reader
  <2> QED  BY <2>3, <2>4 DEF Asking
<1>2. ASSUME NEW q \in Listings, Ask("candidates", q) PROVE Asking'
  BY <1>2 DEF Ask, Asking
<1>3. ASSUME NEW q \in Peaks, Ask("peak", q) PROVE Asking'
  BY <1>3 DEF Ask, Asking
<1>4. ASSUME NEW q \in Activities, Ask("activity", q) PROVE Asking'
  BY <1>4 DEF Ask, Asking
<1>5. CASE CandidateRequests
  BY <1>5 DEF CandidateRequests, Asking
<1>6. CASE JoinChildRows
  BY <1>6 DEF JoinChildRows, Asking
<1>7. CASE PeakConcurrency
  BY <1>7 DEF PeakConcurrency, Asking
<1>8. CASE TokenActivity
  BY <1>8 DEF TokenActivity, Asking
<1>9. CASE Return
  BY <1>9 DEF Return, Asking
<1>10. CASE UNCHANGED vars
  BY <1>10 DEF vars, reader, Asking
<1> QED  BY <1>1, <1>2, <1>3, <1>4, <1>5, <1>6, <1>7, <1>8, <1>9, <1>10 DEF Next

\* The fields of a question tell its kind.
LEMMA Kinds ==
  ASSUME NEW q
  PROVE  /\ q \in Peaks => DOMAIN q = {"range"} /\ q.range \in Windows
         /\ q \in Listings => "limit" \in DOMAIN q /\ "bucket" \notin DOMAIN q
         /\ q \in Activities => "bucket" \in DOMAIN q /\ "limit" \notin DOMAIN q
<1>1. ASSUME q \in Peaks PROVE DOMAIN q = {"range"} /\ q.range \in Windows
  BY <1>1 DEF Peaks
<1>2. ASSUME q \in Listings PROVE "limit" \in DOMAIN q /\ "bucket" \notin DOMAIN q
  BY <1>2 DEF Listings
<1>3. ASSUME q \in Activities PROVE "bucket" \in DOMAIN q /\ "limit" \notin DOMAIN q
  BY <1>3 DEF Activities
<1> QED  BY <1>1, <1>2, <1>3

----------------------------------------------------------------------------
(* The theorem of the peak                                                 *)

\* Only PeakConcurrency answers a question of its kind.
LEMMA PeakKept == Asking /\ PeakIsMaximum /\ [Next]_vars => PeakIsMaximum'
<1> SUFFICES ASSUME Asking, PeakIsMaximum, [Next]_vars PROVE PeakIsMaximum'
  OBVIOUS
<1> DEFINE Answered(q, a, R) ==
      a[1] = Max({0} \cup {Cardinality({r \in R : r.stop # 0 /\ r.start =< t /\ t < r.stop})
                            : t \in Since(q.range)..(Until(q.range) - 1)})
<1>1. /\ PeakIsMaximum <=>
           (step = "done" /\ DOMAIN asked = {"range"} => Answered(asked, answer, asOf))
      /\ PeakIsMaximum' <=>
           (step' = "done" /\ DOMAIN asked' = {"range"} => Answered(asked', answer', asOf'))
  BY DEF PeakIsMaximum, Since, Until
<1> HIDE DEF Answered
<1>2. CASE UNCHANGED reader
  BY <1>1, <1>2 DEF reader
<1>3. CASE PeakConcurrency
  <2> DEFINE w == asked.range
  <2>1. w \in Windows
    BY <1>3, Kinds DEF PeakConcurrency, Asking
  <2>2. Peak(w) = Max({0} \cup {Cardinality(UnderWay(t)) : t \in Since(w)..(Until(w) - 1)})
    BY <2>1, PeakCorrect DEF Asking
  <2>3. answer' = <<Peak(w)>> /\ asOf' = requests /\ asked' = asked
    BY <1>3 DEF PeakConcurrency
  <2>4. Answered(asked, answer', requests)
    BY <2>2, <2>3 DEF Answered, UnderWay
  <2> QED  BY <1>1, <2>3, <2>4
<1>4. CASE JoinChildRows
  <2>1. asked' = asked /\ "limit" \in DOMAIN asked
    BY <1>4, Kinds DEF JoinChildRows, Asking
  <2> QED  BY <1>1, <2>1
<1>5. CASE TokenActivity
  <2>1. asked' = asked /\ "bucket" \in DOMAIN asked
    BY <1>5, Kinds DEF TokenActivity, Asking
  <2> QED  BY <1>1, <2>1
<1>6. CASE Write
  BY <1>2, <1>6 DEF Write, Insert, MergeChildren
<1>7. ASSUME step' # "done" PROVE PeakIsMaximum'
  BY <1>1, <1>7
<1>8. ASSUME NEW q, NEW op \in {"candidates", "peak", "activity"}, Ask(op, q)
      PROVE  PeakIsMaximum'
  BY <1>7, <1>8 DEF Ask
<1>9. CASE CandidateRequests \/ Return
  BY <1>7, <1>9 DEF CandidateRequests, Return
<1> QED
  BY <1>2, <1>3, <1>4, <1>5, <1>6, <1>8, <1>9 DEF Next, vars

\* The peak concurrency of the KPIs is the largest number of requests under way
\* at any instant of the range, of those there were when it was read.
THEOREM ReportsPeakIsMaximum == Spec => []PeakIsMaximum
<1>1. Init => Asking /\ PeakIsMaximum
  BY AskingInitially DEF Init, PeakIsMaximum
<1>2. Asking /\ PeakIsMaximum /\ [Next]_vars => Asking' /\ PeakIsMaximum'
  BY AskingKept, PeakKept
<1> QED  BY <1>1, <1>2, PTL DEF Spec

----------------------------------------------------------------------------
(* The heatmap                                                             *)

Instants == 1..Len(Clock)

\* The clock covers every window.
LEMMA Calendar ==
  /\ Len(Clock) \in Nat /\ DOMAIN Clock = Instants
  /\ \A h \in Instants : /\ Clock[h] = <<Day(h), Hour(h)>>
                          /\ Day(h) \in Int /\ Hour(h) \in Nat
  /\ \A w \in Windows : Since(w) \in Instants /\ Until(w) \in 1..(Len(Clock) + 1)
<1>1. Clock \in Seq(Int \X Nat)
  BY ReportsAssumption
<1>2. Len(Clock) \in Nat /\ DOMAIN Clock = Instants
  BY <1>1 DEF Instants
<1>3. \A h \in Instants : Clock[h] \in Int \X Nat
  BY <1>1 DEF Instants
<1>4. \A h \in Instants : /\ Clock[h] = <<Day(h), Hour(h)>>
                          /\ Day(h) \in Int /\ Hour(h) \in Nat
  BY <1>3 DEF Day, Hour
<1>5. \A w \in Windows : Since(w) \in Instants /\ Until(w) \in 1..(Len(Clock) + 1)
  BY <1>2, ReportsAssumption DEF Since, Until
<1> QED  BY <1>2, <1>3, <1>4, <1>5

\* A set of numbers has a least one.
LEMMA Least ==
  ASSUME NEW S \in SUBSET Nat, S # {}
  PROVE  Min(S) \in S /\ \A x \in S : Min(S) =< x
<1>1. PICK m \in S : \A k \in S : ~ (<<k, m>> \in OpToRel(<, Nat))
  BY NatLessThanWellFounded, WFMin
<1>2. ASSUME NEW k \in S PROVE m =< k
  <2>1. k \in Nat /\ m \in Nat
    OBVIOUS
  <2>2. k < m => <<k, m>> \in OpToRel(<, Nat)
    BY <2>1 DEF OpToRel
  <2>3. ~ (<<k, m>> \in OpToRel(<, Nat))
    BY <1>1
  <2>4. ~ (k < m)
    BY <2>2, <2>3
  <2> QED  BY <2>1, <2>4
<1> QED  BY <1>2 DEF Min

LEMMA LeastIs ==
  ASSUME NEW S \in SUBSET Nat, NEW m \in S, \A x \in S : m =< x
  PROVE  Min(S) = m
<1>1. Min(S) \in S /\ \A x \in S : Min(S) =< x
  BY DEF Min
<1>2. m \in Nat /\ Min(S) \in Nat /\ Min(S) =< m /\ m =< Min(S)
  BY <1>1
<1> QED  BY <1>2

\* The midnight of an hour is the first instant of its day.
LEMMA MidnightIs ==
  ASSUME NEW h \in Instants
  PROVE  /\ Midnight(h) \in Instants /\ Day(Midnight(h)) = Day(h) /\ Midnight(h) =< h
         /\ \A k \in Instants : Day(k) = Day(h) => Midnight(h) =< k
<1> DEFINE S == {k \in Instants : Day(k) = Day(h)}
<1>1. S \in SUBSET Nat /\ h \in S /\ Midnight(h) = Min(S)
  BY Calendar DEF Midnight, Instants
<1>2. Min(S) \in S /\ \A x \in S : Min(S) =< x
  BY <1>1, Least
<1> QED  BY <1>1, <1>2

\* A bucket begins at an instant of the clock, not after those it holds.
LEMMA TruncatedIs ==
  ASSUME NEW h \in Instants, NEW bucket \in {"day", "hour"}
  PROVE  TruncatedTo(bucket, h) \in Instants /\ TruncatedTo(bucket, h) =< h
<1>1. h \in Nat
  BY Calendar DEF Instants
<1> QED  BY <1>1, MidnightIs DEF TruncatedTo

\* On a steady clock the readings grow, and days begin at their midnights.
LEMMA SteadyIs ==
  ASSUME SteadyClock
  PROVE  /\ \A h, k \in Instants : h < k => Earlier(Clock[h], Clock[k])
         /\ \A h, k \in Instants : h =< k => Day(h) =< Day(k)
         /\ \A h, k \in Instants : Clock[h] = Clock[k] => h = k
         /\ \A h \in Instants : Hour(h) = 0 <=> Midnight(h) = h
         /\ \A h \in Instants : Hour(Midnight(h)) = 0
<1>0. DOMAIN Clock = Instants /\ \A h \in Instants : h \in Nat
  BY Calendar DEF Instants
<1>1. \A h, k \in Instants : h < k => Earlier(Clock[h], Clock[k])
  BY <1>0 DEF SteadyClock
<1>2. \A h, k \in Instants : Earlier(Clock[h], Clock[k]) =>
        /\ Day(h) =< Day(k) /\ Clock[h] # Clock[k]
        /\ Day(h) = Day(k) => Hour(h) < Hour(k)
  <2>1. SUFFICES ASSUME NEW h \in Instants, NEW k \in Instants, Earlier(Clock[h], Clock[k])
                 PROVE  /\ Day(h) =< Day(k) /\ Clock[h] # Clock[k]
                        /\ Day(h) = Day(k) => Hour(h) < Hour(k)
    OBVIOUS
  <2>2. Day(h) \in Int /\ Day(k) \in Int /\ Hour(h) \in Nat /\ Hour(k) \in Nat
    BY Calendar
  <2>3. Day(h) < Day(k) \/ (Day(h) = Day(k) /\ Hour(h) < Hour(k))
    BY <2>1 DEF Earlier, Day, Hour
  <2>4. Clock[h] = Clock[k] => Day(h) = Day(k) /\ Hour(h) = Hour(k)
    BY DEF Day, Hour
  <2> QED  BY <2>2, <2>3, <2>4
<1>3. \A h, k \in Instants : h =< k => Day(h) =< Day(k)
  <2>1. SUFFICES ASSUME NEW h \in Instants, NEW k \in Instants, h =< k PROVE Day(h) =< Day(k)
    OBVIOUS
  <2>2. CASE h = k
    BY <2>2, Calendar
  <2>3. CASE h # k
    BY <1>0, <1>1, <1>2, <2>1, <2>3
  <2> QED  BY <2>2, <2>3
<1>4. \A h, k \in Instants : Clock[h] = Clock[k] => h = k
  BY <1>0, <1>1, <1>2
<1>5. ASSUME NEW h \in Instants PROVE Hour(Midnight(h)) = 0
  <2> DEFINE m == Midnight(h)
  <2>1. m \in Instants /\ Day(m) = Day(h) /\ \A k \in Instants : Day(k) = Day(h) => m =< k
    BY MidnightIs
  <2>2. PICK k \in Instants : Clock[k] = <<Day(h), 0>>
    BY <1>0 DEF SteadyClock
  <2>3. Day(k) = Day(h) /\ Hour(k) = 0
    BY <2>2 DEF Day, Hour
  <2> HIDE DEF m
  <2>4. m =< k /\ Hour(m) \in Nat
    BY <2>1, <2>3, Calendar
  <2>5. ~ (m < k)
    BY <1>1, <1>2, <2>1, <2>3, <2>4
  <2>6. m = k
    BY <1>0, <2>1, <2>4, <2>5
  <2> QED  BY <2>3, <2>6 DEF m
<1>6. ASSUME NEW h \in Instants, Hour(h) = 0 PROVE Midnight(h) = h
  <2>1. Midnight(h) \in Instants /\ Day(Midnight(h)) = Day(h) /\ Hour(Midnight(h)) = 0
    BY <1>5, MidnightIs
  <2>2. Clock[Midnight(h)] = Clock[h]
    BY <1>6, <2>1, Calendar
  <2> QED  BY <1>4, <2>1, <2>2
<1> QED  BY <1>1, <1>3, <1>4, <1>5, <1>6

\* A local time that the clock shows once stands for that instant, and one after
\* all that it shows for none of them.
LEMMA DateIs ==
  ASSUME NEW wall, NEW x,
         \/ x \in Instants /\ {k \in DOMAIN Clock : Clock[k] = wall} = {x}
         \/ /\ x = Len(Clock) + 1
            /\ {k \in DOMAIN Clock : Clock[k] = wall} = {}
            /\ {k \in DOMAIN Clock : Earlier(wall, Clock[k])} = {}
  PROVE  Date(wall) = x
<1>1. Len(Clock) \in Nat /\ x \in Int
  BY Calendar DEF Instants
<1>2. Max({x}) = x /\ Min({x}) = x
  BY <1>1 DEF Max, Min
<1>3. Date(wall) = IF PicksLater THEN Max({x}) ELSE Min({x})
  BY DEF Date
<1> QED  BY <1>2, <1>3

\* The day after a midnight begins at the first instant of a later day.
LEMMA NextDayIs ==
  ASSUME SteadyClock, NEW h \in Instants, Hour(h) = 0
  PROVE  NextDay(h) = Min({k \in DOMAIN Clock : Day(k) > Day(h)} \cup {Len(Clock) + 1})
<1> DEFINE wall == <<Day(h) + 1, 0>>
           S == {k \in DOMAIN Clock : Day(k) > Day(h)} \cup {Len(Clock) + 1}
           x == Min(S)
<1>0. Len(Clock) \in Nat /\ DOMAIN Clock = Instants /\ \A k \in Instants : k \in Nat
  BY Calendar DEF Instants
<1>1. x \in S /\ \A k \in S : x =< k
  <2>1. S \in SUBSET Nat /\ S # {}
    BY <1>0
  <2> HIDE DEF S
  <2> QED  BY <2>1, Least
<1>2. NextDay(h) = Date(wall)
  BY DEF NextDay
<1>3. \A k \in Instants : (Clock[k] = wall \/ Earlier(wall, Clock[k])) => Day(k) > Day(h)
  <2>1. SUFFICES ASSUME NEW k \in Instants, Clock[k] = wall \/ Earlier(wall, Clock[k])
                 PROVE  Day(k) > Day(h)
    OBVIOUS
  <2>2. Day(h) \in Int /\ Day(k) \in Int
    BY Calendar
  <2>3. Day(k) = Day(h) + 1 \/ Day(h) + 1 < Day(k)
    BY <2>1 DEF Earlier, Day
  <2> QED  BY <2>2, <2>3
<1>4. CASE x = Len(Clock) + 1
  <2>1. \A k \in Instants : ~ (Day(k) > Day(h))
    <3>1. \A k \in Instants : Day(k) > Day(h) => x =< k
      BY <1>0, <1>1
    <3> HIDE DEF x, S
    <3>2. \A k \in Instants : ~ (Len(Clock) + 1 =< k)
      BY <1>0 DEF Instants
    <3> QED  BY <1>4, <3>1, <3>2
  <2>2. /\ {k \in DOMAIN Clock : Clock[k] = wall} = {}
        /\ {k \in DOMAIN Clock : Earlier(wall, Clock[k])} = {}
    BY <1>0, <1>3, <2>1
  <2> HIDE DEF wall, x
  <2> QED  BY <1>2, <1>4, <2>2, DateIs DEF x
<1>5. CASE x # Len(Clock) + 1
  <2>1. x \in Instants /\ Day(x) > Day(h)
    BY <1>0, <1>1, <1>5
  <2>2. \A k \in Instants : Day(k) > Day(h) => x =< k
    BY <1>0, <1>1
  <2> HIDE DEF x, S
  <2>3. Day(h) \in Int /\ Day(x) \in Int
    BY <2>1, Calendar
  <2>4. h < x
    <3>1. x =< h => Day(x) =< Day(h)
      BY <2>1, SteadyIs
    <3> QED  BY <1>0, <2>1, <2>3, <3>1
  <2>5. x - 1 \in Instants /\ h =< x - 1 /\ (x - 1) + 1 = x
    BY <1>0, <2>1, <2>4 DEF Instants
  <2>6. Day(x - 1) = Day(h)
    <3>1. Day(h) =< Day(x - 1) /\ Day(x - 1) \in Int
      BY <2>5, SteadyIs, Calendar
    <3>2. ~ (Day(x - 1) > Day(h))
      <4>1. ~ (x =< x - 1)
        BY <1>0, <2>1
      <4> QED  BY <2>2, <2>5, <4>1
    <3> QED  BY <2>3, <3>1, <3>2
  <2>7. Day(x) = Day(h) + 1
    <3>1. Day((x - 1) + 1) \in {Day(x - 1), Day(x - 1) + 1}
      BY <1>0, <2>1, <2>5 DEF SteadyClock
    <3> QED  BY <2>1, <2>3, <2>5, <2>6, <3>1
  <2>8. Hour(x) = 0
    <3>1. PICK y \in Instants : Clock[y] = <<Day(x), 0>>
      BY <1>0, <2>1 DEF SteadyClock
    <3>2. Day(y) = Day(x) /\ Hour(y) = 0
      BY <3>1 DEF Day, Hour
    <3>3. x =< y
      BY <2>1, <2>2, <3>2
    <3>4. ~ (x < y)
      <4>1. x < y => Earlier(Clock[x], Clock[y])
        BY <2>1, SteadyIs
      <4>2. Hour(x) \in Nat
        BY <2>1, Calendar
      <4>3. ~ Earlier(Clock[x], Clock[y])
        BY <2>3, <3>2, <4>2 DEF Earlier, Day, Hour
      <4> QED  BY <4>1, <4>3
    <3>5. x = y
      BY <1>0, <2>1, <3>3, <3>4
    <3> QED  BY <3>2, <3>5
  <2>9. Clock[x] = wall
    BY <2>1, <2>7, <2>8, Calendar
  <2> HIDE DEF wall
  <2>10. {k \in DOMAIN Clock : Clock[k] = wall} = {x}
    BY <1>0, <2>1, <2>9, SteadyIs
  <2>11. Date(wall) = x
    BY <2>1, <2>10, DateIs
  <2> QED  BY <1>2, <2>11 DEF x, S
<1> QED  BY <1>4, <1>5

\* The range of a heatmap begins with a bucket.
LEMMA FirstIs ==
  ASSUME SteadyClock, NEW bucket \in {"day", "hour"}, NEW w \in Days
  PROVE  /\ FirstBucket(bucket, Since(w)) = Since(w)
         /\ TruncatedTo(bucket, Since(w)) = Since(w)
         /\ Hour(Since(w)) = 0
<1> DEFINE a == Since(w)
<1>0. DOMAIN Clock = Instants /\ a \in Instants
  BY Calendar DEF Days
<1>1. PICK h \in Instants : a = BeginningOfDay(h)
  BY <1>0 DEF Days
<1> HIDE DEF a
<1>2. PICK k \in Instants : Clock[k] = <<Day(h), 0>>
  BY <1>0 DEF SteadyClock
<1>3. {m \in DOMAIN Clock : Clock[m] = <<Day(h), 0>>} = {k}
  BY <1>0, <1>2, SteadyIs
<1>4. a = k
  BY <1>1, <1>3, DateIs DEF BeginningOfDay
<1>5. Hour(a) = 0 /\ Day(a) = Day(h)
  BY <1>2, <1>4 DEF Hour, Day
<1>6. BeginningOfDay(a) = a
  BY <1>0, <1>3, <1>4, <1>5, DateIs DEF BeginningOfDay
<1>7. BeginningOfHour(a) = a
  <2>1. {m \in DOMAIN Clock : Clock[m] = Clock[a]} = {a}
    BY <1>2, <1>3, <1>4
  <2> QED  BY <1>0, <2>1, DateIs DEF BeginningOfHour
<1>8. Midnight(a) = a
  BY <1>0, <1>5, SteadyIs
<1> QED  BY <1>5, <1>6, <1>7, <1>8 DEF FirstBucket, TruncatedTo, a

\* The next instant is in the same bucket or begins the next one.
LEMMA NextTruncated ==
  ASSUME SteadyClock, NEW bucket \in {"day", "hour"},
         NEW h \in Instants, h + 1 \in Instants
  PROVE  \/ TruncatedTo(bucket, h + 1) = TruncatedTo(bucket, h)
         \/ TruncatedTo(bucket, h + 1) = NextBucket(bucket, TruncatedTo(bucket, h))
<1>0. Len(Clock) \in Nat /\ DOMAIN Clock = Instants /\ h \in Nat
  BY Calendar DEF Instants
<1>1. CASE bucket = "hour"
  BY <1>1 DEF TruncatedTo, NextBucket
<1>2. CASE bucket = "day" /\ Day(h + 1) = Day(h)
  BY <1>2 DEF TruncatedTo, Midnight
<1>3. CASE bucket = "day" /\ Day(h + 1) # Day(h)
  <2>1. \A i, k \in Instants : i =< k => Day(i) \in Int /\ Day(k) \in Int /\ Day(i) =< Day(k)
    BY Calendar, SteadyIs
  <2>2. Day(h) < Day(h + 1)
    BY <1>0, <1>3, <2>1
  <2>3. \A k \in Instants : Day(k) > Day(h) => h + 1 =< k
    <3>1. \A k \in Instants : k \in Nat /\ (k =< h => Day(k) =< Day(h) /\ Day(k) \in Int)
      BY <2>1 DEF Instants
    <3> QED  BY <1>0, <2>1, <3>1
  <2>4. Midnight(h + 1) = h + 1
    <3>1. Midnight(h + 1) \in Instants /\ Day(Midnight(h + 1)) = Day(h + 1)
          /\ Midnight(h + 1) =< h + 1
      BY MidnightIs
    <3>2. Midnight(h + 1) \in Nat
      BY <3>1 DEF Instants
    <3> QED  BY <1>0, <2>2, <2>3, <3>1, <3>2
  <2>5. NextBucket("day", Midnight(h)) = h + 1
    <3> DEFINE S == {k \in DOMAIN Clock : Day(k) > Day(Midnight(h))} \cup {Len(Clock) + 1}
    <3>1. Day(Midnight(h)) = Day(h)
      BY MidnightIs
    <3>2. S \in SUBSET Nat /\ h + 1 \in S
      BY <1>0, <2>1, <2>2, <3>1 DEF Instants
    <3>3. \A k \in S : h + 1 =< k
      BY <1>0, <2>3, <3>1 DEF Instants
    <3> HIDE DEF S
    <3>4. Min(S) = h + 1
      BY <3>2, <3>3, LeastIs
    <3>5. Midnight(h) \in Instants /\ Hour(Midnight(h)) = 0
      BY MidnightIs, SteadyIs
    <3>6. NextDay(Midnight(h)) = Min(S)
      BY <3>5, NextDayIs DEF S
    <3> QED  BY <3>4, <3>6 DEF NextBucket
  <2> QED  BY <1>3, <2>4, <2>5 DEF TruncatedTo
<1> QED  BY <1>1, <1>2, <1>3

\* The loop of TokenActivity over the starts of the buckets.
Walks(bucket, w, L, g) ==
  g = [n \in 0..L |->
         IF n = 0 THEN FirstBucket(bucket, Since(w))
         ELSE IF g[n - 1] >= Until(w) THEN g[n - 1]
         ELSE NextBucket(bucket, g[n - 1])]

\* There is such a walk, of any length, and Buckets are its instants.
LEMMA WalkExists ==
  ASSUME NEW bucket, NEW w, NEW L \in Nat
  PROVE  \E g : Walks(bucket, w, L, g)
<1> DEFINE N == {n \in Nat : \E g : Walks(bucket, w, n, g)}
<1>1. 0 \in N
  <2> DEFINE g == [n \in 0..0 |-> FirstBucket(bucket, Since(w))]
  <2>1. Walks(bucket, w, 0, g)
    BY DEF Walks
  <2> QED  BY <2>1
<1>2. ASSUME NEW l \in Nat, l \in N PROVE l + 1 \in N
  <2>1. PICK g : Walks(bucket, w, l, g)
    BY <1>2
  <2> DEFINE last == IF g[l] >= Until(w) THEN g[l] ELSE NextBucket(bucket, g[l])
             h == [n \in 0..(l + 1) |-> IF n = l + 1 THEN last ELSE g[n]]
  <2>2. \A n \in 0..l : h[n] = g[n]
    OBVIOUS
  <2>3. \A n \in 0..l :
          g[n] = IF n = 0 THEN FirstBucket(bucket, Since(w))
                 ELSE IF g[n - 1] >= Until(w) THEN g[n - 1]
                 ELSE NextBucket(bucket, g[n - 1])
    BY <2>1 DEF Walks
  <2>4. ASSUME NEW n \in 0..(l + 1)
        PROVE  h[n] = IF n = 0 THEN FirstBucket(bucket, Since(w))
                      ELSE IF h[n - 1] >= Until(w) THEN h[n - 1]
                      ELSE NextBucket(bucket, h[n - 1])
    <3>1. CASE n = l + 1
      <4>1. h[n] = last /\ n - 1 = l /\ h[n - 1] = g[l] /\ n # 0
        BY <3>1
      <4> HIDE DEF h
      <4> QED  BY <4>1
    <3>2. CASE n \in 0..l
      <4>1. h[n] = g[n] /\ (n # 0 => n - 1 \in 0..l /\ h[n - 1] = g[n - 1])
        BY <2>2, <3>2
      <4> HIDE DEF h
      <4> QED  BY <2>3, <3>2, <4>1
    <3> QED  BY <3>1, <3>2
  <2>5. DOMAIN h = 0..(l + 1) /\ h = [n \in DOMAIN h |-> h[n]]
    OBVIOUS
  <2> HIDE DEF h
  <2>6. Walks(bucket, w, l + 1, h)
    BY <2>4, <2>5 DEF Walks
  <2> QED  BY <2>6
<1> HIDE DEF N
<1>3. Nat \subseteq N
  BY <1>1, <1>2, NatSetInduction
<1> QED  BY <1>3 DEF N

LEMMA BucketsWalk ==
  ASSUME NEW bucket, NEW w
  PROVE  \E g : /\ Walks(bucket, w, Len(Clock), g)
                /\ Buckets(bucket, w)
                     = {g[n] : n \in 0..Len(Clock)} \cap {h \in Instants : h < Until(w)}
<1> DEFINE g == CHOOSE g : Walks(bucket, w, Len(Clock), g)
<1>1. Len(Clock) \in Nat /\ DOMAIN Clock = Instants
  BY Calendar
<1>2. Walks(bucket, w, Len(Clock), g)
  BY <1>1, WalkExists
<1>3. DOMAIN g = 0..Len(Clock)
  BY <1>2 DEF Walks
<1>4. Buckets(bucket, w) = {g[n] : n \in DOMAIN g} \cap {h \in DOMAIN Clock : h < Until(w)}
  BY DEF Buckets, Walks
<1> QED  BY <1>1, <1>2, <1>3, <1>4

\* Every instant of the range falls into one of the buckets.
LEMMA BucketsCover ==
  ASSUME SteadyClock, NEW bucket \in {"day", "hour"}, NEW w \in Days,
         NEW h \in Instants, InRange(h, w)
  PROVE  TruncatedTo(bucket, h) \in Buckets(bucket, w)
<1> DEFINE a == Since(w)
<1>1. PICK g : /\ Walks(bucket, w, Len(Clock), g)
               /\ Buckets(bucket, w)
                    = {g[n] : n \in 0..Len(Clock)} \cap {k \in Instants : k < Until(w)}
  BY BucketsWalk
<1>2. /\ Len(Clock) \in Nat /\ a \in Nat /\ a \in Instants /\ Until(w) \in Nat
      /\ Until(w) =< Len(Clock) + 1 /\ 1 =< a /\ h \in Nat
  BY Calendar DEF Instants, Days
<1>3. \A n \in 0..Len(Clock) :
        g[n] = IF n = 0 THEN FirstBucket(bucket, a)
               ELSE IF g[n - 1] >= Until(w) THEN g[n - 1]
               ELSE NextBucket(bucket, g[n - 1])
  BY <1>1 DEF Walks
<1>4. TruncatedTo(bucket, a) = a /\ FirstBucket(bucket, a) = a
  BY FirstIs
<1> DEFINE N == {n \in Nat : a + n < Until(w) =>
                    \E m \in 0..n : g[m] = TruncatedTo(bucket, a + n)}
<1> HIDE DEF a
<1>5. 0 \in N
  BY <1>2, <1>3, <1>4
<1>6. ASSUME NEW n \in Nat, n \in N PROVE n + 1 \in N
  <2>1. SUFFICES ASSUME a + (n + 1) < Until(w)
                 PROVE  \E m \in 0..(n + 1) : g[m] = TruncatedTo(bucket, a + (n + 1))
    OBVIOUS
  <2>2. a + n < Until(w) /\ (a + n) + 1 = a + (n + 1)
    BY <1>2, <2>1
  <2>3. a + n \in Instants /\ (a + n) + 1 \in Instants
    BY <1>2, <2>1 DEF Instants
  <2>4. PICK m \in 0..n : g[m] = TruncatedTo(bucket, a + n)
    BY <1>6, <2>2
  <2>5. CASE TruncatedTo(bucket, (a + n) + 1) = TruncatedTo(bucket, a + n)
    BY <2>2, <2>4, <2>5
  <2>6. CASE TruncatedTo(bucket, (a + n) + 1)
               = NextBucket(bucket, TruncatedTo(bucket, a + n))
    <3>1. g[m] \in Instants /\ g[m] =< a + n
      BY <2>3, <2>4, TruncatedIs
    <3>2. g[m] \in Nat /\ ~ (g[m] >= Until(w))
      BY <1>2, <2>2, <3>1 DEF Instants
    <3>3. m + 1 \in 0..Len(Clock) /\ m + 1 \in 0..(n + 1) /\ (m + 1) - 1 = m /\ m + 1 # 0
      BY <1>2, <2>1
    <3>4. g[m + 1] = NextBucket(bucket, g[m])
      BY <1>3, <3>2, <3>3
    <3> QED  BY <2>2, <2>4, <2>6, <3>3, <3>4
  <2> QED  BY <2>3, <2>5, <2>6, NextTruncated
<1> HIDE DEF N
<1>7. Nat \subseteq N
  BY <1>5, <1>6, NatSetInduction
<1>8. h - a \in Nat /\ a + (h - a) = h /\ h < Until(w)
  BY <1>2 DEF InRange, a
<1>9. PICK m \in 0..(h - a) : g[m] = TruncatedTo(bucket, h)
  BY <1>7, <1>8 DEF N
<1>10. m \in 0..Len(Clock)
  BY <1>2, <1>8
<1>11. TruncatedTo(bucket, h) \in Instants /\ TruncatedTo(bucket, h) =< h
  BY TruncatedIs
<1>12. TruncatedTo(bucket, h) < Until(w)
  BY <1>2, <1>8, <1>11 DEF Instants
<1> QED  BY <1>1, <1>9, <1>10, <1>11, <1>12

\* A bucket of the range begins where those of its instants do.
LEMMA BucketsBegin ==
  ASSUME SteadyClock, NEW bucket \in {"day", "hour"}, NEW w \in Days,
         NEW at \in Buckets(bucket, w)
  PROVE  at \in Instants /\ TruncatedTo(bucket, at) = at
<1>1. PICK g : /\ Walks(bucket, w, Len(Clock), g)
               /\ Buckets(bucket, w)
                    = {g[n] : n \in 0..Len(Clock)} \cap {k \in Instants : k < Until(w)}
  BY BucketsWalk
<1>2. PICK n \in 0..Len(Clock) : at = g[n] /\ at \in Instants /\ at < Until(w)
  BY <1>1
<1>3. CASE bucket = "hour"
  BY <1>2, <1>3 DEF TruncatedTo
<1>4. CASE bucket = "day"
  <2>0. Len(Clock) \in Nat /\ DOMAIN Clock = Instants
    BY Calendar
  <2>1. \A m \in 0..Len(Clock) :
          g[m] = IF m = 0 THEN FirstBucket(bucket, Since(w))
                 ELSE IF g[m - 1] >= Until(w) THEN g[m - 1]
                 ELSE NextBucket(bucket, g[m - 1])
    BY <1>1 DEF Walks
  <2> DEFINE Begins(x) == (x \in Instants /\ Hour(x) = 0) \/ x = Len(Clock) + 1
             N == {m \in Nat : m =< Len(Clock) => Begins(g[m])}
  <2>2. 0 \in N
    <3>1. Since(w) \in Instants
      BY Calendar DEF Days
    <3> QED  BY <2>0, <2>1, <3>1, FirstIs
  <2>3. ASSUME NEW m \in Nat, m \in N PROVE m + 1 \in N
    <3>1. SUFFICES ASSUME m + 1 =< Len(Clock) PROVE Begins(g[m + 1])
      OBVIOUS
    <3>2. m + 1 \in 0..Len(Clock) /\ (m + 1) - 1 = m /\ m + 1 # 0 /\ m =< Len(Clock)
      BY <2>0, <3>1
    <3>3. Begins(g[m])
      BY <2>3, <3>2
    <3>4. g[m + 1] = IF g[m] >= Until(w) THEN g[m] ELSE NextDay(g[m])
      BY <1>4, <2>1, <3>2 DEF NextBucket
    <3>5. CASE g[m] = Len(Clock) + 1 \/ g[m] >= Until(w)
      <4>1. Until(w) \in 1..(Len(Clock) + 1)
        BY Calendar DEF Days
      <4>2. g[m + 1] = g[m]
        BY <2>0, <3>4, <3>5, <4>1
      <4> QED  BY <3>3, <4>2
    <3>6. CASE g[m] \in Instants /\ Hour(g[m]) = 0 /\ ~ (g[m] >= Until(w))
      <4> DEFINE S == {k \in DOMAIN Clock : Day(k) > Day(g[m])} \cup {Len(Clock) + 1}
      <4>1. g[m + 1] = Min(S)
        BY <3>4, <3>6, NextDayIs
      <4>2. Min(S) \in S /\ \A k \in S : Min(S) =< k
        <5>1. S \in SUBSET Nat /\ S # {}
          BY <2>0 DEF Instants
        <5> HIDE DEF S
        <5> QED  BY <5>1, Least
      <4> DEFINE x == Min(S)
      <4>3. CASE x = Len(Clock) + 1
        BY <4>1, <4>3
      <4>4. CASE x # Len(Clock) + 1
        <5>1. x \in Instants /\ Day(x) > Day(g[m])
          BY <2>0, <4>2, <4>4
        <5>2. \A k \in Instants : Day(k) > Day(g[m]) => x =< k
          BY <2>0, <4>2
        <5> HIDE DEF x
        <5>3. Midnight(x) \in Instants /\ Day(Midnight(x)) = Day(x) /\ Midnight(x) =< x
          BY <5>1, MidnightIs
        <5>4. x =< Midnight(x)
          BY <5>1, <5>2, <5>3
        <5>5. Midnight(x) = x
          BY <5>1, <5>3, <5>4 DEF Instants
        <5> QED  BY <4>1, <5>1, <5>5, SteadyIs DEF x
      <4> QED  BY <4>3, <4>4
    <3> QED  BY <3>3, <3>5, <3>6
  <2> HIDE DEF N
  <2>4. Nat \subseteq N
    BY <2>2, <2>3, NatSetInduction
  <2>5. n \in N /\ n =< Len(Clock)
    BY <2>0, <2>4
  <2>6. Begins(at)
    BY <1>2, <2>5 DEF N
  <2>7. Hour(at) = 0
    BY <1>2, <2>0, <2>6 DEF Instants
  <2> QED  BY <1>2, <1>4, <2>7, SteadyIs DEF TruncatedTo
<1> QED  BY <1>3, <1>4

----------------------------------------------------------------------------
(* The theorem of the heatmap                                              *)

\* What the heatmap shows of the rows R.
Shown(q, a, R) ==
  /\ MapThenSumSet(LAMBDA at : a[at], DOMAIN a) = Total(R)
  /\ \A at \in DOMAIN a : a[at] = Total({r \in R : InBucket(q.bucket, r.start, at)})

LEMMA ActivityCorrect ==
  ASSUME SteadyClock, requests \subseteq Pool, IsFiniteSet(requests), NEW q \in Activities
  PROVE  Shown(q, [at \in Buckets(q.bucket, q.range) |-> Aggregated(ActivityKey(at), q)],
               Matching(q))
<1> DEFINE K == Buckets(q.bucket, q.range)
           R == Matching(q)
           a == [at \in K |-> Aggregated(ActivityKey(at), q)]
           tokens == [r \in R |-> r.tokens]
           key == [r \in R |-> TruncatedTo(q.bucket, r.start)]
<1>1. q.bucket \in {"day", "hour"} /\ q.range \in Days /\ q.range \in Windows
  BY DEF Activities, Days
<1>2. /\ Len(Clock) \in Nat
      /\ Since(q.range) \in Instants /\ Until(q.range) \in 1..(Len(Clock) + 1)
  BY <1>1, Calendar
<1>3. R \in SUBSET requests /\ \A r \in R : r \in Pool /\ InRange(r.start, q.range)
  BY DEF Matching
<1>4. \A r \in R : r.start \in Instants /\ r.tokens \in Nat
  <2>1. \A r \in R : r.start \in Nat /\ r.tokens \in Nat
    BY <1>3, ReportsAssumption
  <2> HIDE DEF R
  <2> QED  BY <1>2, <1>3, <2>1 DEF InRange, Instants
<1>5. IsFiniteSet(R)
  BY <1>3, FS_Subset
<1>6. Summable(tokens, R)
  BY <1>4, <1>5 DEF Summable
<1>7. K \subseteq Instants /\ IsFiniteSet(K)
  <2>1. K \subseteq Instants
    BY BucketsWalk
  <2>2. IsFiniteSet(Instants)
    BY <1>2, FS_Interval DEF Instants
  <2> QED  BY <2>1, <2>2, FS_Subset
<1>8. ASSUME NEW at \in K
      PROVE  a[at] = Total({r \in R : TruncatedTo(q.bucket, r.start) = at})
  <2>1. \A h, k \in Instants : Clock[h] = Clock[k] => h = k
    BY SteadyIs
  <2>2. \A r \in R : TruncatedTo(q.bucket, r.start) \in Instants
    BY <1>1, <1>4, TruncatedIs
  <2> HIDE DEF R, K
  <2>3. \A r \in R : ActivityKey(TruncatedTo(q.bucket, r.start)) = ActivityKey(at)
                       <=> TruncatedTo(q.bucket, r.start) = at
    BY <1>7, <2>1, <2>2 DEF ActivityKey
  <2>4. {r \in R : ActivityKey(TruncatedTo(q.bucket, r.start)) = ActivityKey(at)}
          = {r \in R : TruncatedTo(q.bucket, r.start) = at}
    BY <2>3
  <2> QED  BY <2>4 DEF Aggregated, R
<1>8a. \A at \in K : a[at] = Total({r \in R : InBucket(q.bucket, r.start, at)})
  <2>1. SUFFICES ASSUME NEW at \in K
                 PROVE  a[at] = Total({r \in R : InBucket(q.bucket, r.start, at)})
    OBVIOUS
  <2>2. at \in Instants /\ TruncatedTo(q.bucket, at) = at
    BY <1>1, BucketsBegin
  <2> HIDE DEF R, K, a
  <2>3. ASSUME NEW h \in Instants
        PROVE  InBucket(q.bucket, h, at) <=> TruncatedTo(q.bucket, h) = at
    <3>1. CASE q.bucket = "hour"
      BY <3>1 DEF InBucket, TruncatedTo
    <3>2. CASE q.bucket = "day"
      <4>1. Midnight(at) = at /\ Day(Midnight(h)) = Day(h)
        BY <2>2, <3>2, MidnightIs DEF TruncatedTo
      <4>2. Day(h) = Day(at) => Midnight(h) = Midnight(at)
        BY DEF Midnight
      <4> QED  BY <3>2, <4>1, <4>2 DEF InBucket, TruncatedTo
    <3> QED  BY <1>1, <3>1, <3>2
  <2>4. {r \in R : InBucket(q.bucket, r.start, at)}
          = {r \in R : TruncatedTo(q.bucket, r.start) = at}
    BY <1>4, <2>3
  <2> QED  BY <1>8, <2>4
<1>9. ASSUME NEW S \in SUBSET R PROVE Total(S) = Sum(tokens, S)
  <2>1. Summable(tokens, S)
    BY <1>6, SumPart
  <2>2. \A r \in S : tokens[r] = r.tokens
    OBVIOUS
  <2> HIDE DEF tokens
  <2> QED  BY <2>1, <2>2, TotalIsSum
<1>10. \A at \in K : a[at] = Sum(tokens, {r \in R : key[r] = at})
  <2>1. SUFFICES ASSUME NEW at \in K PROVE a[at] = Sum(tokens, {r \in R : key[r] = at})
    OBVIOUS
  <2>2. {r \in R : key[r] = at} = {r \in R : TruncatedTo(q.bucket, r.start) = at}
    OBVIOUS
  <2>3. {r \in R : key[r] = at} \in SUBSET R
    OBVIOUS
  <2> HIDE DEF R, K, a, tokens, key
  <2> QED  BY <1>8, <1>9, <2>2, <2>3
<1>11. {r \in R : key[r] \in K} = R
  <2>1. \A r \in R : TruncatedTo(q.bucket, r.start) \in K
    BY <1>1, <1>3, <1>4, BucketsCover
  <2> QED  BY <2>1
<1>12. Summable(a, K) /\ Sum(a, K) = Sum(tokens, {r \in R : key[r] \in K})
  <2>1. \A at \in K : a[at] = Sum(tokens, ClassOf(R, key, at))
    BY <1>10 DEF ClassOf
  <2>2. {r \in R : key[r] \in K} = ClassesOf(R, key, K)
    BY DEF ClassesOf
  <2> HIDE DEF R, K, a, tokens, key
  <2> QED  BY <1>6, <1>7, <2>1, <2>2, SumOfClasses
<1>13. Sum(a, K) = Total(R)
  <2> HIDE DEF R, K, a, tokens, key
  <2> QED  BY <1>9, <1>11, <1>12
<1>14. MapThenSumSet(LAMBDA at : a[at], K) = Sum(a, K)
  <2> HIDE DEF a, K
  <2> QED  BY <1>12, AnswerIsSum
<1>15. DOMAIN a = K
  OBVIOUS
<1> HIDE DEF a, K, R
<1>16. Shown(q, a, R)
  BY <1>13, <1>14, <1>15, <1>8a DEF Shown
<1> QED  BY <1>16 DEF a, K, R

\* Only TokenActivity answers a question of its kind.
LEMMA ActivityKept == SteadyClock /\ Asking /\ ActivityAddsUp /\ [Next]_vars => ActivityAddsUp'
<1> SUFFICES ASSUME SteadyClock, Asking, ActivityAddsUp, [Next]_vars PROVE ActivityAddsUp'
  OBVIOUS
<1>1. /\ ActivityAddsUp <=>
           (step = "done" /\ "bucket" \in DOMAIN asked => Shown(asked, answer, asOf))
      /\ ActivityAddsUp' <=>
           (step' = "done" /\ "bucket" \in DOMAIN asked' => Shown(asked', answer', asOf'))
  BY DEF ActivityAddsUp, Shown, MapThenSumSet, MapThenFoldSet
<1>2. CASE UNCHANGED reader
  BY <1>1, <1>2 DEF reader
<1>3. CASE PeakConcurrency
  <2>1. asked' = asked /\ DOMAIN asked = {"range"}
    BY <1>3, Kinds DEF PeakConcurrency, Asking
  <2> QED  BY <1>1, <2>1
<1>4. CASE JoinChildRows
  <2>1. asked' = asked /\ "bucket" \notin DOMAIN asked
    BY <1>4, Kinds DEF JoinChildRows, Asking
  <2> QED  BY <1>1, <2>1
<1>5. CASE TokenActivity
  <2>1. /\ asked' = asked /\ asOf' = Matching(asked)
        /\ answer' = [at \in Buckets(asked.bucket, asked.range) |->
                        Aggregated(ActivityKey(at), asked)]
    BY <1>5 DEF TokenActivity
  <2>2. asked \in Activities /\ requests \subseteq Pool /\ IsFiniteSet(requests)
    BY <1>5 DEF TokenActivity, Asking
  <2>3. Shown(asked, answer', asOf')
    BY <2>1, <2>2, ActivityCorrect
  <2> QED  BY <1>1, <2>1, <2>3
<1>6. CASE Write
  BY <1>2, <1>6 DEF Write, Insert, MergeChildren
<1>7. ASSUME step' # "done" PROVE ActivityAddsUp'
  BY <1>1, <1>7
<1>8. ASSUME NEW q, NEW op \in {"candidates", "peak", "activity"}, Ask(op, q)
      PROVE  ActivityAddsUp'
  BY <1>7, <1>8 DEF Ask
<1>9. CASE CandidateRequests \/ Return
  BY <1>7, <1>9 DEF CandidateRequests, Return
<1> QED
  BY <1>2, <1>3, <1>4, <1>5, <1>6, <1>8, <1>9 DEF Next, vars

\* On a clock that repeats no reading and skips no midnight, the heatmap shows each
\* request's tokens in the one bucket it started in, and the buckets add up to all
\* there are.
THEOREM ReportsActivityAddsUp == ASSUME SteadyClock PROVE Spec => []ActivityAddsUp
<1>1. Init => Asking /\ ActivityAddsUp
  BY AskingInitially DEF Init, ActivityAddsUp
<1>2. Asking /\ ActivityAddsUp /\ [Next]_vars => Asking' /\ ActivityAddsUp'
  BY AskingKept, ActivityKept
<1> QED  BY <1>1, <1>2, PTL DEF Spec

----------------------------------------------------------------------------
(* The listing                                                             *)

\* Ordinals can be put in order, and the order has them all.
LEMMA OrderedIs ==
  ASSUME NEW n \in Nat, NEW S \in SUBSET (1..n)
  PROVE  /\ Cardinality(S) \in Nat
         /\ Ordered(S) \in [1..Cardinality(S) -> S]
         /\ \A i, j \in 1..Cardinality(S) : i < j => Ordered(S)[i] < Ordered(S)[j]
         /\ \A x \in S : \E i \in 1..Cardinality(S) : Ordered(S)[i] = x
<1> DEFINE Increasing(T, s) == \A i, j \in 1..Cardinality(T) : i < j => s[i] < s[j]
           F == {T \in SUBSET S : \E s \in [1..Cardinality(T) -> T] : Increasing(T, s)}
<1>1. IsFiniteSet(S)
  <2>1. IsFiniteSet(1..n)
    BY FS_Interval
  <2> QED  BY <2>1, FS_Subset
<1>2. ASSUME NEW T \in SUBSET S
      PROVE  IsFiniteSet(T) /\ Cardinality(T) \in Nat /\ T \in SUBSET Nat
  <2>1. IsFiniteSet(T) /\ Cardinality(T) \in Nat
    BY <1>1, FS_Subset, FS_CardinalityType
  <2> QED  BY <2>1
<1>3. {} \in F
  <2>1. Cardinality({}) = 0
    BY FS_EmptySet
  <2> DEFINE s == [i \in 1..Cardinality({}) |-> 0]
  <2>2. s \in [1..Cardinality({}) -> {}] /\ Increasing({}, s)
    BY <2>1
  <2> QED  BY <2>2
<1>4. ASSUME NEW T \in SUBSET S, T # {}, \A x \in T : T \ {x} \in F PROVE T \in F
  <2> DEFINE m == Max(T)
             U == T \ {m}
  <2>1. m \in T /\ \A x \in T : x =< m
    <3>1. T \in SUBSET Nat /\ \A x \in T : x =< n
      BY <1>2
    <3> HIDE DEF F
    <3> QED  BY <1>4, <3>1, Greatest
  <2> HIDE DEF m
  <2>2. U \in F
    BY <1>4, <2>1
  <2>3. PICK s \in [1..Cardinality(U) -> U] : Increasing(U, s)
    BY <2>2
  <2>4. Cardinality(T) = Cardinality(U) + 1 /\ Cardinality(U) \in Nat
    <3>1. U \in SUBSET S /\ T = U \cup {m} /\ m \notin U
      BY <2>1
    <3> HIDE DEF U
    <3> QED  BY <1>2, <3>1, FS_AddElement
  <2> DEFINE l == Cardinality(U)
             t == [i \in 1..(l + 1) |-> IF i = l + 1 THEN m ELSE s[i]]
  <2>5. \A i \in 1..l : s[i] \in T /\ s[i] < m /\ t[i] = s[i]
    <3>1. \A i \in 1..l : s[i] \in T /\ s[i] # m
      BY <2>3
    <3>2. \A x \in T : x \in Nat
      BY <1>2
    <3>3. \A i \in 1..l : t[i] = s[i]
      BY <2>4
    <3> HIDE DEF t, l
    <3>4. ASSUME NEW i \in 1..l PROVE s[i] < m
      <4>1. s[i] \in Nat /\ m \in Nat /\ s[i] =< m /\ s[i] # m
        BY <2>1, <3>1, <3>2
      <4> QED  BY <4>1
    <3> QED  BY <3>1, <3>3, <3>4
  <2>6. t \in [1..(l + 1) -> T]
    <3>1. \A i \in 1..(l + 1) : i = l + 1 \/ i \in 1..l
      BY <2>4
    <3>2. t[l + 1] = m
      BY <2>4
    <3>3. \A i \in 1..(l + 1) : t[i] \in T
      <4> HIDE DEF t, l
      <4> QED  BY <2>1, <2>5, <3>1, <3>2
    <3> QED  BY <3>3
  <2>7. ASSUME NEW i \in 1..(l + 1), NEW j \in 1..(l + 1), i < j PROVE t[i] < t[j]
    <3> DEFINE c == l
    <3>0. c \in Nat
      BY <2>4
    <3>1. i \in 1..l
      BY <2>4, <2>7
    <3>2. CASE j = l + 1
      <4>1. t[j] = m
        BY <3>2
      <4> HIDE DEF t, l
      <4> QED  BY <2>5, <3>1, <4>1
    <3>3. CASE j \in 1..l
      <4>1. s[i] < s[j]
        BY <2>3, <2>7, <3>1, <3>3
      <4> HIDE DEF t, l
      <4> QED  BY <2>5, <3>1, <3>3, <4>1
    <3>4. j = l + 1 \/ j \in 1..l
      BY <2>4
    <3> QED  BY <3>2, <3>3, <3>4
  <2>8. t \in [1..Cardinality(T) -> T] /\ Increasing(T, t)
    <3> HIDE DEF t
    <3> QED  BY <2>4, <2>6, <2>7
  <2> HIDE DEF t
  <2> QED  BY <2>8
<1> HIDE DEF F
<1>5. S \in F
  BY <1>1, <1>3, <1>4, SetInduction
<1>6. PICK s \in [1..Cardinality(S) -> S] : Increasing(S, s)
  BY <1>5 DEF F
<1>7. Ordered(S) \in [1..Cardinality(S) -> S] /\ Increasing(S, Ordered(S))
  <2>1. \A i, j \in DOMAIN s : i < j => s[i] < s[j]
    BY <1>6
  <2>2. /\ Ordered(S) \in [1..Cardinality(S) -> S]
        /\ \A i, j \in DOMAIN Ordered(S) : i < j => Ordered(S)[i] < Ordered(S)[j]
    BY <1>6, <2>1 DEF Ordered
  <2> QED  BY <2>2
<1>8. ASSUME NEW x \in S PROVE \E i \in 1..Cardinality(S) : Ordered(S)[i] = x
  <2> DEFINE s2 == Ordered(S)
             c == Cardinality(S)
  <2>1. c \in Nat /\ IsFiniteSet(1..c) /\ Cardinality(1..c) = c
    <3>1. c \in Nat
      BY <1>2
    <3> HIDE DEF c
    <3> QED  BY <3>1, FS_Interval
  <2>2. s2 \in [1..c -> S] /\ \A i, j \in 1..c : i < j => s2[i] < s2[j]
    BY <1>7
  <2>3. \A i \in 1..c : s2[i] \in Nat
    BY <1>2, <2>2
  <2> HIDE DEF s2, c
  <2>4. s2 \in Injection(1..c, S)
    <3>1. ASSUME NEW i \in 1..c, NEW j \in 1..c, s2[i] = s2[j] PROVE i = j
      <4>1. i \in Nat /\ j \in Nat
        BY <2>1
      <4>2. ~ (i < j) /\ ~ (j < i)
        BY <2>2, <2>3, <3>1
      <4> QED  BY <4>1, <4>2
    <3> QED  BY <2>2, <3>1 DEF Injection, IsInjective
  <2>5. s2 \in Surjection(1..c, S)
    BY <1>1, <2>1, <2>4, FS_Injection DEF c
  <2> QED  BY <2>5 DEF Surjection, s2, c
<1> QED  BY <1>2, <1>7, <1>8

\* The rows of an answer.
Rows == [request : Pool, ordinal : Nat]
Row(r, n) == [request |-> r, ordinal |-> n]

LEMMA AFunctionIsASeq ==
  ASSUME NEW n \in Nat, NEW S, NEW f \in [1..n -> S]
  PROVE  f \in Seq(S) /\ Len(f) = n /\ DOMAIN f = 1..n
OBVIOUS

\* The kept ordinals are some of the first ones.
LEMMA KeptIs ==
  ASSUME NEW r \in Pool, NEW arrived
  PROVE  \E n \in Nat : Kept(r, arrived) \in SUBSET (1..n)
<1>1. r.calls \in Seq(BOOLEAN)
  BY ReportsAssumption
<1>2. Len(r.calls) \in Nat /\ DOMAIN r.calls = 1..Len(r.calls)
  BY <1>1
<1>3. Kept(r, arrived) \in SUBSET (1..Len(r.calls))
  BY <1>2 DEF Kept
<1> QED  BY <1>2, <1>3

\* The rows of one request are its kept calls, by ordinal.
LEMMA ChildrenIs ==
  ASSUME NEW r \in Pool, NEW c, c = ChildrenOf(r)
  PROVE  /\ c \in Seq(Rows)
         /\ \A p \in 1..Len(c) : c[p].request = r /\ c[p].ordinal \in Kept(r, children)
         /\ \A p, q \in 1..Len(c) : p < q => c[p].ordinal < c[q].ordinal
         /\ \A n \in Kept(r, children) : \E p \in 1..Len(c) : c[p] = Row(r, n)
<1> DEFINE K == Kept(r, children)
           s == Ordered(K)
           l == Cardinality(K)
<1>1. PICK n \in Nat : K \in SUBSET (1..n)
  BY KeptIs
<1> HIDE DEF K
<1>2. /\ l \in Nat /\ s \in [1..l -> K]
      /\ \A i, j \in 1..l : i < j => s[i] < s[j]
      /\ \A x \in K : \E i \in 1..l : s[i] = x
  BY <1>1, OrderedIs
<1>3. c = [i \in 1..l |-> Row(r, s[i])]
  <2>1. DOMAIN s = 1..l
    BY <1>2
  <2> QED  BY <2>1 DEF ChildrenOf, Row, K
<1> HIDE DEF s, l
<1>4. \A i \in 1..l : /\ s[i] \in K /\ s[i] \in Nat /\ Row(r, s[i]) \in Rows
                      /\ c[i] = Row(r, s[i])
  <2>1. \A i \in 1..l : s[i] \in K /\ s[i] \in Nat
    <3>1. \A x \in K : x \in Nat
      BY <1>1
    <3>2. \A i \in 1..l : s[i] \in K
      BY <1>2
    <3> QED  BY <3>1, <3>2
  <2>2. \A m \in Nat : Row(r, m) \in Rows
    BY DEF Row, Rows
  <2> QED  BY <1>3, <2>1, <2>2
<1>5. c \in [1..l -> Rows]
  BY <1>3, <1>4
<1>6. c \in Seq(Rows) /\ Len(c) = l
  BY <1>2, <1>5, AFunctionIsASeq
<1>7. \A i \in 1..l : c[i].request = r /\ c[i].ordinal = s[i]
  <2>1. \A m : Row(r, m).request = r /\ Row(r, m).ordinal = m
    BY DEF Row
  <2> QED  BY <1>4, <2>1
<1> QED  BY <1>2, <1>4, <1>6, <1>7 DEF K

\* The concatenation of FlattenSeq, from the left.
Flattens(seqs, n, g) ==
  g = [i \in 1..n |-> IF i = 1 THEN seqs[i] ELSE g[i - 1] \o seqs[i]]

LEMMA FlattenExists ==
  ASSUME NEW seqs, NEW l \in Nat
  PROVE  \E g : Flattens(seqs, l, g)
<1> DEFINE N == {n \in Nat : \E g : Flattens(seqs, n, g)}
<1>1. 0 \in N
  <2> DEFINE g == [i \in 1..0 |-> 0]
  <2>1. Flattens(seqs, 0, g)
    BY DEF Flattens
  <2> QED  BY <2>1
<1>2. ASSUME NEW n \in Nat, n \in N PROVE n + 1 \in N
  <2>1. PICK g : Flattens(seqs, n, g)
    BY <1>2
  <2> DEFINE last == IF n = 0 THEN seqs[1] ELSE g[n] \o seqs[n + 1]
             h == [i \in 1..(n + 1) |-> IF i = n + 1 THEN last ELSE g[i]]
  <2>2. \A i \in 1..n : h[i] = g[i]
    OBVIOUS
  <2>3. \A i \in 1..n : g[i] = IF i = 1 THEN seqs[i] ELSE g[i - 1] \o seqs[i]
    BY <2>1 DEF Flattens
  <2>4. ASSUME NEW i \in 1..(n + 1)
        PROVE  h[i] = IF i = 1 THEN seqs[i] ELSE h[i - 1] \o seqs[i]
    <3>1. CASE i = n + 1
      <4>1. h[i] = last /\ i - 1 = n /\ (i # 1 => n # 0 /\ h[i - 1] = g[n])
        BY <3>1
      <4>2. i = 1 => n = 0
        BY <3>1
      <4> HIDE DEF h
      <4> QED  BY <3>1, <4>1, <4>2
    <3>2. CASE i \in 1..n
      <4>1. h[i] = g[i] /\ (i # 1 => i - 1 \in 1..n /\ h[i - 1] = g[i - 1])
        BY <2>2, <3>2
      <4> HIDE DEF h
      <4> QED  BY <2>3, <3>2, <4>1
    <3> QED  BY <3>1, <3>2
  <2>5. DOMAIN h = 1..(n + 1) /\ h = [i \in DOMAIN h |-> h[i]]
    OBVIOUS
  <2> HIDE DEF h
  <2>6. Flattens(seqs, n + 1, h)
    BY <2>4, <2>5 DEF Flattens
  <2> QED  BY <2>6
<1> HIDE DEF N
<1>3. Nat \subseteq N
  BY <1>1, <1>2, NatSetInduction
<1> QED  BY <1>3 DEF N

LEMMA FlattenSeqIs ==
  ASSUME NEW l \in Nat, NEW S, NEW seqs \in [1..l -> S]
  PROVE  /\ l = 0 => FlattenSeq(seqs) = << >>
         /\ l # 0 => \E g : Flattens(seqs, l, g) /\ FlattenSeq(seqs) = g[l]
<1>1. Len(seqs) = l
  BY AFunctionIsASeq
<1>2. l = 0 => FlattenSeq(seqs) = << >>
  BY <1>1 DEF FlattenSeq
<1>3. ASSUME l # 0 PROVE \E g : Flattens(seqs, l, g) /\ FlattenSeq(seqs) = g[l]
  <2> DEFINE g == CHOOSE g : Flattens(seqs, l, g)
  <2>1. Flattens(seqs, l, g)
    BY FlattenExists
  <2>2. FlattenSeq(seqs) = g[l]
    BY <1>1, <1>3 DEF FlattenSeq, Flattens
  <2> QED  BY <2>1, <2>2
<1> QED  BY <1>2, <1>3

\* J has the rows of the first m of the listed requests, in order.
RowsOf(m, J) ==
  /\ J \in Seq(Rows)
  /\ \A p \in 1..Len(J) : \E i \in 1..m : /\ J[p].request = listed[i]
                                          /\ J[p].ordinal \in Kept(listed[i], children)
  /\ \A p, q \in 1..Len(J) : p < q => Precedes(J[p], J[q])
  /\ \A i \in 1..m : \A n \in Kept(listed[i], children) :
       \E p \in 1..Len(J) : J[p] = Row(listed[i], n)

\* The listed requests, newest first.
Sorted(l) ==
  /\ l \in Nat
  /\ listed \in [1..l -> Pool]
  /\ \A i, j \in 1..l : i < j => listed[i] # listed[j] /\ listed[i].start >= listed[j].start

\* The rows of one more request follow those of newer ones.
LEMMA RowsOfNext ==
  ASSUME NEW l, Sorted(l), NEW m \in Nat, m + 1 \in 1..l, NEW J, RowsOf(m, J)
  PROVE  RowsOf(m + 1, J \o ChildrenOf(listed[m + 1]))
<1> DEFINE r == listed[m + 1]
           c == ChildrenOf(r)
           T == J \o c
<1>1. r \in Pool /\ l \in Nat
  BY DEF Sorted
<1>2. /\ c \in Seq(Rows)
      /\ \A p \in 1..Len(c) : c[p].request = r /\ c[p].ordinal \in Kept(r, children)
      /\ \A p, q \in 1..Len(c) : p < q => c[p].ordinal < c[q].ordinal
      /\ \A n \in Kept(r, children) : \E p \in 1..Len(c) : c[p] = Row(r, n)
  <2> HIDE DEF c, r
  <2> QED  BY <1>1, ChildrenIs DEF c
<1>3. J \in Seq(Rows)
  BY DEF RowsOf
<1> HIDE DEF c, r
<1>4. /\ T \in Seq(Rows) /\ Len(T) = Len(J) + Len(c)
      /\ Len(J) \in Nat /\ Len(c) \in Nat
      /\ \A p \in 1..Len(J) : T[p] = J[p] /\ p \in 1..Len(T)
      /\ \A p \in 1..Len(c) : T[Len(J) + p] = c[p] /\ Len(J) + p \in 1..Len(T)
  BY <1>2, <1>3
<1>5. \A p \in 1..Len(T) : p \in 1..Len(J) \/ \E k \in 1..Len(c) : p = Len(J) + k
  <2>1. SUFFICES ASSUME NEW p \in 1..Len(T), p \notin 1..Len(J)
                 PROVE  \E k \in 1..Len(c) : p = Len(J) + k
    OBVIOUS
  <2>2. p - Len(J) \in 1..Len(c) /\ p = Len(J) + (p - Len(J))
    BY <1>4, <2>1
  <2> QED  BY <2>2
<1> HIDE DEF T
<1>6. ASSUME NEW p \in 1..Len(T)
      PROVE  \E i \in 1..(m + 1) : /\ T[p].request = listed[i]
                                   /\ T[p].ordinal \in Kept(listed[i], children)
  <2>1. CASE p \in 1..Len(J)
    <3>1. PICK i \in 1..m : /\ J[p].request = listed[i]
                            /\ J[p].ordinal \in Kept(listed[i], children)
      BY <2>1 DEF RowsOf
    <3>2. i \in 1..(m + 1) /\ T[p] = J[p]
      BY <1>4, <2>1
    <3> QED  BY <3>1, <3>2
  <2>2. ASSUME NEW k \in 1..Len(c), p = Len(J) + k
        PROVE  \E i \in 1..(m + 1) : /\ T[p].request = listed[i]
                                     /\ T[p].ordinal \in Kept(listed[i], children)
    <3>1. T[p] = c[k] /\ m + 1 \in 1..(m + 1)
      BY <1>4, <2>2
    <3> QED  BY <1>2, <3>1 DEF r
  <2> QED  BY <1>5, <2>1, <2>2
<1>7. ASSUME NEW p \in 1..Len(T), NEW q \in 1..Len(T), p < q PROVE Precedes(T[p], T[q])
  <2>0. p \in Nat /\ q \in Nat
    BY <1>4
  <2>1. CASE q \in 1..Len(J)
    <3>1. p \in 1..Len(J)
      BY <1>4, <1>7, <2>1
    <3>2. T[p] = J[p] /\ T[q] = J[q]
      BY <1>4, <2>1, <3>1
    <3> QED  BY <1>7, <2>1, <3>1, <3>2 DEF RowsOf
  <2>2. ASSUME NEW k \in 1..Len(c), q = Len(J) + k PROVE Precedes(T[p], T[q])
    <3>1. T[q] = c[k] /\ T[q].request = r
      BY <1>2, <1>4, <2>2
    <3>2. CASE p \in 1..Len(J)
      <4>1. PICK i \in 1..m : J[p].request = listed[i]
        BY <3>2 DEF RowsOf
      <4>2. i \in 1..l /\ i < m + 1 /\ m + 1 \in 1..l
        BY <1>1
      <4>3. listed[i] # r /\ listed[i].start >= r.start
        BY <4>2 DEF Sorted, r
      <4>4. T[p].request = listed[i]
        BY <1>4, <3>2, <4>1
      <4> QED  BY <3>1, <4>3, <4>4 DEF Precedes
    <3>3. ASSUME NEW j \in 1..Len(c), p = Len(J) + j PROVE Precedes(T[p], T[q])
      <4>1. j < k
        BY <1>4, <1>7, <2>2, <3>3
      <4>2. T[p] = c[j] /\ T[p].request = r
        BY <1>2, <1>4, <3>3
      <4>3. c[j].ordinal < c[k].ordinal
        BY <1>2, <4>1
      <4> QED  BY <3>1, <4>2, <4>3 DEF Precedes
    <3> QED  BY <1>5, <3>2, <3>3
  <2> QED  BY <1>5, <2>1, <2>2
<1>8. ASSUME NEW i \in 1..(m + 1), NEW n \in Kept(listed[i], children)
      PROVE  \E p \in 1..Len(T) : T[p] = Row(listed[i], n)
  <2>1. CASE i \in 1..m
    <3>1. PICK p \in 1..Len(J) : J[p] = Row(listed[i], n)
      BY <2>1 DEF RowsOf
    <3> QED  BY <1>4, <3>1
  <2>2. CASE i = m + 1
    <3>1. PICK p \in 1..Len(c) : c[p] = Row(r, n)
      BY <1>2, <2>2 DEF r
    <3> QED  BY <1>4, <2>2, <3>1 DEF r
  <2> QED  BY <2>1, <2>2
<1>9. RowsOf(m + 1, T)
  BY <1>4, <1>6, <1>7, <1>8 DEF RowsOf
<1> QED  BY <1>9 DEF T, c, r

LEMMA JoinedIs ==
  ASSUME NEW l, Sorted(l)
  PROVE  RowsOf(l, Joined)
<1> DEFINE seqs == [i \in DOMAIN listed |-> ChildrenOf(listed[i])]
<1>1. l \in Nat /\ DOMAIN listed = 1..l /\ \A i \in 1..l : listed[i] \in Pool
  BY DEF Sorted
<1>2. seqs \in [1..l -> Seq(Rows)]
  <2>1. \A i \in 1..l : ChildrenOf(listed[i]) \in Seq(Rows)
    BY <1>1, ChildrenIs
  <2> QED  BY <1>1, <2>1
<1>3. \A i \in 1..l : seqs[i] = ChildrenOf(listed[i])
  BY <1>1
<1>4. Joined = FlattenSeq(seqs)
  BY DEF Joined
<1> HIDE DEF seqs
<1>5. RowsOf(0, << >>)
  BY DEF RowsOf
<1>6. CASE l = 0
  BY <1>1, <1>2, <1>4, <1>5, <1>6, FlattenSeqIs
<1>7. CASE l # 0
  <2>1. PICK g : Flattens(seqs, l, g) /\ FlattenSeq(seqs) = g[l]
    BY <1>1, <1>2, <1>7, FlattenSeqIs
  <2>2. \A i \in 1..l : g[i] = IF i = 1 THEN seqs[i] ELSE g[i - 1] \o seqs[i]
    BY <2>1 DEF Flattens
  <2> DEFINE N == {n \in Nat : n + 1 \in 1..l => RowsOf(n + 1, g[n + 1])}
  <2>3. 0 \in N
    <3>1. SUFFICES ASSUME 1 \in 1..l PROVE RowsOf(1, g[1])
      OBVIOUS
    <3>2. RowsOf(1, << >> \o ChildrenOf(listed[1]))
      <4>1. \A m \in Nat : m + 1 \in 1..l /\ RowsOf(m, << >>)
                           => RowsOf(m + 1, << >> \o ChildrenOf(listed[m + 1]))
        BY RowsOfNext
      <4>2. 0 \in Nat /\ 0 + 1 = 1
        OBVIOUS
      <4> QED  BY <1>5, <3>1, <4>1, <4>2
    <3>3. g[1] = seqs[1] /\ seqs[1] = ChildrenOf(listed[1]) /\ seqs[1] \in Seq(Rows)
      BY <1>2, <1>3, <2>2, <3>1
    <3>4. << >> \o seqs[1] = seqs[1]
      BY <3>3
    <3> QED  BY <3>2, <3>3, <3>4
  <2>4. ASSUME NEW n \in Nat, n \in N PROVE n + 1 \in N
    <3>1. SUFFICES ASSUME (n + 1) + 1 \in 1..l PROVE RowsOf((n + 1) + 1, g[(n + 1) + 1])
      OBVIOUS
    <3>2. n + 1 \in 1..l /\ ((n + 1) + 1) - 1 = n + 1 /\ (n + 1) + 1 # 1
      BY <1>1, <3>1
    <3>3. RowsOf(n + 1, g[n + 1])
      BY <2>4, <3>2
    <3>4. g[(n + 1) + 1] = g[n + 1] \o ChildrenOf(listed[(n + 1) + 1])
      BY <1>3, <2>2, <3>1, <3>2
    <3> HIDE DEF N
    <3>5. n + 1 \in Nat
      OBVIOUS
    <3>6. RowsOf((n + 1) + 1, g[n + 1] \o ChildrenOf(listed[(n + 1) + 1]))
      BY <3>1, <3>3, <3>5, RowsOfNext
    <3> QED  BY <3>4, <3>6
  <2> HIDE DEF N
  <2>5. Nat \subseteq N
    BY <2>3, <2>4, NatSetInduction
  <2>6. l - 1 \in Nat /\ (l - 1) + 1 = l /\ l \in 1..l
    BY <1>1, <1>7
  <2>7. l - 1 \in N
    BY <2>5, <2>6
  <2>8. RowsOf((l - 1) + 1, g[(l - 1) + 1])
    BY <2>6, <2>7 DEF N
  <2> QED  BY <1>4, <2>1, <2>6, <2>8
<1> QED  BY <1>6, <1>7

\* The newest of a set: all of them, or as many as were asked for.
LEMMA NewestIs ==
  ASSUME NEW S, IsFiniteSet(S), NEW n \in Nat, NEW c \in Newest(S, n)
  PROVE  \E k \in 0..n :
           /\ c \in [1..k -> S] /\ k =< Cardinality(S)
           /\ \A i, j \in 1..k : i < j => c[i] # c[j] /\ c[i].start >= c[j].start
           /\ \A i \in 1..k, r \in S \ ToSet(c) : c[i].start >= r.start
           /\ \A r \in S \ ToSet(c) : k = n
<1> DEFINE m == Cardinality(S)
           k == Min({n, m})
<1>1. m \in Nat
  BY FS_CardinalityType
<1>2. k = IF n =< m THEN n ELSE m
  <2>1. n \in Int /\ m \in Int
    BY <1>1
  <2> HIDE DEF m
  <2> QED  BY <2>1, TwoOf
<1>3. k \in 0..n /\ k =< m /\ (k = n \/ k = m)
  <2> HIDE DEF k, m
  <2> QED  BY <1>1, <1>2
<1>4. /\ c \in [1..k -> S]
      /\ \A i, j \in DOMAIN c : i < j => c[i] # c[j] /\ c[i].start >= c[j].start
      /\ \A i \in DOMAIN c, r \in S \ ToSet(c) : c[i].start >= r.start
  BY DEF Newest
<1> HIDE DEF k
<1>5. DOMAIN c = 1..k
  BY <1>4
<1>6. ASSUME k = m PROVE S \subseteq ToSet(c)
  <2>1. c \in Injection(1..k, S)
    <3>1. ASSUME NEW i \in 1..k, NEW j \in 1..k, c[i] = c[j] PROVE i = j
      <4>1. i \in Nat /\ j \in Nat
        BY <1>3
      <4>2. ~ (i < j) /\ ~ (j < i)
        BY <1>4, <1>5, <3>1
      <4> QED  BY <4>1, <4>2
    <3> QED  BY <1>4, <1>5, <3>1 DEF Injection, IsInjective
  <2>2. IsFiniteSet(1..k) /\ Cardinality(1..k) = k
    BY <1>3, FS_Interval
  <2>3. c \in Surjection(1..k, S)
    BY <1>6, <2>1, <2>2, FS_Injection
  <2>4. \A s \in S : \E i \in 1..k : c[i] = s
    BY <2>3 DEF Surjection
  <2> QED  BY <1>5, <2>4 DEF ToSet
<1>7. \A r \in S \ ToSet(c) : k = n
  BY <1>3, <1>6
<1>8. /\ \A i, j \in 1..k : i < j => c[i] # c[j] /\ c[i].start >= c[j].start
      /\ \A i \in 1..k, r \in S \ ToSet(c) : c[i].start >= r.start
  BY <1>4, <1>5
<1> QED  BY <1>3, <1>4, <1>7, <1>8

\* While the child rows are fetched, the listed requests are the newest there
\* were at the last scan, as many as the window holds.
Found ==
  /\ step \in {"candidates", "join"} => window \in Nat \ {0}
  /\ step = "join" => /\ asOf \subseteq Pool /\ IsFiniteSet(asOf)
                      /\ listed \in Newest(asOf, window)

\* What ListingIsNewest says of an answer, given the children it was made from.
Answers(out, arrived) ==
  /\ \A i \in DOMAIN out :
       /\ out[i].request \in asOf
       /\ out[i].ordinal \in Kept(out[i].request, arrived)
       /\ \A j \in DOMAIN out : i < j => Precedes(out[i], out[j])
  /\ \A r \in asOf : \A n \in Kept(r, arrived) :
       \/ Row(r, n) \in ToSet(out)
       \/ Len(out) = asked.limit /\ \A i \in DOMAIN out : Precedes(out[i], Row(r, n))
       \/ Beyond(r)

\* A row that is left out is cut off by the limit, belongs to an older request
\* than a full listing has, or to one beyond the widest window.
LEMMA ListingCorrect ==
  ASSUME Asking, Found, step = "join", NEW out, out = Truncated(Joined), Enough(out)
  PROVE  Answers(out, children)
<1> DEFINE J == Joined
           lim == asked.limit
           k == Len(out)
<1>1. lim \in Nat \ {0} /\ window \in Nat /\ asOf \subseteq Pool /\ IsFiniteSet(asOf)
      /\ listed \in Newest(asOf, window)
  BY ReportsAssumption DEF Asking, Found, Listings
<1>2. PICK l \in 0..window :
        /\ listed \in [1..l -> asOf] /\ l =< Cardinality(asOf)
        /\ \A i, j \in 1..l : i < j => listed[i] # listed[j] /\ listed[i].start >= listed[j].start
        /\ \A i \in 1..l, r \in asOf \ ToSet(listed) : listed[i].start >= r.start
        /\ \A r \in asOf \ ToSet(listed) : l = window
  <2> HIDE DEF lim
  <2> QED  BY <1>1, NewestIs
<1>3. l \in Nat /\ DOMAIN listed = 1..l /\ \A i \in 1..l : listed[i] \in asOf
  BY <1>1, <1>2
<1>4. Sorted(l)
  <2>1. listed \in [1..l -> Pool]
    BY <1>1, <1>2
  <2> QED  BY <1>2, <1>3, <2>1 DEF Sorted
<1>5. RowsOf(l, J)
  BY <1>4, JoinedIs
<1> HIDE DEF J, lim
<1>6. J \in Seq(Rows) /\ Len(J) \in Nat
  BY <1>5 DEF RowsOf
<1>7. /\ out \in Seq(Rows) /\ k \in Nat /\ k =< Len(J) /\ k =< lim
      /\ (k = lim \/ k = Len(J)) /\ \A p \in 1..k : out[p] = J[p] /\ p \in 1..Len(J)
  <2>1. Min({Len(J), lim}) = IF Len(J) =< lim THEN Len(J) ELSE lim
    <3>1. Len(J) \in Int /\ lim \in Int
      BY <1>1, <1>6
    <3> QED  BY <3>1, TwoOf
  <2> DEFINE n == Min({Len(J), lim})
  <2>2. n \in Nat /\ n =< Len(J) /\ n =< lim /\ (n = lim \/ n = Len(J))
    <3> HIDE DEF n
    <3> QED  BY <1>1, <1>6, <2>1 DEF n
  <2>3. out = SubSeq(J, 1, n)
    BY DEF Truncated, J, lim
  <2> HIDE DEF n
  <2>4. out \in Seq(Rows) /\ Len(out) = n /\ \A p \in 1..n : out[p] = J[p] /\ p \in 1..Len(J)
    BY <1>6, <2>2, <2>3
  <2> QED  BY <2>2, <2>4
<1>8. DOMAIN out = 1..k
  BY <1>7
<1>9. \A p \in 1..k : \E i \in 1..l : /\ out[p].request = listed[i]
                                      /\ out[p].ordinal \in Kept(listed[i], children)
  BY <1>5, <1>7 DEF RowsOf
<1>10. \A p, q \in 1..k : p < q => Precedes(out[p], out[q])
  BY <1>5, <1>7 DEF RowsOf
<1>11. ASSUME NEW r \in asOf, NEW n \in Kept(r, children), Row(r, n) \notin ToSet(out)
       PROVE  \/ k = lim /\ \A p \in 1..k : Precedes(out[p], Row(r, n))
              \/ Beyond(r)
  <2>1. CASE r \in ToSet(listed)
    <3>1. PICK i \in 1..l : r = listed[i]
      BY <1>3, <2>1 DEF ToSet
    <3>2. PICK p \in 1..Len(J) : J[p] = Row(r, n)
      BY <1>5, <3>1 DEF RowsOf
    <3>3. p \notin 1..k
      BY <1>7, <1>8, <1>11, <3>2 DEF ToSet
    <3>4. k < p /\ k # Len(J) /\ k = lim
      BY <1>6, <1>7, <3>3
    <3>5. \A q \in 1..k : q < p /\ q \in 1..Len(J) /\ out[q] = J[q]
      BY <1>6, <1>7, <3>4
    <3>6. \A q \in 1..k : Precedes(out[q], Row(r, n))
      BY <1>5, <3>2, <3>5 DEF RowsOf
    <3> QED  BY <3>4, <3>6
  <2>2. CASE r \notin ToSet(listed)
    <3>1. l = window /\ \A i \in 1..l : listed[i].start >= r.start /\ listed[i] # r
      BY <1>2, <1>3, <2>2 DEF ToSet
    <3>2. Len(listed) = l
      BY <1>2, <1>3, AFunctionIsASeq
    <3>3. k >= lim \/ window >= MaxWindow
      BY <1>1, <3>1, <3>2 DEF Enough, lim
    <3>4. CASE k >= lim
      <4>1. k = lim
        BY <1>1, <1>7, <3>4
      <4>2. Row(r, n).request = r
        BY DEF Row
      <4>3. ASSUME NEW p \in 1..k PROVE Precedes(out[p], Row(r, n))
        <5>1. PICK i \in 1..l : out[p].request = listed[i]
          BY <1>9
        <5> QED  BY <3>1, <4>2, <5>1 DEF Precedes
      <4> QED  BY <4>1, <4>3
    <3>5. CASE window >= MaxWindow
      <4> DEFINE B == {q \in asOf : q.start >= r.start}
                 L == {listed[i] : i \in 1..l}
      <4>1. IsFiniteSet(B) /\ Cardinality(B) \in Nat
        BY <1>1, FS_Subset, FS_CardinalityType
      <4>2. L \cup {r} \subseteq B /\ r \notin L
        <5>1. r.start \in Nat
          BY <1>1, ReportsAssumption
        <5> QED  BY <1>3, <3>1, <5>1
      <4>3. IsFiniteSet(L) /\ Cardinality(L) = l
        <5>1. listed \in Surjection(1..l, L)
          BY <1>2, <1>3 DEF Surjection
        <5>2. listed \in Injection(1..l, L)
          <6>1. ASSUME NEW i \in 1..l, NEW j \in 1..l, listed[i] = listed[j] PROVE i = j
            <7>1. i \in Nat /\ j \in Nat
              BY <1>3
            <7>2. ~ (i < j) /\ ~ (j < i)
              BY <1>2, <6>1
            <7> QED  BY <7>1, <7>2
          <6>2. listed \in [1..l -> L]
            BY <5>1 DEF Surjection
          <6> QED  BY <1>3, <6>1, <6>2 DEF Injection, IsInjective
        <5>3. IsFiniteSet(1..l) /\ Cardinality(1..l) = l
          BY <1>3, FS_Interval
        <5> HIDE DEF L
        <5> QED  BY <5>1, <5>2, <5>3, FS_Surjection
      <4> HIDE DEF B, L
      <4>4. IsFiniteSet(L \cup {r}) /\ Cardinality(L \cup {r}) = l + 1
        BY <4>2, <4>3, FS_AddElement
      <4>5. l + 1 =< Cardinality(B)
        BY <4>1, <4>2, <4>4, FS_Subset
      <4>6. Cardinality(B) > MaxWindow
        BY <1>3, <3>1, <3>5, <4>1, <4>5, ReportsAssumption
      <4> QED  BY <4>6 DEF Beyond, B
    <3> QED  BY <3>3, <3>4, <3>5
  <2> QED  BY <2>1, <2>2
<1> HIDE DEF k
<1>12. ASSUME NEW i \in DOMAIN out
       PROVE  /\ out[i].request \in asOf
              /\ out[i].ordinal \in Kept(out[i].request, children)
              /\ \A j \in DOMAIN out : i < j => Precedes(out[i], out[j])
  <2>1. PICK m \in 1..l : /\ out[i].request = listed[m]
                          /\ out[i].ordinal \in Kept(listed[m], children)
    BY <1>8, <1>9
  <2> QED  BY <1>3, <1>8, <1>10, <2>1
<1> QED  BY <1>8, <1>11, <1>12 DEF Answers, k, lim

----------------------------------------------------------------------------
(* The theorem of the listing                                              *)

\* A scan of the ledger lists its newest requests; nothing else lists any.
LEMMA FoundKept == Asking /\ Found /\ [Next]_vars => Found'
<1> SUFFICES ASSUME Asking, Found, [Next]_vars PROVE Found'
  OBVIOUS
<1>1. CASE UNCHANGED reader
  BY <1>1 DEF reader, Found, Newest
<1>2. ASSUME NEW q \in Listings, Ask("candidates", q) PROVE Found'
  <2>1. q.limit \in Nat \ {0}
    BY ReportsAssumption DEF Listings
  <2> QED  BY <1>2, <2>1 DEF Ask, Found
<1>3. ASSUME step' \notin {"candidates", "join"} PROVE Found'
  BY <1>3 DEF Found
<1>4. CASE CandidateRequests
  <2>1. Matching(asked) \subseteq requests
    BY DEF Matching
  <2>2. Matching(asked) \subseteq Pool /\ IsFiniteSet(Matching(asked))
    BY <2>1, FS_Subset DEF Asking
  <2>3. /\ listed' \in Newest(Matching(asked), window) /\ asOf' = Matching(asked)
        /\ window' = window /\ window \in Nat \ {0}
    BY <1>4 DEF CandidateRequests, Found
  <2>4. listed' \in Newest(asOf', window')
    BY <2>3
  <2>5. asOf' \subseteq Pool /\ IsFiniteSet(asOf') /\ window' \in Nat \ {0}
    BY <2>2, <2>3
  <2> QED  BY <2>4, <2>5 DEF Found, Newest
<1>5. CASE JoinChildRows
  <2>1. window \in Nat \ {0}
    BY <1>5 DEF JoinChildRows, Found
  <2>2. step' = "done" \/ (step' = "candidates" /\ window' = 2 * window)
    BY <1>5 DEF JoinChildRows
  <2>3. CASE step' = "done"
    BY <1>3, <2>3
  <2>4. CASE step' = "candidates" /\ window' = 2 * window
    BY <2>1, <2>4 DEF Found
  <2> QED  BY <2>2, <2>3, <2>4
<1>6. ASSUME NEW q, NEW op \in {"peak", "activity"}, Ask(op, q) PROVE Found'
  BY <1>3, <1>6 DEF Ask
<1>7. CASE PeakConcurrency \/ TokenActivity \/ Return
  BY <1>3, <1>7 DEF PeakConcurrency, TokenActivity, Return
<1>8. CASE Write
  BY <1>1, <1>8 DEF Write, Insert, MergeChildren
<1> QED
  BY <1>1, <1>2, <1>4, <1>5, <1>6, <1>7, <1>8 DEF Next, vars

\* Only JoinChildRows answers a question of its kind.
LEMMA ListingKept == Asking /\ Found /\ ListingIsNewest /\ [Next]_vars => ListingIsNewest'
<1> SUFFICES ASSUME Asking, Found, ListingIsNewest, [Next]_vars PROVE ListingIsNewest'
  OBVIOUS
<1>1. ASSUME step' # "done" \/ "limit" \notin DOMAIN asked' PROVE ListingIsNewest'
  BY <1>1 DEF ListingIsNewest, IsListing
<1>2. CASE UNCHANGED reader
  BY <1>2 DEF reader, ListingIsNewest, IsListing, Kept, Precedes, Beyond
<1>3. CASE JoinChildRows
  <2> DEFINE out == Truncated(Joined)
  <2>1. /\ step = "join" /\ joined' = children
        /\ UNCHANGED <<children, asked, asOf>>
        /\ Enough(out) => answer' = out
        /\ ~ Enough(out) => step' = "candidates"
    BY <1>3 DEF JoinChildRows
  <2>2. CASE Enough(out)
    <3>1. Answers(out, children)
      BY <2>1, <2>2, ListingCorrect
    <3>2. answer' = out
      BY <2>1, <2>2
    <3> HIDE DEF out
    <3>3. /\ \A i \in DOMAIN answer' :
               /\ answer'[i].request \in asOf'
               /\ answer'[i].ordinal \in Kept(answer'[i].request, children)
               /\ \A j \in DOMAIN answer' : i < j => Precedes(answer'[i], answer'[j])
          /\ \A r \in asOf' : \A n \in Kept(r, children) :
               \/ Row(r, n) \in ToSet(answer')
               \/ /\ Len(answer') = asked'.limit
                  /\ \A i \in DOMAIN answer' : Precedes(answer'[i], Row(r, n))
               \/ Beyond(r)
      BY <2>1, <3>1, <3>2 DEF Answers
    <3> QED  BY <2>1, <3>3 DEF ListingIsNewest, Kept, Precedes, Beyond, Row
  <2>3. CASE ~ Enough(out)
    BY <1>1, <2>1, <2>3
  <2> QED  BY <2>2, <2>3
<1>4. CASE PeakConcurrency
  <2>1. asked' = asked /\ "limit" \notin DOMAIN asked
    BY <1>4, Kinds DEF PeakConcurrency, Asking
  <2> QED  BY <1>1, <2>1
<1>5. CASE TokenActivity
  <2>1. asked' = asked /\ "limit" \notin DOMAIN asked
    BY <1>5, Kinds DEF TokenActivity, Asking
  <2> QED  BY <1>1, <2>1
<1>6. CASE Write
  BY <1>2, <1>6 DEF Write, Insert, MergeChildren
<1>7. ASSUME NEW q, NEW op \in {"candidates", "peak", "activity"}, Ask(op, q)
      PROVE  ListingIsNewest'
  BY <1>1, <1>7 DEF Ask
<1>8. CASE CandidateRequests \/ Return
  BY <1>1, <1>8 DEF CandidateRequests, Return
<1> QED
  BY <1>2, <1>3, <1>4, <1>5, <1>6, <1>7, <1>8 DEF Next, vars

\* The listing of tool calls and web requests has the newest rows of the
\* requests at its last scan, in order, and leaves out only older ones.
THEOREM ReportsListingIsNewest == Spec => []ListingIsNewest
<1>1. Init => Asking /\ Found /\ ListingIsNewest
  BY AskingInitially DEF Init, Found, ListingIsNewest, IsListing
<1>2. Asking /\ Found /\ ListingIsNewest /\ [Next]_vars
        => Asking' /\ Found' /\ ListingIsNewest'
  BY AskingKept, FoundKept, ListingKept
<1> QED  BY <1>1, <1>2, PTL DEF Spec
=============================================================================
