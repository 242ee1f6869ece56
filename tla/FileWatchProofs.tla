--------------------------- MODULE FileWatchProofs ---------------------------
(***************************************************************************)
(* Proofs about FileWatch, for any symbols, scores, limits and bounds: a   *)
(* session is judged on the whole output of its process, and what is       *)
(* counted and scored is the lines of the file, however the reads cut it.  *)
(*                                                                         *)
(* OutputInv says what is on its way to the watch at each turn of the      *)
(* loop, that the watch never reads behind the end of the file, and how a  *)
(* file without a reader came to be closed.                                *)
(*                                                                         *)
(* LinesInv says it of the text from the place where the session began to  *)
(* the place of the watch: the pieces that are left are the lines between  *)
(* that place and the end of what was read, the buffer is the last line of *)
(* that text when it has no end yet, and the counters are what the text    *)
(* has in lines.  The lemmas before it say what one more piece adds to the *)
(* lines of a text and to the sum of their scores.                         *)
(***************************************************************************)
EXTENDS FileWatch, TLAPS, SequenceTheorems, FiniteSetTheorems, WellFoundedInduction

-----------------------------------------------------------------------------
(* Sums over finite sets.                                                  *)

\* What holds of a set if it holds of the sets with one element less, holds of all
\* subsets of a finite set.
LEMMA SubsetInduction ==
    ASSUME NEW S, IsFiniteSet(S), NEW X,
           \A T \in SUBSET S : (\A y \in T : T \ {y} \in X) => T \in X
    PROVE  \A T \in SUBSET S : T \in X
<1> DEFINE Out == {T \in SUBSET S : T \notin X}
           R == StrictSubsetOrdering(S)
<1> SUFFICES ASSUME Out # {} PROVE FALSE
  OBVIOUS
<1>1. IsWellFoundedOn(R, FiniteSubsetsOf(S))
  BY ONLY FS_StrictSubsetOrderingWellFounded
<1>2. Out \subseteq FiniteSubsetsOf(S)
  <2>1. \A T \in SUBSET S : IsFiniteSet(T)
    BY FS_Subset
  <2> QED
    BY <2>1 DEF FiniteSubsetsOf
<1> HIDE DEF R, Out
<1>3. PICK T \in Out : \A U \in Out : ~ (<<U, T>> \in R)
  BY ONLY <1>1, <1>2, Out # {}, WFMin
<1> USE DEF R, Out
<1>4. PICK y \in T : T \ {y} \notin X
  BY <1>3
<1>5. <<T \ {y}, T>> \in R
  <2>1. T \ {y} \subseteq S /\ T \subseteq S /\ T \ {y} # T /\ T \ {y} \subseteq T
    BY <1>3, <1>4
  <2> QED
    BY <2>1 DEF StrictSubsetOrdering
<1> QED
  BY <1>3, <1>4, <1>5

\* A function that adds up the numbers f[x] of each subset of S, one after the other.
Some(s) == CHOOSE x \in s : TRUE
AddsUp(it, f, S) ==
    it = [s \in SUBSET S |-> IF s = {} THEN 0 ELSE f[Some(s)] + it[s \ {Some(s)}]]

\* What such a function is.
LEMMA AddsUpFacts ==
    ASSUME NEW S, NEW f, NEW it
    PROVE  AddsUp(it, f, S) <=>
             /\ it = [s \in SUBSET S |-> it[s]]
             /\ it[{}] = 0
             /\ \A s \in SUBSET S : s # {} => it[s] = f[Some(s)] + it[s \ {Some(s)}]
<1>1. ASSUME AddsUp(it, f, S)
      PROVE  /\ it = [s \in SUBSET S |-> it[s]]
             /\ it[{}] = 0
             /\ \A s \in SUBSET S : s # {} => it[s] = f[Some(s)] + it[s \ {Some(s)}]
  <2> DEFINE g == [s \in SUBSET S |-> IF s = {} THEN 0 ELSE f[Some(s)] + it[s \ {Some(s)}]]
  <2>1. it = g
    BY <1>1 DEF AddsUp
  <2>2. /\ g = [s \in SUBSET S |-> g[s]]
        /\ g[{}] = 0
        /\ \A s \in SUBSET S : s # {} => g[s] = f[Some(s)] + it[s \ {Some(s)}]
    OBVIOUS
  <2> HIDE DEF g
  <2> QED
    BY <2>1, <2>2
<1>2. ASSUME it = [s \in SUBSET S |-> it[s]], it[{}] = 0,
             \A s \in SUBSET S : s # {} => it[s] = f[Some(s)] + it[s \ {Some(s)}]
      PROVE  AddsUp(it, f, S)
  <2>1. \A s \in SUBSET S :
          it[s] = IF s = {} THEN 0 ELSE f[Some(s)] + it[s \ {Some(s)}]
    BY <1>2
  <2>2. [s \in SUBSET S |-> it[s]] =
        [s \in SUBSET S |-> IF s = {} THEN 0 ELSE f[Some(s)] + it[s \ {Some(s)}]]
    BY <2>1
  <2> QED
    BY <1>2, <2>2 DEF AddsUp
<1> QED
  BY <1>1, <1>2

\* An element of a set that has one.
LEMMA SomeFacts == \A s : s # {} => Some(s) \in s /\ s \ {Some(s)} \in SUBSET s
BY DEF Some

\* The sums of the subsets are numbers, and do not depend on the function.
LEMMA SumsAgree ==
    ASSUME NEW S, IsFiniteSet(S), NEW T \in SUBSET S,
           NEW f, \A x \in T : f[x] \in Int,
           NEW g, \A x \in T : g[x] = f[x],
           NEW a, AddsUp(a, f, S), NEW b, NEW U, T \subseteq U, AddsUp(b, g, U)
    PROVE  \A s \in SUBSET T : a[s] \in Int /\ a[s] = b[s]
<1> DEFINE X == {s \in SUBSET T : a[s] \in Int /\ a[s] = b[s]}
<1>1. IsFiniteSet(T)
  BY FS_Subset
<1>2. ASSUME NEW s \in SUBSET T, \A y \in s : s \ {y} \in X
      PROVE  s \in X
  <2>1. CASE s = {}
    <3>1. a[{}] = 0
      BY ONLY AddsUp(a, f, S), AddsUpFacts
    <3>2. b[{}] = 0
      BY ONLY AddsUp(b, g, U), AddsUpFacts
    <3> QED
      BY <2>1, <3>1, <3>2
  <2>2. CASE s # {}
    <3>1. Some(s) \in s /\ s \ {Some(s)} \in X
      BY <1>2, <2>2, SomeFacts
    <3>2. /\ s \in SUBSET S /\ s \in SUBSET U
      BY <1>2
    <3>3. a[s] = f[Some(s)] + a[s \ {Some(s)}]
      BY <2>2, <3>2, AddsUpFacts
    <3>4. b[s] = g[Some(s)] + b[s \ {Some(s)}]
      BY <2>2, <3>2, AddsUpFacts
    <3>5. f[Some(s)] \in Int /\ g[Some(s)] = f[Some(s)]
      BY <1>2, <3>1
    <3> QED
      BY <3>1, <3>3, <3>4, <3>5
  <2> QED
    BY <2>1, <2>2
<1> HIDE DEF X
<1>3. \A s \in SUBSET T : s \in X
  BY <1>1, <1>2, SubsetInduction
<1> QED
  BY <1>3 DEF X

\* Two such functions for one set have the same sum.
LEMMA SameSum ==
    ASSUME NEW S, IsFiniteSet(S), NEW f, \A x \in S : f[x] \in Int,
           NEW a, AddsUp(a, f, S), NEW b, AddsUp(b, f, S)
    PROVE  a[S] = b[S]
<1>1. S \in SUBSET S /\ S \subseteq S
  OBVIOUS
<1> QED
  BY ONLY <1>1, IsFiniteSet(S), \A x \in S : f[x] \in Int, AddsUp(a, f, S),
     AddsUp(b, f, S), \A x \in S : f[x] = f[x], SumsAgree

\* There is such a function.
LEMMA SumsExist ==
    ASSUME NEW S, IsFiniteSet(S), NEW f, \A x \in S : f[x] \in Int
    PROVE  \E it : AddsUp(it, f, S)
<1> DEFINE X == {T \in SUBSET S : \E it : AddsUp(it, f, T)}
           it(T) == CHOOSE a : AddsUp(a, f, T)
<1>1. ASSUME NEW T \in SUBSET S, \A y \in T : T \ {y} \in X
      PROVE  T \in X
  <2> DEFINE v(U) == IF U = {} THEN 0 ELSE f[Some(U)] + it(U \ {Some(U)})[U \ {Some(U)}]
             b == [U \in SUBSET T |-> v(U)]
  <2>1. ASSUME NEW y \in T PROVE AddsUp(it(T \ {y}), f, T \ {y})
    BY <1>1, <2>1
  <2>2. ASSUME NEW U \in SUBSET T, U # T
        PROVE  AddsUp(it(U), f, U) /\ b[U] = it(U)[U]
    <3>1. PICK y \in T : U \in SUBSET (T \ {y})
      BY <2>2
    <3>2. AddsUp(it(T \ {y}), f, T \ {y})
      BY <2>1
    <3> DEFINE a == it(T \ {y})
               c == [W \in SUBSET U |-> a[W]]
    <3>3. a[{}] = 0 /\ \A s \in SUBSET (T \ {y}) : s # {} => a[s] = f[Some(s)] + a[s \ {Some(s)}]
      BY <3>2, AddsUpFacts
    <3>4. AddsUp(c, f, U)
      <4>1. c = [s \in SUBSET U |-> c[s]] /\ c[{}] = 0
        BY <3>3
      <4>2. ASSUME NEW s \in SUBSET U, s # {}
            PROVE  c[s] = f[Some(s)] + c[s \ {Some(s)}]
        <5>1. s \ {Some(s)} \in SUBSET U /\ s \in SUBSET (T \ {y})
          BY <3>1
        <5>2. c[s] = a[s] /\ c[s \ {Some(s)}] = a[s \ {Some(s)}]
          BY <5>1
        <5>3. a[s] = f[Some(s)] + a[s \ {Some(s)}]
          BY <3>3, <4>2, <5>1
        <5> QED
          BY ONLY <5>2, <5>3
      <4> HIDE DEF c
      <4> QED
        BY <4>1, <4>2, AddsUpFacts
    <3> HIDE DEF c, a, v
    <3>5. AddsUp(it(U), f, U)
      BY <3>4
    <3> QED
      <4> DEFINE d == it(U)
      <4>0. AddsUp(d, f, U)
        BY <3>5
      <4> HIDE DEF d
      <4>1. b[U] = v(U)
        BY <2>2
      <4>2. CASE U = {}
        <5>1. d[{}] = 0
          BY ONLY <4>0, AddsUpFacts
        <5> QED
          BY <3>5, <4>1, <4>2, <5>1 DEF v, d
      <4>3. CASE U # {}
        <5> DEFINE W == U \ {Some(U)}
        <5>1. d[U] = f[Some(U)] + d[W]
          BY <4>0, <4>3, AddsUpFacts
        <5>2. W \in SUBSET U /\ U \in SUBSET S /\ W \in SUBSET T /\ W # T
          BY <2>2
        <5>3. IsFiniteSet(U)
          BY <5>2, FS_Subset
        <5>4. \E e : AddsUp(e, f, W)
          <6> DEFINE e == [s \in SUBSET W |-> d[s]]
          <6>1. d[{}] = 0 /\ \A s \in SUBSET U : s # {} => d[s] = f[Some(s)] + d[s \ {Some(s)}]
            BY <4>0, AddsUpFacts
          <6>2. e = [s \in SUBSET W |-> e[s]] /\ e[{}] = 0
            BY <6>1
          <6>3. ASSUME NEW s \in SUBSET W, s # {}
                PROVE  e[s] = f[Some(s)] + e[s \ {Some(s)}]
            <7>1. s \ {Some(s)} \in SUBSET W /\ s \in SUBSET U
              BY <5>2
            <7> QED
              BY <6>1, <6>3, <7>1
          <6> HIDE DEF e
          <6>4. AddsUp(e, f, W)
            BY <6>2, <6>3, AddsUpFacts
          <6> QED
            BY <6>4
        <5> HIDE DEF W
        <5>5. AddsUp(it(W), f, W)
          BY <5>4
        <5> DEFINE e == it(W)
        <5>6. AddsUp(e, f, W)
          BY <5>5
        <5> HIDE DEF e
        <5>7. d[W] = e[W]
          <6>1. W \in SUBSET U /\ W \subseteq W /\ W \in SUBSET W /\ \A x \in W : f[x] \in Int
            BY <5>2
          <6> QED
            BY ONLY <4>0, <5>3, <5>6, <6>1, \A x \in W : f[x] = f[x], SumsAgree
        <5> QED
          BY <3>5, <4>1, <4>3, <5>1, <5>7 DEF v, d, e, W
      <4> QED
        BY <4>2, <4>3
  <2>3. AddsUp(b, f, T)
    <3>1. b = [s \in SUBSET T |-> b[s]] /\ b[{}] = 0
      OBVIOUS
    <3>2. ASSUME NEW s \in SUBSET T, s # {}
          PROVE  b[s] = f[Some(s)] + b[s \ {Some(s)}]
      <4>1. s \ {Some(s)} \in SUBSET T /\ s \ {Some(s)} # T
        BY <3>2, SomeFacts
      <4>2. b[s] = f[Some(s)] + it(s \ {Some(s)})[s \ {Some(s)}]
        BY <3>2
      <4>3. b[s \ {Some(s)}] = it(s \ {Some(s)})[s \ {Some(s)}]
        BY <2>2, <4>1
      <4> QED
        BY <4>2, <4>3
    <3> HIDE DEF b
    <3> QED
      BY <3>1, <3>2, AddsUpFacts
  <2> QED
    BY <2>3
<1>2. \A T \in SUBSET S : T \in X
  <2> HIDE DEF X
  <2> QED
    BY <1>1, SubsetInduction
<1> QED
  BY <1>2

\* The order does not matter.
LEMMA SumsCommute ==
    ASSUME NEW S, IsFiniteSet(S), NEW f, \A x \in S : f[x] \in Int,
           NEW a, AddsUp(a, f, S)
    PROVE  \A s \in SUBSET S : a[s] \in Int /\ \A y \in s : a[s] = f[y] + a[s \ {y}]
<1>0. \A s \in SUBSET S : a[s] \in Int
  <2>1. S \in SUBSET S /\ S \subseteq S /\ \A x \in S : f[x] = f[x]
    OBVIOUS
  <2> QED
    BY <2>1, SumsAgree
<1> DEFINE X == {s \in SUBSET S : \A y \in s : a[s] = f[y] + a[s \ {y}]}
<1>1. ASSUME NEW s \in SUBSET S, \A y \in s : s \ {y} \in X
      PROVE  s \in X
  <2> SUFFICES ASSUME NEW y \in s PROVE a[s] = f[y] + a[s \ {y}]
    OBVIOUS
  <2> DEFINE c == Some(s)
  <2>1. c \in s /\ a[s] = f[c] + a[s \ {c}]
    BY SomeFacts, AddsUpFacts
  <2> HIDE DEF c
  <2>2. CASE y = c
    BY <2>1, <2>2
  <2>3. CASE y # c
    <3>1. y \in s \ {c} /\ c \in s \ {y}
      BY <2>1, <2>3
    <3>2. a[s \ {c}] = f[y] + a[(s \ {c}) \ {y}]
      BY <1>1, <2>1, <3>1
    <3>3. a[s \ {y}] = f[c] + a[(s \ {y}) \ {c}]
      BY <1>1, <2>1, <3>1
    <3>4. (s \ {c}) \ {y} = (s \ {y}) \ {c}
      OBVIOUS
    <3>5. /\ f[y] \in Int /\ f[c] \in Int /\ a[(s \ {c}) \ {y}] \in Int
      BY <1>0, <2>1
    <3>6. a[s \ {y}] = f[c] + a[(s \ {c}) \ {y}]
      BY <3>3, <3>4
    <3> QED
      BY ONLY <2>1, <3>2, <3>5, <3>6
  <2> QED
    BY <2>2, <2>3
<1>2. \A s \in SUBSET S : s \in X
  <2> HIDE DEF X
  <2> QED
    BY <1>1, SubsetInduction
<1> QED
  BY <1>0, <1>2

\* The sum of the numbers f[x] of a set.
Total(f, S) == MapThenSumSet(LAMBDA x : f[x], S)

\* MapThenSumSet of the library is the last sum of such a function.
LEMMA TotalAddsUp ==
    ASSUME NEW S, IsFiniteSet(S), NEW f, \A x \in S : f[x] \in Int
    PROVE  \E a : AddsUp(a, f, S) /\ Total(f, S) = a[S]
<1> DEFINE a == CHOOSE it : AddsUp(it, f, S)
<1>1. Total(f, S) = a[S]
  BY DEF Total, MapThenSumSet, MapThenFoldSet, AddsUp, Some
<1>2. AddsUp(a, f, S)
  BY SumsExist
<1> QED
  BY <1>1, <1>2

\* The sum of nothing; it is a number; an element more; what is added counts only.
LEMMA TotalFacts ==
    ASSUME NEW S, IsFiniteSet(S), NEW f, \A x \in S : f[x] \in Int
    PROVE  /\ S = {} => Total(f, S) = 0
           /\ Total(f, S) \in Int
<1>1. PICK a : AddsUp(a, f, S) /\ Total(f, S) = a[S]
  BY TotalAddsUp
<1>2. a[{}] = 0
  BY <1>1, AddsUpFacts
<1>3. \A s \in SUBSET S : a[s] \in Int
  BY <1>1, SumsCommute
<1> QED
  BY <1>1, <1>2, <1>3

\* Numbers that are equal have equal sums.
LEMMA TotalSame ==
    ASSUME NEW S, IsFiniteSet(S), NEW f, \A x \in S : f[x] \in Int,
           NEW g, \A x \in S : g[x] = f[x]
    PROVE  Total(g, S) = Total(f, S)
<1>1. PICK a : AddsUp(a, f, S) /\ Total(f, S) = a[S]
  BY TotalAddsUp
<1>2. PICK b : AddsUp(b, g, S) /\ Total(g, S) = b[S]
  BY TotalAddsUp
<1>3. S \in SUBSET S /\ S \subseteq S
  OBVIOUS
<1>4. a[S] = b[S]
  BY <1>1, <1>2, <1>3, SumsAgree
<1> QED
  BY <1>1, <1>2, <1>4

\* One element more.
LEMMA TotalAdds ==
    ASSUME NEW S, IsFiniteSet(S), NEW y, y \notin S,
           NEW g, \A x \in S \cup {y} : g[x] \in Int,
           NEW f, \A x \in S : f[x] = g[x]
    PROVE  Total(g, S \cup {y}) = Total(f, S) + g[y]
<1> DEFINE T == S \cup {y}
<1>1. IsFiniteSet(T)
  BY FS_AddElement
<1>2. /\ S \in SUBSET T /\ T \in SUBSET T /\ y \in T /\ T \ {y} = S /\ S \subseteq S
      /\ S \in SUBSET S
  OBVIOUS
<1>3. \A x \in T : g[x] \in Int
  OBVIOUS
<1> HIDE DEF T
<1>4. PICK b : AddsUp(b, g, T) /\ Total(g, T) = b[T]
  BY <1>1, <1>3, TotalAddsUp
<1>5. b[T] = g[y] + b[S]
  <2>1. \A s \in SUBSET T : b[s] \in Int /\ \A z \in s : b[s] = g[z] + b[s \ {z}]
    BY ONLY <1>1, <1>3, <1>4, SumsCommute
  <2>2. b[T] = g[y] + b[T \ {y}]
    BY <1>2, <2>1
  <2> QED
    BY <1>2, <2>2
<1>6. PICK a : AddsUp(a, f, S) /\ Total(f, S) = a[S]
  BY <1>2, <1>3, TotalAddsUp
<1>7. b[S] \in Int /\ b[S] = a[S]
  <2>1. \A x \in S : g[x] \in Int
    BY <1>2, <1>3
  <2>2. AddsUp(b, g, T) /\ AddsUp(a, f, S) /\ \A x \in S : f[x] = g[x]
    BY <1>4, <1>6
  <2>3. \A s \in SUBSET S : b[s] \in Int /\ b[s] = a[s]
    BY ONLY <1>1, <1>2, <2>1, <2>2, SumsAgree
  <2> QED
    BY <1>2, <2>3
<1>8. g[y] \in Int
  BY <1>2, <1>3
<1> QED
  BY <1>4, <1>5, <1>6, <1>7, <1>8 DEF T

\* A finite set of numbers that is not empty has a least and a greatest element.
LEMMA LeastAndGreatest ==
    ASSUME NEW S \in SUBSET Int, IsFiniteSet(S), S # {}
    PROVE  /\ \E m \in S : \A n \in S : m <= n
           /\ \E m \in S : \A n \in S : n <= m
<1> DEFINE X == {T \in SUBSET S : \/ T = {}
                                  \/ /\ \E m \in T : \A n \in T : m <= n
                                     /\ \E m \in T : \A n \in T : n <= m}
<1>1. ASSUME NEW T \in SUBSET S, \A y \in T : T \ {y} \in X
      PROVE  T \in X
  <2> SUFFICES ASSUME T # {} PROVE T \in X
    OBVIOUS
  <2>1. PICK y \in T : T \ {y} \in X
    BY <1>1
  <2>2. CASE T \ {y} = {}
    <3>1. T = {y} /\ y \in Int
      BY <2>1, <2>2
    <3> QED
      BY <3>1
  <2>3. CASE T \ {y} # {}
    <3>1. PICK m \in T \ {y} : \A n \in T \ {y} : m <= n
      BY <2>1, <2>3
    <3>2. PICK k \in T \ {y} : \A n \in T \ {y} : n <= k
      BY <2>1, <2>3
    <3>3. m \in Int /\ k \in Int /\ y \in Int /\ T \subseteq Int
      BY <2>1, <3>1, <3>2
    <3>4. \E j \in T : \A n \in T : j <= n
      <4>1. CASE m <= y
        BY <3>1, <3>3, <4>1
      <4>2. CASE y <= m
        <5>1. \A n \in T : y <= n
          BY <3>1, <3>3, <4>2
        <5> QED
          BY <5>1
      <4> QED
        BY <3>3, <4>1, <4>2
    <3>5. \E j \in T : \A n \in T : n <= j
      <4>1. CASE y <= k
        BY <3>2, <3>3, <4>1
      <4>2. CASE k <= y
        <5>1. \A n \in T : n <= y
          BY <3>2, <3>3, <4>2
        <5> QED
          BY <5>1
      <4> QED
        BY <3>3, <4>1, <4>2
    <3> QED
      BY <3>4, <3>5
  <2> QED
    BY <2>2, <2>3
<1> HIDE DEF X
<1>2. \A T \in SUBSET S : T \in X
  BY <1>1, SubsetInduction
<1>3. S \in X
  BY <1>2
<1> QED
  BY <1>3 DEF X

\* What holds of 0, and of n + 1 if it holds of n, holds of all numbers up to N.
LEMMA SetInduction ==
    ASSUME NEW N \in Nat, NEW S, 0 \in S, \A n \in 0 .. (N - 1) : n \in S => n + 1 \in S
    PROVE  0 .. N \subseteq S
<1> DEFINE T == (0 .. N) \ S
<1> SUFFICES ASSUME T # {} PROVE FALSE
  OBVIOUS
<1>1. PICK m \in T : \A n \in T : m <= n
  <2>1. T \in SUBSET (0 .. N) /\ T \in SUBSET Int /\ IsFiniteSet(0 .. N)
    BY FS_Interval
  <2>2. IsFiniteSet(T)
    BY ONLY <2>1, FS_Subset
  <2> HIDE DEF T
  <2> QED
    BY ONLY <2>1, <2>2, T # {}, LeastAndGreatest
<1>2. m # 0 /\ m - 1 \in 0 .. (N - 1) /\ m - 1 \notin T /\ (m - 1) + 1 = m
  BY <1>1
<1> QED
  BY <1>2

\* The differences of a list of numbers add up to the last less the first.
LEMMA Telescope ==
    ASSUME NEW N \in Nat, NEW P \in [0 .. N -> Int],
           NEW f, \A i \in 1 .. N : f[i] = P[i] - P[i - 1]
    PROVE  Total(f, 1 .. N) = P[N] - P[0]
<1> DEFINE S == {n \in 0 .. N : Total(f, 1 .. n) = P[n] - P[0]}
<1>0. \A n \in 0 .. N : IsFiniteSet(1 .. n) /\ \A i \in 1 .. n : f[i] \in Int
  <2>1. \A i \in 1 .. N : i \in 0 .. N /\ i - 1 \in 0 .. N
    OBVIOUS
  <2>2. \A i \in 1 .. N : f[i] \in Int
    BY <2>1
  <2>3. \A n \in 0 .. N : IsFiniteSet(1 .. n) /\ 1 .. n \subseteq 1 .. N
    BY FS_Interval
  <2> QED
    BY ONLY <2>2, <2>3
<1>1. 0 \in S
  <2>1. IsFiniteSet(1 .. 0) /\ (\A i \in 1 .. 0 : f[i] \in Int) /\ 1 .. 0 = {}
    BY <1>0
  <2>2. Total(f, 1 .. 0) = 0
    BY ONLY <2>1, TotalFacts
  <2> QED
    BY <2>2
<1>2. ASSUME NEW n \in 0 .. (N - 1), n \in S
      PROVE  n + 1 \in S
  <2>1. /\ n \in 0 .. N /\ n + 1 \in 0 .. N /\ n + 1 \in 1 .. N /\ (n + 1) - 1 = n
        /\ 1 .. (n + 1) = (1 .. n) \cup {n + 1} /\ n + 1 \notin 1 .. n
    OBVIOUS
  <2>2. /\ IsFiniteSet(1 .. n) /\ \A i \in (1 .. n) \cup {n + 1} : f[i] \in Int
        /\ \A i \in 1 .. n : f[i] = f[i]
    BY <1>0, <2>1
  <2>3. Total(f, (1 .. n) \cup {n + 1}) = Total(f, 1 .. n) + f[n + 1]
    <3> DEFINE D == 1 .. n
               k == n + 1
    <3>1. /\ IsFiniteSet(D) /\ k \notin D
          /\ \A i \in D \cup {k} : f[i] \in Int
          /\ \A i \in D : f[i] = f[i]
      BY ONLY <2>1, <2>2
    <3> HIDE DEF D, k
    <3>2. Total(f, D \cup {k}) = Total(f, D) + f[k]
      BY ONLY <3>1, TotalAdds
    <3> QED
      BY <3>2 DEF D, k
  <2>4. f[n + 1] = P[n + 1] - P[n]
    BY <2>1
  <2>5. Total(f, 1 .. (n + 1)) = (P[n] - P[0]) + (P[n + 1] - P[n])
    BY <1>2, <2>1, <2>3, <2>4
  <2>6. P[n] \in Int /\ P[0] \in Int /\ P[n + 1] \in Int
    BY <2>1
  <2>7. Total(f, 1 .. (n + 1)) = P[n + 1] - P[0]
    BY ONLY <2>5, <2>6
  <2> QED
    BY <2>1, <2>7
<1> HIDE DEF S
<1>3. 0 .. N \subseteq S
  BY <1>1, <1>2, SetInduction
<1> QED
  BY <1>3 DEF S

\* The lengths of the pieces of a text add up to its length.
LEMMA LengthsAddUp ==
    ASSUME NEW N \in Nat, NEW ps, DOMAIN ps = 1 .. N, NEW P \in [0 .. N -> Int],
           \A i \in 1 .. N : Len(ps[i]) = P[i] - P[i - 1]
    PROVE  MapThenSumSet(LAMBDA i : Len(ps[i]), DOMAIN ps) = P[N] - P[0]
<1> DEFINE f == [i \in 1 .. N |-> Len(ps[i])]
           G(it) == [s \in SUBSET (1 .. N) |->
                       IF s = {} THEN 0 ELSE Len(ps[Some(s)]) + it[s \ {Some(s)}]]
           b == CHOOSE it : it = G(it)
<1>1. MapThenSumSet(LAMBDA i : Len(ps[i]), DOMAIN ps) = b[1 .. N]
  BY DEF MapThenSumSet, MapThenFoldSet, Some
<1>2. \A i \in 1 .. N : f[i] = P[i] - P[i - 1] /\ f[i] \in Int
  OBVIOUS
<1>3. ASSUME NEW it PROVE it = G(it) <=> AddsUp(it, f, 1 .. N)
  <2>1. ASSUME NEW s \in SUBSET (1 .. N), s # {} PROVE Len(ps[Some(s)]) = f[Some(s)]
    BY <2>1, SomeFacts
  <2> HIDE DEF f
  <2>2. G(it) = [s \in SUBSET (1 .. N) |->
                   IF s = {} THEN 0 ELSE f[Some(s)] + it[s \ {Some(s)}]]
    BY <2>1
  <2> QED
    BY <2>2 DEF AddsUp
<1>4. IsFiniteSet(1 .. N)
  BY FS_Interval
<1> HIDE DEF f, G
<1>5. PICK a : AddsUp(a, f, 1 .. N) /\ Total(f, 1 .. N) = a[1 .. N]
  BY <1>2, <1>4, TotalAddsUp
<1>6. AddsUp(b, f, 1 .. N)
  BY <1>3, <1>5
<1> HIDE DEF b
<1>7. a[1 .. N] = b[1 .. N]
  <2>1. \A x \in 1 .. N : f[x] \in Int
    BY <1>2
  <2> QED
    BY ONLY <1>4, <1>5, <1>6, <2>1, SameSum
<1>8. Total(f, 1 .. N) = P[N] - P[0]
  BY <1>2, Telescope
<1> QED
  BY <1>1, <1>5, <1>7, <1>8

-----------------------------------------------------------------------------
(* Cutting a text into lines.                                              *)

Text == Seq(Words \cup Ends)

\* Only the end of a piece may be the end of a line; the piece is a line of its own
\* behind the text (it does not go on with a line, nor with a \r).
Unbroken(piece) == LineEnds(piece) \subseteq {Len(piece)}
Whole(text, piece) == text = <<>> \/ Len(text) \in LineEnds(text \o piece)

\* P lists the places where a text is cut.
IsCutting(text, n, P) ==
    /\ n \in Nat /\ P \in [0 .. n -> Nat] /\ P[0] = 0
    /\ \A i \in 1 .. n : P[i - 1] < P[i]
    /\ Cuts(text) = {P[i] : i \in 0 .. n}

\* A list of numbers that grows, grows from any to any later one.
LEMMA Growing ==
    ASSUME NEW n \in Nat, NEW P \in [0 .. n -> Nat], \A i \in 1 .. n : P[i - 1] < P[i]
    PROVE  \A i, j \in 0 .. n : i < j => P[i] < P[j]
<1> DEFINE S == {j \in 0 .. n : \A i \in 0 .. n : i < j => P[i] < P[j]}
<1>1. 0 \in S
  OBVIOUS
<1>2. ASSUME NEW j \in 0 .. (n - 1), j \in S PROVE j + 1 \in S
  <2>1. j + 1 \in 0 .. n /\ j + 1 \in 1 .. n /\ (j + 1) - 1 = j /\ j \in 0 .. n
    OBVIOUS
  <2>2. P[j] < P[j + 1] /\ P[j] \in Nat /\ P[j + 1] \in Nat
    BY <2>1
  <2>3. ASSUME NEW i \in 0 .. n, i < j + 1 PROVE P[i] < P[j + 1]
    <3>1. CASE i = j
      BY <2>2, <3>1
    <3>2. CASE i < j
      <4>1. P[i] < P[j] /\ P[i] \in Nat
        BY <1>2, <3>2
      <4> QED
        BY <2>2, <4>1
    <3> QED
      BY <2>3, <3>1, <3>2
  <2> QED
    BY <2>1, <2>3
<1> HIDE DEF S
<1>3. 0 .. n \subseteq S
  BY <1>1, <1>2, SetInduction
<1> QED
  BY <1>3 DEF S

\* The cuts are places of the text, the end of the text is the last.
LEMMA LastCut ==
    ASSUME NEW T \in Text, NEW n, NEW P, IsCutting(T, n, P)
    PROVE  /\ P[n] = Len(T) /\ n \in 0 .. n
           /\ T # <<>> => n # 0
           /\ \A i \in 0 .. n : P[i] <= Len(T)
           /\ \A i \in 0 .. n : P[i] = Len(T) => i = n
<1>1. /\ Len(T) \in Nat /\ DOMAIN T = 1 .. Len(T)
      /\ n \in Nat /\ P \in [0 .. n -> Nat] /\ P[0] = 0
  BY DEF Text, IsCutting
<1>2. Cuts(T) \subseteq 0 .. Len(T) /\ Len(T) \in Cuts(T)
  BY <1>1 DEF Cuts, LineEnds
<1>3. PICK k \in 0 .. n : P[k] = Len(T)
  BY <1>2 DEF IsCutting
<1>4. \A i \in 0 .. n : P[i] \in 0 .. Len(T)
  BY <1>2 DEF IsCutting
<1>5. \A i, j \in 0 .. n : i < j => P[i] < P[j]
  BY <1>1, Growing DEF IsCutting
<1>6. k = n
  <2>1. n \in 0 .. n
    BY <1>1
  <2>2. k < n => P[k] < P[n]
    BY <1>5, <2>1
  <2>3. P[n] \in 0 .. Len(T)
    BY <1>4, <2>1
  <2> QED
    BY <1>1, <1>3, <2>2, <2>3
<1>7. \A i \in 0 .. n : i # n => P[i] < P[n]
  <2>1. \A i \in 0 .. n : i # n => i < n /\ n \in 0 .. n
    BY <1>1
  <2> QED
    BY <1>5, <2>1
<1>8. \A i \in 0 .. n : P[i] = Len(T) => i = n
  <2> SUFFICES ASSUME NEW i \in 0 .. n, P[i] = Len(T), i # n PROVE FALSE
    OBVIOUS
  <2>1. P[i] < P[n] /\ P[n] = Len(T)
    BY <1>3, <1>6, <1>7
  <2> QED
    BY <1>1, <2>1
<1>9. T # <<>> => n # 0
  <2> SUFFICES ASSUME n = 0, T # <<>> PROVE FALSE
    OBVIOUS
  <2>1. P[0] = Len(T)
    BY <1>3, <1>6
  <2>2. T = <<>>
    BY <1>1, <2>1 DEF Text
  <2> QED
    BY <2>2
<1> QED
  BY <1>1, <1>3, <1>4, <1>6, <1>8, <1>9

\* What follows a text is cut where it was, behind what was before.
LEMMA EndsGrow ==
    ASSUME NEW T \in Text, NEW p \in Text
    PROVE  /\ T \o p \in Text /\ Len(T \o p) = Len(T) + Len(p)
           /\ Len(T) \in Nat /\ Len(p) \in Nat
           /\ LineEnds(T \o p) \subseteq 1 .. Len(T) + Len(p)
           /\ LineEnds(T) \subseteq 1 .. Len(T) /\ LineEnds(p) \subseteq 1 .. Len(p)
           /\ \A i \in 1 .. Len(T) : i < Len(T) => (i \in LineEnds(T \o p) <=> i \in LineEnds(T))
           /\ \A i \in 1 .. Len(p) : Len(T) + i \in LineEnds(T \o p) <=> i \in LineEnds(p)
<1> DEFINE q == T \o p
<1>1. /\ q \in Text /\ Len(q) = Len(T) + Len(p)
      /\ Len(T) \in Nat /\ Len(p) \in Nat
      /\ DOMAIN q = 1 .. Len(T) + Len(p) /\ DOMAIN T = 1 .. Len(T) /\ DOMAIN p = 1 .. Len(p)
  BY DEF Text
<1>2. /\ \A i \in 1 .. Len(T) : q[i] = T[i]
      /\ \A i \in 1 .. Len(p) : q[Len(T) + i] = p[i]
  BY <1>1 DEF Text
<1> HIDE DEF q
<1>3. /\ LineEnds(q) \subseteq 1 .. Len(T) + Len(p)
      /\ LineEnds(T) \subseteq 1 .. Len(T) /\ LineEnds(p) \subseteq 1 .. Len(p)
  BY <1>1 DEF LineEnds
<1> DEFINE t == Len(T)
           m == Len(p)
<1>6. /\ Len(q) = t + m /\ t \in Nat /\ m \in Nat
      /\ DOMAIN q = 1 .. t + m /\ DOMAIN T = 1 .. t /\ DOMAIN p = 1 .. m
      /\ \A i \in 1 .. t : q[i] = T[i]
      /\ \A i \in 1 .. m : q[t + i] = p[i]
  BY <1>1, <1>2
<1> HIDE DEF t, m
<1>4. ASSUME NEW i \in 1 .. t, i < t
      PROVE  i \in LineEnds(q) <=> i \in LineEnds(T)
  <2>1. i + 1 \in 1 .. t /\ q[i] = T[i] /\ q[i + 1] = T[i + 1]
    BY <1>6, <1>4
  <2>2. i # t /\ i # Len(q) /\ i \in DOMAIN q /\ i \in DOMAIN T
    BY <1>4, <1>6
  <2> QED
    BY <2>1, <2>2 DEF LineEnds, t
<1>5. ASSUME NEW i \in 1 .. m
      PROVE  t + i \in LineEnds(q) <=> i \in LineEnds(p)
  <2>1. q[t + i] = p[i] /\ t + i \in DOMAIN q /\ i \in DOMAIN p
    BY <1>6
  <2>2. t + i = Len(q) <=> i = m
    BY <1>6
  <2>3. i # m => q[(t + i) + 1] = p[i + 1]
    <3>1. i # m => i + 1 \in 1 .. m /\ (t + i) + 1 = t + (i + 1)
      BY <1>6
    <3> QED
      BY <1>6, <3>1
  <2> QED
    BY <2>1, <2>2, <2>3 DEF LineEnds, m
<1> QED
  BY <1>1, <1>3, <1>4, <1>5 DEF q, t, m

\* A piece adds a cut behind itself; the end of the text is a cut no more if the
\* piece goes on with its last line.
LEMMA CutsGrow ==
    ASSUME NEW T \in Text, NEW p \in Text, p # <<>>, Unbroken(p)
    PROVE  /\ Whole(T, p) => Cuts(T \o p) = Cuts(T) \cup {Len(T \o p)}
           /\ ~Whole(T, p) => Cuts(T \o p) = (Cuts(T) \ {Len(T)}) \cup {Len(T \o p)}
<1> DEFINE q == T \o p
           t == Len(T)
           m == Len(p)
<1>1. /\ Len(q) = t + m /\ t \in Nat /\ m \in Nat /\ m # 0
      /\ LineEnds(q) \subseteq 1 .. t + m
      /\ LineEnds(T) \subseteq 1 .. t /\ LineEnds(p) \subseteq {m}
      /\ \A i \in 1 .. t : i < t => (i \in LineEnds(q) <=> i \in LineEnds(T))
      /\ \A i \in 1 .. m : t + i \in LineEnds(q) <=> i \in LineEnds(p)
  <2>1. m # 0
    BY DEF Text
  <2> QED
    BY <2>1, EndsGrow DEF Unbroken
<1>2. /\ Cuts(q) = {0, t + m} \cup LineEnds(q)
      /\ Cuts(T) = {0, t} \cup LineEnds(T)
      /\ Whole(T, p) <=> (t = 0 \/ t \in LineEnds(q))
  <2>1. T = <<>> <=> t = 0
    BY DEF Text
  <2> QED
    BY <1>1, <2>1 DEF Cuts, Whole
<1> DEFINE A == LineEnds(q)
           B == LineEnds(T)
           C == LineEnds(p)
<1> HIDE DEF q, t, m, A, B, C
<1>3. /\ t \in Nat /\ m \in Nat /\ m # 0
      /\ A \subseteq 1 .. t + m /\ B \subseteq 1 .. t /\ C \subseteq {m}
      /\ \A i \in 1 .. t : i < t => (i \in A <=> i \in B)
      /\ \A i \in 1 .. m : t + i \in A <=> i \in C
  BY <1>1 DEF A, B, C
<1>4. ASSUME NEW x \in A
      PROVE  \/ x < t /\ x \in B
             \/ x = t /\ t # 0
             \/ x = t + m
  <2>1. x \in 1 .. t + m
    BY <1>3
  <2>2. CASE x < t
    BY <1>3, <2>1, <2>2
  <2>3. CASE x = t
    BY <2>1, <2>3
  <2>4. CASE t < x
    <3>1. x - t \in 1 .. m /\ t + (x - t) = x
      BY <1>3, <2>1, <2>4
    <3>2. x - t \in C
      BY <1>3, <3>1
    <3>3. x - t = m
      BY <1>3, <3>2
    <3> QED
      BY <3>1, <3>3
  <2> QED
    BY <1>3, <2>1, <2>2, <2>3, <2>4
<1>5. \A x \in B : x \in 1 .. t /\ (x < t => x \in A) /\ (~(x < t) => x = t)
  BY <1>3
<1>6. /\ t = 0 \/ t \in A => {0, t + m} \cup A = ({0, t} \cup B) \cup {t + m}
      /\ ~(t = 0 \/ t \in A) => {0, t + m} \cup A = (({0, t} \cup B) \ {t}) \cup {t + m}
  <2>1. ASSUME t = 0 \/ t \in A
        PROVE  {0, t + m} \cup A = ({0, t} \cup B) \cup {t + m}
    <3>1. \A x \in A : x \in ({0, t} \cup B) \cup {t + m}
      BY <1>4
    <3>2. \A x \in B : x \in {0, t + m} \cup A
      BY <1>5, <2>1
    <3> QED
      BY <2>1, <3>1, <3>2
  <2>2. ASSUME ~(t = 0 \/ t \in A)
        PROVE  {0, t + m} \cup A = (({0, t} \cup B) \ {t}) \cup {t + m}
    <3>1. \A x \in A : x # t /\ x \in {0, t} \cup B \cup {t + m}
      BY <1>4, <2>2
    <3>2. \A x \in B : x # t => x \in A
      BY <1>5
    <3>3. t # 0 /\ t # t + m
      BY <1>3, <2>2
    <3> QED
      BY <3>1, <3>2, <3>3
  <2> QED
    BY <2>1, <2>2
<1> QED
  BY <1>1, <1>2, <1>6 DEF A, B, q, t, m

\* The list of the cuts of a text that grows by a piece.
LEMMA CuttingGrows ==
    ASSUME NEW T \in Text, NEW p \in Text, p # <<>>, Unbroken(p),
           NEW n, NEW P, IsCutting(T, n, P)
    PROVE  /\ Whole(T, p) =>
                IsCutting(T \o p, n + 1,
                          [i \in 0 .. n + 1 |-> IF i = n + 1 THEN Len(T \o p) ELSE P[i]])
           /\ ~Whole(T, p) =>
                /\ n # 0
                /\ IsCutting(T \o p, n,
                             [i \in 0 .. n |-> IF i = n THEN Len(T \o p) ELSE P[i]])
<1> DEFINE q == T \o p
           m == Len(q)
<1>1. /\ n \in Nat /\ P \in [0 .. n -> Nat] /\ P[0] = 0
      /\ \A i \in 1 .. n : P[i - 1] < P[i]
      /\ Cuts(T) = {P[i] : i \in 0 .. n}
  BY DEF IsCutting
<1>2. /\ P[n] = Len(T) /\ n \in 0 .. n
      /\ \A i \in 0 .. n : P[i] <= Len(T)
      /\ \A i \in 0 .. n : P[i] = Len(T) => i = n
  BY LastCut
<1>3. m \in Nat /\ Len(T) \in Nat /\ Len(T) < m
  <2>1. m = Len(T) + Len(p) /\ Len(T) \in Nat /\ Len(p) \in Nat
    BY EndsGrow
  <2>2. Len(p) # 0
    BY DEF Text
  <2> QED
    BY <2>1, <2>2
<1>4. ASSUME Whole(T, p)
      PROVE  IsCutting(q, n + 1, [i \in 0 .. n + 1 |-> IF i = n + 1 THEN m ELSE P[i]])
  <2> DEFINE Q == [i \in 0 .. n + 1 |-> IF i = n + 1 THEN m ELSE P[i]]
  <2>1. Cuts(q) = Cuts(T) \cup {m}
    BY <1>4, CutsGrow
  <2> HIDE DEF q, m
  <2>2. /\ n + 1 \in 0 .. n + 1 /\ 0 \in 0 .. n + 1 /\ 0 # n + 1
        /\ \A i \in 0 .. n : i \in 0 .. n + 1 /\ i # n + 1
        /\ \A i \in 0 .. n + 1 : i = n + 1 \/ i \in 0 .. n
        /\ (n + 1) - 1 = n
    BY <1>1
  <2>3. /\ Q \in [0 .. n + 1 -> Nat] /\ Q[0] = 0 /\ Q[n + 1] = m
        /\ \A i \in 0 .. n : Q[i] = P[i]
    BY <1>1, <1>3, <2>2
  <2> HIDE DEF Q
  <2>4. ASSUME NEW i \in 1 .. n + 1 PROVE Q[i - 1] < Q[i]
    <3>1. CASE i = n + 1
      BY <1>1, <1>2, <1>3, <2>2, <2>3, <3>1
    <3>2. CASE i # n + 1
      <4>1. i \in 1 .. n /\ i \in 0 .. n /\ i - 1 \in 0 .. n
        BY <1>1, <3>2
      <4> QED
        BY <1>1, <2>3, <4>1
    <3> QED
      BY <3>1, <3>2
  <2>5. {Q[i] : i \in 0 .. n + 1} = {P[i] : i \in 0 .. n} \cup {m}
    BY <2>2, <2>3
  <2> QED
    <3>0. n + 1 \in Nat
      BY <1>1
    <3>1. Cuts(q) = {Q[i] : i \in 0 .. n + 1}
      <4>1. Cuts(T) = {P[i] : i \in 0 .. n}
        BY <1>1
      <4> QED
        BY ONLY <2>1, <2>5, <4>1
    <3>2. IsCutting(q, n + 1, Q)
      BY <2>3, <2>4, <3>0, <3>1 DEF IsCutting
    <3> QED
      BY <3>2 DEF Q
<1>5. ASSUME ~Whole(T, p)
      PROVE  n # 0 /\ IsCutting(q, n, [i \in 0 .. n |-> IF i = n THEN m ELSE P[i]])
  <2> DEFINE Q == [i \in 0 .. n |-> IF i = n THEN m ELSE P[i]]
  <2>1. Cuts(q) = (Cuts(T) \ {Len(T)}) \cup {m}
    BY <1>5, CutsGrow
  <2>2. n # 0
    BY <1>5, LastCut DEF Whole
  <2> HIDE DEF q, m
  <2>3. /\ Q \in [0 .. n -> Nat] /\ Q[0] = 0 /\ Q[n] = m
        /\ \A i \in 0 .. n : i # n => Q[i] = P[i]
    BY <1>1, <1>3, <2>2
  <2> HIDE DEF Q
  <2>4. ASSUME NEW i \in 1 .. n PROVE Q[i - 1] < Q[i]
    <3>1. i - 1 \in 0 .. n /\ i - 1 # n /\ i \in 0 .. n
      BY <1>1
    <3>2. /\ Q[i - 1] = P[i - 1] /\ P[i - 1] < P[i] /\ P[i] <= Len(T)
          /\ P[i - 1] \in Nat /\ P[i] \in Nat
      BY <1>1, <1>2, <2>3, <3>1
    <3>3. CASE i = n
      BY <1>3, <2>3, <3>2, <3>3
    <3>4. CASE i # n
      BY <2>3, <3>1, <3>2, <3>4
    <3> QED
      BY <3>3, <3>4
  <2>5. {Q[i] : i \in 0 .. n} = ({P[i] : i \in 0 .. n} \ {Len(T)}) \cup {m}
    BY <1>2, <2>3
  <2> QED
    BY <1>1, <2>1, <2>2, <2>3, <2>4, <2>5 DEF IsCutting, Q
<1> QED
  BY <1>4, <1>5

\* Every text has a list of its cuts.
LEMMA CuttingExists ==
    ASSUME NEW T \in Text
    PROVE  \E n : \E P : IsCutting(T, n, P)
<1> DEFINE N == Len(T)
           S == {k \in 0 .. N : \E n : \E P : IsCutting(SubSeq(T, 1, k), n, P)}
<1>1. /\ N \in Nat /\ \A i \in 1 .. N : T[i] \in Words \cup Ends
  BY DEF Text
<1>2. 0 \in S
  <2>1. SubSeq(T, 1, 0) = <<>>
    BY SubSeqEmpty
  <2>2. Cuts(<<>>) = {0}
    BY DEF Cuts, LineEnds
  <2> DEFINE P == [i \in 0 .. 0 |-> 0]
  <2>3. IsCutting(<<>>, 0, P)
    <3>1. P \in [0 .. 0 -> Nat] /\ P[0] = 0 /\ (\A i \in 1 .. 0 : P[i - 1] < P[i])
      OBVIOUS
    <3>2. {P[i] : i \in 0 .. 0} = {0}
      OBVIOUS
    <3> HIDE DEF P
    <3> QED
      BY <2>2, <3>1, <3>2 DEF IsCutting
  <2> HIDE DEF P
  <2>4. \E n : \E Q : IsCutting(SubSeq(T, 1, 0), n, Q)
    BY <2>1, <2>3
  <2> QED
    BY <1>1, <2>4
<1>3. ASSUME NEW k \in 0 .. (N - 1), k \in S PROVE k + 1 \in S
  <2> DEFINE t == SubSeq(T, 1, k)
             p == <<T[k + 1]>>
  <2>1. k + 1 \in 1 .. N /\ T[k + 1] \in Words \cup Ends
    BY <1>1
  <2>2. t \in Text
    <3>1. \A i \in 1 .. k : T[i] \in Words \cup Ends
      BY <1>1
    <3> QED
      BY <3>1, SubSeqProperties DEF Text
  <2>3. p \in Text /\ p # <<>> /\ Len(p) = 1 /\ DOMAIN p = {1}
    BY <2>1 DEF Text
  <2>4. Unbroken(p)
    BY <2>3 DEF Unbroken, LineEnds
  <2>5. t \o p = SubSeq(T, 1, k + 1)
    <3>1. k \in Nat /\ 1 \in Int /\ k \in Int /\ k + 1 \in Int
      BY <1>1
    <3>2. /\ Len(t) = k /\ t \in Seq(Words \cup Ends)
          /\ \A i \in 1 .. k : t[i] = T[i]
      <4>1. \A i \in 1 .. k : T[i] \in Words \cup Ends
        BY <1>1
      <4> QED
        BY <3>1, <4>1, SubSeqProperties
    <3>3. /\ Len(SubSeq(T, 1, k + 1)) = k + 1
          /\ SubSeq(T, 1, k + 1) \in Seq(Words \cup Ends)
          /\ \A i \in 1 .. k + 1 : SubSeq(T, 1, k + 1)[i] = T[i]
      <4>1. \A i \in 1 .. k + 1 : T[i] \in Words \cup Ends
        BY <1>1
      <4> QED
        BY <3>1, <4>1, SubSeqProperties
    <3>4. p \in Seq(Words \cup Ends) /\ Len(p) = 1 /\ p[1] = T[k + 1]
      BY <2>3 DEF Text
    <3> HIDE DEF t, p
    <3>5. /\ t \o p \in Seq(Words \cup Ends) /\ Len(t \o p) = k + 1
          /\ \A i \in 1 .. k + 1 : (t \o p)[i] = T[i]
      <4>0. /\ t \o p \in Seq(Words \cup Ends)
            /\ Len(t \o p) = Len(t) + Len(p)
            /\ \A i \in 1 .. Len(t) + Len(p) :
                  (t \o p)[i] = IF i <= Len(t) THEN t[i] ELSE p[i - Len(t)]
        BY ONLY <3>2, <3>4, ConcatProperties
      <4>1. t \o p \in Seq(Words \cup Ends) /\ Len(t \o p) = k + 1
        BY <3>2, <3>4, <4>0
      <4>2. \A i \in 1 .. k : (t \o p)[i] = t[i]
        BY <3>1, <3>2, <3>4, <4>0
      <4>3. (t \o p)[k + 1] = p[1]
        <5>1. k + 1 \in 1 .. Len(t) + Len(p) /\ ~(k + 1 <= Len(t)) /\ (k + 1) - Len(t) = 1
          BY <3>1, <3>2, <3>4
        <5> QED
          BY <4>0, <5>1
      <4>4. \A i \in 1 .. k + 1 : i \in 1 .. k \/ i = k + 1
        BY <3>1
      <4> QED
        BY <3>2, <3>4, <4>1, <4>2, <4>3, <4>4
    <3> DEFINE a == t \o p
               b == SubSeq(T, 1, k + 1)
    <3>6. /\ a \in Seq(Words \cup Ends) /\ b \in Seq(Words \cup Ends) /\ Len(a) = Len(b)
          /\ \A i \in 1 .. Len(a) : a[i] = b[i]
      BY <3>3, <3>5
    <3> HIDE DEF a, b
    <3>7. a = b
      BY ONLY <3>6, SeqEqual
    <3> QED
      BY <3>7 DEF a, b
  <2>6. PICK n, P : IsCutting(t, n, P)
    BY <1>3
  <2> HIDE DEF t, p
  <2>7. \E j : \E Q : IsCutting(t \o p, j, Q)
    BY <2>2, <2>3, <2>4, <2>6, CuttingGrows
  <2> QED
    BY <2>1, <2>5, <2>7
<1>4. N \in S
  <2> HIDE DEF S
  <2>1. 0 .. N \subseteq S
    BY <1>1, <1>2, <1>3, SetInduction
  <2> QED
    BY <1>1, <2>1
<1>5. SubSeq(T, 1, N) = T
  BY DEF Text
<1> QED
  BY <1>4, <1>5

\* The lines of a text are what is between its cuts.
LEMMA SplitIs ==
    ASSUME NEW T, NEW n, NEW P, IsCutting(T, n, P)
    PROVE  Split(T) = [k \in 1 .. n |-> SubSeq(T, P[k - 1] + 1, P[k])]
<1> DEFINE C == Cuts(T)
           below(c) == {d \in C : d < c}
           cut(k) == CHOOSE c \in C : Cardinality(below(c)) = k
<1>1. /\ n \in Nat /\ P \in [0 .. n -> Nat]
      /\ \A i \in 1 .. n : P[i - 1] < P[i]
      /\ C = {P[i] : i \in 0 .. n}
  BY DEF IsCutting
<1>2. \A i, j \in 0 .. n : i < j => P[i] < P[j]
  BY <1>1, Growing
<1> HIDE DEF C
<1>3. ASSUME NEW k \in 0 .. n
      PROVE  IsFiniteSet(below(P[k])) /\ Cardinality(below(P[k])) = k
  <2> DEFINE D == 0 .. (k - 1)
             f == [i \in D |-> P[i]]
             B == below(P[k])
  <2>1. k \in Nat /\ D \subseteq 0 .. n /\ \A i \in 0 .. n : i \in D <=> i < k
    BY <1>1
  <2>2. \A i \in 0 .. n : P[i] < P[k] <=> i < k
    <3> SUFFICES ASSUME NEW i \in 0 .. n PROVE P[i] < P[k] <=> i < k
      OBVIOUS
    <3>1. P[i] \in Nat /\ P[k] \in Nat
      BY <1>1
    <3>2. k < i => P[k] < P[i]
      BY <1>2
    <3>3. i < k => P[i] < P[k]
      BY <1>2
    <3> QED
      BY <3>1, <3>2, <3>3
  <2>3. B = {P[i] : i \in D}
    BY <1>1, <2>1, <2>2
  <2>4. \A i, j \in D : P[i] = P[j] => i = j
    <3> SUFFICES ASSUME NEW i \in D, NEW j \in D, P[i] = P[j] PROVE i = j
      OBVIOUS
    <3>1. i \in 0 .. n /\ j \in 0 .. n /\ P[i] \in Nat /\ P[j] \in Nat
      BY <1>1, <2>1
    <3>2. ~(i < j) /\ ~(j < i)
      BY <1>2, <3>1
    <3> QED
      BY <3>1, <3>2
  <2>5. IsFiniteSet(D) /\ Cardinality(D) = k
    <3>1. 0 \in Int /\ k - 1 \in Int
      BY <2>1
    <3> QED
      BY <2>1, <3>1, FS_Interval
  <2> HIDE DEF D, B
  <2>6. f \in Bijection(D, B)
    <3>1. f \in [D -> B] /\ \A i \in D : f[i] = P[i]
      BY <2>3
    <3> HIDE DEF f
    <3>2. f \in Injection(D, B)
      <4>1. \A i, j \in D : f[i] = f[j] => i = j
        BY <2>4, <3>1
      <4> QED
        BY <3>1, <4>1 DEF Injection, IsInjective
    <3>3. f \in Surjection(D, B)
      BY <2>3, <3>1 DEF Surjection
    <3> QED
      BY <3>2, <3>3 DEF Bijection
  <2>7. ExistsBijection(D, B)
    BY <2>6 DEF ExistsBijection
  <2>8. IsFiniteSet(B) /\ Cardinality(B) = k
    BY ONLY <2>5, <2>7, FS_Bijection
  <2> QED
    BY <2>8 DEF B
<1>4. ASSUME NEW k \in 0 .. n PROVE cut(k) = P[k]
  <2>1. P[k] \in C /\ Cardinality(below(P[k])) = k
    BY <1>1, <1>3
  <2>2. ASSUME NEW c \in C, Cardinality(below(c)) = k PROVE c = P[k]
    <3>1. PICK j \in 0 .. n : c = P[j]
      BY <1>1
    <3>2. j = k
      BY <1>3, <2>2, <3>1
    <3> QED
      BY <3>1, <3>2
  <2> HIDE DEF below
  <2> QED
    BY <2>1, <2>2
<1>5. IsFiniteSet(C) /\ Cardinality(C) = n + 1
  <2>1. n \in 0 .. n /\ P[n] \in C
    BY <1>1
  <2>2. IsFiniteSet(below(P[n])) /\ Cardinality(below(P[n])) = n
    BY <1>3, <2>1
  <2>3. C = below(P[n]) \cup {P[n]} /\ P[n] \notin below(P[n])
    <3>1. \A c \in C : c < P[n] \/ c = P[n]
      <4> SUFFICES ASSUME NEW i \in 0 .. n PROVE P[i] < P[n] \/ P[i] = P[n]
        BY <1>1
      <4>1. i < n => P[i] < P[n]
        BY <1>2, <2>1
      <4>2. i < n \/ i = n
        BY <1>1
      <4> QED
        BY <4>1, <4>2
    <3>2. P[n] \in Nat
      BY <1>1, <2>1
    <3> QED
      BY <2>1, <3>1, <3>2
  <2> HIDE DEF below
  <2>4. /\ IsFiniteSet(below(P[n]) \cup {P[n]})
        /\ Cardinality(below(P[n]) \cup {P[n]}) = n + 1
    BY <2>2, <2>3, FS_AddElement
  <2> QED
    BY <2>3, <2>4
<1>6. Split(T) = [k \in 1 .. (Cardinality(C) - 1) |-> SubSeq(T, cut(k - 1) + 1, cut(k))]
  BY DEF Split, C
<1>7. Cardinality(C) - 1 = n
  BY <1>1, <1>5
<1>8. \A k \in 1 .. n : k \in 0 .. n /\ k - 1 \in 0 .. n
  BY <1>1
<1> HIDE DEF cut
<1> QED
  BY <1>4, <1>6, <1>7, <1>8

-----------------------------------------------------------------------------
(* A text that goes on with a piece.                                       *)

LastOf(s) == s[Len(s)]

\* A part of a text is a text.
LEMMA PartOfText ==
    ASSUME NEW T \in Text, NEW a \in Nat, NEW b \in Nat, a < b, b <= Len(T)
    PROVE  /\ SubSeq(T, a + 1, b) \in Text /\ SubSeq(T, a + 1, b) # <<>>
           /\ Len(SubSeq(T, a + 1, b)) = b - a
           /\ \A i \in 1 .. (b - a) : SubSeq(T, a + 1, b)[i] = T[a + i]
<1> DEFINE s == SubSeq(T, a + 1, b)
<1>1. /\ Len(T) \in Nat /\ \A i \in 1 .. Len(T) : T[i] \in Words \cup Ends
  BY DEF Text
<1>2. \A i \in (a + 1) .. b : T[i] \in Words \cup Ends
  BY <1>1
<1>3. a + 1 \in Int /\ b \in Int /\ a + 1 <= b
  OBVIOUS
<1>4. /\ s \in Seq(Words \cup Ends)
      /\ Len(s) = IF a + 1 <= b THEN b - (a + 1) + 1 ELSE 0
      /\ \A i \in 1 .. (b - (a + 1) + 1) : s[i] = T[a + 1 + i - 1]
  BY ONLY <1>2, <1>3, SubSeqProperties
<1>5. b - (a + 1) + 1 = b - a /\ \A i \in 1 .. (b - a) : a + 1 + i - 1 = a + i
  OBVIOUS
<1>6. Len(s) = b - a
  BY <1>3, <1>4, <1>5
<1>7. \A i \in 1 .. (b - a) : s[i] = T[a + i]
  BY <1>4, <1>5
<1>8. s # <<>>
  BY <1>6
<1> HIDE DEF s
<1>9. s \in Text
  BY <1>4 DEF Text
<1> QED
  BY <1>6, <1>7, <1>8, <1>9 DEF s

\* What goes on behind a text leaves its parts as they are.
LEMMA PartStays ==
    ASSUME NEW T \in Text, NEW p \in Text, NEW a \in Nat, NEW b \in Nat, a < b, b <= Len(T)
    PROVE  SubSeq(T \o p, a + 1, b) = SubSeq(T, a + 1, b)
<1> DEFINE q == T \o p
           r == SubSeq(q, a + 1, b)
           s == SubSeq(T, a + 1, b)
<1>1. /\ q \in Text /\ Len(q) = Len(T) + Len(p) /\ Len(T) \in Nat /\ Len(p) \in Nat
      /\ \A i \in 1 .. Len(T) : q[i] = T[i]
  BY DEF Text
<1>2. /\ s \in Text /\ Len(s) = b - a /\ \A i \in 1 .. (b - a) : s[i] = T[a + i]
  BY ONLY T \in Text, a \in Nat, b \in Nat, a < b, b <= Len(T), PartOfText
<1>3. b <= Len(q)
  BY <1>1
<1> HIDE DEF q, r, s
<1>4. /\ r \in Text /\ Len(r) = b - a /\ \A i \in 1 .. (b - a) : r[i] = q[a + i]
  BY ONLY <1>1, <1>3, a \in Nat, b \in Nat, a < b, PartOfText DEF r
<1>5. \A i \in 1 .. (b - a) : r[i] = s[i]
  <2>1. \A i \in 1 .. (b - a) : a + i \in 1 .. Len(T)
    BY <1>1
  <2> QED
    BY <1>1, <1>2, <1>4, <2>1
<1>6. r \in Seq(Words \cup Ends) /\ s \in Seq(Words \cup Ends) /\ Len(r) = Len(s)
  BY <1>2, <1>4 DEF Text
<1>7. \A i \in 1 .. Len(r) : r[i] = s[i]
  BY <1>4, <1>5
<1> QED
  BY ONLY <1>6, <1>7, SeqEqual DEF q, r, s

\* The rest of a text goes on with the piece.
LEMMA RestGoesOn ==
    ASSUME NEW T \in Text, NEW p \in Text, NEW a \in Nat, a < Len(T)
    PROVE  SubSeq(T \o p, a + 1, Len(T \o p)) = SubSeq(T, a + 1, Len(T)) \o p
<1> DEFINE q == T \o p
           t == Len(T)
           m == Len(p)
           r == SubSeq(q, a + 1, Len(q))
           s == SubSeq(T, a + 1, t)
           u == s \o p
<1>1. /\ q \in Text /\ Len(q) = t + m /\ t \in Nat /\ m \in Nat
      /\ \A i \in 1 .. t + m : q[i] = IF i <= t THEN T[i] ELSE p[i - t]
  BY DEF Text
<1> HIDE DEF q
<1>2. /\ s \in Text /\ Len(s) = t - a /\ \A i \in 1 .. (t - a) : s[i] = T[a + i]
  <2>1. t \in Nat /\ a < t /\ t <= Len(T)
    BY <1>1
  <2> HIDE DEF t
  <2> QED
    BY ONLY <2>1, T \in Text, a \in Nat, PartOfText
<1>3. /\ r \in Text /\ Len(r) = t + m - a /\ \A i \in 1 .. (t + m - a) : r[i] = q[a + i]
  <2>1. Len(q) \in Nat /\ a < Len(q) /\ Len(q) <= Len(q)
    BY <1>1
  <2>2. /\ r \in Text /\ Len(r) = Len(q) - a
        /\ \A i \in 1 .. (Len(q) - a) : r[i] = q[a + i]
    BY ONLY <1>1, <2>1, a \in Nat, PartOfText
  <2>3. Len(q) - a = t + m - a
    BY <1>1
  <2> QED
    BY ONLY <2>2, <2>3
<1> HIDE DEF r, s
<1>4. /\ u \in Seq(Words \cup Ends) /\ Len(u) = Len(s) + m
      /\ \A i \in 1 .. Len(s) + m : u[i] = IF i <= Len(s) THEN s[i] ELSE p[i - Len(s)]
  BY ONLY <1>2, p \in Text, ConcatProperties DEF Text
<1> HIDE DEF u, t, m
<1>5. \A i \in 1 .. (t + m - a) : r[i] = u[i]
  <2> SUFFICES ASSUME NEW i \in 1 .. (t + m - a) PROVE r[i] = u[i]
    OBVIOUS
  <2>1. /\ a + i \in 1 .. t + m /\ i \in 1 .. Len(s) + m
        /\ a + i <= t <=> i <= Len(s) /\ (a + i) - t = i - Len(s)
    BY <1>1, <1>2
  <2>2. u[i] = IF i <= Len(s) THEN s[i] ELSE p[i - Len(s)]
    BY <1>4, <2>1
  <2>3. r[i] = IF a + i <= t THEN T[a + i] ELSE p[(a + i) - t]
    BY <1>1, <1>3, <2>1
  <2>4. i <= Len(s) => s[i] = T[a + i]
    BY <1>1, <1>2
  <2>5. (a + i) - t = i - Len(s) /\ (a + i <= t <=> i <= Len(s))
    BY <1>1, <1>2
  <2> QED
    BY ONLY <2>2, <2>3, <2>4, <2>5
<1>6. r \in Seq(Words \cup Ends) /\ u \in Seq(Words \cup Ends) /\ Len(r) = Len(u)
  BY <1>1, <1>2, <1>3, <1>4 DEF Text
<1>7. \A i \in 1 .. Len(r) : r[i] = u[i]
  BY <1>3, <1>5
<1>8. r = u
  BY ONLY <1>6, <1>7, SeqEqual
<1> QED
  BY <1>8 DEF r, u, q, s, t

\* The lines of a text, by its cuts.
LEMMA LinesOf ==
    ASSUME NEW T \in Text, NEW n, NEW P, IsCutting(T, n, P)
    PROVE  /\ n \in Nat /\ Split(T) \in [1 .. n -> Text]
           /\ Split(T) \in Seq(Text) /\ Len(Split(T)) = n
           /\ \A k \in 1 .. n : /\ Split(T)[k] = SubSeq(T, P[k - 1] + 1, P[k])
                                /\ Split(T)[k] # <<>>
           /\ T = <<>> <=> n = 0
           /\ n # 0 => LastOf(Split(T)[n]) = LastOf(T)
<1>1. /\ n \in Nat /\ P \in [0 .. n -> Nat] /\ P[0] = 0
      /\ \A i \in 1 .. n : P[i - 1] < P[i]
  BY DEF IsCutting
<1>2. /\ P[n] = Len(T)
      /\ T # <<>> => n # 0
      /\ \A i \in 0 .. n : P[i] <= Len(T)
      /\ \A i \in 0 .. n : P[i] = Len(T) => i = n
  BY LastCut
<1>3. Split(T) = [k \in 1 .. n |-> SubSeq(T, P[k - 1] + 1, P[k])]
  BY SplitIs
<1>4. ASSUME NEW k \in 1 .. n
      PROVE  /\ SubSeq(T, P[k - 1] + 1, P[k]) \in Text
             /\ SubSeq(T, P[k - 1] + 1, P[k]) # <<>>
             /\ Len(SubSeq(T, P[k - 1] + 1, P[k])) = P[k] - P[k - 1]
             /\ \A i \in 1 .. (P[k] - P[k - 1]) :
                    SubSeq(T, P[k - 1] + 1, P[k])[i] = T[P[k - 1] + i]
  <2>1. k \in 0 .. n /\ k - 1 \in 0 .. n
    BY <1>1
  <2>2. P[k - 1] \in Nat /\ P[k] \in Nat /\ P[k - 1] < P[k] /\ P[k] <= Len(T)
    BY <1>1, <1>2, <2>1
  <2> QED
    BY ONLY T \in Text, <2>2, PartOfText
<1>5. Split(T) \in [1 .. n -> Text]
  BY <1>3, <1>4
<1>6. Split(T) \in Seq(Text)
  BY <1>1, <1>5, SeqDef
<1>7. Len(Split(T)) = n
  <2>1. DOMAIN Split(T) = 1 .. Len(Split(T)) /\ Len(Split(T)) \in Nat
    BY <1>6
  <2>2. DOMAIN Split(T) = 1 .. n
    BY <1>5
  <2> DEFINE l == Len(Split(T))
  <2> HIDE DEF l
  <2>3. l \in Nat /\ 1 .. l = 1 .. n
    BY <2>1, <2>2 DEF l
  <2>4. l = n
    BY <1>1, <2>3
  <2> QED
    BY <2>4 DEF l
<1>8. T = <<>> => n = 0
  <2>1. T = <<>> => P[0] = Len(T)
    BY <1>1
  <2> QED
    BY <1>1, <1>2, <2>1
<1>9. n # 0 => LastOf(Split(T)[n]) = LastOf(T)
  <2> SUFFICES ASSUME n # 0 PROVE LastOf(Split(T)[n]) = LastOf(T)
    OBVIOUS
  <2>1. n \in 1 .. n /\ n \in 0 .. n /\ n - 1 \in 0 .. n
    BY <1>1
  <2>2. P[n - 1] \in Nat /\ P[n] \in Nat /\ P[n - 1] < P[n]
    BY <1>1, <2>1
  <2> DEFINE d == P[n] - P[n - 1]
             s == Split(T)[n]
  <2>3. Len(s) = d /\ \A i \in 1 .. d : s[i] = T[P[n - 1] + i]
    BY <1>3, <1>4, <2>1
  <2>4. d \in 1 .. d /\ P[n - 1] + d = P[n]
    BY <2>2
  <2> HIDE DEF d, s
  <2>5. s[d] = T[P[n]]
    BY <2>3, <2>4
  <2> QED
    BY <1>2, <2>3, <2>5 DEF LastOf, s
<1> QED
  BY <1>1, <1>2, <1>3, <1>4, <1>5, <1>6, <1>7, <1>8, <1>9

\* The lines of a text that goes on: the piece is a new line, or a part of the last.
LEMMA SplitGrows ==
    ASSUME NEW T \in Text, NEW p \in Text, p # <<>>, Unbroken(p)
    PROVE  \E n \in Nat :
             /\ Split(T) \in [1 .. n -> Text] /\ Split(T) \in Seq(Text) /\ Len(Split(T)) = n
             /\ \A k \in 1 .. n : Split(T)[k] # <<>>
             /\ T = <<>> <=> n = 0
             /\ n # 0 => LastOf(Split(T)[n]) = LastOf(T)
             /\ Split(T \o p) \in Seq(Text)
             /\ Whole(T, p) =>
                  /\ Len(Split(T \o p)) = n + 1
                  /\ \A k \in 1 .. n : Split(T \o p)[k] = Split(T)[k]
                  /\ Split(T \o p)[n + 1] = p
             /\ ~Whole(T, p) =>
                  /\ n # 0 /\ Len(Split(T \o p)) = n
                  /\ \A k \in 1 .. (n - 1) : Split(T \o p)[k] = Split(T)[k]
                  /\ Split(T \o p)[n] = Split(T)[n] \o p
<1> DEFINE q == T \o p
           t == Len(T)
<1>1. PICK n, P : IsCutting(T, n, P)
  BY CuttingExists
<1>2. /\ n \in Nat /\ Split(T) \in [1 .. n -> Text]
      /\ Split(T) \in Seq(Text) /\ Len(Split(T)) = n
      /\ \A k \in 1 .. n : Split(T)[k] = SubSeq(T, P[k - 1] + 1, P[k]) /\ Split(T)[k] # <<>>
      /\ T = <<>> <=> n = 0
      /\ n # 0 => LastOf(Split(T)[n]) = LastOf(T)
  BY <1>1, LinesOf
<1>3. /\ P \in [0 .. n -> Nat]
      /\ \A i \in 1 .. n : P[i - 1] < P[i]
  BY <1>1 DEF IsCutting
<1>4. /\ P[n] = t
      /\ \A i \in 0 .. n : P[i] <= t
      /\ \A i \in 0 .. n : P[i] = t => i = n
  BY <1>1, LastCut
<1>5. q \in Text /\ Len(q) = t + Len(p) /\ t \in Nat /\ Len(p) \in Nat
  BY DEF Text
<1> DEFINE A == [i \in 0 .. n + 1 |-> IF i = n + 1 THEN Len(q) ELSE P[i]]
           B == [i \in 0 .. n |-> IF i = n THEN Len(q) ELSE P[i]]
<1>6. /\ Whole(T, p) => IsCutting(q, n + 1, A)
      /\ ~Whole(T, p) => n # 0 /\ IsCutting(q, n, B)
  BY <1>1, CuttingGrows
\* A line of the text stays a line.
<1>7. ASSUME NEW k \in 1 .. n
      PROVE  /\ k \in 0 .. n /\ k - 1 \in 0 .. n /\ k # n + 1 /\ k - 1 # n + 1 /\ k - 1 # n
             /\ P[k - 1] \in Nat /\ P[k] \in Nat /\ P[k - 1] < P[k] /\ P[k] <= t
             /\ SubSeq(q, P[k - 1] + 1, P[k]) = Split(T)[k]
  <2>1. k \in 0 .. n /\ k - 1 \in 0 .. n /\ k # n + 1 /\ k - 1 # n + 1 /\ k - 1 # n
    BY <1>2
  <2>2. P[k - 1] \in Nat /\ P[k] \in Nat /\ P[k - 1] < P[k] /\ P[k] <= t
    BY <1>3, <1>4, <2>1
  <2>3. SubSeq(q, P[k - 1] + 1, P[k]) = SubSeq(T, P[k - 1] + 1, P[k])
    BY ONLY T \in Text, p \in Text, <2>2, PartStays DEF q, t
  <2> QED
    BY <1>2, <2>1, <2>2, <2>3
<1>8. ASSUME Whole(T, p)
      PROVE  /\ Split(q) \in Seq(Text) /\ Len(Split(q)) = n + 1
             /\ \A k \in 1 .. n : Split(q)[k] = Split(T)[k]
             /\ Split(q)[n + 1] = p
  <2> HIDE DEF q
  <2>1. IsCutting(q, n + 1, A)
    BY <1>6, <1>8
  <2>2. /\ Split(q) \in Seq(Text) /\ Len(Split(q)) = n + 1
        /\ \A k \in 1 .. (n + 1) : Split(q)[k] = SubSeq(q, A[k - 1] + 1, A[k])
    <3> HIDE DEF A
    <3> QED
      BY ONLY <1>5, <2>1, LinesOf
  <2>3. ASSUME NEW k \in 1 .. n PROVE Split(q)[k] = Split(T)[k]
    <3>1. k \in 1 .. (n + 1) /\ k \in 0 .. n + 1 /\ k - 1 \in 0 .. n + 1
      BY <1>2
    <3>2. A[k - 1] = P[k - 1] /\ A[k] = P[k]
      BY <1>7, <3>1
    <3> HIDE DEF A
    <3> QED
      BY <1>7, <2>2, <3>1, <3>2
  <2>4. Split(q)[n + 1] = p
    <3>1. n + 1 \in 1 .. (n + 1) /\ n + 1 \in 0 .. n + 1 /\ n \in 0 .. n + 1 /\ (n + 1) - 1 = n
          /\ n # n + 1
      BY <1>2
    <3>2. A[n] = t /\ A[n + 1] = t + Len(p)
      BY <1>4, <1>5, <3>1
    <3> HIDE DEF A
    <3>3. Split(q)[n + 1] = SubSeq(q, t + 1, t + Len(p))
      BY <2>2, <3>1, <3>2
    <3>4. SubSeq(q, t + 1, t + Len(p)) = p
      <4> DEFINE m == Len(p)
                 s == SubSeq(q, t + 1, t + m)
      <4>1. m \in Nat /\ m # 0 /\ \A i \in 1 .. m : q[t + i] = p[i]
        <5>1. \A i \in 1 .. Len(T) + Len(p) :
                  (T \o p)[i] = IF i <= Len(T) THEN T[i] ELSE p[i - Len(T)]
          BY ONLY T \in Text, p \in Text, ConcatProperties DEF Text
        <5>2. ASSUME NEW i \in 1 .. Len(p) PROVE (T \o p)[Len(T) + i] = p[i]
          <6>1. /\ Len(T) + i \in 1 .. Len(T) + Len(p) /\ ~(Len(T) + i <= Len(T))
                /\ (Len(T) + i) - Len(T) = i
            BY <1>5
          <6> QED
            BY ONLY <5>1, <6>1
        <5>3. Len(p) # 0
          BY p # <<>> DEF Text
        <5> QED
          BY ONLY <1>5, <5>2, <5>3 DEF q, t
      <4>2. t + m \in Nat /\ t < t + m /\ t + m <= Len(q) /\ (t + m) - t = m
        BY <1>5, <4>1
      <4>3. /\ s \in Text /\ Len(s) = (t + m) - t
            /\ \A i \in 1 .. ((t + m) - t) : s[i] = q[t + i]
        <5> HIDE DEF m, t
        <5> QED
          BY ONLY <1>5, <4>2, PartOfText
      <4>4. s \in Seq(Words \cup Ends) /\ p \in Seq(Words \cup Ends) /\ Len(s) = Len(p)
        BY <4>2, <4>3 DEF Text
      <4>5. \A i \in 1 .. Len(s) : s[i] = p[i]
        BY <4>1, <4>2, <4>3
      <4> HIDE DEF s
      <4>6. s = p
        BY ONLY <4>4, <4>5, SeqEqual
      <4> QED
        BY <4>6 DEF s
    <3> QED
      BY <3>3, <3>4
  <2> QED
    BY <2>2, <2>3, <2>4
<1>9. ASSUME ~Whole(T, p)
      PROVE  /\ n # 0 /\ Split(q) \in Seq(Text) /\ Len(Split(q)) = n
             /\ \A k \in 1 .. (n - 1) : Split(q)[k] = Split(T)[k]
             /\ Split(q)[n] = Split(T)[n] \o p
  <2> HIDE DEF q
  <2>1. n # 0 /\ IsCutting(q, n, B)
    BY <1>6, <1>9
  <2>2. /\ Split(q) \in Seq(Text) /\ Len(Split(q)) = n
        /\ \A k \in 1 .. n : Split(q)[k] = SubSeq(q, B[k - 1] + 1, B[k])
    <3> HIDE DEF B
    <3> QED
      BY ONLY <1>5, <2>1, LinesOf
  <2>3. ASSUME NEW k \in 1 .. (n - 1) PROVE Split(q)[k] = Split(T)[k]
    <3>1. k \in 1 .. n /\ k # n
      BY <1>2
    <3>2. B[k - 1] = P[k - 1] /\ B[k] = P[k]
      BY <1>7, <3>1
    <3> HIDE DEF B
    <3> QED
      BY <1>7, <2>2, <3>1, <3>2
  <2>4. Split(q)[n] = Split(T)[n] \o p
    <3>1. n \in 1 .. n /\ n \in 0 .. n
      BY <1>2, <2>1
    <3>2. B[n - 1] = P[n - 1] /\ B[n] = Len(q) /\ P[n - 1] \in Nat /\ P[n - 1] < t
      BY <1>4, <1>7, <3>1
    <3> HIDE DEF B
    <3>3. Split(q)[n] = SubSeq(q, P[n - 1] + 1, Len(q))
      BY <2>2, <3>1, <3>2
    <3>4. SubSeq(q, P[n - 1] + 1, Len(q)) = SubSeq(T, P[n - 1] + 1, t) \o p
      BY ONLY T \in Text, p \in Text, <3>2, RestGoesOn DEF q, t
    <3>5. Split(T)[n] = SubSeq(T, P[n - 1] + 1, t)
      BY <1>2, <1>4, <3>1
    <3> QED
      BY <3>3, <3>4, <3>5
  <2> QED
    BY <2>1, <2>2, <2>3, <2>4
<1>10. Split(q) \in Seq(Text)
  BY <1>8, <1>9
<1> QED
  BY <1>2, <1>8, <1>9, <1>10

-----------------------------------------------------------------------------
(* Lines without their ends, and their scores.                             *)

\* The last place of a word in a line, 0 without one.
LastWord(line) == Max({0} \cup {i \in DOMAIN line : line[i] \in Words})

\* A set of numbers up to n has a greatest.
LEMMA GreatestUpTo ==
    ASSUME NEW n \in Nat, NEW S \in SUBSET (0 .. n), S # {}
    PROVE  /\ Max(S) \in S
           /\ \A y \in S : y <= Max(S)
<1>1. S \in SUBSET Int /\ IsFiniteSet(S)
  <2>1. IsFiniteSet(0 .. n)
    BY FS_Interval
  <2>2. S \in SUBSET (0 .. n) /\ S \in SUBSET Int
    OBVIOUS
  <2>3. IsFiniteSet(S)
    BY ONLY <2>1, <2>2, FS_Subset
  <2> QED
    BY <2>2, <2>3
<1>2. \E m \in S : \A y \in S : y <= m
  BY ONLY <1>1, S # {}, LeastAndGreatest
<1>3. \E m \in S : \A y \in S : m >= y
  BY <1>1, <1>2
<1>4. Max(S) \in S /\ \A y \in S : Max(S) >= y
  BY <1>3 DEF Max
<1> QED
  BY <1>1, <1>4

\* What the place of the last word of a text is.
LEMMA LastWordFacts ==
    ASSUME NEW z \in Text
    PROVE  /\ Strip(z) = SubSeq(z, 1, LastWord(z))
           /\ LastWord(z) \in 0 .. Len(z) /\ Len(z) \in Nat
           /\ LastWord(z) # 0 => z[LastWord(z)] \in Words
           /\ \A i \in 1 .. Len(z) : z[i] \in Words => i <= LastWord(z)
<1> DEFINE S == {0} \cup {i \in DOMAIN z : z[i] \in Words}
<1>1. Len(z) \in Nat /\ DOMAIN z = 1 .. Len(z)
  BY DEF Text
<1>2. S \in SUBSET (0 .. Len(z)) /\ S # {}
  BY <1>1
<1>3. Max(S) \in S /\ \A y \in S : y <= Max(S)
  <2> HIDE DEF S
  <2> QED
    BY ONLY <1>1, <1>2, GreatestUpTo
<1>4. LastWord(z) = Max(S) /\ Strip(z) = SubSeq(z, 1, Max(S))
  BY DEF LastWord, Strip
<1> DEFINE m == Max(S)
<1> HIDE DEF m
<1>5. m \in S /\ (\A y \in S : y <= m) /\ LastWord(z) = m /\ Strip(z) = SubSeq(z, 1, m)
  BY <1>3, <1>4 DEF m
<1> QED
  BY <1>1, <1>5

\* Before the end of an unbroken piece there are only words, but for a \r before a \n.
LEMMA UnbrokenWords ==
    ASSUME NEW p \in Text, Unbroken(p), NEW i \in 1 .. Len(p), NEW j \in 1 .. Len(p),
           i < j, p[j] \in Words
    PROVE  p[i] \in Words
<1>1. Len(p) \in Nat /\ DOMAIN p = 1 .. Len(p) /\ \A k \in 1 .. Len(p) : p[k] \in Words \cup Ends
  BY DEF Text
<1>2. \A k \in 1 .. Len(p) : k # Len(p) => k \notin LineEnds(p)
  BY DEF Unbroken
<1>3. i # Len(p) /\ i + 1 \in 1 .. Len(p)
  <2> DEFINE n == Len(p)
  <2>1. n \in Nat /\ i \in 1 .. n /\ j \in 1 .. n
    BY <1>1
  <2> HIDE DEF n
  <2>2. i # n /\ i + 1 \in 1 .. n
    BY ONLY <2>1, i < j
  <2> QED
    BY <2>2 DEF n
<1> SUFFICES ASSUME p[i] \in Ends PROVE FALSE
  BY <1>1
<1>4. i \notin LineEnds(p)
  BY <1>2, <1>3
<1>5. p[i] # NewLine /\ p[i + 1] = NewLine
  BY <1>1, <1>3, <1>4 DEF LineEnds, Ends
<1>6. i + 1 \in LineEnds(p)
  BY <1>1, <1>3, <1>5 DEF LineEnds
<1>7. i + 1 = Len(p)
  BY <1>2, <1>3, <1>6
<1>8. j = i + 1
  BY <1>1, <1>7
<1>9. p[j] \in Ends
  BY <1>5, <1>8 DEF Ends
<1> QED
  BY <1>9, FileAssumption

\* Without its end, an unbroken piece is words.
LEMMA StripUnbroken ==
    ASSUME NEW p \in Text, Unbroken(p)
    PROVE  Strip(p) \in Seq(Words)
<1> DEFINE m == LastWord(p)
<1>1. /\ Strip(p) = SubSeq(p, 1, m)
      /\ m \in 0 .. Len(p) /\ Len(p) \in Nat
      /\ m # 0 => p[m] \in Words
  BY LastWordFacts
<1> HIDE DEF m
<1>2. \A i \in 1 .. m : p[i] \in Words
  <2> SUFFICES ASSUME NEW i \in 1 .. m PROVE p[i] \in Words
    OBVIOUS
  <2>1. i \in 1 .. Len(p) /\ m \in 1 .. Len(p) /\ p[m] \in Words
    BY <1>1
  <2>2. i = m \/ i < m
    BY <1>1
  <2>3. i < m => p[i] \in Words
    BY <2>1, UnbrokenWords
  <2> QED
    BY <2>1, <2>2, <2>3
<1>3. 1 \in Int /\ m \in Int
  BY <1>1
<1> QED
  BY <1>1, <1>2, <1>3, SubSeqProperties

\* A piece whose last symbol is a word is words.
LEMMA IncompleteWords ==
    ASSUME NEW p \in Text, p # <<>>, Unbroken(p), ~Complete(p)
    PROVE  p \in Seq(Words)
<1>1. Len(p) \in Nat /\ Len(p) # 0 /\ \A k \in 1 .. Len(p) : p[k] \in Words \cup Ends
  BY DEF Text
<1>2. Len(p) \in 1 .. Len(p) /\ p[Len(p)] \in Words
  BY <1>1 DEF Complete
<1>3. \A i \in 1 .. Len(p) : p[i] \in Words
  <2> SUFFICES ASSUME NEW i \in 1 .. Len(p) PROVE p[i] \in Words
    OBVIOUS
  <2>1. i = Len(p) \/ i < Len(p)
    BY <1>1
  <2>2. i < Len(p) => p[i] \in Words
    BY <1>2, UnbrokenWords
  <2> QED
    BY <1>2, <2>1, <2>2
<1>4. p = [k \in 1 .. Len(p) |-> p[k]]
  BY DEF Text
<1>5. p \in [1 .. Len(p) -> Words]
  BY <1>3, <1>4
<1> QED
  BY <1>1, <1>5, SeqDef

\* Words go on with an unbroken piece, unbroken.
LEMMA JoinUnbroken ==
    ASSUME NEW x \in Seq(Words), NEW p \in Text, Unbroken(p)
    PROVE  x \o p \in Text /\ Unbroken(x \o p) /\ x \in Text
<1>1. x \in Text /\ \A i \in 1 .. Len(x) : x[i] \in Words
  BY DEF Text
<1> DEFINE q == x \o p
           n == Len(x)
           m == Len(p)
<1>2. /\ q \in Text /\ Len(q) = n + m /\ n \in Nat /\ m \in Nat
      /\ LineEnds(q) \subseteq 1 .. n + m
      /\ LineEnds(p) \subseteq 1 .. m
      /\ \A i \in 1 .. m : n + i \in LineEnds(q) <=> i \in LineEnds(p)
  BY ONLY <1>1, p \in Text, EndsGrow DEF q, n, m
<1>3. \A i \in 1 .. n : q[i] \in Words
  BY <1>1 DEF Text
<1>4. \A i \in 1 .. n : i \notin LineEnds(q)
  <2>1. \A i \in 1 .. n : q[i] # NewLine /\ q[i] # Return
    BY <1>3, FileAssumption DEF Ends
  <2> HIDE DEF q
  <2> QED
    BY <2>1 DEF LineEnds
<1> HIDE DEF q, n, m
<1>5. ASSUME NEW i \in LineEnds(q) PROVE i = n + m
  <2>1. i \in 1 .. n + m /\ i \notin 1 .. n
    BY <1>2, <1>4
  <2>2. i - n \in 1 .. m /\ n + (i - n) = i
    BY <1>2, <2>1
  <2>3. i - n \in LineEnds(p)
    BY <1>2, <2>2
  <2>4. i - n = m
    BY <2>3 DEF Unbroken, m
  <2> QED
    BY <1>2, <2>1, <2>4
<1> QED
  BY <1>1, <1>2, <1>5 DEF Unbroken, q

\* The end of a line is stripped.
LEMMA StripBehind ==
    ASSUME NEW z \in Text, NEW e \in Ends
    PROVE  Strip(z \o <<e>>) = Strip(z)
<1> DEFINE q == z \o <<e>>
           V == {0} \cup {i \in DOMAIN q : q[i] \in Words}
           W == {0} \cup {i \in DOMAIN z : z[i] \in Words}
<1>0. <<e>> \in Text /\ Len(<<e>>) = 1 /\ <<e>>[1] = e
  BY DEF Text
<1>1. /\ Len(z) \in Nat /\ DOMAIN z = 1 .. Len(z)
      /\ Len(q) = Len(z) + 1 /\ DOMAIN q = 1 .. Len(z) + 1
      /\ \A i \in 1 .. Len(z) : q[i] = z[i]
      /\ q[Len(z) + 1] = e
  BY DEF Text
<1>2. e \notin Words
  BY FileAssumption
<1>3. V = W
  <2>1. \A i \in 1 .. Len(z) + 1 : i \in 1 .. Len(z) \/ i = Len(z) + 1
    BY <1>1
  <2>2. \A i \in 1 .. Len(z) : i \in 1 .. Len(z) + 1
    BY <1>1
  <2> HIDE DEF q
  <2> QED
    BY <1>1, <1>2, <2>1, <2>2
<1>4. Strip(q) = SubSeq(q, 1, Max(V)) /\ Strip(z) = SubSeq(z, 1, Max(W))
  BY DEF Strip
<1> DEFINE m == LastWord(z)
<1>5. Max(W) = m /\ m \in 0 .. Len(z)
  <2>1. Max(W) = LastWord(z)
    BY DEF LastWord
  <2>2. LastWord(z) \in 0 .. Len(z)
    BY LastWordFacts
  <2> QED
    BY <2>1, <2>2
<1> HIDE DEF q, V, W, m
<1>6. Strip(q) = SubSeq(q, 1, m) /\ Strip(z) = SubSeq(z, 1, m)
  BY <1>3, <1>4, <1>5
<1>7. CASE m = 0
  <2>1. SubSeq(q, 1, 0) = <<>> /\ SubSeq(z, 1, 0) = <<>>
    BY SubSeqEmpty
  <2> QED
    BY <1>6, <1>7, <2>1 DEF q
<1>8. CASE m # 0
  <2>1. 0 \in Nat /\ m \in Nat /\ 0 < m /\ m <= Len(z) /\ 0 + 1 = 1
    BY <1>1, <1>5, <1>8
  <2>2. SubSeq(z \o <<e>>, 0 + 1, m) = SubSeq(z, 0 + 1, m)
    BY ONLY <1>0, <2>1, z \in Text, PartStays
  <2> QED
    BY <1>6, <2>1, <2>2 DEF q
<1> QED
  BY <1>7, <1>8

\* The end of a line alone is stripped to nothing.
LEMMA StripEnd == ASSUME NEW e \in Ends PROVE Strip(<<e>>) = <<>>
<1>1. Strip(<<>> \o <<e>>) = Strip(<<>>)
  <2>1. <<>> \in Text
    BY DEF Text
  <2> QED
    BY ONLY e \in Ends, <2>1, StripBehind
<1>2. <<>> \o <<e>> = <<e>>
  OBVIOUS
<1>3. Strip(<<>>) = <<>>
  <2>1. <<>> \in Text
    BY DEF Text
  <2>2. Strip(<<>>) = SubSeq(<<>>, 1, LastWord(<<>>)) /\ LastWord(<<>>) \in 0 .. Len(<<>>)
    BY ONLY <2>1, LastWordFacts
  <2>3. LastWord(<<>>) = 0
    BY <2>2
  <2>4. SubSeq(<<>>, 1, 0) = <<>>
    BY SubSeqEmpty
  <2> QED
    BY <2>2, <2>3, <2>4
<1> QED
  BY <1>1, <1>2, <1>3

\* A line of words has a score.
LEMMA LineHasScore ==
    ASSUME NEW line \in Seq(Words), line # <<>>
    PROVE  LineScore(line) \in Int
<1> DEFINE D == 1 .. Len(line)
           scores == {Weight[w] : w \in WordsOf(line)}
           M == {Magnitude(s) : s \in scores}
           f == [i \in D |-> Magnitude(Weight[line[i]])]
<1>1. Len(line) \in Nat /\ Len(line) # 0 /\ DOMAIN line = D /\ \A i \in D : line[i] \in Words
  OBVIOUS
<1>2. WordsOf(line) = {line[i] : i \in D} /\ WordsOf(line) \subseteq Words
  BY <1>1 DEF WordsOf
<1>3. scores \subseteq Int
  BY <1>2, LineScoreAssumption
<1>4. \A s \in scores : Magnitude(s) \in Int
  BY <1>3 DEF Magnitude
<1>5. f \in Surjection(D, M)
  <2>1. \A i \in D : f[i] \in M
    BY <1>2
  <2>2. f \in [D -> M]
    BY <2>1
  <2>3. \A m \in M : \E i \in D : f[i] = m
    BY <1>2
  <2> HIDE DEF D, M, f
  <2> QED
    BY <2>2, <2>3 DEF Surjection
<1>6. IsFiniteSet(M) /\ M \in SUBSET Int /\ M # {}
  <2>1. IsFiniteSet(D)
    BY <1>1, FS_Interval
  <2>2. M \in SUBSET Int
    BY <1>4
  <2>3. M # {}
    <3>1. 1 \in D
      BY <1>1
    <3>2. line[1] \in WordsOf(line)
      BY <1>2, <3>1
    <3> QED
      BY <3>2
  <2> HIDE DEF D, M, f
  <2>4. IsFiniteSet(M)
    BY ONLY <1>5, <2>1, FS_Surjection
  <2> QED
    BY <2>2, <2>3, <2>4
<1>7. PICK m \in M : \A o \in M : o <= m
  <2> HIDE DEF M
  <2> QED
    BY ONLY <1>6, LeastAndGreatest
<1>8. \E s \in scores : \A other \in scores : Magnitude(other) <= Magnitude(s)
  BY <1>7
<1>9. LineScore(line) = CHOOSE s \in scores : \A other \in scores : Magnitude(other) <= Magnitude(s)
  BY DEF LineScore
<1> HIDE DEF scores
<1>10. LineScore(line) \in scores
  BY <1>8, <1>9
<1> QED
  BY <1>3, <1>10

-----------------------------------------------------------------------------
(* What is counted of a text.                                              *)

CompleteIn(T) == {i \in DOMAIN Split(T) : Complete(Split(T)[i])}
ScoredIn(T) == {i \in CompleteIn(T) : ~IsIgnored(Strip(Split(T)[i]))}
ScoreIn(T) == MapThenSumSet(LAMBDA i : LineScore(Strip(Split(T)[i])), ScoredIn(T))

\* Every line that counts has a score.
Readable(T) == \A i \in ScoredIn(T) : LineScore(Strip(Split(T)[i])) \in Int

\* The text ends within a line, which is the last one; the line that a piece ends.
EndsOpen(T) == T # <<>> /\ LastOf(T) \notin Ends
LastLine(T) == LastOf(Split(T))
LineWith(T, p) == IF EndsOpen(T) THEN LastLine(T) \o p ELSE p

\* A text has finitely many lines to count.
LEMMA FinitelyMany ==
    ASSUME NEW T \in Text
    PROVE  /\ IsFiniteSet(CompleteIn(T)) /\ IsFiniteSet(ScoredIn(T))
           /\ Cardinality(CompleteIn(T)) \in Nat /\ Cardinality(ScoredIn(T)) \in Nat
<1>1. PICK n, P : IsCutting(T, n, P)
  BY CuttingExists
<1>2. n \in Nat /\ DOMAIN Split(T) = 1 .. n
  BY <1>1, LinesOf
<1>3. IsFiniteSet(DOMAIN Split(T))
  BY <1>2, FS_Interval
<1>4. IsFiniteSet(CompleteIn(T))
  <2>1. CompleteIn(T) \in SUBSET DOMAIN Split(T)
    BY DEF CompleteIn
  <2> QED
    BY ONLY <1>3, <2>1, FS_Subset
<1>5. IsFiniteSet(ScoredIn(T))
  <2>1. ScoredIn(T) \in SUBSET CompleteIn(T)
    BY DEF ScoredIn
  <2> QED
    BY ONLY <1>4, <2>1, FS_Subset
<1> QED
  BY <1>4, <1>5, FS_CardinalityType

\* The scores of the scored lines.
Scores(T) == [i \in ScoredIn(T) |-> LineScore(Strip(Split(T)[i]))]

\* The score of a text is the total of those.
LEMMA ScoreIsTotal ==
    ASSUME NEW T \in Text, Readable(T)
    PROVE  ScoreIn(T) = Total(Scores(T), ScoredIn(T))
<1> DEFINE S == ScoredIn(T)
           L == Split(T)
           f == Scores(T)
           G(it) == [s \in SUBSET S |->
                       IF s = {} THEN 0 ELSE LineScore(Strip(L[Some(s)])) + it[s \ {Some(s)}]]
           b == CHOOSE it : it = G(it)
<1>1. ScoreIn(T) = b[S]
  BY DEF ScoreIn, MapThenSumSet, MapThenFoldSet, Some
<1>2. IsFiniteSet(S) /\ \A x \in S : f[x] \in Int
  BY FinitelyMany DEF Readable, Scores
<1>3. ASSUME NEW it PROVE it = G(it) <=> AddsUp(it, f, S)
  <2>1. ASSUME NEW s \in SUBSET S, s # {} PROVE LineScore(Strip(L[Some(s)])) = f[Some(s)]
    BY <2>1, SomeFacts DEF Scores
  <2> HIDE DEF f, S, L
  <2>2. G(it) = [s \in SUBSET S |->
                   IF s = {} THEN 0 ELSE f[Some(s)] + it[s \ {Some(s)}]]
    BY <2>1
  <2> QED
    BY <2>2 DEF AddsUp
<1> HIDE DEF f, G, S, L
<1>5. PICK a : AddsUp(a, f, S) /\ Total(f, S) = a[S]
  BY ONLY <1>2, TotalAddsUp
<1>6. AddsUp(b, f, S)
  BY <1>3, <1>5
<1> HIDE DEF b
<1>7. a[S] = b[S]
  BY ONLY <1>2, <1>5, <1>6, SameSum
<1> QED
  BY <1>1, <1>5, <1>7 DEF f, S

\* The empty text.
LEMMA EmptyText ==
    /\ CompleteIn(<<>>) = {} /\ ScoredIn(<<>>) = {} /\ Readable(<<>>)
    /\ ScoreIn(<<>>) = 0 /\ ~EndsOpen(<<>>)
<1>1. <<>> \in Text
  BY DEF Text
<1>2. PICK n, P : IsCutting(<<>>, n, P)
  BY <1>1, CuttingExists
<1>3. n \in Nat /\ DOMAIN Split(<<>>) = 1 .. n /\ n = 0
  BY <1>1, <1>2, LinesOf
<1>4. CompleteIn(<<>>) = {} /\ ScoredIn(<<>>) = {} /\ Readable(<<>>)
  BY <1>3 DEF CompleteIn, ScoredIn, Readable
<1>5. ScoreIn(<<>>) = Total(Scores(<<>>), {})
  BY <1>1, <1>4, ScoreIsTotal
<1>6. Total(Scores(<<>>), {}) = 0
  <2>1. IsFiniteSet({}) /\ \A x \in {} : Scores(<<>>)[x] \in Int
    BY FS_EmptySet
  <2> QED
    BY <2>1, TotalFacts
<1> QED
  BY <1>4, <1>5, <1>6 DEF EndsOpen

\* A piece without an end of a line changes nothing of what is counted.
LEMMA PieceWithoutEnd ==
    ASSUME NEW T \in Text, NEW p \in Text, p # <<>>, Unbroken(p), ~Complete(p)
    PROVE  /\ CompleteIn(T \o p) = CompleteIn(T)
           /\ \A i \in CompleteIn(T) : Split(T \o p)[i] = Split(T)[i]
           /\ EndsOpen(T \o p)
           /\ LastLine(T \o p) = LineWith(T, p)
<1> DEFINE q == T \o p
           t == Len(T)
           m == Len(p)
<1>1. /\ q \in Text /\ Len(q) = t + m /\ t \in Nat /\ m \in Nat /\ m # 0
      /\ DOMAIN q = 1 .. t + m
      /\ \A i \in 1 .. t + m : q[i] = IF i <= t THEN T[i] ELSE p[i - t]
  BY DEF Text
<1>2. p \in Seq(Words) /\ \A i \in 1 .. m : p[i] \in Words
  BY IncompleteWords
<1> HIDE DEF q, t, m
<1>3. LastOf(q) = p[m] /\ q # <<>> /\ p[m] \notin Ends
  <2>1. t + m \in 1 .. t + m /\ ~(t + m <= t) /\ (t + m) - t = m /\ m \in 1 .. m
    BY <1>1
  <2>2. q[t + m] = p[m] /\ p[m] \in Words
    BY <1>1, <1>2, <2>1
  <2>3. q # <<>>
    BY <1>1, <2>1
  <2> QED
    BY <1>1, <2>2, <2>3, FileAssumption DEF LastOf
<1>4. T # <<>> => (t \in LineEnds(q) <=> LastOf(T) \in Ends)
  <2> SUFFICES ASSUME T # <<>> PROVE t \in LineEnds(q) <=> LastOf(T) \in Ends
    OBVIOUS
  <2>1. t # 0
    BY DEF Text, t
  <2>2. /\ t \in 1 .. t + m /\ t + 1 \in 1 .. t + m /\ t <= t /\ ~(t + 1 <= t) /\ (t + 1) - t = 1
        /\ 1 \in 1 .. m /\ t # t + m
    BY <1>1, <2>1
  <2>3. q[t] = T[t] /\ q[t + 1] = p[1] /\ p[1] # NewLine
    BY <1>1, <1>2, <2>2, FileAssumption DEF Ends
  <2>4. t \in LineEnds(q) <=> q[t] = NewLine \/ q[t] = Return
    BY <1>1, <2>2, <2>3 DEF LineEnds
  <2> QED
    BY <2>3, <2>4 DEF LastOf, t, Ends
<1>5. Whole(T, p) <=> ~EndsOpen(T)
  BY <1>4 DEF Whole, EndsOpen, q, t
<1>6. PICK n \in Nat :
        /\ Split(T) \in [1 .. n -> Text] /\ Split(T) \in Seq(Text) /\ Len(Split(T)) = n
        /\ \A k \in 1 .. n : Split(T)[k] # <<>>
        /\ T = <<>> <=> n = 0
        /\ n # 0 => LastOf(Split(T)[n]) = LastOf(T)
        /\ Split(q) \in Seq(Text)
        /\ Whole(T, p) =>
             /\ Len(Split(q)) = n + 1
             /\ \A k \in 1 .. n : Split(q)[k] = Split(T)[k]
             /\ Split(q)[n + 1] = p
        /\ ~Whole(T, p) =>
             /\ n # 0 /\ Len(Split(q)) = n
             /\ \A k \in 1 .. (n - 1) : Split(q)[k] = Split(T)[k]
             /\ Split(q)[n] = Split(T)[n] \o p
  BY SplitGrows DEF q
<1> DEFINE L == Split(T)
           K == Split(q)
<1>7. DOMAIN L = 1 .. n /\ DOMAIN K = 1 .. Len(K) /\ LastLine(q) = K[Len(K)] /\ LastLine(T) = L[n]
  BY <1>6 DEF LastLine, LastOf
<1>8. /\ CompleteIn(T) = {i \in 1 .. n : Complete(L[i])}
      /\ CompleteIn(q) = {i \in 1 .. Len(K) : Complete(K[i])}
  BY <1>7 DEF CompleteIn
<1>9. CASE Whole(T, p)
  <2>1. Len(K) = n + 1 /\ (\A k \in 1 .. n : K[k] = L[k]) /\ K[n + 1] = p
    BY <1>6, <1>9
  <2>2. \A k \in 1 .. n + 1 : k \in 1 .. n \/ k = n + 1
    BY <1>6
  <2>3. \A k \in 1 .. n : k \in 1 .. n + 1
    BY <1>6
  <2> HIDE DEF L, K
  <2>4. CompleteIn(q) = CompleteIn(T) /\ \A i \in CompleteIn(T) : K[i] = L[i]
    BY <1>8, <2>1, <2>2, <2>3
  <2>5. LastLine(q) = LineWith(T, p)
    BY <1>5, <1>7, <1>9, <2>1 DEF LineWith
  <2> QED
    BY <1>3, <2>4, <2>5 DEF EndsOpen, q, L, K
<1>10. CASE ~Whole(T, p)
  <2>1. n # 0 /\ Len(K) = n /\ (\A k \in 1 .. (n - 1) : K[k] = L[k]) /\ K[n] = L[n] \o p
    BY <1>6, <1>10
  <2>2. \A k \in 1 .. n : k \in 1 .. (n - 1) \/ k = n
    BY <1>6
  <2>3. n \in 1 .. n
    BY <1>6, <2>1
  <2>4. ~Complete(L[n])
    BY <1>5, <1>6, <1>10, <2>1 DEF Complete, LastOf, EndsOpen
  <2>5. ~Complete(K[n])
    <3> DEFINE l == L[n]
    <3>1. l \in Text
      BY <1>6, <2>3
    <3> HIDE DEF l
    <3>2. Len(l \o p) = Len(l) + m /\ Len(l) \in Nat /\ (l \o p)[Len(l) + m] = p[m]
      <4>1. /\ Len(l) \in Nat /\ Len(l \o p) = Len(l) + Len(p)
            /\ \A i \in 1 .. Len(l) + Len(p) :
                  (l \o p)[i] = IF i <= Len(l) THEN l[i] ELSE p[i - Len(l)]
        BY <3>1 DEF Text
      <4> DEFINE a == Len(l)
      <4>2. a \in Nat
        BY <4>1
      <4> HIDE DEF a
      <4>3. a + m \in 1 .. a + m /\ ~(a + m <= a) /\ (a + m) - a = m
        BY <1>1, <4>2
      <4>4. (l \o p)[a + m] = p[m]
        BY <4>1, <4>3 DEF a, m
      <4> QED
        BY <4>1, <4>4 DEF a, m
    <3> QED
      BY <1>3, <2>1, <3>2 DEF Complete, l
  <2> HIDE DEF L, K
  <2>6. CompleteIn(q) = CompleteIn(T) /\ \A i \in CompleteIn(T) : K[i] = L[i]
    BY <1>8, <2>1, <2>2, <2>4, <2>5
  <2>7. LastLine(q) = LineWith(T, p)
    BY <1>5, <1>7, <1>10, <2>1 DEF LineWith
  <2> QED
    BY <1>3, <2>6, <2>7 DEF EndsOpen, q, L, K
<1> QED
  BY <1>9, <1>10

\* A piece with an end of a line completes one line, or it is the \n of the \r\n that
\* a read has cut in two.
LEMMA PieceWithEnd ==
    ASSUME NEW T \in Text, NEW p \in Text, p # <<>>, Unbroken(p), Complete(p)
    PROVE  /\ ~EndsOpen(T \o p)
           /\ \/ \E k : /\ k \notin CompleteIn(T)
                        /\ CompleteIn(T \o p) = CompleteIn(T) \cup {k}
                        /\ \A i \in CompleteIn(T) : Split(T \o p)[i] = Split(T)[i]
                        /\ Split(T \o p)[k] = LineWith(T, p)
              \/ /\ ~EndsOpen(T) /\ T # <<>> /\ LastOf(T) = Return /\ p = <<NewLine>>
                 /\ CompleteIn(T \o p) = CompleteIn(T)
                 /\ \A i \in CompleteIn(T) :
                        Strip(Split(T \o p)[i]) = Strip(Split(T)[i])
<1> DEFINE q == T \o p
           t == Len(T)
           m == Len(p)
<1>1. /\ q \in Text /\ Len(q) = t + m /\ t \in Nat /\ m \in Nat /\ m # 0
      /\ DOMAIN q = 1 .. t + m
      /\ \A i \in 1 .. t + m : q[i] = IF i <= t THEN T[i] ELSE p[i - t]
  BY DEF Text
<1> HIDE DEF q, t, m
<1>2. p[m] \in Ends
  BY DEF Complete, m
<1>3. LastOf(q) = p[m] /\ q # <<>>
  <2>1. t + m \in 1 .. t + m /\ ~(t + m <= t) /\ (t + m) - t = m
    BY <1>1
  <2>2. q[t + m] = p[m]
    BY <1>1, <2>1
  <2>3. q # <<>>
    BY <1>1, <2>1
  <2> QED
    BY <1>1, <2>2, <2>3 DEF LastOf
<1>4. T # <<>> => (t \in LineEnds(q) <=>
                      LastOf(T) = NewLine \/ (LastOf(T) = Return /\ p[1] # NewLine))
  <2> SUFFICES ASSUME T # <<>>
               PROVE  t \in LineEnds(q) <=>
                        LastOf(T) = NewLine \/ (LastOf(T) = Return /\ p[1] # NewLine)
    OBVIOUS
  <2>1. t # 0
    BY DEF Text, t
  <2>2. /\ t \in 1 .. t + m /\ t + 1 \in 1 .. t + m /\ t <= t /\ ~(t + 1 <= t) /\ (t + 1) - t = 1
        /\ t # t + m
    BY <1>1, <2>1
  <2>3. q[t] = T[t] /\ q[t + 1] = p[1]
    BY <1>1, <2>2
  <2>4. t \in LineEnds(q) <=> q[t] = NewLine \/ (q[t] = Return /\ q[t + 1] # NewLine)
    BY <1>1, <2>2 DEF LineEnds
  <2> QED
    BY <2>3, <2>4 DEF LastOf, t
<1>5. PICK n \in Nat :
        /\ Split(T) \in [1 .. n -> Text] /\ Split(T) \in Seq(Text) /\ Len(Split(T)) = n
        /\ \A k \in 1 .. n : Split(T)[k] # <<>>
        /\ T = <<>> <=> n = 0
        /\ n # 0 => LastOf(Split(T)[n]) = LastOf(T)
        /\ Split(q) \in Seq(Text)
        /\ Whole(T, p) =>
             /\ Len(Split(q)) = n + 1
             /\ \A k \in 1 .. n : Split(q)[k] = Split(T)[k]
             /\ Split(q)[n + 1] = p
        /\ ~Whole(T, p) =>
             /\ n # 0 /\ Len(Split(q)) = n
             /\ \A k \in 1 .. (n - 1) : Split(q)[k] = Split(T)[k]
             /\ Split(q)[n] = Split(T)[n] \o p
  BY SplitGrows DEF q
<1> DEFINE L == Split(T)
           K == Split(q)
<1>6. DOMAIN L = 1 .. n /\ DOMAIN K = 1 .. Len(K) /\ LastLine(T) = L[n]
  BY <1>5 DEF LastLine, LastOf
<1>7. /\ CompleteIn(T) = {i \in 1 .. n : Complete(L[i])}
      /\ CompleteIn(q) = {i \in 1 .. Len(K) : Complete(K[i])}
  BY <1>6 DEF CompleteIn
<1>8. ~EndsOpen(q)
  BY <1>2, <1>3 DEF EndsOpen
<1>9. CASE Whole(T, p)
  <2>1. Len(K) = n + 1 /\ (\A k \in 1 .. n : K[k] = L[k]) /\ K[n + 1] = p
    BY <1>5, <1>9
  <2>2. \A k \in 1 .. n + 1 : k \in 1 .. n \/ k = n + 1
    BY <1>5
  <2>3. (\A k \in 1 .. n : k \in 1 .. n + 1) /\ n + 1 \in 1 .. n + 1 /\ n + 1 \notin 1 .. n
    BY <1>5
  <2>4. ~EndsOpen(T)
    BY <1>4, <1>9 DEF Whole, EndsOpen, Ends, q, t
  <2> HIDE DEF L, K
  <2>5. /\ n + 1 \notin CompleteIn(T)
        /\ CompleteIn(q) = CompleteIn(T) \cup {n + 1}
        /\ \A i \in CompleteIn(T) : K[i] = L[i]
    BY <1>7, <2>1, <2>2, <2>3
  <2>6. K[n + 1] = LineWith(T, p)
    BY <2>1, <2>4 DEF LineWith
  <2> QED
    BY <1>8, <2>5, <2>6 DEF q, K, L
<1>10. CASE ~Whole(T, p)
  <2>1. n # 0 /\ Len(K) = n /\ (\A k \in 1 .. (n - 1) : K[k] = L[k]) /\ K[n] = L[n] \o p
    BY <1>5, <1>10
  <2>2. \A k \in 1 .. n : k \in 1 .. (n - 1) \/ k = n
    BY <1>5
  <2>3. n \in 1 .. n /\ n \notin 1 .. (n - 1) /\ \A k \in 1 .. (n - 1) : k \in 1 .. n
    BY <1>5, <2>1
  <2>4. L[n] \in Text /\ L[n] # <<>> /\ LastOf(L[n]) = LastOf(T) /\ T # <<>>
    BY <1>5, <2>1, <2>3
  <2>5. Complete(K[n])
    <3> DEFINE l == L[n]
    <3>1. l \in Text
      BY <2>4
    <3> HIDE DEF l
    <3>2. Len(l \o p) = Len(l) + m /\ Len(l) \in Nat /\ (l \o p)[Len(l) + m] = p[m]
      <4>1. /\ Len(l) \in Nat /\ Len(l \o p) = Len(l) + Len(p)
            /\ \A i \in 1 .. Len(l) + Len(p) :
                  (l \o p)[i] = IF i <= Len(l) THEN l[i] ELSE p[i - Len(l)]
        BY <3>1 DEF Text
      <4> DEFINE a == Len(l)
      <4>2. a \in Nat
        BY <4>1
      <4> HIDE DEF a
      <4>3. a + m \in 1 .. a + m /\ ~(a + m <= a) /\ (a + m) - a = m
        BY <1>1, <4>2
      <4>4. (l \o p)[a + m] = p[m]
        BY <4>1, <4>3 DEF a, m
      <4> QED
        BY <4>1, <4>4 DEF a, m
    <3>3. l \o p # <<>>
      BY <3>1, <3>2, <1>1
    <3> QED
      BY <1>2, <2>1, <3>2, <3>3 DEF Complete, l
  <2>6. CASE EndsOpen(T)
    <3>1. ~Complete(L[n])
      BY <2>4, <2>6 DEF Complete, EndsOpen, LastOf
    <3>2. K[n] = LineWith(T, p)
      BY <1>6, <2>1, <2>6 DEF LineWith
    <3> HIDE DEF L, K
    <3>3. /\ n \notin CompleteIn(T)
          /\ CompleteIn(q) = CompleteIn(T) \cup {n}
          /\ \A i \in CompleteIn(T) : K[i] = L[i]
      BY <1>7, <2>1, <2>2, <2>3, <2>5, <3>1
    <3> QED
      BY <1>8, <3>2, <3>3 DEF q, K, L
  <2>7. CASE ~EndsOpen(T)
    <3>1. LastOf(T) \in Ends /\ t \notin LineEnds(q)
      BY <1>10, <2>4, <2>7 DEF EndsOpen, Whole, q, t
    <3>2. LastOf(T) = Return /\ p[1] = NewLine
      BY <1>4, <2>4, <3>1 DEF Ends
    <3>3. p = <<NewLine>>
      <4>1. 1 \in 1 .. m /\ DOMAIN p = 1 .. m
        BY <1>1 DEF Text, m
      <4>2. 1 \in LineEnds(p)
        BY <3>2, <4>1 DEF LineEnds
      <4>3. m = 1
        BY <4>2 DEF Unbroken, m
      <4>4. p \in Seq(Words \cup Ends) /\ <<NewLine>> \in Seq(Words \cup Ends)
            /\ Len(p) = Len(<<NewLine>>) /\ \A i \in 1 .. Len(p) : p[i] = <<NewLine>>[i]
        BY <3>2, <4>3 DEF Text, m, Ends
      <4> QED
        BY ONLY <4>4, SeqEqual
    <3>4. Complete(L[n])
      BY <2>4, <3>1 DEF Complete, LastOf
    <3>5. Strip(K[n]) = Strip(L[n])
      <4>1. NewLine \in Ends
        BY DEF Ends
      <4>2. Strip(L[n] \o <<NewLine>>) = Strip(L[n])
        <5> HIDE DEF L
        <5> QED
          BY ONLY <2>4, <4>1, StripBehind
      <4> QED
        BY <2>1, <3>3, <4>2
    <3> HIDE DEF L, K
    <3>6. /\ CompleteIn(q) = CompleteIn(T)
          /\ \A i \in CompleteIn(T) : Strip(K[i]) = Strip(L[i])
      BY <1>7, <2>1, <2>2, <2>3, <2>5, <3>4, <3>5
    <3> QED
      BY <1>8, <2>4, <2>7, <3>2, <3>3, <3>6 DEF q, K, L
  <2> QED
    BY <2>6, <2>7
<1> QED
  BY <1>9, <1>10

\* Two texts with the same complete lines count the same.
LEMMA SameCounts ==
    ASSUME NEW T \in Text, NEW q \in Text, Readable(T), CompleteIn(q) = CompleteIn(T),
           \A i \in CompleteIn(T) : Strip(Split(q)[i]) = Strip(Split(T)[i])
    PROVE  Readable(q) /\ ScoredIn(q) = ScoredIn(T) /\ ScoreIn(q) = ScoreIn(T)
<1>1. ScoredIn(q) = ScoredIn(T)
  BY DEF ScoredIn
<1>2. \A i \in ScoredIn(T) : Strip(Split(q)[i]) = Strip(Split(T)[i])
  BY DEF ScoredIn
<1>3. Readable(q)
  BY <1>1, <1>2 DEF Readable
<1>4. \A i \in ScoredIn(T) : Scores(T)[i] \in Int /\ Scores(q)[i] = Scores(T)[i]
  BY <1>1, <1>2 DEF Scores, Readable
<1>5. IsFiniteSet(ScoredIn(T))
  BY FinitelyMany
<1> DEFINE S == ScoredIn(T)
           f == Scores(T)
           g == Scores(q)
<1> HIDE DEF S, f, g
<1>6. Total(g, S) = Total(f, S)
  <2>1. IsFiniteSet(S) /\ (\A x \in S : f[x] \in Int) /\ (\A x \in S : g[x] = f[x])
    BY <1>4, <1>5 DEF S, f, g
  <2> QED
    BY ONLY <2>1, TotalSame
<1>7. ScoreIn(T) = Total(f, S) /\ ScoreIn(q) = Total(g, S)
  BY <1>1, <1>3, ScoreIsTotal DEF S, f, g
<1> QED
  BY <1>1, <1>3, <1>6, <1>7

\* A text with one more complete line counts this line.
LEMMA OneMoreCounts ==
    ASSUME NEW T \in Text, NEW q \in Text, Readable(T), NEW k,
           k \notin CompleteIn(T), CompleteIn(q) = CompleteIn(T) \cup {k},
           \A i \in CompleteIn(T) : Split(q)[i] = Split(T)[i],
           ~IsIgnored(Strip(Split(q)[k])) => LineScore(Strip(Split(q)[k])) \in Int
    PROVE  /\ Readable(q)
           /\ Cardinality(CompleteIn(q)) = Cardinality(CompleteIn(T)) + 1
           /\ Cardinality(ScoredIn(q))
                = Cardinality(ScoredIn(T)) + (IF IsIgnored(Strip(Split(q)[k])) THEN 0 ELSE 1)
           /\ ScoreIn(q)
                = ScoreIn(T) + (IF IsIgnored(Strip(Split(q)[k])) THEN 0
                               ELSE LineScore(Strip(Split(q)[k])))
<1> DEFINE S == ScoredIn(T)
           f == Scores(T)
           g == Scores(q)
           s == Strip(Split(q)[k])
<1>1. /\ IsFiniteSet(CompleteIn(T)) /\ IsFiniteSet(S)
      /\ Cardinality(CompleteIn(T)) \in Nat /\ Cardinality(S) \in Nat
  BY FinitelyMany
<1>2. Cardinality(CompleteIn(q)) = Cardinality(CompleteIn(T)) + 1
  BY <1>1, FS_AddElement
<1>3. \A i \in CompleteIn(T) : i \in ScoredIn(q) <=> i \in S
  BY DEF ScoredIn
<1>4. k \in ScoredIn(q) <=> ~IsIgnored(s)
  BY DEF ScoredIn
<1>5. S \subseteq CompleteIn(T) /\ ScoredIn(q) \subseteq CompleteIn(T) \cup {k} /\ k \notin S
  BY DEF ScoredIn
<1>6. \A i \in S : /\ Strip(Split(q)[i]) = Strip(Split(T)[i])
                   /\ LineScore(Strip(Split(T)[i])) \in Int
  BY <1>5 DEF Readable
<1>7. Readable(q)
  BY <1>3, <1>4, <1>5, <1>6 DEF Readable
<1>8. ScoreIn(T) = Total(f, S) /\ ScoreIn(q) = Total(g, ScoredIn(q))
  BY <1>7, ScoreIsTotal
<1>9. /\ \A i \in S : f[i] \in Int
      /\ \A i \in S : i \in ScoredIn(q) => g[i] = f[i]
      /\ k \in ScoredIn(q) => g[k] = LineScore(s)
  BY <1>6 DEF Scores
<1> HIDE DEF S, f, g
<1>10. Total(f, S) \in Int
  BY ONLY <1>1, <1>9, TotalFacts
<1>11. CASE IsIgnored(s)
  <2>1. ScoredIn(q) = S
    BY <1>3, <1>4, <1>5, <1>11
  <2>2. \A i \in S : g[i] = f[i]
    BY <1>9, <2>1
  <2>3. Total(g, S) = Total(f, S)
    BY ONLY <1>1, <1>9, <2>2, TotalSame
  <2>4. Cardinality(ScoredIn(q)) = Cardinality(S) + 0 /\ ScoreIn(q) = ScoreIn(T) + 0
    BY <1>1, <1>8, <1>10, <2>1, <2>3
  <2> QED
    BY <1>2, <1>7, <1>11, <2>4 DEF S
<1>12. CASE ~IsIgnored(s)
  <2>1. ScoredIn(q) = S \cup {k}
    BY <1>3, <1>4, <1>5, <1>12
  <2>2. (\A x \in S \cup {k} : g[x] \in Int) /\ (\A x \in S : f[x] = g[x]) /\ g[k] = LineScore(s)
    BY <1>9, <1>12, <2>1
  <2>3. Total(g, S \cup {k}) = Total(f, S) + g[k]
    <3>1. IsFiniteSet(S)
      BY <1>1
    <3>2. k \notin S
      BY <1>5
    <3>3. \A x \in S \cup {k} : g[x] \in Int
      BY <2>2
    <3>4. \A x \in S : f[x] = g[x]
      BY <2>2
    <3> QED
      BY ONLY <3>1, <3>2, <3>3, <3>4, TotalAdds
  <2>4. Cardinality(S \cup {k}) = Cardinality(S) + 1
    BY <1>1, <1>5, FS_AddElement
  <2>5. Cardinality(ScoredIn(q)) = Cardinality(S) + 1 /\ ScoreIn(q) = ScoreIn(T) + LineScore(s)
    BY <1>8, <2>1, <2>2, <2>3, <2>4
  <2> QED
    BY <1>2, <1>7, <1>12, <2>5 DEF S
<1> QED
  BY <1>11, <1>12

\* A text has no \r.
WithoutReturn(T) == \A i \in DOMAIN T : T[i] # Return

\* What one piece more does to the counts of the text read so far: without an end
\* of a line, nothing; else it counts the line that it ends, once, unless it is the
\* \n of a \r\n cut in two, which is one line for the text and two for the watch.
LEMMA PieceCounts ==
    ASSUME NEW T \in Text, NEW p \in Text, p # <<>>, Unbroken(p), Readable(T),
           EndsOpen(T) => LastLine(T) \in Seq(Words), NEW s, s = Strip(LineWith(T, p))
    PROVE  /\ Readable(T \o p)
           /\ EndsOpen(T \o p) <=> ~Complete(p)
           /\ ~Complete(p) =>
                /\ LastLine(T \o p) = LineWith(T, p) /\ LineWith(T, p) \in Seq(Words)
                /\ CompleteIn(T \o p) = CompleteIn(T)
                /\ ScoredIn(T \o p) = ScoredIn(T)
                /\ ScoreIn(T \o p) = ScoreIn(T)
           /\ Complete(p) =>
                /\ ~IsIgnored(s) => LineScore(s) \in Int
                /\ \/ Cardinality(CompleteIn(T \o p)) = Cardinality(CompleteIn(T)) + 1
                   \/ /\ Cardinality(CompleteIn(T \o p)) = Cardinality(CompleteIn(T))
                      /\ ~WithoutReturn(T)
                /\ Cardinality(ScoredIn(T \o p))
                      = Cardinality(ScoredIn(T)) + (IF IsIgnored(s) THEN 0 ELSE 1)
                /\ ScoreIn(T \o p) = ScoreIn(T) + (IF IsIgnored(s) THEN 0 ELSE LineScore(s))
<1> DEFINE q == T \o p
           line == LineWith(T, p)
<1>1. q \in Text
  BY DEF Text
<1>2. line \in Text /\ Unbroken(line)
  <2>1. CASE EndsOpen(T)
    <3>1. LastLine(T) \in Seq(Words) /\ line = LastLine(T) \o p
      BY <2>1 DEF LineWith
    <3> DEFINE x == LastLine(T)
    <3> HIDE DEF x, line
    <3>2. x \o p \in Text /\ Unbroken(x \o p)
      BY ONLY <3>1, p \in Text, Unbroken(p), JoinUnbroken DEF x
    <3> QED
      BY <3>1, <3>2 DEF x
  <2>2. CASE ~EndsOpen(T)
    BY <2>2 DEF LineWith
  <2> QED
    BY <2>1, <2>2
<1>3. s \in Seq(Words)
  <2> HIDE DEF line
  <2>1. Strip(line) \in Seq(Words)
    BY ONLY <1>2, StripUnbroken
  <2> QED
    BY <2>1 DEF line
<1>4. ~IsIgnored(s) => LineScore(s) \in Int
  BY <1>3, LineHasScore DEF IsIgnored
<1>5. CASE ~Complete(p)
  <2>1. /\ CompleteIn(q) = CompleteIn(T)
        /\ \A i \in CompleteIn(T) : Split(q)[i] = Split(T)[i]
        /\ EndsOpen(q) /\ LastLine(q) = line
    BY <1>5, PieceWithoutEnd
  <2>2. p \in Seq(Words)
    BY <1>5, IncompleteWords
  <2>3. line \in Seq(Words)
    <3>1. CASE EndsOpen(T)
      <4> DEFINE x == LastLine(T)
      <4>1. x \in Seq(Words) /\ line = x \o p
        BY <3>1 DEF LineWith
      <4> HIDE DEF x, line
      <4>2. x \o p \in Seq(Words)
        BY ONLY <2>2, <4>1, ConcatProperties
      <4> QED
        BY <4>1, <4>2
    <3>2. CASE ~EndsOpen(T)
      BY <2>2, <3>2 DEF LineWith
    <3> QED
      BY <3>1, <3>2
  <2> HIDE DEF q, line
  <2>4. \A i \in CompleteIn(T) : Strip(Split(q)[i]) = Strip(Split(T)[i])
    BY <2>1
  <2>5. Readable(q) /\ ScoredIn(q) = ScoredIn(T) /\ ScoreIn(q) = ScoreIn(T)
    BY ONLY T \in Text, Readable(T), <1>1, <2>1, <2>4, SameCounts
  <2> QED
    BY <1>5, <2>1, <2>3, <2>5 DEF q, line
<1>6. CASE Complete(p)
  <2>1. ~EndsOpen(q)
    BY <1>6, PieceWithEnd
  <2>2. CASE \E k : /\ k \notin CompleteIn(T)
                    /\ CompleteIn(q) = CompleteIn(T) \cup {k}
                    /\ \A i \in CompleteIn(T) : Split(q)[i] = Split(T)[i]
                    /\ Split(q)[k] = line
    <3> HIDE DEF q, line
    <3>1. PICK k : /\ k \notin CompleteIn(T)
                   /\ CompleteIn(q) = CompleteIn(T) \cup {k}
                   /\ \A i \in CompleteIn(T) : Split(q)[i] = Split(T)[i]
                   /\ Split(q)[k] = line
      BY <2>2
    <3>2. s = Strip(Split(q)[k])
      BY <3>1 DEF line
    <3> DEFINE v == Strip(Split(q)[k])
    <3>3. v = s /\ (~IsIgnored(v) => LineScore(v) \in Int)
      BY ONLY <1>4, <3>2
    <3>4. /\ Readable(q)
          /\ Cardinality(CompleteIn(q)) = Cardinality(CompleteIn(T)) + 1
          /\ Cardinality(ScoredIn(q)) = Cardinality(ScoredIn(T)) + (IF IsIgnored(v) THEN 0 ELSE 1)
          /\ ScoreIn(q) = ScoreIn(T) + (IF IsIgnored(v) THEN 0 ELSE LineScore(v))
      BY ONLY T \in Text, Readable(T), <1>1, <3>1, <3>3, OneMoreCounts
    <3> HIDE DEF v
    <3> QED
      BY <1>4, <1>6, <2>1, <3>3, <3>4 DEF q
  <2>3. CASE /\ ~EndsOpen(T) /\ T # <<>> /\ LastOf(T) = Return /\ p = <<NewLine>>
             /\ CompleteIn(q) = CompleteIn(T)
             /\ \A i \in CompleteIn(T) : Strip(Split(q)[i]) = Strip(Split(T)[i])
    <3>1. s = <<>>
      <4>1. line = <<NewLine>> /\ NewLine \in Ends
        BY <2>3 DEF LineWith, Ends
      <4>2. Strip(<<NewLine>>) = <<>>
        BY ONLY <4>1, StripEnd
      <4> QED
        BY <4>1, <4>2
    <3>2. IsIgnored(s)
      BY <3>1 DEF IsIgnored
    <3>3. ~WithoutReturn(T)
      <4>1. Len(T) \in Nat /\ Len(T) # 0 /\ DOMAIN T = 1 .. Len(T)
        BY <2>3 DEF Text
      <4>2. Len(T) \in DOMAIN T
        BY <4>1
      <4> QED
        BY <2>3, <4>2 DEF WithoutReturn, LastOf
    <3> HIDE DEF q, line
    <3>4. Readable(q) /\ ScoredIn(q) = ScoredIn(T) /\ ScoreIn(q) = ScoreIn(T)
      BY ONLY T \in Text, Readable(T), <1>1, <2>3, SameCounts
    <3>5. Cardinality(ScoredIn(T)) \in Nat /\ ScoreIn(T) \in Int
      <4>1. Cardinality(ScoredIn(T)) \in Nat /\ IsFiniteSet(ScoredIn(T))
        BY FinitelyMany
      <4>2. ScoreIn(T) = Total(Scores(T), ScoredIn(T))
        BY ScoreIsTotal
      <4>3. \A i \in ScoredIn(T) : Scores(T)[i] \in Int
        BY DEF Scores, Readable
      <4> QED
        BY <4>1, <4>2, <4>3, TotalFacts
    <3>6. Cardinality(ScoredIn(q)) = Cardinality(ScoredIn(T)) + 0 /\ ScoreIn(q) = ScoreIn(T) + 0
      BY <3>4, <3>5
    <3>7. Cardinality(CompleteIn(q)) = Cardinality(CompleteIn(T))
      BY <2>3
    <3> QED
      BY <1>6, <2>1, <3>2, <3>3, <3>4, <3>6, <3>7 DEF q
  <2> QED
    BY <1>6, <2>2, <2>3, PieceWithEnd
<1> QED
  BY <1>5, <1>6

-----------------------------------------------------------------------------
(* What is left of the data of a read.                                     *)

PendingIn(ps) == IF ps = <<>> THEN 0 ELSE MapThenSumSet(LAMBDA i : Len(ps[i]), DOMAIN ps)

\* The pieces are the text from one place to another: each is unbroken, and only the
\* last one may be without an end.
Fits(P, text, from, to, ps) ==
    /\ P[0] = from /\ P[Len(ps)] = to
    /\ \A i \in 1 .. Len(ps) :
          /\ P[i - 1] < P[i]
          /\ ps[i] = SubSeq(text, P[i - 1] + 1, P[i])
          /\ Unbroken(ps[i])
          /\ i # Len(ps) => Complete(ps[i])
PiecesFit(text, from, to, ps) ==
    \E P \in [0 .. Len(ps) -> 0 .. to] : Fits(P, text, from, to, ps)

\* No pieces fit between a place and itself.
LEMMA NothingLeft ==
    ASSUME NEW text, NEW n \in Nat
    PROVE  PiecesFit(text, n, n, <<>>) /\ PendingIn(<<>>) = 0
<1> DEFINE P == [i \in 0 .. 0 |-> n]
<1>1. P \in [0 .. 0 -> 0 .. n] /\ P[0] = n
  OBVIOUS
<1>2. Len(<<>>) = 0 /\ 1 .. 0 = {}
  OBVIOUS
<1> HIDE DEF P
<1>3. Fits(P, text, n, n, <<>>)
  BY <1>1, <1>2 DEF Fits
<1> QED
  BY <1>1, <1>2, <1>3 DEF PiecesFit, PendingIn

\* The pieces that fit between two places have as many characters as are between them.
LEMMA LengthsPending ==
    ASSUME NEW text \in Text, NEW from, NEW to \in Nat, NEW ps \in Seq(Text),
           PiecesFit(text, from, to, ps), ps # <<>> => to <= Len(text)
    PROVE  PendingIn(ps) = to - from /\ from \in 0 .. to
<1>1. PICK P \in [0 .. Len(ps) -> 0 .. to] : Fits(P, text, from, to, ps)
  BY DEF PiecesFit
<1> DEFINE n == Len(ps)
<1>2. n \in Nat /\ DOMAIN ps = 1 .. n
  OBVIOUS
<1>3. P[0] = from /\ P[n] = to
  BY <1>1 DEF Fits
<1>4. from \in 0 .. to
  BY <1>2, <1>3
<1>5. CASE ps = <<>>
  <2>1. n = 0 /\ PendingIn(ps) = 0
    BY <1>5 DEF PendingIn
  <2>2. from = to
    BY <1>3, <2>1
  <2> QED
    BY <1>4, <2>1, <2>2
<1>6. CASE ps # <<>>
  <2>1. ASSUME NEW i \in 1 .. n PROVE Len(ps[i]) = P[i] - P[i - 1]
    <3>1. i \in 0 .. n /\ i - 1 \in 0 .. n
      BY <1>2
    <3>2. P[i - 1] < P[i] /\ ps[i] = SubSeq(text, P[i - 1] + 1, P[i])
      BY <1>1 DEF Fits
    <3>3. P[i - 1] \in Nat /\ P[i] \in Nat /\ P[i] <= Len(text)
      <4>1. P[i - 1] \in 0 .. to /\ P[i] \in 0 .. to
        BY <3>1
      <4>2. Len(text) \in Nat /\ to <= Len(text)
        BY <1>6 DEF Text
      <4> HIDE DEF n
      <4> QED
        BY <4>1, <4>2
    <3> QED
      BY ONLY text \in Text, <3>2, <3>3, PartOfText
  <2>2. P \in [0 .. n -> Int]
    OBVIOUS
  <2> HIDE DEF n
  <2>3. MapThenSumSet(LAMBDA i : Len(ps[i]), DOMAIN ps) = P[n] - P[0]
    BY <1>2, <2>1, <2>2, LengthsAddUp
  <2> QED
    BY <1>3, <1>4, <1>6, <2>3 DEF PendingIn
<1> QED
  BY <1>5, <1>6

\* The first piece, and what is left behind it.
LEMMA FirstPiece ==
    ASSUME NEW text \in Text, NEW from, NEW to \in Nat, NEW ps \in Seq(Text),
           PiecesFit(text, from, to, ps), ps # <<>>, to <= Len(text)
    PROVE  /\ Head(ps) \in Text /\ Head(ps) # <<>> /\ Unbroken(Head(ps))
           /\ Len(ps) # 1 => Complete(Head(ps))
           /\ Tail(ps) \in Seq(Text) /\ (Len(ps) = 1 => Tail(ps) = <<>>)
           /\ \E place \in 0 .. to :
                /\ from < place /\ Head(ps) = SubSeq(text, from + 1, place)
                /\ PiecesFit(text, place, to, Tail(ps))
<1>1. PICK P \in [0 .. Len(ps) -> 0 .. to] : Fits(P, text, from, to, ps)
  BY DEF PiecesFit
<1> DEFINE n == Len(ps)
           m == Len(Tail(ps))
<1>2. n \in Nat /\ n # 0 /\ Head(ps) = ps[1] /\ Head(ps) \in Text
  OBVIOUS
<1>3. /\ Tail(ps) \in Seq(Text) /\ m = n - 1 /\ m \in Nat
      /\ \A i \in 1 .. m : Tail(ps)[i] = ps[i + 1]
  BY HeadTailProperties
<1> DEFINE Q == [i \in 0 .. m |-> P[i + 1]]
<1> HIDE DEF n, m
<1>4. P \in [0 .. n -> 0 .. to] /\ P[0] = from /\ P[n] = to
  BY <1>1 DEF Fits, n
<1>5. ASSUME NEW i \in 1 .. n
      PROVE  /\ P[i - 1] < P[i] /\ ps[i] = SubSeq(text, P[i - 1] + 1, P[i])
             /\ Unbroken(ps[i])
             /\ i # n => Complete(ps[i])
  BY <1>1 DEF Fits, n
<1>6. 1 \in 1 .. n /\ 1 \in 0 .. n /\ 0 \in 0 .. n /\ 1 - 1 = 0
  BY <1>2
<1>7. /\ P[1] \in 0 .. to /\ from < P[1] /\ Head(ps) = SubSeq(text, from + 1, P[1])
      /\ Unbroken(Head(ps)) /\ (n # 1 => Complete(Head(ps)))
  BY <1>2, <1>4, <1>5, <1>6
<1>8. Head(ps) # <<>>
  <2>1. from \in Nat /\ P[1] \in Nat /\ P[1] <= Len(text)
    <3>1. Len(text) \in Nat
      BY DEF Text
    <3> QED
      BY <1>4, <1>6, <1>7, <3>1
  <2> QED
    BY ONLY text \in Text, <1>7, <2>1, PartOfText
<1>9. n = 1 => Tail(ps) = <<>>
  <2>1. n = 1 => Len(Tail(ps)) = 0
    BY <1>3 DEF m
  <2> DEFINE z == Tail(ps)
  <2>2. z \in Seq(Text) /\ (n = 1 => Len(z) = 0)
    BY <1>3, <2>1
  <2> HIDE DEF z
  <2>3. n = 1 => z = <<>>
    BY ONLY <2>2, EmptySeq
  <2> QED
    BY <2>3 DEF z
<1>10. Q \in [0 .. m -> 0 .. to]
  <2>1. \A i \in 0 .. m : i + 1 \in 0 .. n
    BY <1>3
  <2> QED
    BY <1>4, <2>1
<1>11. Fits(Q, text, P[1], to, Tail(ps))
  <2>1. Q[0] = P[1]
    BY <1>3
  <2>2. Q[m] = to
    <3>1. m \in 0 .. m /\ m + 1 = n
      BY <1>2, <1>3
    <3> QED
      BY <1>4, <3>1
  <2>3. ASSUME NEW i \in 1 .. m
        PROVE  /\ Q[i - 1] < Q[i]
               /\ Tail(ps)[i] = SubSeq(text, Q[i - 1] + 1, Q[i])
               /\ Unbroken(Tail(ps)[i])
               /\ i # m => Complete(Tail(ps)[i])
    <3>1. /\ i \in 0 .. m /\ i - 1 \in 0 .. m /\ (i - 1) + 1 = i
          /\ i + 1 \in 1 .. n /\ (i + 1) - 1 = i /\ (i # m => i + 1 # n)
      BY <1>2, <1>3
    <3>2. Q[i - 1] = P[i] /\ Q[i] = P[i + 1]
      BY <3>1
    <3> HIDE DEF Q
    <3>3. /\ P[(i + 1) - 1] < P[i + 1] /\ ps[i + 1] = SubSeq(text, P[(i + 1) - 1] + 1, P[i + 1])
          /\ Unbroken(ps[i + 1])
          /\ i + 1 # n => Complete(ps[i + 1])
      BY <1>5, <3>1
    <3>4. Tail(ps)[i] = ps[i + 1]
      BY <1>3
    <3> QED
      BY <3>1, <3>2, <3>3, <3>4
  <2> HIDE DEF Q
  <2> QED
    BY <2>1, <2>2, <2>3 DEF Fits, m
<1> HIDE DEF Q
<1>12. PiecesFit(text, P[1], to, Tail(ps))
  BY <1>10, <1>11 DEF PiecesFit, m
<1> QED
  BY <1>2, <1>3, <1>7, <1>8, <1>9, <1>12 DEF n

\* The lines of what is read are such pieces.
LEMMA CutIsUnbroken ==
    ASSUME NEW T \in Text, NEW n, NEW P, IsCutting(T, n, P), NEW k \in 1 .. n
    PROVE  /\ Unbroken(SubSeq(T, P[k - 1] + 1, P[k]))
           /\ k # n => Complete(SubSeq(T, P[k - 1] + 1, P[k]))
<1> DEFINE s == SubSeq(T, P[k - 1] + 1, P[k])
           a == P[k - 1]
           b == P[k]
           d == b - a
<1>1. /\ n \in Nat /\ P \in [0 .. n -> Nat] /\ P[0] = 0
      /\ \A i \in 1 .. n : P[i - 1] < P[i]
      /\ Cuts(T) = {P[i] : i \in 0 .. n}
  BY DEF IsCutting
<1>2. /\ \A i \in 0 .. n : P[i] <= Len(T)
      /\ \A i \in 0 .. n : P[i] = Len(T) => i = n
  BY LastCut
<1>3. \A i, j \in 0 .. n : i < j => P[i] < P[j]
  BY <1>1, Growing
<1>4. k \in 0 .. n /\ k - 1 \in 0 .. n /\ k - 1 < k
  BY <1>1
<1>5. a \in Nat /\ b \in Nat /\ a < b /\ b <= Len(T) /\ Len(T) \in Nat
  BY <1>1, <1>2, <1>4 DEF Text
<1>6. /\ s \in Text /\ s # <<>> /\ Len(s) = d /\ \A i \in 1 .. d : s[i] = T[a + i]
  <2> HIDE DEF a, b
  <2>1. /\ SubSeq(T, a + 1, b) \in Text /\ SubSeq(T, a + 1, b) # <<>>
        /\ Len(SubSeq(T, a + 1, b)) = b - a
        /\ \A i \in 1 .. (b - a) : SubSeq(T, a + 1, b)[i] = T[a + i]
    BY ONLY T \in Text, <1>5, PartOfText
  <2> QED
    BY <2>1 DEF a, b
<1>7. DOMAIN T = 1 .. Len(T) /\ DOMAIN s = 1 .. d
  BY <1>6 DEF Text
<1> HIDE DEF s, a, b, d
<1>8. d \in Nat /\ d # 0 /\ a + d = b
  BY <1>5 DEF d
<1>9. ASSUME NEW i \in LineEnds(s), i # d PROVE FALSE
  <2>1. i \in 1 .. d /\ i + 1 \in 1 .. d /\ a + i \in 1 .. Len(T) /\ a + i # Len(T)
        /\ a + (i + 1) = (a + i) + 1
    BY <1>5, <1>7, <1>8, <1>9 DEF LineEnds
  <2>2. s[i] = T[a + i] /\ s[i + 1] = T[(a + i) + 1]
    BY <1>6, <2>1
  <2>3. s[i] = NewLine \/ (s[i] = Return /\ s[i + 1] # NewLine)
    BY <1>6, <1>9 DEF LineEnds
  <2>4. a + i \in LineEnds(T)
    BY <1>7, <2>1, <2>2, <2>3 DEF LineEnds
  <2>5. PICK j \in 0 .. n : P[j] = a + i
    BY <1>1, <2>4 DEF Cuts
  <2>6. a < P[j] /\ P[j] < b
    BY <1>5, <1>8, <1>9, <2>1, <2>5
  <2>7. ~(j < k - 1) /\ j # k - 1 /\ ~(k < j) /\ j # k
    <3>1. j < k - 1 => P[j] < a
      BY <1>3, <1>4 DEF a
    <3>2. k < j => b < P[j]
      BY <1>3, <1>4 DEF b
    <3>3. P[j] \in Nat
      BY <1>1
    <3> QED
      BY <1>5, <2>6, <3>1, <3>2, <3>3 DEF a, b
  <2> QED
    BY <1>1, <1>4, <2>7
<1>10. Unbroken(s)
  BY <1>6, <1>9 DEF Unbroken
<1>11. k # n => Complete(s)
  <2> SUFFICES ASSUME k # n PROVE Complete(s)
    OBVIOUS
  <2>1. b \in Cuts(T) /\ b # 0 /\ b # Len(T)
    BY <1>1, <1>2, <1>4, <1>5 DEF b
  <2>2. b \in LineEnds(T)
    BY <2>1 DEF Cuts
  <2>3. T[b] \in Ends
    BY <2>2 DEF LineEnds, Ends
  <2>4. d \in 1 .. d
    BY <1>8
  <2>5. s[Len(s)] = T[b]
    BY <1>6, <1>8, <2>4
  <2> QED
    BY <1>6, <2>3, <2>5 DEF Complete
<1> QED
  BY <1>10, <1>11 DEF s

\* The lines of the data that was read fit between its two places.
LEMMA LinesFit ==
    ASSUME NEW text \in Text, NEW from \in Nat, NEW data \in Text,
           from + Len(data) <= Len(text),
           \A i \in 1 .. Len(data) : data[i] = text[from + i]
    PROVE  /\ PiecesFit(text, from, from + Len(data), Split(data))
           /\ Split(data) \in Seq(Text)
<1> DEFINE to == from + Len(data)
           L == Split(data)
<1>1. PICK n, P : IsCutting(data, n, P)
  BY CuttingExists
<1>2. /\ n \in Nat /\ P \in [0 .. n -> Nat] /\ P[0] = 0
      /\ \A i \in 1 .. n : P[i - 1] < P[i]
  BY <1>1 DEF IsCutting
<1>3. P[n] = Len(data) /\ \A i \in 0 .. n : P[i] <= Len(data)
  BY <1>1, LastCut
<1>4. /\ L \in Seq(Text) /\ Len(L) = n
      /\ \A k \in 1 .. n : L[k] = SubSeq(data, P[k - 1] + 1, P[k])
  BY <1>1, LinesOf
<1>5. Len(data) \in Nat /\ Len(text) \in Nat
  BY DEF Text
<1> DEFINE Q == [i \in 0 .. n |-> from + P[i]]
<1>6. Q \in [0 .. n -> 0 .. to]
  <2>1. ASSUME NEW i \in 0 .. n PROVE from + P[i] \in 0 .. to
    <3>1. P[i] \in Nat /\ P[i] <= Len(data)
      BY <1>2, <1>3
    <3> QED
      BY <1>5, <3>1
  <2> HIDE DEF to
  <2> QED
    BY <2>1
<1>7. Q[0] = from /\ Q[n] = to
  <2>1. 0 \in 0 .. n /\ n \in 0 .. n
    BY <1>2
  <2>2. Q[0] = from + 0 /\ Q[n] = from + Len(data)
    BY <1>2, <1>3, <2>1
  <2> QED
    BY <2>2
<1>8. ASSUME NEW k \in 1 .. n
      PROVE  /\ Q[k - 1] < Q[k]
             /\ L[k] = SubSeq(text, Q[k - 1] + 1, Q[k])
             /\ Unbroken(L[k])
             /\ k # n => Complete(L[k])
  <2>1. k \in 0 .. n /\ k - 1 \in 0 .. n
    BY <1>2
  <2> DEFINE a == P[k - 1]
             b == P[k]
  <2>2. a \in Nat /\ b \in Nat /\ a < b /\ b <= Len(data)
    BY <1>2, <1>3, <2>1
  <2>3. Q[k - 1] = from + a /\ Q[k] = from + b
    BY <2>1
  <2>4. L[k] = SubSeq(data, a + 1, b)
    BY <1>4
  <2>5. Unbroken(L[k]) /\ (k # n => Complete(L[k]))
    <3>1. /\ Unbroken(SubSeq(data, P[k - 1] + 1, P[k]))
          /\ k # n => Complete(SubSeq(data, P[k - 1] + 1, P[k]))
      BY <1>1, CutIsUnbroken
    <3> QED
      BY <2>4, <3>1
  <2> HIDE DEF a, b, Q, L
  <2>6. SubSeq(data, a + 1, b) = SubSeq(text, (from + a) + 1, from + b)
    <3> DEFINE s == SubSeq(data, a + 1, b)
               r == SubSeq(text, (from + a) + 1, from + b)
    <3>1. s \in Text /\ Len(s) = b - a /\ \A i \in 1 .. (b - a) : s[i] = data[a + i]
      BY ONLY data \in Text, <2>2, PartOfText
    <3>2. /\ from + a \in Nat /\ from + b \in Nat /\ from + a < from + b
          /\ from + b <= Len(text) /\ (from + b) - (from + a) = b - a
      BY <1>5, <2>2
    <3>3. /\ r \in Text /\ Len(r) = (from + b) - (from + a)
          /\ \A i \in 1 .. ((from + b) - (from + a)) : r[i] = text[(from + a) + i]
      BY ONLY text \in Text, <3>2, PartOfText
    <3> HIDE DEF s, r
    <3>4. ASSUME NEW i \in 1 .. (b - a) PROVE s[i] = r[i]
      <4>1. a + i \in 1 .. Len(data) /\ from + (a + i) = (from + a) + i
        BY <1>5, <2>2
      <4>2. data[a + i] = text[from + (a + i)]
        BY <4>1
      <4> QED
        BY <3>1, <3>2, <3>3, <4>1, <4>2
    <3>5. s \in Seq(Words \cup Ends) /\ r \in Seq(Words \cup Ends) /\ Len(s) = Len(r)
      BY <3>1, <3>2, <3>3 DEF Text
    <3>6. \A i \in 1 .. Len(s) : s[i] = r[i]
      BY <3>1, <3>4
    <3> QED
      BY ONLY <3>5, <3>6, SeqEqual DEF s, r
  <2>7. Q[k - 1] < Q[k]
    BY <2>2, <2>3
  <2> QED
    BY <2>3, <2>4, <2>5, <2>6, <2>7
<1> HIDE DEF Q, L, to
<1>9. Fits(Q, text, from, to, L)
  BY <1>4, <1>7, <1>8 DEF Fits
<1>10. PiecesFit(text, from, to, L)
  BY <1>4, <1>6, <1>9 DEF PiecesFit
<1> QED
  BY <1>4, <1>10 DEF to, L

-----------------------------------------------------------------------------
(* The end of the output.                                                  *)

\* A message is on its way to the watch.
Coming(event) == event \in due \/ \E i \in DOMAIN inbox : inbox[i] = event

\* What was sent is delivered at the beginning of a step, and the watch reads its
\* mailbox to the end before anybody else has a turn.  live() needs a file.
TurnOK ==
    /\ turn \in {"mail", "live", "exit", "session", "step"}
    /\ inbox \in Seq(Messages)
    /\ turn # "step" => due = {}
    /\ turn \in {"live", "session", "step"} => inbox = <<>>
    /\ turn = "exit" => inbox # <<>>
    /\ turn \in {"live", "exit"} => file_obj

\* The watch never reads behind the end of a file.
SeedOK ==
    /\ file \in Seq(Words \cup Ends) /\ file_seed \in Nat
    /\ file_obj => file_seed <= Len(file)

\* Of the output of a process: there is no file before the process and none without
\* a message that it exists; its end is only announced after it; and a file that was
\* closed without giving up anything was read to the end of the process.
OutputOK ==
    /\ writer = "idle" => ~file_obj /\ ~Coming("stdout") /\ ~Coming("exit")
    /\ Coming("exit") => writer = "ended"
    /\ turn = "exit" => writer = "ended"
    /\ writer = "running" /\ lost = {} => file_obj \/ Coming("stdout")
    /\ writer = "ended" /\ lost = {} /\ ~file_obj =>
          Coming("stdout") \/ (file_seed = Len(file) /\ pieces = <<>>)

OutputInv == TurnOK /\ SeedOK /\ penalties \in Nat /\ (kind = "stdout" => OutputOK)

\* The smaller of two numbers.
LEMMA SmallerOfTwo ==
    ASSUME NEW a \in Nat, NEW b \in Nat
    PROVE  /\ Min({a, b}) \in {a, b} /\ Min({a, b}) <= a /\ Min({a, b}) <= b
<1>1. \E x \in {a, b} : \A y \in {a, b} : x =< y
  <2>1. CASE a <= b
    BY <2>1
  <2>2. CASE b <= a
    BY <2>2
  <2> QED
    BY <2>1, <2>2
<1>2. /\ Min({a, b}) \in {a, b}
      /\ \A y \in {a, b} : Min({a, b}) =< y
  BY <1>1 DEF Min
<1> QED
  BY <1>2

\* A read takes what there is, at most read_size, and is empty at the end only.
LEMMA DataFacts ==
    ASSUME SeedOK, file_obj
    PROVE  /\ Data \in Seq(Words \cup Ends)
           /\ Len(Data) \in Nat
           /\ file_seed + Len(Data) <= Len(file)
           /\ Data = <<>> => file_seed = Len(file)
           /\ \A i \in 1 .. Len(Data) : Data[i] = file[file_seed + i]
<1> DEFINE n == Min({file_seed + ReadSize, Len(file)})
<1>1. /\ Len(file) \in Nat /\ file_seed \in Nat /\ ReadSize \in Nat /\ ReadSize # 0
      /\ file_seed <= Len(file) /\ file \in Seq(Words \cup Ends)
  BY FileAssumption DEF SeedOK
<1>2. n \in {file_seed + ReadSize, Len(file)} /\ n <= file_seed + ReadSize /\ n <= Len(file)
  BY <1>1, SmallerOfTwo
<1>3. Data = SubSeq(file, file_seed + 1, n)
  BY DEF Data
<1> HIDE DEF n
<1>4. n \in Nat /\ file_seed <= n
  BY <1>1, <1>2
<1>5. \A i \in (file_seed + 1) .. n : i \in 1 .. Len(file) /\ file[i] \in Words \cup Ends
  BY <1>1, <1>2, <1>4
<1>6. /\ Data \in Seq(Words \cup Ends)
      /\ Len(Data) = n - file_seed
      /\ \A i \in 1 .. Len(Data) : Data[i] = file[file_seed + i]
  <2>1. /\ SubSeq(file, file_seed + 1, n) \in Seq(Words \cup Ends)
        /\ Len(SubSeq(file, file_seed + 1, n)) =
             IF file_seed + 1 <= n THEN n - (file_seed + 1) + 1 ELSE 0
        /\ \A i \in 1 .. n - (file_seed + 1) + 1 :
              SubSeq(file, file_seed + 1, n)[i] = file[file_seed + 1 + i - 1]
    BY <1>1, <1>4, <1>5, SubSeqProperties
  <2>2. Len(Data) = n - file_seed
    BY <2>1, <1>1, <1>3, <1>4
  <2>3. \A i \in 1 .. Len(Data) : Data[i] = file[file_seed + i]
    BY <2>1, <2>2, <1>1, <1>3, <1>4
  <2> QED
    BY <2>1, <2>2, <2>3, <1>3
<1>7. Data = <<>> => n = file_seed
  BY <1>1, <1>4, <1>6
<1> QED
  BY <1>1, <1>2, <1>4, <1>6, <1>7

\* Handling a message leaves the others where they are.
LEMMA TailComing ==
    ASSUME inbox \in Seq(Messages), inbox # <<>>, inbox' = Tail(inbox), due' = due,
           NEW event
    PROVE  /\ inbox' \in Seq(Messages)
           /\ Coming(event)' => Coming(event)
           /\ Head(inbox) # event /\ Coming(event) => Coming(event)'
<1>1. /\ Len(inbox) \in Nat /\ Len(inbox) # 0 /\ DOMAIN inbox = 1 .. Len(inbox)
      /\ Head(inbox) = inbox[1]
  OBVIOUS
<1>2. /\ Tail(inbox) \in Seq(Messages) /\ Len(Tail(inbox)) = Len(inbox) - 1
      /\ \A i \in 1 .. Len(Tail(inbox)) : Tail(inbox)[i] = inbox[i + 1]
  BY HeadTailProperties, <1>1
<1>3. DOMAIN Tail(inbox) = 1 .. Len(inbox) - 1
  BY <1>2
<1>4. ASSUME NEW i \in DOMAIN inbox', inbox'[i] = event
      PROVE  \E j \in DOMAIN inbox : inbox[j] = event
  BY <1>1, <1>2, <1>3, <1>4
<1>5. ASSUME NEW i \in DOMAIN inbox, inbox[i] = event, Head(inbox) # event
      PROVE  \E j \in DOMAIN inbox' : inbox'[j] = event
  <2>1. i # 1 /\ i - 1 \in 1 .. Len(inbox) - 1
    BY <1>1, <1>5
  <2>2. inbox'[i - 1] = event
    BY <1>1, <1>2, <1>3, <1>5, <2>1
  <2> QED
    BY <2>1, <2>2, <1>3
<1> QED
  BY <1>2, <1>4, <1>5 DEF Coming

\* A sequence holds an element.
Holds(s, e) == \E i \in DOMAIN s : s[i] = e

\* Two sequences hold together what either holds.
LEMMA HoldsTogether ==
    ASSUME NEW S, NEW s \in Seq(S), NEW t \in Seq(S), NEW e
    PROVE  /\ s \o t \in Seq(S)
           /\ Holds(s \o t, e) <=> Holds(s, e) \/ Holds(t, e)
<1>1. /\ Len(s) \in Nat /\ Len(t) \in Nat
      /\ s \o t \in Seq(S) /\ Len(s \o t) = Len(s) + Len(t)
      /\ DOMAIN s = 1 .. Len(s) /\ DOMAIN t = 1 .. Len(t)
      /\ DOMAIN (s \o t) = 1 .. Len(s) + Len(t)
  OBVIOUS
<1>2. \A i \in 1 .. Len(s) + Len(t) :
        (s \o t)[i] = IF i <= Len(s) THEN s[i] ELSE t[i - Len(s)]
  BY <1>1
<1>3. ASSUME NEW i \in 1 .. Len(s) + Len(t), (s \o t)[i] = e
      PROVE  Holds(s, e) \/ Holds(t, e)
  <2>1. CASE i <= Len(s)
    BY <1>1, <1>2, <1>3, <2>1 DEF Holds
  <2>2. CASE Len(s) < i
    <3>1. i - Len(s) \in 1 .. Len(t) /\ t[i - Len(s)] = e
      BY <1>1, <1>2, <1>3, <2>2
    <3> QED
      BY <1>1, <3>1 DEF Holds
  <2> QED
    BY <1>1, <2>1, <2>2
<1>4. ASSUME NEW i \in 1 .. Len(s), s[i] = e PROVE Holds(s \o t, e)
  <2>1. i \in 1 .. Len(s) + Len(t) /\ (s \o t)[i] = e
    BY <1>1, <1>2, <1>4
  <2> QED
    BY <1>1, <2>1 DEF Holds
<1>5. ASSUME NEW i \in 1 .. Len(t), t[i] = e PROVE Holds(s \o t, e)
  <2>1. Len(s) + i \in 1 .. Len(s) + Len(t) /\ (s \o t)[Len(s) + i] = t[i]
    BY <1>1, <1>2, <1>5
  <2> QED
    BY <1>1, <1>5, <2>1 DEF Holds
<1> QED
  BY <1>1, <1>3, <1>4, <1>5 DEF Holds

\* A message that is sent if B is delivered if B.
LEMMA HoldsIf ==
    ASSUME NEW B \in BOOLEAN, NEW x \in Messages, NEW e
    PROVE  /\ (IF B THEN <<x>> ELSE <<>>) \in Seq(Messages)
           /\ Holds(IF B THEN <<x>> ELSE <<>>, e) <=> B /\ e = x
<1>1. CASE B
  <2>1. (IF B THEN <<x>> ELSE <<>>) = <<x>>
    BY <1>1
  <2>2. DOMAIN <<x>> = {1} /\ <<x>>[1] = x /\ <<x>> \in Seq(Messages)
    OBVIOUS
  <2>3. Holds(<<x>>, e) <=> e = x
    BY <2>2 DEF Holds
  <2> QED
    BY <1>1, <2>1, <2>2, <2>3
<1>2. CASE ~B
  <2>1. (IF B THEN <<x>> ELSE <<>>) = <<>>
    BY <1>2
  <2>2. DOMAIN <<>> = {} /\ <<>> \in Seq(Messages)
    OBVIOUS
  <2>3. ~Holds(<<>>, e)
    BY <2>2 DEF Holds
  <2> QED
    BY <1>2, <2>1, <2>2, <2>3
<1> QED
  BY <1>1, <1>2

\* The messages that are delivered: stops, and what was sent about the process.
LEMMA Delivered ==
    ASSUME NEW n \in Nat, NEW m \in Nat, NEW B \in BOOLEAN, NEW C \in BOOLEAN,
           NEW q, q = Stops(n) \o (IF B THEN <<"stdout">> ELSE <<>>)
                               \o (IF C THEN <<"exit">> ELSE <<>>) \o Stops(m)
    PROVE  /\ q \in Seq(Messages)
           /\ Holds(q, "stdout") <=> B
           /\ Holds(q, "exit") <=> C
<1> DEFINE b == IF B THEN <<"stdout">> ELSE <<>>
           c == IF C THEN <<"exit">> ELSE <<>>
<1>1. \A k \in Nat : /\ Stops(k) \in Seq(Messages)
                     /\ ~Holds(Stops(k), "stdout") /\ ~Holds(Stops(k), "exit")
  BY DEF Stops, Messages, Holds
<1>2. "stdout" \in Messages /\ "exit" \in Messages /\ "stdout" # "exit"
  BY DEF Messages
<1>3. /\ b \in Seq(Messages)
      /\ \A e : Holds(b, e) <=> B /\ e = "stdout"
  BY <1>2, HoldsIf
<1>4. /\ c \in Seq(Messages)
      /\ \A e : Holds(c, e) <=> C /\ e = "exit"
  BY <1>2, HoldsIf
<1> DEFINE r == (Stops(n) \o b) \o c
<1>5. q = r \o Stops(m)
  OBVIOUS
<1> HIDE DEF b, c
<1> DEFINE a == Stops(n) \o b
<1>6. a \in Seq(Messages) /\ \A e : Holds(a, e) <=> Holds(Stops(n), e) \/ Holds(b, e)
  <2>1. Stops(n) \in Seq(Messages) /\ b \in Seq(Messages)
    BY <1>1, <1>3
  <2> QED
    BY ONLY <2>1, HoldsTogether
<1> HIDE DEF a
<1>7. r \in Seq(Messages) /\ \A e : Holds(r, e) <=> Holds(a, e) \/ Holds(c, e)
  <2>1. a \in Seq(Messages) /\ c \in Seq(Messages)
    BY <1>4, <1>6
  <2>2. r = a \o c
    BY DEF a
  <2> HIDE DEF r
  <2>3. a \o c \in Seq(Messages) /\ \A e : Holds(a \o c, e) <=> Holds(a, e) \/ Holds(c, e)
    BY ONLY <2>1, HoldsTogether
  <2> QED
    BY ONLY <2>2, <2>3
<1> HIDE DEF r
<1>8. /\ q \in Seq(Messages)
      /\ \A e : Holds(q, e) <=> Holds(r, e) \/ Holds(Stops(m), e)
  <2>1. Stops(m) \in Seq(Messages)
    BY <1>1
  <2>2. /\ r \o Stops(m) \in Seq(Messages)
        /\ \A e : Holds(r \o Stops(m), e) <=> Holds(r, e) \/ Holds(Stops(m), e)
    BY ONLY <2>1, <1>7, HoldsTogether
  <2> QED
    BY ONLY <2>2, <1>5
<1>9. Holds(q, "stdout") <=> B
  BY <1>1, <1>2, <1>3, <1>4, <1>6, <1>7, <1>8
<1>10. Holds(q, "exit") <=> C
  BY <1>1, <1>2, <1>3, <1>4, <1>6, <1>7, <1>8
<1> QED
  BY <1>8, <1>9, <1>10

\* Nothing is sent before the first step.
LEMMA InitOutput == Init => OutputInv
<1> SUFFICES ASSUME Init PROVE OutputInv
  OBVIOUS
<1>1. TurnOK
  BY DEF Init, TurnOK
<1>2. SeedOK
  BY DEF Init, SeedOK
<1>3. ~Coming("stdout") /\ ~Coming("exit")
  <2>1. DOMAIN inbox = {}
    BY DEF Init
  <2> QED
    BY <2>1 DEF Init, Coming
<1>4. kind = "stdout" => OutputOK
  BY <1>3 DEF Init, OutputOK
<1>5. penalties \in Nat
  BY DEF Init
<1> QED
  BY <1>1, <1>2, <1>4, <1>5 DEF OutputInv

\* What the watch has not to do with does not change what it has read.
LEMMA OutputStays ==
    ASSUME OutputInv,
           UNCHANGED <<kind, file, writer, due, turn, inbox, file_obj, file_seed, lost>>,
           penalties' \in Nat, file_obj \/ pieces' = pieces
    PROVE  OutputInv'
<1>1. TurnOK'
  BY DEF OutputInv, TurnOK
<1>2. SeedOK'
  BY DEF OutputInv, SeedOK
<1>3. \A event : Coming(event)' <=> Coming(event)
  BY DEF Coming
<1>4. kind' = "stdout" => OutputOK'
  BY <1>3 DEF OutputInv, OutputOK
<1> QED
  BY <1>1, <1>2, <1>4 DEF OutputInv

\* The target writes behind what was read.
LEMMA WriteOutput ==
    ASSUME OutputInv, NEW text \in Writes, Write(text)
    PROVE  OutputInv'
<1> USE DEF OutputInv
<1>1. /\ writer = "running" /\ file' = file \o text
      /\ UNCHANGED <<kind, writer, due, turn, inbox, file_obj, file_seed, pieces, lost, penalties>>
  BY DEF Write, readVars, historyVars
<1>2. TurnOK'
  BY <1>1 DEF TurnOK
<1>3. /\ file \o text \in Seq(Words \cup Ends)
      /\ Len(file \o text) = Len(file) + Len(text) /\ Len(file) \in Nat /\ Len(text) \in Nat
  BY FileAssumption DEF SeedOK
<1>4. SeedOK'
  BY <1>1, <1>3 DEF SeedOK
<1>5. \A event : Coming(event)' <=> Coming(event)
  BY <1>1 DEF Coming
<1>6. kind' = "stdout" => OutputOK'
  BY <1>1, <1>5 DEF OutputOK
<1> QED
  BY <1>1, <1>2, <1>4, <1>6

\* A process begins with an empty file and a message about it.
LEMMA StartOutput ==
    ASSUME OutputInv, TargetStarts
    PROVE  OutputInv'
<1> USE DEF OutputInv
<1>1. /\ kind = "stdout" /\ writer = "idle" /\ turn = "step"
      /\ file' = <<>> /\ writer' = "running" /\ due' = {"stdout"}
      /\ UNCHANGED <<kind, turn, inbox, file_obj, file_seed, pieces, lost, penalties>>
  BY DEF TargetStarts, readVars, historyVars
<1>2. TurnOK'
  BY <1>1 DEF TurnOK
<1>3. ~file_obj /\ ~Coming("exit")
  BY <1>1 DEF OutputOK
<1>4. SeedOK'
  BY <1>1, <1>3 DEF SeedOK
<1>5. Coming("stdout")' /\ ~Coming("exit")'
  BY <1>1, <1>3 DEF Coming
<1>6. OutputOK'
  BY <1>1, <1>3, <1>5 DEF OutputOK
<1> QED
  BY <1>1, <1>2, <1>4, <1>6

\* A process ends with a message, or was killed.
LEMMA EndOutput ==
    ASSUME OutputInv, TargetEnds
    PROVE  OutputInv'
<1> USE DEF OutputInv
<1>1. /\ kind = "stdout" /\ writer = "running" /\ turn = "step" /\ writer' = "ended"
      /\ (due' = due \/ due' = due \cup {"exit"})
      /\ UNCHANGED <<kind, file, turn, inbox, file_obj, file_seed, pieces, lost, penalties>>
  <2>1. PICK announced \in SUBSET {"exit"} : due' = due \cup announced
    BY DEF TargetEnds
  <2>2. announced = {} \/ announced = {"exit"}
    BY <2>1
  <2> QED
    BY <2>1, <2>2 DEF TargetEnds, readVars, historyVars
<1>2. TurnOK'
  BY <1>1 DEF TurnOK
<1>3. SeedOK'
  BY <1>1 DEF SeedOK
<1>4. Coming("stdout") => Coming("stdout")'
  BY <1>1 DEF Coming
<1>5. OutputOK'
  BY <1>1, <1>4 DEF OutputOK
<1> QED
  BY <1>1, <1>2, <1>3, <1>5

\* What was sent in a step is in the mailbox in the next.
LEMMA DeliverOutput ==
    ASSUME OutputInv, Deliver
    PROVE  OutputInv'
<1> USE DEF OutputInv
<1>1. /\ turn = "step" /\ due' = {} /\ turn' = "mail"
      /\ UNCHANGED <<kind, file, writer, file_obj, file_seed, pieces, lost, penalties>>
  BY DEF Deliver, fileVars, readVars, historyVars
<1>2. PICK n \in Nat, m \in Nat :
        inbox' = Stops(n) \o (IF "stdout" \in due THEN <<"stdout">> ELSE <<>>)
                          \o (IF "exit" \in due THEN <<"exit">> ELSE <<>>) \o Stops(m)
  <2>1. PICK before \in 0..(StopBound - penalties) :
          \E after \in 0..(StopBound - penalties - before) :
             inbox' = Stops(before) \o (IF "stdout" \in due THEN <<"stdout">> ELSE <<>>)
                        \o (IF "exit" \in due THEN <<"exit">> ELSE <<>>) \o Stops(after)
    BY DEF Deliver
  <2>2. PICK after \in 0..(StopBound - penalties - before) :
          inbox' = Stops(before) \o (IF "stdout" \in due THEN <<"stdout">> ELSE <<>>)
                     \o (IF "exit" \in due THEN <<"exit">> ELSE <<>>) \o Stops(after)
    BY <2>1
  <2>3. before \in Nat /\ after \in Nat
    BY FileAssumption
  <2> QED
    BY <2>2, <2>3
<1>3. /\ inbox' \in Seq(Messages)
      /\ Holds(inbox', "stdout") <=> "stdout" \in due
      /\ Holds(inbox', "exit") <=> "exit" \in due
  <2>1. \A B, C \in BOOLEAN : \A q :
          q = Stops(n) \o (IF B THEN <<"stdout">> ELSE <<>>)
                       \o (IF C THEN <<"exit">> ELSE <<>>) \o Stops(m) =>
          /\ q \in Seq(Messages)
          /\ Holds(q, "stdout") <=> B
          /\ Holds(q, "exit") <=> C
    BY Delivered
  <2> QED
    BY <1>2, <2>1
<1>4. inbox = <<>>
  BY <1>1 DEF TurnOK
<1>5. /\ Coming("stdout")' <=> Coming("stdout")
      /\ Coming("exit")' <=> Coming("exit")
  <2>1. DOMAIN inbox = {}
    BY <1>4
  <2> QED
    BY <2>1, <1>1, <1>3 DEF Coming, Holds
<1>6. TurnOK'
  BY <1>1, <1>3 DEF TurnOK
<1>7. SeedOK'
  BY <1>1 DEF SeedOK
<1>8. kind' = "stdout" => OutputOK'
  BY <1>1, <1>5 DEF OutputOK
<1> QED
  BY <1>1, <1>6, <1>7, <1>8

\* A message was handled: a session_stop, or a new file, from which nothing is read yet.
LEMMA MailOutput ==
    ASSUME OutputInv, OnSessionStop \/ OnProcessStdout
    PROVE  OutputInv'
<1> USE DEF OutputInv
<1>1. /\ turn = "mail" /\ inbox # <<>> /\ inbox' = Tail(inbox) /\ turn' = turn
      /\ UNCHANGED <<kind, file, writer, due, pieces, lost>>
  BY DEF OnSessionStop, OnProcessStdout, NextMessage, fileVars, readVars, historyVars,
         sessionVars
<1>2. penalties' \in Nat
  BY DEF OnSessionStop, OnProcessStdout
<1>3. inbox \in Seq(Messages)
  BY DEF TurnOK
<1>4. /\ inbox' \in Seq(Messages)
      /\ \A event : /\ Coming(event)' => Coming(event)
                    /\ Head(inbox) # event /\ Coming(event) => Coming(event)'
  BY ONLY <1>1, <1>3, TailComing
<1>5. TurnOK'
  BY <1>1, <1>4 DEF TurnOK
<1>6. CASE OnSessionStop
  <2>1. /\ Head(inbox) = "stop"
        /\ UNCHANGED <<file_obj, file_seed>>
    BY <1>6 DEF OnSessionStop, NextMessage, readVars
  <2>2. SeedOK'
    BY <1>1, <2>1 DEF SeedOK
  <2>3. /\ Coming("stdout")' <=> Coming("stdout")
        /\ Coming("exit")' <=> Coming("exit")
    BY <1>4, <2>1
  <2>4. kind' = "stdout" => OutputOK'
    BY <1>1, <2>1, <2>3 DEF OutputOK
  <2> QED
    BY <1>2, <1>5, <2>2, <2>4
<1>7. CASE OnProcessStdout
  <2>1. /\ Head(inbox) = "stdout"
        /\ file_obj' = TRUE
        /\ file_seed' = IF kind = "tail" THEN Len(file) ELSE 0
    BY <1>7 DEF OnProcessStdout, NextMessage, Prepared
  <2>2. SeedOK'
    <3>1. file \in Seq(Words \cup Ends) /\ Len(file) \in Nat
      BY DEF SeedOK
    <3> QED
      BY <1>1, <2>1, <3>1 DEF SeedOK
  <2>3. Coming("stdout")
    <3>1. Len(inbox) \in Nat /\ 1 \in DOMAIN inbox /\ inbox[1] = "stdout"
      BY <1>1, <1>3, <2>1
    <3> QED
      BY <3>1 DEF Coming
  <2>4. Coming("exit")' => Coming("exit")
    BY <1>4
  <2>5. kind' = "stdout" => OutputOK'
    BY <1>1, <2>1, <2>3, <2>4 DEF OutputOK
  <2> QED
    BY <1>2, <1>5, <2>2, <2>5
<1> QED
  BY <1>6, <1>7

\* The end of the process is told after it.
LEMMA ExitOutput ==
    ASSUME OutputInv, OnProcessExit
    PROVE  OutputInv'
<1> USE DEF OutputInv
<1>1. /\ turn = "mail" /\ inbox # <<>> /\ Head(inbox) = "exit"
      /\ UNCHANGED <<kind, file, writer, due, file_obj, file_seed, pieces, lost, penalties>>
  BY DEF OnProcessExit, NextMessage, fileVars, scoreVars, sessionVars, historyVars
<1>2. inbox \in Seq(Messages)
  BY DEF TurnOK
<1>3. SeedOK'
  BY <1>1 DEF SeedOK
<1>4. CASE file_obj
  <2>1. turn' = "exit" /\ inbox' = inbox
    BY <1>4 DEF OnProcessExit
  <2>2. TurnOK'
    BY <1>1, <1>4, <2>1 DEF TurnOK
  <2>3. \A event : Coming(event)' <=> Coming(event)
    BY <1>1, <2>1 DEF Coming
  <2>4. Coming("exit")
    <3>1. Len(inbox) \in Nat /\ 1 \in DOMAIN inbox /\ inbox[1] = "exit"
      BY <1>1, <1>2
    <3> QED
      BY <3>1 DEF Coming
  <2>5. kind' = "stdout" => OutputOK'
    BY <1>1, <1>4, <2>1, <2>3, <2>4 DEF OutputOK
  <2> QED
    BY <1>1, <1>3, <2>2, <2>5
<1>5. CASE ~file_obj
  <2>1. turn' = "mail" /\ inbox' = Tail(inbox)
    BY <1>1, <1>5 DEF OnProcessExit
  <2>2. /\ inbox' \in Seq(Messages)
        /\ \A event : /\ Coming(event)' => Coming(event)
                      /\ Head(inbox) # event /\ Coming(event) => Coming(event)'
    BY ONLY <1>1, <1>2, <2>1, TailComing
  <2>3. TurnOK'
    BY <1>1, <2>1, <2>2 DEF TurnOK
  <2>4. /\ Coming("stdout")' <=> Coming("stdout")
        /\ Coming("exit")' => Coming("exit")
    BY <1>1, <2>2
  <2>5. kind' = "stdout" => OutputOK'
    BY <1>1, <1>5, <2>1, <2>4 DEF OutputOK
  <2> QED
    BY <1>1, <1>3, <2>3, <2>5
<1> QED
  BY <1>4, <1>5

\* The mailbox was read.
LEMMA ReadMailOutput ==
    ASSUME OutputInv, MailboxRead
    PROVE  OutputInv'
<1> USE DEF OutputInv
<1>1. /\ turn = "mail" /\ inbox = <<>> /\ turn' = IF file_obj THEN "live" ELSE "session"
      /\ UNCHANGED <<kind, file, writer, due, inbox, file_obj, file_seed, pieces, lost, penalties>>
  BY DEF MailboxRead, fileVars, scoreVars, sessionVars, historyVars
<1>2. TurnOK'
  BY <1>1 DEF TurnOK
<1>3. SeedOK'
  BY <1>1 DEF SeedOK
<1>4. \A event : Coming(event)' <=> Coming(event)
  BY <1>1 DEF Coming
<1>5. kind' = "stdout" => OutputOK'
  BY <1>1, <1>4 DEF OutputOK
<1> QED
  BY <1>1, <1>2, <1>3, <1>5

\* Data is read and cut into lines.
LEMMA DataOutput ==
    ASSUME OutputInv, ReadData
    PROVE  OutputInv'
<1> USE DEF OutputInv
<1>1. /\ turn \in {"live", "exit"} /\ file_seed' = file_seed + Len(Data)
      /\ UNCHANGED <<kind, file, writer, due, turn, inbox, file_obj, lost, penalties>>
  BY DEF ReadData, Reading, fileVars, historyVars
<1>2. file_obj
  BY <1>1 DEF TurnOK
<1>3. /\ Len(Data) \in Nat /\ file_seed \in Nat /\ Len(file) \in Nat
      /\ file_seed + Len(Data) <= Len(file)
  BY <1>2, DataFacts DEF SeedOK
<1>4. TurnOK'
  BY <1>1 DEF TurnOK
<1>5. SeedOK'
  BY <1>1, <1>3 DEF SeedOK
<1>6. \A event : Coming(event)' <=> Coming(event)
  BY <1>1 DEF Coming
<1>7. kind' = "stdout" => OutputOK'
  BY <1>1, <1>2, <1>6 DEF OutputOK
<1> QED
  BY <1>1, <1>4, <1>5, <1>7

\* live() returns: in the end of the process the file is closed, and was read to
\* its end unless something was given up.
LEMMA ReturnsOutput ==
    ASSUME OutputInv, EndOfFile \/ TooSlow \/ ReadFails \/ Break
    PROVE  OutputInv'
<1> USE DEF OutputInv
<1>1. /\ turn \in {"live", "exit"}
      /\ UNCHANGED <<kind, file, writer, due, file_seed, penalties>>
  BY DEF EndOfFile, TooSlow, ReadFails, Break, Reading, fileVars, readVars, historyVars
<1>2. file_obj
  BY <1>1 DEF TurnOK
<1>3. /\ turn = "exit" =>
           /\ turn' = "mail" /\ inbox' = Tail(inbox) /\ file_obj' = FALSE
      /\ turn = "live" =>
           /\ turn' = "session" /\ inbox' = inbox
           /\ file_obj' = file_obj \/ "failed" \in lost'
  BY DEF EndOfFile, TooSlow, ReadFails, Break, Returns
<1>4. SeedOK'
  <2>1. file_obj' => file_obj
    BY <1>2
  <2> QED
    BY <1>1, <2>1 DEF SeedOK
<1>5. lost' = {} /\ turn = "exit" => lost = {} /\ pieces' = <<>> /\ file_seed = Len(file)
  <2>1. CASE EndOfFile
    <3>1. pieces' = <<>> /\ Data = <<>> /\ lost' = lost
      BY <2>1 DEF EndOfFile, readVars, historyVars
    <3> QED
      BY <1>2, <3>1, DataFacts
  <2>2. CASE TooSlow
    <3>1. pieces' = <<>>
      BY <2>2 DEF TooSlow, readVars
    <3>2. lost' = {} /\ turn = "exit" => Data = <<>> /\ lost = {}
      BY <2>2 DEF TooSlow
    <3> QED
      BY <1>2, <3>1, <3>2, DataFacts
  <2>3. CASE ReadFails \/ Break
    <3>1. lost' # {}
      BY <2>3 DEF ReadFails, Break
    <3> QED
      BY <3>1
  <2> QED
    BY <2>1, <2>2, <2>3
<1>6. lost' = {} => lost = {}
  BY DEF EndOfFile, TooSlow, ReadFails, Break, historyVars
<1>7. CASE turn = "live"
  <2>1. TurnOK'
    BY <1>1, <1>3, <1>7 DEF TurnOK
  <2>2. \A event : Coming(event)' <=> Coming(event)
    BY <1>1, <1>3, <1>7 DEF Coming
  <2>3. lost' = {} => file_obj'
    BY <1>2, <1>3, <1>7
  <2>4. kind' = "stdout" => OutputOK'
    BY <1>1, <1>2, <1>3, <1>6, <1>7, <2>2, <2>3 DEF OutputOK
  <2> QED
    BY <1>1, <1>4, <2>1, <2>4
<1>8. CASE turn = "exit"
  <2>1. inbox \in Seq(Messages) /\ inbox # <<>> /\ inbox' = Tail(inbox) /\ due' = due
    BY <1>1, <1>3, <1>8 DEF TurnOK
  <2>2. /\ inbox' \in Seq(Messages)
        /\ \A event : Coming(event)' => Coming(event)
    BY ONLY <2>1, TailComing
  <2>3. TurnOK'
    BY <1>1, <1>3, <1>8, <2>2 DEF TurnOK
  <2>4. kind' = "stdout" => OutputOK'
    BY <1>1, <1>2, <1>3, <1>5, <1>8, <2>2 DEF OutputOK
  <2> QED
    BY <1>1, <1>4, <2>3, <2>4
<1> QED
  BY <1>1, <1>7, <1>8

\* The session is judged, or a step begins.
LEMMA SessionOutput ==
    ASSUME OutputInv, SessionTurn
    PROVE  OutputInv'
<1> USE DEF OutputInv
<1>1. /\ turn = "session" /\ turn' = "step"
      /\ UNCHANGED <<kind, file, writer, due, inbox, file_obj, file_seed, pieces, lost, penalties>>
  BY DEF SessionTurn, fileVars, readVars, historyVars
<1>2. TurnOK'
  BY <1>1 DEF TurnOK
<1>3. SeedOK'
  BY <1>1 DEF SeedOK
<1>4. \A event : Coming(event)' <=> Coming(event)
  BY <1>1 DEF Coming
<1>5. kind' = "stdout" => OutputOK'
  BY <1>1, <1>4 DEF OutputOK
<1> QED
  BY <1>1, <1>2, <1>3, <1>5

\* The output of a process does not outlive its session.
LEMMA NewSessionOutput ==
    ASSUME OutputInv, NewSession
    PROVE  OutputInv'
<1> USE DEF OutputInv
<1>1. /\ turn = "step" /\ due' = {} /\ penalties' = 0
      /\ file_obj' = (file_obj /\ kind # "stdout")
      /\ file_seed' = IF file_obj' THEN IF kind = "tail" THEN Len(file) ELSE 0 ELSE file_seed
      /\ kind = "stdout" => writer' = "idle"
      /\ UNCHANGED <<kind, file, turn, inbox, pieces>>
  BY DEF NewSession, Prepared
<1>2. TurnOK'
  BY <1>1 DEF TurnOK
<1>3. SeedOK'
  <2>1. Len(file) \in Nat
    BY DEF SeedOK
  <2> QED
    BY <1>1, <2>1 DEF SeedOK
<1>4. inbox = <<>> /\ DOMAIN inbox = {}
  BY <1>1 DEF TurnOK
<1>5. ~Coming("stdout")' /\ ~Coming("exit")'
  BY <1>1, <1>4 DEF Coming
<1>6. kind' = "stdout" => OutputOK'
  BY <1>1, <1>5 DEF OutputOK
<1> QED
  BY <1>1, <1>2, <1>3, <1>6

\* Every step of the watch, the target and the sessions.
LEMMA NextOutput == OutputInv /\ [Next]_vars => OutputInv'
<1> SUFFICES ASSUME OutputInv, [Next]_vars PROVE OutputInv'
  OBVIOUS
<1>1. CASE \E text \in Writes : Write(text)
  BY <1>1, WriteOutput
<1>2. CASE TargetStarts \/ TargetEnds \/ NewSession
  BY <1>2, StartOutput, EndOutput, NewSessionOutput
<1>3. CASE Deliver \/ OnSessionStop \/ OnProcessStdout \/ OnProcessExit \/ MailboxRead
  BY <1>3, DeliverOutput, MailOutput, ExitOutput, ReadMailOutput
<1>4. CASE ReadData \/ EndOfFile \/ TooSlow \/ ReadFails \/ Break \/ SessionTurn
  BY <1>4, DataOutput, ReturnsOutput, SessionOutput
<1>5. CASE KeepTail \/ Yield
  <2>1. /\ turn \in {"live", "exit"}
        /\ UNCHANGED <<kind, file, writer, due, turn, inbox, file_obj, file_seed, lost,
                       penalties>>
    BY <1>5 DEF KeepTail, Yield, Reading, fileVars, historyVars
  <2>2. file_obj /\ penalties \in Nat
    BY <2>1 DEF OutputInv, TurnOK
  <2> QED
    BY <2>1, <2>2, OutputStays
<1>6. CASE UNCHANGED vars
  <2>1. /\ penalties' \in Nat /\ pieces' = pieces
        /\ UNCHANGED <<kind, file, writer, due, turn, inbox, file_obj, file_seed, lost>>
    BY <1>6 DEF vars, OutputInv
  <2> QED
    BY <2>1, OutputStays
<1> QED
  BY <1>1, <1>2, <1>3, <1>4, <1>5, <1>6 DEF Next, Loop

\* When a session is judged nothing is on its way to the watch.
LEMMA OutputJudged ==
    ASSUME OutputInv, [Next]_vars, judged' \notin {judged, NoScore},
           kind = "stdout", writer = "ended", ~file_obj, lost = {}
    PROVE  file_seed = Len(file) /\ pieces = <<>>
<1>1. SessionTurn
  BY DEF Next, Loop, vars, sessionVars, Write, TargetStarts, TargetEnds, Deliver,
         OnSessionStop, OnProcessStdout, OnProcessExit, MailboxRead, ReadData, EndOfFile,
         TooSlow, ReadFails, KeepTail, Yield, Break, NewSession
<1>2. turn = "session"
  BY <1>1 DEF SessionTurn
<1>3. due = {} /\ inbox = <<>> /\ DOMAIN inbox = {}
  BY <1>2 DEF OutputInv, TurnOK
<1>4. ~Coming("stdout")
  BY <1>3 DEF Coming
<1> QED
  BY <1>4 DEF OutputInv, OutputOK

\* What is on its way to the watch, how far it has read, and when a file is closed.
THEOREM OutputInvariance == Spec => []OutputInv
<1>1. Init => OutputInv
  BY InitOutput
<1>2. OutputInv /\ [Next]_vars => OutputInv'
  BY NextOutput
<1> QED
  BY <1>1, <1>2, PTL DEF Spec

\* A session whose process has ended, and whose file was closed without giving up
\* anything, is judged on the whole output.
THEOREM OutputIsJudged == Spec => JudgedOnOutput
<1>1. OutputInv /\ [Next]_vars =>
        [judged' \notin {judged, NoScore} /\ kind = "stdout" /\ writer = "ended"
           /\ ~file_obj /\ lost = {} => file_seed = Len(file) /\ pieces = <<>>]_vars
  BY OutputJudged
<1> QED
  BY <1>1, OutputInvariance, PTL DEF Spec, JudgedOnOutput


-----------------------------------------------------------------------------
(* The text read so far, and what was counted of it.                       *)

\* The text between two places.
LEMMA TextBetween ==
    ASSUME NEW text \in Text, NEW o \in Nat, NEW a \in Nat, o <= a, a <= Len(text) \/ o = a
    PROVE  SubSeq(text, o + 1, a) \in Text /\ Len(SubSeq(text, o + 1, a)) = a - o
<1>1. CASE o = a
  <2>1. SubSeq(text, o + 1, a) = <<>>
    <3>1. a < o + 1 /\ o + 1 \in Int /\ a \in Int
      BY <1>1
    <3> QED
      BY ONLY <3>1, SubSeqEmpty
  <2> QED
    BY <1>1, <2>1 DEF Text
<1>2. CASE o # a
  <2>1. o < a /\ a <= Len(text)
    BY <1>2
  <2> QED
    BY ONLY text \in Text, o \in Nat, a \in Nat, <2>1, PartOfText
<1> QED
  BY <1>1, <1>2

\* A text up to a place goes on with the text up to the next.
LEMMA TextGoesOn ==
    ASSUME NEW text \in Text, NEW o \in Nat, NEW a \in Nat, NEW c \in Nat,
           o <= a, a < c, c <= Len(text)
    PROVE  /\ SubSeq(text, o + 1, a) \in Text
           /\ SubSeq(text, o + 1, c) = SubSeq(text, o + 1, a) \o SubSeq(text, a + 1, c)
<1> DEFINE r == SubSeq(text, o + 1, a)
           s == SubSeq(text, a + 1, c)
           u == SubSeq(text, o + 1, c)
<1>1. Len(text) \in Nat /\ a <= Len(text) /\ o < c
  BY DEF Text
<1>2. r \in Text /\ Len(r) = a - o
  BY ONLY text \in Text, o \in Nat, a \in Nat, o <= a, <1>1, TextBetween
<1>3. \A i \in 1 .. (a - o) : r[i] = text[o + i]
  <2>1. CASE o = a
    BY <2>1
  <2>2. CASE o # a
    <3>1. o < a
      BY <2>2
    <3> QED
      BY ONLY text \in Text, o \in Nat, a \in Nat, <3>1, <1>1, PartOfText
  <2> QED
    BY <2>1, <2>2
<1>4. s \in Text /\ Len(s) = c - a /\ \A i \in 1 .. (c - a) : s[i] = text[a + i]
  BY ONLY text \in Text, a \in Nat, c \in Nat, a < c, c <= Len(text), PartOfText
<1>5. u \in Text /\ Len(u) = c - o /\ \A i \in 1 .. (c - o) : u[i] = text[o + i]
  BY ONLY text \in Text, o \in Nat, c \in Nat, <1>1, c <= Len(text), PartOfText
<1> HIDE DEF r, s, u
<1>6. /\ r \o s \in Seq(Words \cup Ends) /\ Len(r \o s) = Len(r) + Len(s)
      /\ \A i \in 1 .. Len(r) + Len(s) :
            (r \o s)[i] = IF i <= Len(r) THEN r[i] ELSE s[i - Len(r)]
  BY ONLY <1>2, <1>4, ConcatProperties DEF Text
<1> DEFINE q == r \o s
<1> HIDE DEF q
<1>7. q \in Seq(Words \cup Ends) /\ u \in Seq(Words \cup Ends) /\ Len(u) = Len(q)
  BY <1>2, <1>4, <1>5, <1>6 DEF Text, q
<1>8. ASSUME NEW i \in 1 .. (c - o) PROVE u[i] = q[i]
  <2>1. i \in 1 .. Len(r) + Len(s)
    BY <1>2, <1>4
  <2>2. CASE i <= a - o
    <3>1. i \in 1 .. (a - o) /\ i <= Len(r)
      BY <1>2, <2>2
    <3> QED
      BY <1>3, <1>5, <1>6, <2>1, <3>1 DEF q
  <2>3. CASE ~(i <= a - o)
    <3>1. i - Len(r) \in 1 .. (c - a) /\ a + (i - Len(r)) = o + i /\ ~(i <= Len(r))
      BY <1>2, <2>3
    <3>2. s[i - Len(r)] = text[o + i]
      BY <1>4, <3>1
    <3> QED
      BY <1>5, <1>6, <2>1, <3>1, <3>2 DEF q
  <2> QED
    BY <2>2, <2>3
<1>9. \A i \in 1 .. Len(u) : u[i] = q[i]
  BY <1>5, <1>8
<1>10. u = q
  BY ONLY <1>7, <1>9, SeqEqual
<1> QED
  BY <1>2, <1>10 DEF r, s, u, q

\* What was counted is what the text has; the rest of the score is the penalties and
\* at most one bonus.
Counted(T, total, nb, value, unset, stops) ==
    /\ Readable(T)
    /\ nb = Cardinality(ScoredIn(T))
    /\ Cardinality(CompleteIn(T)) <= total
    /\ WithoutReturn(T) => total = Cardinality(CompleteIn(T))
    /\ \E bonus \in {0, MaxScore} :
          /\ value = stops * MinScore + ScoreIn(T) + bonus
          /\ bonus # 0 => MaxLines <= total
          /\ ~unset => bonus = 0

\* The buffer is the beginning of a line that the text has not ended.
Buffered(T, rest) == IF EndsOpen(T) THEN rest = LastLine(T) ELSE rest = <<>>

\* Nothing is counted of an empty text.
LEMMA NothingCounted ==
    ASSUME NEW unset
    PROVE  Counted(<<>>, 0, 0, 0, unset, 0) /\ Buffered(<<>>, <<>>)
<1>1. Cardinality({}) = 0
  BY FS_EmptySet
<1>2. 0 = 0 * MinScore + 0 + 0
  BY LineScoreAssumption
<1>3. /\ CompleteIn(<<>>) = {} /\ ScoredIn(<<>>) = {} /\ Readable(<<>>)
      /\ ScoreIn(<<>>) = 0 /\ ~EndsOpen(<<>>)
  BY EmptyText
<1>4. \E bonus \in {0, MaxScore} :
        /\ 0 = 0 * MinScore + ScoreIn(<<>>) + bonus
        /\ bonus # 0 => MaxLines <= 0
        /\ ~unset => bonus = 0
  BY <1>2, <1>3
<1>5. Counted(<<>>, 0, 0, 0, unset, 0)
  <2> DEFINE e == <<>>
             c == Cardinality(CompleteIn(e))
             d == Cardinality(ScoredIn(e))
  <2>1. c = 0 /\ d = 0
    BY <1>1, <1>3
  <2>2. 0 = d /\ c <= 0 /\ 0 = c /\ Readable(e)
    BY <1>3, <2>1
  <2>3. \E bonus \in {0, MaxScore} :
          /\ 0 = 0 * MinScore + ScoreIn(e) + bonus
          /\ bonus # 0 => MaxLines <= 0
          /\ ~unset => bonus = 0
    BY ONLY <1>4
  <2> HIDE DEF e
  <2>4. Counted(e, 0, 0, 0, unset, 0)
    BY ONLY <2>2, <2>3 DEF Counted
  <2> QED
    BY <2>4 DEF e
<1> QED
  BY <1>3, <1>5 DEF Buffered

\* What is counted is a number.
LEMMA ScoreInIsInt == ASSUME NEW T \in Text, Readable(T) PROVE ScoreIn(T) \in Int
<1>1. IsFiniteSet(ScoredIn(T)) /\ ScoreIn(T) = Total(Scores(T), ScoredIn(T))
  BY FinitelyMany, ScoreIsTotal
<1>2. \A i \in ScoredIn(T) : Scores(T)[i] \in Int
  BY DEF Scores, Readable
<1> QED
  BY <1>1, <1>2, TotalFacts

\* A stop before the minimum of lines adds a penalty.
LEMMA StopCounted ==
    ASSUME NEW T \in Text, NEW total, NEW nb, NEW value, NEW unset, NEW stops \in Nat,
           Counted(T, total, nb, value, unset, stops)
    PROVE  Counted(T, total, nb, value + MinScore, unset, stops + 1)
<1>1. PICK bonus \in {0, MaxScore} :
        /\ value = stops * MinScore + ScoreIn(T) + bonus
        /\ bonus # 0 => MaxLines <= total
        /\ ~unset => bonus = 0
  BY DEF Counted
<1>2. ScoreIn(T) \in Int /\ MinScore \in Int /\ bonus \in Int
  BY ScoreInIsInt, LineScoreAssumption DEF Counted
<1> DEFINE a == stops * MinScore
           b == (stops + 1) * MinScore
<1>3. a \in Int /\ b = a + MinScore
  BY <1>2
<1> HIDE DEF a, b
<1>4. value + MinScore = b + ScoreIn(T) + bonus
  BY <1>1, <1>2, <1>3 DEF a
<1> QED
  BY <1>1, <1>4 DEF Counted, b

\* A line is counted, with its score and the bonus of the maximum.
LEMMA LineCounted ==
    ASSUME NEW T \in Text, NEW p \in Text, p # <<>>, Unbroken(p), Complete(p),
           NEW total \in Nat, NEW nb, NEW value, NEW unset, NEW stops \in Nat,
           NEW rest \in Seq(Words), Counted(T, total, nb, value, unset, stops),
           Buffered(T, rest), NEW s, s = Strip(IF rest # <<>> THEN rest \o p ELSE p),
           NEW unset2, NEW total2, NEW nb2, NEW value2,
           unset2 <=> unset \/ MaxLines <= total + 1,
           total2 = total + 1,
           nb2 = nb + (IF IsIgnored(s) THEN 0 ELSE 1),
           value2 = value + (IF ~unset /\ MaxLines <= total + 1 THEN MaxScore ELSE 0)
                          + (IF IsIgnored(s) THEN 0 ELSE LineScore(s))
    PROVE  /\ Counted(T \o p, total2, nb2, value2, unset2, stops)
           /\ Buffered(T \o p, <<>>) /\ ~EndsOpen(T \o p)
<1> DEFINE q == T \o p
           more == IF IsIgnored(s) THEN 0 ELSE LineScore(s)
           one == IF IsIgnored(s) THEN 0 ELSE 1
           long == ~unset /\ MaxLines <= total + 1
           gain == IF long THEN MaxScore ELSE 0
           all == Cardinality(CompleteIn(T))
           scored == Cardinality(ScoredIn(T))
           sum == ScoreIn(T)
           pen == stops * MinScore
<1>1. Readable(T)
  BY DEF Counted
<1>2. EndsOpen(T) => LastLine(T) \in Seq(Words) /\ LastLine(T) = rest
  BY DEF Buffered
<1>3. s = Strip(LineWith(T, p))
  <2>1. CASE EndsOpen(T)
    <3>1. rest \o p = LineWith(T, p)
      BY <1>2, <2>1 DEF LineWith
    <3>2. rest = <<>> => rest \o p = p
      BY ConcatEmptySeq DEF Text
    <3> QED
      BY <3>1, <3>2
  <2>2. CASE ~EndsOpen(T)
    BY <2>2 DEF Buffered, LineWith
  <2> QED
    BY <2>1, <2>2
<1>4. /\ Readable(q) /\ ~EndsOpen(q)
      /\ ~IsIgnored(s) => LineScore(s) \in Int
      /\ \/ Cardinality(CompleteIn(q)) = all + 1
         \/ Cardinality(CompleteIn(q)) = all /\ ~WithoutReturn(T)
      /\ Cardinality(ScoredIn(q)) = scored + one
      /\ ScoreIn(q) = sum + more
  <2>1. EndsOpen(T) => LastLine(T) \in Seq(Words)
    BY <1>2
  <2>2. s = Strip(LineWith(T, p))
    BY <1>3
  <2> QED
    BY ONLY T \in Text, p \in Text, p # <<>>, Unbroken(p), Complete(p), <1>1, <2>1, <2>2,
            PieceCounts
<1>5. all \in Nat /\ scored \in Nat
  BY FinitelyMany
<1>6. sum \in Int
  <2>1. IsFiniteSet(ScoredIn(T)) /\ sum = Total(Scores(T), ScoredIn(T))
    BY <1>1, FinitelyMany, ScoreIsTotal
  <2>2. \A i \in ScoredIn(T) : Scores(T)[i] \in Int
    BY <1>1 DEF Scores, Readable
  <2> QED
    BY <2>1, <2>2, TotalFacts
<1>7. pen \in Int /\ MaxScore \in Int /\ MaxLines \in Nat /\ more \in Int
  BY <1>4, LineScoreAssumption
<1>8. WithoutReturn(q) => WithoutReturn(T)
  <2>1. \A i \in DOMAIN T : i \in DOMAIN q /\ q[i] = T[i]
    BY DEF Text
  <2> QED
    BY <2>1 DEF WithoutReturn
<1>9. PICK bonus \in {0, MaxScore} :
        /\ value = pen + sum + bonus
        /\ bonus # 0 => MaxLines <= total
        /\ ~unset => bonus = 0
  BY DEF Counted
<1>10. nb = scored /\ all <= total /\ (WithoutReturn(T) => total = all)
  BY DEF Counted
<1> HIDE DEF q, more, one, all, scored, sum, pen
<1>11. \E extra \in {0, MaxScore} :
         /\ value + gain + more = pen + (sum + more) + extra
         /\ extra # 0 => MaxLines <= total + 1
         /\ ~(unset \/ long) => extra = 0
  <2>1. CASE long
    <3>1. ~unset /\ MaxLines <= total + 1 /\ bonus = 0
      BY <1>9, <2>1
    <3>2. value + gain + more = pen + (sum + more) + MaxScore
      BY <1>6, <1>7, <1>9, <2>1, <3>1
    <3> QED
      BY <2>1, <3>1, <3>2
  <2>2. CASE ~long
    <3>1. value + gain + more = pen + (sum + more) + bonus
      BY <1>6, <1>7, <1>9, <2>2
    <3>2. bonus # 0 => MaxLines <= total + 1
      BY <1>7, <1>9
    <3>3. ~(unset \/ long) => bonus = 0
      BY <1>9
    <3> HIDE DEF gain
    <3> QED
      BY <1>9, <3>1, <3>2, <3>3
  <2> QED
    BY <2>1, <2>2
<1>12. Cardinality(CompleteIn(q)) <= total + 1
  BY <1>4, <1>5, <1>10
<1>13. WithoutReturn(q) => total + 1 = Cardinality(CompleteIn(q))
  BY <1>4, <1>8, <1>10
<1> HIDE DEF gain, long
<1>14. Counted(q, total2, nb2, value2, unset2, stops)
  <2>1. nb2 = nb + one /\ value2 = value + gain + more /\ (~unset2 => ~(unset \/ long))
    BY DEF one, gain, more, long
  <2> QED
    BY <1>4, <1>10, <1>11, <1>12, <1>13, <2>1 DEF Counted, pen
<1>15. Buffered(q, <<>>)
  BY <1>4 DEF Buffered
<1> QED
  BY <1>4, <1>14, <1>15 DEF q

\* A piece without an end is kept, and not counted.
LEMMA PieceKept ==
    ASSUME NEW T \in Text, NEW p \in Text, p # <<>>, Unbroken(p), ~Complete(p),
           NEW total, NEW nb, NEW value, NEW unset, NEW stops,
           NEW rest \in Seq(Words), Counted(T, total, nb, value, unset, stops),
           Buffered(T, rest)
    PROVE  /\ Counted(T \o p, total, nb, value, unset, stops)
           /\ Buffered(T \o p, rest \o p)
<1> DEFINE q == T \o p
<1>1. Readable(T)
  BY DEF Counted
<1>2. EndsOpen(T) => LastLine(T) \in Seq(Words) /\ LastLine(T) = rest
  BY DEF Buffered
<1>3. /\ Readable(q) /\ EndsOpen(q)
      /\ LastLine(q) = LineWith(T, p)
      /\ CompleteIn(q) = CompleteIn(T) /\ ScoredIn(q) = ScoredIn(T)
      /\ ScoreIn(q) = ScoreIn(T)
  <2>1. EndsOpen(T) => LastLine(T) \in Seq(Words)
    BY <1>2
  <2> DEFINE s == Strip(LineWith(T, p))
  <2>2. s = Strip(LineWith(T, p))
    OBVIOUS
  <2> HIDE DEF s
  <2> QED
    BY ONLY T \in Text, p \in Text, p # <<>>, Unbroken(p), ~Complete(p), <1>1, <2>1, <2>2,
            PieceCounts
<1>4. rest \o p = LineWith(T, p)
  <2>1. CASE EndsOpen(T)
    BY <1>2, <2>1 DEF LineWith
  <2>2. CASE ~EndsOpen(T)
    <3>1. rest = <<>> /\ LineWith(T, p) = p
      BY <2>2 DEF Buffered, LineWith
    <3>2. <<>> \o p = p
      BY ConcatEmptySeq DEF Text
    <3> QED
      BY <3>1, <3>2
  <2> QED
    BY <2>1, <2>2
<1>5. WithoutReturn(q) => WithoutReturn(T)
  <2>1. \A i \in DOMAIN T : i \in DOMAIN q /\ q[i] = T[i]
    BY DEF Text
  <2> QED
    BY <2>1 DEF WithoutReturn
<1> HIDE DEF q
<1>6. Counted(q, total, nb, value, unset, stops)
  BY <1>3, <1>5 DEF Counted
<1>7. Buffered(q, rest \o p)
  BY <1>3, <1>4 DEF Buffered
<1> QED
  BY <1>6, <1>7 DEF q

-----------------------------------------------------------------------------
(* The invariant of the counts.                                            *)

\* How far the lines were taken from the generators, and the text up to there.
Place == file_seed - Pending
ReadText == SubSeq(file, origin + 1, Place)

\* An element is at most once in a sequence.
Once(s, e) == \A i, j \in DOMAIN s : s[i] = e /\ s[j] = e => i = j

\* Only live() has pieces; the message of a new file comes at most once, and before
\* anything is read in the session.
MailOK ==
    /\ turn \notin {"live", "exit"} => pieces = <<>>
    /\ Once(inbox, "stdout")
    /\ kind # "stdout" => ~Coming("stdout")
    /\ kind = "stdout" /\ (writer = "idle" \/ Coming("stdout")) =>
          ~file_obj /\ origin = file_seed

\* The pieces are the part of the file from the place up to what was read.
PiecesOK ==
    /\ Place \in Nat /\ origin <= Place
    /\ file_seed <= Len(file) \/ origin = file_seed
    /\ PiecesFit(file, Place, file_seed, pieces)

\* Unless lines were given up, what was counted is the text of the session up to the
\* place, and the buffer is the line that it has not ended, which only splitlines()
\* that begins may go on with.
CountOK ==
    lost = {} =>
        /\ Counted(ReadText, total_line, nb_line, score, ~max_nb_line, penalties)
        /\ Buffered(ReadText, buffer)
        /\ EndsOpen(ReadText) => pieces = <<>> \/ first

LinesInv == TypeOK /\ MailOK /\ PiecesOK /\ CountOK

\* The place of the watch, in the words of the lemmas.
LEMMA PlaceIs ==
    Place = file_seed - PendingIn(pieces) /\ Place' = file_seed' - PendingIn(pieces')
<1>1. Pending = PendingIn(pieces)
  BY DEF Pending, PendingIn, MapThenSumSet, MapThenFoldSet
<1>2. Pending' = PendingIn(pieces')
  BY DEF Pending, PendingIn, MapThenSumSet, MapThenFoldSet
<1> QED
  BY <1>1, <1>2 DEF Place

\* The place of pieces that fit.
LEMMA PlaceFits ==
    ASSUME NEW text \in Text, NEW from, NEW to \in Nat, NEW ps \in Seq(Text),
           PiecesFit(text, from, to, ps), ps # <<>> => to <= Len(text)
    PROVE  to - PendingIn(ps) = from /\ from \in 0 .. to
<1>1. PendingIn(ps) = to - from /\ from \in 0 .. to
  BY ONLY text \in Text, to \in Nat, ps \in Seq(Text), PiecesFit(text, from, to, ps),
          ps # <<>> => to <= Len(text), LengthsPending
<1> QED
  BY <1>1

\* A message that comes once still does when the first is taken.
LEMMA OnceTail ==
    ASSUME NEW S, NEW s \in Seq(S), s # <<>>, NEW e, Once(s, e)
    PROVE  Once(Tail(s), e) /\ (Head(s) = e => ~Holds(Tail(s), e))
<1> DEFINE r == Tail(s)
           n == Len(s)
<1>1. /\ n \in Nat /\ n # 0 /\ DOMAIN s = 1 .. n /\ Head(s) = s[1]
  OBVIOUS
<1>2. r \in Seq(S) /\ Len(r) = n - 1 /\ \A i \in 1 .. Len(r) : r[i] = s[i + 1]
  BY HeadTailProperties
<1>3. DOMAIN r = 1 .. n - 1
  BY <1>2
<1> HIDE DEF r, n
<1>4. \A i \in 1 .. n - 1 : r[i] = s[i + 1] /\ i + 1 \in 1 .. n /\ i + 1 # 1
  BY <1>1, <1>2
<1>5. \A i, j \in 1 .. n : s[i] = e /\ s[j] = e => i = j
  BY <1>1 DEF Once
<1>6. Once(r, e)
  <2> SUFFICES ASSUME NEW i \in 1 .. n - 1, NEW j \in 1 .. n - 1, r[i] = e, r[j] = e
               PROVE  i = j
    BY <1>3 DEF Once
  <2>1. i + 1 = j + 1
    BY <1>4, <1>5
  <2> QED
    BY <1>1, <2>1
<1>7. Head(s) = e => ~Holds(r, e)
  <2> SUFFICES ASSUME s[1] = e, NEW i \in 1 .. n - 1, r[i] = e PROVE FALSE
    BY <1>1, <1>3 DEF Holds
  <2>1. 1 \in 1 .. n
    BY <1>1
  <2> QED
    BY <1>4, <1>5, <2>1
<1> QED
  BY <1>6, <1>7 DEF r

\* A message that one of two sequences has, and once, comes once in both together.
LEMMA OnceTogether ==
    ASSUME NEW S, NEW s \in Seq(S), NEW t \in Seq(S), NEW e,
           (Once(s, e) /\ ~Holds(t, e)) \/ (~Holds(s, e) /\ Once(t, e))
    PROVE  Once(s \o t, e)
<1> DEFINE n == Len(s)
           m == Len(t)
           q == s \o t
<1>1. /\ n \in Nat /\ m \in Nat /\ DOMAIN s = 1 .. n /\ DOMAIN t = 1 .. m
      /\ DOMAIN q = 1 .. n + m
  OBVIOUS
<1>2. \A i \in 1 .. n + m : q[i] = IF i <= n THEN s[i] ELSE t[i - n]
  BY ONLY s \in Seq(S), t \in Seq(S), ConcatProperties
<1> HIDE DEF n, m, q
<1>3. ASSUME NEW i \in 1 .. n + m
      PROVE  (i \in 1 .. n /\ q[i] = s[i]) \/ (i - n \in 1 .. m /\ q[i] = t[i - n])
  <2>1. CASE i <= n
    BY <1>1, <1>2, <2>1
  <2>2. CASE ~(i <= n)
    BY <1>1, <1>2, <2>2
  <2> QED
    BY <2>1, <2>2
<1> SUFFICES ASSUME NEW i \in 1 .. n + m, NEW j \in 1 .. n + m, q[i] = e, q[j] = e
             PROVE  i = j
  BY <1>1 DEF Once, q
<1>4. CASE Once(s, e) /\ ~Holds(t, e)
  <2>1. \A k \in 1 .. m : t[k] # e
    BY <1>1, <1>4 DEF Holds
  <2>2. i \in 1 .. n /\ s[i] = e /\ j \in 1 .. n /\ s[j] = e
    BY <1>3, <2>1
  <2> QED
    BY <1>1, <1>4, <2>2 DEF Once
<1>5. CASE ~Holds(s, e) /\ Once(t, e)
  <2>1. \A k \in 1 .. n : s[k] # e
    BY <1>1, <1>5 DEF Holds
  <2>2. i - n \in 1 .. m /\ t[i - n] = e /\ j - n \in 1 .. m /\ t[j - n] = e
    BY <1>3, <2>1
  <2>3. i - n = j - n
    BY <1>1, <1>5, <2>2 DEF Once
  <2> QED
    BY <1>1, <2>3
<1> QED
  BY <1>4, <1>5

\* process_stdout comes once in what is delivered.
LEMMA OnceDelivered ==
    ASSUME NEW n \in Nat, NEW m \in Nat, NEW B \in BOOLEAN, NEW C \in BOOLEAN,
           NEW q, q = Stops(n) \o (IF B THEN <<"stdout">> ELSE <<>>)
                               \o (IF C THEN <<"exit">> ELSE <<>>) \o Stops(m)
    PROVE  Once(q, "stdout")
<1> DEFINE b == IF B THEN <<"stdout">> ELSE <<>>
           c == IF C THEN <<"exit">> ELSE <<>>
           r == (Stops(n) \o b) \o c
<1>1. \A k \in Nat : Stops(k) \in Seq(Messages) /\ ~Holds(Stops(k), "stdout")
  BY DEF Stops, Messages, Holds
<1>2. "stdout" \in Messages /\ "exit" \in Messages /\ "stdout" # "exit"
  BY DEF Messages
<1>3. b \in Seq(Messages) /\ Once(b, "stdout")
  <2>1. CASE B
    <3>1. b = <<"stdout">> /\ DOMAIN <<"stdout">> = {1} /\ <<"stdout">> \in Seq(Messages)
      BY <1>2, <2>1
    <3> QED
      BY <3>1 DEF Once
  <2>2. CASE ~B
    <3>1. b = <<>> /\ DOMAIN <<>> = {} /\ <<>> \in Seq(Messages)
      BY <2>2
    <3> QED
      BY <3>1 DEF Once
  <2> QED
    BY <2>1, <2>2
<1>4. c \in Seq(Messages) /\ ~Holds(c, "stdout")
  BY <1>2, HoldsIf
<1> HIDE DEF b, c
<1>5. Stops(n) \in Seq(Messages) /\ ~Holds(Stops(n), "stdout")
  BY <1>1
<1>6. Stops(m) \in Seq(Messages) /\ ~Holds(Stops(m), "stdout")
  BY <1>1
<1>7. Stops(n) \o b \in Seq(Messages) /\ Once(Stops(n) \o b, "stdout")
  BY ONLY <1>3, <1>5, OnceTogether, ConcatProperties
<1>8. r \in Seq(Messages) /\ Once(r, "stdout")
  BY ONLY <1>4, <1>7, OnceTogether, ConcatProperties
<1>9. q = r \o Stops(m)
  BY DEF b, c
<1> HIDE DEF r
<1>10. Once(r \o Stops(m), "stdout")
  BY ONLY <1>6, <1>8, OnceTogether
<1> QED
  BY <1>9, <1>10

\* What does not touch the text, the pieces and the counts.
LEMMA TextStays ==
    ASSUME PiecesOK, CountOK,
           UNCHANGED <<file, origin, file_seed, pieces, buffer, total_line, nb_line, score,
                       max_nb_line, penalties>>,
           first' \in {first, TRUE}, lost' = {} => lost = {}
    PROVE  PiecesOK' /\ CountOK'
<1>1. Place' = Place
  BY PlaceIs
<1>2. ReadText' = ReadText
  BY <1>1 DEF ReadText
<1> QED
  BY <1>1, <1>2 DEF PiecesOK, CountOK

\* Nothing is between a place and itself.
LEMMA NothingBetween == ASSUME NEW text, NEW o \in Nat PROVE SubSeq(text, o + 1, o) = <<>>
<1>1. o + 1 \in Int /\ o \in Int /\ o < o + 1
  OBVIOUS
<1> QED
  BY ONLY <1>1, SubSeqEmpty

\* What the first state has.
LEMMA InitLines == Init => LinesInv
<1> SUFFICES ASSUME Init PROVE LinesInv
  OBVIOUS
<1> USE DEF Init
<1>1. TypeOK
  <2>1. sessions \in 1 .. SessionBound
    BY FileAssumption
  <2>2. writer \in {"idle", "running", "ended"} /\ file_obj \in BOOLEAN
    OBVIOUS
  <2>3. /\ file \in Seq(Words \cup Ends) /\ buffer \in Seq(Words)
        /\ pieces \in Seq(Seq(Words \cup Ends)) /\ inbox \in Seq(Messages)
    OBVIOUS
  <2>4. judged \in Int \cup {NoScore}
    OBVIOUS
  <2>6. /\ kind \in Kinds /\ due \subseteq {"stdout", "exit"}
        /\ lost \subseteq {"score", "slow", "failed"}
    OBVIOUS
  <2>5. /\ turn \in {"mail", "live", "exit", "session", "step"}
        /\ file_seed \in Nat
        /\ total_line \in Nat /\ nb_line \in Nat /\ score \in Int
        /\ origin \in Nat /\ penalties \in Nat
    OBVIOUS
  <2>7. first \in BOOLEAN /\ max_nb_line \in BOOLEAN /\ stopping \in BOOLEAN
    OBVIOUS
  <2> QED
    BY ONLY <2>1, <2>2, <2>3, <2>4, <2>5, <2>6, <2>7 DEF TypeOK
<1>2. MailOK
  <2>1. DOMAIN inbox = {} /\ ~Coming("stdout")
    BY DEF Coming
  <2> QED
    BY <2>1 DEF MailOK, Once
<1>3. PiecesFit(file, 0, 0, <<>>) /\ PendingIn(<<>>) = 0
  BY NothingLeft
<1>4. Place = 0
  BY <1>3, PlaceIs
<1>5. PiecesOK
  BY <1>3, <1>4 DEF PiecesOK
<1>6. ReadText = <<>>
  BY <1>4, NothingBetween DEF ReadText
<1>7. Counted(<<>>, 0, 0, 0, ~max_nb_line, 0) /\ Buffered(<<>>, <<>>)
  BY NothingCounted
<1>8. CountOK
  BY <1>6, <1>7 DEF CountOK
<1> QED
  BY <1>1, <1>2, <1>5, <1>8 DEF LinesInv

\* Nothing is pending without pieces.
LEMMA NoPieces ==
    ASSUME PiecesOK, file \in Text, file_seed \in Nat, pieces = <<>>
    PROVE  Place = file_seed /\ origin <= file_seed
<1>1. PendingIn(<<>>) = 0
  BY NothingLeft
<1>2. Place = file_seed
  BY <1>1, PlaceIs
<1> QED
  BY <1>2 DEF PiecesOK

\* The target writes behind the text.
LEMMA WriteLines ==
    ASSUME OutputInv, OutputInv', LinesInv, NEW text \in Writes, Write(text)
    PROVE  LinesInv'
<1> USE DEF LinesInv
<1>1. /\ writer = "running" /\ pieces = <<>> /\ file' = file \o text
      /\ UNCHANGED <<kind, writer, due, turn, inbox, file_obj, file_seed, buffer, pieces,
                     first, total_line, nb_line, score, max_nb_line, sessions, stopping,
                     judged, origin, lost, penalties>>
  BY DEF Write, readVars, scoreVars, sessionVars, historyVars
<1>2. file \in Text /\ file' \in Text /\ file_seed \in Nat
  BY DEF OutputInv, SeedOK, Text
<1>3. TypeOK'
  BY <1>1, <1>2 DEF TypeOK, Text
<1>4. MailOK'
  BY <1>1 DEF MailOK, Coming
<1>5. Place = file_seed /\ Place' = file_seed /\ origin <= file_seed
  <2>1. Place = file_seed /\ origin <= file_seed
    BY <1>1, <1>2, NoPieces
  <2>2. Place' = Place
    BY <1>1, PlaceIs
  <2> QED
    BY <2>1, <2>2
<1>6. text \in Text /\ Len(file) \in Nat /\ Len(file') = Len(file) + Len(text) /\ Len(text) \in Nat
  BY <1>1, <1>2, FileAssumption DEF Text
<1>7. PiecesOK'
  <2>1. PiecesFit(file', file_seed, file_seed, <<>>)
    BY <1>2, NothingLeft
  <2>2. file_seed <= Len(file') \/ origin = file_seed
    BY <1>2, <1>6 DEF PiecesOK
  <2> QED
    BY <1>1, <1>2, <1>5, <2>1, <2>2 DEF PiecesOK
<1>8. ReadText' = ReadText
  <2>1. origin \in Nat
    BY DEF TypeOK
  <2>2. CASE origin = file_seed
    <3>1. /\ SubSeq(file, file_seed + 1, file_seed) = <<>>
          /\ SubSeq(file', file_seed + 1, file_seed) = <<>>
      BY <1>2, NothingBetween
    <3> QED
      BY <1>1, <1>5, <2>2, <3>1 DEF ReadText
  <2>3. CASE origin # file_seed
    <3>1. origin < file_seed /\ file_seed <= Len(file)
      BY <1>2, <1>5, <2>1, <2>3 DEF PiecesOK
    <3>2. SubSeq(file \o text, origin + 1, file_seed) = SubSeq(file, origin + 1, file_seed)
      BY ONLY <1>2, <1>6, <2>1, <3>1, PartStays
    <3> QED
      BY <1>1, <1>5, <3>2 DEF ReadText
  <2> QED
    BY <2>2, <2>3
<1>9. CountOK'
  BY <1>1, <1>8 DEF CountOK
<1> QED
  BY <1>3, <1>4, <1>7, <1>9

\* A process begins before anything is read in the session.
LEMMA StartLines ==
    ASSUME OutputInv, OutputInv', LinesInv, TargetStarts
    PROVE  LinesInv'
<1> USE DEF LinesInv
<1>1. /\ kind = "stdout" /\ writer = "idle" /\ turn = "step"
      /\ file' = <<>> /\ writer' = "running" /\ due' = {"stdout"}
      /\ UNCHANGED <<kind, turn, inbox, file_obj, file_seed, buffer, pieces, first,
                     total_line, nb_line, score, max_nb_line, sessions, stopping, judged,
                     origin, lost, penalties>>
  BY DEF TargetStarts, readVars, scoreVars, sessionVars, historyVars
<1>2. file \in Text /\ file' \in Text /\ file_seed \in Nat
  BY DEF OutputInv, SeedOK, Text
<1>3. TypeOK'
  BY <1>1, <1>2 DEF TypeOK, Text
<1>4. pieces = <<>> /\ ~file_obj /\ origin = file_seed
  BY <1>1 DEF MailOK
<1>5. MailOK'
  BY <1>1, <1>4 DEF MailOK
<1>6. Place = file_seed /\ Place' = file_seed
  <2>1. Place = file_seed
    BY <1>2, <1>4, NoPieces
  <2>2. Place' = Place
    BY <1>1, PlaceIs
  <2> QED
    BY <2>1, <2>2
<1>7. PiecesOK'
  <2>1. PiecesFit(file', file_seed, file_seed, <<>>)
    BY <1>2, NothingLeft
  <2> QED
    BY <1>1, <1>2, <1>4, <1>6, <2>1 DEF PiecesOK
<1>8. ReadText = <<>> /\ ReadText' = <<>>
  BY <1>1, <1>2, <1>4, <1>6, NothingBetween DEF ReadText
<1>9. CountOK'
  BY <1>1, <1>8 DEF CountOK
<1> QED
  BY <1>3, <1>5, <1>7, <1>9

\* A session begins with no text.
LEMMA NewSessionLines ==
    ASSUME OutputInv, OutputInv', LinesInv, NewSession
    PROVE  LinesInv'
<1> USE DEF LinesInv
<1>1. /\ turn = "step" /\ sessions < SessionBound
      /\ sessions' = sessions + 1 /\ judged' = NoScore
      /\ writer' = IF kind = "stdout" THEN "idle" ELSE writer
      /\ due' = {}
      /\ file_obj' = (file_obj /\ kind # "stdout")
      /\ file_seed' = IF file_obj' THEN IF kind = "tail" THEN Len(file) ELSE 0 ELSE file_seed
      /\ buffer' = <<>> /\ total_line' = 0 /\ nb_line' = 0 /\ score' = 0
      /\ origin' = IF ~file_obj' THEN file_seed ELSE IF kind = "tail" THEN Len(file) ELSE 0
      /\ lost' = IF kind = "stdout" THEN {} ELSE lost \cap {"failed"}
      /\ penalties' = 0
      /\ UNCHANGED <<kind, file, turn, inbox, pieces, first, max_nb_line, stopping>>
  BY DEF NewSession, Prepared
<1>2. file \in Text /\ file_seed \in Nat /\ file_seed' \in Nat /\ Len(file) \in Nat
  BY DEF OutputInv, SeedOK, Text
<1>3. pieces = <<>> /\ inbox = <<>> /\ DOMAIN inbox = {}
  BY <1>1 DEF MailOK, OutputInv, TurnOK
<1>4. origin' = file_seed'
  BY <1>1
<1>5. TypeOK'
  <2>1. sessions' \in 1 .. SessionBound
    BY <1>1, FileAssumption DEF TypeOK
  <2>2. writer' \in {"idle", "running", "ended"} /\ lost' \subseteq {"score", "slow", "failed"}
    BY <1>1 DEF TypeOK
  <2>3. file_obj' \in BOOLEAN
    BY <1>1
  <2>4. buffer' \in Seq(Words) /\ due' \subseteq {"stdout", "exit"}
    BY <1>1
  <2> QED
    BY <1>1, <1>2, <1>4, <2>1, <2>2, <2>3, <2>4 DEF TypeOK
<1>6. ~Coming("stdout")'
  BY <1>1, <1>3 DEF Coming
<1>7. MailOK'
  <2>1. Once(inbox', "stdout")
    BY <1>1, <1>3 DEF Once
  <2>2. kind' = "stdout" => ~file_obj'
    BY <1>1
  <2> QED
    BY <1>1, <1>3, <1>4, <1>6, <2>1, <2>2 DEF MailOK
<1>8. Place' = file_seed'
  <2>1. PendingIn(<<>>) = 0
    BY NothingLeft
  <2> QED
    BY <1>1, <1>2, <1>3, <2>1, PlaceIs
<1>9. PiecesOK'
  <2>1. PiecesFit(file', file_seed', file_seed', <<>>)
    BY <1>2, NothingLeft
  <2> QED
    BY <1>1, <1>2, <1>3, <1>4, <1>8, <2>1 DEF PiecesOK
<1>10. ReadText' = <<>>
  BY <1>2, <1>4, <1>8, NothingBetween DEF ReadText
<1>11. Counted(<<>>, 0, 0, 0, ~max_nb_line', 0) /\ Buffered(<<>>, <<>>)
  BY NothingCounted
<1>12. CountOK'
  BY <1>1, <1>3, <1>10, <1>11 DEF CountOK
<1> QED
  BY <1>5, <1>7, <1>9, <1>12

\* What was sent is delivered; the messages of a step.
LEMMA DeliverLines ==
    ASSUME OutputInv, OutputInv', LinesInv, Deliver
    PROVE  LinesInv'
<1> USE DEF LinesInv
<1>1. /\ turn = "step" /\ due' = {} /\ turn' = "mail"
      /\ stopping' \in BOOLEAN
      /\ UNCHANGED <<kind, file, writer, file_obj, file_seed, buffer, pieces, first,
                     total_line, nb_line, score, max_nb_line, sessions, judged,
                     origin, lost, penalties>>
  BY DEF Deliver, fileVars, readVars, scoreVars, historyVars
<1>2. PICK n \in Nat, m \in Nat :
        inbox' = Stops(n) \o (IF "stdout" \in due THEN <<"stdout">> ELSE <<>>)
                          \o (IF "exit" \in due THEN <<"exit">> ELSE <<>>) \o Stops(m)
  <2>1. PICK before \in 0..(StopBound - penalties) :
          \E after \in 0..(StopBound - penalties - before) :
             inbox' = Stops(before) \o (IF "stdout" \in due THEN <<"stdout">> ELSE <<>>)
                        \o (IF "exit" \in due THEN <<"exit">> ELSE <<>>) \o Stops(after)
    BY DEF Deliver
  <2>2. PICK after \in 0..(StopBound - penalties - before) :
          inbox' = Stops(before) \o (IF "stdout" \in due THEN <<"stdout">> ELSE <<>>)
                     \o (IF "exit" \in due THEN <<"exit">> ELSE <<>>) \o Stops(after)
    BY <2>1
  <2>3. before \in Nat /\ after \in Nat
    BY FileAssumption
  <2> QED
    BY <2>2, <2>3
<1>3. Once(inbox', "stdout") /\ (Holds(inbox', "stdout") <=> "stdout" \in due)
  <2>1. \A B, C \in BOOLEAN : \A q :
          q = Stops(n) \o (IF B THEN <<"stdout">> ELSE <<>>)
                       \o (IF C THEN <<"exit">> ELSE <<>>) \o Stops(m) =>
          Once(q, "stdout") /\ (Holds(q, "stdout") <=> B)
    BY Delivered, OnceDelivered
  <2> QED
    BY <1>2, <2>1
<1>4. Coming("stdout")' => Coming("stdout")
  BY <1>1, <1>3 DEF Coming, Holds
<1>5. inbox' \in Seq(Messages)
  BY DEF OutputInv, TurnOK
<1>6. TypeOK'
  BY <1>1, <1>5 DEF TypeOK
<1>7. MailOK'
  BY <1>1, <1>3, <1>4 DEF MailOK
<1>8. PiecesOK' /\ CountOK'
  BY <1>1, TextStays
<1> QED
  BY <1>6, <1>7, <1>8

\* The steps that only read the mailbox, end a read or judge the session.
LEMMA QuietLines ==
    ASSUME OutputInv, OutputInv', LinesInv,
           TargetEnds \/ OnProcessExit \/ MailboxRead \/ EndOfFile \/ TooSlow \/ ReadFails
             \/ SessionTurn \/ UNCHANGED vars
    PROVE  LinesInv'
<1> USE DEF LinesInv
<1>1. UNCHANGED <<kind, file, file_seed, buffer, pieces, total_line, nb_line, score,
                  max_nb_line, sessions, origin, penalties>>
  <2>1. CASE TargetEnds \/ UNCHANGED vars
    BY <2>1 DEF TargetEnds, vars, readVars, scoreVars, sessionVars, historyVars
  <2>2. CASE OnProcessExit \/ MailboxRead
    BY <2>2 DEF OnProcessExit, MailboxRead, fileVars, scoreVars, sessionVars, historyVars
  <2>3. CASE EndOfFile \/ TooSlow \/ ReadFails
    BY <2>3 DEF EndOfFile, TooSlow, ReadFails, fileVars, readVars, scoreVars, sessionVars,
                historyVars
  <2>4. CASE SessionTurn
    BY <2>4 DEF SessionTurn, fileVars, readVars, scoreVars, historyVars
  <2> QED
    BY <2>1, <2>2, <2>3, <2>4
<1>2. first' \in {first, TRUE} /\ (lost' = {} => lost = {})
      /\ lost' \subseteq lost \cup {"slow", "failed"}
  <2>1. CASE TargetEnds \/ UNCHANGED vars
    BY <2>1 DEF TargetEnds, vars, readVars, historyVars
  <2>2. CASE OnProcessExit \/ MailboxRead
    BY <2>2 DEF OnProcessExit, MailboxRead, historyVars
  <2>3. CASE EndOfFile \/ TooSlow \/ ReadFails
    BY <2>3 DEF EndOfFile, TooSlow, ReadFails, readVars, historyVars
  <2>4. CASE SessionTurn
    BY <2>4 DEF SessionTurn, readVars, historyVars
  <2> QED
    BY <2>1, <2>2, <2>3, <2>4
<1>3. PiecesOK' /\ CountOK'
  BY <1>1, <1>2, TextStays
<1>4. /\ writer' \in {writer, "ended"}
      /\ due' = due \/ due' = due \cup {"exit"}
      /\ inbox' = inbox \/ (inbox # <<>> /\ inbox' = Tail(inbox) /\ due' = due)
      /\ file_obj' = file_obj \/ file_obj' = FALSE
      /\ stopping' \in {stopping, FALSE} /\ judged' \in {judged, score}
  <2>1. CASE TargetEnds \/ UNCHANGED vars
    <3>1. CASE TargetEnds
      <4>1. PICK announced \in SUBSET {"exit"} : due' = due \cup announced
        BY <3>1 DEF TargetEnds
      <4>2. due' = due \/ due' = due \cup {"exit"}
        <5>1. announced = {} \/ announced = {"exit"}
          OBVIOUS
        <5> QED
          BY <4>1, <5>1
      <4> QED
        BY <3>1, <4>2 DEF TargetEnds, sessionVars
    <3>2. CASE UNCHANGED vars
      BY <3>2 DEF vars
    <3> QED
      BY <2>1, <3>1, <3>2
  <2>2. CASE OnProcessExit \/ MailboxRead
    BY <2>2 DEF OnProcessExit, NextMessage, MailboxRead, fileVars, sessionVars
  <2>3. CASE EndOfFile \/ TooSlow \/ ReadFails
    <3>1. turn = "exit" => inbox # <<>>
      BY DEF OutputInv, TurnOK
    <3> QED
      BY <2>3, <3>1 DEF EndOfFile, TooSlow, ReadFails, Returns, fileVars, sessionVars
  <2>4. CASE SessionTurn
    BY <2>4 DEF SessionTurn, fileVars
  <2> QED
    BY <2>1, <2>2, <2>3, <2>4
<1>5. inbox \in Seq(Messages) /\ inbox' \in Seq(Messages)
      /\ turn' \in {"mail", "live", "exit", "session", "step"}
  BY DEF OutputInv, TurnOK
<1>6. TypeOK'
  <2>1. /\ writer' \in {"idle", "running", "ended"} /\ due' \subseteq {"stdout", "exit"}
        /\ file_obj' \in BOOLEAN /\ first' \in BOOLEAN /\ stopping' \in BOOLEAN
        /\ lost' \subseteq {"score", "slow", "failed"}
    BY <1>2, <1>4 DEF TypeOK
  <2>2. judged' \in Int \cup {NoScore}
    BY <1>4 DEF TypeOK
  <2> QED
    BY <1>1, <1>5, <2>1, <2>2 DEF TypeOK
<1>7. Once(inbox', "stdout") /\ (Coming("stdout")' => Coming("stdout"))
  <2>1. CASE inbox' = inbox
    BY <1>4, <2>1 DEF MailOK, Coming
  <2>2. CASE inbox # <<>> /\ inbox' = Tail(inbox) /\ due' = due
    <3>1. Coming("stdout")' => Coming("stdout")
      BY ONLY <1>5, <2>2, TailComing
    <3>2. Once(inbox, "stdout")
      BY DEF MailOK
    <3>3. Once(Tail(inbox), "stdout")
      BY ONLY <1>5, <2>2, <3>2, OnceTail
    <3> QED
      BY <2>2, <3>1, <3>3
  <2> QED
    BY <1>4, <2>1, <2>2
<1>8. turn' \notin {"live", "exit"} => pieces = <<>>
  <2>1. CASE TargetEnds \/ OnProcessExit \/ MailboxRead \/ SessionTurn \/ UNCHANGED vars
    BY <2>1 DEF MailOK, TargetEnds, OnProcessExit, NextMessage, MailboxRead, SessionTurn, vars
  <2>2. CASE EndOfFile \/ TooSlow \/ ReadFails
    BY <2>2 DEF EndOfFile, TooSlow, ReadFails
  <2> QED
    BY <2>1, <2>2
<1>9. MailOK'
  <2>1. (file_obj' => file_obj) /\ (writer' = "idle" => writer = "idle")
    BY <1>4
  <2> QED
    BY <1>1, <1>7, <1>8, <2>1 DEF MailOK
<1> QED
  BY <1>3, <1>6, <1>9

\* A message of the session or of the process.
LEMMA MessageLines ==
    ASSUME OutputInv, OutputInv', LinesInv, OnSessionStop \/ OnProcessStdout
    PROVE  LinesInv'
<1> USE DEF LinesInv
<1>1. /\ turn = "mail" /\ inbox # <<>> /\ inbox' = Tail(inbox) /\ turn' = turn
      /\ UNCHANGED <<kind, file, writer, due, buffer, pieces, first, total_line, nb_line,
                     max_nb_line, sessions, stopping, judged, lost>>
  BY DEF OnSessionStop, OnProcessStdout, NextMessage, fileVars, readVars, scoreVars,
         historyVars, sessionVars
<1>2. /\ inbox \in Seq(Messages) /\ inbox' \in Seq(Messages)
      /\ file \in Text /\ file_seed \in Nat /\ file_seed' \in Nat /\ penalties' \in Nat
  BY DEF OutputInv, TurnOK, SeedOK, Text
<1>3. pieces = <<>>
  BY <1>1 DEF MailOK
<1>4. /\ Coming("stdout")' => Coming("stdout")
      /\ Once(inbox', "stdout")
      /\ Head(inbox) = "stdout" => ~Holds(Tail(inbox), "stdout")
  <2>1. Coming("stdout")' => Coming("stdout")
    BY ONLY <1>1, <1>2, TailComing
  <2>2. Once(inbox, "stdout")
    BY DEF MailOK
  <2>3. /\ Once(Tail(inbox), "stdout")
        /\ Head(inbox) = "stdout" => ~Holds(Tail(inbox), "stdout")
    BY ONLY <1>1, <1>2, <2>2, OnceTail
  <2> QED
    BY <1>1, <2>1, <2>3
<1>5. Place = file_seed /\ origin <= file_seed
  BY <1>2, <1>3, NoPieces
<1>6. CASE OnSessionStop
  <2>1. /\ UNCHANGED <<file_obj, file_seed, origin>>
        /\ \/ score' = score + MinScore /\ penalties' = penalties + 1
           \/ UNCHANGED <<score, penalties>>
    BY <1>6 DEF OnSessionStop, readVars
  <2>2. TypeOK'
    <3>1. score' \in Int
      BY <2>1, LineScoreAssumption DEF TypeOK
    <3> QED
      BY <1>1, <1>2, <2>1, <3>1 DEF TypeOK
  <2>3. MailOK'
    BY <1>1, <1>3, <1>4, <2>1 DEF MailOK
  <2>4. Place' = Place
    BY <1>1, <2>1, PlaceIs
  <2>5. PiecesOK'
    BY <1>1, <2>1, <2>4 DEF PiecesOK
  <2>6. ReadText' = ReadText
    BY <1>1, <2>1, <2>4 DEF ReadText
  <2>7. ReadText \in Text
    <3>1. origin \in Nat /\ (file_seed <= Len(file) \/ origin = file_seed)
      BY DEF TypeOK, PiecesOK
    <3> QED
      BY ONLY <1>2, <1>5, <3>1, TextBetween DEF ReadText
  <2>8. CountOK'
    <3> SUFFICES ASSUME lost = {}
                 PROVE  /\ Counted(ReadText', total_line', nb_line', score', ~max_nb_line', penalties')
                        /\ Buffered(ReadText', buffer')
                        /\ EndsOpen(ReadText') => pieces' = <<>> \/ first'
      BY <1>1 DEF CountOK
    <3>1. /\ Counted(ReadText, total_line, nb_line, score, ~max_nb_line, penalties)
          /\ Buffered(ReadText, buffer)
      BY DEF CountOK
    <3>2. Counted(ReadText, total_line, nb_line, score', ~max_nb_line, penalties')
      <4>1. CASE score' = score + MinScore /\ penalties' = penalties + 1
        <5>1. penalties \in Nat
          BY DEF TypeOK
        <5>2. Counted(ReadText, total_line, nb_line, score + MinScore, ~max_nb_line, penalties + 1)
          BY <2>7, <3>1, <5>1, StopCounted
        <5> QED
          BY <4>1, <5>2
      <4>2. CASE UNCHANGED <<score, penalties>>
        BY <3>1, <4>2
      <4> QED
        BY <2>1, <4>1, <4>2
    <3> QED
      BY <1>1, <1>3, <2>6, <3>1, <3>2
  <2> QED
    BY <2>2, <2>3, <2>5, <2>8
<1>7. CASE OnProcessStdout
  <2>1. /\ Head(inbox) = "stdout" /\ file_obj' = TRUE /\ origin' = 0
        /\ file_seed' = IF kind = "tail" THEN Len(file) ELSE 0
        /\ UNCHANGED <<score, penalties>>
    BY <1>7 DEF OnProcessStdout, NextMessage, Prepared, scoreVars
  <2>2. Coming("stdout")
    <3>1. Len(inbox) \in Nat /\ 1 \in DOMAIN inbox /\ inbox[1] = "stdout"
      BY <1>1, <1>2, <2>1
    <3> QED
      BY <3>1 DEF Coming
  <2>3. kind = "stdout" /\ origin = file_seed /\ file_seed' = 0
    BY <2>1, <2>2 DEF MailOK
  <2>4. writer # "idle" /\ due = {}
    BY <1>1, <2>2, <2>3 DEF OutputInv, OutputOK, TurnOK
  <2>5. ~Coming("stdout")'
    <3>1. ~Holds(inbox', "stdout")
      BY <1>1, <1>4, <2>1
    <3> QED
      BY <1>1, <2>4, <3>1 DEF Coming, Holds
  <2>6. TypeOK'
    <3>1. file_obj' \in BOOLEAN /\ origin' \in Nat
      BY <2>1
    <3> QED
      BY <1>1, <1>2, <2>1, <3>1 DEF TypeOK
  <2>7. MailOK'
    BY <1>1, <1>3, <1>4, <2>3, <2>4, <2>5 DEF MailOK
  <2>8. Place' = 0
    <3>1. PendingIn(<<>>) = 0
      BY NothingLeft
    <3> QED
      BY <1>1, <1>3, <2>3, <3>1, PlaceIs
  <2>9. PiecesOK'
    <3>1. PiecesFit(file', 0, 0, <<>>)
      BY NothingLeft
    <3> QED
      BY <1>1, <1>3, <2>1, <2>3, <2>8, <3>1 DEF PiecesOK
  <2>10. ReadText = <<>> /\ ReadText' = <<>>
    BY <1>2, <1>5, <2>1, <2>3, <2>8, NothingBetween DEF ReadText
  <2>11. CountOK'
    BY <1>1, <1>3, <2>1, <2>10 DEF CountOK
  <2> QED
    BY <2>6, <2>7, <2>9, <2>11
<1> QED
  BY <1>6, <1>7

\* Data is read and cut into pieces; the text up to the place is the same.
LEMMA DataLines ==
    ASSUME OutputInv, OutputInv', LinesInv, ReadData
    PROVE  LinesInv'
<1> USE DEF LinesInv
<1>1. /\ turn \in {"live", "exit"} /\ pieces = <<>>
      /\ pieces' = Split(Data) /\ first' = TRUE
      /\ file_seed' = file_seed + Len(Data)
      /\ UNCHANGED <<kind, file, writer, due, turn, inbox, file_obj, buffer, total_line,
                     nb_line, score, max_nb_line, sessions, stopping, judged, origin, lost,
                     penalties>>
  BY DEF ReadData, Reading, fileVars, scoreVars, sessionVars, historyVars
<1>2. /\ file_obj /\ SeedOK
      /\ file \in Text /\ file_seed \in Nat /\ file_seed' \in Nat /\ Len(file) \in Nat
  BY <1>1 DEF OutputInv, TurnOK, SeedOK, Text
<1>3. /\ Data \in Text /\ Len(Data) \in Nat /\ file_seed + Len(Data) <= Len(file)
      /\ \A i \in 1 .. Len(Data) : Data[i] = file[file_seed + i]
  BY <1>2, DataFacts DEF Text
<1>4. PiecesFit(file, file_seed, file_seed', pieces') /\ pieces' \in Seq(Text)
  <2>1. /\ PiecesFit(file, file_seed, file_seed + Len(Data), Split(Data))
        /\ Split(Data) \in Seq(Text)
    BY ONLY <1>2, <1>3, LinesFit
  <2> QED
    BY <1>1, <2>1
<1>5. Place = file_seed /\ origin <= file_seed
  BY <1>1, <1>2, NoPieces
<1>6. Place' = file_seed
  <2>1. file_seed' <= Len(file)
    BY <1>1, <1>3
  <2>2. file_seed' - PendingIn(pieces') = file_seed
    BY ONLY <1>2, <1>4, <2>1, PlaceFits
  <2> QED
    BY <2>2, PlaceIs
<1>7. TypeOK'
  <2>1. pieces' \in Seq(Seq(Words \cup Ends))
    BY <1>4 DEF Text
  <2> QED
    BY <1>1, <1>2, <2>1 DEF TypeOK
<1>8. MailOK'
  <2>1. \A event : Coming(event)' <=> Coming(event)
    BY <1>1 DEF Coming
  <2> QED
    BY <1>1, <1>2, <2>1 DEF MailOK
<1>9. PiecesOK'
  BY <1>1, <1>2, <1>3, <1>4, <1>5, <1>6 DEF PiecesOK
<1>10. ReadText' = ReadText
  BY <1>1, <1>5, <1>6 DEF ReadText
<1>11. CountOK'
  BY <1>1, <1>10 DEF CountOK
<1> QED
  BY <1>7, <1>8, <1>9, <1>11

\* The first of the pieces is the text behind the place.
LEMMA HeadLines ==
    ASSUME OutputInv, LinesInv, Reading, pieces # <<>>
    PROVE  /\ Head(pieces) \in Text /\ Head(pieces) # <<>> /\ Unbroken(Head(pieces))
           /\ Len(pieces) # 1 => Complete(Head(pieces))
           /\ Tail(pieces) \in Seq(Text) /\ (Len(pieces) = 1 => Tail(pieces) = <<>>)
           /\ ReadText \in Text
           /\ \E c \in Nat :
                /\ origin <= c /\ file_seed - PendingIn(Tail(pieces)) = c
                /\ PiecesFit(file, c, file_seed, Tail(pieces))
                /\ SubSeq(file, origin + 1, c) = ReadText \o Head(pieces)
<1> USE DEF LinesInv
<1>1. /\ file \in Text /\ file_seed \in Nat /\ file_seed <= Len(file) /\ Len(file) \in Nat
  BY DEF OutputInv, TurnOK, SeedOK, Text, Reading
<1>2. pieces \in Seq(Text) /\ origin \in Nat
  BY DEF TypeOK, Text
<1>3. Place \in Nat /\ origin <= Place /\ PiecesFit(file, Place, file_seed, pieces)
  BY DEF PiecesOK
<1> DEFINE p == Place
<1> HIDE DEF p
<1>4. /\ Head(pieces) \in Text /\ Head(pieces) # <<>> /\ Unbroken(Head(pieces))
      /\ Len(pieces) # 1 => Complete(Head(pieces))
      /\ Tail(pieces) \in Seq(Text) /\ (Len(pieces) = 1 => Tail(pieces) = <<>>)
      /\ \E place \in 0 .. file_seed :
           /\ p < place /\ Head(pieces) = SubSeq(file, p + 1, place)
           /\ PiecesFit(file, place, file_seed, Tail(pieces))
  <2>1. PiecesFit(file, p, file_seed, pieces)
    BY <1>3 DEF p
  <2> QED
    BY ONLY <1>1, <1>2, <2>1, pieces # <<>>, FirstPiece
<1>5. PICK c \in 0 .. file_seed :
        /\ p < c /\ Head(pieces) = SubSeq(file, p + 1, c)
        /\ PiecesFit(file, c, file_seed, Tail(pieces))
  BY <1>4
<1>6. file_seed - PendingIn(Tail(pieces)) = c
  BY ONLY <1>1, <1>4, <1>5, PlaceFits
<1>7. c \in Nat /\ p \in Nat /\ origin <= p /\ p < c /\ c <= Len(file) /\ origin <= c
  BY <1>1, <1>2, <1>3, <1>5 DEF p
<1>8. /\ SubSeq(file, origin + 1, p) \in Text
      /\ SubSeq(file, origin + 1, c) = SubSeq(file, origin + 1, p) \o SubSeq(file, p + 1, c)
  BY ONLY <1>1, <1>2, <1>7, TextGoesOn
<1>9. ReadText = SubSeq(file, origin + 1, p)
  BY DEF ReadText, p
<1>10. ReadText \in Text /\ SubSeq(file, origin + 1, c) = ReadText \o Head(pieces)
  BY <1>5, <1>8, <1>9
<1> QED
  BY <1>4, <1>5, <1>6, <1>7, <1>10

\* An incomplete piece goes into the buffer.
LEMMA KeepLines ==
    ASSUME OutputInv, OutputInv', LinesInv, KeepTail
    PROVE  LinesInv'
<1> USE DEF LinesInv
<1> DEFINE p == Head(pieces)
<1>1. /\ Reading /\ pieces # <<>> /\ Len(pieces) = 1 /\ ~Complete(p)
      /\ buffer' = buffer \o p /\ pieces' = <<>> /\ first' = FALSE
      /\ UNCHANGED <<kind, file, writer, due, turn, inbox, file_obj, file_seed, total_line,
                     nb_line, score, max_nb_line, sessions, stopping, judged, origin, lost,
                     penalties>>
  BY DEF KeepTail, Incomplete, fileVars, scoreVars, sessionVars, historyVars
<1>2. /\ p \in Text /\ p # <<>> /\ Unbroken(p) /\ Tail(pieces) = <<>>
      /\ ReadText \in Text
  BY <1>1, HeadLines
<1>3. PICK c \in Nat :
        /\ origin <= c /\ file_seed - PendingIn(<<>>) = c
        /\ PiecesFit(file, c, file_seed, <<>>)
        /\ SubSeq(file, origin + 1, c) = ReadText \o p
  BY <1>1, <1>2, HeadLines
<1>4. Place' = c
  BY <1>1, <1>3, PlaceIs
<1>5. p \in Seq(Words) /\ buffer \in Seq(Words)
  BY <1>1, <1>2, IncompleteWords DEF TypeOK
<1> HIDE DEF p
<1>6. TypeOK'
  <2>1. buffer' \in Seq(Words)
    BY <1>1, <1>5
  <2>2. pieces' \in Seq(Seq(Words \cup Ends))
    <3>1. pieces' = <<>>
      BY <1>1
    <3>2. <<>> \in Seq(Seq(Words \cup Ends))
      BY EmptySeq
    <3> QED
      BY ONLY <3>1, <3>2
  <2>4. first' \in BOOLEAN
    <3>1. first' = FALSE
      BY <1>1
    <3> QED
      BY ONLY <3>1
  <2> QED
    BY <1>1, <2>1, <2>2, <2>4 DEF TypeOK
<1>7. MailOK'
  <2>1. \A event : Coming(event)' <=> Coming(event)
    BY <1>1 DEF Coming
  <2> QED
    BY <1>1, <2>1 DEF MailOK
<1>8. PiecesOK'
  BY <1>1, <1>3, <1>4 DEF PiecesOK
<1>9. ReadText' = ReadText \o p
  BY <1>1, <1>3, <1>4 DEF ReadText
<1>10. ASSUME lost = {}
       PROVE  /\ Counted(ReadText \o p, total_line, nb_line, score, ~max_nb_line, penalties)
              /\ Buffered(ReadText \o p, buffer \o p)
  <2>1. /\ Counted(ReadText, total_line, nb_line, score, ~max_nb_line, penalties)
        /\ Buffered(ReadText, buffer)
    BY <1>10 DEF CountOK
  <2>2. ~Complete(p)
    BY <1>1 DEF p
  <2> DEFINE unset == ~max_nb_line
  <2>3. Counted(ReadText, total_line, nb_line, score, unset, penalties)
    BY <2>1
  <2> HIDE DEF unset
  <2>4. /\ Counted(ReadText \o p, total_line, nb_line, score, unset, penalties)
        /\ Buffered(ReadText \o p, buffer \o p)
    BY ONLY <1>2, <1>5, <2>1, <2>2, <2>3, PieceKept
  <2> QED
    BY <2>4 DEF unset
<1>11. CountOK'
  <2>1. buffer' = buffer \o p
    BY <1>1 DEF p
  <2> QED
    BY <1>1, <1>9, <1>10, <2>1 DEF CountOK
<1> QED
  BY <1>6, <1>7, <1>8, <1>11

\* A line is yielded and processed.
LEMMA YieldLines ==
    ASSUME OutputInv, OutputInv', LinesInv, Yield
    PROVE  LinesInv'
<1> USE DEF LinesInv
<1> DEFINE p == Head(pieces)
           s == NextLine
           ignored == IsIgnored(s)
           long == LongOutput(total_line + 1)
           one == IF ignored THEN 0 ELSE 1
           more == IF ignored THEN 0 ELSE LineScore(s)
           gain == IF long THEN MaxScore ELSE 0
<1>1. /\ Reading /\ pieces # <<>> /\ ~Incomplete
      /\ ProcessLine(s) /\ BufferTaken
      /\ pieces' = Tail(pieces) /\ first' = FALSE
      /\ UNCHANGED <<kind, file, writer, due, turn, inbox, file_obj, file_seed, sessions,
                     stopping, judged, origin, lost, penalties>>
  BY DEF Yield, fileVars, sessionVars, historyVars
<1>2. /\ p \in Text /\ p # <<>> /\ Unbroken(p) /\ Tail(pieces) \in Seq(Text)
      /\ Len(pieces) # 1 => Complete(p)
      /\ ReadText \in Text
  BY <1>1, HeadLines
<1>3. Complete(p)
  BY <1>1, <1>2 DEF Incomplete
<1>4. PICK c \in Nat :
        /\ origin <= c /\ file_seed - PendingIn(Tail(pieces)) = c
        /\ PiecesFit(file, c, file_seed, Tail(pieces))
        /\ SubSeq(file, origin + 1, c) = ReadText \o p
  BY <1>1, HeadLines
<1>5. Place' = c
  BY <1>1, <1>4, PlaceIs
<1>6. /\ total_line' = total_line + 1
      /\ max_nb_line' = (max_nb_line /\ ~long)
      /\ nb_line' = nb_line + one
      /\ score' = score + gain + more
  BY <1>1 DEF ProcessLine
<1>7. /\ buffer \in Seq(Words) /\ total_line \in Nat /\ nb_line \in Nat /\ score \in Int
      /\ max_nb_line \in BOOLEAN /\ first \in BOOLEAN /\ penalties \in Nat
  BY DEF TypeOK
<1>8. long \in BOOLEAN /\ (long <=> ~(~max_nb_line) /\ MaxLines <= total_line + 1)
  BY <1>7 DEF LongOutput
<1> HIDE DEF p, s
<1>9. s \in Seq(Words)
  <2>1. s = Strip(buffer \o p) \/ s = Strip(p)
    BY DEF s, NextLine, p
  <2>2. buffer \o p \in Text /\ Unbroken(buffer \o p)
    BY ONLY <1>2, <1>7, JoinUnbroken
  <2>3. Strip(buffer \o p) \in Seq(Words)
    BY ONLY <2>2, StripUnbroken
  <2>4. Strip(p) \in Seq(Words)
    BY ONLY <1>2, StripUnbroken
  <2> QED
    BY <2>1, <2>3, <2>4
<1>10. more \in Int /\ gain \in Int /\ one \in Nat
  <2>1. ~ignored => LineScore(s) \in Int
    BY <1>9, LineHasScore DEF IsIgnored
  <2> QED
    BY <2>1, LineScoreAssumption
<1>11. buffer' = (IF first /\ buffer # <<>> THEN <<>> ELSE buffer)
  BY <1>1 DEF BufferTaken, Joined
<1> HIDE DEF ignored, long, one, more, gain
<1>12. TypeOK'
  <2>1. buffer' \in Seq(Words)
    BY <1>7, <1>11
  <2>2. pieces' \in Seq(Seq(Words \cup Ends)) /\ first' \in BOOLEAN
    BY <1>1, <1>2 DEF Text
  <2>3. total_line' \in Nat /\ nb_line' \in Nat /\ score' \in Int
    BY <1>6, <1>7, <1>10
  <2>4. max_nb_line' \in BOOLEAN
    BY <1>6
  <2> QED
    BY <1>1, <2>1, <2>2, <2>3, <2>4 DEF TypeOK
<1>13. MailOK'
  <2>1. \A event : Coming(event)' <=> Coming(event)
    BY <1>1 DEF Coming
  <2>2. turn' \in {"live", "exit"}
    BY <1>1 DEF Reading
  <2> QED
    BY <1>1, <2>1, <2>2 DEF MailOK
<1>14. PiecesOK'
  BY <1>1, <1>4, <1>5 DEF PiecesOK
<1>15. ReadText' = ReadText \o p
  BY <1>1, <1>4, <1>5 DEF ReadText
<1>16. ASSUME lost = {}
       PROVE  /\ Counted(ReadText \o p, total_line', nb_line', score', ~max_nb_line', penalties)
              /\ Buffered(ReadText \o p, buffer') /\ ~EndsOpen(ReadText \o p)
  <2>1. /\ Counted(ReadText, total_line, nb_line, score, ~max_nb_line, penalties)
        /\ Buffered(ReadText, buffer)
        /\ EndsOpen(ReadText) => first
    BY <1>1, <1>16 DEF CountOK
  <2>2. buffer # <<>> => first
    BY <2>1 DEF Buffered
  <2>3. buffer' = <<>>
    BY <1>11, <2>2
  <2>4. s = Strip(IF buffer # <<>> THEN buffer \o p ELSE p)
    BY <2>2 DEF s, NextLine, Joined, p
  <2> DEFINE T == ReadText
             unset == ~max_nb_line
             unset2 == ~max_nb_line'
             total2 == total_line'
             nb2 == nb_line'
             value2 == score'
  <2>5. /\ T \in Text /\ p \in Text /\ p # <<>> /\ Unbroken(p) /\ Complete(p)
        /\ buffer \in Seq(Words) /\ total_line \in Nat /\ penalties \in Nat
    BY <1>2, <1>3, <1>7
  <2>6. Counted(T, total_line, nb_line, score, unset, penalties) /\ Buffered(T, buffer)
    BY <2>1
  <2>7. unset2 <=> unset \/ MaxLines <= total_line + 1
    BY <1>6, <1>8 DEF LongOutput
  <2>8. /\ total2 = total_line + 1
        /\ nb2 = nb_line + (IF IsIgnored(s) THEN 0 ELSE 1)
        /\ value2 = score + (IF ~unset /\ MaxLines <= total_line + 1 THEN MaxScore ELSE 0)
                          + (IF IsIgnored(s) THEN 0 ELSE LineScore(s))
    BY <1>6, <1>8 DEF one, more, gain, ignored
  <2> HIDE DEF T, unset, unset2, total2, nb2, value2
  <2>9. /\ Counted(T \o p, total2, nb2, value2, unset2, penalties)
        /\ Buffered(T \o p, <<>>) /\ ~EndsOpen(T \o p)
    BY ONLY <2>4, <2>5, <2>6, <2>7, <2>8, LineCounted
  <2> QED
    BY ONLY <2>3, <2>9 DEF T, unset2, total2, nb2, value2
<1>17. CountOK'
  BY <1>1, <1>15, <1>16 DEF CountOK
<1> QED
  BY <1>12, <1>13, <1>14, <1>17

\* The score is reached: the rest of the data is given up.
LEMMA BreakLines ==
    ASSUME OutputInv, OutputInv', LinesInv, Break
    PROVE  LinesInv'
<1> USE DEF LinesInv
<1>1. /\ Reading /\ pieces # <<>> /\ pieces' = <<>> /\ first' = FALSE
      /\ BufferTaken /\ Returns
      /\ lost' = lost \cup {"score"}
      /\ UNCHANGED <<kind, file, writer, due, file_seed, total_line, nb_line, score,
                     max_nb_line, sessions, stopping, judged, origin, penalties>>
  BY DEF Break, fileVars, scoreVars, sessionVars
<1>2. /\ inbox \in Seq(Messages) /\ inbox' \in Seq(Messages)
      /\ file \in Text /\ file_seed \in Nat /\ file_seed <= Len(file)
      /\ turn' \in {"mail", "live", "exit", "session", "step"}
      /\ turn = "exit" => inbox # <<>>
  BY <1>1 DEF OutputInv, TurnOK, SeedOK, Text, Reading
<1>3. /\ turn' \notin {"live", "exit"}
      /\ file_obj' \in BOOLEAN /\ (file_obj' => file_obj)
      /\ inbox' = inbox \/ (inbox # <<>> /\ inbox' = Tail(inbox) /\ due' = due)
  <2>1. file_obj \in BOOLEAN
    BY DEF TypeOK
  <2>2. CASE turn = "exit"
    BY <1>1, <1>2, <2>2 DEF Returns
  <2>3. CASE turn # "exit"
    BY <1>1, <2>1, <2>3 DEF Returns
  <2> QED
    BY <2>2, <2>3
<1>4. TypeOK'
  <2>1. buffer' \in Seq(Words)
    BY <1>1 DEF TypeOK, BufferTaken
  <2>2. pieces' \in Seq(Seq(Words \cup Ends))
    <3>1. pieces' = <<>>
      BY <1>1
    <3>2. <<>> \in Seq(Seq(Words \cup Ends))
      BY EmptySeq
    <3> QED
      BY ONLY <3>1, <3>2
  <2>4. first' \in BOOLEAN
    <3>1. first' = FALSE
      BY <1>1
    <3> QED
      BY ONLY <3>1
  <2>3. lost' \subseteq {"score", "slow", "failed"}
    BY <1>1 DEF TypeOK
  <2> QED
    BY <1>1, <1>2, <1>3, <2>1, <2>2, <2>3, <2>4 DEF TypeOK
<1>5. Once(inbox', "stdout") /\ (Coming("stdout")' => Coming("stdout"))
  <2>1. CASE inbox' = inbox
    BY <1>1, <2>1 DEF MailOK, Coming
  <2>2. CASE inbox # <<>> /\ inbox' = Tail(inbox) /\ due' = due
    <3>1. Coming("stdout")' => Coming("stdout")
      BY ONLY <1>2, <2>2, TailComing
    <3>2. Once(inbox, "stdout")
      BY DEF MailOK
    <3>3. Once(Tail(inbox), "stdout")
      BY ONLY <1>2, <2>2, <3>2, OnceTail
    <3> QED
      BY <2>2, <3>1, <3>3
  <2> QED
    BY <1>3, <2>1, <2>2
<1>6. MailOK'
  BY <1>1, <1>3, <1>5 DEF MailOK
<1>7. Place' = file_seed
  <2>1. PendingIn(<<>>) = 0
    BY NothingLeft
  <2> QED
    BY <1>1, <1>2, <2>1, PlaceIs
<1>8. PiecesOK'
  <2>1. PiecesFit(file, file_seed, file_seed, <<>>)
    BY <1>2, NothingLeft
  <2>2. origin <= file_seed
    <3>1. pieces \in Seq(Text) /\ PiecesFit(file, Place, file_seed, pieces)
          /\ Place \in Nat /\ origin <= Place /\ origin \in Nat
      BY DEF TypeOK, PiecesOK, Text
    <3> DEFINE a == Place
    <3> HIDE DEF a
    <3>2. PiecesFit(file, a, file_seed, pieces)
      BY <3>1 DEF a
    <3>3. a \in 0 .. file_seed
      BY ONLY <1>2, <3>1, <3>2, PlaceFits
    <3> QED
      BY <1>2, <3>1, <3>3 DEF a
  <2> QED
    BY <1>1, <1>2, <1>7, <2>1, <2>2 DEF PiecesOK
<1>9. CountOK'
  BY <1>1 DEF CountOK
<1> QED
  BY <1>4, <1>6, <1>8, <1>9

\* Every step of the watch, the target and the sessions.
LEMMA NextLines == OutputInv /\ OutputInv' /\ LinesInv /\ [Next]_vars => LinesInv'
<1> SUFFICES ASSUME OutputInv, OutputInv', LinesInv, [Next]_vars PROVE LinesInv'
  OBVIOUS
<1>1. CASE \E text \in Writes : Write(text)
  BY <1>1, WriteLines
<1>2. CASE TargetStarts \/ NewSession
  BY <1>2, StartLines, NewSessionLines
<1>3. CASE Deliver
  BY <1>3, DeliverLines
<1>4. CASE OnSessionStop \/ OnProcessStdout
  BY <1>4, MessageLines
<1>5. CASE TargetEnds \/ OnProcessExit \/ MailboxRead \/ EndOfFile \/ TooSlow \/ ReadFails
             \/ SessionTurn \/ UNCHANGED vars
  BY <1>5, QuietLines
<1>6. CASE ReadData
  BY <1>6, DataLines
<1>7. CASE KeepTail \/ Yield \/ Break
  BY <1>7, KeepLines, YieldLines, BreakLines
<1> QED
  BY <1>1, <1>2, <1>3, <1>4, <1>5, <1>6, <1>7 DEF Next, Loop

\* What was counted is the lines of the file.
LEMMA CountsAreLines == OutputInv /\ LinesInv => LinesScored
<1> SUFFICES ASSUME OutputInv, LinesInv PROVE LinesScored
  OBVIOUS
<1>1. TypeOK
  BY DEF LinesInv
<1>2. /\ CompleteLines = CompleteIn(ReadText) /\ ScoredLines = ScoredIn(ReadText)
      /\ LinesRead = Split(ReadText)
  <2>1. LinesRead = Split(ReadText)
    BY DEF LinesRead, ReadText, Place
  <2> QED
    BY <2>1 DEF CompleteLines, ScoredLines, CompleteIn, ScoredIn
<1>3. MapThenSumSet(LAMBDA i : LineScore(Strip(LinesRead[i])), ScoredLines) = ScoreIn(ReadText)
  BY <1>2 DEF ScoreIn, MapThenSumSet, MapThenFoldSet
<1>4. /\ file \in Text /\ file_seed \in Nat /\ origin \in Nat /\ penalties \in Nat
      /\ total_line \in Nat /\ score \in Int
  BY <1>1 DEF TypeOK, Text
<1>5. /\ Place \in Nat /\ origin <= Place /\ PiecesFit(file, Place, file_seed, pieces)
      /\ file_seed <= Len(file) \/ origin = file_seed
  BY DEF LinesInv, PiecesOK
<1>6. Place <= file_seed
  <2>1. pieces \in Seq(Text)
    BY <1>1 DEF TypeOK, Text
  <2>2. pieces # <<>> => file_seed <= Len(file)
    BY DEF LinesInv, MailOK, OutputInv, TurnOK, SeedOK
  <2> DEFINE a == Place
  <2> HIDE DEF a
  <2>3. PiecesFit(file, a, file_seed, pieces)
    BY <1>5 DEF a
  <2>4. a \in 0 .. file_seed
    BY ONLY <1>4, <2>1, <2>2, <2>3, PlaceFits
  <2> QED
    BY <1>4, <2>4 DEF a
<1>7. Len(file) \in Nat /\ (Place <= Len(file) \/ origin = Place)
  BY <1>4, <1>5, <1>6 DEF Text
<1>8. ReadText \in Text
  BY ONLY <1>4, <1>5, <1>7, TextBetween DEF ReadText
<1>9. (\A i \in DOMAIN file : file[i] # Return) => WithoutReturn(ReadText)
  <2> DEFINE a == Place
             t == SubSeq(file, origin + 1, a)
  <2>1. CASE origin = Place
    <3>1. ReadText = <<>>
      BY <1>4, <2>1, NothingBetween DEF ReadText
    <3> QED
      BY <3>1 DEF WithoutReturn
  <2>2. CASE origin # Place
    <3> HIDE DEF a
    <3>1. a \in Nat /\ origin < a /\ a <= Len(file) /\ Len(file) \in Nat
      BY <1>4, <1>5, <1>7, <2>2 DEF a
    <3>2. Len(t) = a - origin /\ \A i \in 1 .. (a - origin) : t[i] = file[origin + i]
      BY ONLY <1>4, <3>1, PartOfText
    <3>3. ReadText = t
      BY DEF ReadText, a
    <3>4. DOMAIN t = 1 .. (a - origin)
      BY <1>8, <3>2, <3>3 DEF Text
    <3>5. \A i \in 1 .. (a - origin) : origin + i \in DOMAIN file
      BY <1>4, <3>1 DEF Text
    <3> HIDE DEF t
    <3> QED
      BY <3>2, <3>3, <3>4, <3>5 DEF WithoutReturn
  <2> QED
    BY <2>1, <2>2
<1>10. lost = {} => Counted(ReadText, total_line, nb_line, score, ~max_nb_line, penalties)
  BY DEF LinesInv, CountOK
<1> SUFFICES ASSUME lost = {}
             PROVE  /\ nb_line = Cardinality(ScoredLines)
                    /\ total_line >= Cardinality(CompleteLines)
                    /\ (\A i \in DOMAIN file : file[i] # Return) =>
                           total_line = Cardinality(CompleteLines)
                    /\ score - penalties * MinScore - ScoreIn(ReadText)
                         \in IF MaxLines <= total_line THEN {0, MaxScore} ELSE {0}
  BY <1>1, <1>3 DEF LinesScored
<1>11. /\ nb_line = Cardinality(ScoredLines)
       /\ Cardinality(CompleteLines) <= total_line
       /\ WithoutReturn(ReadText) => total_line = Cardinality(CompleteLines)
  BY <1>2, <1>10 DEF Counted
<1>12. total_line >= Cardinality(CompleteLines)
  <2>1. Cardinality(CompleteLines) \in Nat
    BY <1>2, <1>8, FinitelyMany
  <2> QED
    BY <1>4, <1>11, <2>1
<1>13. PICK bonus \in {0, MaxScore} :
         /\ score = penalties * MinScore + ScoreIn(ReadText) + bonus
         /\ bonus # 0 => MaxLines <= total_line
  BY <1>10 DEF Counted
<1>14. score - penalties * MinScore - ScoreIn(ReadText) = bonus
  <2> DEFINE m == penalties * MinScore
             n == ScoreIn(ReadText)
  <2>1. m \in Int /\ n \in Int /\ bonus \in Int /\ score = m + n + bonus
    BY <1>4, <1>8, <1>10, <1>13, ScoreInIsInt, LineScoreAssumption DEF Counted
  <2> HIDE DEF m, n
  <2>2. score - m - n = bonus
    BY <2>1
  <2> QED
    BY <2>2 DEF m, n
<1>15. bonus \in IF MaxLines <= total_line THEN {0, MaxScore} ELSE {0}
  BY <1>13
<1> QED
  BY <1>9, <1>11, <1>12, <1>14, <1>15

\* What was counted is, at any time, what the file has up to the place of the watch.
THEOREM LinesInvariance == Spec => []LinesInv
<1>1. Init => LinesInv
  BY InitLines
<1>2. OutputInv /\ OutputInv' /\ LinesInv /\ [Next]_vars => LinesInv'
  BY NextLines
<1> QED
  BY <1>1, <1>2, OutputInvariance, PTL DEF Spec

\* Unless lines were given up, the lines counted and scored are those of the file in
\* the session, however the reads have cut it; the rest of the score is the penalties
\* and at most one bonus.
THEOREM LinesAreScored == Spec => []LinesScored
<1>1. OutputInv /\ LinesInv => LinesScored
  BY CountsAreLines
<1> QED
  BY <1>1, OutputInvariance, LinesInvariance, PTL

=============================================================================
