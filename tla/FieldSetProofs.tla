---------------------------- MODULE FieldSetProofs ----------------------------
(***************************************************************************)
(* Proofs of Contiguous, YieldsInOrder and SameParse for every script of a *)
(* parser and its set, every size of the stream and every order of the     *)
(* calls.                                                                  *)
(*                                                                         *)
(* FieldSetInv (4 to 7): the fields of each of the sets are a chain, from  *)
(* 0 to _current_size, with names of their own; the repairs and            *)
(* truncations give chains again, and the set that is being added is not a *)
(* field yet.  In a chain the search of getFieldByAddress (3) finds the    *)
(* field of an address, which gives Contiguous.                            *)
(*                                                                         *)
(* IterInv (8), on top of it: what an iteration has yielded is how the     *)
(* fields begin.  A step of feeding is one of the Steps: it adds at most   *)
(* one field at the end and leaves the iteration alone, unless that was    *)
(* waiting for the field.                                                  *)
(*                                                                         *)
(* SameInv (9 to 11), on top of both: the fields that a set has so far are *)
(* made of its items, and a complete one has all of them that fit, which   *)
(* is what the reference Filled says.  The size that the set gets, and     *)
(* whether its generator fails, is known beforehand (10), so the parser    *)
(* has a sequence of items as well.                                        *)
(***************************************************************************)
EXTENDS FieldSet, TLAPS, SequenceTheorems, FiniteSetTheorems, WellFoundedInduction

-----------------------------------------------------------------------------
\* 1. Numbers, without an induction theorem of the library.

\* A set of numbers that is not empty has a least.
LEMMA LeastNat ==
    ASSUME NEW T \in SUBSET Nat, T # {}
    PROVE  \E m \in T : \A n \in T : m <= n
<1> DEFINE R == OpToRel(<, Nat)
<1>1. IsWellFoundedOn(R, Nat)
  BY ONLY NatLessThanWellFounded
<1> HIDE DEF R
<1>2. PICK m \in T : \A n \in T : ~ (<<n, m>> \in R)
  BY ONLY <1>1, T \in SUBSET Nat, T # {}, WFMin
<1>3. ASSUME NEW n \in T PROVE m <= n
  <2>1. m \in Nat /\ n \in Nat
    BY <1>2, <1>3
  <2>2. n < m => <<n, m>> \in R
    BY <2>1 DEF R, OpToRel
  <2> QED
    BY <1>2, <2>1, <2>2
<1> QED
  BY <1>2, <1>3

\* What holds of 0, and of n + 1 if it holds of n, holds of all numbers up
\* to N.
LEMMA UpTo ==
    ASSUME NEW N \in Nat, NEW S, 0 \in S, \A n \in 0 .. (N - 1) : n \in S => n + 1 \in S
    PROVE  \A n \in 0 .. N : n \in S
<1> DEFINE T == (0 .. N) \ S
<1> SUFFICES ASSUME T # {} PROVE FALSE
  OBVIOUS
<1>1. PICK m \in T : \A n \in T : m <= n
  <2>1. T \in SUBSET Nat
    OBVIOUS
  <2> HIDE DEF T
  <2> QED
    BY ONLY <2>1, T # {}, LeastNat
<1>2. m # 0 /\ m - 1 \in 0 .. (N - 1) /\ m - 1 \notin T /\ (m - 1) + 1 = m
  BY <1>1
<1> QED
  BY <1>2

\* A set of numbers up to n has a greatest.
LEMMA GreatestUpTo ==
    ASSUME NEW n \in Nat, NEW S \in SUBSET (0 .. n), S # {}
    PROVE  /\ Max(S) \in S
           /\ \A y \in S : y <= Max(S)
<1> DEFINE T == {n - y : y \in S}
<1>1. PICK m \in T : \A k \in T : m <= k
  <2>0. \A y \in S : n - y \in Nat
    OBVIOUS
  <2>1. T \in SUBSET Nat /\ T # {}
    BY <2>0
  <2> HIDE DEF T
  <2> QED
    BY ONLY <2>1, LeastNat
<1>2. PICK x \in S : m = n - x
  BY <1>1
<1>3. ASSUME NEW y \in S PROVE x >= y
  <2>1. m <= n - y
    BY <1>1
  <2> QED
    BY <1>2, <2>1
<1>4. Max(S) \in S /\ \A y \in S : Max(S) >= y
  BY <1>3 DEF Max
<1> QED
  BY <1>4

-----------------------------------------------------------------------------
\* 2. Fields that follow each other.

\* The end of a field, if z is the size of the set; what follows each other from a to b.
EndOf(f, z) == f.address + (IF f.kind = "set" THEN z ELSE f.size)
HasSet(fs) == \E i \in DOMAIN fs : fs[i].kind = "set"
Chain(fs, z, a, b) ==
    /\ fs \in Seq(Fields) /\ (HasSet(fs) => z \in Nat) /\ a \in Nat /\ b \in Nat
    /\ fs = <<>> => a = b
    /\ fs # <<>> => fs[1].address = a /\ EndOf(fs[Len(fs)], z) = b
    /\ \A i \in 1 .. (Len(fs) - 1) : fs[i + 1].address = EndOf(fs[i], z)

\* The ends of the fields of a chain are numbers, not below their
\* addresses.
LEMMA EndsAreNumbers ==
    ASSUME NEW fs \in Seq(Fields), NEW z, HasSet(fs) => z \in Nat, NEW i \in DOMAIN fs
    PROVE  /\ fs[i] \in Fields /\ fs[i].address \in Nat /\ EndOf(fs[i], z) \in Nat
           /\ fs[i].address <= EndOf(fs[i], z)
<1>1. i \in 1 .. Len(fs) /\ fs[i] \in Fields
  BY LenProperties, ElementOfSeq
<1>2. fs[i].address \in Nat /\ fs[i].size \in Nat
  BY <1>1 DEF Fields
<1>3. fs[i].kind = "set" => z \in Nat
  BY DEF HasSet
<1> QED
  BY <1>1, <1>2, <1>3 DEF EndOf

\* The fields of a chain are in order.
LEMMA ChainGrows ==
    ASSUME NEW fs, NEW z, NEW a, NEW b, Chain(fs, z, a, b)
    PROVE  /\ \A i, j \in 1 .. Len(fs) :
                i <= j => /\ fs[i].address <= fs[j].address
                          /\ EndOf(fs[i], z) <= EndOf(fs[j], z)
                          /\ i < j => EndOf(fs[i], z) <= fs[j].address
           /\ \A i \in 1 .. Len(fs) : a <= fs[i].address /\ EndOf(fs[i], z) <= b
           /\ a <= b
<1> DEFINE n == Len(fs)
<1>0. /\ n \in Nat /\ DOMAIN fs = 1 .. n /\ a \in Nat /\ b \in Nat
      /\ fs = <<>> => a = b
      /\ fs # <<>> => n # 0
      /\ fs # <<>> => fs[1].address = a /\ EndOf(fs[n], z) = b
  BY LenProperties, EmptySeq DEF Chain
<1>1. ASSUME NEW i \in 1 .. n
      PROVE  /\ fs[i].address \in Nat /\ EndOf(fs[i], z) \in Nat
             /\ fs[i].address <= EndOf(fs[i], z)
  BY <1>0, <1>1, EndsAreNumbers DEF Chain
<1>2. ASSUME NEW i \in 1 .. (n - 1)
      PROVE  fs[i + 1].address = EndOf(fs[i], z)
  BY <1>2 DEF Chain
<1> DEFINE Later(i, j) == /\ fs[i].address <= fs[j].address
                          /\ EndOf(fs[i], z) <= EndOf(fs[j], z)
                          /\ i < j => EndOf(fs[i], z) <= fs[j].address
<1> HIDE DEF n
<1>3. \A i, j \in 1 .. n : i <= j => Later(i, j)
  <2> DEFINE S == {d \in 0 .. n : \A i, j \in 1 .. n : j = i + d => Later(i, j)}
  <2>1. 0 \in S
    BY <1>0, <1>1
  <2>2. ASSUME NEW d \in 0 .. (n - 1), d \in S PROVE d + 1 \in S
    <3>1. ASSUME NEW i \in 1 .. n, NEW j \in 1 .. n, j = i + (d + 1) PROVE Later(i, j)
      <4>1. j - 1 \in 1 .. (n - 1) /\ j - 1 \in 1 .. n /\ j - 1 = i + d /\ (j - 1) + 1 = j /\ i < j
        BY <1>0, <3>1
      <4>2. Later(i, j - 1)
        BY ONLY <2>2, <3>1, <4>1
      <4>3. fs[j].address = EndOf(fs[j - 1], z)
        BY ONLY <1>2, <4>1
      <4>4. /\ fs[j].address \in Nat /\ EndOf(fs[j], z) \in Nat /\ fs[j].address <= EndOf(fs[j], z)
            /\ fs[i].address \in Nat /\ EndOf(fs[i], z) \in Nat /\ fs[i].address <= EndOf(fs[i], z)
            /\ fs[j - 1].address \in Nat /\ EndOf(fs[j - 1], z) \in Nat
            /\ fs[j - 1].address <= EndOf(fs[j - 1], z)
        BY ONLY <1>1, <3>1, <4>1
      <4> QED
        BY ONLY <4>2, <4>3, <4>4
    <3> HIDE DEF Later
    <3>2. d + 1 \in 0 .. n
      BY <1>0
    <3> QED
      BY <3>1, <3>2
  <2> HIDE DEF S
  <2>3. \A d \in 0 .. n : d \in S
    BY ONLY <1>0, <2>1, <2>2, UpTo
  <2>4. ASSUME NEW i \in 1 .. n, NEW j \in 1 .. n, i <= j PROVE Later(i, j)
    <3>1. j - i \in 0 .. n /\ j = i + (j - i)
      BY <1>0, <2>4
    <3> QED
      BY ONLY <2>3, <3>1, <2>4 DEF S
  <2> QED
    BY ONLY <2>4
<1>4. ASSUME NEW i \in 1 .. n PROVE a <= fs[i].address /\ EndOf(fs[i], z) <= b
  <2>1. fs # <<>> /\ 1 \in 1 .. n /\ n \in 1 .. n /\ 1 <= i /\ i <= n
    <3>1. n # 0
      BY <1>0
    <3>2. fs # <<>>
      BY <3>1, EmptySeq DEF n
    <3> QED
      BY <1>0, <3>2
  <2> QED
    BY ONLY <1>0, <1>3, <2>1
<1>5. a <= b
  <2>1. CASE fs = <<>>
    BY <1>0, <2>1
  <2>2. CASE fs # <<>>
    <3>1. 1 \in 1 .. n
      BY <1>0, <2>2
    <3>2. a <= fs[1].address /\ EndOf(fs[1], z) <= b
      BY ONLY <1>4, <3>1
    <3> QED
      BY ONLY <1>0, <1>1, <3>1, <3>2
  <2> QED
    BY <2>1, <2>2
<1> QED
  BY ONLY <1>3, <1>4, <1>5 DEF n

\* Without a set, its size does not matter.
LEMMA ChainOfData ==
    ASSUME NEW fs, NEW y, NEW z, NEW a, NEW b, Chain(fs, y, a, b), ~HasSet(fs)
    PROVE  Chain(fs, z, a, b)
<1>0. fs \in Seq(Fields)
  BY DEF Chain
<1>1. /\ Len(fs) \in Nat /\ DOMAIN fs = 1 .. Len(fs)
      /\ fs # <<>> => Len(fs) # 0
  BY ONLY <1>0, LenProperties, EmptySeq
<1>2. \A i \in 1 .. Len(fs) : EndOf(fs[i], y) = EndOf(fs[i], z)
  BY <1>1 DEF HasSet, EndOf
<1>3. \A i \in 1 .. (Len(fs) - 1) : i \in 1 .. Len(fs)
  BY ONLY <1>1
<1>4. fs # <<>> => Len(fs) \in 1 .. Len(fs)
  BY ONLY <1>1
<1> QED
  BY <1>2, <1>3, <1>4 DEF Chain

\* A field that begins at the end is appended.
LEMMA ChainAppend ==
    ASSUME NEW fs, NEW z, NEW a, NEW b, Chain(fs, z, a, b),
           NEW f \in Fields, f.address = b, f.kind = "set" => z \in Nat
    PROVE  /\ Chain(Append(fs, f), z, a, EndOf(f, z))
           /\ HasSet(Append(fs, f)) <=> HasSet(fs) \/ f.kind = "set"
<1> DEFINE n == Len(fs)
           gs == Append(fs, f)
<1>0. fs \in Seq(Fields) /\ a \in Nat /\ b \in Nat
  BY DEF Chain
<1>1. /\ n \in Nat /\ DOMAIN fs = 1 .. n /\ (fs = <<>> => n = 0) /\ (fs # <<>> => n # 0)
      /\ gs \in Seq(Fields) /\ Len(gs) = n + 1 /\ gs # <<>> /\ DOMAIN gs = 1 .. (n + 1)
      /\ \A i \in 1 .. n : gs[i] = fs[i]
      /\ gs[n + 1] = f
  <2>1. /\ gs \in Seq(Fields) /\ Len(gs) = n + 1 /\ gs # <<>>
        /\ \A i \in 1 .. n : gs[i] = fs[i]
        /\ gs[n + 1] = f
    BY <1>0, AppendProperties
  <2>2. DOMAIN gs = 1 .. Len(gs)
    BY ONLY <2>1, LenProperties
  <2>3. /\ n \in Nat /\ DOMAIN fs = 1 .. n /\ (fs = <<>> => n = 0) /\ (fs # <<>> => n # 0)
    BY ONLY <1>0, LenProperties, EmptySeq
  <2> HIDE DEF gs, n
  <2> QED
    BY ONLY <2>1, <2>2, <2>3
<1>2. /\ fs = <<>> => a = b
      /\ fs # <<>> => fs[1].address = a /\ EndOf(fs[n], z) = b
      /\ \A i \in 1 .. (n - 1) : fs[i + 1].address = EndOf(fs[i], z)
      /\ HasSet(fs) => z \in Nat
  BY DEF Chain
<1> HIDE DEF gs, n
<1>3. HasSet(gs) <=> HasSet(fs) \/ f.kind = "set"
  <2>1. ASSUME HasSet(fs) PROVE HasSet(gs)
    <3>1. PICK i \in 1 .. n : fs[i].kind = "set"
      BY <1>1, <2>1 DEF HasSet
    <3>2. i \in 1 .. (n + 1) /\ gs[i].kind = "set"
      BY ONLY <1>1, <3>1
    <3> QED
      BY ONLY <1>1, <3>2 DEF HasSet
  <2>2. ASSUME f.kind = "set" PROVE HasSet(gs)
    <3>1. n + 1 \in 1 .. (n + 1)
      BY <1>1
    <3> QED
      BY ONLY <1>1, <3>1, <2>2 DEF HasSet
  <2>3. ASSUME HasSet(gs) PROVE HasSet(fs) \/ f.kind = "set"
    <3>1. PICK i \in 1 .. (n + 1) : gs[i].kind = "set"
      BY ONLY <1>1, <2>3 DEF HasSet
    <3>2. i \in 1 .. n \/ i = n + 1
      BY ONLY <1>1, <3>1
    <3> QED
      BY ONLY <1>1, <3>1, <3>2 DEF HasSet
  <2> QED
    BY ONLY <2>1, <2>2, <2>3
<1>4. EndOf(f, z) \in Nat
  <2>1. f.address \in Nat /\ f.size \in Nat
    BY DEF Fields
  <2> QED
    BY <2>1 DEF EndOf
<1>5. gs[1].address = a
  <2>1. CASE fs = <<>>
    BY ONLY <1>1, <1>2, <2>1, f.address = b
  <2>2. CASE fs # <<>>
    <3>1. 1 \in 1 .. n
      BY ONLY <1>1, <2>2
    <3> QED
      BY ONLY <1>1, <1>2, <2>2, <3>1
  <2> QED
    BY <2>1, <2>2
<1>6. ASSUME NEW i \in 1 .. ((n + 1) - 1) PROVE gs[i + 1].address = EndOf(gs[i], z)
  <2>1. i \in 1 .. n /\ gs[i] = fs[i]
    BY ONLY <1>1, i \in 1 .. ((n + 1) - 1)
  <2>2. CASE i = n
    <3>1. fs # <<>>
      BY ONLY <1>1, <2>1, <2>2
    <3> QED
      BY ONLY <1>1, <1>2, <2>1, <2>2, <3>1, f.address = b
  <2>3. CASE i # n
    <3>1. i \in 1 .. (n - 1) /\ i + 1 \in 1 .. n
      BY ONLY <1>1, <2>1, <2>3
    <3> QED
      BY ONLY <1>1, <1>2, <2>1, <3>1
  <2> QED
    BY <2>2, <2>3
<1>7. Chain(gs, z, a, EndOf(f, z))
  BY ONLY <1>0, <1>1, <1>2, <1>3, <1>4, <1>5, <1>6, f.kind = "set" => z \in Nat DEF Chain
<1> QED
  BY ONLY <1>3, <1>7 DEF gs

\* The first k fields of a chain are one.
LEMMA ChainPrefix ==
    ASSUME NEW fs, NEW z, NEW a, NEW b, Chain(fs, z, a, b), NEW k \in 0 .. Len(fs)
    PROVE  /\ SubSeq(fs, 1, k) \in Seq(Fields) /\ Len(SubSeq(fs, 1, k)) = k
           /\ \A i \in 1 .. k : SubSeq(fs, 1, k)[i] = fs[i]
           /\ HasSet(SubSeq(fs, 1, k)) => HasSet(fs)
           /\ k = 0 => SubSeq(fs, 1, k) = <<>>
           /\ k # 0 => SubSeq(fs, 1, k) # <<>>
           /\ Chain(SubSeq(fs, 1, k), z, a, IF k = 0 THEN a ELSE EndOf(fs[k], z))
<1> DEFINE n == Len(fs)
           gs == SubSeq(fs, 1, k)
           c == IF k = 0 THEN a ELSE EndOf(fs[k], z)
<1>0. fs \in Seq(Fields) /\ a \in Nat /\ b \in Nat /\ (HasSet(fs) => z \in Nat)
  BY DEF Chain
<1>1. n \in Nat /\ DOMAIN fs = 1 .. n /\ (fs = <<>> => n = 0) /\ (fs # <<>> => n # 0)
  BY ONLY <1>0, LenProperties, EmptySeq
<1>2. k \in Nat /\ k <= n /\ 1 .. k \subseteq 1 .. n
  BY <1>1
<1>3. /\ gs \in Seq(Fields) /\ Len(gs) = k /\ \A i \in 1 .. k : gs[i] = fs[i]
  <2>1. \A i \in 1 .. k : fs[i] \in Fields
    BY ONLY <1>0, <1>2, ElementOfSeq
  <2>2. 1 \in Int /\ k \in Int
    BY <1>2
  <2>3. /\ gs \in Seq(Fields) /\ Len(gs) = (IF 1 <= k THEN k - 1 + 1 ELSE 0)
        /\ \A i \in 1 .. k - 1 + 1 : gs[i] = fs[1 + i - 1]
    BY ONLY <2>1, <2>2, SubSeqProperties
  <2> HIDE DEF gs
  <2>4. Len(gs) = k
    BY ONLY <2>3, <1>2
  <2>5. ASSUME NEW i \in 1 .. k PROVE gs[i] = fs[i]
    <3>1. i \in 1 .. k - 1 + 1 /\ 1 + i - 1 = i
      BY <1>2
    <3> QED
      BY ONLY <2>3, <3>1
  <2> QED
    BY ONLY <2>3, <2>4, <2>5
<1>4. DOMAIN gs = 1 .. k /\ (gs = <<>> => k = 0) /\ (gs # <<>> => k # 0)
  BY ONLY <1>3, LenProperties, EmptySeq
<1> HIDE DEF gs, n
<1>5. HasSet(gs) => HasSet(fs)
  BY <1>1, <1>2, <1>3, <1>4 DEF HasSet
<1>6. c \in Nat /\ (k = 0 => c = a) /\ (k # 0 => c = EndOf(fs[k], z))
  <2>1. k # 0 => EndOf(fs[k], z) \in Nat
    <3>1. k # 0 => k \in DOMAIN fs
      BY ONLY <1>1, <1>2
    <3> QED
      BY ONLY <1>0, <3>1, EndsAreNumbers
  <2> QED
    BY <1>0, <2>1
<1> HIDE DEF c
<1>7. Chain(gs, z, a, c)
  <2>1. gs # <<>> => gs[1].address = a /\ EndOf(gs[k], z) = c
    <3>1. ASSUME gs # <<>> PROVE 1 \in 1 .. k /\ k \in 1 .. k /\ fs # <<>> /\ k # 0
      BY ONLY <1>1, <1>2, <1>4, <3>1
    <3>2. fs # <<>> => fs[1].address = a
      BY DEF Chain
    <3> QED
      BY ONLY <1>3, <1>6, <3>1, <3>2
  <2>2. ASSUME NEW i \in 1 .. (k - 1) PROVE gs[i + 1].address = EndOf(gs[i], z)
    <3>1. i \in 1 .. (n - 1) /\ i \in 1 .. k /\ i + 1 \in 1 .. k
      BY <1>1, <1>2
    <3>2. fs[i + 1].address = EndOf(fs[i], z)
      BY <3>1 DEF Chain, n
    <3> QED
      BY ONLY <1>3, <3>1, <3>2
  <2> QED
    BY ONLY <1>0, <1>3, <1>4, <1>5, <1>6, <2>1, <2>2 DEF Chain
<1> QED
  BY ONLY <1>3, <1>4, <1>5, <1>7 DEF c, gs

\* Without fields, and with one.
LEMMA ChainOfNone ==
    ASSUME NEW z, NEW a \in Nat
    PROVE  Chain(<<>>, z, a, a) /\ ~HasSet(<<>>)
<1>1. <<>> \in Seq(Fields) /\ Len(<<>>) = 0
  BY ONLY EmptySeq
<1>2. DOMAIN <<>> = 1 .. 0
  BY ONLY <1>1, LenProperties
<1>3. ~HasSet(<<>>)
  BY <1>2 DEF HasSet
<1>4. \A i \in 1 .. (Len(<<>>) - 1) : FALSE
  BY <1>1
<1> QED
  BY <1>1, <1>3, <1>4 DEF Chain

\* Two chains, where one ends and the other begins.
LEMMA ChainConcat ==
    ASSUME NEW fs, NEW gs, NEW z, NEW a, NEW b, NEW c, Chain(fs, z, a, b), Chain(gs, z, b, c)
    PROVE  /\ Chain(fs \o gs, z, a, c)
           /\ HasSet(fs \o gs) <=> HasSet(fs) \/ HasSet(gs)
<1> DEFINE n == Len(fs)
           m == Len(gs)
           hs == fs \o gs
<1>0. /\ fs \in Seq(Fields) /\ gs \in Seq(Fields) /\ a \in Nat /\ b \in Nat /\ c \in Nat
      /\ HasSet(fs) => z \in Nat
      /\ HasSet(gs) => z \in Nat
  BY DEF Chain
<1>1. /\ n \in Nat /\ DOMAIN fs = 1 .. n /\ (fs = <<>> => n = 0) /\ (fs # <<>> => n # 0)
      /\ m \in Nat /\ DOMAIN gs = 1 .. m /\ (gs = <<>> => m = 0) /\ (gs # <<>> => m # 0)
  BY ONLY <1>0, LenProperties, EmptySeq
<1>2. /\ hs \in Seq(Fields) /\ Len(hs) = n + m
      /\ \A i \in 1 .. n + m : hs[i] = IF i <= n THEN fs[i] ELSE gs[i - n]
  BY ONLY <1>0, ConcatProperties
<1>3. /\ fs = <<>> => a = b
      /\ fs # <<>> => fs[1].address = a /\ EndOf(fs[n], z) = b
      /\ \A i \in 1 .. (n - 1) : fs[i + 1].address = EndOf(fs[i], z)
      /\ gs = <<>> => b = c
      /\ gs # <<>> => gs[1].address = b /\ EndOf(gs[m], z) = c
      /\ \A i \in 1 .. (m - 1) : gs[i + 1].address = EndOf(gs[i], z)
  BY DEF Chain
<1>4. DOMAIN hs = 1 .. (n + m) /\ (hs = <<>> => n + m = 0) /\ (hs # <<>> => n + m # 0)
  <2> HIDE DEF hs, n, m
  <2> QED
    BY ONLY <1>2, LenProperties, EmptySeq
<1> HIDE DEF hs, n, m
<1>5. \A i \in 1 .. n : i \in 1 .. (n + m) /\ hs[i] = fs[i]
  BY ONLY <1>1, <1>2
<1>6. ASSUME NEW j \in 1 .. m PROVE n + j \in 1 .. (n + m) /\ hs[n + j] = gs[j]
  <2>1. n + j \in 1 .. (n + m) /\ ~ (n + j <= n) /\ (n + j) - n = j
    BY ONLY <1>1, j \in 1 .. m
  <2> QED
    BY ONLY <1>2, <2>1
<1>7. HasSet(hs) <=> HasSet(fs) \/ HasSet(gs)
  <2>1. ASSUME HasSet(fs) PROVE HasSet(hs)
    BY ONLY <1>1, <1>4, <1>5, <2>1 DEF HasSet
  <2>2. ASSUME HasSet(gs) PROVE HasSet(hs)
    <3>1. PICK j \in 1 .. m : gs[j].kind = "set"
      BY ONLY <1>1, <2>2 DEF HasSet
    <3>2. n + j \in DOMAIN hs /\ hs[n + j].kind = "set"
      BY ONLY <1>4, <1>6, <3>1
    <3> QED
      BY ONLY <3>2 DEF HasSet
  <2>3. ASSUME HasSet(hs) PROVE HasSet(fs) \/ HasSet(gs)
    <3>1. PICK i \in 1 .. (n + m) : hs[i].kind = "set"
      BY ONLY <1>4, <2>3 DEF HasSet
    <3>2. CASE i <= n
      <4>1. i \in 1 .. n
        BY ONLY <1>1, <3>1, <3>2
      <4> QED
        BY ONLY <1>1, <1>5, <3>1, <4>1 DEF HasSet
    <3>3. CASE ~ (i <= n)
      <4>1. i - n \in 1 .. m /\ hs[i] = gs[i - n]
        BY ONLY <1>1, <1>2, <3>1, <3>3
      <4> QED
        BY ONLY <1>1, <3>1, <4>1 DEF HasSet
    <3> QED
      BY ONLY <3>2, <3>3
  <2> QED
    BY ONLY <2>1, <2>2, <2>3
<1>8. hs # <<>> => hs[1].address = a /\ EndOf(hs[n + m], z) = c
  <2>1. CASE fs = <<>>
    <3>1. ASSUME hs # <<>> PROVE gs # <<>> /\ 1 \in 1 .. m /\ m \in 1 .. m /\ n = 0
      BY ONLY <1>1, <1>4, <2>1, <3>1
    <3>2. ASSUME hs # <<>> PROVE hs[1] = gs[1] /\ hs[n + m] = gs[m]
      <4>1. hs[n + 1] = gs[1] /\ hs[n + m] = gs[m]
        BY ONLY <1>6, <3>1, <3>2
      <4>2. n + 1 = 1
        BY ONLY <3>1, <3>2
      <4> QED
        BY ONLY <4>1, <4>2
    <3> QED
      BY ONLY <1>3, <2>1, <3>1, <3>2
  <2>2. CASE fs # <<>>
    <3>1. 1 \in 1 .. n /\ n \in 1 .. n
      BY ONLY <1>1, <2>2
    <3>2. hs[1].address = a
      BY ONLY <1>3, <1>5, <2>2, <3>1
    <3>3. EndOf(hs[n + m], z) = c
      <4>1. CASE gs = <<>>
        <5>1. n + m = n
          BY ONLY <1>1, <4>1
        <5> QED
          BY ONLY <1>3, <1>5, <2>2, <3>1, <4>1, <5>1
      <4>2. CASE gs # <<>>
        <5>1. m \in 1 .. m
          BY ONLY <1>1, <4>2
        <5> QED
          BY ONLY <1>3, <1>6, <4>2, <5>1
      <4> QED
        BY ONLY <4>1, <4>2
    <3> QED
      BY ONLY <3>2, <3>3
  <2> QED
    BY ONLY <2>1, <2>2
<1>9. ASSUME NEW i \in 1 .. ((n + m) - 1) PROVE hs[i + 1].address = EndOf(hs[i], z)
  <2>1. CASE i < n
    <3>1. i \in 1 .. (n - 1) /\ i \in 1 .. n /\ i + 1 \in 1 .. n
      BY ONLY <1>1, <2>1, i \in 1 .. ((n + m) - 1)
    <3> QED
      BY ONLY <1>3, <1>5, <3>1
  <2>2. CASE i = n
    <3>1. n \in 1 .. n /\ 1 \in 1 .. m /\ fs # <<>> /\ gs # <<>>
      BY ONLY <1>1, <2>2, i \in 1 .. ((n + m) - 1)
    <3>2. hs[n + 1] = gs[1] /\ hs[n] = fs[n]
      BY ONLY <1>5, <1>6, <3>1
    <3> QED
      BY ONLY <1>3, <2>2, <3>1, <3>2
  <2>3. CASE i > n
    <3>1. /\ i - n \in 1 .. (m - 1) /\ i - n \in 1 .. m /\ (i - n) + 1 \in 1 .. m
          /\ n + (i - n) = i /\ n + ((i - n) + 1) = i + 1
      BY ONLY <1>1, <2>3, i \in 1 .. ((n + m) - 1)
    <3>2. hs[i] = gs[i - n] /\ hs[i + 1] = gs[(i - n) + 1]
      <4>1. hs[n + (i - n)] = gs[i - n]
        BY ONLY <1>6, <3>1
      <4>2. hs[n + ((i - n) + 1)] = gs[(i - n) + 1]
        BY ONLY <1>6, <3>1
      <4> QED
        BY ONLY <3>1, <4>1, <4>2
    <3> QED
      BY ONLY <1>3, <3>1, <3>2
  <2> QED
    BY ONLY <1>1, <2>1, <2>2, <2>3
<1>10. Chain(hs, z, a, c)
  <2>1. ASSUME hs = <<>> PROVE a = c
    <3>1. n = 0 /\ m = 0
      BY ONLY <1>1, <1>4, <2>1
    <3> QED
      BY ONLY <1>1, <1>3, <3>1
  <2> QED
    BY ONLY <1>0, <1>2, <1>7, <1>8, <1>9, <2>1 DEF Chain
<1> QED
  BY ONLY <1>7, <1>10 DEF hs

\* What is behind the field k of a chain is one.
LEMMA ChainSuffix ==
    ASSUME NEW fs, NEW z, NEW a, NEW b, Chain(fs, z, a, b), NEW k \in 1 .. Len(fs)
    PROVE  LET gs == SubSeq(fs, k + 1, Len(fs))
           IN /\ gs \in Seq(Fields) /\ Len(gs) = Len(fs) - k
              /\ \A i \in 1 .. (Len(fs) - k) : gs[i] = fs[k + i]
              /\ HasSet(gs) => HasSet(fs)
              /\ Chain(gs, z, EndOf(fs[k], z), b)
<1> DEFINE n == Len(fs)
           gs == SubSeq(fs, k + 1, n)
           c == EndOf(fs[k], z)
<1>0. fs \in Seq(Fields) /\ a \in Nat /\ b \in Nat /\ (HasSet(fs) => z \in Nat)
  BY DEF Chain
<1>1. n \in Nat /\ DOMAIN fs = 1 .. n /\ (fs = <<>> => n = 0)
  BY ONLY <1>0, LenProperties, EmptySeq
<1>2. k \in Nat /\ 1 <= k /\ k <= n /\ n - k \in Nat /\ fs # <<>>
  BY <1>1
<1>3. /\ gs \in Seq(Fields) /\ Len(gs) = n - k /\ \A i \in 1 .. (n - k) : gs[i] = fs[k + i]
  <2>1. \A i \in k + 1 .. n : fs[i] \in Fields
    <3>1. \A i \in k + 1 .. n : i \in 1 .. n
      BY <1>2
    <3> QED
      BY ONLY <1>0, <3>1, ElementOfSeq DEF n
  <2>2. k + 1 \in Int /\ n \in Int
    BY <1>1, <1>2
  <2>3. /\ gs \in Seq(Fields) /\ Len(gs) = (IF k + 1 <= n THEN n - (k + 1) + 1 ELSE 0)
        /\ \A i \in 1 .. n - (k + 1) + 1 : gs[i] = fs[k + 1 + i - 1]
    BY ONLY <2>1, <2>2, SubSeqProperties
  <2> HIDE DEF gs, n
  <2>4. Len(gs) = n - k
    BY ONLY <2>3, <1>1, <1>2
  <2>5. ASSUME NEW i \in 1 .. (n - k) PROVE gs[i] = fs[k + i]
    <3>1. i \in 1 .. n - (k + 1) + 1 /\ k + 1 + i - 1 = k + i
      BY ONLY <1>1, <1>2, i \in 1 .. (n - k)
    <3> QED
      BY ONLY <2>3, <3>1
  <2> QED
    BY ONLY <2>3, <2>4, <2>5
<1>4. DOMAIN gs = 1 .. (n - k) /\ (gs = <<>> => n - k = 0) /\ (gs # <<>> => n - k # 0)
  <2> HIDE DEF gs, n
  <2> QED
    BY ONLY <1>3, LenProperties, EmptySeq
<1> HIDE DEF gs, n
<1>5. HasSet(gs) => HasSet(fs)
  <2>1. \A i \in 1 .. (n - k) : k + i \in 1 .. n
    BY ONLY <1>1, <1>2
  <2> QED
    BY ONLY <1>1, <1>3, <1>4, <2>1 DEF HasSet
<1>6. c \in Nat
  <2>1. k \in DOMAIN fs
    BY ONLY <1>1, <1>2
  <2> QED
    BY ONLY <1>0, <2>1, EndsAreNumbers
<1>7. EndOf(fs[n], z) = b /\ \A i \in 1 .. (n - 1) : fs[i + 1].address = EndOf(fs[i], z)
  BY <1>2 DEF Chain, n
<1> HIDE DEF c
<1>8. Chain(gs, z, c, b)
  <2>1. gs = <<>> => c = b
    <3>1. gs = <<>> => k = n
      BY ONLY <1>1, <1>2, <1>4
    <3> QED
      BY ONLY <1>7, <3>1 DEF c
  <2>2. gs # <<>> => gs[1].address = c /\ EndOf(gs[n - k], z) = b
    <3>1. ASSUME gs # <<>>
          PROVE  1 \in 1 .. (n - k) /\ n - k \in 1 .. (n - k) /\ k + (n - k) = n /\ k \in 1 .. (n - 1)
      BY ONLY <1>1, <1>2, <1>4, <3>1
    <3> QED
      BY ONLY <1>3, <1>7, <3>1 DEF c
  <2>3. ASSUME NEW i \in 1 .. ((n - k) - 1) PROVE gs[i + 1].address = EndOf(gs[i], z)
    <3>1. /\ i \in 1 .. (n - k) /\ i + 1 \in 1 .. (n - k) /\ k + i \in 1 .. (n - 1)
          /\ k + (i + 1) = (k + i) + 1
      BY ONLY <1>1, <1>2, i \in 1 .. ((n - k) - 1)
    <3>2. gs[i] = fs[k + i] /\ gs[i + 1] = fs[(k + i) + 1]
      <4>1. gs[i + 1] = fs[k + (i + 1)]
        BY ONLY <1>3, <3>1
      <4> QED
        BY ONLY <1>3, <3>1, <4>1
    <3>3. fs[(k + i) + 1].address = EndOf(fs[k + i], z)
      BY ONLY <1>7, <3>1
    <3> QED
      BY ONLY <3>2, <3>3
  <2> QED
    BY ONLY <1>0, <1>3, <1>5, <1>6, <2>1, <2>2, <2>3 DEF Chain
<1> QED
  BY ONLY <1>3, <1>5, <1>8 DEF c, gs, n

-----------------------------------------------------------------------------
\* 3. The search of getFieldByAddress.

Pairs(n) == {r \in (0..n) \X (0..n) : r[1] + r[2] <= n}

\* A function that searches in ranges: a first field and a number of fields.
Searches(it, t, s, where) ==
    it = [r \in Pairs(Len(t[s].fields)) |->
             IF r[2] = 0 THEN r[1]
             ELSE LET half == r[2] \div 2
                      middle == r[1] + half + 1
                  IN IF t[s].fields[middle].address + SizeOf(t, t[s].fields[middle]) <= where
                     THEN it[<<middle, r[2] - (half + 1)>>]
                     ELSE it[<<r[1], half>>]]

\* LowerBound is the value at the whole range of a function that searches.
LEMMA SearchIs ==
    ASSUME NEW t, NEW s, NEW where
    PROVE  LowerBound(t, s, where) =
             (CHOOSE it : Searches(it, t, s, where))[<<0, Len(t[s].fields)>>]
BY DEF LowerBound, Searches, Pairs

\* What is looked for, if it is known, in the range r: r ends before it, begins behind it,
\* or holds it.
Nearest(r, k) == IF k < r[1] THEN r[1] ELSE IF k > r[1] + r[2] THEN r[1] + r[2] ELSE k

\* The two halves of a range.
LEMMA Halves ==
    ASSUME NEW n \in Nat, NEW k \in 0 .. n, NEW r \in Pairs(n), r[2] # 0
    PROVE  LET half == r[2] \div 2
               middle == r[1] + half + 1
           IN /\ middle \in 1 .. n
              /\ <<middle, r[2] - (half + 1)>> \in Pairs(n) /\ <<r[1], half>> \in Pairs(n)
              /\ r[2] - (half + 1) < r[2] /\ half < r[2]
              /\ middle <= k => Nearest(r, k) = Nearest(<<middle, r[2] - (half + 1)>>, k)
              /\ ~ (middle <= k) => Nearest(r, k) = Nearest(<<r[1], half>>, k)
<1> DEFINE a == r[1]
           b == r[2]
           half == b \div 2
           middle == a + half + 1
           rest == b - (half + 1)
<1>1. a \in Nat /\ b \in Nat /\ a + b <= n /\ b # 0
  BY DEF Pairs
<1>2. half \in Nat /\ half < b
  <2> HIDE DEF b
  <2> QED
    BY ONLY <1>1
<1> HIDE DEF a, b, half
<1>3. middle \in 1 .. n /\ rest \in Nat /\ rest < b /\ middle + rest = a + b
  BY ONLY <1>1, <1>2, n \in Nat
<1> HIDE DEF middle, rest
<1>4. <<middle, rest>> \in Pairs(n) /\ <<a, half>> \in Pairs(n)
  <2>1. middle \in 0 .. n /\ rest \in 0 .. n /\ middle + rest <= n
    BY ONLY <1>1, <1>3, n \in Nat
  <2>2. a \in 0 .. n /\ half \in 0 .. n /\ a + half <= n
    BY ONLY <1>1, <1>2, n \in Nat
  <2> QED
    BY ONLY <2>1, <2>2 DEF Pairs
<1>5. /\ middle <= k => Nearest(r, k) = Nearest(<<middle, rest>>, k)
      /\ ~ (middle <= k) => Nearest(r, k) = Nearest(<<a, half>>, k)
  <2>1. Nearest(r, k) = IF k < a THEN a ELSE IF k > a + b THEN a + b ELSE k
    BY DEF Nearest, a, b
  <2>2. /\ Nearest(<<middle, rest>>, k) =
             IF k < middle THEN middle ELSE IF k > middle + rest THEN middle + rest ELSE k
        /\ Nearest(<<a, half>>, k) = IF k < a THEN a ELSE IF k > a + half THEN a + half ELSE k
    BY DEF Nearest
  <2>3. middle = a + half + 1 /\ k \in Nat
    BY DEF middle
  <2> QED
    BY ONLY <1>1, <1>2, <1>3, <2>1, <2>2, <2>3
<1> QED
  BY ONLY <1>3, <1>2, <1>4, <1>5 DEF a, b, half, middle, rest

\* If the first k fields, and only these, end at a position or before,
\* lowerBound finds k.
LEMMA SearchFinds ==
    ASSUME NEW t, NEW s, NEW where, Len(t[s].fields) \in Nat, NEW k \in 0 .. Len(t[s].fields),
           \A i \in 1 .. Len(t[s].fields) :
              t[s].fields[i].address + SizeOf(t, t[s].fields[i]) <= where <=> i <= k
    PROVE  LowerBound(t, s, where) = k
<1> DEFINE n == Len(t[s].fields)
           E(i) == t[s].fields[i].address + SizeOf(t, t[s].fields[i]) <= where
           f == [r \in Pairs(n) |-> Nearest(r, k)]
           step(it, r) == IF r[2] = 0 THEN r[1]
                          ELSE LET half == r[2] \div 2
                                   middle == r[1] + half + 1
                               IN IF E(middle) THEN it[<<middle, r[2] - (half + 1)>>]
                                  ELSE it[<<r[1], half>>]
<1>0. n \in Nat /\ k \in 0 .. n /\ k \in Nat /\ \A i \in 1 .. n : E(i) <=> i <= k
  OBVIOUS
<1>1. \A it : Searches(it, t, s, where) <=> it = [r \in Pairs(n) |-> step(it, r)]
  BY DEF Searches
<1> HIDE DEF n, E
<1>2. ASSUME NEW r \in Pairs(n), r[2] = 0
      PROVE  Nearest(r, k) = r[1]
  <2>1. r[1] \in Nat /\ r[2] \in Nat
    BY DEF Pairs
  <2> QED
    BY ONLY <1>0, <1>2, <2>1 DEF Nearest
<1>3. ASSUME NEW r \in Pairs(n), NEW it,
             \A q \in Pairs(n) : q[2] < r[2] => it[q] = Nearest(q, k)
      PROVE  step(it, r) = Nearest(r, k)
  <2>1. CASE r[2] = 0
    BY ONLY <1>2, <2>1, r \in Pairs(n)
  <2>2. CASE r[2] # 0
    <3> DEFINE half == r[2] \div 2
               middle == r[1] + half + 1
               upper == <<middle, r[2] - (half + 1)>>
               lower == <<r[1], half>>
    <3>1. /\ middle \in 1 .. n
          /\ upper \in Pairs(n) /\ lower \in Pairs(n)
          /\ r[2] - (half + 1) < r[2] /\ half < r[2]
          /\ middle <= k => Nearest(r, k) = Nearest(upper, k)
          /\ ~ (middle <= k) => Nearest(r, k) = Nearest(lower, k)
      BY ONLY <1>0, <2>2, r \in Pairs(n), Halves
    <3>2. upper[2] < r[2] /\ lower[2] < r[2]
      BY ONLY <3>1
    <3>3. step(it, r) = IF E(middle) THEN it[upper] ELSE it[lower]
      BY ONLY <2>2
    <3> HIDE DEF half, middle, upper, lower, step
    <3>4. it[upper] = Nearest(upper, k) /\ it[lower] = Nearest(lower, k)
      BY ONLY <1>3, <3>1, <3>2
    <3>5. E(middle) <=> middle <= k
      BY ONLY <1>0, <3>1
    <3> QED
      BY ONLY <3>1, <3>3, <3>4, <3>5
  <2> QED
    BY ONLY <2>1, <2>2
<1>4. Searches(f, t, s, where)
  <2>1. \A r \in Pairs(n) : f[r] = Nearest(r, k)
    OBVIOUS
  <2> HIDE DEF f, step
  <2>2. \A r \in Pairs(n) : step(f, r) = Nearest(r, k)
    BY ONLY <1>3, <2>1
  <2>3. [r \in Pairs(n) |-> step(f, r)] = [r \in Pairs(n) |-> Nearest(r, k)]
    BY ONLY <2>2
  <2>4. f = [r \in Pairs(n) |-> Nearest(r, k)]
    BY DEF f
  <2> QED
    BY ONLY <1>1, <2>3, <2>4
<1> DEFINE it == CHOOSE g : Searches(g, t, s, where)
<1>5. Searches(it, t, s, where)
  BY ONLY <1>4
<1>6. LowerBound(t, s, where) = it[<<0, n>>]
  BY SearchIs DEF n
<1> HIDE DEF it, f
<1>7. \A r \in Pairs(n) : it[r] = step(it, r)
  <2> DEFINE g == [r \in Pairs(n) |-> step(it, r)]
  <2>1. \A r \in Pairs(n) : g[r] = step(it, r)
    OBVIOUS
  <2>2. it = g
    BY ONLY <1>1, <1>5
  <2> HIDE DEF step, g
  <2> QED
    BY ONLY <2>1, <2>2
<1> HIDE DEF step
<1> DEFINE S == {d \in 0 .. n : \A r \in Pairs(n) : r[2] < d => it[r] = Nearest(r, k)}
<1>8. 0 \in S
  <2>1. \A r \in Pairs(n) : ~ (r[2] < 0)
    BY DEF Pairs
  <2> QED
    BY <1>0, <2>1
<1>9. ASSUME NEW d \in 0 .. (n - 1), d \in S PROVE d + 1 \in S
  <2>1. ASSUME NEW r \in Pairs(n), r[2] < d + 1 PROVE it[r] = Nearest(r, k)
    <3>1. \A q \in Pairs(n) : q[2] < r[2] => q[2] < d
      <4>1. \A q \in Pairs(n) : q[2] \in Nat
        BY DEF Pairs
      <4> QED
        BY ONLY <1>0, <2>1, <4>1, d \in 0 .. (n - 1), r \in Pairs(n)
    <3>2. \A q \in Pairs(n) : q[2] < r[2] => it[q] = Nearest(q, k)
      BY ONLY <1>9, <3>1
    <3>3. step(it, r) = Nearest(r, k)
      BY ONLY <1>3, <3>2, r \in Pairs(n)
    <3> QED
      BY ONLY <1>7, <3>3, r \in Pairs(n)
  <2>2. d + 1 \in 0 .. n
    BY <1>0
  <2> QED
    BY ONLY <2>1, <2>2
<1> HIDE DEF S
<1>10. n \in S
  <2>1. n \in 0 .. n
    BY <1>0
  <2> QED
    BY ONLY <1>0, <1>8, <1>9, <2>1, UpTo
<1>11. <<0, n>> \in Pairs(n) /\ Nearest(<<0, n>>, k) = k
  BY <1>0 DEF Pairs, Nearest
<1>12. \A q \in Pairs(n) : q[2] < n => it[q] = Nearest(q, k)
  BY ONLY <1>10 DEF S
<1>13. it[<<0, n>>] = k
  <2> DEFINE r == <<0, n>>
  <2>1. r \in Pairs(n) /\ r[2] = n /\ Nearest(r, k) = k
    BY ONLY <1>11
  <2> HIDE DEF r
  <2>2. \A q \in Pairs(n) : q[2] < r[2] => it[q] = Nearest(q, k)
    BY ONLY <1>12, <2>1
  <2>3. step(it, r) = Nearest(r, k)
    BY ONLY <1>3, <2>1, <2>2
  <2>4. it[r] = k
    BY ONLY <1>7, <2>1, <2>3
  <2> QED
    BY ONLY <2>4 DEF r
<1> QED
  BY ONLY <1>6, <1>13

\* The search of getFieldByAddress finds the field that holds a position,
\* in any fields that follow each other.
LEMMA FieldIsFound ==
    ASSUME NEW t, NEW s, NEW c, Chain(t[s].fields, t.sub.size, 0, c), NEW where \in 0 .. (c - 1)
    PROVE  LET i == LowerBound(t, s, where) + 1
           IN /\ i \in DOMAIN t[s].fields
              /\ t[s].fields[i].address <= where
              /\ where < t[s].fields[i].address + SizeOf(t, t[s].fields[i])
<1> DEFINE fs == t[s].fields
           z == t.sub.size
           n == Len(fs)
           K == {0} \cup {i \in 1 .. n : EndOf(fs[i], z) <= where}
           k == Max(K)
           e(i) == EndOf(fs[i], z)
<1>0. /\ \A i : fs[i].address + SizeOf(t, fs[i]) = EndOf(fs[i], z)
  BY DEF SizeOf, EndOf
<1>1. /\ fs \in Seq(Fields) /\ (HasSet(fs) => z \in Nat) /\ c \in Nat
      /\ fs = <<>> => c = 0
      /\ fs # <<>> => fs[1].address = 0 /\ EndOf(fs[n], z) = c
      /\ \A i \in 1 .. (n - 1) : fs[i + 1].address = EndOf(fs[i], z)
  BY DEF Chain
<1>2. /\ n \in Nat /\ DOMAIN fs = 1 .. n /\ (fs = <<>> => n = 0) /\ (fs # <<>> => n # 0)
  BY ONLY <1>1, LenProperties, EmptySeq
<1>3. \A i \in 1 .. n : e(i) \in Nat /\ fs[i].address \in Nat
  BY ONLY <1>1, <1>2, EndsAreNumbers
<1>4. \A i, j \in 1 .. n : i <= j => e(i) <= e(j)
  BY ChainGrows
<1>5. where \in Nat /\ where < c
  BY <1>1
<1> HIDE DEF n, fs, z
<1>6. K \in SUBSET (0 .. n) /\ K # {} /\ 0 \in K
  BY ONLY <1>2
<1> HIDE DEF K
<1>7. k \in K /\ \A y \in K : y <= k
  BY ONLY <1>2, <1>6, GreatestUpTo
<1> HIDE DEF k, e
<1>8. k \in 0 .. n /\ (k # 0 => k \in 1 .. n /\ e(k) <= where)
  <2>1. k \in 0 .. n
    BY ONLY <1>6, <1>7
  <2>2. k # 0 => k \in 1 .. n /\ e(k) <= where
    BY ONLY <1>7 DEF K, e
  <2> QED
    BY ONLY <2>1, <2>2
<1>9. ASSUME NEW i \in 1 .. n PROVE e(i) <= where <=> i <= k
  <2>1. ASSUME e(i) <= where PROVE i <= k
    <3>1. i \in K
      BY ONLY <2>1, i \in 1 .. n DEF K, e
    <3> QED
      BY ONLY <1>7, <3>1
  <2>2. ASSUME i <= k PROVE e(i) <= where
    <3>1. k # 0
      BY ONLY <1>2, <2>2, i \in 1 .. n
    <3>2. e(i) <= e(k)
      BY ONLY <1>4, <1>8, <2>2, <3>1, i \in 1 .. n
    <3> QED
      BY ONLY <1>3, <1>5, <1>8, <3>1, <3>2, i \in 1 .. n
  <2> QED
    BY ONLY <2>1, <2>2
<1>10. LowerBound(t, s, where) = k
  <2>1. \A i \in 1 .. Len(t[s].fields) :
           t[s].fields[i].address + SizeOf(t, t[s].fields[i]) <= where <=> i <= k
    BY <1>0, <1>9 DEF e, fs, z, n
  <2>2. Len(t[s].fields) \in Nat /\ k \in 0 .. Len(t[s].fields)
    BY ONLY <1>2, <1>8 DEF n, fs
  <2> QED
    BY ONLY <2>1, <2>2, SearchFinds
<1>11. k < n
  <2>1. CASE n = 0
    <3>1. c = 0
      BY ONLY <1>1, <1>2, <2>1
    <3> QED
      BY ONLY <1>5, <3>1
  <2>2. CASE n # 0
    <3>1. n \in 1 .. n /\ fs # <<>>
      BY ONLY <1>2, <2>2
    <3>2. e(n) = c
      BY ONLY <1>1, <3>1 DEF e
    <3>3. ~ (n <= k)
      BY ONLY <1>1, <1>5, <1>9, <3>1, <3>2
    <3> QED
      BY ONLY <1>2, <1>8, <3>3
  <2> QED
    BY ONLY <2>1, <2>2
<1>12. k + 1 \in 1 .. n
  BY ONLY <1>2, <1>8, <1>11
<1>13. where < e(k + 1)
  <2>1. ~ (k + 1 <= k)
    BY ONLY <1>8
  <2>2. ~ (e(k + 1) <= where)
    BY ONLY <1>9, <1>12, <2>1
  <2> QED
    BY ONLY <1>3, <1>5, <1>12, <2>2
<1>14. fs[k + 1].address <= where
  <2>1. CASE k = 0
    <3>1. fs # <<>> /\ k + 1 = 1
      BY ONLY <1>2, <1>12, <2>1
    <3> QED
      BY ONLY <1>1, <1>5, <3>1
  <2>2. CASE k # 0
    <3>1. k \in 1 .. (n - 1)
      BY ONLY <1>2, <1>8, <1>11, <2>2
    <3>2. fs[k + 1].address = e(k)
      BY ONLY <1>1, <3>1 DEF e
    <3> QED
      BY ONLY <1>8, <2>2, <3>2
  <2> QED
    BY ONLY <2>1, <2>2
<1>15. k + 1 \in DOMAIN fs /\ where < fs[k + 1].address + SizeOf(t, fs[k + 1])
  BY ONLY <1>0, <1>2, <1>12, <1>13 DEF e
<1> QED
  BY ONLY <1>10, <1>14, <1>15 DEF fs

-----------------------------------------------------------------------------
\* 4. What holds of a set of fields and of the tree at any moment, and
\* that fields are added, repaired and truncated keeps it.

SetT == [fields : Seq(Fields), size : OptSize, current : Nat, gen : Nat]
EditNames == {PadName, NewName, PadAfter}

\* Names are distinct; the next item has a new one; a raw field is the end; p says whether
\* the size of the stream may be unknown, e whether a field was replaced.
Unlike(fs) ==
    /\ \A i, j \in DOMAIN fs : fs[i].name = fs[j].name => i = j
    /\ \A i \in DOMAIN fs : fs[i].name = RawName => i = Len(fs)
NameOK(name, u, e) ==
    /\ name \in Nat /\ u.gen # Done => name < u.gen
    /\ name = RawName => u.gen = Done /\ u.size = u.current
    /\ name \in EditNames => e
NamesOK(u, e) == \A i \in DOMAIN u.fields : NameOK(u.fields[i].name, u, e)
SizesOK(u, p) ==
    /\ u.size # Unknown => u.current <= u.size
    /\ ~p /\ u.gen = Done => u.size = u.current

SetOK(u, z, p, e) ==
    /\ u \in SetT /\ Chain(u.fields, z, 0, u.current)
    /\ Unlike(u.fields) /\ NamesOK(u, e) /\ SizesOK(u, p)

OneSet(fs) == \A i, j \in DOMAIN fs : fs[i].kind = "set" /\ fs[j].kind = "set" => i = j
TreeOK(t, p, e) ==
    /\ DOMAIN t = Sets
    /\ \A s \in Sets : SetOK(t[s], t.sub.size, p, e)
    /\ ~HasSet(t.sub.fields) /\ OneSet(t.root.fields)
    /\ ~p => t.root.size = StreamSize

\* The size of the set in the parser does not matter for fields without a
\* set.
LEMMA SetOfData ==
    ASSUME NEW u, NEW y, NEW z, NEW p, NEW e, SetOK(u, y, p, e), ~HasSet(u.fields)
    PROVE  SetOK(u, z, p, e)
BY ChainOfData DEF SetOK

\* What is known of the names and the type of a set of fields.
LEMMA SetFacts ==
    ASSUME NEW u, NEW z, NEW p, NEW e, SetOK(u, z, p, e)
    PROVE  /\ u.fields \in Seq(Fields) /\ u.size \in OptSize /\ u.current \in Nat /\ u.gen \in Nat
           /\ Len(u.fields) \in Nat /\ DOMAIN u.fields = 1 .. Len(u.fields)
           /\ \A i \in DOMAIN u.fields : u.fields[i] \in Fields
<1>1. u.fields \in Seq(Fields) /\ u.size \in OptSize /\ u.current \in Nat /\ u.gen \in Nat
  BY DEF SetOK, SetT
<1>2. Len(u.fields) \in Nat /\ DOMAIN u.fields = 1 .. Len(u.fields)
  BY ONLY <1>1, LenProperties
<1> QED
  BY ONLY <1>1, <1>2, ElementOfSeq

\* A field with a new name is appended where the set ends.
LEMMA AppendOK ==
    ASSUME NEW u, NEW z, NEW p, NEW e, SetOK(u, z, p, e), NEW f \in Fields,
           f.address = u.current, f.kind = "set" => z \in Nat,
           NEW v \in SetT, v.fields = Append(u.fields, f), v.current = EndOf(f, z),
           \A i \in DOMAIN u.fields : u.fields[i].name # f.name /\ u.fields[i].name # RawName,
           NameOK(f.name, v, e), v.gen # Done => u.gen # Done /\ u.gen <= v.gen, SizesOK(v, p)
    PROVE  SetOK(v, z, p, e)
<1> DEFINE n == Len(u.fields)
<1>1. /\ u.fields \in Seq(Fields) /\ n \in Nat /\ DOMAIN u.fields = 1 .. n /\ u.gen \in Nat
      /\ \A i \in DOMAIN u.fields : u.fields[i] \in Fields
  BY SetFacts
<1>2. /\ v.fields \in Seq(Fields) /\ Len(v.fields) = n + 1
      /\ \A i \in 1 .. n : v.fields[i] = u.fields[i]
      /\ v.fields[n + 1] = f
  BY ONLY <1>1, f \in Fields, v.fields = Append(u.fields, f), AppendProperties
<1>3. DOMAIN v.fields = 1 .. (n + 1)
  BY ONLY <1>2, LenProperties
<1>4. Chain(v.fields, z, 0, v.current)
  <2>1. Chain(u.fields, z, 0, u.current)
    BY DEF SetOK
  <2> QED
    BY ONLY <2>1, f \in Fields, f.address = u.current, f.kind = "set" => z \in Nat,
       v.fields = Append(u.fields, f), v.current = EndOf(f, z), ChainAppend
<1> HIDE DEF n
<1>5. \A i \in 1 .. (n + 1) : i \in 1 .. n \/ i = n + 1
  BY ONLY <1>1
<1>6. Unlike(v.fields)
  <2>1. ASSUME NEW i \in 1 .. (n + 1), NEW j \in 1 .. (n + 1), v.fields[i].name = v.fields[j].name
        PROVE  i = j
    <3>1. CASE i \in 1 .. n /\ j \in 1 .. n
      BY ONLY <1>1, <1>2, <2>1, <3>1, SetOK(u, z, p, e) DEF SetOK, Unlike
    <3>2. CASE i = n + 1 /\ j \in 1 .. n
      BY ONLY <1>1, <1>2, <2>1, <3>2,
         \A k \in DOMAIN u.fields : u.fields[k].name # f.name /\ u.fields[k].name # RawName
    <3>3. CASE j = n + 1 /\ i \in 1 .. n
      BY ONLY <1>1, <1>2, <2>1, <3>3,
         \A k \in DOMAIN u.fields : u.fields[k].name # f.name /\ u.fields[k].name # RawName
    <3>4. CASE i = n + 1 /\ j = n + 1
      BY ONLY <3>4
    <3> QED
      BY ONLY <1>5, <3>1, <3>2, <3>3, <3>4, i \in 1 .. (n + 1), j \in 1 .. (n + 1)
  <2>2. ASSUME NEW i \in 1 .. (n + 1), v.fields[i].name = RawName PROVE i = n + 1
    BY ONLY <1>1, <1>2, <1>5, <2>2, i \in 1 .. (n + 1),
       \A k \in DOMAIN u.fields : u.fields[k].name # f.name /\ u.fields[k].name # RawName
  <2> QED
    BY ONLY <1>2, <1>3, <2>1, <2>2 DEF Unlike
<1>7. NamesOK(v, e)
  <2>1. ASSUME NEW i \in 1 .. n PROVE NameOK(u.fields[i].name, v, e)
    <3>1. NameOK(u.fields[i].name, u, e) /\ u.fields[i].name # RawName
      BY ONLY <1>1, i \in 1 .. n, SetOK(u, z, p, e),
         \A k \in DOMAIN u.fields : u.fields[k].name # f.name /\ u.fields[k].name # RawName
         DEF SetOK, NamesOK
    <3>2. v.gen \in Nat
      BY DEF SetT
    <3> QED
      BY ONLY <1>1, <3>1, <3>2, v.gen # Done => u.gen # Done /\ u.gen <= v.gen DEF NameOK
  <2> QED
    BY ONLY <1>2, <1>3, <1>5, <2>1, NameOK(f.name, v, e) DEF NamesOK
<1> QED
  BY ONLY <1>4, <1>6, <1>7, v \in SetT, SizesOK(v, p) DEF SetOK

\* The fields stay, the size or the generator changes.
LEMMA SameFieldsOK ==
    ASSUME NEW u, NEW z, NEW p, NEW e, SetOK(u, z, p, e),
           NEW v \in SetT, v.fields = u.fields, v.current = u.current,
           v.gen # Done => u.gen # Done /\ u.gen <= v.gen,
           u.gen = Done /\ u.size = u.current => v.gen = Done /\ v.size = v.current,
           SizesOK(v, p)
    PROVE  SetOK(v, z, p, e)
<1>1. \A i \in DOMAIN u.fields : NameOK(u.fields[i].name, u, e)
  BY ONLY SetOK(u, z, p, e) DEF SetOK, NamesOK
<1>2. v.gen \in Nat /\ u.gen \in Nat
  BY DEF SetT, SetOK
<1>3. ASSUME NEW name, NameOK(name, u, e) PROVE NameOK(name, v, e)
  BY ONLY <1>2, <1>3, v.gen # Done => u.gen # Done /\ u.gen <= v.gen,
     u.gen = Done /\ u.size = u.current => v.gen = Done /\ v.size = v.current DEF NameOK
<1>4. NamesOK(v, e)
  BY ONLY <1>1, <1>3, v.fields = u.fields DEF NamesOK
<1> QED
  BY ONLY <1>4, SetOK(u, z, p, e), v \in SetT, v.fields = u.fields, v.current = u.current,
     SizesOK(v, p) DEF SetOK

\* A set ends where its last field does: what _fixLastField adds begins at
\* _current_size.
LEMMA LastEnds ==
    ASSUME NEW t, NEW s, NEW p, NEW e, SetOK(t[s], t.sub.size, p, e)
    PROVE  t[s].current = IF t[s].fields = <<>> THEN 0
                          ELSE Last(t[s].fields).address + SizeOf(t, Last(t[s].fields))
<1>1. Chain(t[s].fields, t.sub.size, 0, t[s].current)
  BY DEF SetOK
<1> QED
  BY ONLY <1>1 DEF Chain, Last, SizeOf, EndOf

\* None is not a size, the stream is not empty, and Done is a number that
\* a generator can have.
LEMMA Unlikely == Unknown \notin Nat /\ StreamSize \in Nat /\ StreamSize # 0 /\ Done \in Nat
BY FieldSetAssumption DEF Done

\* What _fixLastField makes of a set of known size: a raw field fills what
\* is left.
LEMMA FixLastIs ==
    ASSUME NEW t, NEW p, NEW e, TreeOK(t, p, e), NEW s \in Sets, t[s].size # Unknown
    PROVE  LET r == FixLast(t, s)
           IN /\ DOMAIN r = Sets /\ \A o \in Sets \ {s} : r[o] = t[o]
              /\ r[s] \in SetT /\ r[s].gen = Done /\ r[s].size = t[s].size /\ r[s].current = t[s].size
              /\ t[s].current \in Nat /\ t[s].size \in Nat /\ t[s].current <= t[s].size
              /\ t[s].size = t[s].current => r[s].fields = t[s].fields
              /\ t[s].size # t[s].current =>
                   r[s].fields = Append(t[s].fields,
                       Field(RawName, "data", t[s].current, t[s].size - t[s].current))
<1> DEFINE r == FixLast(t, s)
           u == t[s]
           raw == Field(RawName, "data", u.current, u.size - u.current)
           gs == IF u.size = u.current THEN u.fields ELSE Append(u.fields, raw)
<1>1. SetOK(u, t.sub.size, p, e) /\ DOMAIN t = Sets
  BY DEF TreeOK
<1>2. u.fields \in Seq(Fields) /\ u.size \in Nat /\ u.current \in Nat /\ u.gen \in Nat
  BY <1>1, SetFacts DEF OptSize
<1>3. u.current <= u.size
  BY <1>1 DEF SetOK, SizesOK
<1>4. u.current = IF u.fields = <<>> THEN 0 ELSE Last(u.fields).address + SizeOf(t, Last(u.fields))
  BY ONLY <1>1, LastEnds
<1>5. ~ (u.size < u.current)
  BY ONLY <1>2, <1>3
<1>6. u.size - u.current = 0 <=> u.size = u.current
  BY ONLY <1>2
<1>7. FixLast(t, s) = [t EXCEPT ![s].gen = Done, ![s].current = u.size, ![s].fields = gs]
  <2> DEFINE fields == IF t[s].size < t[s].current THEN Fitting(t, s) ELSE t[s].fields
             filled == IF fields = <<>> THEN 0 ELSE Last(fields).address + SizeOf(t, Last(fields))
             rest == t[s].size - filled
             hs == IF rest = 0 THEN fields ELSE Append(fields, Field(RawName, "data", filled, rest))
  <2>1. FixLast(t, s) = [t EXCEPT ![s].gen = Done, ![s].current = t[s].size, ![s].fields = hs]
    BY ONLY DEF FixLast
  <2>2. fields = u.fields
    BY ONLY <1>5
  <2> HIDE DEF fields
  <2>3. filled = u.current
    BY ONLY <1>4, <2>2
  <2> HIDE DEF filled
  <2>4. hs = gs
    BY ONLY <1>6, <2>2, <2>3
  <2> QED
    BY ONLY <2>1, <2>4
<1>8. u \in SetT /\ DOMAIN u = {"fields", "size", "current", "gen"}
  BY <1>1 DEF SetOK, SetT
<1>9. r[s] = [u EXCEPT !.gen = Done, !.current = u.size, !.fields = gs]
  BY ONLY <1>1, <1>7, s \in Sets
<1>10. DOMAIN r = Sets /\ \A o \in Sets \ {s} : r[o] = t[o]
  BY ONLY <1>1, <1>7, s \in Sets
<1>11. /\ r[s].gen = Done /\ r[s].size = u.size /\ r[s].current = u.size /\ r[s].fields = gs
       /\ r[s] = [fields |-> gs, size |-> u.size, current |-> u.size, gen |-> Done]
  BY ONLY <1>8, <1>9 DEF SetT
<1>12. gs \in Seq(Fields)
  <2>1. u.size # u.current => u.size - u.current \in Nat
    BY ONLY <1>2, <1>3
  <2>2. u.size # u.current => raw \in Fields
    BY ONLY <1>2, <2>1 DEF Field, Fields, Names
  <2> HIDE DEF raw
  <2> QED
    BY ONLY <1>2, <2>2, AppendProperties
<1>13. r[s] \in SetT
  BY <1>2, <1>11, <1>12, Unlikely DEF SetT, OptSize
<1> HIDE DEF r
<1>14. /\ u.size = u.current => r[s].fields = u.fields
       /\ u.size # u.current => r[s].fields = Append(u.fields, raw)
  BY ONLY <1>11
<1> QED
  BY ONLY <1>2, <1>3, <1>10, <1>11, <1>13, <1>14 DEF r

\* One of the two sets of a tree has changed, and the other one still
\* holds together: the parser needs the size of the set only when the set
\* is its field.
LEMMA TreeWith ==
    ASSUME NEW t, NEW p, NEW e, TreeOK(t, p, e), NEW s \in Sets,
           NEW r, DOMAIN r = Sets, \A o \in Sets \ {s} : r[o] = t[o],
           SetOK(r[s], r.sub.size, p, e),
           s = "sub" => ~HasSet(r.sub.fields),
           s = "sub" => r.sub.size = t.sub.size \/ ~HasSet(t.root.fields),
           s = "root" => OneSet(r.root.fields),
           s = "root" => (~p => r.root.size = t.root.size)
    PROVE  TreeOK(r, p, e)
<1>1. /\ SetOK(t.root, t.sub.size, p, e) /\ SetOK(t.sub, t.sub.size, p, e)
      /\ ~HasSet(t.sub.fields) /\ OneSet(t.root.fields)
      /\ ~p => t.root.size = StreamSize
  BY DEF TreeOK, Sets
<1>2. CASE s = "root"
  <2>1. r.sub = t.sub
    BY <1>2 DEF Sets
  <2>2. \A o \in Sets : SetOK(r[o], r.sub.size, p, e)
    BY <1>1, <1>2, <2>1 DEF Sets
  <2>3. OneSet(r.root.fields) /\ (~p => r.root.size = StreamSize)
    BY <1>1, <1>2
  <2> QED
    BY ONLY <1>1, <2>1, <2>2, <2>3, DOMAIN r = Sets DEF TreeOK
<1>3. CASE s = "sub"
  <2>1. r.root = t.root
    BY <1>3 DEF Sets
  <2>2. SetOK(r.root, r.sub.size, p, e)
    <3>1. CASE r.sub.size = t.sub.size
      BY ONLY <1>1, <2>1, <3>1
    <3>2. CASE ~HasSet(t.root.fields)
      BY ONLY <1>1, <2>1, <3>2, SetOfData
    <3> QED
      BY <1>3, <3>1, <3>2
  <2>3. \A o \in Sets : SetOK(r[o], r.sub.size, p, e)
    BY <1>3, <2>2 DEF Sets
  <2> QED
    BY ONLY <1>1, <1>3, <2>1, <2>3, DOMAIN r = Sets, s = "sub" => ~HasSet(r.sub.fields) DEF TreeOK
<1> QED
  BY <1>2, <1>3 DEF Sets

\* At most one set, also with one more field.
LEMMA OneSetAppend ==
    ASSUME NEW fs \in Seq(Fields), OneSet(fs), NEW f \in Fields, f.kind = "set" => ~HasSet(fs)
    PROVE  OneSet(Append(fs, f))
<1> DEFINE n == Len(fs)
           gs == Append(fs, f)
<1>1. n \in Nat /\ DOMAIN fs = 1 .. n
  BY ONLY fs \in Seq(Fields), LenProperties
<1>2. /\ gs \in Seq(Fields) /\ Len(gs) = n + 1 /\ \A i \in 1 .. n : gs[i] = fs[i]
      /\ gs[n + 1] = f
  BY ONLY fs \in Seq(Fields), f \in Fields, AppendProperties
<1> HIDE DEF gs, n
<1>3. DOMAIN gs = 1 .. (n + 1)
  BY ONLY <1>2, LenProperties
<1>4. \A i \in 1 .. (n + 1) : i \in 1 .. n \/ i = n + 1
  BY ONLY <1>1
<1>5. ASSUME NEW i \in 1 .. (n + 1), NEW j \in 1 .. (n + 1), gs[i].kind = "set", gs[j].kind = "set"
      PROVE  i = j
  <2>1. CASE i \in 1 .. n /\ j \in 1 .. n
    BY ONLY <1>1, <1>2, <1>5, <2>1, OneSet(fs) DEF OneSet
  <2>2. CASE i = n + 1 /\ j \in 1 .. n
    BY ONLY <1>1, <1>2, <1>5, <2>2, f.kind = "set" => ~HasSet(fs) DEF HasSet
  <2>3. CASE j = n + 1 /\ i \in 1 .. n
    BY ONLY <1>1, <1>2, <1>5, <2>3, f.kind = "set" => ~HasSet(fs) DEF HasSet
  <2> QED
    BY ONLY <1>4, <2>1, <2>2, <2>3, i \in 1 .. (n + 1), j \in 1 .. (n + 1)
<1> QED
  BY ONLY <1>3, <1>5 DEF OneSet, gs

\* _fixLastField keeps the tree together and adds no set.
LEMMA FixLastOK ==
    ASSUME NEW t, NEW p, NEW e, TreeOK(t, p, e), NEW s \in Sets, t[s].size # Unknown
    PROVE  /\ TreeOK(FixLast(t, s), p, e)
           /\ HasSet(FixLast(t, s).root.fields) <=> HasSet(t.root.fields)
<1> DEFINE r == FixLast(t, s)
           u == t[s]
           z == t.sub.size
           raw == Field(RawName, "data", u.current, u.size - u.current)
<1>1. /\ DOMAIN r = Sets /\ \A o \in Sets \ {s} : r[o] = t[o]
      /\ r[s] \in SetT /\ r[s].gen = Done /\ r[s].size = u.size /\ r[s].current = u.size
      /\ u.current \in Nat /\ u.size \in Nat /\ u.current <= u.size
      /\ u.size = u.current => r[s].fields = u.fields
      /\ u.size # u.current => r[s].fields = Append(u.fields, raw)
  BY ONLY TreeOK(t, p, e), s \in Sets, t[s].size # Unknown, FixLastIs
<1>2. SetOK(u, z, p, e)
  BY DEF TreeOK
<1>3. u.fields \in Seq(Fields)
  BY ONLY <1>2, SetFacts
<1> HIDE DEF r
<1>4. u.size # u.current => raw \in Fields /\ raw.kind = "data" /\ raw.name = RawName
                            /\ raw.address = u.current /\ EndOf(raw, z) = u.size
  <2>1. u.size # u.current => u.size - u.current \in Nat /\ u.current + (u.size - u.current) = u.size
    BY ONLY <1>1
  <2> QED
    BY ONLY <1>1, <2>1 DEF Field, Fields, Names, EndOf
<1>5. SizesOK(r[s], p)
  BY ONLY <1>1 DEF SizesOK
<1> HIDE DEF raw
<1>6. SetOK(r[s], z, p, e)
  <2>1. CASE u.size = u.current
    BY ONLY <1>1, <1>2, <1>5, <2>1, SameFieldsOK
  <2>2. CASE u.size # u.current
    <3>1. \A i \in DOMAIN u.fields : u.fields[i].name # RawName
      BY ONLY <1>2, <2>2 DEF SetOK, NamesOK, NameOK
    <3>2. NameOK(raw.name, r[s], e)
      BY ONLY <1>1, <1>4, <2>2 DEF NameOK, RawName, EditNames, PadName, NewName, PadAfter
    <3>3. \A i \in DOMAIN u.fields : u.fields[i].name # raw.name /\ u.fields[i].name # RawName
      BY ONLY <1>4, <2>2, <3>1
    <3>4. raw.kind = "set" => z \in Nat
      BY ONLY <1>4, <2>2
    <3>5. r[s].fields = Append(u.fields, raw) /\ r[s].current = EndOf(raw, z) /\ raw.address = u.current
      BY ONLY <1>1, <1>4, <2>2
    <3>6. r[s].gen # Done => u.gen # Done /\ u.gen <= r[s].gen
      BY ONLY <1>1
    <3>7. raw \in Fields /\ r[s] \in SetT
      BY ONLY <1>1, <1>4, <2>2
    <3> QED
      BY ONLY <1>2, <1>5, <3>2, <3>3, <3>4, <3>5, <3>6, <3>7, AppendOK
  <2> QED
    BY ONLY <2>1, <2>2
<1>7. r.sub.size = z
  BY <1>1 DEF Sets
<1>8. HasSet(r[s].fields) <=> HasSet(u.fields)
  <2>1. Chain(u.fields, z, 0, u.current)
    BY ONLY <1>2 DEF SetOK
  <2>2. u.size # u.current => (raw.kind = "set" => z \in Nat) /\ raw.kind # "set"
    BY ONLY <1>4
  <2>3. CASE u.size = u.current
    BY ONLY <1>1, <2>3
  <2>4. CASE u.size # u.current
    <3>1. /\ raw \in Fields /\ raw.address = u.current /\ raw.kind # "set"
          /\ raw.kind = "set" => z \in Nat
      BY ONLY <1>4, <2>2, <2>4
    <3>2. HasSet(Append(u.fields, raw)) <=> HasSet(u.fields) \/ raw.kind = "set"
      BY ONLY <2>1, <3>1, ChainAppend
    <3> QED
      BY ONLY <1>1, <2>4, <3>1, <3>2
  <2> QED
    BY ONLY <2>3, <2>4
<1>9. s = "sub" => ~HasSet(r.sub.fields)
  BY ONLY <1>8, TreeOK(t, p, e) DEF TreeOK
<1>10. s = "root" => OneSet(r.root.fields)
  <2>1. s = "root" => OneSet(u.fields)
    BY ONLY TreeOK(t, p, e) DEF TreeOK
  <2>2. u.size # u.current => raw \in Fields /\ (raw.kind = "set" => ~HasSet(u.fields))
    BY ONLY <1>4
  <2> QED
    BY ONLY <1>1, <1>3, <2>1, <2>2, OneSetAppend
<1>11. HasSet(r.root.fields) <=> HasSet(t.root.fields)
  <2>1. CASE s = "root"
    BY ONLY <1>8, <2>1
  <2>2. CASE s = "sub"
    <3>1. r.root = t.root
      BY ONLY <1>1, <2>2 DEF Sets
    <3> QED
      BY ONLY <3>1
  <2> QED
    BY ONLY <2>1, <2>2, s \in Sets DEF Sets
<1>12. s = "root" => (~p => r.root.size = t.root.size)
  BY ONLY <1>1
<1>13. TreeOK(r, p, e)
  BY ONLY <1>1, <1>6, <1>7, <1>9, <1>10, <1>12, TreeOK(t, p, e), s \in Sets, TreeWith
<1> QED
  BY ONLY <1>11, <1>13 DEF r

\* The fields and the number of the next item stay, the generator may be
\* dropped.
LEMMA DropOK ==
    ASSUME NEW t, NEW p, NEW e, TreeOK(t, p, e), NEW s \in Sets,
           NEW r, DOMAIN r = Sets, \A o \in Sets \ {s} : r[o] = t[o],
           r[s] \in SetT, r[s].fields = t[s].fields, r[s].current = t[s].current,
           r[s].size = t[s].size \/ (s = "sub" /\ t[s].size = Unknown),
           r[s].gen # Done => t[s].gen # Done /\ t[s].gen <= r[s].gen,
           t[s].gen = Done /\ t[s].size = t[s].current => r[s].gen = Done /\ r[s].size = r[s].current,
           SizesOK(r[s], p)
    PROVE  TreeOK(r, p, e) /\ r.root.fields = t.root.fields
<1>1. SetOK(t[s], t.sub.size, p, e)
  BY DEF TreeOK
<1>2. SetOK(r[s], t.sub.size, p, e)
  BY ONLY <1>1, r[s] \in SetT, r[s].fields = t[s].fields, r[s].current = t[s].current,
     r[s].gen # Done => t[s].gen # Done /\ t[s].gen <= r[s].gen,
     t[s].gen = Done /\ t[s].size = t[s].current => r[s].gen = Done /\ r[s].size = r[s].current,
     SizesOK(r[s], p), SameFieldsOK
<1>3. CASE s = "root"
  <2>1. r.sub = t.sub /\ r.root.fields = t.root.fields /\ r.root.size = t.root.size
    BY <1>3 DEF Sets
  <2>2. OneSet(r.root.fields)
    BY <2>1 DEF TreeOK
  <2> QED
    BY ONLY <1>2, <1>3, <2>1, <2>2, TreeOK(t, p, e), s \in Sets, DOMAIN r = Sets,
       \A o \in Sets \ {s} : r[o] = t[o], TreeWith
<1>4. CASE s = "sub"
  <2>1. r.root = t.root /\ r.sub.fields = t.sub.fields
    BY <1>4 DEF Sets
  <2>2. ~HasSet(r.sub.fields)
    BY <2>1 DEF TreeOK
  <2>3. SetOK(r.sub, r.sub.size, p, e)
    BY ONLY <1>2, <1>4, <2>2, SetOfData
  <2>4. r.sub.size = t.sub.size \/ ~HasSet(t.root.fields)
    <3>1. CASE r.sub.size = t.sub.size
      BY ONLY <3>1
    <3>2. CASE t.sub.size = Unknown
      <4>1. HasSet(t.root.fields) => t.sub.size \in Nat
        BY ONLY TreeOK(t, p, e) DEF TreeOK, SetOK, Chain, Sets
      <4> QED
        BY ONLY <3>2, <4>1, Unlikely
    <3> QED
      BY ONLY <1>4, <3>1, <3>2, r[s].size = t[s].size \/ (s = "sub" /\ t[s].size = Unknown)
  <2> QED
    BY ONLY <1>4, <2>1, <2>2, <2>3, <2>4, TreeOK(t, p, e), s \in Sets, DOMAIN r = Sets,
       \A o \in Sets \ {s} : r[o] = t[o], TreeWith
<1> QED
  BY ONLY <1>3, <1>4, s \in Sets DEF Sets

\* What is known of the sets of a tree.
LEMMA TreeFacts ==
    ASSUME NEW t, NEW p, NEW e, TreeOK(t, p, e), NEW s \in Sets
    PROVE  /\ DOMAIN t = Sets /\ SetOK(t[s], t.sub.size, p, e) /\ t[s] \in SetT
           /\ DOMAIN t[s] = {"fields", "size", "current", "gen"}
           /\ t[s].fields \in Seq(Fields) /\ t[s].size \in OptSize
           /\ t[s].current \in Nat /\ t[s].gen \in Nat
           /\ t[s].size # Unknown => t[s].size \in Nat /\ t[s].current <= t[s].size
           /\ t[s].size = Unknown => (s = "root" /\ p) \/ (s = "sub" /\ ~HasSet(t.root.fields))
           /\ HasSet(t.root.fields) => t.sub.size \in Nat
<1>1. SetOK(t[s], t.sub.size, p, e) /\ DOMAIN t = Sets
  BY DEF TreeOK
<1>2. t[s] \in SetT
  BY ONLY <1>1 DEF SetOK
<1>3. /\ DOMAIN t[s] = {"fields", "size", "current", "gen"}
      /\ t[s].fields \in Seq(Fields) /\ t[s].size \in OptSize
      /\ t[s].current \in Nat /\ t[s].gen \in Nat
  BY ONLY <1>2 DEF SetT
<1>4. t[s].size # Unknown => t[s].size \in Nat /\ t[s].current <= t[s].size
  BY ONLY <1>1, <1>3 DEF OptSize, SetOK, SizesOK
<1>5. HasSet(t.root.fields) => t.sub.size \in Nat
  BY ONLY TreeOK(t, p, e) DEF TreeOK, SetOK, Chain, Sets
<1>6. t[s].size = Unknown => (s = "root" /\ p) \/ (s = "sub" /\ ~HasSet(t.root.fields))
  <2>1. ~p => t.root.size \in Nat
    BY ONLY TreeOK(t, p, e), Unlikely DEF TreeOK
  <2> QED
    BY ONLY <1>5, <2>1, Unlikely, s \in Sets DEF Sets
<1> QED
  BY ONLY <1>1, <1>2, <1>3, <1>4, <1>5, <1>6

\* _stopFeeding keeps the tree together and adds no set.
LEMMA StopFeedingOK ==
    ASSUME NEW t, NEW p, NEW e, TreeOK(t, p, e), NEW s \in Sets
    PROVE  LET r == StopFeeding(t, s)
           IN /\ TreeOK(r, p, e)
              /\ HasSet(r.root.fields) <=> HasSet(t.root.fields)
              /\ DOMAIN r = Sets /\ \A o \in Sets \ {s} : r[o] = t[o]
              /\ r[s].gen = Done
              /\ s = "sub" => r.sub.size # Unknown
              /\ t[s].size = t[s].current \/ t[s].size = Unknown =>
                   r[s].fields = t[s].fields /\ r[s].current = t[s].current
              /\ t[s].size # Unknown => r[s].size = t[s].size /\ r[s].current = t[s].size
              /\ t[s].size = Unknown /\ s = "sub" => r[s].size = t[s].current
<1> DEFINE r == StopFeeding(t, s)
           u == t[s]
           size == IF u.size = Unknown /\ s = "sub" THEN u.current ELSE u.size
<1>1. /\ DOMAIN t = Sets /\ SetOK(t[s], t.sub.size, p, e) /\ t[s] \in SetT
      /\ DOMAIN t[s] = {"fields", "size", "current", "gen"}
      /\ t[s].fields \in Seq(Fields) /\ t[s].size \in OptSize
      /\ t[s].current \in Nat /\ t[s].gen \in Nat
      /\ t[s].size # Unknown => t[s].size \in Nat /\ t[s].current <= t[s].size
      /\ t[s].size = Unknown => (s = "root" /\ p) \/ (s = "sub" /\ ~HasSet(t.root.fields))
      /\ HasSet(t.root.fields) => t.sub.size \in Nat
  BY ONLY TreeOK(t, p, e), s \in Sets, TreeFacts
<1>2. CASE u.size = Unknown \/ u.size = u.current
  <2>1. r = [t EXCEPT ![s].gen = Done, ![s].size = size]
    <3>1. CASE u.size = Unknown
      BY ONLY <1>1, <3>1 DEF StopFeeding
    <3>2. CASE u.size # Unknown /\ u.size = u.current
      <4>1. r = [t EXCEPT ![s].gen = Done]
        BY ONLY <3>2 DEF StopFeeding
      <4>2. size = t[s].size
        BY ONLY <3>2
      <4>3. [t EXCEPT ![s].gen = Done] = [t EXCEPT ![s].gen = Done, ![s].size = t[s].size]
        BY ONLY <1>1, s \in Sets DEF SetT
      <4> QED
        BY ONLY <4>1, <4>2, <4>3
    <3> QED
      BY ONLY <1>2, <3>1, <3>2
  <2> HIDE DEF r
  <2>2. /\ DOMAIN r = Sets /\ \A o \in Sets \ {s} : r[o] = t[o]
        /\ r[s] = [u EXCEPT !.gen = Done, !.size = size]
    BY ONLY <1>1, <2>1, s \in Sets
  <2>3. /\ r[s].fields = u.fields /\ r[s].current = u.current /\ r[s].gen = Done /\ r[s].size = size
        /\ r[s] = [fields |-> u.fields, size |-> size, current |-> u.current, gen |-> Done]
    BY ONLY <1>1, <2>2 DEF SetT
  <2>4. size \in OptSize
    BY ONLY <1>1 DEF OptSize
  <2>5. r[s] \in SetT
    BY ONLY <1>1, <2>3, <2>4, Unlikely DEF SetT
  <2>6. /\ u.size = Unknown /\ s = "sub" => size = u.current
        /\ u.size # Unknown \/ s # "sub" => size = u.size
    OBVIOUS
  <2> HIDE DEF size
  <2>7. SizesOK(r[s], p)
    <3>1. CASE size = u.current
      BY ONLY <1>1, <2>3, <3>1 DEF SizesOK
    <3>2. CASE size # u.current
      BY ONLY <1>1, <1>2, <2>3, <2>6, <3>2 DEF SizesOK
    <3> QED
      BY ONLY <3>1, <3>2
  <2>8. r[s].gen # Done => t[s].gen # Done /\ t[s].gen <= r[s].gen
    BY ONLY <2>3
  <2>9. t[s].gen = Done /\ t[s].size = t[s].current => r[s].gen = Done /\ r[s].size = r[s].current
    BY ONLY <1>1, <2>3, <2>6, Unlikely
  <2>10. r[s].size = t[s].size \/ (s = "sub" /\ t[s].size = Unknown)
    BY ONLY <2>3, <2>6
  <2>11. TreeOK(r, p, e) /\ r.root.fields = t.root.fields
    <3>1. r[s].fields = t[s].fields /\ r[s].current = t[s].current
      BY ONLY <2>3
    <3>2. DOMAIN r = Sets /\ \A o \in Sets \ {s} : r[o] = t[o]
      BY ONLY <2>2
    <3> QED
      BY ONLY TreeOK(t, p, e), s \in Sets, <3>1, <3>2, <2>5, <2>7, <2>8, <2>9, <2>10, DropOK
  <2>12. s = "sub" => r.sub.size # Unknown
    BY ONLY <1>1, <2>3, <2>6, Unlikely
  <2>13. u.size # Unknown => u.size = u.current
    BY ONLY <1>2
  <2> QED
    BY ONLY <2>2, <2>3, <2>6, <2>11, <2>12, <2>13 DEF r
<1>3. CASE u.size # Unknown /\ u.size # u.current
  <2>1. r = FixLast(t, s)
    BY ONLY <1>3 DEF StopFeeding
  <2>2. /\ DOMAIN r = Sets /\ \A o \in Sets \ {s} : r[o] = t[o]
        /\ r[s].gen = Done /\ r[s].size = t[s].size /\ r[s].current = t[s].size
    BY ONLY <1>3, <2>1, TreeOK(t, p, e), s \in Sets, FixLastIs
  <2>3. /\ TreeOK(r, p, e)
        /\ HasSet(r.root.fields) <=> HasSet(t.root.fields)
    BY ONLY <1>3, <2>1, TreeOK(t, p, e), s \in Sets, FixLastOK
  <2> QED
    BY ONLY <1>3, <2>2, <2>3 DEF r
<1> QED
  BY ONLY <1>2, <1>3

\* _addField: a field that fits, with a new name, where the set ends.
LEMMA AddToOK ==
    ASSUME NEW t, NEW p, NEW e, TreeOK(t, p, e), NEW s \in Sets, NEW f \in Fields,
           f.address = t[s].current, f.name \in Nat,
           f.kind = "set" => s = "root" /\ t.sub.size \in Nat /\ ~HasSet(t.root.fields),
           NEW end, end = EndOf(f, t.sub.size),
           t[s].size # Unknown => end <= t[s].size,
           \A i \in DOMAIN t[s].fields :
              t[s].fields[i].name # f.name /\ t[s].fields[i].name # RawName,
           t[s].gen # Done => f.name < t[s].gen,
           ~p /\ t[s].gen = Done => t[s].size = end
    PROVE  LET r == AddTo(t, s, f)
           IN /\ TreeOK(r, p, e)
              /\ HasSet(r.root.fields) <=> HasSet(t.root.fields) \/ f.kind = "set"
              /\ DOMAIN r = Sets /\ \A o \in Sets \ {s} : r[o] = t[o]
              /\ r[s].fields = Append(t[s].fields, f) /\ r[s].current = end
              /\ r[s].size = t[s].size /\ r[s].gen = t[s].gen
<1> DEFINE r == AddTo(t, s, f)
           u == t[s]
           z == t.sub.size
<1>1. /\ DOMAIN t = Sets /\ SetOK(u, z, p, e) /\ t[s] \in SetT
      /\ DOMAIN t[s] = {"fields", "size", "current", "gen"}
      /\ u.fields \in Seq(Fields) /\ u.size \in OptSize
      /\ u.current \in Nat /\ u.gen \in Nat
      /\ u.size # Unknown => u.size \in Nat /\ u.current <= u.size
      /\ HasSet(t.root.fields) => z \in Nat
  BY ONLY TreeOK(t, p, e), s \in Sets, TreeFacts
<1>2. f.kind = "set" => z \in Nat
  OBVIOUS
<1>3. end \in Nat /\ u.current + SizeOf(t, f) = end
  <2>1. f.address \in Nat /\ f.size \in Nat
    BY DEF Fields
  <2> QED
    BY ONLY <1>2, <2>1, end = EndOf(f, t.sub.size), f.address = t[s].current DEF EndOf, SizeOf
<1>4. r = [t EXCEPT ![s].fields = Append(u.fields, f), ![s].current = end]
  BY ONLY <1>1, <1>3, s \in Sets DEF AddTo
<1> HIDE DEF r
<1>5. /\ DOMAIN r = Sets /\ \A o \in Sets \ {s} : r[o] = t[o]
      /\ r[s] = [u EXCEPT !.fields = Append(u.fields, f), !.current = end]
  BY ONLY <1>1, <1>4, s \in Sets
<1>6. /\ r[s].fields = Append(u.fields, f) /\ r[s].current = end
      /\ r[s].size = u.size /\ r[s].gen = u.gen
      /\ r[s] = [fields |-> Append(u.fields, f), size |-> u.size, current |-> end, gen |-> u.gen]
  BY ONLY <1>1, <1>5 DEF SetT
<1>7. Append(u.fields, f) \in Seq(Fields)
  BY ONLY <1>1, f \in Fields, AppendProperties
<1>8. r[s] \in SetT
  BY ONLY <1>1, <1>3, <1>6, <1>7 DEF SetT
<1>9. SizesOK(r[s], p)
  BY ONLY <1>1, <1>6, t[s].size # Unknown => end <= t[s].size,
     ~p /\ t[s].gen = Done => t[s].size = end DEF SizesOK
<1>10. NameOK(f.name, r[s], e)
  BY ONLY <1>6, f.name \in Nat, t[s].gen # Done => f.name < t[s].gen
     DEF NameOK, RawName, EditNames, PadName, NewName, PadAfter
<1>11. r[s].gen # Done => u.gen # Done /\ u.gen <= r[s].gen
  BY ONLY <1>1, <1>6
<1>12. SetOK(r[s], z, p, e)
  BY ONLY <1>1, <1>2, <1>6, <1>8, <1>9, <1>10, <1>11, f \in Fields, f.address = t[s].current,
     end = EndOf(f, t.sub.size), \A i \in DOMAIN t[s].fields :
        t[s].fields[i].name # f.name /\ t[s].fields[i].name # RawName, AppendOK
<1>13. HasSet(r[s].fields) <=> HasSet(u.fields) \/ f.kind = "set"
  <2>1. Chain(u.fields, z, 0, u.current)
    BY ONLY <1>1 DEF SetOK
  <2>2. HasSet(Append(u.fields, f)) <=> HasSet(u.fields) \/ f.kind = "set"
    BY ONLY <1>2, <2>1, f \in Fields, f.address = t[s].current, ChainAppend
  <2> QED
    BY ONLY <1>6, <2>2
<1>14. r.sub.size = z
  BY ONLY <1>5, <1>6, s \in Sets DEF Sets
<1>15. ~HasSet(t.sub.fields) /\ OneSet(t.root.fields)
  BY DEF TreeOK
<1>16. s = "sub" => ~HasSet(r.sub.fields)
  BY ONLY <1>13, <1>15, f.kind = "set" => s = "root" /\ t.sub.size \in Nat /\ ~HasSet(t.root.fields)
<1>17. s = "root" => OneSet(r.root.fields)
  BY ONLY <1>1, <1>6, <1>15, f \in Fields, OneSetAppend,
     f.kind = "set" => s = "root" /\ t.sub.size \in Nat /\ ~HasSet(t.root.fields)
<1>18. TreeOK(r, p, e)
  <2>1. SetOK(r[s], r.sub.size, p, e)
    BY ONLY <1>12, <1>14
  <2>2. s = "sub" => r.sub.size = t.sub.size \/ ~HasSet(t.root.fields)
    BY ONLY <1>14
  <2>3. s = "root" => (~p => r.root.size = t.root.size)
    BY ONLY <1>6
  <2>4. DOMAIN r = Sets /\ \A o \in Sets \ {s} : r[o] = t[o]
    BY ONLY <1>5
  <2> QED
    BY ONLY TreeOK(t, p, e), s \in Sets, <1>16, <1>17, <2>1, <2>2, <2>3, <2>4, TreeWith
<1>19. HasSet(r.root.fields) <=> HasSet(t.root.fields) \/ f.kind = "set"
  <2>1. CASE s = "root"
    BY ONLY <1>13, <2>1
  <2>2. CASE s = "sub"
    <3>1. r.root = t.root /\ f.kind # "set"
      BY ONLY <1>5, <2>2, f.kind = "set" => s = "root" /\ t.sub.size \in Nat /\ ~HasSet(t.root.fields)
         DEF Sets
    <3> QED
      BY ONLY <3>1
  <2> QED
    BY ONLY <2>1, <2>2, s \in Sets DEF Sets
<1> QED
  BY ONLY <1>5, <1>6, <1>18, <1>19 DEF r

\* What is left when a set is cut at a size: the fields that begin before
\* it.
LEMMA BeforeIs ==
    ASSUME NEW u, NEW z, NEW p, NEW e, SetOK(u, z, p, e),
           NEW size \in Nat, 0 < size, size < u.current
    PROVE  \E k \in 1 .. Len(u.fields) :
              /\ Before(u.fields, size) = SubSeq(u.fields, 1, k)
              /\ u.fields[k].address < size /\ size <= EndOf(u.fields[k], z)
<1> DEFINE fs == u.fields
           n == Len(fs)
           K == {0} \cup {i \in DOMAIN fs : fs[i].address < size}
           k == Max(K)
<1>1. /\ fs \in Seq(Fields) /\ n \in Nat /\ DOMAIN fs = 1 .. n /\ u.current \in Nat
      /\ Chain(fs, z, 0, u.current)
  BY SetFacts DEF SetOK
<1>2. /\ HasSet(fs) => z \in Nat
      /\ fs = <<>> => 0 = u.current
      /\ fs # <<>> => fs[1].address = 0 /\ EndOf(fs[n], z) = u.current
      /\ \A i \in 1 .. (n - 1) : fs[i + 1].address = EndOf(fs[i], z)
  BY ONLY <1>1 DEF Chain
<1>3. fs # <<>> /\ n # 0
  <2>1. fs # <<>>
    BY ONLY <1>1, <1>2, 0 < size, size < u.current, size \in Nat
  <2> QED
    BY ONLY <1>1, <2>1, EmptySeq
<1>4. \A i \in 1 .. n : fs[i].address \in Nat /\ EndOf(fs[i], z) \in Nat
  BY ONLY <1>1, <1>2, EndsAreNumbers
<1>5. Before(fs, size) = SubSeq(fs, 1, k)
  BY ONLY DEF Before
<1> HIDE DEF fs, n
<1>6. 1 \in K /\ K \in SUBSET (0 .. n)
  <2>1. 1 \in 1 .. n
    BY ONLY <1>1, <1>3
  <2> QED
    BY ONLY <1>1, <1>2, <1>3, <2>1, 0 < size
<1> HIDE DEF K
<1>7. k \in K /\ \A y \in K : y <= k
  BY ONLY <1>1, <1>6, GreatestUpTo
<1> HIDE DEF k
<1>8. k \in 1 .. n
  BY ONLY <1>1, <1>6, <1>7
<1>9. fs[k].address < size
  BY ONLY <1>7, <1>8 DEF K
<1>10. size <= EndOf(fs[k], z)
  <2>1. CASE k = n
    BY ONLY <1>1, <1>2, <1>3, <2>1, size < u.current, size \in Nat
  <2>2. CASE k # n
    <3>1. k \in 1 .. (n - 1) /\ k + 1 \in 1 .. n /\ ~ (k + 1 <= k)
      BY ONLY <1>1, <1>8, <2>2
    <3>2. k + 1 \notin K
      BY ONLY <1>7, <3>1
    <3>3. ~ (fs[k + 1].address < size)
      BY ONLY <1>1, <3>1, <3>2 DEF K
    <3>4. fs[k + 1].address = EndOf(fs[k], z)
      BY ONLY <1>2, <3>1
    <3> QED
      BY ONLY <1>4, <3>1, <3>3, <3>4, size \in Nat
  <2> QED
    BY ONLY <2>1, <2>2
<1> QED
  BY ONLY <1>5, <1>8, <1>9, <1>10 DEF fs, n

\* A part of the fields of a set, up to k, has the properties of their
\* names.
LEMMA PrefixNames ==
    ASSUME NEW fs \in Seq(Fields), NEW k \in 0 .. Len(fs), Unlike(fs), OneSet(fs)
    PROVE  LET gs == SubSeq(fs, 1, k)
           IN /\ gs \in Seq(Fields) /\ Len(gs) = k /\ DOMAIN gs = 1 .. k
              /\ \A i \in 1 .. k : gs[i] = fs[i] /\ i \in DOMAIN fs
              /\ Unlike(gs) /\ OneSet(gs)
<1> DEFINE gs == SubSeq(fs, 1, k)
<1>1. Len(fs) \in Nat /\ DOMAIN fs = 1 .. Len(fs) /\ k \in Nat /\ k <= Len(fs)
  BY LenProperties
<1>2. \A i \in 1 .. k : i \in 1 .. Len(fs) /\ fs[i] \in Fields
  <2>1. \A i \in 1 .. k : i \in 1 .. Len(fs)
    BY ONLY <1>1
  <2> QED
    BY ONLY <2>1, fs \in Seq(Fields), ElementOfSeq
<1>3. /\ gs \in Seq(Fields) /\ Len(gs) = (IF 1 <= k THEN k - 1 + 1 ELSE 0)
      /\ \A i \in 1 .. k - 1 + 1 : gs[i] = fs[1 + i - 1]
  <2>1. 1 \in Int /\ k \in Int
    BY ONLY <1>1
  <2> QED
    BY ONLY <1>2, <2>1, SubSeqProperties
<1> HIDE DEF gs
<1>4. Len(gs) = k
  BY ONLY <1>1, <1>3
<1>5. ASSUME NEW i \in 1 .. k PROVE gs[i] = fs[i]
  <2>1. i \in 1 .. k - 1 + 1 /\ 1 + i - 1 = i
    BY ONLY <1>1, i \in 1 .. k
  <2> QED
    BY ONLY <1>3, <2>1
<1>6. DOMAIN gs = 1 .. k
  BY ONLY <1>3, <1>4, LenProperties
<1>7. Unlike(gs)
  <2>1. \A i \in 1 .. k : i = Len(fs) => i = k
    <3> DEFINE n == Len(fs)
    <3> HIDE DEF n
    <3>1. n \in Nat /\ k \in Nat /\ k <= n
      BY ONLY <1>1 DEF n
    <3>2. \A i \in 1 .. k : i = n => i = k
      BY ONLY <3>1
    <3> QED
      BY ONLY <3>2 DEF n
  <2> QED
    BY ONLY <1>1, <1>2, <1>4, <1>5, <1>6, <2>1, Unlike(fs) DEF Unlike
<1>8. OneSet(gs)
  BY ONLY <1>1, <1>2, <1>5, <1>6, OneSet(fs) DEF OneSet
<1> QED
  BY ONLY <1>1, <1>2, <1>3, <1>4, <1>5, <1>6, <1>7, <1>8 DEF gs

\* The fields of a set that is cut in its field k.
Cut(fs, k, size, z) ==
    LET gs == SubSeq(fs, 1, k)
        rest == size - fs[k].address
    IN IF rest < (IF fs[k].kind = "set" THEN z ELSE fs[k].size) /\ fs[k].kind # "set"
       THEN Append(SubSeq(gs, 1, k - 1), Field(RawName, "data", fs[k].address, rest))
       ELSE gs

\* What gs, which is left of the fields of u up to k, has to be when u is cut.
CutOK(u, gs, k, size, y) ==
    /\ Chain(gs, y, 0, size) /\ Unlike(gs) /\ OneSet(gs)
    /\ HasSet(gs) => HasSet(u.fields)
    /\ gs # <<>> /\ (Last(gs).kind = "set" <=> u.fields[k].kind = "set")
    /\ Last(gs).address = u.fields[k].address
    /\ \A i \in DOMAIN gs :
          gs[i].name = RawName \/ \E j \in DOMAIN u.fields : gs[i].name = u.fields[j].name

\* They follow each other up to the size, if the set in it is cut, too.
LEMMA CutIsChain ==
    ASSUME NEW u, NEW z, NEW p, NEW e, SetOK(u, z, p, e), OneSet(u.fields),
           NEW size \in Nat, NEW k \in 1 .. Len(u.fields),
           u.fields[k].address < size, size <= EndOf(u.fields[k], z),
           NEW y, y = IF u.fields[k].kind = "set" /\ size - u.fields[k].address < z
                      THEN size - u.fields[k].address ELSE z
    PROVE  CutOK(u, Cut(u.fields, k, size, z), k, size, y)
<1> DEFINE fs == u.fields
           f == fs[k]
           n == Len(fs)
           rest == size - f.address
           ps == SubSeq(fs, 1, k)
           hs == SubSeq(fs, 1, k - 1)
           raw == Field(RawName, "data", f.address, rest)
           gs == Cut(fs, k, size, z)
<1> SUFFICES /\ Chain(gs, y, 0, size) /\ Unlike(gs) /\ OneSet(gs)
             /\ HasSet(gs) => HasSet(u.fields)
             /\ gs # <<>> /\ (Last(gs).kind = "set" <=> u.fields[k].kind = "set")
             /\ Last(gs).address = u.fields[k].address
             /\ \A i \in DOMAIN gs :
                   gs[i].name = RawName \/ \E j \in DOMAIN u.fields : gs[i].name = u.fields[j].name
  BY DEF CutOK
<1>1. /\ fs \in Seq(Fields) /\ n \in Nat /\ DOMAIN fs = 1 .. n /\ u.current \in Nat
      /\ Chain(fs, z, 0, u.current) /\ Unlike(fs) /\ f \in Fields
  BY SetFacts DEF SetOK
<1>2. k \in Nat /\ k - 1 \in Nat /\ k \in 0 .. n /\ k - 1 \in 0 .. n /\ k \in 1 .. n /\ k # 0
  BY ONLY <1>1, k \in 1 .. Len(u.fields)
<1>3. f.address \in Nat /\ f.size \in Nat /\ f.kind \in {"data", "set"}
  BY ONLY <1>1 DEF Fields
<1>4. rest \in Nat /\ f.address + rest = size
  BY ONLY <1>3, u.fields[k].address < size, size \in Nat
<1>5. /\ hs \in Seq(Fields) /\ Len(hs) = k - 1 /\ DOMAIN hs = 1 .. (k - 1)
      /\ \A i \in 1 .. (k - 1) : hs[i] = fs[i] /\ i \in DOMAIN fs
      /\ Unlike(hs) /\ OneSet(hs)
  BY ONLY <1>1, <1>2, OneSet(u.fields), PrefixNames
<1>6. /\ ps \in Seq(Fields) /\ Len(ps) = k /\ DOMAIN ps = 1 .. k
      /\ \A i \in 1 .. k : ps[i] = fs[i] /\ i \in DOMAIN fs
      /\ Unlike(ps) /\ OneSet(ps)
  BY ONLY <1>1, <1>2, OneSet(u.fields), PrefixNames
<1>7. /\ Chain(hs, z, 0, f.address) /\ (HasSet(hs) => HasSet(fs))
  <2>1. /\ HasSet(hs) => HasSet(fs)
        /\ Chain(hs, z, 0, IF k - 1 = 0 THEN 0 ELSE EndOf(fs[k - 1], z))
    BY ONLY <1>1, <1>2, ChainPrefix
  <2>2. (IF k - 1 = 0 THEN 0 ELSE EndOf(fs[k - 1], z)) = f.address
    <3>1. k - 1 = 0 => fs[k].address = 0
      <4>1. fs # <<>>
        BY ONLY <1>1, <1>2, EmptySeq
      <4>2. k - 1 = 0 => k = 1
        BY ONLY <1>2
      <4> QED
        BY ONLY <1>1, <4>1, <4>2 DEF Chain
    <3>2. k - 1 # 0 => k - 1 \in 1 .. (n - 1) /\ (k - 1) + 1 = k
      BY ONLY <1>1, <1>2
    <3> QED
      BY ONLY <1>1, <3>1, <3>2 DEF Chain
  <2> QED
    BY ONLY <2>1, <2>2
<1>8. ps = Append(hs, f)
  <2>1. /\ Append(hs, f) \in Seq(Fields) /\ Len(Append(hs, f)) = Len(hs) + 1
        /\ \A i \in 1 .. Len(hs) : Append(hs, f)[i] = hs[i]
        /\ Append(hs, f)[Len(hs) + 1] = f
    BY ONLY <1>1, <1>5, AppendProperties
  <2> DEFINE as == Append(hs, f)
  <2> HIDE DEF as, hs, ps, fs, f
  <2>2. /\ as \in Seq(Fields) /\ Len(as) = k /\ (\A i \in 1 .. (k - 1) : as[i] = hs[i]) /\ as[k] = f
    <3>1. (k - 1) + 1 = k
      BY ONLY <1>2
    <3> QED
      BY ONLY <1>5, <2>1, <3>1 DEF as
  <2>3. \A i \in 1 .. k : i \in 1 .. (k - 1) \/ i = k
    BY ONLY <1>2
  <2>4. f = fs[k]
    BY ONLY DEF f
  <2>5. \A i \in 1 .. k : ps[i] = as[i]
    BY ONLY <1>5, <1>6, <2>2, <2>3, <2>4
  <2>6. ps = as
    BY ONLY <1>6, <2>2, <2>5, SeqEqual
  <2> QED
    BY ONLY <2>6 DEF as
<1>9. hs = SubSeq(ps, 1, k - 1)
  <2>1. \A i \in 1 .. (k - 1) : ps[i] \in Fields
    <3>1. \A i \in 1 .. (k - 1) : i \in 1 .. k
      BY ONLY <1>2
    <3> QED
      BY ONLY <1>6, <3>1, ElementOfSeq
  <2> DEFINE bs == SubSeq(ps, 1, k - 1)
  <2>2. /\ bs \in Seq(Fields) /\ Len(bs) = (IF 1 <= k - 1 THEN k - 1 - 1 + 1 ELSE 0)
        /\ \A i \in 1 .. k - 1 - 1 + 1 : bs[i] = ps[1 + i - 1]
    <3>1. 1 \in Int /\ k - 1 \in Int
      BY ONLY <1>2
    <3> QED
      BY ONLY <2>1, <3>1, SubSeqProperties
  <2> HIDE DEF bs, hs, ps, fs
  <2>3. Len(bs) = k - 1
    BY ONLY <1>2, <2>2
  <2>4. ASSUME NEW i \in 1 .. (k - 1) PROVE bs[i] = hs[i]
    <3>1. i \in 1 .. k - 1 - 1 + 1 /\ 1 + i - 1 = i /\ i \in 1 .. k
      BY ONLY <1>2, i \in 1 .. (k - 1)
    <3> QED
      BY ONLY <1>5, <1>6, <2>2, <3>1, i \in 1 .. (k - 1)
  <2>5. hs = bs
    BY ONLY <1>5, <2>2, <2>3, <2>4, SeqEqual
  <2> QED
    BY ONLY <2>5 DEF bs
<1> DEFINE width == IF f.kind = "set" THEN z ELSE f.size
<1>10. gs = IF rest < width /\ f.kind # "set" THEN Append(hs, raw) ELSE ps
  BY ONLY <1>9 DEF Cut
<1>11. EndOf(f, z) = f.address + width
  BY ONLY DEF EndOf
<1>12. f.kind = "set" => z \in Nat
  BY ONLY <1>1, <1>2 DEF Chain, HasSet
<1>13. rest <= width /\ width \in Nat
  BY ONLY <1>3, <1>4, <1>11, <1>12, size <= EndOf(u.fields[k], z)
<1>14. HasSet(ps) => HasSet(fs)
  BY ONLY <1>1, <1>2, ChainPrefix
<1>15. y = IF f.kind = "set" /\ rest < z THEN rest ELSE z
  OBVIOUS
<1> HIDE DEF gs, hs, ps, raw, rest, width, n
<1>16. CASE rest < width /\ f.kind # "set"
  <2>1. gs = Append(hs, raw) /\ y = z
    BY ONLY <1>10, <1>15, <1>16
  <2>2. raw \in Fields /\ raw.kind = "data" /\ raw.address = f.address /\ raw.name = RawName
        /\ EndOf(raw, z) = size
    BY ONLY <1>3, <1>4 DEF raw, Field, Fields, Names, EndOf
  <2>3. Chain(gs, z, 0, size) /\ (HasSet(gs) <=> HasSet(hs))
    BY ONLY <1>7, <2>1, <2>2, ChainAppend
  <2>4. /\ gs \in Seq(Fields) /\ gs # <<>> /\ Len(gs) = Len(hs) + 1
        /\ \A i \in 1 .. Len(hs) : gs[i] = hs[i]
        /\ gs[Len(hs) + 1] = raw
    BY ONLY <1>5, <2>1, <2>2, AppendProperties
  <2>5. Len(gs) = k /\ DOMAIN gs = 1 .. k /\ gs[k] = raw /\ \A i \in 1 .. (k - 1) : gs[i] = hs[i]
    <3>1. (k - 1) + 1 = k
      BY ONLY <1>2
    <3> QED
      BY ONLY <1>5, <2>4, <3>1, LenProperties
  <2>6. \A i \in 1 .. k : i \in 1 .. (k - 1) \/ i = k
    BY ONLY <1>2
  <2>7. OneSet(gs)
    BY ONLY <1>5, <2>1, <2>2, OneSetAppend
  <2>9. Last(gs) = raw
    BY ONLY <2>5 DEF Last
  <2>10. \A i \in DOMAIN gs :
            gs[i].name = RawName \/ \E j \in DOMAIN fs : gs[i].name = fs[j].name
    BY ONLY <1>5, <2>2, <2>5, <2>6
  <2>11. Unlike(gs)
    <3>1. \A i \in 1 .. (k - 1) : hs[i].name # RawName
      <4>1. ASSUME NEW i \in 1 .. (k - 1), hs[i].name = RawName PROVE FALSE
        <5>1. fs[i].name = RawName /\ i \in DOMAIN fs
          BY ONLY <1>5, <4>1
        <5>2. i = n
          BY ONLY <1>1, <5>1 DEF Unlike, n
        <5> QED
          BY ONLY <1>1, <1>2, <5>2, i \in 1 .. (k - 1)
      <4> QED
        BY ONLY <4>1
    <3> QED
      BY ONLY <1>5, <2>2, <2>5, <2>6, <3>1 DEF Unlike
  <2> QED
    BY ONLY <1>7, <1>16, <2>1, <2>2, <2>3, <2>4, <2>7, <2>9, <2>10, <2>11 DEF gs
<1>17. CASE ~ (rest < width /\ f.kind # "set")
  <2>1. gs = ps
    BY ONLY <1>10, <1>17
  <2>2. Chain(hs, y, 0, f.address)
    <3>1. CASE f.kind = "set" /\ rest < z
      <4>1. ~HasSet(hs)
        <5>1. ASSUME NEW i \in 1 .. (k - 1), hs[i].kind = "set" PROVE FALSE
          <6>1. i \in DOMAIN fs /\ fs[i].kind = "set" /\ k \in DOMAIN fs
            BY ONLY <1>1, <1>2, <1>5, <5>1
          <6>2. i = k
            BY ONLY <3>1, <6>1, OneSet(u.fields) DEF OneSet
          <6> QED
            BY ONLY <1>2, <6>2, i \in 1 .. (k - 1)
        <5> QED
          BY ONLY <1>5, <5>1 DEF HasSet
      <4> QED
        BY ONLY <1>7, <4>1, ChainOfData
    <3>2. CASE ~ (f.kind = "set" /\ rest < z)
      BY ONLY <1>7, <1>15, <3>2
    <3> QED
      BY ONLY <3>1, <3>2
  <2>3. EndOf(f, y) = size /\ (f.kind = "set" => y \in Nat)
    <3>1. CASE f.kind = "set"
      <4>1. y = IF rest < z THEN rest ELSE z
        BY ONLY <1>15, <3>1
      <4>2. width = z /\ EndOf(f, y) = f.address + y
        BY ONLY <3>1 DEF EndOf, width
      <4> QED
        BY ONLY <1>3, <1>4, <1>13, <4>1, <4>2
    <3>2. CASE f.kind # "set"
      <4>1. width = f.size /\ EndOf(f, y) = f.address + f.size
        BY ONLY <3>2 DEF EndOf, width
      <4> QED
        BY ONLY <1>3, <1>4, <1>13, <1>17, <3>2, <4>1
    <3> QED
      BY ONLY <3>1, <3>2
  <2>4. Chain(gs, y, 0, size)
    BY ONLY <1>1, <1>8, <2>1, <2>2, <2>3, ChainAppend
  <2>5. gs # <<>> /\ Last(gs) = f
    <3>1. ps # <<>>
      BY ONLY <1>2, <1>6, EmptySeq
    <3>2. ps[k] = f
      BY ONLY <1>2, <1>6
    <3> QED
      BY ONLY <1>6, <2>1, <3>1, <3>2 DEF Last
  <2>6. \A i \in DOMAIN gs : \E j \in DOMAIN fs : gs[i].name = fs[j].name
    BY ONLY <1>6, <2>1
  <2> QED
    BY ONLY <1>6, <1>14, <2>1, <2>4, <2>5, <2>6 DEF gs
<1> QED
  BY ONLY <1>16, <1>17

\* What CutLast makes of a set.
CutTo(t, s, size, fs) == [t EXCEPT ![s].size = size, ![s].current = size, ![s].fields = fs]

\* _truncate keeps the fields that begin before the size, and cuts the
\* last one that is left if it is not a set.
LEMMA CutLastIs ==
    ASSUME NEW t, DOMAIN t = Sets, NEW s \in Sets, NEW p, NEW e, SetOK(t[s], t.sub.size, p, e),
           NEW size \in Nat, 0 < size, size < t[s].current
    PROVE  \E k \in 1 .. Len(t[s].fields) :
              /\ t[s].fields[k].address < size /\ size <= EndOf(t[s].fields[k], t.sub.size)
              /\ CutLast(t, s, size) = CutTo(t, s, size, Cut(t[s].fields, k, size, t.sub.size))
<1> DEFINE fs == t[s].fields
           z == t.sub.size
<1>1. PICK k \in 1 .. Len(fs) :
              /\ Before(fs, size) = SubSeq(fs, 1, k)
              /\ fs[k].address < size /\ size <= EndOf(fs[k], z)
  BY ONLY SetOK(t[s], t.sub.size, p, e), size \in Nat, 0 < size, size < t[s].current, BeforeIs
<1>2. /\ fs \in Seq(Fields) /\ Len(fs) \in Nat
  BY SetFacts
<1>3. k \in 0 .. Len(fs) /\ k \in Nat /\ 1 <= k
  BY ONLY <1>1, <1>2
<1> DEFINE ps == SubSeq(fs, 1, k)
<1>4. Len(ps) = k /\ ps[k] = fs[k]
  <2>1. Chain(fs, z, 0, t[s].current)
    BY DEF SetOK
  <2>2. /\ Len(ps) = k /\ \A i \in 1 .. k : ps[i] = fs[i]
    BY ONLY <1>3, <2>1, ChainPrefix
  <2>3. k \in 1 .. k
    BY ONLY <1>3
  <2> QED
    BY ONLY <2>2, <2>3
<1> DEFINE fields == Before(t[s].fields, size)
           last == Last(fields)
           rest == size - last.address
           gs == IF rest < SizeOf(t, last) /\ last.kind # "set"
                 THEN Append(Front(fields), Field(RawName, "data", last.address, rest))
                 ELSE fields
<1>5. CutLast(t, s, size) =
         [t EXCEPT ![s].size = size, ![s].current = size, ![s].fields = gs]
  BY ONLY DEF CutLast
<1>6. fields = ps
  BY ONLY <1>1
<1> HIDE DEF fields, ps
<1>7. last = fs[k] /\ Front(fields) = SubSeq(ps, 1, k - 1)
  BY ONLY <1>4, <1>6 DEF Last, Front
<1> HIDE DEF last
<1>8. gs = Cut(fs, k, size, z)
  BY ONLY <1>6, <1>7 DEF Cut, SizeOf, ps
<1>9. CutLast(t, s, size) = CutTo(t, s, size, Cut(fs, k, size, z))
  BY ONLY <1>5, <1>8 DEF CutTo
<1> QED
  BY ONLY <1>1, <1>9

\* _truncate: the fields follow each other up to the new size, if a set at the end of them
\* gets what is left for it (y); the generator goes on only if no field was lost.
Truncated(t, r, s, size, p, e) ==
    LET fields == r[s].fields
    IN /\ DOMAIN r = Sets /\ \A o \in Sets \ {s} : r[o] = t[o]
       /\ r[s].size = size
       /\ r[s].current = IF size < t[s].current THEN size ELSE t[s].current
       /\ size < t[s].current => r[s].gen = Done
       /\ ~ (size < t[s].current) =>
             /\ fields = t[s].fields
             /\ r[s].gen = IF size = t[s].current THEN Done ELSE t[s].gen
       /\ \A y : y = (IF /\ fields # <<>> /\ Last(fields).kind = "set"
                         /\ size - Last(fields).address < t.sub.size
                      THEN size - Last(fields).address ELSE t.sub.size)
                 => SetOK(r[s], y, p, e)
       /\ OneSet(fields) /\ (HasSet(fields) => HasSet(t[s].fields))
       /\ \A i \in DOMAIN fields :
             \/ fields[i].name = RawName
             \/ \E j \in DOMAIN t[s].fields : fields[i].name = t[s].fields[j].name

\* _truncate: a set of unknown size, or of a larger one, gets the size;
\* its fields still follow each other.
LEMMA TruncateOneOK ==
    ASSUME NEW t, DOMAIN t = Sets, NEW s \in Sets, NEW p, NEW e, SetOK(t[s], t.sub.size, p, e),
           OneSet(t[s].fields), NEW size \in Nat, 0 < size,
           t[s].size = Unknown \/ size < t[s].size
    PROVE  Truncated(t, TruncateOne(t, s, size), s, size, p, e)
<1> DEFINE r == TruncateOne(t, s, size)
           u == t[s]
           z == t.sub.size
           cut == IF size < u.current THEN CutLast(t, s, size) ELSE [t EXCEPT ![s].size = size]
           fields == r[s].fields
           Fit(y) == y = (IF /\ fields # <<>> /\ Last(fields).kind = "set"
                                /\ size - Last(fields).address < z
                             THEN size - Last(fields).address ELSE z)
<1>1. /\ u \in SetT /\ DOMAIN u = {"fields", "size", "current", "gen"}
      /\ u.fields \in Seq(Fields) /\ u.size \in OptSize /\ u.current \in Nat /\ u.gen \in Nat
      /\ Len(u.fields) \in Nat /\ DOMAIN u.fields = 1 .. Len(u.fields)
  BY SetFacts DEF SetOK, SetT
<1>2. r = [cut EXCEPT ![s].gen = IF cut[s].size = cut[s].current THEN Done ELSE @]
  BY ONLY DEF TruncateOne
<1>3. size \in OptSize
  BY DEF OptSize
<1>4. u.size # Unknown => u.size \in Nat
  BY ONLY <1>1 DEF OptSize
<1>5. CASE size < u.current
  <2>1. PICK k \in 1 .. Len(u.fields) :
              /\ u.fields[k].address < size /\ size <= EndOf(u.fields[k], z)
              /\ CutLast(t, s, size) = CutTo(t, s, size, Cut(u.fields, k, size, z))
    <3>1. size < t[s].current
      BY ONLY <1>5
    <3>2. \E k \in 1 .. Len(t[s].fields) :
              /\ t[s].fields[k].address < size /\ size <= EndOf(t[s].fields[k], t.sub.size)
              /\ CutLast(t, s, size) = CutTo(t, s, size, Cut(t[s].fields, k, size, t.sub.size))
      <4> HIDE DEF u, z, cut, r, fields, Fit
      <4> QED
        BY ONLY <3>1, DOMAIN t = Sets, s \in Sets, SetOK(t[s], t.sub.size, p, e), size \in Nat,
           0 < size, CutLastIs
    <3> QED
      BY ONLY <3>2
  <2> DEFINE gs == Cut(u.fields, k, size, z)
             y == IF u.fields[k].kind = "set" /\ size - u.fields[k].address < z
                      THEN size - u.fields[k].address ELSE z
  <2>2. /\ Chain(gs, y, 0, size) /\ Unlike(gs) /\ OneSet(gs)
        /\ HasSet(gs) => HasSet(u.fields)
        /\ gs # <<>> /\ (Last(gs).kind = "set" <=> u.fields[k].kind = "set")
        /\ Last(gs).address = u.fields[k].address
        /\ \A i \in DOMAIN gs :
              gs[i].name = RawName \/ \E j \in DOMAIN u.fields : gs[i].name = u.fields[j].name
    <3>1. /\ SetOK(u, z, p, e) /\ OneSet(u.fields)
          /\ u.fields[k].address < size /\ size <= EndOf(u.fields[k], z)
      BY ONLY <2>1, SetOK(t[s], t.sub.size, p, e), OneSet(t[s].fields)
    <3>2. y = IF u.fields[k].kind = "set" /\ size - u.fields[k].address < z
              THEN size - u.fields[k].address ELSE z
      BY ONLY DEF y
    <3> HIDE DEF u, z, cut, r, fields, Fit, y, gs
    <3>3. CutOK(u, Cut(u.fields, k, size, z), k, size, y)
      BY ONLY <3>1, <3>2, size \in Nat, k \in 1 .. Len(u.fields), CutIsChain
    <3> QED
      BY ONLY <3>3 DEF gs, CutOK
  <2> HIDE DEF gs, y
  <2>3. cut = [t EXCEPT ![s].size = size, ![s].current = size, ![s].fields = gs]
    BY ONLY <1>5, <2>1 DEF gs, CutTo
  <2> HIDE DEF cut, r
  <2>4. /\ DOMAIN cut = Sets /\ \A o \in Sets \ {s} : cut[o] = t[o]
        /\ cut[s] = [u EXCEPT !.size = size, !.current = size, !.fields = gs]
    BY ONLY <2>3, DOMAIN t = Sets, s \in Sets
  <2>5. cut[s] = [fields |-> gs, size |-> size, current |-> size, gen |-> u.gen]
    BY ONLY <1>1, <2>4 DEF SetT
  <2>6. /\ DOMAIN r = Sets /\ \A o \in Sets \ {s} : r[o] = cut[o]
        /\ r[s] = [cut[s] EXCEPT !.gen = Done]
    BY ONLY <1>2, <2>4, <2>5, s \in Sets
  <2>7. /\ r[s] = [fields |-> gs, size |-> size, current |-> size, gen |-> Done]
        /\ r[s].fields = gs /\ r[s].size = size /\ r[s].current = size /\ r[s].gen = Done
    BY ONLY <2>5, <2>6
  <2>8. r[s] \in SetT
    <3>1. gs \in Seq(Fields)
      BY ONLY <2>2 DEF Chain
    <3> QED
      BY ONLY <1>3, <2>7, <3>1, Unlikely, size \in Nat DEF SetT
  <2>9. NamesOK(r[s], e)
    <3>1. ASSUME NEW i \in DOMAIN gs PROVE NameOK(gs[i].name, r[s], e)
      <4>1. CASE gs[i].name = RawName
        BY ONLY <2>7, <4>1 DEF NameOK, RawName, EditNames, PadName, NewName, PadAfter
      <4>2. CASE \E j \in DOMAIN u.fields : gs[i].name = u.fields[j].name
        <5>1. PICK j \in DOMAIN u.fields : gs[i].name = u.fields[j].name
          BY ONLY <4>2
        <5>2. NameOK(u.fields[j].name, u, e)
          BY ONLY <5>1, SetOK(t[s], t.sub.size, p, e) DEF SetOK, NamesOK
        <5> QED
          BY ONLY <2>7, <5>1, <5>2 DEF NameOK
      <4> QED
        BY ONLY <2>2, <4>1, <4>2
    <3> QED
      BY ONLY <2>7, <3>1 DEF NamesOK
  <2>10. SizesOK(r[s], p)
    BY ONLY <2>7, size \in Nat DEF SizesOK
  <2>11. SetOK(r[s], y, p, e)
    BY ONLY <2>2, <2>7, <2>8, <2>9, <2>10 DEF SetOK
  <2>12. ASSUME NEW x, Fit(x) PROVE x = y
    BY ONLY <2>2, <2>7, <2>12 DEF y
  <2>13. \A x : Fit(x) => SetOK(r[s], x, p, e)
    BY ONLY <2>11, <2>12
  <2>14. \A o \in Sets \ {s} : r[o] = t[o]
    BY ONLY <2>4, <2>6
  <2>15. /\ OneSet(fields) /\ (HasSet(fields) => HasSet(u.fields))
         /\ \A i \in DOMAIN fields :
               fields[i].name = RawName \/ \E j \in DOMAIN u.fields : fields[i].name = u.fields[j].name
    BY ONLY <2>2, <2>7
  <2>16. /\ r[s].current = IF size < u.current THEN size ELSE u.current
         /\ size < u.current => r[s].gen = Done
         /\ ~ (size < u.current) =>
                    /\ fields = u.fields
                    /\ r[s].gen = IF size = u.current THEN Done ELSE u.gen
    BY ONLY <1>5, <2>7
  <2> QED
    BY ONLY <2>6, <2>7, <2>13, <2>14, <2>15, <2>16 DEF r, Truncated
<1>6. CASE ~ (size < u.current)
  <2> DEFINE gen == IF size = u.current THEN Done ELSE u.gen
  <2>3. cut = [t EXCEPT ![s].size = size]
    BY ONLY <1>6
  <2> HIDE DEF cut, r
  <2>4. /\ DOMAIN cut = Sets /\ \A o \in Sets \ {s} : cut[o] = t[o]
        /\ cut[s] = [u EXCEPT !.size = size]
    BY ONLY <2>3, DOMAIN t = Sets, s \in Sets
  <2>5. /\ cut[s] = [fields |-> u.fields, size |-> size, current |-> u.current, gen |-> u.gen]
        /\ cut[s].size = size /\ cut[s].current = u.current /\ cut[s].gen = u.gen
    BY ONLY <1>1, <2>4 DEF SetT
  <2>6. /\ DOMAIN r = Sets /\ \A o \in Sets \ {s} : r[o] = cut[o]
        /\ r[s] = [cut[s] EXCEPT !.gen = gen]
    BY ONLY <1>2, <2>4, <2>5, s \in Sets
  <2>7. /\ r[s] = [fields |-> u.fields, size |-> size, current |-> u.current, gen |-> gen]
        /\ r[s].fields = u.fields /\ r[s].size = size /\ r[s].current = u.current /\ r[s].gen = gen
    BY ONLY <2>5, <2>6
  <2>8. r[s] \in SetT
    BY ONLY <1>1, <1>3, <2>7, Unlikely DEF SetT
  <2>10. u.size # u.current
    BY ONLY <1>1, <1>4, <1>6, Unlikely, size \in Nat, t[s].size = Unknown \/ size < t[s].size
  <2>11. ~p => u.gen # Done
    BY ONLY <2>10, SetOK(t[s], t.sub.size, p, e) DEF SetOK, SizesOK
  <2>12. SizesOK(r[s], p)
    <3>1. u.current <= size
      BY ONLY <1>1, <1>6, size \in Nat
    <3> QED
      BY ONLY <2>7, <2>11, <3>1 DEF SizesOK
  <2>13. r[s].gen # Done => u.gen # Done /\ u.gen <= r[s].gen
    BY ONLY <1>1, <2>7
  <2> HIDE DEF gen
  <2>14. SetOK(r[s], z, p, e)
    BY ONLY <2>7, <2>8, <2>10, <2>12, <2>13, SetOK(t[s], t.sub.size, p, e), SameFieldsOK
  <2>15. ASSUME NEW x, Fit(x) PROVE x = z
    <3>1. CASE u.fields # <<>> /\ Last(u.fields).kind = "set"
      <4> DEFINE a == Last(u.fields).address
      <4>1. u.current = a + z
        BY ONLY <3>1, SetOK(t[s], t.sub.size, p, e) DEF SetOK, Chain, EndOf, Last
      <4>2. Last(u.fields) \in Fields /\ z \in Nat
        <5>1. Len(u.fields) \in 1 .. Len(u.fields)
          BY ONLY <1>1, <3>1, EmptySeq
        <5>2. HasSet(u.fields)
          BY ONLY <1>1, <3>1, <5>1 DEF HasSet, Last
        <5>3. z \in Nat
          BY ONLY <5>2, SetOK(t[s], t.sub.size, p, e) DEF SetOK, Chain
        <5> QED
          BY ONLY <1>1, <5>1, <5>3, ElementOfSeq DEF Last
      <4>3. a \in Nat
        BY ONLY <4>2 DEF Fields
      <4>4. x = IF size - a < z THEN size - a ELSE z
        BY ONLY <2>7, <2>15, <3>1
      <4> HIDE DEF a
      <4> QED
        BY ONLY <1>1, <1>6, <4>1, <4>2, <4>3, <4>4, size \in Nat
    <3>2. CASE ~ (u.fields # <<>> /\ Last(u.fields).kind = "set")
      BY ONLY <2>7, <2>15, <3>2
    <3> QED
      BY ONLY <3>1, <3>2
  <2>16. \A x : Fit(x) => SetOK(r[s], x, p, e)
    BY ONLY <2>14, <2>15
  <2>17. \A o \in Sets \ {s} : r[o] = t[o]
    BY ONLY <2>4, <2>6
  <2>18. /\ OneSet(fields) /\ (HasSet(fields) => HasSet(u.fields))
         /\ \A i \in DOMAIN fields :
               fields[i].name = RawName \/ \E j \in DOMAIN u.fields : fields[i].name = u.fields[j].name
    BY ONLY <2>7, OneSet(t[s].fields)
  <2>19. /\ r[s].current = IF size < u.current THEN size ELSE u.current
         /\ size < u.current => r[s].gen = Done
         /\ ~ (size < u.current) =>
                    /\ fields = u.fields
                    /\ r[s].gen = IF size = u.current THEN Done ELSE u.gen
    BY ONLY <1>6, <2>7 DEF gen
  <2> QED
    BY ONLY <2>6, <2>7, <2>16, <2>17, <2>18, <2>19 DEF r, Truncated
<1> QED
  BY ONLY <1>5, <1>6

\* The parser of a pipe is truncated when the size of the stream is known.
LEMMA TruncateOK ==
    ASSUME NEW t, NEW p, NEW e, TreeOK(t, p, e), t.root.size = Unknown
    PROVE  LET r == Truncate(t, "root", StreamSize)
           IN /\ TreeOK(r, p, e)
              /\ HasSet(r.root.fields) => HasSet(t.root.fields)
              /\ ~HasSet(t.root.fields) => r.sub = t.sub
              /\ r.root.size = StreamSize
              /\ r.root.current = IF StreamSize < t.root.current THEN StreamSize ELSE t.root.current
              /\ StreamSize < t.root.current => r.root.gen = Done
              /\ ~ (StreamSize < t.root.current) =>
                    /\ r.root.fields = t.root.fields
                    /\ r.root.gen = IF StreamSize = t.root.current THEN Done ELSE t.root.gen
              /\ r.sub.gen # Done => r.sub.gen = t.sub.gen
              /\ \A i \in DOMAIN r.root.fields :
                    \/ r.root.fields[i].name = RawName
                    \/ \E j \in DOMAIN t.root.fields :
                          r.root.fields[i].name = t.root.fields[j].name
<1> DEFINE size == StreamSize
           z == t.sub.size
           cut == TruncateOne(t, "root", size)
           fs == cut.root.fields
           last == Last(fs)
           m == size - last.address
           cond == fs # <<>> /\ last.kind = "set" /\ m < z
           r == Truncate(t, "root", size)
<1>1. /\ DOMAIN t = Sets /\ SetOK(t.root, z, p, e) /\ SetOK(t.sub, z, p, e)
      /\ OneSet(t.root.fields) /\ ~HasSet(t.sub.fields)
      /\ ~p => t.root.size = size
      /\ "root" \in Sets /\ "sub" \in Sets
  BY DEF TreeOK, Sets
<1>2. p
  BY ONLY <1>1, Unlikely, t.root.size = Unknown
<1>3. size \in Nat /\ 0 < size
  BY ONLY Unlikely
<1>4. r = IF cond THEN TruncateOne(cut, "sub", m) ELSE cut
  BY ONLY DEF Truncate
<1>5. /\ DOMAIN cut = Sets /\ \A o \in Sets \ {"root"} : cut[o] = t[o]
      /\ cut.root.size = size
      /\ cut.root.current = IF size < t.root.current THEN size ELSE t.root.current
      /\ size < t.root.current => cut.root.gen = Done
      /\ ~ (size < t.root.current) =>
            /\ fs = t.root.fields
            /\ cut.root.gen = IF size = t.root.current THEN Done ELSE t.root.gen
      /\ \A y : y = (IF fs # <<>> /\ Last(fs).kind = "set" /\ size - Last(fs).address < z
                     THEN size - Last(fs).address ELSE z)
                => SetOK(cut.root, y, p, e)
      /\ OneSet(fs) /\ (HasSet(fs) => HasSet(t.root.fields))
      /\ \A i \in DOMAIN fs :
            \/ fs[i].name = RawName
            \/ \E j \in DOMAIN t.root.fields : fs[i].name = t.root.fields[j].name
  <2> HIDE DEF cut, size, z, last, m, cond, r
  <2>1. /\ DOMAIN cut = Sets /\ \A o \in Sets \ {"root"} : cut[o] = t[o]
        /\ cut["root"].size = size
        /\ cut["root"].current = IF size < t["root"].current THEN size ELSE t["root"].current
        /\ size < t["root"].current => cut["root"].gen = Done
        /\ ~ (size < t["root"].current) =>
            /\ cut["root"].fields = t["root"].fields
            /\ cut["root"].gen = IF size = t["root"].current THEN Done ELSE t["root"].gen
        /\ \A y : y = (IF /\ cut["root"].fields # <<>> /\ Last(cut["root"].fields).kind = "set"
                          /\ size - Last(cut["root"].fields).address < t.sub.size
                       THEN size - Last(cut["root"].fields).address ELSE t.sub.size)
                  => SetOK(cut["root"], y, p, e)
        /\ OneSet(cut["root"].fields) /\ (HasSet(cut["root"].fields) => HasSet(t["root"].fields))
        /\ \A i \in DOMAIN cut["root"].fields :
            \/ cut["root"].fields[i].name = RawName
            \/ \E j \in DOMAIN t["root"].fields :
                  cut["root"].fields[i].name = t["root"].fields[j].name
    <3>1. SetOK(t["root"], t.sub.size, p, e) /\ OneSet(t["root"].fields) /\ t["root"].size = Unknown
      BY ONLY <1>1, t.root.size = Unknown DEF z
    <3>2. Truncated(t, cut, "root", size, p, e)
      BY ONLY <3>1, <1>1, <1>3, TruncateOneOK DEF cut
    <3> QED
      BY ONLY <3>2 DEF Truncated
  <2> QED
    BY ONLY <2>1 DEF z
<1> HIDE DEF cut, r
<1>6. cut.sub = t.sub /\ cut.sub.size = z
  BY ONLY <1>5 DEF Sets
<1>7. CASE ~cond
  <2>1. r = cut
    BY ONLY <1>4, <1>7
  <2>2. SetOK(cut.root, z, p, e)
    BY ONLY <1>5, <1>7
  <2>3. TreeOK(r, p, e)
    <3>1. \A s \in Sets : SetOK(r[s], r.sub.size, p, e)
      BY ONLY <1>1, <1>6, <2>1, <2>2 DEF Sets
    <3> QED
      BY ONLY <1>1, <1>2, <1>5, <1>6, <2>1, <3>1 DEF TreeOK
  <2> QED
    BY ONLY <1>5, <1>6, <2>1, <2>3 DEF r, cut
<1>8. CASE cond
  <2>1. r = TruncateOne(cut, "sub", m)
    BY ONLY <1>4, <1>8
  <2>2. SetOK(cut.root, m, p, e)
    BY ONLY <1>5, <1>8
  <2>3. HasSet(fs) /\ m \in Nat /\ last.address \in Nat
    <3>1. fs \in Seq(Fields) /\ Len(fs) \in Nat /\ DOMAIN fs = 1 .. Len(fs)
      BY ONLY <2>2, SetFacts
    <3>2. Len(fs) \in DOMAIN fs
      BY ONLY <1>8, <3>1, EmptySeq
    <3>3. HasSet(fs)
      BY ONLY <1>8, <3>2 DEF HasSet, Last
    <3>4. m \in Nat
      BY ONLY <2>2, <3>3 DEF SetOK, Chain
    <3>5. last \in Fields
      BY ONLY <2>2, <3>2, SetFacts DEF Last
    <3> QED
      BY ONLY <3>3, <3>4, <3>5 DEF Fields
  <2>4. z \in Nat
    <3>1. HasSet(t.root.fields)
      BY ONLY <1>5, <2>3
    <3> QED
      BY ONLY <1>1, <3>1 DEF SetOK, Chain
  <2>5. 0 < m
    <3>1. Chain(fs, m, 0, cut.root.current)
      BY ONLY <2>2 DEF SetOK
    <3>2. CASE size < t.root.current
      \* The last field begins before the size.
      <4>2. PICK k \in 1 .. Len(t.root.fields) :
              /\ t.root.fields[k].address < size /\ size <= EndOf(t.root.fields[k], z)
              /\ CutLast(t, "root", size) = CutTo(t, "root", size, Cut(t.root.fields, k, size, z))
        <5>1. \E k \in 1 .. Len(t["root"].fields) :
              /\ t["root"].fields[k].address < size /\ size <= EndOf(t["root"].fields[k], t.sub.size)
              /\ CutLast(t, "root", size) =
                   CutTo(t, "root", size, Cut(t["root"].fields, k, size, t.sub.size))
          <6>1. SetOK(t["root"], t.sub.size, p, e) /\ size < t["root"].current
            BY ONLY <1>1, <3>2
          <6> HIDE DEF size, z, m, cond
          <6> QED
            BY ONLY <6>1, <1>1, <1>3, CutLastIs
        <5> QED
          BY ONLY <5>1
      <4>3. fs = Cut(t.root.fields, k, size, z)
        <5> DEFINE gs == Cut(t.root.fields, k, size, z)
                   c == CutTo(t, "root", size, gs)
        <5> HIDE DEF gs
        <5>1. /\ DOMAIN t.root = {"fields", "size", "current", "gen"}
          BY ONLY <1>1 DEF SetOK, SetT
        <5>2. cut = [c EXCEPT !.root.gen = IF c.root.size = c.root.current THEN Done ELSE @]
          BY ONLY <3>2, <4>2 DEF cut, TruncateOne, gs
        <5>3. DOMAIN c = Sets /\ DOMAIN c.root = {"fields", "size", "current", "gen"} /\ c.root.fields = gs
          BY ONLY <1>1, <5>1 DEF CutTo
        <5> HIDE DEF c
        <5>4. cut.root.fields = gs
          BY ONLY <1>1, <5>2, <5>3
        <5> QED
          BY ONLY <5>4 DEF gs
      <4>4. last.address = t.root.fields[k].address
        <5> DEFINE y == IF t.root.fields[k].kind = "set" /\ size - t.root.fields[k].address < z
                        THEN size - t.root.fields[k].address ELSE z
        <5>1. y = IF t.root.fields[k].kind = "set" /\ size - t.root.fields[k].address < z
                        THEN size - t.root.fields[k].address ELSE z
          OBVIOUS
        <5> HIDE DEF y, size, z
        <5>2. CutOK(t.root, Cut(t.root.fields, k, size, z), k, size, y)
          BY ONLY <1>1, <1>3, <4>2, <5>1, CutIsChain
        <5> QED
          BY ONLY <4>3, <5>2 DEF CutOK
      <4> QED
        BY ONLY <1>3, <2>3, <4>2, <4>4
    <3>3. CASE ~ (size < t.root.current)
      <4>1. fs = t.root.fields /\ cut.root.current = t.root.current
        BY ONLY <1>5, <3>3
      <4>2. t.root.current = last.address + z
        BY ONLY <1>1, <1>8, <4>1 DEF SetOK, Chain, EndOf, Last
      <4>3. t.root.current \in Nat
        BY ONLY <1>1, SetFacts
      <4> QED
        BY ONLY <1>3, <1>8, <2>3, <2>4, <3>3, <4>2, <4>3
    <3> QED
      BY ONLY <3>2, <3>3
  <2>6. m < z /\ z # Unknown
    BY ONLY <1>8, <2>4, Unlikely
  <2>7. /\ DOMAIN r = Sets /\ \A o \in Sets \ {"sub"} : r[o] = cut[o]
        /\ r.sub.size = m
        /\ ~ (m < cut.sub.current) =>
              r.sub.gen = IF m = cut.sub.current THEN Done ELSE cut.sub.gen
        /\ m < cut.sub.current => r.sub.gen = Done
        /\ \E y : SetOK(r.sub, y, p, e)
        /\ HasSet(r.sub.fields) => HasSet(cut.sub.fields)
    <3>1. /\ SetOK(cut["sub"], cut.sub.size, p, e) /\ OneSet(cut["sub"].fields)
          /\ cut["sub"].size = Unknown \/ m < cut["sub"].size
      <4>1. OneSet(t.sub.fields)
        BY ONLY <1>1 DEF OneSet, HasSet
      <4> QED
        BY ONLY <1>1, <1>6, <2>6, <4>1
    <3> DEFINE fields == r["sub"].fields
               y == IF /\ fields # <<>> /\ Last(fields).kind = "set"
                       /\ m - Last(fields).address < cut.sub.size
                    THEN m - Last(fields).address ELSE cut.sub.size
    <3>2. y = (IF /\ fields # <<>> /\ Last(fields).kind = "set"
                       /\ m - Last(fields).address < cut.sub.size
                    THEN m - Last(fields).address ELSE cut.sub.size)
      OBVIOUS
    <3> HIDE DEF m, y, z, cond, fs, last, size
    <3>3. /\ DOMAIN r = Sets /\ \A o \in Sets \ {"sub"} : r[o] = cut[o]
          /\ r["sub"].size = m
          /\ m < cut["sub"].current => r["sub"].gen = Done
          /\ ~ (m < cut["sub"].current) =>
              /\ fields = cut["sub"].fields
              /\ r["sub"].gen = IF m = cut["sub"].current THEN Done ELSE cut["sub"].gen
          /\ \A x : x = (IF /\ fields # <<>> /\ Last(fields).kind = "set"
                       /\ m - Last(fields).address < cut.sub.size
                    THEN m - Last(fields).address ELSE cut.sub.size) => SetOK(r["sub"], x, p, e)
          /\ HasSet(fields) => HasSet(cut["sub"].fields)
      <4>1. DOMAIN cut = Sets /\ "sub" \in Sets /\ m \in Nat /\ 0 < m
        BY ONLY <1>1, <1>5, <2>3, <2>5
      <4>2. Truncated(cut, r, "sub", m, p, e)
        BY ONLY <2>1, <3>1, <4>1, TruncateOneOK
      <4> QED
        BY ONLY <4>2 DEF Truncated
    <3>4. SetOK(r["sub"], y, p, e)
      BY ONLY <3>2, <3>3
    <3> QED
      BY ONLY <3>3, <3>4
  <2>8. r.root = cut.root
    BY ONLY <2>7 DEF Sets
  <2>9. ~HasSet(r.sub.fields)
    BY ONLY <1>1, <1>6, <2>7
  <2>10. SetOK(r.sub, m, p, e)
    BY ONLY <2>7, <2>9, SetOfData
  <2>11. TreeOK(r, p, e)
    <3>1. \A s \in Sets : SetOK(r[s], r.sub.size, p, e)
      BY ONLY <2>2, <2>7, <2>8, <2>10 DEF Sets
    <3> QED
      BY ONLY <1>2, <1>5, <2>7, <2>8, <2>9, <3>1 DEF TreeOK
  <2>12. HasSet(t.root.fields)
    BY ONLY <1>5, <2>3
  <2>13. r.sub.gen # Done => r.sub.gen = t.sub.gen
    BY ONLY <1>6, <2>7
  <2> QED
    BY ONLY <1>5, <2>8, <2>11, <2>12, <2>13 DEF r, cut
<1> QED
  BY ONLY <1>7, <1>8

-----------------------------------------------------------------------------
\* 5. A field is replaced (writeFieldsIn).

NamesIn(fs) == {fs[i].name : i \in DOMAIN fs}
Distinct(fs) == \A i, j \in DOMAIN fs : fs[i].name = fs[j].name => i = j

\* What is known of two lists of fields, one behind the other.
LEMMA ConcatNames ==
    ASSUME NEW fs \in Seq(Fields), NEW gs \in Seq(Fields), Distinct(fs), Distinct(gs),
           NamesIn(fs) \cap NamesIn(gs) = {}, OneSet(fs), OneSet(gs), ~ (HasSet(fs) /\ HasSet(gs))
    PROVE  /\ fs \o gs \in Seq(Fields) /\ Len(fs \o gs) = Len(fs) + Len(gs)
           /\ Distinct(fs \o gs) /\ OneSet(fs \o gs)
           /\ NamesIn(fs \o gs) = NamesIn(fs) \cup NamesIn(gs)
           /\ \A i \in 1 .. Len(fs) : (fs \o gs)[i] = fs[i]
           /\ \A j \in 1 .. Len(gs) : (fs \o gs)[Len(fs) + j] = gs[j]
<1> DEFINE n == Len(fs)
           m == Len(gs)
           hs == fs \o gs
<1>1. n \in Nat /\ m \in Nat /\ DOMAIN fs = 1 .. n /\ DOMAIN gs = 1 .. m
  BY ONLY fs \in Seq(Fields), gs \in Seq(Fields), LenProperties
<1>2. /\ hs \in Seq(Fields) /\ Len(hs) = n + m
      /\ \A i \in 1 .. n + m : hs[i] = IF i <= n THEN fs[i] ELSE gs[i - n]
  BY ONLY fs \in Seq(Fields), gs \in Seq(Fields), ConcatProperties
<1> HIDE DEF hs, n, m
<1>3. DOMAIN hs = 1 .. (n + m)
  BY ONLY <1>2, LenProperties
<1>4. \A i \in 1 .. n : i \in 1 .. (n + m) /\ hs[i] = fs[i]
  BY ONLY <1>1, <1>2
<1>5. ASSUME NEW j \in 1 .. m PROVE n + j \in 1 .. (n + m) /\ hs[n + j] = gs[j]
  <2>1. n + j \in 1 .. (n + m) /\ ~ (n + j <= n) /\ (n + j) - n = j
    BY ONLY <1>1, j \in 1 .. m
  <2> QED
    BY ONLY <1>2, <2>1
<1>6. ASSUME NEW k \in 1 .. (n + m)
      PROVE  \/ k \in 1 .. n /\ hs[k] = fs[k]
             \/ k - n \in 1 .. m /\ n + (k - n) = k /\ hs[k] = gs[k - n]
  <2>1. CASE k <= n
    <3>1. k \in 1 .. n
      BY ONLY <1>1, <2>1, k \in 1 .. (n + m)
    <3> QED
      BY ONLY <1>4, <3>1
  <2>2. CASE ~ (k <= n)
    <3>1. k - n \in 1 .. m /\ n + (k - n) = k
      BY ONLY <1>1, <2>2, k \in 1 .. (n + m)
    <3> QED
      BY ONLY <1>2, <2>2, <3>1, k \in 1 .. (n + m)
  <2> QED
    BY ONLY <2>1, <2>2
<1>7. \A i \in 1 .. n : fs[i].name \in NamesIn(fs)
  BY ONLY <1>1 DEF NamesIn
<1>8. \A i \in 1 .. m : gs[i].name \in NamesIn(gs)
  BY ONLY <1>1 DEF NamesIn
<1>9. Distinct(hs)
  <2>1. ASSUME NEW a \in 1 .. (n + m), NEW b \in 1 .. (n + m), hs[a].name = hs[b].name PROVE a = b
    <3>1. CASE a \in 1 .. n /\ hs[a] = fs[a]
      <4>1. hs[b].name \notin NamesIn(gs)
        BY ONLY <1>7, <2>1, <3>1, NamesIn(fs) \cap NamesIn(gs) = {}
      <4>2. b \in 1 .. n /\ hs[b] = fs[b]
        BY ONLY <1>6, <1>8, <4>1, b \in 1 .. (n + m)
      <4> QED
        BY ONLY <1>1, <2>1, <3>1, <4>2, Distinct(fs) DEF Distinct
    <3>2. CASE a - n \in 1 .. m /\ n + (a - n) = a /\ hs[a] = gs[a - n]
      <4>1. hs[b].name \notin NamesIn(fs)
        BY ONLY <1>8, <2>1, <3>2, NamesIn(fs) \cap NamesIn(gs) = {}
      <4>2. b - n \in 1 .. m /\ n + (b - n) = b /\ hs[b] = gs[b - n]
        BY ONLY <1>6, <1>7, <4>1, b \in 1 .. (n + m)
      <4>3. a - n = b - n
        BY ONLY <1>1, <2>1, <3>2, <4>2, Distinct(gs) DEF Distinct
      <4> QED
        BY ONLY <3>2, <4>2, <4>3
    <3> QED
      BY ONLY <1>6, <3>1, <3>2, a \in 1 .. (n + m)
  <2> QED
    BY ONLY <1>3, <2>1 DEF Distinct
<1>10. OneSet(hs)
  <2>1. ASSUME NEW a \in 1 .. (n + m), NEW b \in 1 .. (n + m), hs[a].kind = "set", hs[b].kind = "set"
        PROVE  a = b
    <3>1. CASE a \in 1 .. n /\ hs[a] = fs[a]
      <4>1. HasSet(fs)
        BY ONLY <1>1, <2>1, <3>1 DEF HasSet
      <4>2. b \in 1 .. n /\ hs[b] = fs[b]
        BY ONLY <1>1, <1>6, <2>1, <4>1, b \in 1 .. (n + m), ~ (HasSet(fs) /\ HasSet(gs)) DEF HasSet
      <4> QED
        BY ONLY <1>1, <2>1, <3>1, <4>2, OneSet(fs) DEF OneSet
    <3>2. CASE a - n \in 1 .. m /\ n + (a - n) = a /\ hs[a] = gs[a - n]
      <4>1. HasSet(gs)
        BY ONLY <1>1, <2>1, <3>2 DEF HasSet
      <4>2. b - n \in 1 .. m /\ n + (b - n) = b /\ hs[b] = gs[b - n]
        BY ONLY <1>1, <1>6, <2>1, <4>1, b \in 1 .. (n + m), ~ (HasSet(fs) /\ HasSet(gs)) DEF HasSet
      <4>3. a - n = b - n
        BY ONLY <1>1, <2>1, <3>2, <4>2, OneSet(gs) DEF OneSet
      <4> QED
        BY ONLY <3>2, <4>2, <4>3
    <3> QED
      BY ONLY <1>6, <3>1, <3>2, a \in 1 .. (n + m)
  <2> QED
    BY ONLY <1>3, <2>1 DEF OneSet
<1>11. NamesIn(hs) = NamesIn(fs) \cup NamesIn(gs)
  <2>1. ASSUME NEW k \in 1 .. (n + m) PROVE hs[k].name \in NamesIn(fs) \cup NamesIn(gs)
    BY ONLY <1>6, <1>7, <1>8, k \in 1 .. (n + m)
  <2>2. ASSUME NEW i \in 1 .. n PROVE fs[i].name \in NamesIn(hs)
    BY ONLY <1>3, <1>4, i \in 1 .. n DEF NamesIn
  <2>3. ASSUME NEW j \in 1 .. m PROVE gs[j].name \in NamesIn(hs)
    BY ONLY <1>3, <1>5, j \in 1 .. m DEF NamesIn
  <2> QED
    BY ONLY <1>1, <1>3, <2>1, <2>2, <2>3 DEF NamesIn
<1> QED
  BY ONLY <1>2, <1>4, <1>5, <1>9, <1>10, <1>11 DEF hs, n, m

\* A part of the field that is replaced, or nothing.
Piece(name, a, from, to) ==
    IF from < to THEN <<Field(name, "data", a + from, to - from)>> ELSE <<>>

\* A piece of a field that writeFieldsIn replaces lies where the field
\* lay, or is nothing.
LEMMA PieceFacts ==
    ASSUME NEW name \in Names, NEW a \in Nat, NEW from \in Nat, NEW to \in Nat, from <= to, NEW z
    PROVE  LET ps == Piece(name, a, from, to)
           IN /\ Chain(ps, z, a + from, a + to) /\ ~HasSet(ps) /\ OneSet(ps) /\ Distinct(ps)
              /\ NamesIn(ps) \subseteq {name} /\ ps \in Seq(Fields)
<1> DEFINE ps == Piece(name, a, from, to)
           f == Field(name, "data", a + from, to - from)
<1>1. CASE from < to
  <2>1. ps = <<f>>
    BY ONLY <1>1 DEF Piece
  <2>2. a + from \in Nat /\ to - from \in Nat /\ (a + from) + (to - from) = a + to
    BY <1>1
  <2>3. f \in Fields /\ f.kind = "data" /\ f.name = name /\ f.address = a + from /\ EndOf(f, z) = a + to
    BY ONLY <2>2, name \in Names DEF Field, Fields, EndOf
  <2> HIDE DEF f
  <2>4. <<f>> \in Seq(Fields) /\ Len(<<f>>) = 1 /\ <<f>>[1] = f /\ DOMAIN <<f>> = {1} /\ <<f>> # <<>>
    BY ONLY <2>3
  <2>5. a + to \in Nat
    OBVIOUS
  <2>6. ~HasSet(ps)
    BY ONLY <2>1, <2>3, <2>4 DEF HasSet
  <2>7. \A i \in 1 .. (1 - 1) : FALSE
    OBVIOUS
  <2>8. Chain(ps, z, a + from, a + to)
    BY ONLY <2>1, <2>2, <2>3, <2>4, <2>5, <2>6, <2>7 DEF Chain
  <2> QED
    BY ONLY <2>1, <2>3, <2>4, <2>6, <2>8 DEF OneSet, Distinct, NamesIn
<1>2. CASE ~ (from < to)
  <2>1. ps = <<>> /\ a + from = a + to /\ a + to \in Nat
    BY <1>2 DEF Piece
  <2>2. Chain(<<>>, z, a + to, a + to) /\ ~HasSet(<<>>)
    BY ONLY <2>1, ChainOfNone
  <2>3. <<>> \in Seq(Fields) /\ DOMAIN <<>> = {}
    OBVIOUS
  <2> QED
    BY ONLY <2>1, <2>2, <2>3 DEF OneSet, Distinct, NamesIn
<1> QED
  BY ONLY <1>1, <1>2

\* The fields with the field i replaced by pieces of it.
Pieces(old, offset, size) ==
    Piece(PadName, old.address, 0, offset)
      \o Piece(NewName, old.address, offset, offset + size)
      \o Piece(PadAfter, old.address, offset + size, old.size)
Rewritten(fs, i, offset, size) ==
    SubSeq(fs, 1, i - 1) \o Pieces(fs[i], offset, size) \o SubSeq(fs, i + 1, Len(fs))

\* The pieces fill the field.
LEMMA PiecesFacts ==
    ASSUME NEW old \in Fields, NEW offset \in Nat, NEW size \in Nat, offset + size <= old.size, NEW z,
           old.kind = "data"
    PROVE  LET ps == Pieces(old, offset, size)
           IN /\ Chain(ps, z, old.address, EndOf(old, z)) /\ ~HasSet(ps) /\ OneSet(ps) /\ Distinct(ps)
              /\ NamesIn(ps) \subseteq EditNames /\ ps \in Seq(Fields)
<1> DEFINE a == old.address
           b == offset + size
           c == old.size
           p1 == Piece(PadName, a, 0, offset)
           p2 == Piece(NewName, a, offset, b)
           p3 == Piece(PadAfter, a, b, c)
<1>1. a \in Nat /\ c \in Nat /\ b \in Nat /\ 0 \in Nat /\ 0 <= offset /\ offset <= b /\ b <= c /\ a + 0 = a
  BY DEF Fields
<1>2. PadName \in Names /\ NewName \in Names /\ PadAfter \in Names
  BY DEF Names
<1>3. EndOf(old, z) = a + c
  BY DEF EndOf
<1> HIDE DEF a, b, c
<1>4. /\ Chain(p1, z, a, a + offset) /\ ~HasSet(p1) /\ OneSet(p1) /\ Distinct(p1)
      /\ NamesIn(p1) \subseteq {PadName} /\ p1 \in Seq(Fields)
  <2>1. /\ Chain(p1, z, a + 0, a + offset) /\ ~HasSet(p1) /\ OneSet(p1) /\ Distinct(p1)
        /\ NamesIn(p1) \subseteq {PadName} /\ p1 \in Seq(Fields)
    BY ONLY <1>1, <1>2, offset \in Nat, PieceFacts
  <2> QED
    BY ONLY <1>1, <2>1
<1>5. /\ Chain(p2, z, a + offset, a + b) /\ ~HasSet(p2) /\ OneSet(p2) /\ Distinct(p2)
      /\ NamesIn(p2) \subseteq {NewName} /\ p2 \in Seq(Fields)
  BY ONLY <1>1, <1>2, offset \in Nat, PieceFacts
<1>6. /\ Chain(p3, z, a + b, a + c) /\ ~HasSet(p3) /\ OneSet(p3) /\ Distinct(p3)
      /\ NamesIn(p3) \subseteq {PadAfter} /\ p3 \in Seq(Fields)
  BY ONLY <1>1, <1>2, PieceFacts
<1> HIDE DEF p1, p2, p3
<1>7. PadName # NewName /\ PadName # PadAfter /\ NewName # PadAfter
  BY DEF PadName, NewName, PadAfter
<1> DEFINE q == p1 \o p2
<1>8. /\ Chain(q, z, a, a + b) /\ (HasSet(q) <=> HasSet(p1) \/ HasSet(p2))
  BY ONLY <1>4, <1>5, ChainConcat
<1>9. /\ q \in Seq(Fields) /\ Distinct(q) /\ OneSet(q) /\ NamesIn(q) = NamesIn(p1) \cup NamesIn(p2)
  <2>1. NamesIn(p1) \cap NamesIn(p2) = {}
    BY ONLY <1>4, <1>5, <1>7
  <2> QED
    BY ONLY <1>4, <1>5, <2>1, ConcatNames
<1> HIDE DEF q
<1>10. /\ Chain(q \o p3, z, a, a + c) /\ (HasSet(q \o p3) <=> HasSet(q) \/ HasSet(p3))
  BY ONLY <1>6, <1>8, ChainConcat
<1>11. /\ q \o p3 \in Seq(Fields) /\ Distinct(q \o p3) /\ OneSet(q \o p3)
       /\ NamesIn(q \o p3) = NamesIn(q) \cup NamesIn(p3)
  <2>1. NamesIn(q) \cap NamesIn(p3) = {}
    BY ONLY <1>4, <1>5, <1>6, <1>7, <1>9
  <2> QED
    BY ONLY <1>4, <1>5, <1>6, <1>8, <1>9, <2>1, ConcatNames
<1>12. Pieces(old, offset, size) = q \o p3
  BY ONLY DEF Pieces, q, p1, p2, p3, a, b, c
<1>13. NamesIn(q \o p3) \subseteq EditNames
  BY ONLY <1>4, <1>5, <1>6, <1>9, <1>11 DEF EditNames
<1> QED
  BY ONLY <1>3, <1>4, <1>5, <1>6, <1>8, <1>10, <1>11, <1>12, <1>13 DEF a

\* A part of a list has its names and sets.
LEMMA PartNames ==
    ASSUME NEW fs \in Seq(Fields), NEW gs \in Seq(Fields), NEW d \in Nat,
           \A i \in 1 .. Len(gs) : d + i \in DOMAIN fs /\ gs[i] = fs[d + i],
           Distinct(fs), OneSet(fs)
    PROVE  /\ Distinct(gs) /\ OneSet(gs) /\ NamesIn(gs) \subseteq NamesIn(fs)
           /\ HasSet(gs) => \E i \in 1 .. Len(gs) : fs[d + i].kind = "set"
<1>1. DOMAIN gs = 1 .. Len(gs) /\ Len(gs) \in Nat
  BY ONLY gs \in Seq(Fields), LenProperties
<1> DEFINE n == Len(gs)
<1>2. \A i, j \in 1 .. n : d + i = d + j => i = j
  <2> HIDE DEF n
  <2>1. n \in Nat
    BY ONLY <1>1 DEF n
  <2> QED
    BY ONLY <2>1, d \in Nat
<1>3. Distinct(gs)
  BY ONLY <1>1, <1>2, Distinct(fs), \A i \in 1 .. Len(gs) : d + i \in DOMAIN fs /\ gs[i] = fs[d + i]
     DEF Distinct
<1>4. OneSet(gs)
  BY ONLY <1>1, <1>2, OneSet(fs), \A i \in 1 .. Len(gs) : d + i \in DOMAIN fs /\ gs[i] = fs[d + i]
     DEF OneSet
<1>5. NamesIn(gs) \subseteq NamesIn(fs)
  BY ONLY <1>1, \A i \in 1 .. Len(gs) : d + i \in DOMAIN fs /\ gs[i] = fs[d + i] DEF NamesIn
<1>6. HasSet(gs) => \E i \in 1 .. n : fs[d + i].kind = "set"
  BY ONLY <1>1, \A i \in 1 .. Len(gs) : d + i \in DOMAIN fs /\ gs[i] = fs[d + i] DEF HasSet
<1> QED
  BY ONLY <1>3, <1>4, <1>5, <1>6

\* writeFieldsIn: the fields still follow each other, with names of their
\* own.
LEMMA RewrittenOK ==
    ASSUME NEW u, NEW z, NEW p, SetOK(u, z, p, FALSE), OneSet(u.fields),
           NEW i \in DOMAIN u.fields, u.fields[i].kind = "data",
           NEW offset \in Nat, NEW size \in Nat, offset + size <= u.fields[i].size,
           NEW v \in SetT, v.fields = Rewritten(u.fields, i, offset, size),
           v.size = u.size, v.current = u.current, v.gen = u.gen
    PROVE  SetOK(v, z, p, TRUE) /\ OneSet(v.fields) /\ (HasSet(v.fields) => HasSet(u.fields))
<1> DEFINE fs == u.fields
           n == Len(fs)
           old == fs[i]
           pre == SubSeq(fs, 1, i - 1)
           ps == Pieces(old, offset, size)
           suf == SubSeq(fs, i + 1, n)
<1>1. /\ fs \in Seq(Fields) /\ n \in Nat /\ DOMAIN fs = 1 .. n /\ u.current \in Nat /\ u.gen \in Nat
      /\ old \in Fields /\ Chain(fs, z, 0, u.current) /\ Unlike(fs) /\ NamesOK(u, FALSE)
  BY SetFacts DEF SetOK
<1>2. i \in 1 .. n /\ i \in Nat /\ i - 1 \in 0 .. n /\ i - 1 \in Nat /\ i \in 0 .. n /\ n - i \in Nat
  BY ONLY <1>1, i \in DOMAIN u.fields
<1>3. Distinct(fs) /\ \A j \in DOMAIN fs : fs[j].name = RawName => j = n
  BY ONLY <1>1 DEF Unlike, Distinct
<1>4. /\ Chain(ps, z, old.address, EndOf(old, z)) /\ ~HasSet(ps) /\ OneSet(ps) /\ Distinct(ps)
      /\ NamesIn(ps) \subseteq EditNames /\ ps \in Seq(Fields)
  BY ONLY <1>1, offset \in Nat, size \in Nat, offset + size <= u.fields[i].size,
     u.fields[i].kind = "data", PiecesFacts
<1>5. /\ pre \in Seq(Fields) /\ Len(pre) = i - 1 /\ (\A j \in 1 .. (i - 1) : pre[j] = fs[j])
      /\ (HasSet(pre) => HasSet(fs))
      /\ Chain(pre, z, 0, IF i - 1 = 0 THEN 0 ELSE EndOf(fs[i - 1], z))
  BY ONLY <1>1, <1>2, ChainPrefix
<1>6. /\ suf \in Seq(Fields) /\ Len(suf) = n - i /\ (\A j \in 1 .. (n - i) : suf[j] = fs[i + j])
      /\ (HasSet(suf) => HasSet(fs))
      /\ Chain(suf, z, EndOf(old, z), u.current)
  BY ONLY <1>1, <1>2, ChainSuffix
<1>7. (IF i - 1 = 0 THEN 0 ELSE EndOf(fs[i - 1], z)) = old.address
  <2>1. i - 1 = 0 => old.address = 0
    <3>1. fs # <<>>
      BY ONLY <1>1, <1>2, EmptySeq
    <3>2. i - 1 = 0 => i = 1
      BY ONLY <1>2
    <3> QED
      BY ONLY <1>1, <3>1, <3>2 DEF Chain
  <2>2. i - 1 # 0 => i - 1 \in 1 .. (n - 1) /\ (i - 1) + 1 = i
    BY ONLY <1>1, <1>2
  <2> QED
    BY ONLY <1>1, <2>1, <2>2 DEF Chain
<1> HIDE DEF pre, ps, suf, n
<1>8. Chain(pre, z, 0, old.address)
  BY ONLY <1>5, <1>7
<1>9. \A j \in 1 .. (i - 1) : 0 + j \in DOMAIN fs /\ 0 + j = j
  BY ONLY <1>1, <1>2
<1>10. \A j \in 1 .. (n - i) : i + j \in DOMAIN fs
  BY ONLY <1>1, <1>2
<1>11. /\ Distinct(pre) /\ OneSet(pre) /\ NamesIn(pre) \subseteq NamesIn(fs)
       /\ HasSet(pre) => \E j \in 1 .. (i - 1) : fs[j].kind = "set"
  <2>1. \A j \in 1 .. Len(pre) : 0 + j \in DOMAIN fs /\ pre[j] = fs[0 + j]
    BY ONLY <1>5, <1>9
  <2>2. 0 \in Nat
    OBVIOUS
  <2>3. /\ Distinct(pre) /\ OneSet(pre) /\ NamesIn(pre) \subseteq NamesIn(fs)
        /\ HasSet(pre) => \E j \in 1 .. Len(pre) : fs[0 + j].kind = "set"
    BY ONLY <1>1, <1>3, <1>5, <2>1, <2>2, OneSet(u.fields), PartNames
  <2> QED
    BY ONLY <1>5, <1>9, <2>3
<1>12. /\ Distinct(suf) /\ OneSet(suf) /\ NamesIn(suf) \subseteq NamesIn(fs)
       /\ HasSet(suf) => \E j \in 1 .. (n - i) : fs[i + j].kind = "set"
  <2>1. \A j \in 1 .. Len(suf) : i + j \in DOMAIN fs /\ suf[j] = fs[i + j]
    BY ONLY <1>6, <1>10
  <2>3. /\ Distinct(suf) /\ OneSet(suf) /\ NamesIn(suf) \subseteq NamesIn(fs)
        /\ HasSet(suf) => \E j \in 1 .. Len(suf) : fs[i + j].kind = "set"
    BY ONLY <1>1, <1>2, <1>3, <1>6, <2>1, OneSet(u.fields), PartNames
  <2> QED
    BY ONLY <1>6, <2>3
<1>13. NamesIn(fs) \cap EditNames = {}
  <2>1. ASSUME NEW j \in DOMAIN fs PROVE fs[j].name \notin EditNames
    BY ONLY <1>1, j \in DOMAIN fs DEF NamesOK, NameOK
  <2> QED
    BY ONLY <2>1 DEF NamesIn
<1>14. NamesIn(pre) \cap NamesIn(suf) = {}
  <2>1. ASSUME NEW j \in 1 .. (i - 1), NEW k \in 1 .. (n - i), pre[j].name = suf[k].name PROVE FALSE
    <3>1. j \in DOMAIN fs /\ i + k \in DOMAIN fs /\ fs[j].name = fs[i + k].name
      BY ONLY <1>5, <1>6, <1>9, <1>10, <2>1, j \in 1 .. (i - 1), k \in 1 .. (n - i)
    <3>2. j = i + k
      BY ONLY <1>3, <3>1 DEF Distinct
    <3> QED
      BY ONLY <1>1, <1>2, <3>2, j \in 1 .. (i - 1), k \in 1 .. (n - i)
  <2>2. DOMAIN pre = 1 .. (i - 1) /\ DOMAIN suf = 1 .. (n - i)
    BY ONLY <1>5, <1>6, LenProperties
  <2> QED
    BY ONLY <2>1, <2>2 DEF NamesIn
<1>15. ~ (HasSet(pre) /\ HasSet(suf))
  <2>1. ASSUME HasSet(pre), HasSet(suf) PROVE FALSE
    <3>1. PICK j \in 1 .. (i - 1) : fs[j].kind = "set"
      BY ONLY <1>11, <2>1
    <3>2. PICK k \in 1 .. (n - i) : fs[i + k].kind = "set"
      BY ONLY <1>12, <2>1
    <3>3. j = i + k
      BY ONLY <1>9, <1>10, <3>1, <3>2, OneSet(u.fields) DEF OneSet
    <3> QED
      BY ONLY <1>1, <1>2, <3>1, <3>2, <3>3
  <2> QED
    BY ONLY <2>1
<1> DEFINE q == pre \o ps
           hs == q \o suf
<1>16. Chain(q, z, 0, EndOf(old, z)) /\ (HasSet(q) <=> HasSet(pre) \/ HasSet(ps))
  BY ONLY <1>4, <1>8, ChainConcat
<1>17. /\ q \in Seq(Fields) /\ Len(q) = Len(pre) + Len(ps) /\ Distinct(q) /\ OneSet(q)
       /\ NamesIn(q) = NamesIn(pre) \cup NamesIn(ps)
  <2>1. NamesIn(pre) \cap NamesIn(ps) = {} /\ ~ (HasSet(pre) /\ HasSet(ps))
    BY ONLY <1>4, <1>11, <1>13
  <2> QED
    BY ONLY <1>4, <1>5, <1>11, <2>1, ConcatNames
<1> HIDE DEF q
<1>18. Chain(hs, z, 0, u.current) /\ (HasSet(hs) <=> HasSet(q) \/ HasSet(suf))
  BY ONLY <1>6, <1>16, ChainConcat
<1>19. /\ hs \in Seq(Fields) /\ Len(hs) = Len(q) + Len(suf) /\ Distinct(hs) /\ OneSet(hs)
       /\ NamesIn(hs) = NamesIn(q) \cup NamesIn(suf)
       /\ \A j \in 1 .. Len(q) : hs[j] = q[j]
       /\ \A j \in 1 .. Len(suf) : hs[Len(q) + j] = suf[j]
  <2>1. NamesIn(q) \cap NamesIn(suf) = {} /\ ~ (HasSet(q) /\ HasSet(suf))
    BY ONLY <1>4, <1>12, <1>13, <1>14, <1>15, <1>16, <1>17
  <2> QED
    BY ONLY <1>6, <1>12, <1>17, <2>1, ConcatNames
<1>20. v.fields = hs
  BY ONLY v.fields = Rewritten(u.fields, i, offset, size) DEF Rewritten, q, pre, ps, suf, n
<1> DEFINE m == Len(q)
           k == n - i
<1> HIDE DEF hs, m
<1>21. m \in Nat /\ k \in Nat /\ Len(hs) = m + k /\ DOMAIN hs = 1 .. (m + k)
  <2>1. Len(q) \in Nat
    BY ONLY <1>17, LenProperties
  <2> QED
    BY ONLY <1>2, <1>6, <1>19, <2>1, LenProperties DEF m
<1>22. RawName \notin EditNames
  BY DEF RawName, EditNames, PadName, NewName, PadAfter
<1>23. ASSUME NEW j \in 1 .. (m + k), hs[j].name = RawName PROVE j = m + k
  <2>1. CASE j <= m
    <3>1. j \in 1 .. m /\ j \in DOMAIN q
      BY ONLY <1>17, <1>21, <2>1, j \in 1 .. (m + k), LenProperties DEF m
    <3>2. RawName \in NamesIn(q)
      BY ONLY <1>19, <1>23, <3>1 DEF NamesIn, m
    <3>3. RawName \in NamesIn(pre)
      BY ONLY <1>4, <1>17, <1>22, <3>2
    <3>4. PICK l \in 1 .. (i - 1) : pre[l].name = RawName
      <4>1. DOMAIN pre = 1 .. (i - 1)
        BY ONLY <1>5, LenProperties
      <4> QED
        BY ONLY <3>3, <4>1 DEF NamesIn
    <3>5. l = n
      BY ONLY <1>3, <1>5, <1>9, <3>4
    <3> QED
      BY ONLY <1>2, <3>4, <3>5
  <2>2. CASE ~ (j <= m)
    <3>1. j - m \in 1 .. k /\ m + (j - m) = j
      BY ONLY <1>21, <2>2, j \in 1 .. (m + k)
    <3>2. hs[j] = suf[j - m] /\ suf[j - m] = fs[i + (j - m)] /\ i + (j - m) \in DOMAIN fs
      BY ONLY <1>6, <1>10, <1>19, <3>1 DEF m
    <3>3. i + (j - m) = n
      BY ONLY <1>3, <1>23, <3>2
    <3> QED
      BY ONLY <1>1, <1>2, <1>21, <3>3, j \in 1 .. (m + k)
  <2> QED
    BY ONLY <2>1, <2>2
<1>24. Unlike(hs)
  BY ONLY <1>19, <1>21, <1>23 DEF Unlike, Distinct
<1>25. NamesOK(v, TRUE)
  <2>1. ASSUME NEW j \in DOMAIN hs PROVE NameOK(hs[j].name, v, TRUE)
    <3>1. hs[j].name \in NamesIn(hs)
      BY ONLY j \in DOMAIN hs DEF NamesIn
    <3>2. CASE hs[j].name \in NamesIn(fs)
      <4>1. PICK l \in DOMAIN fs : hs[j].name = fs[l].name
        BY ONLY <3>2 DEF NamesIn
      <4>2. NameOK(fs[l].name, u, FALSE)
        BY ONLY <1>1, <4>1 DEF NamesOK
      <4> QED
        BY ONLY <4>1, <4>2, v.size = u.size, v.current = u.current, v.gen = u.gen DEF NameOK
    <3>3. CASE hs[j].name \in EditNames
      BY ONLY <3>3 DEF NameOK, EditNames, RawName, PadName, NewName, PadAfter
    <3> QED
      BY ONLY <1>4, <1>11, <1>12, <1>17, <1>19, <3>1, <3>2, <3>3
  <2> QED
    BY ONLY <1>20, <2>1 DEF NamesOK
<1>26. SizesOK(v, p)
  BY ONLY SetOK(u, z, p, FALSE), v.size = u.size, v.current = u.current, v.gen = u.gen DEF SetOK, SizesOK
<1>27. HasSet(hs) => HasSet(fs)
  BY ONLY <1>4, <1>5, <1>6, <1>16, <1>18
<1> QED
  BY ONLY <1>18, <1>19, <1>20, <1>24, <1>25, <1>26, <1>27, v \in SetT, v.current = u.current DEF SetOK

-----------------------------------------------------------------------------
\* 6. The steps of feeding: how a call is left, and what each item of a
\* generator does.

\* A set is left: t has become r, where s is complete.
Ended(t, r, s, p, e) ==
    /\ TreeOK(r, p, e) /\ (HasSet(r.root.fields) <=> HasSet(t.root.fields))
    /\ DOMAIN r = Sets /\ \A o \in Sets \ {s} : r[o] = t[o]
    /\ r[s].gen = Done /\ (s = "sub" => r.sub.size # Unknown)
    /\ \/ r[s].fields = t[s].fields
       \/ /\ t[s].size # Unknown /\ t[s].size # t[s].current
          /\ r[s].fields = Append(t[s].fields,
                Field(RawName, "data", t[s].current, t[s].size - t[s].current))

\* _fixLastField leaves a set complete.
LEMMA FixLastEnds ==
    ASSUME NEW t, NEW p, NEW e, TreeOK(t, p, e), NEW s \in Sets, t[s].size # Unknown
    PROVE  Ended(t, FixLast(t, s), s, p, e)
<1> DEFINE r == FixLast(t, s)
<1>1. /\ TreeOK(r, p, e)
      /\ HasSet(r.root.fields) <=> HasSet(t.root.fields)
  BY FixLastOK
<1>2. /\ DOMAIN r = Sets /\ \A o \in Sets \ {s} : r[o] = t[o]
      /\ r[s].gen = Done /\ r[s].size = t[s].size
      /\ t[s].size = t[s].current => r[s].fields = t[s].fields
      /\ t[s].size # t[s].current =>
           r[s].fields = Append(t[s].fields,
               Field(RawName, "data", t[s].current, t[s].size - t[s].current))
  BY FixLastIs
<1> HIDE DEF r
<1>3. s = "sub" => r.sub.size # Unknown
  BY <1>2
<1>4. Ended(t, r, s, p, e)
  BY ONLY <1>1, <1>2, <1>3, t[s].size # Unknown DEF Ended
<1> QED
  BY ONLY <1>4 DEF r

\* _stopFeeding leaves a set complete.
LEMMA StopFeedingEnds ==
    ASSUME NEW t, NEW p, NEW e, TreeOK(t, p, e), NEW s \in Sets
    PROVE  Ended(t, StopFeeding(t, s), s, p, e)
<1>1. CASE t[s].size # Unknown /\ t[s].size # t[s].current
  <2>1. StopFeeding(t, s) = FixLast(t, s)
    BY ONLY <1>1 DEF StopFeeding
  <2> QED
    BY ONLY <1>1, <2>1, TreeOK(t, p, e), s \in Sets, FixLastEnds
<1>2. CASE t[s].size = Unknown \/ t[s].size = t[s].current
  <2> DEFINE r == StopFeeding(t, s)
  <2>1. /\ TreeOK(r, p, e)
        /\ HasSet(r.root.fields) <=> HasSet(t.root.fields)
        /\ DOMAIN r = Sets /\ \A o \in Sets \ {s} : r[o] = t[o]
        /\ r[s].gen = Done
        /\ s = "sub" => r.sub.size # Unknown
        /\ t[s].size = t[s].current \/ t[s].size = Unknown =>
             r[s].fields = t[s].fields /\ r[s].current = t[s].current
    BY ONLY TreeOK(t, p, e), s \in Sets, StopFeedingOK
  <2> HIDE DEF r
  <2>2. Ended(t, r, s, p, e)
    BY ONLY <1>2, <2>1 DEF Ended
  <2> QED
    BY ONLY <2>2 DEF r
<1> QED
  BY ONLY <1>1, <1>2

\* A generator that goes on, or that fails, changes only its number.
LEMMA AdvancedOK ==
    ASSUME NEW t, NEW p, NEW e, TreeOK(t, p, e), NEW s \in Sets, t[s].gen # Done,
           NEW n \in Nat, n # Done, t[s].gen <= n
    PROVE  LET r == [t EXCEPT ![s].gen = n]
           IN /\ TreeOK(r, p, e) /\ r.root.fields = t.root.fields /\ DOMAIN r = Sets
              /\ \A o \in Sets \ {s} : r[o] = t[o]
              /\ r[s].fields = t[s].fields /\ r[s].current = t[s].current
              /\ r[s].size = t[s].size /\ r[s].gen = n
<1> DEFINE r == [t EXCEPT ![s].gen = n]
<1>1. /\ DOMAIN t = Sets /\ t[s] \in SetT /\ SetOK(t[s], t.sub.size, p, e)
      /\ DOMAIN t[s] = {"fields", "size", "current", "gen"}
  BY ONLY TreeOK(t, p, e), s \in Sets, TreeFacts
<1>2. /\ DOMAIN r = Sets /\ \A o \in Sets \ {s} : r[o] = t[o]
      /\ r[s] = [t[s] EXCEPT !.gen = n]
  BY ONLY <1>1, s \in Sets
<1>3. /\ r[s].fields = t[s].fields /\ r[s].current = t[s].current
      /\ r[s].size = t[s].size /\ r[s].gen = n
  BY ONLY <1>1, <1>2
<1>4. r[s] \in SetT
  BY ONLY <1>1, <1>2, n \in Nat DEF SetT
<1> HIDE DEF r
<1>5. SizesOK(t[s], p)
  BY ONLY <1>1 DEF SetOK
<1>6. SizesOK(r[s], p)
  BY ONLY <1>3, <1>5, n # Done DEF SizesOK
<1>7. TreeOK(r, p, e) /\ r.root.fields = t.root.fields
  <2>1. r[s].gen # Done => t[s].gen # Done /\ t[s].gen <= r[s].gen
    BY ONLY <1>3, t[s].gen # Done, t[s].gen <= n
  <2>2. t[s].gen = Done /\ t[s].size = t[s].current => r[s].gen = Done /\ r[s].size = r[s].current
    BY ONLY t[s].gen # Done
  <2>3. r[s].size = t[s].size \/ (s = "sub" /\ t[s].size = Unknown)
    BY ONLY <1>3
  <2>4. DOMAIN r = Sets /\ \A o \in Sets \ {s} : r[o] = t[o]
    BY ONLY <1>2
  <2>5. r[s].fields = t[s].fields /\ r[s].current = t[s].current
    BY ONLY <1>3
  <2> QED
    BY ONLY TreeOK(t, p, e), s \in Sets, <1>4, <1>6, <2>1, <2>2, <2>3, <2>4, <2>5, DropOK
<1> QED
  BY ONLY <1>2, <1>3, <1>7 DEF r

IterT == [state : Iterations, done : Nat, snap : Seq(Fields)]
HistoryOK ==
    /\ goal \in [Sets -> Goals] /\ answer \in Answers /\ iter \in IterT /\ seen \in Seq(Fields)
    /\ \A s \in Sets : goal[s].want = "next" => s = "root"

\* A step of feeding s, which has made t of the tree before it does the rest.
FeedStep(s, t) ==
    /\ TreeOK(tree', piped, edited) /\ (HasSet(tree'.root.fields) <=> HasSet(t.root.fields))
    /\ \A o \in Sets \ {s} : tree'[o] = t[o] /\ goal'[o] = goal[o]
    /\ tree'[s].gen \in {Done, t[s].gen}
    /\ goal' \in [Sets -> Goals] /\ answer' \in Answers /\ iter' \in IterT /\ seen' \in Seq(Fields)
    /\ goal'[s] = Idle \/ goal'[s].want = goal[s].want
    /\ s = "sub" /\ goal.sub.want = "all" /\ goal'.sub = Idle /\ answer' # "error" =>
         tree'.sub.size # Unknown

\* What the step does to the iteration.
Longer(fs, gs, f) == f \in Fields /\ gs = Append(fs, f)
IterStep(s, t) ==
    /\ \/ tree'[s].fields = t[s].fields
       \/ (piped \/ t[s].gen # Done) /\ \E f \in Fields : Longer(t[s].fields, tree'[s].fields, f)
    /\ goal[s].want # "next" => iter' = iter /\ seen' = seen
    /\ goal[s].want = "next" =>
         /\ goal'[s] = Idle
         /\ \/ iter' = iter /\ seen' = seen
            \/ /\ iter'.state \in {"ended", "failed"}
               /\ iter'.state = "ended" => tree'[s].gen = Done
               /\ \/ seen' = seen /\ tree'[s].fields = t[s].fields
                  \/ \E f \in Fields : Longer(seen, seen', f) /\ Longer(t[s].fields, tree'[s].fields, f)

Left(s, t) ==
    /\ FeedStep(s, t) /\ IterStep(s, t) /\ goal'[s] = Idle
    /\ answer' = "error" => tree' = t
    /\ t[s].size = t[s].current => tree'[s].fields = t[s].fields

\* Where a call is left, the set is complete or as it was, and an
\* iteration that waited for a field has it, or is at its end.
LEMMA LeaveIs ==
    ASSUME HistoryOK, NEW s \in Sets, NEW t, TreeOK(t, piped, edited), NEW r, NEW outcome,
           Leave(s, t, r, outcome),
           \/ outcome = "error" /\ r = t
           \/ outcome = "ok" /\ Ended(t, r, s, piped, edited)
    PROVE  Left(s, t)
<1>1. tree' = r /\ answer' = outcome /\ goal' = [goal EXCEPT ![s] = Idle]
  BY ONLY Leave(s, t, r, outcome) DEF Leave
<1>2. outcome \in {"ok", "error"} /\ outcome \in Answers
  BY DEF Answers
<1>3. Idle \in Goals /\ goal \in [Sets -> Goals] /\ iter \in IterT /\ seen \in Seq(Fields)
  BY ONLY HistoryOK DEF HistoryOK, Idle, Goals
<1>4. /\ goal' \in [Sets -> Goals] /\ goal'[s] = Idle
      /\ \A o \in Sets \ {s} : goal'[o] = goal[o]
  BY ONLY <1>1, <1>3, s \in Sets
<1>5. /\ TreeOK(r, piped, edited) /\ (HasSet(r.root.fields) <=> HasSet(t.root.fields))
      /\ \A o \in Sets \ {s} : r[o] = t[o]
      /\ r[s].gen \in {Done, t[s].gen}
      /\ outcome # "error" => r[s].gen = Done /\ (s = "sub" => r.sub.size # Unknown)
  <2>1. CASE outcome = "error" /\ r = t
    BY ONLY <2>1, TreeOK(t, piped, edited)
  <2>2. CASE outcome = "ok" /\ Ended(t, r, s, piped, edited)
    BY ONLY <2>2 DEF Ended
  <2> QED
    BY ONLY <2>1, <2>2, \/ outcome = "error" /\ r = t
                        \/ outcome = "ok" /\ Ended(t, r, s, piped, edited)
<1>6. /\ t[s].fields \in Seq(Fields) /\ r[s].fields \in Seq(Fields) /\ t[s].size \in OptSize
      /\ t[s].current \in Nat
      /\ t[s].size # Unknown => t[s].size \in Nat /\ t[s].current <= t[s].size
  BY ONLY TreeOK(t, piped, edited), <1>5, s \in Sets, TreeFacts
<1> DEFINE raw == Field(RawName, "data", t[s].current, t[s].size - t[s].current)
<1>7. \/ r[s].fields = t[s].fields
      \/ /\ raw \in Fields /\ r[s].fields = Append(t[s].fields, raw)
         /\ ~Has(t, s, RawName) /\ (piped \/ t[s].gen # Done)
  <2>1. CASE outcome = "error" /\ r = t
    BY ONLY <2>1
  <2>2. CASE outcome = "ok" /\ Ended(t, r, s, piped, edited)
    <3>1. \/ r[s].fields = t[s].fields
          \/ /\ t[s].size # Unknown /\ t[s].size # t[s].current
             /\ r[s].fields = Append(t[s].fields, raw)
      BY ONLY <2>2 DEF Ended
    <3>2. CASE t[s].size # Unknown /\ t[s].size # t[s].current /\ r[s].fields = Append(t[s].fields, raw)
      <4>1. SetOK(t[s], t.sub.size, piped, edited)
        BY ONLY TreeOK(t, piped, edited), s \in Sets, TreeFacts
      <4>2. ~Has(t, s, RawName)
        BY ONLY <3>2, <4>1 DEF SetOK, NamesOK, NameOK, Has
      <4>3. piped \/ t[s].gen # Done
        BY ONLY <3>2, <4>1 DEF SetOK, SizesOK
      <4>4. t[s].size - t[s].current \in Nat
        BY ONLY <1>6, <3>2
      <4>5. raw \in Fields
        BY ONLY <1>6, <4>4 DEF Field, Fields, Names
      <4> QED
        BY ONLY <3>2, <4>2, <4>3, <4>5
    <3> QED
      BY ONLY <3>1, <3>2
  <2> QED
    BY ONLY <2>1, <2>2, \/ outcome = "error" /\ r = t
                        \/ outcome = "ok" /\ Ended(t, r, s, piped, edited)
<1>8. raw.name = RawName
  BY ONLY DEF Field
<1> HIDE DEF raw
<1>9. \/ r[s].fields = t[s].fields
      \/ (piped \/ t[s].gen # Done) /\ \E f \in Fields : Longer(t[s].fields, r[s].fields, f)
  BY ONLY <1>7 DEF Longer
<1>12. t[s].size = t[s].current => tree'[s].fields = t[s].fields
  BY ONLY <1>1, \/ outcome = "error" /\ r = t
                \/ outcome = "ok" /\ Ended(t, r, s, piped, edited) DEF Ended
<1>10. CASE goal[s].want # "next"
  <2>1. iter' = iter /\ seen' = seen
    BY ONLY <1>10, Leave(s, t, r, outcome) DEF Leave
  <2>2. FeedStep(s, t)
    BY ONLY <1>1, <1>2, <1>3, <1>4, <1>5, <2>1 DEF FeedStep
  <2>3. IterStep(s, t)
    BY ONLY <1>1, <1>9, <1>10, <2>1 DEF IterStep
  <2>4. answer' = "error" => tree' = t
    BY ONLY <1>1, \/ outcome = "error" /\ r = t
                  \/ outcome = "ok" /\ Ended(t, r, s, piped, edited)
  <2> QED
    BY ONLY <1>4, <1>12, <2>2, <2>3, <2>4 DEF Left
<1>11. CASE goal[s].want = "next"
  <2>1. /\ iter' = [iter EXCEPT !.state = IF outcome = "ok" THEN "ended" ELSE "failed"]
        /\ seen' = IF ~Has(t, s, RawName) /\ Has(r, s, RawName)
                   THEN Append(seen, Last(r[s].fields)) ELSE seen
    BY ONLY <1>11, Leave(s, t, r, outcome) DEF Leave
  <2>2. /\ iter' \in IterT /\ iter'.state = IF outcome = "ok" THEN "ended" ELSE "failed"
    BY ONLY <1>3, <2>1 DEF IterT, Iterations
  <2>3. /\ iter'.state \in {"ended", "failed"}
        /\ iter'.state = "ended" => r[s].gen = Done
    BY ONLY <1>2, <1>5, <2>2
  <2>4. /\ \/ seen' = seen /\ r[s].fields = t[s].fields
           \/ \E f \in Fields : Longer(seen, seen', f) /\ Longer(t[s].fields, r[s].fields, f)
        /\ seen' \in Seq(Fields)
    <3>1. CASE r[s].fields = t[s].fields
      <4>1. Has(r, s, RawName) <=> Has(t, s, RawName)
        BY ONLY <3>1 DEF Has
      <4> QED
        BY ONLY <1>3, <2>1, <3>1, <4>1
    <3>2. CASE /\ raw \in Fields /\ r[s].fields = Append(t[s].fields, raw)
               /\ ~Has(t, s, RawName)
      <4> DEFINE n == Len(t[s].fields)
      <4>1. n \in Nat
        BY ONLY <1>6, LenProperties
      <4>2. /\ Len(r[s].fields) = n + 1 /\ r[s].fields[n + 1] = raw
        BY ONLY <1>6, <3>2, AppendProperties
      <4> HIDE DEF n
      <4>3. Last(r[s].fields) = raw
        BY ONLY <4>2 DEF Last
      <4>4. DOMAIN r[s].fields = 1 .. (n + 1)
        BY ONLY <1>6, <4>2, LenProperties
      <4>5. n + 1 \in DOMAIN r[s].fields
        BY ONLY <4>1, <4>4
      <4>6. Has(r, s, RawName)
        BY ONLY <1>8, <4>2, <4>5 DEF Has
      <4>7. seen' = Append(seen, raw)
        BY ONLY <2>1, <3>2, <4>3, <4>6
      <4>8. seen' \in Seq(Fields)
        BY ONLY <1>3, <3>2, <4>7, AppendProperties
      <4> QED
        BY ONLY <3>2, <4>7, <4>8 DEF Longer
    <3> QED
      BY ONLY <1>7, <3>1, <3>2
  <2>5. FeedStep(s, t)
    BY ONLY <1>1, <1>2, <1>3, <1>4, <1>5, <2>2, <2>4 DEF FeedStep
  <2>6. IterStep(s, t)
    BY ONLY <1>1, <1>4, <1>9, <1>11, <2>3, <2>4 DEF IterStep
  <2>7. answer' = "error" => tree' = t
    BY ONLY <1>1, \/ outcome = "error" /\ r = t
                  \/ outcome = "ok" /\ Ended(t, r, s, piped, edited)
  <2> QED
    BY ONLY <1>4, <1>12, <2>5, <2>6, <2>7 DEF Left
<1> QED
  BY ONLY <1>10, <1>11

\* The generator of s has ended: the call is left; only without autofix
\* with an error.
LEMMA OnStopIs ==
    ASSUME HistoryOK, NEW s \in Sets, NEW t, TreeOK(t, piped, edited), OnStop(s, t)
    PROVE  Left(s, t) /\ (autofix => answer' = "ok")
<1>1. CASE StopFails(t, s)
  <2>1. Leave(s, t, t, "error") /\ ~autofix
    BY ONLY <1>1, OnStop(s, t) DEF OnStop, StopFails
  <2>2. Left(s, t)
    BY ONLY <2>1, HistoryOK, s \in Sets, TreeOK(t, piped, edited), LeaveIs
  <2> QED
    BY ONLY <2>1, <2>2
<1>2. CASE ~StopFails(t, s)
  <2> DEFINE r == StopFeeding(t, s)
  <2>1. Leave(s, t, r, "ok")
    BY ONLY <1>2, OnStop(s, t) DEF OnStop
  <2>2. Ended(t, r, s, piped, edited)
    BY ONLY TreeOK(t, piped, edited), s \in Sets, StopFeedingEnds
  <2>3. answer' = "ok"
    BY ONLY <2>1 DEF Leave
  <2> HIDE DEF r
  <2>4. Left(s, t)
    BY ONLY <2>1, <2>2, HistoryOK, s \in Sets, TreeOK(t, piped, edited), LeaveIs
  <2> QED
    BY ONLY <2>3, <2>4
<1> QED
  BY ONLY <1>1, <1>2

\* The generator of s has failed: the call is left, with the error and
\* without a repair if the size is not known.
LEMMA OnErrorIs ==
    ASSUME HistoryOK, NEW s \in Sets, NEW t, TreeOK(t, piped, edited), OnError(s, t)
    PROVE  Left(s, t) /\ (t[s].size = Unknown => answer' = "error")
<1>1. CASE ErrorStays(t, s)
  <2>1. Leave(s, t, t, "error")
    BY ONLY <1>1, OnError(s, t) DEF OnError
  <2>2. Left(s, t)
    BY ONLY <2>1, HistoryOK, s \in Sets, TreeOK(t, piped, edited), LeaveIs
  <2>3. answer' = "error"
    BY ONLY <2>1 DEF Leave
  <2> QED
    BY ONLY <2>3, <2>2
<1>2. CASE ~ErrorStays(t, s)
  <2> DEFINE r == FixLast(t, s)
  <2>1. Leave(s, t, r, "ok") /\ t[s].size # Unknown
    BY ONLY <1>2, OnError(s, t) DEF OnError, ErrorStays
  <2>2. Ended(t, r, s, piped, edited)
    BY ONLY <2>1, TreeOK(t, piped, edited), s \in Sets, FixLastEnds
  <2> HIDE DEF r
  <2>3. Left(s, t)
    BY ONLY <2>1, <2>2, HistoryOK, s \in Sets, TreeOK(t, piped, edited), LeaveIs
  <2> QED
    BY ONLY <2>1, <2>3
<1> QED
  BY ONLY <1>1, <1>2

\* A field was added to s: the call goes on or has what it wants.
LEMMA OnAddedIs ==
    ASSUME HistoryOK, NEW s \in Sets, NEW t, NEW r, NEW name, OnAdded(s, r, name),
           TreeOK(r, piped, edited), NEW f \in Fields, r[s].fields = Append(t[s].fields, f), r[s].gen = t[s].gen,
           piped \/ t[s].gen # Done
    PROVE  /\ FeedStep(s, r) /\ IterStep(s, t) /\ tree' = r
           /\ goal[s].want = "all" => goal'[s] = goal[s]
           /\ goal'[s] # Idle => answer' = answer
           /\ goal'[s] = Idle => answer' = "ok"
           /\ goal'[s].want # "next"
           /\ iter' = iter /\ seen' = seen
<1>1. /\ tree' = r /\ iter' = iter /\ seen' = seen
      /\ answer' = IF goal'[s] = Idle THEN "ok" ELSE answer
  BY ONLY OnAdded(s, r, name) DEF OnAdded
<1> DEFINE g == goal[s]
           h == CASE g.want = "all" -> g
                  [] g.want = "count" /\ g.n > 1 -> [g EXCEPT !.n = g.n - 1]
                  [] g.want = "item" /\ g.n # name -> g
                  [] OTHER -> Idle
<1>2. goal' = [goal EXCEPT ![s] = h]
  BY ONLY OnAdded(s, r, name) DEF OnAdded
<1>3. Idle \in Goals /\ goal \in [Sets -> Goals] /\ iter \in IterT /\ seen \in Seq(Fields)
      /\ g \in Goals /\ answer \in Answers
  BY ONLY HistoryOK, s \in Sets DEF HistoryOK, Idle, Goals
<1>4. h \in Goals /\ (h = Idle \/ h.want = g.want)
  <2> DEFINE k == [g EXCEPT !.n = g.n - 1]
  <2>1. h \in {g, Idle} \/ (g.want = "count" /\ g.n > 1 /\ h = k)
    BY ONLY DEF h
  <2>2. g.n \in Nat /\ g = [want |-> g.want, n |-> g.n]
        /\ g.want \in {"nothing", "all", "count", "item", "next"}
    BY ONLY <1>3 DEF Goals
  <2>3. CASE h \in {g, Idle}
    BY ONLY <1>3, <2>3
  <2>4. CASE g.want = "count" /\ g.n > 1 /\ h = k
    <3>1. g.n - 1 \in Nat
      BY ONLY <2>2, <2>4
    <3>2. k = [want |-> g.want, n |-> g.n - 1]
      BY ONLY <2>2
    <3>3. k \in Goals /\ k.want = g.want
      BY ONLY <2>2, <3>1, <3>2 DEF Goals
    <3> QED
      BY ONLY <2>4, <3>3
  <2> QED
    BY ONLY <2>1, <2>3, <2>4
<1>5. g.want = "all" => h = g
  BY ONLY <1>3 DEF Goals
<1>6. g.want = "next" => h = Idle
  BY ONLY <1>3 DEF Goals
<1>7. Idle.want # "next" /\ Idle.want # "all"
  BY DEF Idle
<1> HIDE DEF h
<1>8. h.want # "next"
  BY ONLY <1>4, <1>6, <1>7
<1>9. /\ goal' \in [Sets -> Goals] /\ goal'[s] = h
      /\ \A o \in Sets \ {s} : goal'[o] = goal[o]
  BY ONLY <1>2, <1>3, <1>4, s \in Sets
<1>10. answer' \in Answers
  BY ONLY <1>1, <1>3 DEF Answers
<1>11. s = "sub" /\ goal.sub.want = "all" => goal'.sub # Idle
  BY ONLY <1>5, <1>7, <1>9
<1>12. FeedStep(s, r)
  BY ONLY <1>1, <1>3, <1>4, <1>9, <1>10, <1>11, TreeOK(r, piped, edited) DEF FeedStep
<1>13. IterStep(s, t)
  <2>1. Longer(t[s].fields, r[s].fields, f)
    BY ONLY f \in Fields, r[s].fields = Append(t[s].fields, f) DEF Longer
  <2> QED
    BY ONLY <1>1, <1>6, <1>9, <2>1, f \in Fields, piped \/ t[s].gen # Done DEF IterStep
<1> QED
  BY ONLY <1>1, <1>5, <1>8, <1>9, <1>12, <1>13

\* The inputs, and the numbers of the generators.
InputsOK ==
    /\ script \in [root : RootScripts, sub : SubScripts] /\ given \in SubSizes
    /\ autofix \in BOOLEAN /\ piped \in BOOLEAN
GensOK == \A s \in Sets : tree[s].gen \in 0 .. (Len(script[s]) + 1)

\* While a set is added, and after it, there is none left for the parser to add.
NoSetAhead ==
    \A i \in DOMAIN script.root :
        script.root[i].kind = "set" => tree.root.gen = Done \/ i < tree.root.gen
Waiting ==
    /\ ~HasSet(tree.root.fields) /\ goal.root # Idle
    /\ SetName \in DOMAIN script.root /\ script.root[SetName].kind = "set"
    /\ ~Has(tree, "root", SetName)
    /\ \/ address = tree.root.current
       \/ /\ tree.root.size # Unknown /\ tree.root.current = tree.root.size
          /\ tree.root.size <= address
    /\ goal.sub # Idle => goal.sub.want = "all"
    /\ goal.sub = Idle /\ answer # "error" => tree.sub.size # Unknown
AddingOK ==
    /\ HasSet(tree.root.fields) \/ adding => NoSetAhead
    /\ adding => Waiting

\* The invariant.
FieldSetInv ==
    /\ InputsOK /\ HistoryOK /\ GensOK /\ address \in Nat
    /\ adding \in BOOLEAN /\ kept \in BOOLEAN /\ edited \in BOOLEAN
    /\ TreeOK(tree, piped, edited) /\ AddingOK

\* A step of feeding s, as a whole.
Waits(t) ==
    t.sub.size = Unknown /\ t.root.size # Unknown /\ address + t.sub.current <= t.root.size
FedStep(s) ==
    /\ FeedStep(s, [tree EXCEPT ![s].gen = tree'[s].gen]) /\ IterStep(s, tree)
    /\ tree'[s].gen \in 0 .. (Len(script[s]) + 1)
    /\ tree'[s].gen # Done => tree[s].gen # Done /\ tree[s].gen <= tree'[s].gen
    /\ s = "sub" /\ goal.sub.want = "all" /\ Waits(tree)
         /\ (goal'.sub # Idle \/ answer' = "error") => Waits(tree')

\* What a generator yields next is an item.
LEMMA ScriptFacts ==
    ASSUME InputsOK, GensOK, NEW s \in Sets
    PROVE  /\ script[s] \in Seq(Items) /\ Len(script[s]) \in Nat
           /\ DOMAIN script[s] = 1 .. Len(script[s])
           /\ tree[s].gen \in Nat /\ tree[s].gen <= Len(script[s]) + 1
           /\ HasItem(s) => /\ tree[s].gen # Done /\ tree[s].gen \in DOMAIN script[s]
                            /\ NextItem(s).size \in Nat
<1>1. RootScripts \subseteq Seq(Items) /\ SubScripts \subseteq Seq(Items)
  BY ONLY FieldSetAssumption DEF FieldSetAssumption
<1>2. script.root \in RootScripts /\ script.sub \in SubScripts
  BY ONLY InputsOK DEF InputsOK
<1>3. script[s] \in Seq(Items)
  BY ONLY <1>1, <1>2, s \in Sets DEF Sets
<1>4. Len(script[s]) \in Nat /\ DOMAIN script[s] = 1 .. Len(script[s])
  BY ONLY <1>3, LenProperties
<1>5. tree[s].gen \in 0 .. (Len(script[s]) + 1)
  BY ONLY GensOK, s \in Sets DEF GensOK
<1> DEFINE n == Len(script[s])
           g == tree[s].gen
<1>6. n \in Nat /\ g \in 0 .. (n + 1) /\ DOMAIN script[s] = 1 .. n
  BY ONLY <1>4, <1>5
<1>7. HasItem(s) => g # Done /\ g <= n
  BY ONLY DEF HasItem
<1>8. NextItem(s) = script[s][g]
  BY ONLY DEF NextItem
<1> HIDE DEF n, g
<1>9. g \in Nat /\ g <= n + 1
  BY ONLY <1>6
<1>10. HasItem(s) => g # Done /\ g \in 1 .. n
  BY ONLY <1>6, <1>7 DEF Done
<1>11. HasItem(s) => NextItem(s) \in Items
  BY ONLY <1>3, <1>6, <1>8, <1>10, ElementOfSeq DEF n
<1>12. HasItem(s) => NextItem(s).size \in Nat
  BY ONLY <1>11 DEF Items
<1> QED
  BY ONLY <1>3, <1>4, <1>6, <1>9, <1>10, <1>12 DEF n, g

\* What a step has made of the tree before the rest of it.
Started(s, t) ==
    /\ TreeOK(t, piped, edited) /\ t[s].fields = tree[s].fields /\ t.root.fields = tree.root.fields
    /\ \A o \in Sets \ {s} : t[o] = tree[o]
    /\ t[s].gen \in 0 .. (Len(script[s]) + 1)
    /\ t[s].gen # Done => tree[s].gen # Done /\ tree[s].gen <= t[s].gen

\* The whole step, from what it begins with.
LEMMA StepFrom ==
    ASSUME FieldSetInv, NEW s \in Sets, NEW t, Started(s, t), FeedStep(s, t), IterStep(s, t),
           s = "sub" /\ goal.sub.want = "all" /\ Waits(tree)
             /\ (goal'.sub # Idle \/ answer' = "error") => Waits(tree')
    PROVE  FedStep(s)
<1> DEFINE g == tree'[s].gen
           r == [tree EXCEPT ![s].gen = g]
<1>1. TreeOK(tree, piped, edited) /\ InputsOK /\ GensOK
  BY ONLY FieldSetInv DEF FieldSetInv
<1>2. DOMAIN tree = Sets /\ DOMAIN tree[s] = {"fields", "size", "current", "gen"}
  BY ONLY <1>1, s \in Sets, TreeFacts
<1>3. g \in {Done, t[s].gen}
  BY ONLY FeedStep(s, t) DEF FeedStep
<1>4. t[s].gen \in 0 .. (Len(script[s]) + 1)
      /\ (t[s].gen # Done => tree[s].gen # Done /\ tree[s].gen <= t[s].gen)
  BY ONLY Started(s, t) DEF Started
<1>5. Len(script[s]) \in Nat
  BY ONLY <1>1, s \in Sets, ScriptFacts
<1>6. g \in 0 .. (Len(script[s]) + 1) /\ (g # Done => tree[s].gen # Done /\ tree[s].gen <= g)
  BY ONLY <1>3, <1>4, <1>5 DEF Done
<1>7. /\ \A o \in Sets \ {s} : r[o] = tree[o]
      /\ r[s].gen = g /\ r.root.fields = tree.root.fields
  <2>1. DOMAIN r = Sets /\ r[s] = [tree[s] EXCEPT !.gen = g]
        /\ \A o \in Sets \ {s} : r[o] = tree[o]
    BY ONLY <1>2, s \in Sets
  <2>2. r[s].gen = g /\ r[s].fields = tree[s].fields
    BY ONLY <1>2, <2>1
  <2> HIDE DEF r
  <2> QED
    BY ONLY <2>1, <2>2, s \in Sets DEF Sets
<1> HIDE DEF r
<1>8. \A o \in Sets \ {s} : t[o] = tree[o]
  BY ONLY Started(s, t) DEF Started
<1>9. t[s].fields = tree[s].fields /\ t.root.fields = tree.root.fields
  BY ONLY Started(s, t) DEF Started
<1>10. FeedStep(s, r)
  BY ONLY <1>7, <1>8, <1>9, FeedStep(s, t) DEF FeedStep
<1>11. IterStep(s, tree)
  BY ONLY <1>4, <1>9, IterStep(s, t) DEF IterStep
<1> QED
  BY ONLY <1>6, <1>10, <1>11, s = "sub" /\ goal.sub.want = "all" /\ Waits(tree)
             /\ (goal'.sub # Idle \/ answer' = "error") => Waits(tree') DEF FedStep, r

\* The number of the generator is all that changes before the rest of a
\* step.
LEMMA StartedBy ==
    ASSUME FieldSetInv, NEW s \in Sets, tree[s].gen # Done,
           NEW n \in 0 .. (Len(script[s]) + 1), n # Done, tree[s].gen <= n
    PROVE  LET t == [tree EXCEPT ![s].gen = n]
           IN /\ Started(s, t) /\ t[s].gen = n /\ t[s].size = tree[s].size
              /\ t[s].current = tree[s].current /\ t.root.size = tree.root.size
<1> DEFINE t == [tree EXCEPT ![s].gen = n]
<1>1. TreeOK(tree, piped, edited) /\ InputsOK /\ GensOK
  BY ONLY FieldSetInv DEF FieldSetInv
<1>2. n \in Nat
  BY <1>1, ScriptFacts
<1>3. /\ TreeOK(t, piped, edited) /\ t.root.fields = tree.root.fields /\ DOMAIN t = Sets
      /\ \A o \in Sets \ {s} : t[o] = tree[o]
      /\ t[s].fields = tree[s].fields /\ t[s].current = tree[s].current
      /\ t[s].size = tree[s].size /\ t[s].gen = n
  BY ONLY <1>1, <1>2, s \in Sets, tree[s].gen # Done, n # Done, tree[s].gen <= n, AdvancedOK
<1> HIDE DEF t
<1>4. t.root.size = tree.root.size
  BY ONLY <1>3, s \in Sets DEF Sets
<1>5. Started(s, t)
  BY ONLY <1>3, n \in 0 .. (Len(script[s]) + 1), tree[s].gen # Done, tree[s].gen <= n DEF Started
<1> QED
  BY ONLY <1>3, <1>4, <1>5 DEF t

\* Nothing changes before the rest of a step.
LEMMA StartedAsIs ==
    ASSUME FieldSetInv, NEW s \in Sets
    PROVE  Started(s, tree)
<1>1. TreeOK(tree, piped, edited) /\ InputsOK /\ GensOK
  BY ONLY FieldSetInv DEF FieldSetInv
<1>2. tree[s].gen \in Nat
  BY ONLY <1>1, s \in Sets, TreeFacts
<1>3. tree[s].gen \in 0 .. (Len(script[s]) + 1)
  BY ONLY <1>1, s \in Sets DEF GensOK
<1> QED
  BY ONLY <1>1, <1>2, <1>3 DEF Started

\* A call that is left makes a step; one that waits for the size of a set
\* is not left with an error that has touched the set.
LEMMA LeftStep ==
    ASSUME FieldSetInv, NEW s \in Sets, NEW t, Started(s, t), Left(s, t),
           \/ t.sub.size = tree.sub.size /\ t.sub.current = tree.sub.current
           \/ answer' # "error",
           t.root.size = tree.root.size
    PROVE  FedStep(s)
<1>1. FeedStep(s, t) /\ IterStep(s, t) /\ goal'[s] = Idle /\ (answer' = "error" => tree' = t)
  BY ONLY Left(s, t) DEF Left
<1>2. s = "sub" /\ goal.sub.want = "all" /\ Waits(tree)
        /\ (goal'.sub # Idle \/ answer' = "error") => Waits(tree')
  <2>1. ASSUME s = "sub", Waits(tree), goal'.sub # Idle \/ answer' = "error"
        PROVE  Waits(tree')
    <3>1. answer' = "error" /\ tree' = t
      BY ONLY <1>1, <2>1
    <3>2. t.sub.size = tree.sub.size /\ t.sub.current = tree.sub.current
      BY ONLY <3>1, \/ t.sub.size = tree.sub.size /\ t.sub.current = tree.sub.current
                    \/ answer' # "error"
    <3>3. Waits(t)
      BY ONLY <2>1, <3>2, t.root.size = tree.root.size DEF Waits
    <3> QED
      BY ONLY <3>1, <3>3
  <2> QED
    BY ONLY <2>1
<1> QED
  BY ONLY FieldSetInv, s \in Sets, Started(s, t), <1>1, <1>2, StepFrom

\* createFields() returns: the set stops feeding, or fails if it has
\* dropped the generator.
LEMMA GenEndsStep ==
    ASSUME FieldSetInv, NEW s \in Sets, GenEnds(s)
    PROVE  FedStep(s)
<1>1. TreeOK(tree, piped, edited) /\ HistoryOK
  BY ONLY FieldSetInv DEF FieldSetInv
<1>2. OnError(s, tree) \/ OnStop(s, tree)
  BY ONLY GenEnds(s) DEF GenEnds
<1>3. Left(s, tree)
  BY ONLY <1>1, <1>2, s \in Sets, OnStopIs, OnErrorIs
<1>4. Started(s, tree)
  BY ONLY FieldSetInv, s \in Sets, StartedAsIs
<1> QED
  BY ONLY FieldSetInv, s \in Sets, <1>3, <1>4, LeftStep

\* createFields() raises: the set is repaired or the call fails.
LEMMA GenFailsStep ==
    ASSUME FieldSetInv, NEW s \in Sets, GenFails(s)
    PROVE  FedStep(s)
<1> DEFINE n == Len(script[s]) + 1
           t == [tree EXCEPT ![s].gen = n]
<1>1. HistoryOK /\ InputsOK /\ GensOK
  BY ONLY FieldSetInv DEF FieldSetInv
<1>2. HasItem(s) /\ OnError(s, t)
  BY ONLY GenFails(s) DEF GenFails
<1>3. Len(script[s]) \in Nat /\ tree[s].gen # Done /\ tree[s].gen <= n
  BY ONLY <1>1, <1>2, s \in Sets, ScriptFacts
<1>4. n \in 0 .. n /\ n # Done
  BY ONLY <1>3 DEF Done
<1>5. /\ Started(s, t) /\ t[s].size = tree[s].size
      /\ t[s].current = tree[s].current /\ t.root.size = tree.root.size
  BY ONLY FieldSetInv, s \in Sets, <1>3, <1>4, StartedBy
<1> HIDE DEF t
<1>6. TreeOK(t, piped, edited) /\ \A o \in Sets \ {s} : t[o] = tree[o]
  BY ONLY <1>5 DEF Started
<1>7. Left(s, t)
  BY ONLY <1>1, <1>2, <1>6, s \in Sets, OnErrorIs
<1>8. t.sub.size = tree.sub.size /\ t.sub.current = tree.sub.current
  BY ONLY <1>5, <1>6, s \in Sets DEF Sets
<1> QED
  BY ONLY FieldSetInv, s \in Sets, <1>5, <1>7, <1>8, LeftStep

\* A set learns its size from what is left for it in the parser.
LEMMA SizedOK ==
    ASSUME NEW t, NEW p, NEW e, TreeOK(t, p, e), t.sub.size = Unknown, t.sub.gen # Done,
           NEW n \in Nat, t.sub.current <= n
    PROVE  LET r == [t EXCEPT !["sub"].size = n]
           IN /\ TreeOK(r, p, e) /\ r.root = t.root /\ r.sub.fields = t.sub.fields
              /\ r.sub.gen = t.sub.gen /\ DOMAIN r = Sets
<1> DEFINE s == "sub"
           r == [t EXCEPT !["sub"].size = n]
<1>1. s \in Sets /\ "root" \in Sets /\ "root" # "sub"
  BY DEF Sets
<1>2. /\ DOMAIN t = Sets /\ t.sub \in SetT
      /\ DOMAIN t.sub = {"fields", "size", "current", "gen"}
      /\ t.sub.size = Unknown => ~HasSet(t.root.fields)
  BY ONLY TreeOK(t, p, e), <1>1, TreeFacts
<1>3. /\ DOMAIN r = Sets /\ r.root = t.root /\ r.sub = [t.sub EXCEPT !.size = n]
      /\ \A o \in Sets \ {"sub"} : r[o] = t[o]
  BY ONLY <1>1, <1>2
<1>4. /\ r.sub.fields = t.sub.fields /\ r.sub.current = t.sub.current
      /\ r.sub.size = n /\ r.sub.gen = t.sub.gen
      /\ r.sub = [fields |-> t.sub.fields, size |-> n, current |-> t.sub.current, gen |-> t.sub.gen]
  BY ONLY <1>2, <1>3 DEF SetT
<1> HIDE DEF r
<1>5. r.sub \in SetT
  BY ONLY <1>2, <1>4, n \in Nat DEF SetT, OptSize
<1>6. SizesOK(r.sub, p)
  BY ONLY <1>4, t.sub.gen # Done, t.sub.current <= n DEF SizesOK
<1>7. TreeOK(r, p, e)
  <2>1. r[s].gen # Done => t[s].gen # Done /\ t[s].gen <= r[s].gen
    <3>1. t.sub.gen \in Nat
      BY ONLY <1>2 DEF SetT
    <3> QED
      BY ONLY <1>4, <3>1, t.sub.gen # Done
  <2>2. t[s].gen = Done /\ t[s].size = t[s].current => r[s].gen = Done /\ r[s].size = r[s].current
    BY ONLY t.sub.gen # Done
  <2>3. r[s].size = t[s].size \/ (s = "sub" /\ t[s].size = Unknown)
    BY ONLY t.sub.size = Unknown
  <2>4. r[s].fields = t[s].fields /\ r[s].current = t[s].current
    BY ONLY <1>4
  <2>5. \A o \in Sets \ {s} : r[o] = t[o]
    BY ONLY <1>3
  <2>6. r[s] \in SetT /\ SizesOK(r[s], p)
    BY ONLY <1>5, <1>6
  <2>7. DOMAIN r = Sets
    BY ONLY <1>3
  <2> HIDE DEF s
  <2> QED
    BY ONLY TreeOK(t, p, e), <1>1, <2>1, <2>2, <2>3, <2>4, <2>5, <2>6, <2>7, DropOK
<1> QED
  BY ONLY <1>3, <1>4, <1>7 DEF r

\* What is left for a set, if that is known.
LEMMA RoomIs ==
    ASSUME NEW t, NEW p, NEW e, TreeOK(t, p, e), NEW s \in Sets, NEW where \in Nat, NEW position \in Nat
    PROVE  LET room == Room(t, s, where, position)
           IN /\ t[s].size # Unknown => room = t[s].size - position /\ room # Unknown
              /\ t[s].size = Unknown /\ room # Unknown =>
                   s = "sub" /\ t.root.size \in Nat /\ room = t.root.size - (where + position)
              /\ s = "sub" /\ t.root.size # Unknown => room # Unknown
<1>1. /\ t[s].size # Unknown => t[s].size \in Nat
      /\ t.root.size # Unknown => t.root.size \in Nat
  <2>1. "root" \in Sets
    BY DEF Sets
  <2> QED
    BY ONLY TreeOK(t, p, e), <2>1, s \in Sets, TreeFacts
<1>2. Unknown \notin Int
  BY ONLY FieldSetAssumption DEF FieldSetAssumption
<1>3. CASE t[s].size # Unknown
  <2>1. Room(t, s, where, position) = t[s].size - position
    BY ONLY <1>3 DEF Room
  <2>2. t[s].size - position \in Int
    BY <1>1, <1>3
  <2> QED
    BY ONLY <1>2, <1>3, <2>1, <2>2
<1>4. CASE t[s].size = Unknown /\ s = "sub" /\ t.root.size # Unknown
  <2>1. Room(t, s, where, position) = t.root.size - (where + position)
    BY ONLY <1>4 DEF Room
  <2>2. t.root.size - (where + position) \in Int
    BY <1>1, <1>4
  <2> QED
    BY ONLY <1>1, <1>2, <1>4, <2>1, <2>2
<1>5. CASE t[s].size = Unknown /\ ~ (s = "sub" /\ t.root.size # Unknown)
  <2>1. Room(t, s, where, position) = Unknown
    BY ONLY <1>5 DEF Room
  <2> QED
    BY ONLY <1>5, <2>1
<1> QED
  BY ONLY <1>3, <1>4, <1>5

\* A field that is too large: the set is complete without it, or the call
\* fails.
LEMMA TooLargeStep ==
    ASSUME FieldSetInv, NEW s \in Sets, NEW t, Started(s, t), t[s].gen # Done,
           t[s].size = tree[s].size, t[s].current = tree[s].current, t.root.size = tree.root.size,
           NEW rest, t[s].size = Unknown => s = "sub" /\ rest \in Int, TooLarge(s, t, rest)
    PROVE  FedStep(s)
<1>1. HistoryOK
  BY ONLY FieldSetInv DEF FieldSetInv
<1>2. TreeOK(t, piped, edited) /\ \A o \in Sets \ {s} : t[o] = tree[o]
  BY ONLY Started(s, t) DEF Started
<1>3. t.sub.size = tree.sub.size /\ t.sub.current = tree.sub.current
  BY ONLY <1>2, t[s].size = tree[s].size, t[s].current = tree[s].current, s \in Sets DEF Sets
<1>4. t[s].current \in Nat
  BY ONLY <1>2, s \in Sets, TreeFacts
<1>5. CASE ~(autofix /\ t[s].current > 0)
  <2>1. OnError(s, t)
    BY ONLY <1>5, TooLarge(s, t, rest) DEF TooLarge
  <2>2. Left(s, t)
    BY ONLY <1>1, <1>2, <2>1, s \in Sets, OnErrorIs
  <2> QED
    BY ONLY FieldSetInv, s \in Sets, <1>3, <2>2, Started(s, t), t.root.size = tree.root.size, LeftStep
<1>6. CASE (autofix /\ t[s].current > 0) /\ ~ (rest > 0 /\ t[s].size = Unknown)
  <2>1. OnStop(s, t)
    BY ONLY <1>6, TooLarge(s, t, rest) DEF TooLarge
  <2>2. Left(s, t)
    BY ONLY <1>1, <1>2, <2>1, s \in Sets, OnStopIs
  <2> QED
    BY ONLY FieldSetInv, s \in Sets, <1>3, <2>2, Started(s, t), t.root.size = tree.root.size, LeftStep
<1>7. CASE (autofix /\ t[s].current > 0) /\ (rest > 0 /\ t[s].size = Unknown)
  <2> DEFINE n == t[s].current + rest
             r == [t EXCEPT ![s].size = n]
  <2>1. OnStop(s, r)
    BY ONLY <1>7, TooLarge(s, t, rest) DEF TooLarge
  <2>2. s = "sub" /\ rest \in Int
    BY ONLY <1>7, t[s].size = Unknown => s = "sub" /\ rest \in Int
  <2>3. n \in Nat /\ t[s].current <= n
    BY ONLY <1>4, <1>7, <2>2
  <2> HIDE DEF n
  <2>4. r = [t EXCEPT !["sub"].size = n]
    BY ONLY <2>2
  <2>5. t.sub.size = Unknown /\ t.sub.gen # Done /\ t.sub.current <= n
    BY ONLY <1>7, <2>2, <2>3, t[s].gen # Done
  <2>6. /\ TreeOK(r, piped, edited) /\ r.root = t.root /\ r.sub.fields = t.sub.fields
        /\ r.sub.gen = t.sub.gen /\ DOMAIN r = Sets
    BY ONLY <1>2, <2>3, <2>4, <2>5, SizedOK
  <2> HIDE DEF r
  <2>7. Left(s, r) /\ answer' = "ok"
    BY ONLY <1>1, <1>7, <2>1, <2>6, s \in Sets, OnStopIs
  <2>8. /\ \A o \in Sets \ {s} : r[o] = tree[o]
        /\ r[s].fields = tree[s].fields /\ r.root.fields = tree.root.fields
        /\ r[s].gen = t[s].gen /\ r.root.size = tree.root.size
    BY ONLY <2>2, <2>6, Started(s, t), t.root.size = tree.root.size DEF Started, Sets
  <2>9. Started(s, r)
    BY ONLY <2>6, <2>8, Started(s, t) DEF Started
  <2>10. r.root.size = tree.root.size /\ answer' # "error"
    BY ONLY <2>7, <2>8
  <2> QED
    BY ONLY FieldSetInv, s \in Sets, <2>7, <2>9, <2>10, LeftStep
<1> QED
  BY ONLY <1>5, <1>6, <1>7

\* A field that fits is added.
LEMMA AddedStep ==
    ASSUME FieldSetInv, NEW s \in Sets, tree[s].gen # Done,
           NEW t, Started(s, t), t[s].gen = tree[s].gen + 1,
           t[s].size = tree[s].size, t[s].current = tree[s].current, t.root.size = tree.root.size,
           NEW size \in Nat,
           t[s].size # Unknown => t[s].current + size <= t[s].size,
           s = "sub" /\ Waits(tree) => address + (t[s].current + size) <= t.root.size,
           NEW f, f = Field(tree[s].gen, "data", t[s].current, size),
           OnAdded(s, AddTo(t, s, f), tree[s].gen)
    PROVE  FedStep(s)
<1> DEFINE r == AddTo(t, s, f)
           g == tree[s].gen
<1>1. HistoryOK /\ TreeOK(tree, piped, edited)
  BY ONLY FieldSetInv DEF FieldSetInv
<1>2. /\ TreeOK(t, piped, edited) /\ t[s].fields = tree[s].fields
      /\ \A o \in Sets \ {s} : t[o] = tree[o]
  BY ONLY Started(s, t) DEF Started
<1>3. /\ SetOK(tree[s], tree.sub.size, piped, edited)
      /\ t[s].current \in Nat /\ g \in Nat
  BY ONLY <1>1, <1>2, s \in Sets, t[s].current = tree[s].current, TreeFacts
<1>4. g < t[s].gen /\ t[s].gen # Done /\ t[s].gen \in Nat
  BY ONLY <1>3, t[s].gen = tree[s].gen + 1 DEF Done
<1>5. /\ f.address = t[s].current /\ f.name = g /\ f.kind = "data" /\ f.size = size
      /\ f \in Fields
  BY ONLY <1>3, size \in Nat, f = Field(tree[s].gen, "data", t[s].current, size)
     DEF Field, Fields, Names
<1> DEFINE end == t[s].current + size
<1>6. end = EndOf(f, t.sub.size)
  BY ONLY <1>5 DEF EndOf
<1>7. \A i \in DOMAIN t[s].fields : t[s].fields[i].name # f.name /\ t[s].fields[i].name # RawName
  BY ONLY <1>2, <1>3, <1>5, tree[s].gen # Done DEF SetOK, NamesOK, NameOK
<1>8. t[s].size # Unknown => end <= t[s].size
  BY ONLY t[s].size # Unknown => t[s].current + size <= t[s].size
<1> HIDE DEF end
<1>9. f.kind = "set" => s = "root" /\ t.sub.size \in Nat /\ ~HasSet(t.root.fields)
  BY ONLY <1>5
<1>10. f.name \in Nat /\ (t[s].gen # Done => f.name < t[s].gen)
  BY ONLY <1>3, <1>4, <1>5
<1>11. ~piped /\ t[s].gen = Done => t[s].size = end
  BY ONLY <1>4
<1>12. /\ TreeOK(r, piped, edited)
       /\ HasSet(r.root.fields) <=> HasSet(t.root.fields) \/ f.kind = "set"
       /\ DOMAIN r = Sets /\ \A o \in Sets \ {s} : r[o] = t[o]
       /\ r[s].fields = Append(t[s].fields, f) /\ r[s].current = end
       /\ r[s].size = t[s].size /\ r[s].gen = t[s].gen
  BY ONLY <1>2, <1>5, <1>6, <1>7, <1>8, <1>9, <1>10, <1>11, s \in Sets, AddToOK
<1> HIDE DEF r
<1>13. HasSet(r.root.fields) <=> HasSet(t.root.fields)
  BY ONLY <1>5, <1>12
<1>14. OnAdded(s, r, g)
  BY ONLY OnAdded(s, AddTo(t, s, f), tree[s].gen) DEF r
<1>15. /\ FeedStep(s, r) /\ IterStep(s, t) /\ tree' = r
       /\ goal[s].want = "all" => goal'[s] = goal[s]
       /\ goal'[s] # Idle => answer' = answer
       /\ goal'[s] = Idle => answer' = "ok"
  <2>1. /\ HistoryOK
        /\ TreeOK(r, piped, edited)
        /\ f \in Fields
        /\ r[s].fields = Append(t[s].fields, f)
        /\ r[s].gen = t[s].gen
        /\ piped \/ t[s].gen # Done
    BY ONLY <1>1, <1>4, <1>5, <1>12
  <2> HIDE DEF g
  <2> QED
    BY ONLY <2>1, <1>14, s \in Sets, OnAddedIs
<1>17. FeedStep(s, t)
  BY ONLY <1>12, <1>13, <1>15 DEF FeedStep
<1>16. s = "sub" /\ goal.sub.want = "all" /\ Waits(tree)
         /\ (goal'.sub # Idle \/ answer' = "error") => Waits(tree')
  <2>1. ASSUME s = "sub", Waits(tree)
        PROVE  Waits(r)
    <3>1. r.sub.size = Unknown /\ r.sub.current = end /\ r.root = t.root
      BY ONLY <1>12, <2>1, t[s].size = tree[s].size, s \in Sets DEF Sets, Waits
    <3>2. address + end <= t.root.size
      BY ONLY <2>1, s = "sub" /\ Waits(tree) => address + (t[s].current + size) <= t.root.size DEF end
    <3> QED
      BY ONLY <2>1, <3>1, <3>2, t.root.size = tree.root.size DEF Waits
  <2> QED
    BY ONLY <1>15, <2>1
<1> QED
  BY ONLY FieldSetInv, s \in Sets, Started(s, t), <1>15, <1>16, <1>17, StepFrom

\* _addField with a field that is not a set.
LEMMA AddDataStep ==
    ASSUME FieldSetInv, NEW s \in Sets, AddData(s)
    PROVE  FedStep(s)
<1> DEFINE g == tree[s].gen
           n == g + 1
           at == tree[s].current
           size == NextItem(s).size
           room == Room(tree, s, address, at + size)
           t == [tree EXCEPT ![s].gen = n]
<1>1. HistoryOK /\ InputsOK /\ GensOK /\ TreeOK(tree, piped, edited) /\ address \in Nat
  BY ONLY FieldSetInv DEF FieldSetInv
<1>2. HasItem(s)
  BY ONLY AddData(s) DEF AddData
<1>3. /\ Len(script[s]) \in Nat /\ g # Done /\ g \in DOMAIN script[s]
      /\ DOMAIN script[s] = 1 .. Len(script[s]) /\ size \in Nat
  BY ONLY <1>1, <1>2, s \in Sets, ScriptFacts
<1>4. at \in Nat
  BY ONLY <1>1, s \in Sets, TreeFacts
<1>5. t = Advanced(s)
  <2>1. DOMAIN tree = Sets /\ DOMAIN tree[s] = {"fields", "size", "current", "gen"}
    BY ONLY <1>1, s \in Sets, TreeFacts
  <2> QED
    BY ONLY <2>1, s \in Sets DEF Advanced
<1>6. IF room # Unknown /\ room < 0
      THEN TooLarge(s, t, size + room)
      ELSE OnAdded(s, AddTo(t, s, Field(g, "data", at, size)), g)
  BY ONLY <1>5, AddData(s) DEF AddData
<1>7. n \in 0 .. (Len(script[s]) + 1) /\ n # Done /\ g <= n /\ g \in Nat
  <2> DEFINE m == Len(script[s])
  <2>1. m \in Nat /\ g \in 1 .. m
    BY ONLY <1>3
  <2> HIDE DEF m, g
  <2>2. n \in 0 .. (m + 1) /\ n # 0 /\ g <= n /\ g \in Nat
    BY ONLY <2>1
  <2> QED
    BY ONLY <2>2 DEF m, Done
<1> HIDE DEF n
<1>8. /\ Started(s, t) /\ t[s].gen = n /\ t[s].size = tree[s].size
      /\ t[s].current = tree[s].current /\ t.root.size = tree.root.size
  BY ONLY FieldSetInv, s \in Sets, <1>3, <1>7, StartedBy
<1> HIDE DEF t
<1>9. at + size \in Nat
  BY ONLY <1>3, <1>4
<1> DEFINE position == at + size
<1>10. position \in Nat
  BY ONLY <1>9
<1> HIDE DEF at, size
<1>11. /\ tree[s].size # Unknown => room = tree[s].size - position /\ room # Unknown
       /\ tree[s].size = Unknown /\ room # Unknown =>
            s = "sub" /\ tree.root.size \in Nat /\ room = tree.root.size - (address + position)
       /\ s = "sub" /\ tree.root.size # Unknown => room # Unknown
  <2>1. room = Room(tree, s, address, position)
    OBVIOUS
  <2> HIDE DEF room, position
  <2> QED
    BY ONLY <1>1, <1>10, <2>1, s \in Sets, RoomIs
<1> HIDE DEF room
<1>12. /\ tree[s].size # Unknown => tree[s].size \in Nat
       /\ tree.root.size # Unknown => tree.root.size \in Nat
  <2>1. "root" \in Sets
    BY DEF Sets
  <2> QED
    BY ONLY <1>1, <2>1, s \in Sets, TreeFacts
<1>13. CASE room # Unknown /\ room < 0
  <2>1. TooLarge(s, t, size + room)
    BY ONLY <1>6, <1>13
  <2>2. t[s].size = Unknown => s = "sub" /\ size + room \in Int
    <3>1. size \in Nat
      BY ONLY <1>3
    <3> QED
      BY ONLY <1>1, <1>8, <1>10, <1>11, <1>13, <3>1
  <2>3. t[s].gen # Done
    BY ONLY <1>7, <1>8
  <2> DEFINE rest == size + room
  <2>4. TooLarge(s, t, rest) /\ (t[s].size = Unknown => s = "sub" /\ rest \in Int)
    BY ONLY <2>1, <2>2
  <2> HIDE DEF rest
  <2> QED
    BY ONLY FieldSetInv, s \in Sets, <1>8, <2>3, <2>4, TooLargeStep
<1>14. CASE ~(room # Unknown /\ room < 0)
  <2> DEFINE f == Field(g, "data", t[s].current, size)
  <2>1. OnAdded(s, AddTo(t, s, f), g)
    BY ONLY <1>6, <1>8, <1>14 DEF at
  <2>2. t[s].size # Unknown => t[s].current + size <= t[s].size
    <3>1. CASE tree[s].size # Unknown
      <4>1. room = tree[s].size - position /\ ~(room < 0) /\ tree[s].size \in Nat
        BY ONLY <1>11, <1>12, <1>14, <3>1
      <4>2. position <= tree[s].size
        BY ONLY <1>10, <4>1
      <4> QED
        BY ONLY <1>8, <4>2 DEF at
    <3> QED
      BY ONLY <1>8, <3>1
  <2>3. s = "sub" /\ Waits(tree) => address + (t[s].current + size) <= t.root.size
    <3>1. ASSUME s = "sub", Waits(tree)
          PROVE  address + position <= tree.root.size
      <4>1. tree[s].size = Unknown /\ tree.root.size # Unknown
        BY ONLY <3>1 DEF Waits
      <4>2. room = tree.root.size - (address + position) /\ ~(room < 0) /\ tree.root.size \in Nat
        BY ONLY <1>11, <1>12, <1>14, <3>1, <4>1
      <4> HIDE DEF position
      <4> QED
        BY ONLY <1>1, <1>10, <4>2
    <3> QED
      BY ONLY <1>8, <3>1 DEF at
  <2>4. t[s].gen = tree[s].gen + 1 /\ tree[s].gen # Done /\ size \in Nat
    BY ONLY <1>3, <1>8 DEF n
  <2> HIDE DEF f
  <2>5. f = Field(tree[s].gen, "data", t[s].current, size) /\ OnAdded(s, AddTo(t, s, f), tree[s].gen)
    BY ONLY <2>1 DEF f
  <2> QED
    BY ONLY FieldSetInv, s \in Sets, <1>8, <2>2, <2>3, <2>4, <2>5, AddedStep
<1> QED
  BY ONLY <1>13, <1>14

\* A step of feeding keeps the invariant.
LEMMA FedKeeps ==
    ASSUME FieldSetInv, NEW s \in Sets, Fed(s), FedStep(s),
           UNCHANGED <<inputs, address, adding, kept, edited>>
    PROVE  FieldSetInv'
<1>1. /\ InputsOK /\ HistoryOK /\ GensOK /\ address \in Nat
      /\ adding \in BOOLEAN /\ kept \in BOOLEAN /\ edited \in BOOLEAN
      /\ TreeOK(tree, piped, edited) /\ AddingOK
  BY ONLY FieldSetInv DEF FieldSetInv
<1>2. /\ script' = script /\ given' = given /\ autofix' = autofix /\ piped' = piped
      /\ address' = address /\ adding' = adding /\ kept' = kept /\ edited' = edited
  BY ONLY UNCHANGED <<inputs, address, adding, kept, edited>> DEF inputs
<1>3. /\ TreeOK(tree', piped, edited)
      /\ goal' \in [Sets -> Goals] /\ answer' \in Answers /\ iter' \in IterT /\ seen' \in Seq(Fields)
      /\ goal'[s] = Idle \/ goal'[s].want = goal[s].want
      /\ s = "sub" /\ goal.sub.want = "all" /\ goal'.sub = Idle /\ answer' # "error" =>
           tree'.sub.size # Unknown
      /\ tree'[s].gen \in 0 .. (Len(script[s]) + 1)
      /\ tree'[s].gen # Done => tree[s].gen # Done /\ tree[s].gen <= tree'[s].gen
  BY ONLY FedStep(s) DEF FedStep, FeedStep
<1> DEFINE g == tree'[s].gen
           r == [tree EXCEPT ![s].gen = g]
<1>4. /\ \A o \in Sets \ {s} : r[o] = tree[o]
      /\ r.root.fields = tree.root.fields
  <2>1. DOMAIN tree = Sets /\ DOMAIN tree[s] = {"fields", "size", "current", "gen"}
    BY ONLY <1>1, s \in Sets, TreeFacts
  <2>2. r[s] = [tree[s] EXCEPT !.gen = g] /\ \A o \in Sets \ {s} : r[o] = tree[o]
    BY ONLY <2>1, s \in Sets
  <2> HIDE DEF g, r
  <2>3. r[s].fields = tree[s].fields
    BY ONLY <2>1, <2>2
  <2> QED
    BY ONLY <2>2, <2>3, s \in Sets DEF Sets
<1>5. /\ HasSet(tree'.root.fields) <=> HasSet(r.root.fields)
      /\ \A o \in Sets \ {s} : tree'[o] = r[o] /\ goal'[o] = goal[o]
  BY ONLY FedStep(s) DEF FedStep, FeedStep
<1> HIDE DEF g, r
<1>6. /\ HasSet(tree'.root.fields) <=> HasSet(tree.root.fields)
      /\ \A o \in Sets \ {s} : tree'[o] = tree[o] /\ goal'[o] = goal[o]
  BY ONLY <1>4, <1>5
<1>7. InputsOK'
  BY ONLY <1>1, <1>2 DEF InputsOK
<1>8. HistoryOK'
  <2>1. \A o \in Sets : goal'[o].want = "next" => o = "root"
    <3>1. \A o \in Sets : goal[o].want = "next" => o = "root"
      BY ONLY <1>1 DEF HistoryOK
    <3> QED
      BY ONLY <1>3, <1>6, <3>1 DEF Idle
  <2> QED
    BY ONLY <1>3, <2>1 DEF HistoryOK
<1>9. GensOK'
  <2>1. \A o \in Sets : tree'[o].gen \in 0 .. (Len(script[o]) + 1)
    <3> SUFFICES ASSUME NEW o \in Sets PROVE tree'[o].gen \in 0 .. (Len(script[o]) + 1)
      OBVIOUS
    <3>1. CASE o = s
      BY ONLY <1>3, <3>1
    <3>2. CASE o # s
      <4>1. tree'[o] = tree[o]
        BY ONLY <1>6, <3>2, o \in Sets
      <4>2. tree[o].gen \in 0 .. (Len(script[o]) + 1)
        BY ONLY <1>1, o \in Sets DEF GensOK
      <4> QED
        BY ONLY <4>1, <4>2
    <3> QED
      BY ONLY <3>1, <3>2
  <2> QED
    BY ONLY <1>2, <2>1 DEF GensOK
<1>10. AddingOK'
  <2>1. ASSUME HasSet(tree'.root.fields) \/ adding
        PROVE  NoSetAhead'
    <3>1. NoSetAhead
      BY ONLY <1>1, <1>6, <2>1 DEF AddingOK
    <3> DEFINE a == tree.root.gen
               b == tree'.root.gen
    <3>2. a \in Nat /\ b \in Nat
      <4>1. "root" \in Sets
        BY DEF Sets
      <4> QED
        BY ONLY <1>1, <1>3, <4>1, TreeFacts
    <3>3. b # Done => a # Done /\ a <= b
      <4>1. CASE s = "root"
        BY ONLY <1>3, <4>1
      <4>2. CASE s = "sub"
        <5>1. tree'.root = tree.root
          BY ONLY <1>6, <4>2 DEF Sets
        <5> QED
          BY ONLY <3>2, <5>1
      <4> QED
        BY ONLY <4>1, <4>2, s \in Sets DEF Sets
    <3>4. DOMAIN script.root \subseteq Nat
      <4>1. "root" \in Sets
        BY DEF Sets
      <4>2. DOMAIN script.root = 1 .. Len(script.root)
        BY ONLY <1>1, <4>1, ScriptFacts
      <4> QED
        BY ONLY <4>2
    <3>5. \A i \in DOMAIN script.root : script.root[i].kind = "set" => a = Done \/ i < a
      BY ONLY <3>1 DEF NoSetAhead
    <3> HIDE DEF a, b
    <3>6. \A i \in DOMAIN script.root : script.root[i].kind = "set" => b = Done \/ i < b
      BY ONLY <3>2, <3>3, <3>4, <3>5
    <3> QED
      BY ONLY <1>2, <3>6 DEF NoSetAhead, b
  <2>2. ASSUME adding
        PROVE  Waiting'
    <3>1. Waiting
      BY ONLY <1>1, <2>2 DEF AddingOK
    <3>2. s = "sub" /\ goal.sub # Idle
      BY ONLY <2>2, Fed(s), s \in Sets DEF Fed, Sets
    <3>3. tree'.root = tree.root /\ goal'.root = goal.root
      BY ONLY <1>6, <3>2 DEF Sets
    <3>4. SetName' = SetName
      BY ONLY <1>2 DEF SetName
    <3>5. Has(tree', "root", SetName) <=> Has(tree, "root", SetName)
      BY ONLY <3>3 DEF Has
    <3>6. goal.sub.want = "all"
      BY ONLY <3>1, <3>2 DEF Waiting
    <3>7. /\ goal'.sub # Idle => goal'.sub.want = "all"
          /\ goal'.sub = Idle /\ answer' # "error" => tree'.sub.size # Unknown
      BY ONLY <1>3, <3>2, <3>6
    <3> QED
      BY ONLY <1>2, <3>1, <3>3, <3>4, <3>5, <3>7 DEF Waiting
  <2> QED
    BY ONLY <1>2, <2>1, <2>2 DEF AddingOK
<1>11. TreeOK(tree, piped, edited)'
  BY ONLY <1>2, <1>3
<1> QED
  BY ONLY <1>1, <1>2, <1>7, <1>8, <1>9, <1>10, <1>11 DEF FieldSetInv

\* The tree in which a field of the parser was replaced.
Written(t, i, offset, size) ==
    [t EXCEPT !.root.fields = Rewritten(t.root.fields, i, offset, size)]

\* writeFieldsIn: the parts take the place of the field, and the set in
\* the parser is as it was.
LEMMA WriteTreeOK ==
    ASSUME NEW t, NEW p, TreeOK(t, p, FALSE),
           NEW i \in DOMAIN t.root.fields, t.root.fields[i].kind = "data",
           NEW offset \in Nat, NEW size \in Nat, offset + size <= t.root.fields[i].size
    PROVE  LET r == Written(t, i, offset, size)
           IN /\ TreeOK(r, p, TRUE) /\ r.sub = t.sub
              /\ r.root.gen = t.root.gen
              /\ HasSet(r.root.fields) => HasSet(t.root.fields)
<1> DEFINE fs == Rewritten(t.root.fields, i, offset, size)
           u == t.root
           z == t.sub.size
           r == Written(t, i, offset, size)
<1>1. "root" \in Sets /\ "sub" \in Sets /\ "root" # "sub" /\ Sets = {"root", "sub"}
  BY DEF Sets
<1>2. /\ DOMAIN t = Sets /\ t["root"] \in SetT
      /\ DOMAIN t["root"] = {"fields", "size", "current", "gen"}
      /\ SetOK(t["root"], t.sub.size, p, FALSE) /\ SetOK(t["sub"], t.sub.size, p, FALSE)
      /\ ~HasSet(t.sub.fields) /\ OneSet(t.root.fields)
      /\ ~p => t.root.size = StreamSize
  BY ONLY TreeOK(t, p, FALSE), <1>1, TreeFacts DEF TreeOK
<1>3. /\ DOMAIN r = Sets /\ r.sub = t.sub /\ r.root = [t.root EXCEPT !.fields = fs]
  BY ONLY <1>1, <1>2 DEF Written
<1> HIDE DEF fs, r
<1>4. /\ r.root.fields = fs /\ r.root.size = u.size /\ r.root.current = u.current /\ r.root.gen = u.gen
      /\ r.root = [fields |-> fs, size |-> u.size, current |-> u.current, gen |-> u.gen]
  BY ONLY <1>2, <1>3 DEF SetT
<1>5. fs \in Seq(Fields)
  <2>1. u.fields \in Seq(Fields) /\ Len(u.fields) \in Nat /\ DOMAIN u.fields = 1 .. Len(u.fields)
        /\ u.fields[i] \in Fields
    BY ONLY <1>2, SetFacts, i \in DOMAIN t.root.fields
  <2> DEFINE n == Len(u.fields)
  <2>2. i \in 1 .. n /\ n \in Nat
    BY ONLY <2>1, i \in DOMAIN t.root.fields
  <2>3. Pieces(u.fields[i], offset, size) \in Seq(Fields)
    <3> DEFINE old == u.fields[i]
    <3>1. old \in Fields /\ old.kind = "data" /\ offset + size <= old.size
      BY ONLY <2>1, t.root.fields[i].kind = "data", offset + size <= t.root.fields[i].size
    <3> HIDE DEF old
    <3>2. Pieces(old, offset, size) \in Seq(Fields)
      BY ONLY <3>1, offset \in Nat, size \in Nat, PiecesFacts
    <3> QED
      BY ONLY <3>2 DEF old
  <2>4. SubSeq(u.fields, 1, i - 1) \in Seq(Fields) /\ SubSeq(u.fields, i + 1, n) \in Seq(Fields)
    <3> HIDE DEF n
    <3>1. \A j \in 1 .. (i - 1) : j \in 1 .. n
      BY ONLY <2>2
    <3>2. \A j \in (i + 1) .. n : j \in 1 .. n
      BY ONLY <2>2
    <3>3. 1 \in Int /\ i - 1 \in Int /\ i + 1 \in Int /\ n \in Int
      BY ONLY <2>2
    <3>4. \A j \in 1 .. n : u.fields[j] \in Fields
      BY ONLY <2>1, ElementOfSeq DEF n
    <3>5. \A j \in 1 .. (i - 1) : u.fields[j] \in Fields
      BY ONLY <3>1, <3>4
    <3>6. \A j \in (i + 1) .. n : u.fields[j] \in Fields
      BY ONLY <3>2, <3>4
    <3> QED
      BY ONLY <2>1, <3>3, <3>5, <3>6, SubSeqProperties
  <2> QED
    BY ONLY <2>1, <2>3, <2>4, ConcatProperties DEF fs, Rewritten
<1>6. r.root \in SetT
  <2>1. u.size \in OptSize /\ u.current \in Nat /\ u.gen \in Nat
    BY ONLY <1>2 DEF SetT
  <2> QED
    BY ONLY <1>4, <1>5, <2>1 DEF SetT
<1>7. SetOK(r.root, z, p, TRUE) /\ OneSet(r.root.fields) /\ (HasSet(r.root.fields) => HasSet(u.fields))
  <2> DEFINE v == r.root
  <2>1. v \in SetT /\ v.size = u.size /\ v.current = u.current /\ v.gen = u.gen
        /\ v.fields = Rewritten(u.fields, i, offset, size)
    BY ONLY <1>4, <1>6 DEF fs
  <2>2. SetOK(u, z, p, FALSE) /\ OneSet(u.fields) /\ i \in DOMAIN u.fields /\ u.fields[i].kind = "data"
        /\ offset + size <= u.fields[i].size
    BY ONLY <1>2, i \in DOMAIN t.root.fields, t.root.fields[i].kind = "data",
       offset + size <= t.root.fields[i].size
  <2> HIDE DEF v, u, z
  <2>3. SetOK(v, z, p, TRUE) /\ OneSet(v.fields) /\ (HasSet(v.fields) => HasSet(u.fields))
    BY ONLY <2>1, <2>2, offset \in Nat, size \in Nat, RewrittenOK
  <2> QED
    BY ONLY <2>3 DEF v
<1>8. SetOK(r.sub, z, p, TRUE)
  <2>1. SetOK(t.sub, z, p, FALSE)
    BY ONLY <1>2
  <2>2. NamesOK(t.sub, FALSE) => NamesOK(t.sub, TRUE)
    BY ONLY DEF NamesOK, NameOK
  <2>3. SetOK(t.sub, z, p, TRUE)
    BY ONLY <2>1, <2>2 DEF SetOK
  <2> QED
    BY ONLY <1>3, <2>3
<1>9. TreeOK(r, p, TRUE)
  <2>1. \A s \in Sets : SetOK(r[s], r.sub.size, p, TRUE)
    BY ONLY <1>1, <1>3, <1>7, <1>8
  <2> QED
    BY ONLY <1>2, <1>3, <1>4, <1>7, <2>1 DEF TreeOK
<1> QED
  BY ONLY <1>3, <1>4, <1>7, <1>9 DEF r

\* WriteFieldsIn replaces a field by its pieces and changes nothing else.
LEMMA WriteIs ==
    ASSUME NEW i, NEW offset, NEW size, WriteFieldsIn(i, offset, size)
    PROVE  /\ AtRest /\ ~edited /\ edited' = TRUE
           /\ tree.root.fields[i].kind = "data" /\ offset + size <= tree.root.fields[i].size
           /\ tree' = Written(tree, i, offset, size)
           /\ UNCHANGED <<inputs, address, goal, adding, answer, iter, seen, kept>>
<1> DEFINE old == tree.root.fields[i]
           Part(name, from, to) == IF from < to
               THEN <<Field(name, "data", old.address + from, to - from)>> ELSE <<>>
           parts == Part(PadName, 0, offset) \o Part(NewName, offset, offset + size)
                      \o Part(PadAfter, offset + size, old.size)
<1>1. /\ AtRest /\ ~edited /\ edited' = TRUE
      /\ old.kind = "data" /\ offset + size <= old.size
      /\ tree' = [tree EXCEPT !.root.fields =
                    SubSeq(tree.root.fields, 1, i - 1) \o parts
                      \o SubSeq(tree.root.fields, i + 1, Len(tree.root.fields))]
      /\ UNCHANGED <<inputs, address, goal, adding, answer, iter, seen, kept>>
  BY ONLY WriteFieldsIn(i, offset, size) DEF WriteFieldsIn
<1>2. parts = Pieces(old, offset, size)
  BY ONLY DEF Pieces, Piece
<1> QED
  BY ONLY <1>1, <1>2 DEF Rewritten, Written

\* While no call is under way and the tree is as it was, nothing that is
\* said of a set that is added can be disturbed.
LEMMA RestKeeps ==
    ASSUME FieldSetInv, ~adding, HistoryOK', UNCHANGED <<inputs, tree, address, adding, kept, edited>>
    PROVE  FieldSetInv'
<1>1. /\ InputsOK /\ GensOK /\ address \in Nat
      /\ adding \in BOOLEAN /\ kept \in BOOLEAN /\ edited \in BOOLEAN
      /\ TreeOK(tree, piped, edited) /\ AddingOK
  BY ONLY FieldSetInv DEF FieldSetInv
<1>2. /\ script' = script /\ given' = given /\ autofix' = autofix /\ piped' = piped /\ tree' = tree
      /\ address' = address /\ adding' = adding /\ kept' = kept /\ edited' = edited
  BY ONLY UNCHANGED <<inputs, tree, address, adding, kept, edited>> DEF inputs
<1>3. InputsOK' /\ GensOK'
  BY ONLY <1>1, <1>2 DEF InputsOK, GensOK
<1>4. AddingOK'
  <2>1. HasSet(tree.root.fields) => NoSetAhead'
    BY ONLY <1>1, <1>2 DEF AddingOK, NoSetAhead
  <2> QED
    BY ONLY <1>2, <2>1, ~adding DEF AddingOK
<1>5. TreeOK(tree, piped, edited)'
  BY ONLY <1>1, <1>2
<1> QED
  BY ONLY <1>1, <1>2, <1>3, <1>4, <1>5, HistoryOK' DEF FieldSetInv

\* A call begins (_feedAll, readMoreFields, _feedUntil) and changes no
\* field.
LEMMA CallKeeps ==
    ASSUME FieldSetInv, NEW s \in Sets, NEW g \in Requests(s), Call(s, g)
    PROVE  FieldSetInv'
<1>1. /\ InputsOK /\ HistoryOK /\ GensOK
  BY ONLY FieldSetInv DEF FieldSetInv
<1>2. /\ ~adding /\ goal' = [goal EXCEPT ![s] = g]
      /\ UNCHANGED <<inputs, tree, address, adding, answer, iter, seen, kept, edited>>
  BY ONLY Call(s, g) DEF Call, AtRest
<1>3. Len(script[s]) \in Nat
  BY ONLY <1>1, s \in Sets, ScriptFacts
<1>4. g \in Goals /\ g.want # "next"
  <2>1. CASE g = [want |-> "all", n |-> 0]
    BY ONLY <2>1 DEF Goals
  <2>2. CASE g \in [want : {"count"}, n : 1 .. 2]
    <3>1. g = [want |-> "count", n |-> g.n] /\ g.n \in 1 .. 2 /\ g.want = "count"
      BY ONLY <2>2
    <3>2. g.n \in Nat
      BY ONLY <3>1
    <3> QED
      BY ONLY <3>1, <3>2 DEF Goals
  <2>3. CASE g \in [want : {"item"}, n : 1 .. (Len(script[s]) + 1)]
    <3>1. g = [want |-> "item", n |-> g.n] /\ g.n \in 1 .. (Len(script[s]) + 1) /\ g.want = "item"
      BY ONLY <2>3
    <3>2. g.n \in Nat
      BY ONLY <1>3, <3>1
    <3> QED
      BY ONLY <3>1, <3>2 DEF Goals
  <2> QED
    BY ONLY <2>1, <2>2, <2>3, g \in Requests(s) DEF Requests
<1>5. HistoryOK'
  BY ONLY <1>1, <1>2, <1>4, s \in Sets DEF HistoryOK
<1> QED
  BY ONLY FieldSetInv, <1>2, <1>5, RestKeeps

\* A field that is yielded is one of the fields that were taken.
LEMMA YieldTypes ==
    ASSUME iter \in IterT, seen \in Seq(Fields), NEW fs \in Seq(Fields), fs # <<>>, Yield(fs)
    PROVE  iter' \in IterT /\ seen' \in Seq(Fields) /\ goal' = goal
<1>1. /\ seen' = Append(seen, Head(fs)) /\ goal' = goal
      /\ iter' = [state |-> "at", done |-> iter.done + 1, snap |-> Tail(fs)]
  BY ONLY Yield(fs) DEF Yield
<1>2. Head(fs) \in Fields /\ Tail(fs) \in Seq(Fields)
  BY ONLY fs \in Seq(Fields), fs # <<>>, HeadTailProperties
<1>3. iter.done + 1 \in Nat
  <2>1. iter.done \in Nat
    BY ONLY iter \in IterT DEF IterT
  <2> QED
    BY ONLY <2>1
<1>4. iter' \in IterT
  BY ONLY <1>1, <1>2, <1>3 DEF IterT, Iterations
<1>5. seen' \in Seq(Fields)
  BY ONLY <1>1, <1>2, seen \in Seq(Fields), AppendProperties
<1> QED
  BY ONLY <1>1, <1>4, <1>5

\* The next step of an iteration changes no field of the parser.
LEMMA IterNextKeeps ==
    ASSUME FieldSetInv, IterNext
    PROVE  FieldSetInv'
<1>1. HistoryOK /\ TreeOK(tree, piped, edited)
  BY ONLY FieldSetInv DEF FieldSetInv
<1>2. /\ goal \in [Sets -> Goals] /\ answer \in Answers /\ iter \in IterT /\ seen \in Seq(Fields)
      /\ \A s \in Sets : goal[s].want = "next" => s = "root"
  BY ONLY <1>1 DEF HistoryOK
<1> DEFINE fs == tree.root.fields
           total == Len(fs)
<1>3. fs \in Seq(Fields) /\ total \in Nat /\ iter.snap \in Seq(Fields) /\ iter.done \in Nat
  <2>1. "root" \in Sets
    BY DEF Sets
  <2>2. fs \in Seq(Fields)
    BY ONLY <1>1, <2>1, TreeFacts
  <2> QED
    BY ONLY <1>2, <2>2, LenProperties DEF IterT
<1>4. /\ ~adding /\ UNCHANGED <<inputs, tree, address, adding, answer, kept, edited>>
      /\ \/ iter.snap # <<>> /\ Yield(iter.snap)
         \/ /\ iter.snap = <<>> /\ iter.done < total
            /\ Yield(SubSeq(fs, iter.done + 1, total))
         \/ /\ goal' = [goal EXCEPT !.root = [want |-> "next", n |-> 0]]
            /\ iter' = [iter EXCEPT !.state = "feeding"] /\ UNCHANGED seen
         \/ /\ iter' = [iter EXCEPT !.state = IF iter.done > total THEN "spinning" ELSE "ended"]
            /\ UNCHANGED <<goal, seen>>
  BY ONLY IterNext DEF IterNext
<1>5. ASSUME NEW state \in Iterations
      PROVE  [iter EXCEPT !.state = state] \in IterT
  BY ONLY <1>2, state \in Iterations DEF IterT
<1>6. ASSUME goal' = goal, iter' \in IterT, seen' \in Seq(Fields)
      PROVE  FieldSetInv'
  <2>1. HistoryOK'
    BY ONLY <1>2, <1>4, <1>6 DEF HistoryOK
  <2> QED
    BY ONLY FieldSetInv, <1>4, <2>1, RestKeeps
<1>7. CASE iter.snap # <<>> /\ Yield(iter.snap)
  BY ONLY <1>2, <1>3, <1>6, <1>7, YieldTypes
<1>8. CASE iter.done < total /\ Yield(SubSeq(fs, iter.done + 1, total))
  <2> DEFINE gs == SubSeq(fs, iter.done + 1, total)
             d == iter.done
  <2>1. gs \in Seq(Fields) /\ Len(gs) = total - d
    <3>1. \A j \in 1 .. total : fs[j] \in Fields
      BY ONLY <1>3, ElementOfSeq
    <3>2. d + 1 \in Int /\ total \in Int /\ d + 1 <= total + 1 /\ (\A j \in (d + 1) .. total : j \in 1 .. total)
          /\ total - (d + 1) + 1 = total - d /\ d + 1 <= total
      <4> HIDE DEF total, d
      <4>1. d < total /\ d \in Nat /\ total \in Nat
        BY ONLY <1>3, <1>8 DEF d
      <4> QED
        BY ONLY <4>1
    <3>3. \A j \in (d + 1) .. total : fs[j] \in Fields
      BY ONLY <3>1, <3>2
    <3> QED
      BY ONLY <1>3, <3>2, <3>3, SubSeqProperties
  <2>2. gs # <<>>
    <3>1. total - d # 0
      <4> HIDE DEF total
      <4> QED
        BY ONLY <1>3, <1>8
    <3>2. Len(<<>>) = 0
      OBVIOUS
    <3> QED
      BY ONLY <2>1, <3>1, <3>2
  <2>3. Yield(gs)
    BY ONLY <1>8
  <2> HIDE DEF gs
  <2> QED
    BY ONLY <1>2, <1>6, <2>1, <2>2, <2>3, YieldTypes
<1>9. CASE /\ goal' = [goal EXCEPT !.root = [want |-> "next", n |-> 0]]
           /\ iter' = [iter EXCEPT !.state = "feeding"] /\ UNCHANGED seen
  <2>1. [want |-> "next", n |-> 0] \in Goals
    BY DEF Goals
  <2>2. iter' \in IterT
    BY ONLY <1>5, <1>9 DEF Iterations
  <2>3. goal' \in [Sets -> Goals] /\ \A s \in Sets : s # "root" => goal'[s] = goal[s]
    BY ONLY <1>2, <1>9, <2>1 DEF Sets
  <2>4. HistoryOK'
    BY ONLY <1>2, <1>4, <1>9, <2>2, <2>3 DEF HistoryOK
  <2> QED
    BY ONLY FieldSetInv, <1>4, <2>4, RestKeeps
<1>10. CASE /\ iter' = [iter EXCEPT !.state = IF iter.done > total THEN "spinning" ELSE "ended"]
            /\ UNCHANGED <<goal, seen>>
  <2>1. (IF iter.done > total THEN "spinning" ELSE "ended") \in Iterations
    BY DEF Iterations
  <2>2. iter' \in IterT
    BY ONLY <1>5, <1>10, <2>1
  <2> QED
    BY ONLY <1>2, <1>6, <1>10, <2>2
<1> QED
  BY ONLY <1>4, <1>7, <1>8, <1>9, <1>10

\* A replacement while no call is under way.
LEMMA WriteKeeps ==
    ASSUME FieldSetInv, NEW i \in DOMAIN tree.root.fields, NEW offset \in Nat, NEW size \in Nat,
           WriteFieldsIn(i, offset, size)
    PROVE  FieldSetInv'
<1>1. /\ InputsOK /\ HistoryOK /\ GensOK /\ address \in Nat
      /\ adding \in BOOLEAN /\ kept \in BOOLEAN /\ edited \in BOOLEAN
      /\ TreeOK(tree, piped, edited) /\ AddingOK
  BY ONLY FieldSetInv DEF FieldSetInv
<1>2. /\ AtRest /\ ~edited /\ edited' = TRUE
      /\ tree.root.fields[i].kind = "data" /\ offset + size <= tree.root.fields[i].size
      /\ tree' = Written(tree, i, offset, size)
      /\ UNCHANGED <<inputs, address, goal, adding, answer, iter, seen, kept>>
  BY ONLY WriteFieldsIn(i, offset, size), WriteIs
<1>12. ~adding
  BY ONLY <1>2 DEF AtRest
<1>3. edited = FALSE /\ TreeOK(tree, piped, FALSE)
  BY ONLY <1>1, <1>2
<1> DEFINE r == Written(tree, i, offset, size)
<1>4. tree' = r
  BY ONLY <1>2
<1>5. /\ TreeOK(r, piped, TRUE) /\ r.sub = tree.sub
      /\ r.root.gen = tree.root.gen
      /\ HasSet(r.root.fields) => HasSet(tree.root.fields)
  <2>1. tree.root.fields[i].kind = "data" /\ offset + size <= tree.root.fields[i].size
    BY ONLY <1>2
  <2>2. TreeOK(tree, piped, FALSE)
    BY ONLY <1>3
  <2> QED
    BY ONLY <2>1, <2>2, i \in DOMAIN tree.root.fields, offset \in Nat, size \in Nat, WriteTreeOK
<1> HIDE DEF r
<1>6. InputsOK' /\ HistoryOK'
  BY ONLY <1>1, <1>2 DEF InputsOK, HistoryOK, inputs
<1>7. \A s \in Sets : tree'[s].gen = tree[s].gen
  BY ONLY <1>4, <1>5 DEF Sets
<1>8. script' = script
  BY ONLY <1>2 DEF inputs
<1>9. GensOK'
  BY ONLY <1>1, <1>7, <1>8 DEF GensOK
<1>10. AddingOK'
  <2>1. HasSet(tree'.root.fields) => NoSetAhead'
    BY ONLY <1>1, <1>4, <1>5, <1>8 DEF AddingOK, NoSetAhead
  <2> QED
    BY ONLY <1>12, <1>2, <2>1 DEF AddingOK
<1>11. TreeOK(tree, piped, edited)'
  BY ONLY <1>2, <1>4, <1>5 DEF inputs
<1> QED
  BY ONLY <1>1, <1>2, <1>6, <1>9, <1>10, <1>11 DEF FieldSetInv

-----------------------------------------------------------------------------
\* 7. A set is opened and added (_addField with a set), and the invariant.

\* A set that is about to be added is the only one of the parser.
LEMMA TheSet ==
    ASSUME FieldSetInv, HasItem("root"), NextItem("root").kind = "set"
    PROVE  /\ SetName = tree.root.gen /\ SetName \in DOMAIN script.root
           /\ script.root[SetName].kind = "set"
           /\ ~HasSet(tree.root.fields) /\ ~Has(tree, "root", SetName)
           /\ \A i \in DOMAIN script.root : script.root[i].kind = "set" => i = SetName
<1>1. /\ InputsOK /\ GensOK /\ TreeOK(tree, piped, edited) /\ AddingOK
  BY ONLY FieldSetInv DEF FieldSetInv
<1>2. "root" \in Sets
  BY DEF Sets
<1> DEFINE g == tree.root.gen
<1>3. g \in Nat /\ g # Done /\ g \in DOMAIN script.root
  BY ONLY <1>1, <1>2, HasItem("root"), ScriptFacts
<1>4. script.root[g].kind = "set"
  BY ONLY NextItem("root").kind = "set" DEF NextItem
<1>5. script.root \in RootScripts
  BY ONLY <1>1 DEF InputsOK
<1>6. \A i, j \in DOMAIN script.root :
         script.root[i].kind = "set" /\ script.root[j].kind = "set" => i = j
  BY ONLY <1>5, FieldSetAssumption DEF FieldSetAssumption
<1>7. SetName \in DOMAIN script.root /\ script.root[SetName].kind = "set"
  BY ONLY <1>3, <1>4 DEF SetName
<1>8. SetName = g
  BY ONLY <1>3, <1>4, <1>6, <1>7
<1>9. ~HasSet(tree.root.fields)
  <2>1. HasSet(tree.root.fields) => NoSetAhead
    BY ONLY <1>1 DEF AddingOK
  <2>2. NoSetAhead => g = Done \/ g < g
    BY ONLY <1>3, <1>4 DEF NoSetAhead
  <2>3. ~ (g < g)
    BY ONLY <1>3
  <2> QED
    BY ONLY <1>3, <2>1, <2>2, <2>3
<1>10. ~Has(tree, "root", g)
  <2>1. SetOK(tree["root"], tree.sub.size, piped, edited)
    BY ONLY <1>1, <1>2, TreeFacts
  <2>2. \A i \in DOMAIN tree.root.fields : NameOK(tree.root.fields[i].name, tree.root, edited)
    BY ONLY <2>1 DEF SetOK, NamesOK
  <2>3. ~NameOK(g, tree.root, edited)
    BY ONLY <1>3 DEF NameOK
  <2> QED
    BY ONLY <2>2, <2>3 DEF Has
<1> QED
  BY ONLY <1>6, <1>7, <1>8, <1>9, <1>10

\* A new set is empty.
LEMMA EmptyOK ==
    ASSUME NEW size \in OptSize, NEW z, NEW p, NEW e
    PROVE  /\ SetOK(Empty(size), z, p, e) /\ ~HasSet(Empty(size).fields) /\ OneSet(Empty(size).fields)
           /\ Empty(size).size = size /\ Empty(size).gen = 1 /\ Empty(size).current = 0
           /\ Empty(size).fields = <<>> /\ Empty(size) \in SetT
<1> DEFINE u == Empty(size)
<1>1. u = [fields |-> <<>>, size |-> size, current |-> 0, gen |-> 1]
  BY ONLY DEF Empty
<1>2. <<>> \in Seq(Fields) /\ DOMAIN <<>> = {}
  OBVIOUS
<1>3. u.fields = <<>> /\ u.size = size /\ u.current = 0 /\ u.gen = 1
  BY ONLY <1>1
<1>4. u \in SetT
  BY ONLY <1>1, <1>2, size \in OptSize DEF SetT
<1> HIDE DEF u
<1>5. ~HasSet(u.fields) /\ OneSet(u.fields) /\ Unlike(u.fields) /\ NamesOK(u, e)
  BY ONLY <1>2, <1>3 DEF HasSet, OneSet, Unlike, NamesOK
<1>6. Chain(u.fields, z, 0, u.current)
  <2>1. 0 \in Nat
    OBVIOUS
  <2> QED
    BY ONLY <1>3, <2>1, ChainOfNone
<1>7. SizesOK(u, p)
  <2>1. size # Unknown => size \in Nat
    BY ONLY size \in OptSize DEF OptSize
  <2> QED
    BY ONLY <1>3, <2>1 DEF SizesOK, Done
<1>8. SetOK(u, z, p, e)
  BY ONLY <1>4, <1>5, <1>6, <1>7 DEF SetOK
<1> QED
  BY ONLY <1>3, <1>4, <1>5, <1>8 DEF u

\* A set that has no fields yet takes the place of the one before it.
LEMMA OpenTreeOK ==
    ASSUME NEW t, NEW p, NEW e, TreeOK(t, p, e), ~HasSet(t.root.fields), NEW size \in OptSize
    PROVE  LET r == [t EXCEPT !.sub = Empty(size)]
           IN TreeOK(r, p, e) /\ r.root = t.root /\ r.sub = Empty(size)
<1> DEFINE r == [t EXCEPT !.sub = Empty(size)]
<1>1. "root" \in Sets /\ "sub" \in Sets /\ "root" # "sub" /\ Sets = {"root", "sub"}
  BY DEF Sets
<1>2. DOMAIN t = Sets
  BY ONLY TreeOK(t, p, e), <1>1, TreeFacts
<1>3. /\ DOMAIN r = Sets /\ r.root = t.root /\ r.sub = Empty(size)
      /\ \A o \in Sets \ {"sub"} : r[o] = t[o]
  BY ONLY <1>1, <1>2
<1> HIDE DEF r
<1> DEFINE s == "sub"
<1>4. /\ SetOK(r[s], r.sub.size, p, e) /\ ~HasSet(r.sub.fields)
  BY ONLY <1>3, size \in OptSize, EmptyOK
<1>5. /\ \A o \in Sets \ {s} : r[o] = t[o]
      /\ s \in Sets /\ s # "root"
  BY ONLY <1>1, <1>3
<1> HIDE DEF s
<1>6. TreeOK(r, p, e)
  BY ONLY TreeOK(t, p, e), <1>3, <1>4, <1>5, ~HasSet(t.root.fields), TreeWith
<1> QED
  BY ONLY <1>3, <1>6 DEF r

\* The parser opens a set, which is fed at once if its size is not known.
LEMMA OpenSetKeeps ==
    ASSUME FieldSetInv, OpenSet
    PROVE  FieldSetInv'
<1>1. /\ InputsOK /\ HistoryOK /\ GensOK /\ address \in Nat
      /\ adding \in BOOLEAN /\ kept \in BOOLEAN /\ edited \in BOOLEAN
      /\ TreeOK(tree, piped, edited) /\ AddingOK
  BY ONLY FieldSetInv DEF FieldSetInv
<1>2. "root" \in Sets /\ "sub" \in Sets /\ "root" # "sub" /\ Sets = {"root", "sub"}
  BY DEF Sets
<1> DEFINE t == Advanced("root")
           r == [t EXCEPT !.sub = Empty(given)]
           all == [want |-> "all", n |-> 0]
           n == tree.root.gen + 1
           sub == IF given = Unknown THEN all ELSE Idle
<1>3. /\ Fed("root") /\ HasItem("root") /\ NextItem("root").kind = "set"
      /\ tree' = r /\ address' = tree.root.current /\ adding' = TRUE
      /\ goal' = [goal EXCEPT !.sub = sub]
      /\ answer' = "ok"
      /\ UNCHANGED <<inputs, iter, seen, kept, edited>>
  BY ONLY OpenSet DEF OpenSet
<1>4. /\ SetName = tree.root.gen /\ SetName \in DOMAIN script.root
      /\ script.root[SetName].kind = "set"
      /\ ~HasSet(tree.root.fields) /\ ~Has(tree, "root", SetName)
      /\ \A i \in DOMAIN script.root : script.root[i].kind = "set" => i = SetName
  BY ONLY FieldSetInv, <1>3, TheSet
<1>5. /\ Len(script["root"]) \in Nat /\ DOMAIN script["root"] = 1 .. Len(script["root"])
      /\ tree["root"].gen # Done /\ tree["root"].gen \in DOMAIN script["root"]
  BY ONLY <1>1, <1>2, <1>3, ScriptFacts
<1> DEFINE m == Len(script["root"])
           g == tree["root"].gen
<1>6. n \in Nat /\ n # Done /\ g <= n /\ n \in 0 .. (m + 1) /\ g < n
  <2>1. m \in Nat /\ g \in 1 .. m /\ n = g + 1
    BY ONLY <1>5
  <2> HIDE DEF m, g, n
  <2> QED
    BY ONLY <2>1 DEF Done
<1>7. given \in OptSize
  BY ONLY <1>1, FieldSetAssumption DEF InputsOK, FieldSetAssumption, OptSize
<1>8. t = [tree EXCEPT !["root"].gen = n]
  BY ONLY DEF Advanced
<1>9. /\ TreeOK(t, piped, edited) /\ t["root"].fields = tree["root"].fields
      /\ t["root"].current = tree["root"].current /\ t["root"].gen = n
  <2> DEFINE s == "root"
             x == [tree EXCEPT ![s].gen = n]
  <2>1. s \in Sets /\ tree[s].gen # Done /\ tree[s].gen <= n /\ n \in Nat /\ n # Done
    BY ONLY <1>2, <1>5, <1>6
  <2>2. t = x
    BY ONLY <1>8
  <2> HIDE DEF n, s, t
  <2>3. /\ TreeOK(x, piped, edited) /\ x[s].fields = tree[s].fields
        /\ x[s].current = tree[s].current /\ x[s].gen = n
    BY ONLY <1>1, <2>1, AdvancedOK
  <2> QED
    BY ONLY <2>2, <2>3 DEF s
<1> HIDE DEF t
<1>10. TreeOK(r, piped, edited) /\ r.root = t.root /\ r.sub = Empty(given)
  <2>1. ~HasSet(t.root.fields)
    BY ONLY <1>4, <1>9
  <2> QED
    BY ONLY <1>7, <1>9, <2>1, OpenTreeOK
<1> HIDE DEF r, n
<1>11. /\ script' = script /\ given' = given /\ autofix' = autofix /\ piped' = piped
       /\ iter' = iter /\ seen' = seen /\ kept' = kept /\ edited' = edited
  BY ONLY <1>3 DEF inputs
<1>12. InputsOK'
  BY ONLY <1>1, <1>11 DEF InputsOK
<1>13. sub \in Goals /\ sub.want # "next" /\ (sub # Idle => sub.want = "all") /\ all # Idle
  <2>1. all \in Goals /\ Idle \in Goals /\ all.want = "all" /\ Idle.want = "nothing" /\ all # Idle
    BY ONLY DEF Goals, Idle
  <2> QED
    BY ONLY <2>1
<1> HIDE DEF sub, all
<1>14. goal \in [Sets -> Goals] /\ iter \in IterT /\ seen \in Seq(Fields)
       /\ \A s \in Sets : goal[s].want = "next" => s = "root"
  BY ONLY <1>1 DEF HistoryOK
<1>15. goal' \in [Sets -> Goals] /\ goal'.root = goal.root /\ goal'.sub = sub
  BY ONLY <1>2, <1>3, <1>13, <1>14
<1>16. HistoryOK'
  <2>1. \A s \in Sets : goal'[s].want = "next" => s = "root"
    BY ONLY <1>2, <1>13, <1>15
  <2>2. answer' \in Answers
    BY ONLY <1>3 DEF Answers
  <2> QED
    BY ONLY <1>11, <1>14, <1>15, <2>1, <2>2 DEF HistoryOK
<1>17. tree'.root.gen = n /\ tree'.sub.gen = 1 /\ tree'.root.fields = tree.root.fields
       /\ tree'.root.current = tree.root.current /\ tree'.sub.size = given
  BY ONLY <1>3, <1>7, <1>9, <1>10, EmptyOK
<1>18. GensOK'
  <2>1. Len(script.sub) \in Nat
    BY ONLY <1>1, <1>2, ScriptFacts
  <2>2. 1 \in 0 .. (Len(script.sub) + 1)
    BY ONLY <2>1
  <2>3. \A s \in Sets : tree'[s].gen \in 0 .. (Len(script[s]) + 1)
    BY ONLY <1>2, <1>6, <1>17, <2>2
  <2> QED
    BY ONLY <1>11, <2>3 DEF GensOK
<1>19. AddingOK'
  <2>1. \A i \in DOMAIN script.root : script.root[i].kind = "set" => n = Done \/ i < n
    BY ONLY <1>4, <1>6
  <2>2. NoSetAhead'
    BY ONLY <1>11, <1>17, <2>1 DEF NoSetAhead
  <2>3. SetName' = SetName
    BY ONLY <1>11 DEF SetName
  <2>4. ~Has(tree', "root", SetName)
    BY ONLY <1>4, <1>17 DEF Has
  <2>5. goal'.root # Idle
    BY ONLY <1>3, <1>15 DEF Fed
  <2>6. goal'.sub = Idle => tree'.sub.size # Unknown
    BY ONLY <1>13, <1>15, <1>17 DEF sub
  <2>7. Waiting'
    BY ONLY <1>3, <1>4, <1>11, <1>13, <1>15, <1>17, <2>3, <2>4, <2>5, <2>6 DEF Waiting
  <2> QED
    BY ONLY <2>2, <2>7 DEF AddingOK
<1>20. TreeOK(tree, piped, edited)'
  BY ONLY <1>3, <1>10, <1>11
<1>21. address' \in Nat
  BY ONLY <1>1, <1>2, <1>3, TreeFacts
<1> QED
  BY ONLY <1>1, <1>3, <1>11, <1>12, <1>16, <1>18, <1>19, <1>20, <1>21 DEF FieldSetInv

\* The size of a pipe becomes known, and the parser is truncated.
LEMMA DiscoverKeeps ==
    ASSUME FieldSetInv, Discover
    PROVE  FieldSetInv'
<1>1. /\ InputsOK /\ HistoryOK /\ GensOK /\ address \in Nat
      /\ adding \in BOOLEAN /\ kept \in BOOLEAN /\ edited \in BOOLEAN
      /\ TreeOK(tree, piped, edited) /\ AddingOK
  BY ONLY FieldSetInv DEF FieldSetInv
<1>2. "root" \in Sets /\ "sub" \in Sets /\ "root" # "sub" /\ Sets = {"root", "sub"}
  BY DEF Sets
<1> DEFINE r == Truncate(tree, "root", StreamSize)
<1>3. /\ tree.root.size = Unknown /\ tree' = r
      /\ UNCHANGED <<inputs, address, goal, adding, answer, iter, seen, kept, edited>>
  BY ONLY Discover DEF Discover
<1>4. /\ TreeOK(r, piped, edited)
      /\ HasSet(r.root.fields) => HasSet(tree.root.fields)
      /\ ~HasSet(tree.root.fields) => r.sub = tree.sub
      /\ r.root.size = StreamSize
      /\ r.root.current = IF StreamSize < tree.root.current THEN StreamSize ELSE tree.root.current
      /\ StreamSize < tree.root.current => r.root.gen = Done
      /\ ~ (StreamSize < tree.root.current) =>
            /\ r.root.fields = tree.root.fields
            /\ r.root.gen = IF StreamSize = tree.root.current THEN Done ELSE tree.root.gen
      /\ r.sub.gen # Done => r.sub.gen = tree.sub.gen
      /\ \A i \in DOMAIN r.root.fields :
            \/ r.root.fields[i].name = RawName
            \/ \E j \in DOMAIN tree.root.fields :
                  r.root.fields[i].name = tree.root.fields[j].name
  BY ONLY <1>1, <1>3, TruncateOK
<1> HIDE DEF r
<1>5. /\ script' = script /\ given' = given /\ autofix' = autofix /\ piped' = piped
      /\ address' = address /\ goal' = goal /\ adding' = adding /\ answer' = answer
      /\ iter' = iter /\ seen' = seen /\ kept' = kept /\ edited' = edited
  BY ONLY <1>3 DEF inputs
<1>6. InputsOK' /\ HistoryOK'
  BY ONLY <1>1, <1>5 DEF InputsOK, HistoryOK
<1>7. r.root.gen \in {Done, tree.root.gen} /\ r.sub.gen \in {Done, tree.sub.gen}
  BY ONLY <1>4
<1>8. GensOK'
  <2>1. \A s \in Sets : Len(script[s]) \in Nat /\ tree[s].gen \in 0 .. (Len(script[s]) + 1)
    BY ONLY <1>1, ScriptFacts DEF GensOK
  <2>2. \A s \in Sets : 0 \in 0 .. (Len(script[s]) + 1)
    BY ONLY <2>1
  <2>3. \A s \in Sets : r[s].gen \in 0 .. (Len(script[s]) + 1)
    BY ONLY <1>2, <1>7, <2>1, <2>2 DEF Done
  <2> QED
    BY ONLY <1>3, <1>5, <2>3 DEF GensOK
<1>9. AddingOK'
  <2>1. ASSUME HasSet(tree'.root.fields) \/ adding
        PROVE  NoSetAhead'
    <3>1. NoSetAhead
      BY ONLY <1>1, <1>3, <1>4, <2>1 DEF AddingOK
    <3> QED
      BY ONLY <1>3, <1>5, <1>7, <3>1 DEF NoSetAhead
  <2>2. ASSUME adding
        PROVE  Waiting'
    <3>1. Waiting
      BY ONLY <1>1, <2>2 DEF AddingOK
    <3>2. SetName' = SetName
      BY ONLY <1>5 DEF SetName
    <3>3. r.sub = tree.sub /\ ~HasSet(r.root.fields)
      BY ONLY <1>4, <3>1 DEF Waiting
    <3>4. ~Has(r, "root", SetName)
      <4>1. SetName \in Nat
        <5>1. SetName \in DOMAIN script.root /\ DOMAIN script.root = 1 .. Len(script.root)
          BY ONLY <1>1, <1>2, <3>1, ScriptFacts DEF Waiting
        <5> QED
          BY ONLY <5>1
      <4>2. SetName # RawName
        BY ONLY <4>1 DEF RawName
      <4>3. \A j \in DOMAIN tree.root.fields : tree.root.fields[j].name # SetName
        BY ONLY <3>1 DEF Waiting, Has
      <4> QED
        BY ONLY <1>4, <4>2, <4>3 DEF Has
    <3>5. address = tree.root.current
      BY ONLY <1>3, <3>1 DEF Waiting
    <3>6. \/ address = r.root.current
          \/ r.root.size # Unknown /\ r.root.current = r.root.size /\ r.root.size <= address
      <4>1. address \in Nat /\ StreamSize \in Nat /\ StreamSize # Unknown
        BY ONLY <1>1, Unlikely
      <4> QED
        BY ONLY <1>4, <3>5, <4>1
    <3>7. r.sub.size = tree.sub.size
      BY ONLY <3>3
    <3> QED
      BY ONLY <1>3, <1>5, <3>1, <3>2, <3>3, <3>4, <3>6, <3>7 DEF Waiting
  <2> QED
    BY ONLY <1>5, <2>1, <2>2 DEF AddingOK
<1>10. TreeOK(tree, piped, edited)'
  BY ONLY <1>3, <1>4, <1>5
<1> QED
  BY ONLY <1>1, <1>5, <1>6, <1>8, <1>9, <1>10 DEF FieldSetInv

\* A set that was opened at the end of the parser, or behind it if the parser was
\* truncated in the meantime, and whose size is known.
Ready(t) ==
    /\ TreeOK(t, piped, edited) /\ ~HasSet(t.root.fields) /\ t.sub.size \in Nat
    /\ \/ address = t.root.current
       \/ t.root.size # Unknown /\ t.root.current = t.root.size /\ t.root.size <= address
    /\ SetName \in Nat /\ ~Has(t, "root", SetName)
    /\ t.root.gen # Done => SetName < t.root.gen

Inserted(t) == AddTo(t, "root", Field(SetName, "set", address, 0))

\* A set that is not empty and fits becomes the last field of the parser.
LEMMA InsertTreeOK ==
    ASSUME NEW t, Ready(t), address \in Nat, t.sub.size > 0,
           t.root.size # Unknown => address + t.sub.size <= t.root.size
    PROVE  /\ TreeOK(Inserted(t), piped, edited) /\ Inserted(t).sub = t.sub
           /\ Inserted(t).root.gen = t.root.gen /\ Inserted(t).root.size = t.root.size
           /\ Inserted(t).root.current = address + t.sub.size
           /\ Inserted(t).root.fields = Append(t.root.fields, Field(SetName, "set", address, 0))
           /\ Field(SetName, "set", address, 0) \in Fields
           /\ piped \/ t.root.gen # Done
<1> DEFINE s == "root"
           f == Field(SetName, "set", address, 0)
           z == t.sub.size
           end == address + z
<1>1. "root" \in Sets /\ "sub" \in Sets /\ "root" # "sub" /\ Sets = {"root", "sub"}
  BY DEF Sets
<1>2. /\ TreeOK(t, piped, edited) /\ ~HasSet(t.root.fields) /\ t.sub.size \in Nat
      /\ SetName \in Nat /\ ~Has(t, "root", SetName)
      /\ t.root.gen # Done => SetName < t.root.gen
  BY ONLY Ready(t) DEF Ready
<1>3. /\ SetOK(t["root"], t.sub.size, piped, edited)
      /\ t["root"].size # Unknown => t["root"].size \in Nat
      /\ t["root"].current \in Nat
  BY ONLY <1>1, <1>2, TreeFacts
<1>4. address = t.root.current
  <2>1. t.root.size # Unknown => ~(t.root.size <= address)
    BY ONLY <1>2, <1>3, address \in Nat, t.sub.size > 0,
       t.root.size # Unknown => address + t.sub.size <= t.root.size
  <2> QED
    BY ONLY <2>1, Ready(t) DEF Ready
<1>5. t.root.size # t.root.current
  BY ONLY <1>2, <1>3, <1>4, Unlikely, t.sub.size > 0,
     t.root.size # Unknown => address + t.sub.size <= t.root.size
<1>6. f.name = SetName /\ f.kind = "set" /\ f.address = address /\ f.size = 0 /\ f \in Fields
  BY ONLY <1>2, address \in Nat DEF Field, Fields, Names
<1>7. \A i \in DOMAIN t.root.fields :
         t.root.fields[i].name # f.name /\ t.root.fields[i].name # RawName
  <2>1. \A i \in DOMAIN t.root.fields : t.root.fields[i].name # SetName
    BY ONLY <1>2 DEF Has
  <2>2. \A i \in DOMAIN t.root.fields : t.root.fields[i].name # RawName
    BY ONLY <1>3, <1>5 DEF SetOK, NamesOK, NameOK
  <2> QED
    BY ONLY <1>6, <2>1, <2>2
<1>8. piped \/ t.root.gen # Done
  BY ONLY <1>3, <1>5 DEF SetOK, SizesOK
<1>9. end = EndOf(f, z)
  BY ONLY <1>6 DEF EndOf
<1>10. t[s].size # Unknown => end <= t[s].size
  BY ONLY t.root.size # Unknown => address + t.sub.size <= t.root.size
<1>11. /\ f.address = t[s].current /\ f.name \in Nat /\ s \in Sets
       /\ f.kind = "set" => s = "root" /\ t.sub.size \in Nat /\ ~HasSet(t.root.fields)
       /\ t[s].gen # Done => f.name < t[s].gen
       /\ ~piped /\ t[s].gen = Done => t[s].size = end
       /\ \A i \in DOMAIN t[s].fields : t[s].fields[i].name # f.name /\ t[s].fields[i].name # RawName
  BY ONLY <1>1, <1>2, <1>4, <1>6, <1>7, <1>8
<1>12. Inserted(t) = AddTo(t, s, f)
  BY ONLY DEF Inserted
<1>13. s = "root"
  OBVIOUS
<1> HIDE DEF s, f, end, z
<1> DEFINE r == AddTo(t, s, f)
<1>14. /\ TreeOK(r, piped, edited)
       /\ DOMAIN r = Sets /\ \A o \in Sets \ {s} : r[o] = t[o]
       /\ r[s].fields = Append(t[s].fields, f) /\ r[s].current = end
       /\ r[s].size = t[s].size /\ r[s].gen = t[s].gen
  <2>1. end = EndOf(f, t.sub.size)
    BY ONLY <1>9 DEF z
  <2>2. f \in Fields
    BY ONLY <1>6
  <2> QED
    BY ONLY <1>2, <1>10, <1>11, <2>1, <2>2, AddToOK
<1> HIDE DEF r
<1>15. r.sub = t.sub
  BY ONLY <1>1, <1>13, <1>14
<1>16. Inserted(t) = r
  BY ONLY <1>12 DEF r
<1> QED
  BY ONLY <1>6, <1>8, <1>13, <1>14, <1>15, <1>16 DEF end, z, f

\* A set that is too large is truncated to what is left for it.
LEMMA TrimOK ==
    ASSUME NEW t, Ready(t), NEW n \in Nat, n > 0, n < t.sub.size
    PROVE  LET r == TruncateOne(t, "sub", n)
           IN /\ Ready(r) /\ r.root = t.root /\ r.sub.size = n
              /\ r.sub.gen \in {Done, t.sub.gen}
<1> DEFINE s == "sub"
           r == TruncateOne(t, s, n)
<1>1. "root" \in Sets /\ s \in Sets /\ "root" # s /\ Sets = {"root", s}
  BY DEF Sets
<1>2. /\ TreeOK(t, piped, edited) /\ ~HasSet(t.root.fields) /\ t.sub.size \in Nat
  BY ONLY Ready(t) DEF Ready
<1>3. DOMAIN t = Sets /\ SetOK(t[s], t.sub.size, piped, edited)
  BY ONLY <1>1, <1>2, TreeFacts
<1>4. ~HasSet(t[s].fields)
  BY ONLY <1>2 DEF TreeOK
<1>5. OneSet(t[s].fields)
  BY ONLY <1>4 DEF OneSet, HasSet
<1>6. 0 < n /\ (t[s].size = Unknown \/ n < t[s].size)
  BY ONLY <1>2, n > 0, n \in Nat, n < t.sub.size
<1>7. s = "sub"
  OBVIOUS
<1> HIDE DEF s
<1>8. Truncated(t, r, s, n, piped, edited)
  BY ONLY <1>1, <1>3, <1>5, <1>6, n \in Nat, TruncateOneOK
<1> HIDE DEF r
<1>9. /\ DOMAIN r = Sets /\ \A o \in Sets \ {s} : r[o] = t[o]
      /\ r[s].size = n
      /\ n < t[s].current => r[s].gen = Done
      /\ ~(n < t[s].current) => r[s].gen = IF n = t[s].current THEN Done ELSE t[s].gen
      /\ HasSet(r[s].fields) => HasSet(t[s].fields)
      /\ \A y : y = (IF /\ r[s].fields # <<>> /\ Last(r[s].fields).kind = "set"
                        /\ n - Last(r[s].fields).address < t.sub.size
                     THEN n - Last(r[s].fields).address ELSE t.sub.size)
                => SetOK(r[s], y, piped, edited)
  BY ONLY <1>8 DEF Truncated
<1>10. ~HasSet(r[s].fields)
  BY ONLY <1>4, <1>9
<1>11. SetOK(r[s], r.sub.size, piped, edited)
  <2>1. PICK y : SetOK(r[s], y, piped, edited)
    BY ONLY <1>9
  <2> QED
    BY ONLY <1>10, <2>1, SetOfData
<1>12. TreeOK(r, piped, edited)
  <2>1. s = "sub" => ~HasSet(r.sub.fields)
    BY ONLY <1>10
  <2>2. s = "sub" => r.sub.size = t.sub.size \/ ~HasSet(t.root.fields)
    BY ONLY <1>2
  <2>3. /\ s = "root" => OneSet(r.root.fields)
        /\ s = "root" => (~piped => r.root.size = t.root.size)
    BY ONLY <1>1
  <2>4. DOMAIN r = Sets /\ \A o \in Sets \ {s} : r[o] = t[o]
    BY ONLY <1>9
  <2> QED
    BY ONLY <1>1, <1>2, <1>11, <2>1, <2>2, <2>3, <2>4, TreeWith
<1>13. r.root = t.root
  BY ONLY <1>1, <1>9
<1>14. r.sub.size = n /\ r.sub.gen \in {Done, t.sub.gen}
  BY ONLY <1>7, <1>9
<1>15. Ready(r)
  <2>1. Has(r, "root", SetName) <=> Has(t, "root", SetName)
    BY ONLY <1>13 DEF Has
  <2> QED
    BY ONLY <1>12, <1>13, <1>14, <2>1, n \in Nat, Ready(t) DEF Ready
<1> QED
  BY ONLY <1>7, <1>13, <1>14, <1>15 DEF r

SetField == Field(SetName, "set", address, 0)

\* What the end of _addField makes of t: the parser goes on, with the set or without it,
\* or it is left after a set with an error was inserted.
Fitted(t, raised) ==
    \E y : /\ FeedStep("root", y) /\ y.root.gen = t.root.gen /\ y.sub.gen \in {Done, t.sub.gen}
           /\ \/ IterStep("root", t)
              \/ /\ raised /\ Left("root", y) /\ SetField \in Fields
                 /\ y.root.fields = Append(t.root.fields, SetField)
                 /\ t.root.size # Unknown /\ address + t.sub.size >= t.root.size =>
                      y.root.size = y.root.current

\* A set that is inserted.
LEMMA InsertStep ==
    ASSUME HistoryOK, NEW t, Ready(t), address \in Nat, t.sub.size > 0,
           t.root.size # Unknown => address + t.sub.size <= t.root.size,
           NEW raised \in BOOLEAN, InsertSet(t, raised)
    PROVE  Fitted(t, raised)
<1> DEFINE y == Inserted(t)
           s == "root"
<1>1. "root" \in Sets
  BY DEF Sets
<1>2. /\ TreeOK(y, piped, edited) /\ y.sub = t.sub
      /\ y.root.gen = t.root.gen /\ y.root.size = t.root.size
      /\ y.root.current = address + t.sub.size
      /\ y.root.fields = Append(t.root.fields, SetField)
      /\ SetField \in Fields
      /\ piped \/ t.root.gen # Done
  BY ONLY Ready(t), address \in Nat, t.sub.size > 0,
     t.root.size # Unknown => address + t.sub.size <= t.root.size, InsertTreeOK DEF SetField
<1>3. IF raised THEN OnStop("root", y) ELSE OnAdded("root", y, SetName)
  BY ONLY InsertSet(t, raised) DEF InsertSet, Inserted
<1> HIDE DEF y
<1>4. CASE raised
  <2>1. Left("root", y)
    BY ONLY HistoryOK, <1>1, <1>2, <1>3, <1>4, OnStopIs
  <2>2. FeedStep("root", y)
    BY ONLY <2>1 DEF Left
  <2>3. t.root.size # Unknown /\ address + t.sub.size >= t.root.size => y.root.size = y.root.current
    <3>1. t.root.size # Unknown => t.root.size \in Nat
      BY ONLY Ready(t), <1>1, TreeFacts DEF Ready
    <3>2. t.sub.size \in Nat
      BY ONLY Ready(t) DEF Ready
    <3>3. y.root.size = t.root.size /\ y.root.current = address + t.sub.size
      BY ONLY <1>2
    <3> DEFINE a == t.root.size
               b == t.sub.size
    <3>4. ASSUME a # Unknown, address + b >= a
          PROVE  a = address + b
      <4>1. a \in Nat /\ b \in Nat /\ address + b <= a
        BY ONLY <3>1, <3>2, <3>4, t.root.size # Unknown => address + t.sub.size <= t.root.size
      <4> HIDE DEF a, b
      <4> QED
        BY ONLY <3>4, <4>1, address \in Nat
    <3> QED
      BY ONLY <3>3, <3>4
  <2> QED
    BY ONLY <1>2, <1>4, <2>1, <2>2, <2>3 DEF Fitted
<1>5. CASE ~raised
  <2>1. /\ OnAdded(s, y, SetName) /\ s \in Sets
        /\ y[s].fields = Append(t[s].fields, SetField) /\ y[s].gen = t[s].gen
        /\ piped \/ t[s].gen # Done
    BY ONLY <1>1, <1>2, <1>3, <1>5
  <2>2. TreeOK(y, piped, edited) /\ SetField \in Fields
    BY ONLY <1>2
  <2> HIDE DEF s
  <2>3. FeedStep(s, y) /\ IterStep(s, t)
    BY ONLY HistoryOK, <2>1, <2>2, OnAddedIs
  <2>4. FeedStep("root", y) /\ IterStep("root", t)
    BY ONLY <2>3 DEF s
  <2> QED
    BY ONLY <1>2, <2>4 DEF Fitted
<1> QED
  BY ONLY <1>4, <1>5

\* The end of _addField with a set whose size is known.
LEMMA FitSetIs ==
    ASSUME HistoryOK, NEW t, Ready(t), address \in Nat, NEW raised \in BOOLEAN, FitSet(t, raised)
    PROVE  /\ Fitted(t, raised) /\ kept' \in {kept, raised}
           /\ IterStep("root", t) \/ kept' = raised
<1> DEFINE size == t.sub.size
           room == Room(t, "root", 0, address + size)
           m == size + room
<1>1. "root" \in Sets
  BY DEF Sets
<1>2. TreeOK(t, piped, edited) /\ size \in Nat
  BY ONLY Ready(t) DEF Ready
<1>3. address + size \in Nat
  BY ONLY <1>2, address \in Nat
<1>4. t.root.size # Unknown => t.root.size \in Nat
  BY ONLY <1>1, <1>2, TreeFacts
<1>5. /\ t.root.size # Unknown => room = t.root.size - (address + size) /\ room # Unknown
      /\ t.root.size = Unknown => room = Unknown
  <2> DEFINE position == address + size
  <2>1. position \in Nat /\ 0 \in Nat /\ room = Room(t, "root", 0, position)
    BY ONLY <1>3
  <2> HIDE DEF position
  <2>2. /\ t["root"].size # Unknown =>
             Room(t, "root", 0, position) = t["root"].size - position
             /\ Room(t, "root", 0, position) # Unknown
        /\ t["root"].size = Unknown => Room(t, "root", 0, position) = Unknown
    BY ONLY <1>1, <1>2, <2>1, RoomIs
  <2> HIDE DEF room
  <2> QED
    BY ONLY <2>1, <2>2 DEF position
<1>6. LET tight == room # Unknown /\ room < 0
      IN IF ~tight /\ size > 0 THEN InsertSet(t, raised) /\ kept' = raised
         ELSE IF ~autofix \/ t.root.current = 0 \/ room = Unknown
              THEN OnError("root", t) /\ UNCHANGED kept
         ELSE IF size > 0 /\ m > 0
              THEN InsertSet(TruncateOne(t, "sub", m), raised) /\ kept' = raised
         ELSE OnStop("root", t) /\ UNCHANGED kept
  BY ONLY FitSet(t, raised) DEF FitSet
<1> HIDE DEF room
<1>7. ASSUME Left("root", t), UNCHANGED kept
      PROVE  Fitted(t, raised) /\ kept' \in {kept, raised} /\ (IterStep("root", t) \/ kept' = raised)
  <2>1. FeedStep("root", t) /\ IterStep("root", t)
    BY ONLY <1>7 DEF Left
  <2>2. Fitted(t, raised)
    BY ONLY <2>1 DEF Fitted
  <2> QED
    BY ONLY <1>7, <2>1, <2>2
<1>8. CASE ~(room # Unknown /\ room < 0) /\ size > 0
  <2>1. InsertSet(t, raised) /\ kept' = raised
    BY ONLY <1>6, <1>8
  <2>2. t.root.size # Unknown => address + t.sub.size <= t.root.size
    BY ONLY <1>2, <1>4, <1>5, <1>8, address \in Nat
  <2>3. t.sub.size > 0
    BY ONLY <1>8
  <2>4. Fitted(t, raised)
    BY ONLY HistoryOK, Ready(t), address \in Nat, raised \in BOOLEAN, <2>1, <2>2, <2>3, InsertStep
  <2> QED
    BY ONLY <2>1, <2>4
<1>9. CASE ~(~(room # Unknown /\ room < 0) /\ size > 0)
           /\ (~autofix \/ t.root.current = 0 \/ room = Unknown)
  <2>1. OnError("root", t) /\ UNCHANGED kept
    BY ONLY <1>6, <1>9
  <2>2. Left("root", t)
    BY ONLY HistoryOK, <1>1, <1>2, <2>1, OnErrorIs
  <2> QED
    BY ONLY <1>7, <2>1, <2>2
<1>10. CASE ~(~(room # Unknown /\ room < 0) /\ size > 0)
            /\ ~(~autofix \/ t.root.current = 0 \/ room = Unknown)
            /\ ~(size > 0 /\ m > 0)
  <2>1. OnStop("root", t) /\ UNCHANGED kept
    BY ONLY <1>6, <1>10
  <2>2. Left("root", t)
    BY ONLY HistoryOK, <1>1, <1>2, <2>1, OnStopIs
  <2> QED
    BY ONLY <1>7, <2>1, <2>2
<1>11. CASE ~(~(room # Unknown /\ room < 0) /\ size > 0)
            /\ ~(~autofix \/ t.root.current = 0 \/ room = Unknown)
            /\ (size > 0 /\ m > 0)
  <2> DEFINE r == TruncateOne(t, "sub", m)
  <2>1. InsertSet(r, raised) /\ kept' = raised
    BY ONLY <1>6, <1>11
  <2>2. t.root.size # Unknown /\ t.root.size \in Nat /\ room = t.root.size - (address + size) /\ room < 0
    BY ONLY <1>4, <1>5, <1>11
  <2>3. m \in Nat /\ m > 0 /\ m < size /\ address + m = t.root.size
    <3>1. m > 0
      BY ONLY <1>11
    <3> QED
      BY ONLY <1>2, <2>2, <3>1, address \in Nat
  <2>4. m < t.sub.size
    BY ONLY <2>3
  <2> HIDE DEF m
  <2>6. /\ Ready(r) /\ r.root = t.root /\ r.sub.size = m
        /\ r.sub.gen \in {Done, t.sub.gen}
    BY ONLY Ready(t), <2>3, <2>4, TrimOK
  <2> HIDE DEF r
  <2>7. r.sub.size > 0 /\ (r.root.size # Unknown => address + r.sub.size <= r.root.size)
        /\ address + r.sub.size >= r.root.size
    BY ONLY <2>2, <2>3, <2>6
  <2>8. Fitted(r, raised)
    BY ONLY HistoryOK, <2>6, <2>7, address \in Nat, raised \in BOOLEAN, <2>1, InsertStep
  <2>9. PICK y : /\ FeedStep("root", y) /\ y.root.gen = r.root.gen /\ y.sub.gen \in {Done, r.sub.gen}
                 /\ \/ IterStep("root", r)
                    \/ /\ raised /\ Left("root", y) /\ SetField \in Fields
                       /\ y.root.fields = Append(r.root.fields, SetField)
                       /\ r.root.size # Unknown /\ address + r.sub.size >= r.root.size =>
                            y.root.size = y.root.current
    BY ONLY <2>8 DEF Fitted
  <2>10. y.root.gen = t.root.gen /\ y.sub.gen \in {Done, t.sub.gen}
    BY ONLY <2>6, <2>9
  <2>11. CASE IterStep("root", r)
    <3>1. IterStep("root", t)
      BY ONLY <2>6, <2>11 DEF IterStep
    <3>2. Fitted(t, raised)
      BY ONLY <2>9, <2>10, <3>1 DEF Fitted
    <3> QED
      BY ONLY <2>1, <3>1, <3>2
  <2>12. CASE /\ raised /\ Left("root", y) /\ SetField \in Fields
              /\ y.root.fields = Append(r.root.fields, SetField)
              /\ r.root.size # Unknown /\ address + r.sub.size >= r.root.size =>
                   y.root.size = y.root.current
    <3>1. y.root.size = y.root.current
      BY ONLY <2>2, <2>6, <2>7, <2>12
    <3>2. Fitted(t, raised)
      BY ONLY <2>6, <2>9, <2>10, <2>12, <3>1 DEF Fitted
    <3> QED
      BY ONLY <2>1, <3>2
  <2> QED
    BY ONLY <2>9, <2>11, <2>12
<1> QED
  BY ONLY <1>8, <1>9, <1>10, <1>11

\* A set of known size that was opened can be added.
LEMMA ReadyWhen ==
    ASSUME FieldSetInv, adding, NEW t, TreeOK(t, piped, edited), ~HasSet(t.root.fields),
           t.sub.size # Unknown, ~Has(t, "root", SetName),
           t.root.gen \in {Done, tree.root.gen},
           \/ address = t.root.current
           \/ t.root.size # Unknown /\ t.root.current = t.root.size /\ t.root.size <= address
    PROVE  Ready(t)
<1>1. InputsOK /\ GensOK /\ NoSetAhead /\ Waiting
  BY ONLY FieldSetInv, adding DEF FieldSetInv, AddingOK
<1>2. "sub" \in Sets /\ "root" \in Sets
  BY DEF Sets
<1>3. t["sub"].size \in OptSize
  BY ONLY <1>2, TreeOK(t, piped, edited), TreeFacts
<1>4. t.sub.size \in Nat
  BY ONLY <1>3, t.sub.size # Unknown DEF OptSize
<1>5. SetName \in DOMAIN script.root /\ script.root[SetName].kind = "set"
  BY ONLY <1>1 DEF Waiting
<1>6. SetName \in Nat
  <2>1. DOMAIN script["root"] = 1 .. Len(script["root"])
    BY ONLY <1>1, <1>2, ScriptFacts
  <2> QED
    BY ONLY <1>5, <2>1
<1>7. t.root.gen # Done => SetName < t.root.gen
  BY ONLY <1>1, <1>5, t.root.gen \in {Done, tree.root.gen} DEF NoSetAhead
<1> QED
  BY ONLY <1>4, <1>6, <1>7, TreeOK(t, piped, edited), ~HasSet(t.root.fields), ~Has(t, "root", SetName),
     \/ address = t.root.current
     \/ t.root.size # Unknown /\ t.root.current = t.root.size /\ t.root.size <= address DEF Ready

\* The same set after the look at the end of the stream.
LEMMA LookedIs ==
    ASSUME FieldSetInv, adding
    PROVE  /\ TreeOK(Looked, piped, edited) /\ ~HasSet(Looked.root.fields)
           /\ ~Has(Looked, "root", SetName) /\ Looked.sub = tree.sub
           /\ Looked.root.gen \in {Done, tree.root.gen}
           /\ \/ address = Looked.root.current
              \/ /\ Looked.root.size # Unknown /\ Looked.root.current = Looked.root.size
                 /\ Looked.root.size <= address
           /\ tree.root.size # Unknown => Looked = tree
<1>1. InputsOK /\ GensOK /\ Waiting /\ TreeOK(tree, piped, edited) /\ address \in Nat
  BY ONLY FieldSetInv, adding DEF FieldSetInv, AddingOK
<1>2. CASE Looked = tree
  BY ONLY <1>1, <1>2 DEF Waiting
<1>3. CASE tree.root.size = Unknown /\ Looked = Truncate(tree, "root", StreamSize)
  <2> DEFINE r == Truncate(tree, "root", StreamSize)
  <2>1. /\ TreeOK(r, piped, edited)
        /\ HasSet(r.root.fields) => HasSet(tree.root.fields)
        /\ ~HasSet(tree.root.fields) => r.sub = tree.sub
        /\ r.root.size = StreamSize
        /\ r.root.current = IF StreamSize < tree.root.current THEN StreamSize ELSE tree.root.current
        /\ StreamSize < tree.root.current => r.root.gen = Done
        /\ ~ (StreamSize < tree.root.current) =>
              /\ r.root.fields = tree.root.fields
              /\ r.root.gen = IF StreamSize = tree.root.current THEN Done ELSE tree.root.gen
        /\ \A i \in DOMAIN r.root.fields :
              \/ r.root.fields[i].name = RawName
              \/ \E j \in DOMAIN tree.root.fields :
                    r.root.fields[i].name = tree.root.fields[j].name
    BY ONLY <1>1, <1>3, TruncateOK
  <2> HIDE DEF r
  <2>2. r.sub = tree.sub /\ ~HasSet(r.root.fields)
    BY ONLY <1>1, <2>1 DEF Waiting
  <2>3. ~Has(r, "root", SetName)
    <3>1. SetName \in Nat
      <4>1. "root" \in Sets
        BY DEF Sets
      <4>2. SetName \in DOMAIN script.root /\ DOMAIN script.root = 1 .. Len(script.root)
        BY ONLY <1>1, <4>1, ScriptFacts DEF Waiting
      <4> QED
        BY ONLY <4>2
    <3>2. SetName # RawName
      BY ONLY <3>1 DEF RawName
    <3>3. \A j \in DOMAIN tree.root.fields : tree.root.fields[j].name # SetName
      BY ONLY <1>1 DEF Waiting, Has
    <3> QED
      BY ONLY <2>1, <3>2, <3>3 DEF Has
  <2>4. address = tree.root.current
    BY ONLY <1>1, <1>3 DEF Waiting
  <2>5. \/ address = r.root.current
        \/ r.root.size # Unknown /\ r.root.current = r.root.size /\ r.root.size <= address
    <3>1. StreamSize \in Nat /\ StreamSize # Unknown
      BY ONLY Unlikely
    <3> QED
      BY ONLY <1>1, <2>1, <2>4, <3>1
  <2>6. r.root.gen \in {Done, tree.root.gen}
    BY ONLY <2>1
  <2>7. Looked = r
    BY ONLY <1>3 DEF r
  <2> HIDE DEF r
  <2> QED
    BY ONLY <1>3, <2>1, <2>2, <2>3, <2>5, <2>6, <2>7
<1>4. Looked = tree \/ (tree.root.size = Unknown /\ Looked = Truncate(tree, "root", StreamSize))
  BY ONLY DEF Looked
<1> QED
  BY ONLY <1>2, <1>3, <1>4

\* What is fitted into the parser after the generator of the set failed.
LEMMA StoppedIs ==
    ASSUME FieldSetInv, adding
    PROVE  LET r == StopFeeding(Looked, "sub")
           IN /\ Ready(r) /\ r.root = Looked.root /\ r.sub.gen = Done
              /\ r.root.gen \in {Done, tree.root.gen}
              /\ tree.sub.size = Unknown => r.sub.size = tree.sub.current
<1> DEFINE t == Looked
           s == "sub"
           r == StopFeeding(t, s)
<1>1. /\ TreeOK(t, piped, edited) /\ ~HasSet(t.root.fields)
      /\ ~Has(t, "root", SetName) /\ t.sub = tree.sub
      /\ t.root.gen \in {Done, tree.root.gen}
      /\ \/ address = t.root.current
         \/ t.root.size # Unknown /\ t.root.current = t.root.size /\ t.root.size <= address
  BY ONLY FieldSetInv, adding, LookedIs
<1>2. s \in Sets /\ "root" \in Sets /\ "root" # s /\ s = "sub"
  BY DEF Sets
<1> HIDE DEF t, s
<1>3. /\ TreeOK(r, piped, edited)
      /\ HasSet(r.root.fields) <=> HasSet(t.root.fields)
      /\ DOMAIN r = Sets /\ \A o \in Sets \ {s} : r[o] = t[o]
      /\ r[s].gen = Done
      /\ s = "sub" => r.sub.size # Unknown
      /\ t[s].size = Unknown /\ s = "sub" => r[s].size = t[s].current
  BY ONLY <1>1, <1>2, StopFeedingOK
<1> HIDE DEF r
<1>4. r.root = t.root
  BY ONLY <1>2, <1>3
<1>5. ~Has(r, "root", SetName)
  BY ONLY <1>1, <1>4 DEF Has
<1>6. Ready(r)
  BY ONLY FieldSetInv, adding, <1>1, <1>2, <1>3, <1>4, <1>5, ReadyWhen
<1>7. r.sub.gen = Done /\ (tree.sub.size = Unknown => r.sub.size = tree.sub.current)
  BY ONLY <1>1, <1>2, <1>3
<1> QED
  BY ONLY <1>1, <1>2, <1>4, <1>6, <1>7 DEF r, t

\* After a set was added, or was not, the parser goes on or is left.
LEMMA FinishKeeps ==
    ASSUME FieldSetInv, adding, adding' = FALSE, kept' \in BOOLEAN, UNCHANGED <<inputs, address, edited>>,
           NEW y, FeedStep("root", y), y.root.gen \in {Done, tree.root.gen},
           y.sub.gen \in {Done, tree.sub.gen}
    PROVE  FieldSetInv'
<1>1. /\ InputsOK /\ HistoryOK /\ GensOK /\ address \in Nat /\ edited \in BOOLEAN
      /\ NoSetAhead
  BY ONLY FieldSetInv, adding DEF FieldSetInv, AddingOK
<1>2. "root" \in Sets /\ "sub" \in Sets /\ "root" # "sub" /\ Sets = {"root", "sub"}
  BY DEF Sets
<1>3. /\ TreeOK(tree', piped, edited)
      /\ tree'.sub = y.sub /\ goal'.sub = goal.sub
      /\ tree'.root.gen \in {Done, y.root.gen}
      /\ goal' \in [Sets -> Goals] /\ answer' \in Answers /\ iter' \in IterT /\ seen' \in Seq(Fields)
  BY ONLY <1>2, FeedStep("root", y) DEF FeedStep
<1>4. /\ script' = script /\ given' = given /\ autofix' = autofix /\ piped' = piped
      /\ address' = address /\ edited' = edited
  BY ONLY UNCHANGED <<inputs, address, edited>> DEF inputs
<1>5. InputsOK'
  BY ONLY <1>1, <1>4 DEF InputsOK
<1>6. HistoryOK'
  <2>1. \A s \in Sets : goal'[s].want = "next" => s = "root"
    BY ONLY <1>1, <1>2, <1>3 DEF HistoryOK
  <2> QED
    BY ONLY <1>3, <2>1 DEF HistoryOK
<1>7. tree'.root.gen \in {Done, tree.root.gen} /\ tree'.sub.gen \in {Done, tree.sub.gen}
  BY ONLY <1>3, y.root.gen \in {Done, tree.root.gen}, y.sub.gen \in {Done, tree.sub.gen}
<1>8. GensOK'
  <2>1. \A s \in Sets : Len(script[s]) \in Nat /\ tree[s].gen \in 0 .. (Len(script[s]) + 1)
    BY ONLY <1>1, ScriptFacts DEF GensOK
  <2>2. \A s \in Sets : 0 \in 0 .. (Len(script[s]) + 1)
    BY ONLY <2>1
  <2>3. \A s \in Sets : tree'[s].gen \in 0 .. (Len(script[s]) + 1)
    BY ONLY <1>2, <1>7, <2>1, <2>2 DEF Done
  <2> QED
    BY ONLY <1>4, <2>3 DEF GensOK
<1>9. AddingOK'
  <2>1. NoSetAhead'
    BY ONLY <1>1, <1>4, <1>7 DEF NoSetAhead
  <2> QED
    BY ONLY <2>1, adding' = FALSE DEF AddingOK
<1>10. TreeOK(tree, piped, edited)'
  BY ONLY <1>3, <1>4
<1>11. adding' \in BOOLEAN
  BY ONLY adding' = FALSE
<1> QED
  BY ONLY <1>1, <1>4, <1>5, <1>6, <1>8, <1>9, <1>10, <1>11, kept' \in BOOLEAN DEF FieldSetInv

\* The whole of it: the parser is left without the set, or the set was fitted.
FinishStep ==
    \/ Left("root", tree) /\ UNCHANGED kept
    \/ \E t, raised :
          /\ Ready(t) /\ Fitted(t, raised) /\ kept' \in {kept, raised} /\ raised \in BOOLEAN
          /\ t.root.gen \in {Done, tree.root.gen} /\ t.sub.gen \in {Done, tree.sub.gen}
          /\ IterStep("root", t) \/ kept' = raised
          /\ tree.root.size # Unknown => t.root = tree.root
          /\ raised => /\ Eof(Looked) /\ answer = "error"
                       /\ tree.sub.size = Unknown => t.sub.size = tree.sub.current

\* The end of _addField with a set: it fits, is truncated, repaired, kept
\* with an error or dropped.
LEMMA FinishAddStep ==
    ASSUME FieldSetInv, FinishAdd
    PROVE  FinishStep
<1>1. InputsOK /\ HistoryOK /\ Waiting /\ TreeOK(tree, piped, edited) /\ address \in Nat /\ adding
  BY ONLY FieldSetInv, FinishAdd DEF FieldSetInv, AddingOK, FinishAdd
<1>2. "root" \in Sets
  BY DEF Sets
<1>3. ASSUME OnError("root", tree) /\ UNCHANGED kept
      PROVE  FinishStep
  <2>1. Left("root", tree)
    BY ONLY <1>1, <1>2, <1>3, OnErrorIs
  <2> QED
    BY ONLY <1>3, <2>1 DEF FinishStep
<1>4. CASE answer # "error"
  <2>1. FitSet(tree, FALSE) /\ goal.sub = Idle
    BY ONLY <1>4, FinishAdd DEF FinishAdd
  <2>2. /\ ~HasSet(tree.root.fields) /\ ~Has(tree, "root", SetName) /\ tree.sub.size # Unknown
        /\ \/ address = tree.root.current
           \/ /\ tree.root.size # Unknown /\ tree.root.current = tree.root.size
              /\ tree.root.size <= address
    BY ONLY <1>1, <1>4, <2>1 DEF Waiting
  <2>3. Ready(tree)
    BY ONLY FieldSetInv, <1>1, <2>2, ReadyWhen
  <2>4. FALSE \in BOOLEAN
    OBVIOUS
  <2>5. /\ Fitted(tree, FALSE) /\ kept' \in {kept, FALSE}
        /\ IterStep("root", tree) \/ kept' = FALSE
    BY ONLY <1>1, <2>1, <2>3, <2>4, FitSetIs
  <2> QED
    BY ONLY <2>3, <2>4, <2>5 DEF FinishStep
<1>5. CASE answer = "error" /\ (tree.sub.fields = <<>> \/ ~Eof(Looked))
  <2>1. OnError("root", tree) /\ UNCHANGED kept
    BY ONLY <1>5, FinishAdd DEF FinishAdd
  <2> QED
    BY ONLY <1>3, <2>1
<1>6. CASE answer = "error" /\ tree.sub.fields # <<>> /\ Eof(Looked)
  <2> DEFINE r == StopFeeding(Looked, "sub")
  <2>1. FitSet(r, TRUE)
    BY ONLY <1>6, FinishAdd DEF FinishAdd
  <2>2. /\ Ready(r) /\ r.root = Looked.root /\ r.sub.gen = Done
        /\ r.root.gen \in {Done, tree.root.gen}
        /\ tree.sub.size = Unknown => r.sub.size = tree.sub.current
    BY ONLY FieldSetInv, <1>1, StoppedIs
  <2> HIDE DEF r
  <2>3. TRUE \in BOOLEAN
    OBVIOUS
  <2>4. /\ Fitted(r, TRUE) /\ kept' \in {kept, TRUE}
        /\ IterStep("root", r) \/ kept' = TRUE
    BY ONLY <1>1, <2>1, <2>2, <2>3, FitSetIs
  <2>5. tree.root.size # Unknown => r.root = tree.root
    BY ONLY FieldSetInv, <1>1, <2>2, LookedIs
  <2> QED
    BY ONLY <1>6, <2>2, <2>3, <2>4, <2>5 DEF FinishStep
<1> QED
  BY ONLY <1>4, <1>5, <1>6

\* The end of _addField with a set keeps the invariant.
LEMMA FinishAddKeeps ==
    ASSUME FieldSetInv, FinishAdd
    PROVE  FieldSetInv'
<1>1. adding /\ adding' = FALSE /\ UNCHANGED <<inputs, address, edited>> /\ kept \in BOOLEAN
  BY ONLY FieldSetInv, FinishAdd DEF FinishAdd, FieldSetInv
<1>2. FinishStep
  BY ONLY FieldSetInv, FinishAdd, FinishAddStep
<1>3. CASE Left("root", tree) /\ UNCHANGED kept
  <2>1. FeedStep("root", tree) /\ kept' \in BOOLEAN
    BY ONLY <1>1, <1>3 DEF Left
  <2>2. tree.root.gen \in {Done, tree.root.gen} /\ tree.sub.gen \in {Done, tree.sub.gen}
    OBVIOUS
  <2> QED
    BY ONLY FieldSetInv, <1>1, <2>1, <2>2, FinishKeeps
<1>4. ASSUME NEW t, NEW raised \in BOOLEAN, Fitted(t, raised), kept' \in {kept, raised},
             t.root.gen \in {Done, tree.root.gen}, t.sub.gen \in {Done, tree.sub.gen}
      PROVE  FieldSetInv'
  <2>1. PICK y : FeedStep("root", y) /\ y.root.gen = t.root.gen /\ y.sub.gen \in {Done, t.sub.gen}
    BY ONLY <1>4 DEF Fitted
  <2>2. y.root.gen \in {Done, tree.root.gen} /\ y.sub.gen \in {Done, tree.sub.gen}
    BY ONLY <1>4, <2>1
  <2>3. kept' \in BOOLEAN
    BY ONLY <1>1, <1>4, raised \in BOOLEAN
  <2> QED
    BY ONLY FieldSetInv, <1>1, <2>1, <2>2, <2>3, FinishKeeps
<1> QED
  BY ONLY <1>2, <1>3, <1>4 DEF FinishStep

\* The invariant says what TypeOK says: sizes are numbers or not known,
\* and the number of a generator is one of its items, the end or Done.
LEMMA InvIsTyped ==
    ASSUME FieldSetInv
    PROVE  TypeOK
<1>1. /\ HistoryOK /\ GensOK /\ address \in Nat
      /\ adding \in BOOLEAN /\ kept \in BOOLEAN /\ edited \in BOOLEAN
      /\ TreeOK(tree, piped, edited)
  BY ONLY FieldSetInv DEF FieldSetInv
<1>2. DOMAIN tree = Sets
  BY ONLY <1>1 DEF TreeOK
<1>3. \A s \in Sets :
         /\ tree[s].fields \in Seq(Fields) /\ tree[s].size \in OptSize
         /\ tree[s].current \in Nat /\ tree[s].gen \in 0..(Len(script[s]) + 1)
  BY ONLY <1>1, TreeFacts DEF GensOK
<1>4. /\ goal \in [Sets -> Goals] /\ answer \in Answers /\ seen \in Seq(Fields)
      /\ iter.state \in Iterations /\ iter.done \in Nat /\ iter.snap \in Seq(Fields)
  BY ONLY <1>1 DEF HistoryOK, IterT
<1> QED
  BY ONLY <1>1, <1>2, <1>3, <1>4 DEF TypeOK

\* The invariant says what Contiguous says: FieldIsFound is its last part.
LEMMA InvIsContiguous ==
    ASSUME FieldSetInv
    PROVE  Contiguous
<1>1. TypeOK
  BY ONLY FieldSetInv, InvIsTyped
<1>2. TreeOK(tree, piped, edited)
  BY ONLY FieldSetInv DEF FieldSetInv
<1>3. ASSUME NEW s \in Sets
      PROVE  LET fields == tree[s].fields
                 current == tree[s].current
             IN /\ \A i \in DOMAIN fields :
                      /\ fields[i].address = IF i = 1 THEN 0 ELSE End(s, i - 1)
                      /\ \A j \in DOMAIN fields : fields[i].name = fields[j].name => i = j
                /\ current = IF fields = <<>> THEN 0 ELSE End(s, Len(fields))
                /\ tree[s].size # Unknown => current <= tree[s].size
                /\ ~piped /\ tree[s].gen = Done => tree[s].size = current
                /\ \A where \in 0..(current - 1) :
                      LET i == LowerBound(tree, s, where) + 1
                      IN i \in DOMAIN fields /\ fields[i].address <= where /\ where < End(s, i)
  <2> DEFINE fs == tree[s].fields
             c == tree[s].current
             z == tree.sub.size
             n == Len(fs)
  <2>1. /\ SetOK(tree[s], z, piped, edited)
    BY ONLY <1>2, <1>3, TreeFacts
  <2>2. /\ Chain(fs, z, 0, c) /\ Unlike(fs) /\ SizesOK(tree[s], piped)
    BY ONLY <2>1 DEF SetOK
  <2>3. \A i : End(s, i) = EndOf(fs[i], z)
    BY ONLY DEF End, EndOf, SizeOf
  <2>4. /\ fs \in Seq(Fields) /\ n \in Nat /\ DOMAIN fs = 1 .. n
        /\ fs = <<>> => 0 = c
        /\ fs # <<>> => fs[1].address = 0 /\ EndOf(fs[n], z) = c
        /\ \A i \in 1 .. (n - 1) : fs[i + 1].address = EndOf(fs[i], z)
    BY ONLY <2>2, LenProperties DEF Chain
  <2>5. n # 0 => fs # <<>>
    <3>1. Len(<<>>) = 0
      OBVIOUS
    <3> QED
      BY ONLY <3>1
  <2>6. ASSUME NEW i \in DOMAIN fs
        PROVE  fs[i].address = IF i = 1 THEN 0 ELSE End(s, i - 1)
    <3>1. i \in 1 .. n /\ n # 0
      <4>1. i \in 1 .. n /\ n \in Nat
        BY ONLY <2>4, <2>6
      <4> HIDE DEF n
      <4> QED
        BY ONLY <4>1
    <3>2. CASE i = 1
      BY ONLY <2>4, <2>5, <3>1, <3>2
    <3>3. CASE i # 1
      <4>1. i - 1 \in 1 .. (n - 1) /\ (i - 1) + 1 = i
        <5> HIDE DEF n
        <5> QED
          BY ONLY <2>4, <3>1, <3>3
      <4>2. fs[(i - 1) + 1].address = EndOf(fs[i - 1], z)
        BY ONLY <2>4, <4>1
      <4> QED
        BY ONLY <2>3, <3>3, <4>1, <4>2
    <3> QED
      BY ONLY <3>2, <3>3
  <2>7. ASSUME NEW i \in DOMAIN fs, NEW j \in DOMAIN fs, fs[i].name = fs[j].name
        PROVE  i = j
    BY ONLY <2>2, <2>7 DEF Unlike
  <2>8. c = IF fs = <<>> THEN 0 ELSE End(s, n)
    BY ONLY <2>3, <2>4
  <2>9. /\ tree[s].size # Unknown => c <= tree[s].size
        /\ ~piped /\ tree[s].gen = Done => tree[s].size = c
    BY ONLY <2>2 DEF SizesOK
  <2>10. ASSUME NEW where \in 0 .. (c - 1)
         PROVE  LET i == LowerBound(tree, s, where) + 1
                IN i \in DOMAIN fs /\ fs[i].address <= where /\ where < End(s, i)
    <3> DEFINE i == LowerBound(tree, s, where) + 1
    <3>1. /\ i \in DOMAIN fs /\ fs[i].address <= where
          /\ where < fs[i].address + SizeOf(tree, fs[i])
      BY ONLY <2>2, <2>10, FieldIsFound
    <3> HIDE DEF i
    <3>2. i \in DOMAIN fs /\ fs[i].address <= where /\ where < End(s, i)
      BY ONLY <3>1 DEF End
    <3> QED
      BY ONLY <3>2 DEF i
  <2> QED
    BY ONLY <2>6, <2>7, <2>8, <2>9, <2>10
<1>4. {"root"} \cup (IF Present THEN {"sub"} ELSE {}) \subseteq Sets
  BY DEF Sets
<1> QED
  BY ONLY <1>1, <1>3, <1>4 DEF Contiguous

\* The parser and its set begin empty, with the sizes that are known.
LEMMA InitHolds ==
    ASSUME Init
    PROVE  FieldSetInv
<1> DEFINE size == IF piped THEN Unknown ELSE StreamSize
<1>1. /\ script \in [root : RootScripts, sub : SubScripts]
      /\ given \in SubSizes /\ autofix \in BOOLEAN /\ piped \in BOOLEAN
      /\ tree = [root |-> Empty(size), sub |-> Empty(given)]
      /\ address = 0
      /\ goal = [s \in Sets |-> Idle] /\ adding = FALSE /\ answer = "none"
      /\ iter = [state |-> "off", done |-> 0, snap |-> <<>>] /\ seen = <<>>
      /\ kept = FALSE /\ edited = FALSE
  BY ONLY Init DEF Init
<1>2. "root" \in Sets /\ "sub" \in Sets /\ "root" # "sub" /\ Sets = {"root", "sub"}
  BY DEF Sets
<1>3. InputsOK
  BY ONLY <1>1 DEF InputsOK
<1>4. HistoryOK
  <2>1. <<>> \in Seq(Fields)
    OBVIOUS
  <2>2. Idle \in Goals /\ Idle.want # "next"
    BY DEF Goals, Idle
  <2>3. answer \in Answers /\ iter \in IterT
    BY ONLY <1>1, <2>1 DEF Answers, IterT, Iterations
  <2> QED
    BY ONLY <1>1, <2>1, <2>2, <2>3 DEF HistoryOK
<1>5. given \in OptSize /\ size \in OptSize
  <2>1. StreamSize \in Nat
    BY ONLY Unlikely
  <2> QED
    BY ONLY <1>1, <2>1, FieldSetAssumption DEF FieldSetAssumption, OptSize
<1>6. size = Unknown => piped
  BY ONLY Unlikely
<1>7. ~piped => size = StreamSize
  OBVIOUS
<1> HIDE DEF size
<1>8. DOMAIN tree = Sets /\ tree.root = Empty(size) /\ tree.sub = Empty(given)
  BY ONLY <1>1, <1>2
<1>9. \A s \in Sets : SetOK(tree[s], tree.sub.size, piped, edited) /\ tree[s].gen = 1
  BY ONLY <1>2, <1>5, <1>8, EmptyOK
<1>10. /\ ~HasSet(tree.sub.fields) /\ OneSet(tree.root.fields) /\ tree.root.size = size
       /\ ~HasSet(tree.root.fields)
  BY ONLY <1>5, <1>8, EmptyOK
<1>11. TreeOK(tree, piped, edited)
  BY ONLY <1>7, <1>8, <1>9, <1>10 DEF TreeOK
<1>12. GensOK
  <2>1. RootScripts \subseteq Seq(Items) /\ SubScripts \subseteq Seq(Items)
    BY ONLY FieldSetAssumption DEF FieldSetAssumption
  <2>2. script.root \in RootScripts /\ script.sub \in SubScripts
    BY ONLY <1>1
  <2>3. Len(script.root) \in Nat /\ Len(script.sub) \in Nat
    BY ONLY <2>1, <2>2, LenProperties
  <2>4. 1 \in 0 .. (Len(script.root) + 1) /\ 1 \in 0 .. (Len(script.sub) + 1)
    BY ONLY <2>3
  <2> QED
    BY ONLY <1>2, <1>9, <2>4 DEF GensOK
<1>13. AddingOK
  BY ONLY <1>1, <1>10 DEF AddingOK
<1>14. address \in Nat /\ adding \in BOOLEAN /\ kept \in BOOLEAN /\ edited \in BOOLEAN
  BY ONLY <1>1
<1> QED
  BY ONLY <1>3, <1>4, <1>11, <1>12, <1>13, <1>14 DEF FieldSetInv

\* Every step keeps the invariant, whoever calls and whatever the
\* generators yield.
LEMMA NextKeeps ==
    ASSUME FieldSetInv, [Next]_vars
    PROVE  FieldSetInv'
<1>1. CASE UNCHANGED vars
  <2>1. /\ script' = script /\ given' = given /\ autofix' = autofix /\ piped' = piped
        /\ tree' = tree /\ address' = address /\ goal' = goal /\ adding' = adding
        /\ answer' = answer /\ iter' = iter /\ seen' = seen /\ kept' = kept /\ edited' = edited
    BY ONLY <1>1 DEF vars, inputs
  <2>2. InputsOK' = InputsOK /\ HistoryOK' = HistoryOK /\ GensOK' = GensOK
    BY ONLY <2>1 DEF InputsOK, HistoryOK, GensOK
  <2>3. AddingOK' = AddingOK
    <3>1. SetName' = SetName
      BY ONLY <2>1 DEF SetName
    <3>2. NoSetAhead' = NoSetAhead
      BY ONLY <2>1 DEF NoSetAhead
    <3>3. Waiting' = Waiting
      BY ONLY <2>1, <3>1 DEF Waiting
    <3> QED
      BY ONLY <2>1, <3>2, <3>3 DEF AddingOK
  <2> QED
    BY ONLY FieldSetInv, <2>1, <2>2, <2>3 DEF FieldSetInv
<1>2. ASSUME NEW s \in Sets, GenEnds(s) \/ GenFails(s) \/ AddData(s)
      PROVE  FieldSetInv'
  <2>1. Fed(s) /\ UNCHANGED <<inputs, address, adding, kept, edited>>
    BY ONLY <1>2 DEF GenEnds, GenFails, AddData
  <2>2. FedStep(s)
    BY ONLY FieldSetInv, <1>2, GenEndsStep, GenFailsStep, AddDataStep
  <2> QED
    BY ONLY FieldSetInv, s \in Sets, <2>1, <2>2, FedKeeps
<1>3. CASE OpenSet
  BY ONLY FieldSetInv, <1>3, OpenSetKeeps
<1>4. CASE FinishAdd
  BY ONLY FieldSetInv, <1>4, FinishAddKeeps
<1>5. CASE IterNext
  BY ONLY FieldSetInv, <1>5, IterNextKeeps
<1>6. CASE Discover
  BY ONLY FieldSetInv, <1>6, DiscoverKeeps
<1>7. ASSUME NEW s \in Sets, NEW g \in Requests(s), Call(s, g)
      PROVE  FieldSetInv'
  BY ONLY FieldSetInv, <1>7, CallKeeps
<1>8. ASSUME NEW i \in DOMAIN tree.root.fields, NEW offset \in 0..1, WriteFieldsIn(i, offset, 1)
      PROVE  FieldSetInv'
  <2>1. offset \in Nat /\ 1 \in Nat
    BY ONLY <1>8
  <2> QED
    BY ONLY FieldSetInv, <1>8, <2>1, WriteKeeps
<1> QED
  BY ONLY [Next]_vars, <1>1, <1>2, <1>3, <1>4, <1>5, <1>6, <1>7, <1>8 DEF Next

\* At any moment of any parse, whatever is asked for in which order: the
\* fields of the parser and of its set are chains from 0 to _current_size,
\* with names of their own and a raw field only at the end; a set that is
\* complete has its size; the set that is being added is the item before
\* the next one and is not a field yet.
THEOREM FieldSetInvariant == Spec => []FieldSetInv
<1>1. Init => FieldSetInv
  BY ONLY InitHolds
<1>2. FieldSetInv /\ [Next]_vars => FieldSetInv'
  BY ONLY NextKeeps
<1> QED
  BY <1>1, <1>2, PTL DEF Spec

\* After any calls, truncations (_truncate), repairs (autofix) and
\* replacements (writeFieldsIn) the fields of a set follow each other
\* without a gap or an overlap, and getFieldByAddress finds the field that
\* holds an address.
THEOREM FieldsContiguous == Spec => []Contiguous
<1>1. FieldSetInv => Contiguous
  BY ONLY InvIsContiguous
<1> QED
  BY <1>1, FieldSetInvariant, PTL

-----------------------------------------------------------------------------
\* 8. An iteration of the parser (__iter__).

\* s is how t begins; the sequence n goes on in t where s ends.
Begins(s, t) == Len(s) <= Len(t) /\ \A i \in 1 .. Len(s) : s[i] = t[i]
Follows(s, n, t) ==
    Len(s) + Len(n) <= Len(t) /\ \A i \in 1 .. Len(n) : n[i] = t[Len(s) + i]

\* A prefix is what begins a sequence.
LEMMA BeginsIsPrefix ==
    ASSUME NEW s \in Seq(Fields), NEW t \in Seq(Fields), Begins(s, t)
    PROVE  IsPrefix(s, t)
<1> DEFINE n == Len(s)
           p == SubSeq(s, 1, Len(s))
           q == SubSeq(t, 1, Len(s))
<1>1. n \in Nat /\ Len(t) \in Nat /\ n <= Len(t) /\ \A i \in 1 .. n : s[i] = t[i]
  BY ONLY s \in Seq(Fields), t \in Seq(Fields), Begins(s, t), LenProperties DEF Begins
<1>2. \A i \in 1 .. n : s[i] \in Fields /\ t[i] \in Fields
  BY ONLY <1>1, s \in Seq(Fields), ElementOfSeq
<1>3. 1 \in Int /\ n \in Int /\ (1 <= n + 1 \/ n = 0) /\ n - 1 + 1 = n /\ n + 1 - 1 = n
  <2> HIDE DEF n
  <2> QED
    BY ONLY <1>1
<1>4. /\ p \in Seq(Fields) /\ Len(p) = n /\ \A i \in 1 .. n : p[i] = s[i]
      /\ q \in Seq(Fields) /\ Len(q) = n /\ \A i \in 1 .. n : q[i] = t[i]
  <2>1. 1 .. n = 1 .. Len(s) /\ (IF 1 <= n THEN n - 1 + 1 ELSE 0) = n
    <3> HIDE DEF n
    <3>1. (IF 1 <= n THEN n - 1 + 1 ELSE 0) = n
      BY ONLY <1>1
    <3> QED
      BY ONLY <3>1 DEF n
  <2> HIDE DEF n
  <2>2. /\ SubSeq(s, 1, n) \in Seq(Fields)
        /\ Len(SubSeq(s, 1, n)) = IF 1 <= n THEN n - 1 + 1 ELSE 0
        /\ \A i \in 1 .. (n - 1 + 1) : SubSeq(s, 1, n)[i] = s[1 + i - 1]
    BY ONLY <1>2, <1>3, s \in Seq(Fields), SubSeqProperties
  <2>3. /\ SubSeq(t, 1, n) \in Seq(Fields)
        /\ Len(SubSeq(t, 1, n)) = IF 1 <= n THEN n - 1 + 1 ELSE 0
        /\ \A i \in 1 .. (n - 1 + 1) : SubSeq(t, 1, n)[i] = t[1 + i - 1]
    BY ONLY <1>2, <1>3, t \in Seq(Fields), SubSeqProperties
  <2>4. n - 1 + 1 = n /\ \A i \in 1 .. n : 1 + i - 1 = i
    BY ONLY <1>1
  <2>5. p = SubSeq(s, 1, n) /\ q = SubSeq(t, 1, n)
    BY ONLY DEF n
  <2> HIDE DEF p, q
  <2> QED
    BY ONLY <2>1, <2>2, <2>3, <2>4, <2>5
<1>5. p = q
  <2> HIDE DEF p, q, n
  <2>1. \A i \in 1 .. Len(p) : p[i] = q[i]
    BY ONLY <1>1, <1>4
  <2> QED
    BY ONLY <1>4, <2>1, SeqEqual
<1> QED
  BY ONLY <1>1, <1>5 DEF IsPrefix

\* An iteration and what it has taken stay valid when a field is added.
LEMMA GrowBegins ==
    ASSUME NEW s \in Seq(Fields), NEW n \in Seq(Fields), NEW t \in Seq(Fields), Begins(s, t),
           NEW f, NEW u, u = t \/ Longer(t, u, f)
    PROVE  Begins(s, u) /\ (Follows(s, n, t) => Follows(s, n, u))
<1> DEFINE a == Len(s)
           b == Len(n)
           c == Len(t)
<1>1. a \in Nat /\ b \in Nat /\ c \in Nat
  BY ONLY s \in Seq(Fields), n \in Seq(Fields), t \in Seq(Fields), LenProperties
<1>2. CASE u = t
  BY ONLY <1>2, Begins(s, t)
<1>3. CASE Longer(t, u, f)
  <2>1. /\ Len(u) = c + 1 /\ \A i \in 1 .. c : u[i] = t[i]
    BY ONLY <1>3, t \in Seq(Fields), AppendProperties DEF Longer
  <2>2. a <= c /\ \A i \in 1 .. a : s[i] = t[i]
    BY ONLY Begins(s, t) DEF Begins
  <2>3. a <= c + 1 /\ (\A i \in 1 .. a : i \in 1 .. c)
        /\ (a + b <= c => a + b <= c + 1 /\ \A i \in 1 .. b : a + i \in 1 .. c)
    <3> HIDE DEF a, b, c
    <3> QED
      BY ONLY <1>1, <2>2
  <2>4. Begins(s, u)
    BY ONLY <2>1, <2>2, <2>3 DEF Begins
  <2>5. ASSUME Follows(s, n, t)
        PROVE  Follows(s, n, u)
    <3>1. a + b <= c /\ \A i \in 1 .. b : n[i] = t[a + i]
      BY ONLY <2>5 DEF Follows
    <3>2. a + b <= Len(u) /\ \A i \in 1 .. b : n[i] = u[a + i]
      BY ONLY <2>1, <2>3, <3>1
    <3> QED
      BY ONLY <3>2 DEF Follows
  <2> QED
    BY ONLY <2>4, <2>5
<1> QED
  BY ONLY <1>2, <1>3, u = t \/ Longer(t, u, f)

\* What waits for the field that is added goes on with it.
LEMMA BothLonger ==
    ASSUME NEW s \in Seq(Fields), NEW t \in Seq(Fields), Begins(s, t), Len(s) = Len(t),
           NEW f, NEW r, NEW u, Longer(s, r, f), Longer(t, u, f)
    PROVE  Begins(r, u) /\ Len(r) = Len(u)
<1> DEFINE c == Len(t)
<1>1. c \in Nat /\ Len(s) = c
  BY ONLY t \in Seq(Fields), Len(s) = Len(t), LenProperties
<1>2. /\ Len(r) = c + 1 /\ (\A i \in 1 .. c : r[i] = s[i]) /\ r[c + 1] = f
      /\ Len(u) = c + 1 /\ (\A i \in 1 .. c : u[i] = t[i]) /\ u[c + 1] = f
  BY ONLY <1>1, s \in Seq(Fields), t \in Seq(Fields), Longer(s, r, f), Longer(t, u, f),
     AppendProperties DEF Longer
<1>3. \A i \in 1 .. c : s[i] = t[i]
  BY ONLY <1>1, Begins(s, t) DEF Begins
<1> HIDE DEF c
<1>4. \A i \in 1 .. (c + 1) : i \in 1 .. c \/ i = c + 1
  BY ONLY <1>1
<1>5. c + 1 <= c + 1
  BY ONLY <1>1
<1> QED
  BY ONLY <1>2, <1>3, <1>4, <1>5 DEF Begins

\* The next field of those that follow is yielded.
LEMMA YieldFollows ==
    ASSUME NEW s \in Seq(Fields), NEW n \in Seq(Fields), NEW t \in Seq(Fields), n # <<>>,
           Begins(s, t), Follows(s, n, t)
    PROVE  LET r == Append(s, Head(n))
           IN Begins(r, t) /\ Follows(r, Tail(n), t) /\ Len(r) = Len(s) + 1
<1> DEFINE r == Append(s, Head(n))
           m == Tail(n)
           a == Len(s)
           b == Len(n)
           c == Len(t)
<1>1. a \in Nat /\ b \in Nat /\ c \in Nat
  BY ONLY s \in Seq(Fields), n \in Seq(Fields), t \in Seq(Fields), LenProperties
<1>2. b # 0
  BY ONLY n \in Seq(Fields), n # <<>>, EmptySeq
<1>3. Head(n) = n[1] /\ Head(n) \in Fields /\ Len(m) = b - 1 /\ \A i \in 1 .. (b - 1) : m[i] = n[i + 1]
  BY ONLY n \in Seq(Fields), n # <<>>, HeadTailProperties
<1>4. Len(r) = a + 1 /\ (\A i \in 1 .. a : r[i] = s[i]) /\ r[a + 1] = n[1]
  BY ONLY <1>3, s \in Seq(Fields), AppendProperties
<1>5. a <= c /\ \A i \in 1 .. a : s[i] = t[i]
  BY ONLY Begins(s, t) DEF Begins
<1>6. a + b <= c /\ \A i \in 1 .. b : n[i] = t[a + i]
  BY ONLY Follows(s, n, t) DEF Follows
<1> HIDE DEF r, m, a, b, c
<1>7. a + 1 <= c /\ 1 \in 1 .. b /\ (a + 1) + (b - 1) <= c
  BY ONLY <1>1, <1>2, <1>6
<1>8. \A i \in 1 .. (a + 1) : i \in 1 .. a \/ i = a + 1
  BY ONLY <1>1
<1>9. \A i \in 1 .. (b - 1) : i + 1 \in 1 .. b /\ a + (i + 1) = (a + 1) + i
  BY ONLY <1>1
<1>10. \A i \in 1 .. (a + 1) : r[i] = t[i]
  BY ONLY <1>4, <1>5, <1>6, <1>7, <1>8
<1>11. \A i \in 1 .. (b - 1) : m[i] = t[(a + 1) + i]
  BY ONLY <1>3, <1>6, <1>9
<1>12. Begins(r, t)
  BY ONLY <1>4, <1>7, <1>10 DEF Begins, c
<1>13. Follows(r, m, t)
  BY ONLY <1>3, <1>4, <1>7, <1>11 DEF Follows, c
<1> QED
  BY ONLY <1>4, <1>12, <1>13 DEF r, m, a

\* What an iteration has not seen follows what it has.
LEMMA RestFollows ==
    ASSUME NEW s \in Seq(Fields), NEW t \in Seq(Fields), Begins(s, t), Len(s) < Len(t)
    PROVE  LET n == SubSeq(t, Len(s) + 1, Len(t))
           IN n \in Seq(Fields) /\ n # <<>> /\ Follows(s, n, t)
<1> DEFINE a == Len(s)
           c == Len(t)
           n == SubSeq(t, a + 1, c)
<1>1. a \in Nat /\ c \in Nat /\ a < c
  BY ONLY s \in Seq(Fields), t \in Seq(Fields), Len(s) < Len(t), LenProperties
<1>2. \A i \in 1 .. c : t[i] \in Fields
  BY ONLY t \in Seq(Fields), ElementOfSeq
<1> HIDE DEF a, c
<1>3. /\ a + 1 \in Int /\ c \in Int /\ a + 1 <= c /\ c - (a + 1) + 1 = c - a
      /\ (\A i \in (a + 1) .. c : i \in 1 .. c) /\ c - a # 0 /\ a + (c - a) <= c
      /\ \A i \in 1 .. (c - a) : (a + 1) + i - 1 = a + i
  BY ONLY <1>1
<1>4. \A i \in (a + 1) .. c : t[i] \in Fields
  BY ONLY <1>2, <1>3
<1>5. /\ n \in Seq(Fields)
      /\ Len(n) = IF a + 1 <= c THEN c - (a + 1) + 1 ELSE 0
      /\ \A i \in 1 .. (c - (a + 1) + 1) : n[i] = t[(a + 1) + i - 1]
  BY ONLY <1>3, <1>4, t \in Seq(Fields), SubSeqProperties
<1> HIDE DEF n
<1>6. Len(n) = c - a /\ \A i \in 1 .. (c - a) : n[i] = t[a + i]
  BY ONLY <1>3, <1>5
<1>7. n # <<>>
  <2>1. Len(<<>>) = 0
    OBVIOUS
  <2> QED
    BY ONLY <1>3, <1>6, <2>1
<1>8. Follows(s, n, t)
  BY ONLY <1>3, <1>6 DEF Follows, a, c
<1> QED
  BY ONLY <1>5, <1>7, <1>8 DEF n, a, c

\* An iteration of a parser of known size in which nothing was replaced: it has seen how
\* the fields begin, and what it took follows; while it waits for a field it has seen all.
IterCore ==
    /\ iter.state # "spinning" /\ Begins(seen, tree.root.fields)
    /\ iter.state \in {"off", "at", "feeding"} =>
         iter.done = Len(seen) /\ Follows(seen, iter.snap, tree.root.fields)
    /\ iter.state = "feeding" => iter.snap = <<>>
    /\ goal.root.want = "next" => iter.state = "feeding" /\ Len(seen) = Len(tree.root.fields)
    /\ iter.state = "ended" =>
         tree.root.gen = Done /\ (~kept => Len(seen) = Len(tree.root.fields))

\* A set that is added begins where the parser ends; what it holds fits while it is fed.
AddsAtEnd ==
    adding => /\ tree.root.gen # Done /\ address = tree.root.current
              /\ goal.sub # Idle \/ answer = "error" => Waits(tree)

IterInv == ~piped /\ ~edited => IterCore /\ AddsAtEnd

\* What a step does to the fields of the parser and to its iteration.
Steps(fs) ==
    /\ \/ tree'.root.fields = fs
       \/ tree.root.gen # Done /\ \E f \in Fields : Longer(fs, tree'.root.fields, f)
    /\ goal.root.want # "next" => iter' = iter /\ seen' = seen /\ goal'.root.want # "next"
    /\ goal.root.want = "next" =>
         /\ goal'.root = Idle
         /\ \/ iter' = iter /\ seen' = seen
            \/ /\ iter'.state \in {"ended", "failed"}
               /\ iter'.state = "ended" => tree'.root.gen = Done
               /\ \/ seen' = seen /\ tree'.root.fields = fs
                  \/ \E f \in Fields : Longer(seen, seen', f) /\ Longer(fs, tree'.root.fields, f)

\* A step of feeding the parser keeps what is said of an iteration.
LEMMA StepsKeep ==
    ASSUME HistoryOK, IterCore, NEW fs \in Seq(Fields), fs = tree.root.fields, Steps(fs),
           tree'.root.gen # Done => tree.root.gen # Done,
           kept' = kept \/ tree.root.gen # Done
    PROVE  IterCore'
<1> DEFINE gs == tree'.root.fields
<1>1. /\ iter.state # "spinning" /\ Begins(seen, fs)
      /\ iter.state \in {"off", "at", "feeding"} => iter.done = Len(seen) /\ Follows(seen, iter.snap, fs)
      /\ iter.state = "feeding" => iter.snap = <<>>
      /\ goal.root.want = "next" => iter.state = "feeding" /\ Len(seen) = Len(fs)
      /\ iter.state = "ended" => tree.root.gen = Done /\ (~kept => Len(seen) = Len(fs))
  BY ONLY IterCore, fs = tree.root.fields DEF IterCore
<1>2. seen \in Seq(Fields) /\ iter.snap \in Seq(Fields)
  BY ONLY HistoryOK DEF HistoryOK, IterT
<1>3. gs = fs \/ (tree.root.gen # Done /\ \E f \in Fields : Longer(fs, gs, f))
  BY ONLY Steps(fs) DEF Steps
<1> HIDE DEF gs
<1>4. /\ Begins(seen, gs)
      /\ Follows(seen, iter.snap, fs) => Follows(seen, iter.snap, gs)
  BY ONLY <1>1, <1>2, <1>3, fs \in Seq(Fields), GrowBegins
<1>5. CASE iter' = iter /\ seen' = seen /\ goal'.root.want # "next"
  <2>1. iter.state = "ended" => gs = fs /\ tree'.root.gen = Done /\ kept' = kept
    BY ONLY <1>1, <1>3, tree'.root.gen # Done => tree.root.gen # Done,
       kept' = kept \/ tree.root.gen # Done
  <2> QED
    BY ONLY <1>1, <1>4, <1>5, <2>1 DEF IterCore, gs
<1>6. CASE /\ goal.root.want = "next" /\ goal'.root = Idle
           /\ iter'.state \in {"ended", "failed"}
           /\ iter'.state = "ended" => tree'.root.gen = Done
           /\ \/ seen' = seen /\ gs = fs
              \/ \E f \in Fields : Longer(seen, seen', f) /\ Longer(fs, gs, f)
  <2>1. Begins(seen', gs) /\ Len(seen') = Len(gs)
    <3>1. Begins(seen, fs) /\ Len(seen) = Len(fs)
      BY ONLY <1>1, <1>6
    <3>2. CASE seen' = seen /\ gs = fs
      BY ONLY <3>1, <3>2
    <3>3. ASSUME NEW f \in Fields, Longer(seen, seen', f), Longer(fs, gs, f)
          PROVE  Begins(seen', gs) /\ Len(seen') = Len(gs)
      BY ONLY <1>2, <3>1, <3>3, fs \in Seq(Fields), BothLonger
    <3> QED
      BY ONLY <1>6, <3>2, <3>3
  <2>2. Idle.want # "next"
    BY DEF Idle
  <2>3. iter'.state \notin {"off", "at", "feeding", "spinning"}
    BY ONLY <1>6
  <2> QED
    BY ONLY <1>6, <2>1, <2>2, <2>3 DEF IterCore, gs
<1>7. Idle.want # "next"
  BY DEF Idle
<1> QED
  BY ONLY <1>5, <1>6, <1>7, Steps(fs) DEF Steps, gs

\* A step of feeding, as a step of the parser.
LEMMA StepsFrom ==
    ASSUME HistoryOK, ~piped, NEW t, t.root.fields = tree.root.fields, t.root.gen = tree.root.gen,
           IterStep("root", t), goal'.root = Idle \/ goal'.root.want = goal.root.want
    PROVE  Steps(tree.root.fields)
<1>1. Idle.want # "next"
  BY DEF Idle
<1> QED
  BY ONLY <1>1, ~piped, t.root.fields = tree.root.fields, t.root.gen = tree.root.gen,
     IterStep("root", t), goal'.root = Idle \/ goal'.root.want = goal.root.want DEF IterStep, Steps

\* A step of feeding keeps what is said of an iteration and of a set that
\* is added.
LEMMA FedKeepsIter ==
    ASSUME FieldSetInv, IterInv, NEW s \in Sets, Fed(s), FedStep(s),
           UNCHANGED <<inputs, address, adding, kept, edited>>
    PROVE  IterInv'
<1>1. /\ HistoryOK /\ TreeOK(tree, piped, edited) /\ AddingOK
  BY ONLY FieldSetInv DEF FieldSetInv
<1>2. /\ piped' = piped /\ address' = address /\ adding' = adding /\ kept' = kept /\ edited' = edited
  BY ONLY UNCHANGED <<inputs, address, adding, kept, edited>> DEF inputs
<1>3. SUFFICES ASSUME ~piped, ~edited, IterCore, AddsAtEnd
               PROVE  IterCore' /\ AddsAtEnd'
  BY <1>2 DEF IterInv
<1>4. /\ IterStep(s, tree)
      /\ tree'[s].gen # Done => tree[s].gen # Done
      /\ goal'[s] = Idle \/ goal'[s].want = goal[s].want
      /\ s = "sub" /\ goal.sub.want = "all" /\ Waits(tree)
           /\ (goal'.sub # Idle \/ answer' = "error") => Waits(tree')
  BY ONLY FedStep(s) DEF FedStep, FeedStep
<1>5. CASE s = "root"
  <2>1. ~adding
    BY ONLY <1>5, Fed(s) DEF Fed
  <2>2. Steps(tree.root.fields)
    BY ONLY <1>1, <1>3, <1>4, <1>5, StepsFrom
  <2>3. tree.root.fields \in Seq(Fields)
    BY ONLY <1>1, <1>5, s \in Sets, TreeFacts
  <2>4. tree'.root.gen # Done => tree.root.gen # Done
    BY ONLY <1>4, <1>5
  <2>5. IterCore'
    BY ONLY <1>1, <1>2, <1>3, <2>2, <2>3, <2>4, StepsKeep
  <2> QED
    BY ONLY <1>2, <2>1, <2>5 DEF AddsAtEnd
<1>6. CASE s = "sub"
  <2>1. tree'.root = tree.root /\ goal'.root = goal.root
    <3> DEFINE g == tree'[s].gen
               r == [tree EXCEPT ![s].gen = g]
    <3>1. DOMAIN tree = Sets
      BY ONLY <1>1, s \in Sets, TreeFacts
    <3>2. "root" \in Sets \ {s} /\ "root" # s
      BY ONLY <1>6 DEF Sets
    <3>3. r["root"] = tree["root"]
      BY ONLY <3>1, <3>2
    <3>4. \A o \in Sets \ {s} : tree'[o] = r[o] /\ goal'[o] = goal[o]
      BY ONLY FedStep(s) DEF FedStep, FeedStep
    <3> HIDE DEF r
    <3> QED
      BY ONLY <3>2, <3>3, <3>4
  <2>2. goal[s].want # "next"
    BY ONLY <1>1, <1>6, s \in Sets DEF HistoryOK
  <2>3. iter' = iter /\ seen' = seen
    BY ONLY <1>4, <2>2 DEF IterStep
  <2>4. IterCore'
    BY ONLY <1>2, <1>3, <2>1, <2>3 DEF IterCore
  <2>5. ASSUME adding
        PROVE  AddsAtEnd'
    <3>1. Waiting /\ goal.sub # Idle
      BY ONLY <1>1, <1>6, <2>5, Fed(s) DEF AddingOK, Fed
    <3>2. goal.sub.want = "all"
      BY ONLY <3>1 DEF Waiting
    <3>3. tree.root.gen # Done /\ address = tree.root.current /\ Waits(tree)
      BY ONLY <1>3, <2>5, <3>1 DEF AddsAtEnd
    <3>4. (goal'.sub # Idle \/ answer' = "error") => Waits(tree')
      BY ONLY <1>4, <1>6, <3>2, <3>3
    <3>5. Waits(tree') => Waits(tree)'
      BY ONLY <1>2 DEF Waits
    <3> QED
      BY ONLY <1>2, <2>1, <3>3, <3>4, <3>5 DEF AddsAtEnd
  <2>6. ASSUME ~adding
        PROVE  AddsAtEnd'
    BY ONLY <1>2, <2>6 DEF AddsAtEnd
  <2> QED
    BY ONLY <2>4, <2>5, <2>6
<1> QED
  BY ONLY <1>5, <1>6, s \in Sets DEF Sets

\* After a set with an error was kept, the parser is full.
LEMMA KeptKeepsIter ==
    ASSUME HistoryOK, IterCore, ~piped, tree.root.gen # Done, tree.root.fields \in Seq(Fields),
           NEW y, Left("root", y), SetField \in Fields, y.root.size = y.root.current,
           y.root.fields = Append(tree.root.fields, SetField), kept' = TRUE
    PROVE  IterCore'
<1> DEFINE fs == tree.root.fields
           gs == tree'.root.fields
<1>1. /\ iter.state # "spinning" /\ Begins(seen, fs)
      /\ iter.state \in {"off", "at", "feeding"} => iter.done = Len(seen) /\ Follows(seen, iter.snap, fs)
      /\ iter.state = "feeding" => iter.snap = <<>>
      /\ goal.root.want = "next" => iter.state = "feeding" /\ Len(seen) = Len(fs)
      /\ iter.state # "ended"
  BY ONLY IterCore, tree.root.gen # Done DEF IterCore
<1>2. seen \in Seq(Fields) /\ iter.snap \in Seq(Fields)
  BY ONLY HistoryOK DEF HistoryOK, IterT
<1>3. gs = y.root.fields /\ IterStep("root", y) /\ goal'.root = Idle
  BY ONLY Left("root", y), y.root.size = y.root.current DEF Left
<1>4. Longer(fs, gs, SetField)
  BY ONLY <1>3, SetField \in Fields, y.root.fields = Append(tree.root.fields, SetField) DEF Longer
<1> HIDE DEF gs
<1>5. /\ Begins(seen, gs)
      /\ Follows(seen, iter.snap, fs) => Follows(seen, iter.snap, gs)
  <2> HIDE DEF fs
  <2>1. fs \in Seq(Fields)
    BY ONLY tree.root.fields \in Seq(Fields) DEF fs
  <2> QED
    BY ONLY <1>1, <1>2, <1>4, <2>1, GrowBegins
<1>6. Idle.want # "next"
  BY DEF Idle
<1>7. CASE iter' = iter /\ seen' = seen
  BY ONLY <1>1, <1>3, <1>5, <1>6, <1>7 DEF IterCore, gs
<1>8. ASSUME NEW f, Longer(y.root.fields, gs, f)
      PROVE  FALSE
  <2> DEFINE n == Len(gs)
  <2>1. gs \in Seq(Fields)
    BY ONLY <1>4, tree.root.fields \in Seq(Fields), AppendProperties DEF Longer
  <2>2. gs = Append(gs, f) /\ f \in Fields
    BY ONLY <1>3, <1>8 DEF Longer
  <2>3. n \in Nat /\ Len(Append(gs, f)) = n + 1
    BY ONLY <2>1, <2>2, AppendProperties, LenProperties
  <2>4. n = n + 1
    BY ONLY <2>2, <2>3
  <2> HIDE DEF n
  <2> QED
    BY ONLY <2>3, <2>4
<1>9. CASE /\ iter'.state \in {"ended", "failed"}
           /\ iter'.state = "ended" => tree'["root"].gen = Done
           /\ seen' = seen
  BY ONLY <1>3, <1>5, <1>6, <1>9, kept' = TRUE DEF IterCore, gs
<1>10. \/ iter' = iter /\ seen' = seen
       \/ /\ iter'.state \in {"ended", "failed"}
          /\ iter'.state = "ended" => tree'["root"].gen = Done
          /\ seen' = seen
  <2>1. \/ iter' = iter /\ seen' = seen
        \/ /\ iter'.state \in {"ended", "failed"}
           /\ iter'.state = "ended" => tree'["root"].gen = Done
           /\ \/ seen' = seen
              \/ \E f \in Fields : Longer(y.root.fields, gs, f)
    BY ONLY <1>3 DEF IterStep, gs
  <2> QED
    BY ONLY <1>8, <2>1
<1> QED
  BY ONLY <1>7, <1>9, <1>10

\* The end of _addField with a set keeps what is said of an iteration: a
\* set with an error is kept only at the end of the stream, so the parser
\* is full and no raw field follows that the iteration would miss.
LEMMA FinishKeepsIter ==
    ASSUME FieldSetInv, IterInv, FinishAdd
    PROVE  IterInv'
<1>1. /\ HistoryOK /\ TreeOK(tree, piped, edited) /\ InputsOK
  BY ONLY FieldSetInv DEF FieldSetInv
<1>2. adding /\ adding' = FALSE /\ piped' = piped /\ edited' = edited
  BY ONLY FinishAdd DEF FinishAdd, inputs
<1>3. AddsAtEnd'
  BY ONLY <1>2 DEF AddsAtEnd
<1>4. SUFFICES ASSUME ~piped, ~edited, IterCore, AddsAtEnd
               PROVE  IterCore'
  BY <1>2, <1>3 DEF IterInv
<1>5. "root" \in Sets
  BY DEF Sets
<1>6. tree.root.gen # Done /\ address = tree.root.current
      /\ (answer = "error" => Waits(tree))
  BY ONLY <1>2, <1>4 DEF AddsAtEnd
<1>7. tree.root.fields \in Seq(Fields) /\ tree.root.size # Unknown
  <2>1. tree["root"].fields \in Seq(Fields)
    BY ONLY <1>1, <1>5, TreeFacts
  <2>2. tree.root.size = StreamSize
    BY ONLY <1>1, <1>4 DEF TreeOK
  <2> QED
    BY ONLY <2>1, <2>2, Unlikely
<1>8. FinishStep
  BY ONLY FieldSetInv, FinishAdd, FinishAddStep
<1>9. ASSUME NEW t, t.root = tree.root, IterStep("root", t), NEW y, FeedStep("root", y)
      PROVE  IterCore'
  <2>1. goal'.root = Idle \/ goal'.root.want = goal.root.want
    BY ONLY <1>9 DEF FeedStep
  <2>2. Steps(tree.root.fields)
    BY ONLY <1>1, <1>4, <1>9, <2>1, StepsFrom
  <2> DEFINE fs == tree.root.fields
  <2>3. fs \in Seq(Fields) /\ fs = tree.root.fields /\ Steps(fs)
    BY ONLY <1>7, <2>2
  <2> HIDE DEF fs
  <2> QED
    BY ONLY <1>1, <1>4, <1>6, <2>3, StepsKeep
<1>10. CASE Left("root", tree) /\ UNCHANGED kept
  BY ONLY <1>9, <1>10 DEF Left
<1>11. ASSUME NEW t, NEW raised, Fitted(t, raised), t.root = tree.root,
              IterStep("root", t) \/ kept' = raised,
              raised => /\ Eof(Looked) /\ answer = "error"
                        /\ tree.sub.size = Unknown => t.sub.size = tree.sub.current
       PROVE  IterCore'
  <2>1. PICK y : /\ FeedStep("root", y)
                 /\ \/ IterStep("root", t)
                    \/ /\ raised /\ Left("root", y) /\ SetField \in Fields
                       /\ y.root.fields = Append(t.root.fields, SetField)
                       /\ t.root.size # Unknown /\ address + t.sub.size >= t.root.size =>
                            y.root.size = y.root.current
    BY ONLY <1>11 DEF Fitted
  <2>2. CASE IterStep("root", t)
    BY ONLY <1>9, <1>11, <2>1, <2>2
  <2>3. CASE /\ ~IterStep("root", t)
             /\ raised /\ Left("root", y) /\ SetField \in Fields
             /\ y.root.fields = Append(t.root.fields, SetField)
             /\ t.root.size # Unknown /\ address + t.sub.size >= t.root.size =>
                  y.root.size = y.root.current
    <3>1. kept' = raised
      BY ONLY <1>11, <2>3
    <3>2. Eof(Looked) /\ Looked = tree
      BY ONLY FieldSetInv, <1>2, <1>7, <1>11, <2>3, LookedIs
    <3>3. Waits(tree)
      BY ONLY <1>6, <1>11, <2>3
    <3>4. tree.root.size < address + tree.sub.current + 1
      BY ONLY <3>2 DEF Eof
    <3>5. t.sub.size = tree.sub.current
      BY ONLY <1>11, <2>3, <3>3 DEF Waits
    <3>6. address + tree.sub.current >= tree.root.size
      <4>1. "sub" \in Sets
        BY DEF Sets
      <4>2. tree["sub"].current \in Nat /\ tree["root"].size \in OptSize
        BY ONLY <1>1, <1>5, <4>1, TreeFacts
      <4>3. tree.root.size \in Nat
        BY ONLY <1>7, <4>2 DEF OptSize
      <4>4. address \in Nat
        BY ONLY FieldSetInv DEF FieldSetInv
      <4> QED
        BY ONLY <3>4, <4>2, <4>3, <4>4
    <3>7. y.root.size = y.root.current
      BY ONLY <1>7, <1>11, <2>3, <3>5, <3>6
    <3>8. kept' = TRUE /\ y.root.fields = Append(tree.root.fields, SetField)
      BY ONLY <1>11, <2>3, <3>1, FieldSetInv, FinishAdd, <3>2
    <3> QED
      BY ONLY <1>1, <1>4, <1>6, <1>7, <2>3, <3>7, <3>8, KeptKeepsIter
  <2> QED
    BY ONLY <2>1, <2>2, <2>3
<1>12. ASSUME NEW t, NEW raised,
              /\ Ready(t) /\ Fitted(t, raised) /\ kept' \in {kept, raised} /\ raised \in BOOLEAN
              /\ t.root.gen \in {Done, tree.root.gen} /\ t.sub.gen \in {Done, tree.sub.gen}
              /\ IterStep("root", t) \/ kept' = raised
              /\ tree.root.size # Unknown => t.root = tree.root
              /\ raised => /\ Eof(Looked) /\ answer = "error"
                           /\ tree.sub.size = Unknown => t.sub.size = tree.sub.current
       PROVE  IterCore'
  BY ONLY <1>7, <1>11, <1>12
<1> QED
  BY ONLY <1>8, <1>10, <1>12 DEF FinishStep

\* The parser opens a set where it ends.
LEMMA OpenKeepsIter ==
    ASSUME FieldSetInv, IterInv, OpenSet
    PROVE  IterInv'
<1>1. /\ HistoryOK /\ TreeOK(tree, piped, edited) /\ InputsOK /\ GensOK /\ address \in Nat
  BY ONLY FieldSetInv DEF FieldSetInv
<1>2. "root" \in Sets /\ "sub" \in Sets /\ "root" # "sub" /\ Sets = {"root", "sub"}
  BY DEF Sets
<1> DEFINE t == Advanced("root")
           r == [t EXCEPT !.sub = Empty(given)]
           n == tree.root.gen + 1
<1>3. /\ HasItem("root") /\ tree' = r /\ address' = tree.root.current /\ adding' = TRUE
      /\ goal' = [goal EXCEPT !.sub = IF given = Unknown THEN [want |-> "all", n |-> 0] ELSE Idle]
      /\ answer' = "ok"
      /\ piped' = piped /\ iter' = iter /\ seen' = seen /\ kept' = kept /\ edited' = edited
  BY ONLY OpenSet DEF OpenSet, inputs
<1>4. /\ DOMAIN tree = Sets /\ DOMAIN tree["root"] = {"fields", "size", "current", "gen"}
      /\ tree["root"].gen \in Nat /\ tree["root"].current \in Nat
      /\ tree["root"].size # Unknown => tree["root"].size \in Nat /\ tree["root"].current <= tree["root"].size
  BY ONLY <1>1, <1>2, TreeFacts
<1>5. /\ r.sub = Empty(given) /\ r.root.fields = tree.root.fields /\ r.root.gen = n
      /\ r.root.size = tree.root.size /\ r.root.current = tree.root.current
  <2>1. DOMAIN t = Sets /\ t.root = [tree.root EXCEPT !.gen = n]
    BY ONLY <1>2, <1>4 DEF Advanced
  <2> HIDE DEF t, n
  <2>2. r.sub = Empty(given) /\ r.root = t.root
    BY ONLY <1>2, <2>1
  <2> HIDE DEF r
  <2> QED
    BY ONLY <1>4, <2>1, <2>2
<1>6. tree.root.gen # Done
  BY ONLY <1>3 DEF HasItem
<1>7. n # Done
  BY ONLY <1>4 DEF Done
<1> HIDE DEF r, n, t
<1>8. goal'.root = goal.root /\ (goal'.sub # Idle => given = Unknown)
  <2>1. goal \in [Sets -> Goals]
    BY ONLY <1>1 DEF HistoryOK
  <2> QED
    BY ONLY <1>2, <1>3, <2>1
<1>9. Empty(given).size = given /\ Empty(given).current = 0
  BY ONLY DEF Empty
<1>10. SUFFICES ASSUME ~piped, ~edited, IterCore
                PROVE  IterCore' /\ AddsAtEnd'
  BY <1>3 DEF IterInv
<1>11. IterCore'
  BY ONLY <1>3, <1>5, <1>6, <1>8, <1>10 DEF IterCore
<1>12. ASSUME goal'.sub # Idle
       PROVE  Waits(tree)'
  <2>1. tree.root.size # Unknown
    <3>1. tree.root.size = StreamSize
      BY ONLY <1>1, <1>10 DEF TreeOK
    <3> QED
      BY ONLY <3>1, Unlikely
  <2>2. tree.root.current + 0 <= tree.root.size
    BY ONLY <1>4, <2>1
  <2> QED
    BY ONLY <1>3, <1>5, <1>8, <1>9, <1>12, <2>1, <2>2 DEF Waits
<1>13. AddsAtEnd'
  BY ONLY <1>3, <1>5, <1>7, <1>12 DEF AddsAtEnd
<1> QED
  BY ONLY <1>11, <1>13

\* A call begins (_feedAll, readMoreFields, _feedUntil), which is not an
\* iteration.
LEMMA CallKeepsIter ==
    ASSUME FieldSetInv, IterInv, NEW s \in Sets, NEW g \in Requests(s), Call(s, g)
    PROVE  IterInv'
<1>1. goal \in [Sets -> Goals]
  BY ONLY FieldSetInv DEF FieldSetInv, HistoryOK
<1>2. /\ ~adding /\ goal' = [goal EXCEPT ![s] = g]
      /\ piped' = piped /\ tree' = tree /\ adding' = adding
      /\ iter' = iter /\ seen' = seen /\ kept' = kept /\ edited' = edited
  BY ONLY Call(s, g) DEF Call, AtRest, inputs
<1>3. g.want # "next"
  BY ONLY g \in Requests(s) DEF Requests
<1>4. goal'.root = goal.root \/ goal'.root = g
  BY ONLY <1>1, <1>2, s \in Sets DEF Sets
<1>5. IterCore => IterCore'
  BY ONLY <1>2, <1>3, <1>4 DEF IterCore
<1>6. AddsAtEnd'
  BY ONLY <1>2 DEF AddsAtEnd
<1> QED
  BY ONLY <1>2, <1>5, <1>6, IterInv DEF IterInv

\* The next step of an iteration yields the next field, begins to feed the
\* parser, or ends.
LEMMA IterNextKeepsIter ==
    ASSUME FieldSetInv, IterInv, IterNext
    PROVE  IterInv'
<1>1. HistoryOK /\ TreeOK(tree, piped, edited)
  BY ONLY FieldSetInv DEF FieldSetInv
<1> DEFINE fs == tree.root.fields
           total == Len(fs)
<1>2. /\ iter.state \in {"off", "at", "feeding"} /\ goal = [s \in Sets |-> Idle] /\ ~adding
      /\ \/ iter.snap # <<>> /\ Yield(iter.snap)
         \/ /\ iter.snap = <<>> /\ iter.done < total
            /\ Yield(SubSeq(fs, iter.done + 1, total))
         \/ /\ iter.snap = <<>> /\ iter.done = total
            /\ goal' = [goal EXCEPT !.root = [want |-> "next", n |-> 0]]
            /\ iter' = [iter EXCEPT !.state = "feeding"] /\ UNCHANGED seen
         \/ /\ iter.snap = <<>> /\ iter.done >= total
            /\ iter.done = total => tree.root.gen = Done
            /\ iter' = [iter EXCEPT !.state = IF iter.done > total THEN "spinning" ELSE "ended"]
            /\ UNCHANGED <<goal, seen>>
      /\ piped' = piped /\ tree' = tree /\ adding' = adding /\ kept' = kept /\ edited' = edited
  BY ONLY IterNext DEF IterNext, inputs
<1>3. seen \in Seq(Fields) /\ iter.snap \in Seq(Fields) /\ iter \in IterT /\ goal \in [Sets -> Goals]
  BY ONLY <1>1 DEF HistoryOK, IterT
<1>4. "root" \in Sets /\ Idle.want # "next"
  BY DEF Sets, Idle
<1>5. fs \in Seq(Fields)
  BY ONLY <1>1, <1>4, TreeFacts
<1>6. goal.root.want # "next"
  BY ONLY <1>2, <1>4
<1>7. AddsAtEnd'
  BY ONLY <1>2 DEF AddsAtEnd
<1>8. SUFFICES ASSUME IterCore
               PROVE  IterCore'
  BY <1>2, <1>7 DEF IterInv
<1>9. /\ Begins(seen, fs) /\ iter.done = Len(seen) /\ Follows(seen, iter.snap, fs)
  BY ONLY <1>2, <1>8 DEF IterCore
<1>10. Len(seen) \in Nat /\ total \in Nat /\ Len(seen) <= total
  BY ONLY <1>3, <1>5, <1>9, LenProperties DEF Begins
<1>11. ASSUME NEW n \in Seq(Fields), n # <<>>, Follows(seen, n, fs), Yield(n)
       PROVE  IterCore'
  <2>1. /\ seen' = Append(seen, Head(n)) /\ goal' = goal
        /\ iter' = [state |-> "at", done |-> iter.done + 1, snap |-> Tail(n)]
    BY ONLY <1>11 DEF Yield
  <2> DEFINE u == Append(seen, Head(n))
  <2>2. Begins(u, fs) /\ Follows(u, Tail(n), fs) /\ Len(u) = Len(seen) + 1
    BY ONLY <1>3, <1>5, <1>9, <1>11, YieldFollows
  <2> HIDE DEF u
  <2>3. seen' = u /\ iter'.state = "at" /\ iter'.done = Len(seen) + 1 /\ iter'.snap = Tail(n)
    BY ONLY <1>9, <2>1 DEF u
  <2> QED
    BY ONLY <1>2, <1>6, <2>1, <2>2, <2>3 DEF IterCore
<1>12. CASE iter.snap # <<>> /\ Yield(iter.snap)
  BY ONLY <1>3, <1>9, <1>11, <1>12
<1>13. CASE iter.done < total /\ Yield(SubSeq(fs, iter.done + 1, total))
  <2> DEFINE n == SubSeq(fs, Len(seen) + 1, Len(fs))
  <2>1. n \in Seq(Fields) /\ n # <<>> /\ Follows(seen, n, fs)
    <3>1. Len(seen) < Len(fs)
      BY ONLY <1>9, <1>13
    <3> HIDE DEF fs
    <3> QED
      BY ONLY <1>3, <1>5, <1>9, <3>1, RestFollows
  <2>2. Yield(n)
    BY ONLY <1>9, <1>13
  <2> HIDE DEF n
  <2> QED
    BY ONLY <1>11, <2>1, <2>2
<1>14. CASE /\ iter.snap = <<>> /\ iter.done = total
            /\ goal' = [goal EXCEPT !.root = [want |-> "next", n |-> 0]]
            /\ iter' = [iter EXCEPT !.state = "feeding"] /\ UNCHANGED seen
  <2>1. iter'.state = "feeding" /\ iter'.snap = <<>> /\ iter'.done = iter.done
    BY ONLY <1>3, <1>14 DEF IterT
  <2>2. Follows(seen, <<>>, fs) /\ Len(seen) = total
    BY ONLY <1>9, <1>14
  <2> QED
    BY ONLY <1>2, <1>9, <1>14, <2>1, <2>2 DEF IterCore
<1>15. CASE /\ iter.snap = <<>> /\ iter.done >= total
            /\ iter.done = total => tree.root.gen = Done
            /\ iter' = [iter EXCEPT !.state = IF iter.done > total THEN "spinning" ELSE "ended"]
            /\ UNCHANGED <<goal, seen>>
  <2>1. iter.done = total /\ ~(iter.done > total)
    <3> HIDE DEF total
    <3> QED
      BY ONLY <1>9, <1>10, <1>15
  <2>2. iter'.state = "ended" /\ tree.root.gen = Done /\ Len(seen) = total
    BY ONLY <1>3, <1>9, <1>15, <2>1 DEF IterT
  <2> QED
    BY ONLY <1>2, <1>6, <1>9, <1>15, <2>2 DEF IterCore
<1> QED
  BY ONLY <1>2, <1>12, <1>13, <1>14, <1>15

\* Nobody iterates yet, and no set is added.
LEMMA InitHoldsIter ==
    ASSUME Init
    PROVE  IterInv
<1>1. /\ tree = [root |-> Empty(IF piped THEN Unknown ELSE StreamSize), sub |-> Empty(given)]
      /\ goal = [s \in Sets |-> Idle] /\ adding = FALSE
      /\ iter = [state |-> "off", done |-> 0, snap |-> <<>>] /\ seen = <<>>
  BY ONLY Init DEF Init
<1>2. tree.root.fields = <<>> /\ goal.root.want # "next"
  BY ONLY <1>1 DEF Empty, Sets, Idle
<1>3. iter.state = "off" /\ iter.done = 0 /\ iter.snap = <<>>
  BY ONLY <1>1
<1>4. Len(<<>>) = 0
  OBVIOUS
<1>5. Begins(seen, tree.root.fields) /\ Follows(seen, iter.snap, tree.root.fields)
  BY ONLY <1>1, <1>2, <1>3, <1>4 DEF Begins, Follows
<1>6. IterCore
  BY ONLY <1>1, <1>2, <1>3, <1>4, <1>5 DEF IterCore
<1>7. AddsAtEnd
  BY ONLY <1>1 DEF AddsAtEnd
<1> QED
  BY ONLY <1>6, <1>7 DEF IterInv

\* Every step keeps what is said of an iteration: only _feed adds fields,
\* always behind those that were seen.
LEMMA NextKeepsIter ==
    ASSUME FieldSetInv, IterInv, [Next]_vars
    PROVE  IterInv'
<1>1. CASE UNCHANGED vars
  <2>1. /\ piped' = piped /\ given' = given
        /\ tree' = tree /\ address' = address /\ goal' = goal /\ adding' = adding
        /\ answer' = answer /\ iter' = iter /\ seen' = seen /\ kept' = kept /\ edited' = edited
    BY ONLY <1>1 DEF vars, inputs
  <2>2. IterCore' = IterCore
    BY ONLY <2>1 DEF IterCore
  <2>3. Waits(tree)' = Waits(tree)
    BY ONLY <2>1 DEF Waits
  <2>4. AddsAtEnd' = AddsAtEnd
    BY ONLY <2>1, <2>3 DEF AddsAtEnd
  <2> QED
    BY ONLY IterInv, <2>1, <2>2, <2>4 DEF IterInv
<1>2. ASSUME NEW s \in Sets, GenEnds(s) \/ GenFails(s) \/ AddData(s)
      PROVE  IterInv'
  <2>1. Fed(s) /\ UNCHANGED <<inputs, address, adding, kept, edited>>
    BY ONLY <1>2 DEF GenEnds, GenFails, AddData
  <2>2. FedStep(s)
    BY ONLY FieldSetInv, <1>2, GenEndsStep, GenFailsStep, AddDataStep
  <2> QED
    BY ONLY FieldSetInv, IterInv, s \in Sets, <2>1, <2>2, FedKeepsIter
<1>3. CASE OpenSet
  BY ONLY FieldSetInv, IterInv, <1>3, OpenKeepsIter
<1>4. CASE FinishAdd
  BY ONLY FieldSetInv, IterInv, <1>4, FinishKeepsIter
<1>5. CASE IterNext
  BY ONLY FieldSetInv, IterInv, <1>5, IterNextKeepsIter
<1>6. CASE Discover
  <2>1. piped'
    BY ONLY <1>6 DEF Discover, inputs
  <2> QED
    BY ONLY <2>1 DEF IterInv
<1>7. ASSUME NEW s \in Sets, NEW g \in Requests(s), Call(s, g)
      PROVE  IterInv'
  BY ONLY FieldSetInv, IterInv, <1>7, CallKeepsIter
<1>8. ASSUME NEW i \in DOMAIN tree.root.fields, NEW offset \in 0..1, WriteFieldsIn(i, offset, 1)
      PROVE  IterInv'
  <2>1. edited'
    BY ONLY <1>8, WriteIs
  <2> QED
    BY ONLY <2>1 DEF IterInv
<1> QED
  BY ONLY [Next]_vars, <1>1, <1>2, <1>3, <1>4, <1>5, <1>6, <1>7, <1>8 DEF Next

\* An iteration that has seen how the fields begin has seen them in order,
\* each one once; at its end it has seen them all.
LEMMA InvYieldsInOrder ==
    ASSUME FieldSetInv, IterInv
    PROVE  YieldsInOrder
<1>1. SUFFICES ASSUME ~piped, ~edited, IterCore
               PROVE  /\ iter.state # "spinning" /\ IsPrefix(seen, tree.root.fields)
                      /\ iter.state = "ended" /\ ~kept => Len(seen) = Len(tree.root.fields)
  BY IterInv DEF IterInv, YieldsInOrder
<1>2. /\ iter.state # "spinning" /\ Begins(seen, tree.root.fields)
      /\ iter.state = "ended" /\ ~kept => Len(seen) = Len(tree.root.fields)
  BY ONLY <1>1 DEF IterCore
<1>3. seen \in Seq(Fields)
  BY ONLY FieldSetInv DEF FieldSetInv, HistoryOK
<1>4. tree.root.fields \in Seq(Fields)
  <2>1. "root" \in Sets /\ TreeOK(tree, piped, edited)
    BY ONLY FieldSetInv DEF FieldSetInv, Sets
  <2> QED
    BY ONLY <2>1, TreeFacts
<1> QED
  BY ONLY <1>2, <1>3, <1>4, BeginsIsPrefix

\* What __iter__ has yielded is how the fields begin, what it took before
\* it was suspended follows, and while it waits for a field it has seen
\* all the others; a set is added where the parser ends. So no call of
\* another in between makes it skip or repeat a field.
THEOREM IterationInvariant == Spec => [](FieldSetInv /\ IterInv)
<1>1. Init => FieldSetInv /\ IterInv
  BY ONLY InitHolds, InitHoldsIter
<1>2. FieldSetInv /\ IterInv /\ [Next]_vars => (FieldSetInv /\ IterInv)'
  BY ONLY NextKeeps, NextKeepsIter
<1> QED
  BY <1>1, <1>2, PTL DEF Spec

\* If the size of the stream is known and no field was replaced, __iter__
\* yields the fields of the parser in their order and each one once,
\* whatever is added while it is suspended, and all of them when it ends
\* unless a set with an error was kept.
THEOREM FieldsYieldedInOrder == Spec => []YieldsInOrder
<1>1. FieldSetInv /\ IterInv => YieldsInOrder
  BY ONLY InvYieldsInOrder
<1> QED
  BY <1>1, IterationInvariant, PTL

-----------------------------------------------------------------------------
\* 9. What a complete parser holds: the sums of the items, how many fit,
\* and a set of fields that were made of items.

\* A function that sums the sizes of the items up to n.
Sums(f, items, n) == f = [k \in 0 .. n |-> IF k = 0 THEN 0 ELSE f[k - 1] + items[k].size]

\* Sum is the value at n of a function that sums.
LEMMA SumIsChosen ==
    ASSUME NEW items, NEW n
    PROVE  Sum(items, n) = (CHOOSE f : Sums(f, items, n))[n]
BY DEF Sum, Sums

\* There are such functions.
LEMMA SumsExist ==
    ASSUME NEW items \in Seq(Items), NEW n \in 0 .. Len(items)
    PROVE  \E f \in [0 .. n -> Nat] : Sums(f, items, n)
<1> DEFINE N == Len(items)
           S == {k \in 0 .. N : \E f \in [0 .. k -> Nat] : Sums(f, items, k)}
<1>1. N \in Nat /\ \A k \in 1 .. N : items[k] \in Items
  BY ONLY items \in Seq(Items), LenProperties, ElementOfSeq
<1>2. \A k \in 1 .. N : items[k].size \in Nat
  BY ONLY <1>1 DEF Items
<1> HIDE DEF N
<1>3. 0 \in S
  <2> DEFINE f == [k \in 0 .. 0 |-> 0]
  <2>1. f \in [0 .. 0 -> Nat]
    OBVIOUS
  <2>2. \A k \in 0 .. 0 : k = 0
    OBVIOUS
  <2>3. f = [k \in 0 .. 0 |-> IF k = 0 THEN 0 ELSE f[k - 1] + items[k].size]
    BY ONLY <2>2
  <2>4. 0 \in 0 .. N
    BY ONLY <1>1
  <2> HIDE DEF f
  <2> QED
    BY ONLY <2>1, <2>3, <2>4 DEF Sums
<1>4. ASSUME NEW k \in 0 .. (N - 1), k \in S
      PROVE  k + 1 \in S
  <2>1. PICK f \in [0 .. k -> Nat] : Sums(f, items, k)
    BY ONLY <1>4
  <2> DEFINE v == f[k] + items[k + 1].size
             g == [j \in 0 .. (k + 1) |-> IF j = k + 1 THEN v ELSE f[j]]
  <2>2. k \in Nat /\ k + 1 \in 1 .. N /\ k + 1 \in 0 .. N /\ k \in 0 .. k
    BY ONLY <1>1, k \in 0 .. (N - 1)
  <2>3. f[k] \in Nat /\ items[k + 1].size \in Nat
    BY ONLY <1>2, <2>1, <2>2
  <2>4. v \in Nat
    BY ONLY <2>3
  <2>5. \A j \in 0 .. (k + 1) : j = k + 1 \/ j \in 0 .. k
    BY ONLY <2>2
  <2>6. \A j \in 0 .. k : /\ j # k + 1 /\ j \in 0 .. (k + 1)
                          /\ j # 0 => j - 1 \in 0 .. k /\ j - 1 \in 0 .. (k + 1) /\ j - 1 # k + 1
    BY ONLY <2>2
  <2>7. k + 1 \in 0 .. (k + 1) /\ k + 1 # 0 /\ (k + 1) - 1 = k /\ k \in 0 .. (k + 1) /\ k # k + 1
    BY ONLY <2>2
  <2>8. \A j \in 0 .. k : f[j] = IF j = 0 THEN 0 ELSE f[j - 1] + items[j].size
    BY ONLY <2>1 DEF Sums
  <2>9. g \in [0 .. (k + 1) -> Nat]
    <3> HIDE DEF v
    <3> QED
      BY ONLY <2>1, <2>4, <2>5
  <2>10. /\ \A j \in 0 .. k : g[j] = f[j]
         /\ g[k + 1] = v
    BY ONLY <2>6, <2>7
  <2>11. DOMAIN g = 0 .. (k + 1) /\ g = [j \in 0 .. (k + 1) |-> g[j]]
    OBVIOUS
  <2> HIDE DEF g
  <2>12. \A j \in 0 .. (k + 1) : g[j] = IF j = 0 THEN 0 ELSE g[j - 1] + items[j].size
    <3>1. ASSUME NEW j \in 0 .. k
          PROVE  g[j] = IF j = 0 THEN 0 ELSE g[j - 1] + items[j].size
      BY ONLY <2>6, <2>8, <2>10, j \in 0 .. k
    <3>2. g[k + 1] = IF k + 1 = 0 THEN 0 ELSE g[(k + 1) - 1] + items[k + 1].size
      <4>1. k \in 0 .. k
        BY ONLY <2>2
      <4> QED
        BY ONLY <2>7, <2>10, <4>1
    <3> QED
      BY ONLY <2>5, <3>1, <3>2
  <2>13. g = [j \in 0 .. (k + 1) |-> IF j = 0 THEN 0 ELSE g[j - 1] + items[j].size]
    BY ONLY <2>11, <2>12
  <2> QED
    BY ONLY <2>2, <2>9, <2>13 DEF Sums
<1> HIDE DEF S
<1>5. \A k \in 0 .. N : k \in S
  BY ONLY <1>1, <1>3, <1>4, UpTo
<1> QED
  BY ONLY <1>5, n \in 0 .. Len(items) DEF S, N

\* Two of them agree where both are defined.
LEMMA SumsAgree ==
    ASSUME NEW items, NEW n \in Nat, NEW m \in Nat, n <= m,
           NEW f, Sums(f, items, n), NEW g, Sums(g, items, m)
    PROVE  \A k \in 0 .. n : f[k] = g[k]
<1> DEFINE S == {k \in 0 .. n : f[k] = g[k]}
<1>1. \A k \in 0 .. n : k \in 0 .. m
  BY ONLY n \in Nat, m \in Nat, n <= m
<1>2. /\ \A k \in 0 .. n : f[k] = IF k = 0 THEN 0 ELSE f[k - 1] + items[k].size
      /\ \A k \in 0 .. m : g[k] = IF k = 0 THEN 0 ELSE g[k - 1] + items[k].size
  BY ONLY Sums(f, items, n), Sums(g, items, m) DEF Sums
<1>3. 0 \in S
  <2>1. 0 \in 0 .. n
    BY ONLY n \in Nat
  <2> QED
    BY ONLY <1>1, <1>2, <2>1
<1>4. ASSUME NEW k \in 0 .. (n - 1), k \in S
      PROVE  k + 1 \in S
  <2>1. k + 1 \in 0 .. n /\ k + 1 # 0 /\ (k + 1) - 1 = k
    BY ONLY n \in Nat, k \in 0 .. (n - 1)
  <2>2. f[k] = g[k]
    BY ONLY <1>4
  <2>3. f[k + 1] = f[k] + items[k + 1].size /\ g[k + 1] = g[k] + items[k + 1].size
    BY ONLY <1>1, <1>2, <2>1
  <2> QED
    BY ONLY <2>1, <2>2, <2>3
<1> HIDE DEF S
<1>5. \A k \in 0 .. n : k \in S
  BY ONLY n \in Nat, <1>3, <1>4, UpTo
<1> QED
  BY ONLY <1>5 DEF S

\* Sum is a sum: nothing of no items, and one size more with one item more.
LEMMA SumIs ==
    ASSUME NEW items \in Seq(Items)
    PROVE  /\ Sum(items, 0) = 0
           /\ \A n \in 0 .. Len(items) : Sum(items, n) \in Nat
           /\ \A n \in 1 .. Len(items) :
                 items[n].size \in Nat /\ Sum(items, n) = Sum(items, n - 1) + items[n].size
<1> DEFINE N == Len(items)
           c(n) == CHOOSE f : Sums(f, items, n)
<1>1. N \in Nat /\ \A k \in 1 .. N : items[k] \in Items
  BY ONLY items \in Seq(Items), LenProperties, ElementOfSeq
<1>2. \A k \in 1 .. N : items[k].size \in Nat
  BY ONLY <1>1 DEF Items
<1>3. PICK f \in [0 .. N -> Nat] : Sums(f, items, N)
  <2>1. N \in 0 .. N
    BY ONLY <1>1
  <2> QED
    BY ONLY <2>1, items \in Seq(Items), SumsExist
<1>4. ASSUME NEW n \in 0 .. N
      PROVE  Sum(items, n) = f[n]
  <2>1. \E g \in [0 .. n -> Nat] : Sums(g, items, n)
    BY ONLY <1>4, items \in Seq(Items), SumsExist
  <2>2. Sums(c(n), items, n)
    BY ONLY <2>1
  <2> HIDE DEF c
  <2>3. n \in Nat /\ N \in Nat /\ n <= N /\ n \in 0 .. n
    <3> HIDE DEF N
    <3> QED
      BY ONLY <1>1, <1>4
  <2>4. \A k \in 0 .. n : c(n)[k] = f[k]
    BY ONLY <1>3, <2>2, <2>3, SumsAgree
  <2>5. Sum(items, n) = c(n)[n]
    BY ONLY SumIsChosen DEF c
  <2> QED
    BY ONLY <2>3, <2>4, <2>5
<1>5. \A k \in 0 .. N : f[k] = IF k = 0 THEN 0 ELSE f[k - 1] + items[k].size
  BY ONLY <1>3 DEF Sums
<1>6. Sum(items, 0) = 0
  <2>1. 0 \in 0 .. N
    BY ONLY <1>1
  <2> QED
    BY ONLY <1>4, <1>5, <2>1
<1>7. ASSUME NEW n \in 1 .. N
      PROVE  Sum(items, n) = Sum(items, n - 1) + items[n].size
  <2>1. n \in 0 .. N /\ n - 1 \in 0 .. N /\ n # 0
    <3> HIDE DEF N
    <3> QED
      BY ONLY <1>1, <1>7
  <2> QED
    BY ONLY <1>4, <1>5, <2>1
<1> QED
  BY ONLY <1>2, <1>3, <1>4, <1>6, <1>7

\* A sum grows with the number of its items.
LEMMA SumGrows ==
    ASSUME NEW items \in Seq(Items), NEW m \in 0 .. Len(items), NEW n \in 0 .. Len(items), m <= n
    PROVE  Sum(items, m) <= Sum(items, n)
<1> DEFINE N == Len(items)
           sum(k) == Sum(items, k)
           S == {d \in 0 .. (N - m) : sum(m) <= sum(m + d)}
<1>1. N \in Nat
  BY ONLY items \in Seq(Items), LenProperties
<1>2. /\ \A k \in 0 .. N : sum(k) \in Nat
      /\ \A k \in 1 .. N : items[k].size \in Nat /\ sum(k) = sum(k - 1) + items[k].size
  BY ONLY items \in Seq(Items), SumIs
<1> HIDE DEF sum
<1>3. m \in 0 .. N /\ n \in 0 .. N /\ m <= n
  BY DEF N
<1> HIDE DEF N
<1>4. m \in Nat /\ N - m \in Nat /\ 0 \in 0 .. (N - m) /\ m + 0 = m
  BY ONLY <1>1, <1>3
<1>5. 0 \in S
  <2>1. sum(m) <= sum(m)
    BY ONLY <1>2, <1>3
  <2> QED
    BY ONLY <1>4, <2>1
<1>6. ASSUME NEW d \in 0 .. ((N - m) - 1), d \in S
      PROVE  d + 1 \in S
  <2>1. m + d \in 0 .. N /\ m + (d + 1) \in 1 .. N /\ (m + (d + 1)) - 1 = m + d
        /\ d + 1 \in 0 .. (N - m)
    BY ONLY <1>1, <1>3, d \in 0 .. ((N - m) - 1)
  <2>2. /\ sum(m) \in Nat /\ sum(m + d) \in Nat
        /\ items[m + (d + 1)].size \in Nat
        /\ sum(m + (d + 1)) = sum(m + d) + items[m + (d + 1)].size
    BY ONLY <1>2, <1>3, <2>1
  <2>3. sum(m) <= sum(m + d)
    BY ONLY <1>6
  <2>4. sum(m) <= sum(m + (d + 1))
    BY ONLY <2>2, <2>3
  <2> QED
    BY ONLY <2>1, <2>4
<1> HIDE DEF S
<1>7. \A d \in 0 .. (N - m) : d \in S
  BY ONLY <1>4, <1>5, <1>6, UpTo
<1>8. n - m \in 0 .. (N - m) /\ m + (n - m) = n
  BY ONLY <1>1, <1>3
<1>9. n - m \in S
  BY ONLY <1>7, <1>8
<1>10. sum(m) <= sum(m + (n - m))
  BY ONLY <1>9 DEF S
<1> QED
  BY ONLY <1>8, <1>10 DEF sum

\* What fits, fits with fewer items.
LEMMA FewerFit ==
    ASSUME NEW items \in Seq(Items), NEW m \in 0 .. Len(items), NEW n \in 0 .. Len(items), m <= n,
           NEW limit \in Int, Fits(items, n, limit)
    PROVE  Fits(items, m, limit)
<1>1. Len(items) \in Nat
  BY ONLY items \in Seq(Items), LenProperties
<1>2. Sum(items, m) <= Sum(items, n) /\ Sum(items, m) \in Nat /\ Sum(items, n) \in Nat
  BY ONLY SumGrows, SumIs, items \in Seq(Items), m \in 0 .. Len(items), n \in 0 .. Len(items), m <= n
<1>3. Sum(items, n) <= limit /\ \A i \in 1 .. n : items[i].kind # "error"
  BY DEF Fits
<1>4. \A i \in 1 .. m : i \in 1 .. n
  <2> DEFINE N == Len(items)
  <2>1. m \in 0 .. N /\ n \in 0 .. N /\ m <= n /\ N \in Nat
    BY <1>1
  <2> HIDE DEF N
  <2> QED
    BY ONLY <2>1
<1>5. Sum(items, m) <= limit
  BY ONLY <1>2, <1>3, limit \in Int
<1> QED
  BY ONLY <1>3, <1>4, <1>5 DEF Fits

\* The items that fit, and no more.
Leads(items, n, limit) ==
    n \in 0 .. Len(items) /\ Fits(items, n, limit) /\ (n < Len(items) => ~Fits(items, n + 1, limit))

\* There is one number of items that fit, and Lead is it.
LEMMA LeadIs ==
    ASSUME NEW items \in Seq(Items), NEW limit \in Int, NEW n, Leads(items, n, limit)
    PROVE  Lead(items, limit) = n
<1> DEFINE N == Len(items)
           P(k) == Fits(items, k, limit) /\ (k < N => ~Fits(items, k + 1, limit))
<1>1. N \in Nat
  BY ONLY items \in Seq(Items), LenProperties
<1>2. n \in 0 .. N /\ P(n)
  BY DEF Leads
<1>3. ASSUME NEW k \in 0 .. N, NEW j \in 0 .. N, P(k), P(j), k < j
      PROVE  FALSE
  <2>1. k < N /\ k + 1 \in 0 .. N /\ k + 1 <= j
    <3> HIDE DEF N
    <3> QED
      BY ONLY <1>1, <1>3
  <2>2. Fits(items, k + 1, limit)
    BY ONLY <2>1, <1>3, items \in Seq(Items), limit \in Int, FewerFit
  <2> QED
    BY ONLY <1>3, <2>1, <2>2
<1>4. Lead(items, limit) = CHOOSE k \in 0 .. N : P(k)
  BY DEF Lead
<1> HIDE DEF P
<1> DEFINE l == CHOOSE k \in 0 .. N : P(k)
<1>5. l \in 0 .. N /\ P(l)
  BY ONLY <1>2
<1> HIDE DEF l, N
<1>6. ~ (l < n) /\ ~ (n < l)
  BY ONLY <1>2, <1>3, <1>5
<1>7. l = n
  BY ONLY <1>1, <1>2, <1>5, <1>6
<1> QED
  BY ONLY <1>4, <1>7 DEF l

\* Lead is such a number: no items at all fit always.
LEMMA LeadsSome ==
    ASSUME NEW items \in Seq(Items), NEW limit \in Nat
    PROVE  Leads(items, Lead(items, limit), limit)
<1> DEFINE N == Len(items)
           S == {k \in 0 .. N : Fits(items, k, limit)}
           m == Max(S)
<1>1. N \in Nat
  BY ONLY items \in Seq(Items), LenProperties
<1>2. 0 \in S
  <2>1. 0 \in 0 .. N /\ 1 .. 0 = {}
    BY ONLY <1>1
  <2>2. Sum(items, 0) = 0
    BY ONLY SumIs, items \in Seq(Items)
  <2>3. Sum(items, 0) <= limit
    BY ONLY <2>2, limit \in Nat
  <2> QED
    BY ONLY <2>1, <2>3 DEF Fits
<1>3. S \in SUBSET (0 .. N) /\ S # {}
  BY ONLY <1>2
<1>4. m \in S /\ \A y \in S : y <= m
  <2> HIDE DEF S, N
  <2> QED
    BY ONLY <1>1, <1>3, GreatestUpTo
<1>5. m \in 0 .. N /\ Fits(items, m, limit)
  BY ONLY <1>4
<1>6. ASSUME m < N, Fits(items, m + 1, limit)
      PROVE  FALSE
  <2>1. m + 1 \in 0 .. N /\ ~ (m + 1 <= m)
    <3> HIDE DEF N, m
    <3> QED
      BY ONLY <1>1, <1>5, <1>6
  <2>2. m + 1 \in S
    <3> HIDE DEF m
    <3> QED
      BY ONLY <2>1, <1>6
  <2> QED
    BY ONLY <1>4, <2>1, <2>2
<1> HIDE DEF m
<1>7. Leads(items, m, limit)
  BY ONLY <1>5, <1>6 DEF Leads
<1>8. Lead(items, limit) = m
  <2>1. limit \in Int
    BY limit \in Nat
  <2> QED
    BY ONLY <2>1, <1>7, items \in Seq(Items), LeadIs
<1> QED
  BY ONLY <1>7, <1>8

\* The first n fields are the items, z is the size of the set; where they end.
Parsed(items, fs, n, z) ==
    /\ n \in 0 .. Len(items) /\ n <= Len(fs)
    /\ \A i \in 1 .. n :
          /\ items[i].kind # "error" /\ fs[i].name = i /\ fs[i].kind = items[i].kind
          /\ items[i].kind = "set" => fs[i].size = 0 /\ z = items[i].size
          /\ items[i].kind # "set" => fs[i].size = items[i].size
EndAt(fs, n, z) == IF n = 0 THEN 0 ELSE EndOf(fs[n], z)

\* No more than n items fit, which end at a place.
Stops(items, n, place, limit) ==
    n < Len(items) => items[n + 1].kind = "error" \/ place + items[n + 1].size > limit

\* A complete set: the items that fit, and perhaps a raw field.
Complete(items, u, z) ==
    \E n \in 0 .. Len(items) :
       /\ Parsed(items, u.fields, n, z) /\ Stops(items, n, EndAt(u.fields, n, z), u.size)
       /\ \/ Len(u.fields) = n
          \/ /\ Len(u.fields) = n + 1 /\ u.fields[n + 1].name = RawName
             /\ u.fields[n + 1].kind = "data" /\ u.fields[n + 1].size # 0

\* The fields that were made of items end where the sum of the items says.
LEMMA ParsedSums ==
    ASSUME NEW items \in Seq(Items), NEW fs, NEW z, NEW b, Chain(fs, z, 0, b),
           NEW n, Parsed(items, fs, n, z)
    PROVE  /\ \A k \in 0 .. n : EndAt(fs, k, z) = Sum(items, k)
           /\ \A k \in 1 .. n : fs[k].address = Sum(items, k - 1)
           /\ Len(fs) = n => b = Sum(items, n)
<1> DEFINE N == Len(items)
           L == Len(fs)
           sum(k) == Sum(items, k)
           S == {k \in 0 .. n : EndAt(fs, k, z) = sum(k)}
<1>1. N \in Nat /\ L \in Nat
  BY items \in Seq(Items), LenProperties DEF Chain
<1>2. /\ sum(0) = 0
      /\ \A k \in 0 .. N : sum(k) \in Nat
      /\ \A k \in 1 .. N : items[k].size \in Nat /\ sum(k) = sum(k - 1) + items[k].size
  BY ONLY items \in Seq(Items), SumIs
<1> HIDE DEF sum
<1>3. n \in 0 .. N /\ n <= L
  BY DEF Parsed
<1>4. \A i \in 1 .. n :
          /\ fs[i].kind = items[i].kind
          /\ items[i].kind = "set" => z = items[i].size
          /\ items[i].kind # "set" => fs[i].size = items[i].size
  BY DEF Parsed
<1>5. /\ fs # <<>> => fs[1].address = 0 /\ EndOf(fs[L], z) = b
      /\ fs = <<>> => b = 0
      /\ \A i \in 1 .. (L - 1) : fs[i + 1].address = EndOf(fs[i], z)
      /\ fs = <<>> <=> L = 0
  BY EmptySeq DEF Chain
<1> HIDE DEF N, L
<1>6. \A k \in 1 .. n : k \in 1 .. N /\ k # 0 /\ L # 0 /\ (k # 1 => k - 1 \in 1 .. (L - 1) /\ k - 1 # 0)
                        /\ (k - 1) + 1 = k
  BY ONLY <1>1, <1>3
<1>7. \A k \in 1 .. n : fs[k].address = EndAt(fs, k - 1, z)
  <2>1. ASSUME NEW k \in 1 .. n
        PROVE  fs[k].address = EndAt(fs, k - 1, z)
    <3>1. CASE k = 1
      <4>1. k - 1 = 0
        BY ONLY <3>1
      <4> QED
        BY ONLY <1>5, <1>6, <2>1, <3>1, <4>1 DEF EndAt
    <3>2. CASE k # 1
      BY ONLY <1>5, <1>6, <2>1, <3>2 DEF EndAt
    <3> QED
      BY ONLY <3>1, <3>2
  <2> QED
    BY ONLY <2>1
<1>8. 0 \in S
  <2>1. 0 \in 0 .. n
    BY ONLY <1>1, <1>3
  <2> QED
    BY ONLY <1>2, <2>1 DEF EndAt
<1>9. ASSUME NEW k \in 0 .. (n - 1), k \in S
      PROVE  k + 1 \in S
  <2>1. k + 1 \in 1 .. n /\ k + 1 \in 0 .. n /\ (k + 1) - 1 = k /\ k + 1 # 0
    BY ONLY <1>1, <1>3, k \in 0 .. (n - 1)
  <2>2. EndAt(fs, k, z) = sum(k)
    BY ONLY <1>9
  <2>3. fs[k + 1].address = sum(k)
    BY ONLY <1>7, <2>1, <2>2
  <2>4. EndOf(fs[k + 1], z) = fs[k + 1].address + items[k + 1].size
    BY ONLY <1>4, <2>1 DEF EndOf
  <2>5. sum(k + 1) = sum(k) + items[k + 1].size
    BY ONLY <1>2, <1>6, <2>1
  <2>6. EndAt(fs, k + 1, z) = EndOf(fs[k + 1], z)
    BY ONLY <2>1 DEF EndAt
  <2> QED
    BY ONLY <2>1, <2>3, <2>4, <2>5, <2>6
<1> HIDE DEF S
<1>10. n \in Nat
  BY ONLY <1>1, <1>3
<1>11. \A k \in 0 .. n : k \in S
  BY ONLY <1>8, <1>9, <1>10, UpTo
<1>12. \A k \in 0 .. n : EndAt(fs, k, z) = sum(k)
  BY ONLY <1>11 DEF S
<1>13. \A k \in 1 .. n : k - 1 \in 0 .. n
  BY ONLY <1>10
<1>14. \A k \in 1 .. n : fs[k].address = sum(k - 1)
  BY ONLY <1>7, <1>12, <1>13
<1>15. L = n => b = sum(n)
  <2>1. CASE n = 0
    BY ONLY <1>2, <1>5, <2>1
  <2>2. CASE n # 0
    <3>1. n \in 0 .. n
      BY ONLY <1>10
    <3> QED
      BY ONLY <1>5, <1>12, <2>2, <3>1 DEF EndAt
  <2> QED
    BY ONLY <2>1, <2>2
<1> QED
  BY ONLY <1>12, <1>14, <1>15 DEF sum, L

\* If no more fit, their number is Lead.
LEMMA StopsLeads ==
    ASSUME NEW items \in Seq(Items), NEW fs, NEW z, NEW n, Parsed(items, fs, n, z),
           NEW limit \in Int, Sum(items, n) <= limit, Stops(items, n, Sum(items, n), limit)
    PROVE  Leads(items, n, limit) /\ Lead(items, limit) = n
<1>1. n \in 0 .. Len(items) /\ \A i \in 1 .. n : items[i].kind # "error"
  BY DEF Parsed
<1>2. Fits(items, n, limit)
  BY <1>1 DEF Fits
<1>3. ASSUME n < Len(items), Fits(items, n + 1, limit)
      PROVE  FALSE
  <2>1. Len(items) \in Nat
    BY ONLY items \in Seq(Items), LenProperties
  <2>2. n + 1 \in 1 .. Len(items) /\ (n + 1) - 1 = n /\ n + 1 \in 1 .. (n + 1)
    <3> DEFINE N == Len(items)
    <3>1. n \in 0 .. N /\ n < N /\ N \in Nat
      BY ONLY <1>1, <1>3, <2>1
    <3> HIDE DEF N
    <3>2. n + 1 \in 1 .. N /\ (n + 1) - 1 = n /\ n + 1 \in 1 .. (n + 1)
      BY ONLY <3>1
    <3> QED
      BY ONLY <3>2 DEF N
  <2>3. Sum(items, n + 1) = Sum(items, n) + items[n + 1].size
    BY ONLY <2>2, items \in Seq(Items), SumIs
  <2>4. items[n + 1].kind # "error" /\ Sum(items, n + 1) <= limit
    BY ONLY <1>3, <2>2 DEF Fits
  <2>5. Sum(items, n) + items[n + 1].size > limit
    BY ONLY <1>3, <2>4, Stops(items, n, Sum(items, n), limit) DEF Stops
  <2>6. Sum(items, n) \in Nat /\ items[n + 1].size \in Nat
    BY ONLY <1>1, <2>2, items \in Seq(Items), SumIs
  <2> QED
    BY ONLY <2>3, <2>4, <2>5, <2>6, limit \in Int
<1>4. Leads(items, n, limit)
  BY ONLY <1>1, <1>2, <1>3 DEF Leads
<1> QED
  BY ONLY <1>4, items \in Seq(Items), limit \in Int, LeadIs

\* A complete set of fields is the one that its items make.
LEMMA CompleteIs ==
    ASSUME NEW items \in Seq(Items), NEW u, NEW z, NEW p, NEW e, SetOK(u, z, p, e),
           u.size = u.current, Complete(items, u, z)
    PROVE  u.fields = Filled(items, u.size)
<1> DEFINE fs == u.fields
           N == Len(items)
           L == Len(fs)
           sum(k) == Sum(items, k)
           span == u.size
           made(n) == [i \in 1 .. n |-> Field(i, items[i].kind, sum(i - 1),
                                              IF items[i].kind = "set" THEN 0 ELSE items[i].size)]
           raw(n) == IF sum(n) = span THEN <<>> ELSE <<Field(RawName, "data", sum(n), span - sum(n))>>
<1>1. PICK n \in 0 .. N :
           /\ Parsed(items, fs, n, z) /\ Stops(items, n, EndAt(fs, n, z), span)
           /\ \/ L = n
              \/ /\ L = n + 1 /\ fs[n + 1].name = RawName
                 /\ fs[n + 1].kind = "data" /\ fs[n + 1].size # 0
  BY ONLY Complete(items, u, z) DEF Complete
<1>2. /\ fs \in Seq(Fields) /\ L \in Nat /\ DOMAIN fs = 1 .. L /\ \A i \in 1 .. L : fs[i] \in Fields
      /\ u.current \in Nat
  BY ONLY SetOK(u, z, p, e), SetFacts
<1>3. Chain(fs, z, 0, span)
  BY ONLY SetOK(u, z, p, e), u.size = u.current DEF SetOK
<1>4. /\ \A k \in 0 .. n : EndAt(fs, k, z) = sum(k)
      /\ \A k \in 1 .. n : fs[k].address = sum(k - 1)
      /\ L = n => span = sum(n)
  BY ONLY <1>1, <1>3, items \in Seq(Items), ParsedSums
<1>5. /\ \A k \in 0 .. N : sum(k) \in Nat
      /\ N \in Nat /\ span \in Nat
  BY ONLY <1>2, items \in Seq(Items), SumIs, LenProperties, u.size = u.current
<1>6. /\ n \in Nat /\ n \in 0 .. n /\ n \in 0 .. N
      /\ \A i \in 1 .. n : i \in 1 .. N /\ (n <= L => i \in 1 .. L)
      /\ L = n + 1 => L \in 1 .. L /\ n + 1 # 0 /\ (n + 1) - 1 = n
                      /\ (n # 0 => n \in 1 .. (L - 1))
  <2> HIDE DEF N, L
  <2> QED
    BY ONLY <1>1, <1>2, <1>5
<1>7. L = n + 1 => /\ fs[n + 1].address = sum(n)
                   /\ span = sum(n) + fs[n + 1].size
                   /\ fs[n + 1].size \in Nat
  <2> SUFFICES ASSUME L = n + 1
               PROVE  /\ fs[n + 1].address = sum(n)
                      /\ span = sum(n) + fs[n + 1].size
                      /\ fs[n + 1].size \in Nat
    OBVIOUS
  <2>1. /\ fs # <<>> => fs[1].address = 0 /\ EndOf(fs[L], z) = span
        /\ \A i \in 1 .. (L - 1) : fs[i + 1].address = EndOf(fs[i], z)
        /\ fs = <<>> <=> L = 0
    BY ONLY <1>2, <1>3, EmptySeq DEF Chain
  <2>2. fs[n + 1] \in Fields /\ fs # <<>>
    BY ONLY <1>2, <1>6, <2>1, L = n + 1
  <2>3. fs[n + 1].size \in Nat
    BY ONLY <2>2 DEF Fields
  <2>4. fs[n + 1].address = EndAt(fs, n, z)
    <3>1. CASE n = 0
      <4>1. n + 1 = 1
        BY ONLY <3>1
      <4> QED
        BY ONLY <2>1, <2>2, <3>1, <4>1 DEF EndAt
    <3>2. CASE n # 0
      BY ONLY <1>6, <2>1, <3>2, L = n + 1 DEF EndAt
    <3> QED
      BY ONLY <3>1, <3>2
  <2>5. EndOf(fs[n + 1], z) = fs[n + 1].address + fs[n + 1].size
    BY ONLY <1>1, <1>6, L = n + 1 DEF EndOf
  <2>6. EndOf(fs[n + 1], z) = span
    BY ONLY <2>1, <2>2, L = n + 1
  <2>7. fs[n + 1].address = sum(n)
    BY ONLY <1>4, <1>6, <2>4
  <2> QED
    BY ONLY <2>3, <2>5, <2>6, <2>7
<1>8. sum(n) <= span
  BY ONLY <1>1, <1>4, <1>5, <1>6, <1>7
<1>9. Lead(items, span) = n
  <2>1. EndAt(fs, n, z) = sum(n)
    BY ONLY <1>4, <1>6
  <2>2. Stops(items, n, Sum(items, n), span) /\ span \in Int /\ Sum(items, n) <= span
    BY ONLY <1>1, <1>5, <1>8, <2>1
  <2> HIDE DEF span
  <2> QED
    BY ONLY <1>1, <2>2, items \in Seq(Items), StopsLeads
<1>10. Filled(items, span) = made(n) \o raw(n)
  BY ONLY <1>9 DEF Filled
<1>11. \A i \in 1 .. n : fs[i] = made(n)[i]
  <2>1. ASSUME NEW i \in 1 .. n
        PROVE  fs[i] = made(n)[i]
    <3>1. fs[i] \in Fields
      BY ONLY <1>1, <1>2, <1>6, <2>1 DEF Parsed
    <3>2. fs[i] = Field(fs[i].name, fs[i].kind, fs[i].address, fs[i].size)
      BY ONLY <3>1 DEF Fields, Field
    <3>3. fs[i].name = i /\ fs[i].kind = items[i].kind /\ fs[i].address = sum(i - 1)
          /\ fs[i].size = IF items[i].kind = "set" THEN 0 ELSE items[i].size
      BY ONLY <1>1, <1>4, <2>1 DEF Parsed
    <3>4. fs[i] = Field(i, items[i].kind, sum(i - 1), IF items[i].kind = "set" THEN 0 ELSE items[i].size)
      BY ONLY <3>2, <3>3
    <3> HIDE DEF sum
    <3> QED
      BY ONLY <2>1, <3>4
  <2> QED
    BY ONLY <2>1
<1>12. made(n) \in Seq(Fields) /\ Len(made(n)) = n
  <2>1. \A i \in 1 .. n : made(n)[i] \in Fields
    BY ONLY <1>1, <1>2, <1>6, <1>11 DEF Parsed
  <2>2. DOMAIN made(n) = 1 .. n /\ made(n) = [i \in 1 .. n |-> made(n)[i]]
    OBVIOUS
  <2> HIDE DEF made
  <2>3. made(n) \in [1 .. n -> Fields]
    BY ONLY <2>1, <2>2
  <2> QED
    BY ONLY <1>6, <2>3
<1> HIDE DEF made
<1>13. CASE L = n
  <2>1. raw(n) = <<>>
    BY ONLY <1>4, <1>13
  <2>2. made(n) \o <<>> = made(n)
    BY ONLY <1>12, ConcatEmptySeq
  <2>3. fs = made(n)
    BY ONLY <1>2, <1>11, <1>12, <1>13, SeqEqual
  <2> QED
    BY ONLY <1>10, <2>1, <2>2, <2>3
<1>14. CASE L = n + 1
  <2> DEFINE f == fs[n + 1]
  <2>1. f \in Fields
    BY ONLY <1>2, <1>6, <1>14
  <2>2. f = Field(f.name, f.kind, f.address, f.size)
    BY ONLY <2>1 DEF Fields, Field
  <2>3. sum(n) # span /\ f.size = span - sum(n)
    <3>1. sum(n) \in Nat /\ f.size \in Nat /\ f.size # 0 /\ span = sum(n) + f.size
      BY ONLY <1>1, <1>5, <1>6, <1>7, <1>14
    <3> HIDE DEF sum, span
    <3> QED
      BY ONLY <3>1
  <2>4. f.name = RawName /\ f.kind = "data" /\ f.address = sum(n)
    BY ONLY <1>1, <1>6, <1>7, <1>14
  <2>5. f = Field(RawName, "data", sum(n), span - sum(n))
    BY ONLY <2>2, <2>3, <2>4
  <2> HIDE DEF f, sum, L, fs
  <2>6. raw(n) = <<f>>
    BY ONLY <2>3, <2>5
  <2>7. <<f>> \in Seq(Fields) /\ Len(<<f>>) = 1 /\ <<f>>[1] = f
    BY ONLY <2>1
  <2> DEFINE gs == made(n) \o <<f>>
  <2>8. /\ gs \in Seq(Fields) /\ Len(gs) = n + 1
        /\ \A i \in 1 .. (n + 1) : gs[i] = IF i <= n THEN made(n)[i] ELSE <<f>>[i - n]
    BY ONLY <1>12, <2>7, ConcatProperties
  <2> HIDE DEF gs
  <2>9. \A i \in 1 .. (n + 1) : (i <= n /\ i \in 1 .. n) \/ (~ (i <= n) /\ i = n + 1 /\ i - n = 1)
    BY ONLY <1>6
  <2>10. \A i \in 1 .. (n + 1) : gs[i] = fs[i]
    BY ONLY <1>11, <2>7, <2>8, <2>9 DEF f
  <2>11. Len(fs) = Len(gs) /\ \A i \in 1 .. Len(gs) : gs[i] = fs[i]
    BY ONLY <1>14, <2>8, <2>10 DEF L
  <2>12. gs = fs
    BY ONLY <1>2, <2>8, <2>11, SeqEqual
  <2> QED
    BY ONLY <1>10, <2>6, <2>12 DEF gs, fs
<1> QED
  BY ONLY <1>1, <1>13, <1>14

-----------------------------------------------------------------------------
\* 10. What the set in the parser will be, and the items of the parser.

\* Where the set is added.
SetAt == Sum(script.root, SetName - 1)

\* What the inputs are.
LEMMA InputFacts ==
    ASSUME InputsOK
    PROVE  /\ script.root \in Seq(Items) /\ script.sub \in Seq(Items)
           /\ Len(script.root) \in Nat /\ DOMAIN script.root = 1 .. Len(script.root)
           /\ Len(script.sub) \in Nat /\ DOMAIN script.sub = 1 .. Len(script.sub)
           /\ \A i \in 1 .. Len(script.sub) : script.sub[i].kind # "set"
           /\ \A i, j \in DOMAIN script.root :
                 script.root[i].kind = "set" /\ script.root[j].kind = "set" => i = j
           /\ given # Unknown => given \in Nat /\ given # 0
           /\ StreamSize \in Nat /\ StreamSize # 0 /\ Unknown \notin Int
<1>1. /\ RootScripts \subseteq Seq(Items) /\ SubScripts \subseteq Seq(Items)
      /\ \A items \in SubScripts : \A i \in DOMAIN items : items[i].kind # "set"
      /\ \A items \in RootScripts : \A i, j \in DOMAIN items :
            items[i].kind = "set" /\ items[j].kind = "set" => i = j
      /\ StreamSize \in Nat \ {0} /\ Unknown \notin Int
      /\ SubSizes \subseteq (Nat \ {0}) \cup {Unknown}
  BY ONLY FieldSetAssumption DEF FieldSetAssumption
<1>2. script.root \in RootScripts /\ script.sub \in SubScripts /\ given \in SubSizes
  BY ONLY InputsOK DEF InputsOK
<1>3. script.root \in Seq(Items) /\ script.sub \in Seq(Items)
  BY ONLY <1>1, <1>2
<1>4. /\ Len(script.root) \in Nat /\ DOMAIN script.root = 1 .. Len(script.root)
      /\ Len(script.sub) \in Nat /\ DOMAIN script.sub = 1 .. Len(script.sub)
  BY ONLY <1>3, LenProperties
<1>5. \A i \in DOMAIN script.sub : script.sub[i].kind # "set"
  BY ONLY <1>1, <1>2
<1>6. \A i, j \in DOMAIN script.root :
         script.root[i].kind = "set" /\ script.root[j].kind = "set" => i = j
  BY ONLY <1>1, <1>2
<1>7. given # Unknown => given \in Nat /\ given # 0
  BY ONLY <1>1, <1>2
<1> QED
  BY ONLY <1>1, <1>3, <1>4, <1>5, <1>6, <1>7

\* The place of the set.
LEMMA SetNameIs ==
    ASSUME InputsOK, NEW q \in DOMAIN script.root, script.root[q].kind = "set"
    PROVE  /\ SetName = q /\ SetName \in 1 .. Len(script.root)
           /\ \A i \in 1 .. Len(script.root) : script.root[i].kind = "set" => i = q
           /\ SetAt \in Nat
<1>1. /\ script.root \in Seq(Items)
      /\ Len(script.root) \in Nat /\ DOMAIN script.root = 1 .. Len(script.root)
      /\ \A i, j \in DOMAIN script.root :
            script.root[i].kind = "set" /\ script.root[j].kind = "set" => i = j
  BY ONLY InputsOK, InputFacts
<1>2. SetName \in DOMAIN script.root /\ script.root[SetName].kind = "set"
  BY ONLY q \in DOMAIN script.root, script.root[q].kind = "set" DEF SetName
<1>3. SetName = q
  BY ONLY <1>1, <1>2, q \in DOMAIN script.root, script.root[q].kind = "set"
<1>4. \A i \in 1 .. Len(script.root) : script.root[i].kind = "set" => i = q
  BY ONLY <1>1, q \in DOMAIN script.root, script.root[q].kind = "set"
<1>5. SetName - 1 \in 0 .. Len(script.root)
  <2> DEFINE N == Len(script.root)
             k == SetName
  <2>1. k \in 1 .. N /\ N \in Nat
    BY ONLY <1>1, <1>2
  <2> HIDE DEF N, k
  <2>2. k - 1 \in 0 .. N
    BY ONLY <2>1
  <2> QED
    BY ONLY <2>2 DEF N, k
<1>6. SetAt \in Nat
  BY ONLY <1>1, <1>5, SumIs DEF SetAt
<1> QED
  BY ONLY <1>1, <1>2, <1>3, <1>4, <1>6

\* The size that the set gets is a number, and of no more than what is
\* left unless it was given.
LEMMA SpanIs ==
    ASSUME InputsOK, NEW where \in Nat
    PROVE  /\ Behind(where) \in Nat
           /\ SetSpan(where) \in Nat
           /\ SetSpan(where) <= Behind(where)
<1> DEFINE left == Behind(where)
           n == Lead(script.sub, left)
           sum == Sum(script.sub, n)
<1>1. /\ script.sub \in Seq(Items)
      /\ given # Unknown => given \in Nat
      /\ StreamSize \in Nat
  BY ONLY InputsOK, InputFacts
<1>2. left \in Nat
  BY ONLY <1>1, where \in Nat DEF Behind
<1> HIDE DEF left
<1>3. Leads(script.sub, n, left)
  BY ONLY <1>1, <1>2, LeadsSome
<1> HIDE DEF n
<1>4. sum \in Nat /\ sum <= left
  BY ONLY <1>1, <1>3, SumIs DEF Leads, Fits
<1> HIDE DEF sum
<1>5. /\ SetSpan(where) \in {given, left, 0, sum}
      /\ SetSpan(where) = given =>
            SetSpan(where) \in {left, 0, sum} \/ (given # Unknown /\ given <= left)
  BY ONLY DEF SetSpan, left, n, sum
<1>6. SetSpan(where) \in Nat /\ SetSpan(where) <= left
  <2>1. CASE SetSpan(where) \in {left, 0, sum}
    BY ONLY <1>2, <1>4, <2>1
  <2>2. CASE SetSpan(where) = given /\ given # Unknown /\ given <= left
    BY ONLY <1>1, <2>2
  <2> QED
    BY ONLY <1>5, <2>1, <2>2
<1> QED
  BY ONLY <1>2, <1>6 DEF left

\* The items of the parser: before the set what it yields, the set with
\* its size, behind it what it yields unless the set has failed.
LEMMA ItemsAre ==
    ASSUME InputsOK
    PROVE  /\ ParserItems \in Seq(Items) /\ Len(ParserItems) = Len(script.root)
           /\ (\A i \in 1 .. Len(script.root) : script.root[i].kind # "set") => ParserItems = script.root
           /\ \A q \in 1 .. Len(script.root) :
                 script.root[q].kind = "set" =>
                   /\ \A i \in 1 .. Len(script.root) : i < q => ParserItems[i] = script.root[i]
                   /\ SetSpan(SetAt) = 0 => ParserItems[q].kind = "error"
                   /\ SetSpan(SetAt) # 0 => ParserItems[q] = [kind |-> "set", size |-> SetSpan(SetAt)]
                   /\ \A i \in 1 .. Len(script.root) :
                         i > q => IF SetFails(SetAt) THEN ParserItems[i].kind = "error"
                                  ELSE ParserItems[i] = script.root[i]
<1> DEFINE items == script.root
           N == Len(items)
           span == SetSpan(SetAt)
           failed == [kind |-> "error", size |-> 0]
           k == SetName
           fails == SetFails(SetAt)
           made == [i \in DOMAIN items |->
                      IF i < k \/ (i > k /\ ~fails) THEN items[i]
                      ELSE IF i = k /\ span > 0 THEN [kind |-> "set", size |-> span] ELSE failed]
<1>1. items \in Seq(Items) /\ N \in Nat /\ DOMAIN items = 1 .. N
  BY ONLY InputsOK, InputFacts
<1>2. CASE \A i \in 1 .. N : items[i].kind # "set"
  <2>1. ParserItems = items
    BY ONLY <1>1, <1>2 DEF ParserItems
  <2> QED
    BY ONLY <1>1, <1>2, <2>1
<1>3. CASE ~ (\A i \in 1 .. N : items[i].kind # "set")
  <2>1. PICK q \in 1 .. N : items[q].kind = "set"
    BY ONLY <1>3
  <2>2. /\ k = q /\ \A i \in 1 .. N : items[i].kind = "set" => i = q
        /\ SetAt \in Nat
    BY ONLY <1>1, <2>1, InputsOK, SetNameIs
  <2>3. span \in Nat
    BY ONLY <2>2, InputsOK, SpanIs
  <2>4. ParserItems = made
    BY ONLY <1>1, <1>3 DEF ParserItems, SetAt
  <2> HIDE DEF span, fails
  <2>5. \A i \in 1 .. N : made[i] = IF i < k \/ (i > k /\ ~fails) THEN items[i]
                                    ELSE IF i = k /\ span > 0 THEN [kind |-> "set", size |-> span] ELSE failed
    BY ONLY <1>1
  <2>6. DOMAIN made = 1 .. N /\ made = [i \in 1 .. N |-> made[i]]
    BY ONLY <1>1
  <2> HIDE DEF made, k
  <2>7. \A i \in 1 .. N : items[i] \in Items
    BY ONLY <1>1, ElementOfSeq
  <2>8. failed \in Items /\ failed.kind = "error"
    BY ONLY DEF Items, Kinds
  <2>9. [kind |-> "set", size |-> span] \in Items
    BY ONLY <2>3 DEF Items, Kinds
  <2> HIDE DEF failed
  <2>10. \A i \in 1 .. N : made[i] \in Items
    BY ONLY <2>5, <2>7, <2>8, <2>9
  <2> HIDE DEF items
  <2>11. made \in [1 .. N -> Items]
    BY ONLY <2>6, <2>10
  <2>12. made \in Seq(Items) /\ Len(made) = N
    <3> HIDE DEF N
    <3> QED
      BY ONLY <1>1, <2>11
  <2>13. /\ \A i \in 1 .. N : i < q => made[i] = items[i]
         /\ span = 0 => made[q].kind = "error"
         /\ span # 0 => made[q] = [kind |-> "set", size |-> span]
         /\ \A i \in 1 .. N : i > q => IF fails THEN made[i].kind = "error" ELSE made[i] = items[i]
    <3> HIDE DEF N
    <3>1. q \in Nat /\ \A i \in 1 .. N : i \in Nat
      BY ONLY <1>1, <2>1
    <3>2. made[q] = IF span > 0 THEN [kind |-> "set", size |-> span] ELSE failed
      BY ONLY <2>1, <2>2, <2>5, <3>1
    <3>3. \A i \in 1 .. N : i < q => made[i] = items[i]
      BY ONLY <2>2, <2>5, <3>1
    <3>4. \A i \in 1 .. N : i > q => made[i] = IF fails THEN failed ELSE items[i]
      BY ONLY <2>1, <2>2, <2>5, <3>1
    <3> QED
      BY ONLY <2>3, <2>8, <3>2, <3>3, <3>4
  <2>14. \A j \in 1 .. N : items[j].kind = "set" => j = q
    BY ONLY <2>2
  <2> QED
    BY ONLY <1>3, <2>4, <2>12, <2>13, <2>14 DEF items, span, fails, N
<1> QED
  BY ONLY <1>2, <1>3

\* Without a set its size does not matter.
LEMMA ParsedOfData ==
    ASSUME NEW items, NEW fs \in Seq(Fields), ~HasSet(fs), NEW n, NEW y, NEW z, Parsed(items, fs, n, y)
    PROVE  Parsed(items, fs, n, z) /\ EndAt(fs, n, z) = EndAt(fs, n, y)
<1>1. DOMAIN fs = 1 .. Len(fs) /\ Len(fs) \in Nat
  BY ONLY fs \in Seq(Fields), LenProperties
<1>2. n <= Len(fs) /\ (n \in Nat)
  <2>1. Len(items) \in Int => n \in Nat
    BY ONLY Parsed(items, fs, n, y) DEF Parsed
  <2>2. n \in 0 .. Len(items) /\ n <= Len(fs)
    BY ONLY Parsed(items, fs, n, y) DEF Parsed
  <2> DEFINE N == Len(items)
  <2> HIDE DEF N
  <2>3. n \in 0 .. N
    BY ONLY <2>2 DEF N
  <2>4. n \in Nat
    BY ONLY <2>3
  <2> QED
    BY ONLY <2>2, <2>4
<1>3. \A i \in 1 .. n : i \in DOMAIN fs
  <2> DEFINE L == Len(fs)
  <2>1. L \in Nat /\ n <= L /\ DOMAIN fs = 1 .. L
    BY ONLY <1>1, <1>2
  <2> HIDE DEF L
  <2> QED
    BY ONLY <1>2, <2>1
<1>4. \A i \in 1 .. n : fs[i].kind # "set"
  BY ONLY <1>3, ~HasSet(fs) DEF HasSet
<1>5. Parsed(items, fs, n, z)
  BY ONLY <1>4, Parsed(items, fs, n, y) DEF Parsed
<1>6. n # 0 => n \in 1 .. n
  BY ONLY <1>2
<1> QED
  BY ONLY <1>4, <1>5, <1>6 DEF EndAt, EndOf

\* Only the items count that the fields were made of.
LEMMA ParsedOther ==
    ASSUME NEW items, NEW others, NEW fs, NEW n, NEW z, Parsed(items, fs, n, z),
           n \in 0 .. Len(others), \A i \in 1 .. n : others[i] = items[i]
    PROVE  Parsed(others, fs, n, z)
BY ONLY Parsed(items, fs, n, z), n \in 0 .. Len(others), \A i \in 1 .. n : others[i] = items[i] DEF Parsed

\* One more.
LEMMA ParsedAppend ==
    ASSUME NEW items, Len(items) \in Nat, NEW fs \in Seq(Fields), NEW n, NEW z,
           Parsed(items, fs, n, z), Len(fs) = n,
           n + 1 \in 1 .. Len(items), items[n + 1].kind # "error",
           NEW f \in Fields, f.name = n + 1, f.kind = items[n + 1].kind,
           f.kind = "set" => f.size = 0 /\ z = items[n + 1].size,
           f.kind # "set" => f.size = items[n + 1].size
    PROVE  Parsed(items, Append(fs, f), n + 1, z) /\ Len(Append(fs, f)) = n + 1
<1> DEFINE gs == Append(fs, f)
<1>1. n \in Nat /\ Len(gs) = n + 1 /\ gs[n + 1] = f /\ \A i \in 1 .. n : gs[i] = fs[i]
  BY ONLY fs \in Seq(Fields), f \in Fields, Len(fs) = n, LenProperties, AppendProperties
<1>2. \A i \in 1 .. (n + 1) : i \in 1 .. n \/ i = n + 1
  BY ONLY <1>1
<1>3. n + 1 \in 0 .. Len(items)
  <2> DEFINE N == Len(items)
  <2>1. n + 1 \in 1 .. N /\ N \in Nat
    OBVIOUS
  <2> HIDE DEF N
  <2>2. n + 1 \in 0 .. N
    BY ONLY <2>1
  <2> QED
    BY ONLY <2>2 DEF N
<1> HIDE DEF gs
<1> DEFINE P(i, g) == /\ items[i].kind # "error" /\ g.name = i /\ g.kind = items[i].kind
                      /\ items[i].kind = "set" => g.size = 0 /\ z = items[i].size
                      /\ items[i].kind # "set" => g.size = items[i].size
<1>4. \A i \in 1 .. n : P(i, gs[i])
  BY ONLY <1>1, Parsed(items, fs, n, z) DEF Parsed
<1>5. P(n + 1, gs[n + 1])
  BY <1>1
<1> HIDE DEF P
<1>6. \A i \in 1 .. (n + 1) : P(i, gs[i])
  BY ONLY <1>2, <1>4, <1>5
<1>7. n + 1 <= n + 1
  BY ONLY <1>1
<1>8. Parsed(items, gs, n + 1, z)
  BY ONLY <1>1, <1>3, <1>6, <1>7 DEF Parsed, P
<1> QED
  BY ONLY <1>1, <1>8 DEF gs

\* A set r that was made complete of u, whose size is known.
FilledUp(u, r) ==
    /\ r.gen = Done /\ r.size = u.size
    /\ r.fields = IF u.size = u.current THEN u.fields
                  ELSE Append(u.fields, Field(RawName, "data", u.current, u.size - u.current))

\* A set that has all of the items that fit is complete when it is filled.
LEMMA FillCompletes ==
    ASSUME NEW items \in Seq(Items), NEW u, NEW z, NEW p, NEW e, SetOK(u, z, p, e), u.size # Unknown,
           NEW n, Parsed(items, u.fields, n, z), Len(u.fields) = n, Stops(items, n, u.current, u.size),
           NEW r, FilledUp(u, r)
    PROVE  Complete(items, r, z)
<1> DEFINE fs == u.fields
           gs == r.fields
           raw == Field(RawName, "data", u.current, u.size - u.current)
<1>1. /\ fs \in Seq(Fields) /\ u.size \in OptSize /\ u.current \in Nat /\ Len(fs) \in Nat
      /\ DOMAIN fs = 1 .. Len(fs) /\ \A i \in DOMAIN fs : fs[i] \in Fields
  BY ONLY SetOK(u, z, p, e), SetFacts
<1>2. Chain(fs, z, 0, u.current) /\ u.current <= u.size
  BY ONLY SetOK(u, z, p, e), u.size # Unknown DEF SetOK, SizesOK
<1>3. u.size \in Nat
  BY ONLY <1>1, u.size # Unknown DEF OptSize
<1>4. n \in 0 .. Len(items) /\ n \in Nat /\ n \in 0 .. n
  BY ONLY <1>1, Parsed(items, fs, n, z), Len(fs) = n DEF Parsed
<1>5. EndAt(fs, n, z) = u.current
  BY ONLY <1>2, <1>4, Parsed(items, fs, n, z), Len(fs) = n, items \in Seq(Items), ParsedSums
<1>6. CASE u.size = u.current
  <2>1. gs = fs /\ r.size = u.size
    BY ONLY <1>6, FilledUp(u, r) DEF FilledUp
  <2> HIDE DEF gs, fs
  <2>2. n \in 0 .. Len(items) /\ Parsed(items, r.fields, n, z)
        /\ Stops(items, n, EndAt(r.fields, n, z), r.size) /\ Len(r.fields) = n
    BY ONLY <1>4, <1>5, <2>1, Parsed(items, u.fields, n, z), Len(u.fields) = n,
       Stops(items, n, u.current, u.size) DEF gs, fs
  <2> QED
    BY ONLY <2>2 DEF Complete
<1>7. CASE u.size # u.current
  <2>1. gs = Append(fs, raw) /\ r.size = u.size
    BY ONLY <1>7, FilledUp(u, r) DEF FilledUp
  <2>2. raw.name = RawName /\ raw.kind = "data" /\ raw.size = u.size - u.current /\ raw.size # 0
        /\ raw \in Fields
    <3>1. u.size - u.current \in Nat /\ u.size - u.current # 0
      BY ONLY <1>1, <1>2, <1>3, <1>7
    <3> QED
      BY ONLY <1>1, <3>1 DEF Field, Fields, Names
  <2> HIDE DEF raw
  <2>3. Len(gs) = n + 1 /\ gs[n + 1] = raw /\ \A i \in 1 .. n : gs[i] = fs[i]
    BY ONLY <1>1, <2>1, <2>2, Len(fs) = n, AppendProperties
  <2>4. n <= Len(gs)
    BY ONLY <1>4, <2>3
  <2>5. Parsed(items, gs, n, z)
    BY ONLY <2>3, <2>4, Parsed(items, fs, n, z) DEF Parsed
  <2>6. EndAt(gs, n, z) = EndAt(fs, n, z)
    <3>1. n # 0 => n \in 1 .. n
      BY ONLY <1>4
    <3> QED
      BY ONLY <2>3, <3>1 DEF EndAt
  <2>7. Stops(items, n, EndAt(gs, n, z), r.size)
    BY ONLY <1>5, <2>1, <2>6, Stops(items, n, u.current, u.size)
  <2>8. /\ Len(gs) = n + 1 /\ gs[n + 1].name = RawName
        /\ gs[n + 1].kind = "data" /\ gs[n + 1].size # 0
    BY ONLY <2>2, <2>3
  <2> QED
    BY ONLY <1>4, <2>5, <2>7, <2>8 DEF Complete
<1> QED
  BY ONLY <1>6, <1>7

\* What the end of a feeding has made of t.
Over(s, t) ==
    /\ FilledUp(t[s], tree'[s]) /\ \A o \in Sets \ {s} : tree'[o] = t[o]
    /\ goal' = [goal EXCEPT ![s] = Idle] /\ answer' = "ok"

\* With autofix a set of known size is complete after StopIteration and
\* after an error.
LEMMA StopFills ==
    ASSUME autofix, NEW t, TreeOK(t, piped, edited), NEW s \in Sets, t[s].size # Unknown,
           OnStop(s, t) \/ OnError(s, t)
    PROVE  Over(s, t)
<1> DEFINE r == FixLast(t, s)
           stop == [t EXCEPT ![s].gen = Done]
<1>1. /\ DOMAIN r = Sets /\ \A o \in Sets \ {s} : r[o] = t[o]
      /\ r[s].gen = Done /\ r[s].size = t[s].size
      /\ t[s].size = t[s].current => r[s].fields = t[s].fields
      /\ t[s].size # t[s].current =>
           r[s].fields = Append(t[s].fields,
                                Field(RawName, "data", t[s].current, t[s].size - t[s].current))
  BY ONLY TreeOK(t, piped, edited), s \in Sets, t[s].size # Unknown, FixLastIs
<1>2. DOMAIN t = Sets /\ DOMAIN t[s] = {"fields", "size", "current", "gen"}
  BY ONLY TreeOK(t, piped, edited), s \in Sets, TreeFacts
<1> HIDE DEF r
<1>3. FilledUp(t[s], r[s])
  BY ONLY <1>1 DEF FilledUp
<1>4. t[s].size = t[s].current => FilledUp(t[s], stop[s]) /\ \A o \in Sets \ {s} : stop[o] = t[o]
  BY ONLY <1>2, s \in Sets DEF FilledUp
<1>5. CASE OnStop(s, t)
  <2>1. Leave(s, t, StopFeeding(t, s), "ok")
    BY ONLY <1>5, autofix DEF OnStop, StopFails
  <2>2. tree' = StopFeeding(t, s) /\ goal' = [goal EXCEPT ![s] = Idle] /\ answer' = "ok"
    BY ONLY <2>1 DEF Leave
  <2>3. StopFeeding(t, s) = IF t[s].size = t[s].current THEN stop ELSE r
    BY ONLY t[s].size # Unknown DEF StopFeeding, r
  <2> HIDE DEF stop
  <2> QED
    BY ONLY <1>1, <1>3, <1>4, <2>2, <2>3 DEF Over
<1>6. CASE OnError(s, t)
  <2>1. Leave(s, t, r, "ok")
    BY ONLY <1>6, autofix, t[s].size # Unknown DEF OnError, ErrorStays, r
  <2>2. tree' = r /\ goal' = [goal EXCEPT ![s] = Idle] /\ answer' = "ok"
    BY ONLY <2>1 DEF Leave
  <2> QED
    BY ONLY <1>1, <1>3, <2>2 DEF Over
<1> QED
  BY ONLY <1>5, <1>6, OnStop(s, t) \/ OnError(s, t)

\* A set of unknown size keeps what it has: it is complete with that after
\* StopIteration, and as it was after an error.
LEMMA StopSizes ==
    ASSUME HistoryOK, NEW t, TreeOK(t, piped, edited), t.sub.size = Unknown
    PROVE  /\ OnStop("sub", t) =>
                /\ tree'.sub.gen = Done /\ tree'.sub.size = t.sub.current
                /\ tree'.sub.fields = t.sub.fields
                /\ tree'.root = t.root /\ goal'.sub = Idle /\ answer' = "ok"
           /\ OnError("sub", t) => tree' = t /\ goal'.sub = Idle /\ answer' = "error"
<1> DEFINE s == "sub"
           r == [t EXCEPT ![s].gen = Done, ![s].size = IF s = "sub" THEN t[s].current ELSE @]
<1>1. s \in Sets /\ "root" \in Sets /\ t[s].size = Unknown
  BY ONLY t.sub.size = Unknown DEF Sets
<1>2. DOMAIN t = Sets /\ DOMAIN t[s] = {"fields", "size", "current", "gen"}
  BY ONLY TreeOK(t, piped, edited), <1>1, TreeFacts
<1>3. /\ r.sub.gen = Done /\ r.sub.size = t.sub.current /\ r.sub.fields = t.sub.fields
      /\ r.root = t.root
  BY ONLY <1>1, <1>2
<1>4. StopFeeding(t, s) = r
  BY ONLY <1>1 DEF StopFeeding
<1> HIDE DEF r
<1>5. OnStop(s, t) => /\ tree' = r /\ goal' = [goal EXCEPT ![s] = Idle] /\ answer' = "ok"
  BY ONLY <1>1, <1>4 DEF OnStop, StopFails, Leave
<1>6. OnError(s, t) => tree' = t /\ goal' = [goal EXCEPT ![s] = Idle] /\ answer' = "error"
  BY ONLY <1>1 DEF OnError, ErrorStays, Leave
<1>7. goal' = [goal EXCEPT ![s] = Idle] => goal'.sub = Idle
  BY ONLY <1>1, HistoryOK DEF HistoryOK
<1> QED
  BY ONLY <1>3, <1>5, <1>6, <1>7

-----------------------------------------------------------------------------
\* 11. SameParse: the steps of feeding a set of known size, of the set that
\* is added, and the end of _addField.

\* A set whose generator goes on has been made of all items before; a complete one holds
\* those that fit.
OpenOK(items, u, z) == Len(u.fields) = u.gen - 1 /\ Parsed(items, u.fields, u.gen - 1, z)
ParsedSoFar(items, u, z) == IF u.gen = Done THEN Complete(items, u, z) ELSE OpenOK(items, u, z)

\* The generator of s has gone on to n, in t.
Advances(s, t, n) ==
    /\ TreeOK(t, piped, edited) /\ t[s].fields = tree[s].fields /\ t[s].size = tree[s].size
    /\ t[s].current = tree[s].current /\ t[s].gen = n /\ \A o \in Sets \ {s} : t[o] = tree[o]

\* Nothing but the generator changes.
LEMMA AdvancesTo ==
    ASSUME FieldSetInv, NEW s \in Sets, tree[s].gen # Done,
           NEW n \in 0 .. (Len(script[s]) + 1), n # Done, tree[s].gen <= n
    PROVE  Advances(s, [tree EXCEPT ![s].gen = n], n)
<1> DEFINE t == [tree EXCEPT ![s].gen = n]
<1>1. /\ Started(s, t) /\ t[s].gen = n /\ t[s].size = tree[s].size
      /\ t[s].current = tree[s].current
  BY ONLY FieldSetInv, s \in Sets, tree[s].gen # Done, n \in 0 .. (Len(script[s]) + 1), n # Done,
     tree[s].gen <= n, StartedBy
<1> HIDE DEF t
<1>2. Advances(s, t, n)
  BY ONLY <1>1 DEF Started, Advances
<1> QED
  BY ONLY <1>2 DEF t

\* A field of the next item, of a size, is added to s.
Added(s, size) ==
    /\ tree'[s].fields = Append(tree[s].fields, Field(tree[s].gen, "data", tree[s].current, size))
    /\ tree'[s].gen = tree[s].gen + 1 /\ tree'[s].size = tree[s].size
    /\ tree'[s].current = tree[s].current + size
    /\ \A o \in Sets \ {s} : tree'[o] = tree[o]
    /\ goal[s].want = "all" => goal'[s] = goal[s]
    /\ goal'[s] # Idle => answer' = answer

\* What is left behind the next field of s, which has a size.
LeftBehind(s, size) ==
    IF tree[s].size # Unknown THEN tree[s].size - (tree[s].current + size)
    ELSE tree.root.size - (address + (tree[s].current + size))

\* _addField with a field that is not a set, in a stream of known size.
LEMMA AddDataIs ==
    ASSUME FieldSetInv, ~piped, NEW s \in Sets, AddData(s)
    PROVE  /\ HasItem(s) /\ NextItem(s).kind = "data" /\ NextItem(s).size \in Nat
           /\ \/ /\ LeftBehind(s, NextItem(s).size) >= 0
                 /\ Added(s, NextItem(s).size)
              \/ \E t, rest :
                   /\ LeftBehind(s, NextItem(s).size) < 0
                   /\ rest = NextItem(s).size + LeftBehind(s, NextItem(s).size)
                   /\ Advances(s, t, tree[s].gen + 1) /\ TooLarge(s, t, rest)
<1> DEFINE g == tree[s].gen
           n == g + 1
           at == tree[s].current
           size == NextItem(s).size
           room == Room(tree, s, address, at + size)
           t == [tree EXCEPT ![s].gen = n]
<1>1. HistoryOK /\ InputsOK /\ GensOK /\ TreeOK(tree, piped, edited) /\ address \in Nat
  BY ONLY FieldSetInv DEF FieldSetInv
<1>2. HasItem(s) /\ NextItem(s).kind = "data"
  BY ONLY AddData(s) DEF AddData
<1>3. /\ Len(script[s]) \in Nat /\ g # Done /\ g \in DOMAIN script[s]
      /\ DOMAIN script[s] = 1 .. Len(script[s]) /\ size \in Nat
  BY ONLY <1>1, <1>2, s \in Sets, ScriptFacts
<1>4. /\ DOMAIN tree = Sets /\ DOMAIN tree[s] = {"fields", "size", "current", "gen"}
      /\ at \in Nat /\ tree[s].size \in OptSize
  BY ONLY <1>1, s \in Sets, TreeFacts
<1>5. t = Advanced(s)
  BY ONLY <1>4, s \in Sets DEF Advanced
<1>6. IF room # Unknown /\ room < 0
      THEN TooLarge(s, t, size + room)
      ELSE OnAdded(s, AddTo(t, s, Field(g, "data", at, size)), g)
  BY ONLY <1>5, AddData(s) DEF AddData
<1>7. n \in 0 .. (Len(script[s]) + 1) /\ n # Done /\ g <= n /\ g \in Nat
  <2> DEFINE m == Len(script[s])
  <2>1. m \in Nat /\ g \in 1 .. m
    BY ONLY <1>3
  <2> HIDE DEF m, g
  <2>2. n \in 0 .. (m + 1) /\ n # 0 /\ g <= n /\ g \in Nat
    BY ONLY <2>1
  <2> QED
    BY ONLY <2>2 DEF m, Done
<1>8. Advances(s, t, n)
  <2> HIDE DEF n
  <2> QED
    BY ONLY FieldSetInv, s \in Sets, <1>3, <1>7, AdvancesTo
<1>9. room = LeftBehind(s, size) /\ room \in Int /\ room # Unknown
  <2>1. tree.root.size = StreamSize /\ StreamSize \in Nat /\ Unknown \notin Int
    BY ONLY <1>1, ~piped, InputFacts DEF TreeOK
  <2>2. s = "root" \/ s = "sub"
    BY s \in Sets DEF Sets
  <2>3. tree[s].size # Unknown => tree[s].size \in Nat
    BY ONLY <1>4 DEF OptSize
  <2> HIDE DEF at, size
  <2>4. room = LeftBehind(s, size)
    BY ONLY <2>1, <2>2 DEF Room, LeftBehind, at
  <2>5. LeftBehind(s, size) \in Int
    BY ONLY <1>1, <1>3, <1>4, <2>1, <2>3 DEF LeftBehind, at
  <2> HIDE DEF room
  <2> QED
    BY ONLY <2>1, <2>4, <2>5
<1>10. CASE room < 0
  <2>1. TooLarge(s, t, size + room)
    BY ONLY <1>6, <1>9, <1>10
  <2> HIDE DEF t, room, size
  <2> DEFINE rest == size + room
  <2>2. /\ LeftBehind(s, size) < 0
        /\ rest = size + LeftBehind(s, size)
        /\ Advances(s, t, tree[s].gen + 1) /\ TooLarge(s, t, rest)
    BY ONLY <1>8, <1>9, <1>10, <2>1
  <2> HIDE DEF rest
  <2> QED
    BY ONLY <1>2, <1>3, <2>2 DEF size
<1>11. CASE ~(room < 0)
  <2> DEFINE f == Field(g, "data", at, size)
             r == AddTo(t, s, f)
  <2>1. OnAdded(s, r, g)
    BY ONLY <1>6, <1>11
  <2>2. DOMAIN t = Sets /\ DOMAIN t[s] = {"fields", "size", "current", "gen"}
    BY ONLY <1>4
  <2>3. /\ t[s].fields = tree[s].fields /\ t[s].size = tree[s].size
        /\ t[s].current = tree[s].current /\ t[s].gen = n /\ \A o \in Sets \ {s} : t[o] = tree[o]
    BY ONLY <1>8 DEF Advances
  <2> HIDE DEF t
  <2>4. SizeOf(t, f) = size
    BY ONLY DEF SizeOf, Field
  <2> HIDE DEF f
  <2>5. /\ r[s].fields = Append(t[s].fields, f) /\ r[s].current = t[s].current + size
        /\ r[s].size = t[s].size /\ r[s].gen = t[s].gen
        /\ \A o \in Sets \ {s} : r[o] = t[o]
    BY ONLY <2>2, <2>4, s \in Sets DEF AddTo
  <2> HIDE DEF r
  <2> DEFINE h == CASE goal[s].want = "all" -> goal[s]
                    [] goal[s].want = "count" /\ goal[s].n > 1 -> [goal[s] EXCEPT !.n = @ - 1]
                    [] goal[s].want = "item" /\ goal[s].n # g -> goal[s]
                    [] OTHER -> Idle
  <2>6. /\ tree' = r /\ answer' = IF goal'[s] = Idle THEN "ok" ELSE answer
        /\ goal' = [goal EXCEPT ![s] = h]
    BY ONLY <2>1 DEF OnAdded
  <2>7. goal[s].want = "all" => h = goal[s]
    OBVIOUS
  <2> HIDE DEF h
  <2>8. goal[s].want = "all" => goal'[s] = goal[s]
    BY ONLY <1>1, <2>6, <2>7, s \in Sets DEF HistoryOK
  <2>9. Added(s, size)
    BY ONLY <2>3, <2>5, <2>6, <2>8 DEF Added, f
  <2>10. room >= 0
    <3> HIDE DEF room
    <3> QED
      BY ONLY <1>9, <1>11
  <2> QED
    BY ONLY <1>2, <1>3, <1>9, <2>9, <2>10
<1> QED
  BY ONLY <1>10, <1>11

\* A field that does not fit in a set of known size ends it.
LEMMA TooLargeFills ==
    ASSUME autofix, NEW t, TreeOK(t, piped, edited), NEW s \in Sets, t[s].size # Unknown,
           NEW rest, TooLarge(s, t, rest)
    PROVE  Over(s, t)
<1>1. OnStop(s, t) \/ OnError(s, t)
  BY ONLY t[s].size # Unknown, TooLarge(s, t, rest) DEF TooLarge
<1> QED
  BY ONLY <1>1, autofix, TreeOK(t, piped, edited), s \in Sets, t[s].size # Unknown, StopFills

\* A step of feeding a set of known size keeps it made of its items.
LEMMA FedSame ==
    ASSUME FieldSetInv, autofix, ~piped, NEW s \in Sets, tree[s].size # Unknown,
           NEW items \in Seq(Items), Len(items) = Len(script[s]),
           NEW z, SetOK(tree[s], z, piped, edited), ParsedSoFar(items, tree[s], z),
           HasItem(s) /\ NextItem(s).kind = "error" => items[tree[s].gen].kind = "error",
           HasItem(s) /\ NextItem(s).kind = "data" => items[tree[s].gen] = NextItem(s),
           GenEnds(s) \/ GenFails(s) \/ AddData(s)
    PROVE  /\ ParsedSoFar(items, tree'[s], z) /\ tree'[s].size = tree[s].size
           /\ \A o \in Sets \ {s} : tree'[o] = tree[o]
<1> DEFINE u == tree[s]
           g == u.gen
           n == g - 1
           N == Len(items)
<1>1. HistoryOK /\ InputsOK /\ GensOK /\ TreeOK(tree, piped, edited)
  BY ONLY FieldSetInv DEF FieldSetInv
<1>2. /\ Len(script[s]) \in Nat /\ DOMAIN script[s] = 1 .. Len(script[s])
      /\ g \in Nat /\ g <= Len(script[s]) + 1
      /\ HasItem(s) => g # Done /\ g \in DOMAIN script[s] /\ NextItem(s).size \in Nat
  BY ONLY <1>1, s \in Sets, ScriptFacts
<1>3. N \in Nat /\ g \in Nat /\ g <= N + 1 /\ (HasItem(s) => g \in 1 .. N)
      /\ (~HasItem(s) /\ g # Done => g = N + 1)
  <2>1. HasItem(s) <=> g # Done /\ g <= Len(script[s])
    BY ONLY DEF HasItem
  <2> HIDE DEF g, N
  <2>2. N = Len(script[s])
    BY ONLY Len(items) = Len(script[s]) DEF N
  <2> QED
    BY ONLY <1>2, <2>1, <2>2
<1>4. g # Done => Len(u.fields) = n /\ Parsed(items, u.fields, n, z)
  BY ONLY ParsedSoFar(items, tree[s], z) DEF ParsedSoFar, OpenOK
<1>5. /\ u.current \in Nat /\ u.size \in Nat /\ Unlike(u.fields) /\ u.fields \in Seq(Fields)
      /\ g = Done => u.size = u.current
  <2>1. u.current \in Nat /\ u.size \in Nat /\ u.fields \in Seq(Fields)
    BY ONLY <1>1, s \in Sets, tree[s].size # Unknown, TreeFacts
  <2> QED
    BY ONLY <2>1, ~piped, SetOK(tree[s], z, piped, edited) DEF SetOK, SizesOK
<1>6. ASSUME NEW t, Over(s, t), t[s].fields = u.fields, t[s].size = u.size, t[s].current = u.current,
             \A o \in Sets \ {s} : t[o] = tree[o],
             g # Done => Stops(items, n, u.current, u.size)
      PROVE  /\ ParsedSoFar(items, tree'[s], z) /\ tree'[s].size = tree[s].size
             /\ \A o \in Sets \ {s} : tree'[o] = tree[o]
  <2> DEFINE r == tree'[s]
  <2>1. FilledUp(t[s], r) /\ \A o \in Sets \ {s} : tree'[o] = tree[o]
    BY ONLY <1>6 DEF Over
  <2>2. FilledUp(u, r)
    BY ONLY <1>6, <2>1 DEF FilledUp
  <2>3. r.gen = Done /\ r.size = u.size
    BY ONLY <2>2 DEF FilledUp
  <2>4. CASE g = Done
    <3>1. r.fields = u.fields
      BY ONLY <1>5, <2>2, <2>4 DEF FilledUp
    <3>2. Complete(items, u, z)
      BY ONLY <2>4, ParsedSoFar(items, tree[s], z) DEF ParsedSoFar
    <3>3. Complete(items, r, z)
      BY ONLY <2>3, <3>1, <3>2 DEF Complete
    <3> QED
      BY ONLY <2>1, <2>3, <3>3 DEF ParsedSoFar
  <2>5. CASE g # Done
    <3>1. Len(u.fields) = n /\ Parsed(items, u.fields, n, z) /\ Stops(items, n, u.current, u.size)
      BY ONLY <1>4, <1>6, <2>5
    <3>2. SetOK(u, z, piped, edited) /\ u.size # Unknown
      BY SetOK(tree[s], z, piped, edited)
    <3> HIDE DEF u, n, r
    <3>3. Complete(items, r, z)
      BY ONLY items \in Seq(Items), <2>2, <3>1, <3>2, FillCompletes
    <3> QED
      BY ONLY <2>1, <2>3, <3>3 DEF ParsedSoFar, u, r
  <2> QED
    BY ONLY <2>4, <2>5
<1>7. g \in 1 .. N => n + 1 = g /\ n < N
  <2> HIDE DEF g, N
  <2> QED
    BY ONLY <1>3
<1>8. CASE GenEnds(s)
  <2>1. ~HasItem(s) /\ (OnStop(s, tree) \/ OnError(s, tree))
    BY ONLY <1>8 DEF GenEnds
  <2>2. Over(s, tree)
    BY ONLY <1>1, <2>1, autofix, s \in Sets, tree[s].size # Unknown, StopFills
  <2>3. g # Done => Stops(items, n, u.current, u.size)
    <3>1. g # Done => n = N
      <4> HIDE DEF g, N
      <4> QED
        BY ONLY <1>3, <2>1
    <3>2. ~ (N < N)
      <4> HIDE DEF N
      <4> QED
        BY ONLY <1>3
    <3> QED
      BY ONLY <3>1, <3>2 DEF Stops
  <2> QED
    BY ONLY <1>6, <2>2, <2>3
<1>9. CASE GenFails(s)
  <2> DEFINE m == Len(script[s]) + 1
             t == [tree EXCEPT ![s].gen = m]
  <2>1. HasItem(s) /\ NextItem(s).kind = "error" /\ OnError(s, t)
    BY ONLY <1>9 DEF GenFails
  <2>2. m \in 0 .. (Len(script[s]) + 1) /\ m # Done /\ g <= m /\ g # Done
    <3>1. m \in Nat /\ m # 0
      BY ONLY <1>2
    <3> HIDE DEF m, g
    <3> QED
      BY ONLY <1>2, <2>1, <3>1 DEF m, Done
  <2> HIDE DEF m
  <2>3. Advances(s, t, m)
    BY ONLY FieldSetInv, s \in Sets, <2>2, AdvancesTo
  <2> HIDE DEF t
  <2>4. t[s].size # Unknown /\ TreeOK(t, piped, edited)
    BY ONLY <2>3, tree[s].size # Unknown DEF Advances
  <2>5. Over(s, t)
    BY ONLY <2>1, <2>4, autofix, s \in Sets, StopFills
  <2>6. items[n + 1].kind = "error"
    BY ONLY <1>3, <1>7, <2>1, HasItem(s) /\ NextItem(s).kind = "error" => items[tree[s].gen].kind = "error"
  <2>7. Stops(items, n, u.current, u.size)
    BY ONLY <2>6 DEF Stops
  <2> QED
    BY ONLY <1>6, <2>3, <2>5, <2>7 DEF Advances
<1>10. CASE AddData(s)
  <2> DEFINE size == NextItem(s).size
  <2>1. HasItem(s) /\ NextItem(s).kind = "data" /\ size \in Nat
    BY ONLY <1>10, FieldSetInv, ~piped, s \in Sets, AddDataIs
  <2>2. items[n + 1] = NextItem(s) /\ items[n + 1].size = size /\ items[n + 1].kind = "data"
    BY ONLY <1>3, <1>7, <2>1, HasItem(s) /\ NextItem(s).kind = "data" => items[tree[s].gen] = NextItem(s)
  <2>3. LeftBehind(s, size) = u.size - (u.current + size)
    BY ONLY tree[s].size # Unknown DEF LeftBehind
  <2>4. \/ Added(s, size)
        \/ \E t, rest : /\ LeftBehind(s, size) < 0
                        /\ Advances(s, t, tree[s].gen + 1) /\ TooLarge(s, t, rest)
    BY ONLY <1>10, FieldSetInv, ~piped, s \in Sets, AddDataIs
  <2>5. CASE Added(s, size)
    <3> DEFINE f == Field(g, "data", u.current, size)
               r == tree'[s]
    <3>1. /\ r.fields = Append(u.fields, f) /\ r.gen = g + 1 /\ r.size = u.size
          /\ \A o \in Sets \ {s} : tree'[o] = tree[o]
      BY ONLY <2>5 DEF Added
    <3>2. g # Done /\ n + 1 = g /\ n + 1 \in 1 .. N /\ (g + 1) - 1 = n + 1 /\ g + 1 # Done
      <4>1. g \in 1 .. N /\ n + 1 = g
        BY ONLY <1>3, <1>7, <2>1
      <4> HIDE DEF n, g, N
      <4> QED
        BY ONLY <1>3, <4>1 DEF Done
    <3>3. f \in Fields /\ f.name = n + 1 /\ f.kind = "data" /\ f.size = size
      BY ONLY <1>3, <1>5, <2>1, <3>2 DEF Field, Fields, Names
    <3>4. Parsed(items, Append(u.fields, f), n + 1, z) /\ Len(Append(u.fields, f)) = n + 1
      <4>1. Parsed(items, u.fields, n, z) /\ Len(u.fields) = n
        BY ONLY <1>4, <3>2
      <4>2. f.kind = items[n + 1].kind /\ f.kind # "set" /\ f.size = items[n + 1].size
            /\ items[n + 1].kind # "error" /\ Len(items) \in Nat /\ n + 1 \in 1 .. Len(items)
        BY ONLY <1>3, <2>2, <3>2, <3>3
      <4>3. u.fields \in Seq(Fields) /\ f \in Fields /\ f.name = n + 1
        BY ONLY <1>5, <3>3
      <4> HIDE DEF f, u, n
      <4> QED
        BY ONLY <4>1, <4>2, <4>3, ParsedAppend
    <3>5. OpenOK(items, r, z)
      BY ONLY <3>1, <3>2, <3>4 DEF OpenOK
    <3> QED
      BY ONLY <3>1, <3>2, <3>5 DEF ParsedSoFar
  <2>6. CASE ~Added(s, size)
    <3>1. PICK t, rest : /\ LeftBehind(s, size) < 0
                         /\ Advances(s, t, tree[s].gen + 1) /\ TooLarge(s, t, rest)
      BY ONLY <2>4, <2>6
    <3>2. t[s].size # Unknown /\ TreeOK(t, piped, edited)
      BY ONLY <3>1, tree[s].size # Unknown DEF Advances
    <3>3. Over(s, t)
      BY ONLY <3>1, <3>2, autofix, s \in Sets, TooLargeFills
    <3>4. u.current + size > u.size
      <4> DEFINE a == u.current
                 b == u.size
      <4>1. a \in Nat /\ b \in Nat /\ size \in Nat /\ b - (a + size) < 0
        BY ONLY <1>5, <2>1, <2>3, <3>1
      <4> HIDE DEF a, b, size
      <4>2. a + size > b
        BY ONLY <4>1
      <4> QED
        BY ONLY <4>2 DEF a, b
    <3>5. Stops(items, n, u.current, u.size)
      BY ONLY <2>2, <3>4 DEF Stops
    <3> QED
      BY ONLY <1>6, <3>1, <3>3, <3>5 DEF Advances
  <2> QED
    BY ONLY <2>5, <2>6
<1> QED
  BY ONLY <1>8, <1>9, <1>10, GenEnds(s) \/ GenFails(s) \/ AddData(s)

\* The size of the set where it is added, and whether its generator fails.
Span == SetSpan(SetAt)
Fails == SetFails(SetAt)

\* The parser: what it has is what its items make, and the set has the size that it gets.
RootSame ==
    /\ adding => /\ tree.root.gen # Done /\ SetName = tree.root.gen - 1 /\ address = SetAt
                 /\ Len(tree.root.fields) = SetName - 1
                 /\ Parsed(ParserItems, tree.root.fields, SetName - 1, 0)
    /\ ~adding => ParsedSoFar(ParserItems, tree.root, tree.sub.size)
    /\ HasSet(tree.root.fields) =>
         /\ address = SetAt /\ tree.sub.size = Span
         /\ ParsedSoFar(script.sub, tree.sub, 0)
         /\ tree.root.gen # Done => ~Fails

\* A set that is being added: its size was given, or it is fed, or has its size, or has
\* failed before that.
SubFed == tree.sub.gen # Done /\ OpenOK(script.sub, tree.sub, 0)
SubSized == tree.sub.size = Span /\ ~Fails /\ ParsedSoFar(script.sub, tree.sub, 0)
FailsAt(items, fs, n) ==
    Len(fs) = n /\ Parsed(items, fs, n, 0) /\ items[n + 1].kind = "error"
SubFailed ==
    /\ tree.sub.size = Unknown
    /\ Fails => /\ Span = IF tree.sub.current = Behind(SetAt) THEN tree.sub.current ELSE 0
                /\ \E n \in 0 .. Len(script.sub) : FailsAt(script.sub, tree.sub.fields, n)
    /\ ~Fails => Span = 0 /\ tree.sub.current = 0
SubSame ==
    adding =>
      /\ given # Unknown => tree.sub = Empty(given) /\ goal.sub = Idle /\ answer # "error"
      /\ given = Unknown =>
           /\ goal.sub # Idle => SubFed
           /\ goal.sub = Idle /\ answer # "error" => SubSized
           /\ goal.sub = Idle /\ answer = "error" => SubFailed

SameInv == autofix /\ ~piped /\ ~edited => RootSame /\ SubSame

\* The reference depends on the inputs only.
LEMMA Stable ==
    ASSUME UNCHANGED inputs
    PROVE  /\ SetName' = SetName /\ SetAt' = SetAt /\ Span' = Span /\ Fails' = Fails
           /\ ParserItems' = ParserItems /\ script' = script /\ given' = given
           /\ autofix' = autofix /\ piped' = piped
<1>1. script' = script /\ given' = given /\ autofix' = autofix /\ piped' = piped
  BY DEF inputs
<1>2. SetName' = SetName
  BY ONLY <1>1 DEF SetName
<1>3. SetAt' = SetAt
  BY ONLY <1>1, <1>2 DEF SetAt
<1>4. Fails' = Fails
  BY ONLY <1>1, <1>3 DEF Fails, SetFails
<1>5. Span' = Span
  BY ONLY <1>1, <1>3 DEF Span, SetSpan, SetFails
<1>6. ParserItems' = ParserItems
  BY ONLY <1>1, <1>2 DEF ParserItems, SetSpan, SetFails
<1> QED
  BY ONLY <1>1, <1>2, <1>3, <1>4, <1>5, <1>6

\* Without a set its size does not matter.
LEMMA SoFarOfData ==
    ASSUME NEW items, NEW u, u.fields \in Seq(Fields), ~HasSet(u.fields), NEW y, NEW z,
           ParsedSoFar(items, u, y)
    PROVE  ParsedSoFar(items, u, z)
<1>1. CASE u.gen = Done
  <2>1. PICK n \in 0 .. Len(items) :
           /\ Parsed(items, u.fields, n, y) /\ Stops(items, n, EndAt(u.fields, n, y), u.size)
           /\ \/ Len(u.fields) = n
              \/ /\ Len(u.fields) = n + 1 /\ u.fields[n + 1].name = RawName
                 /\ u.fields[n + 1].kind = "data" /\ u.fields[n + 1].size # 0
    BY ONLY <1>1, ParsedSoFar(items, u, y) DEF ParsedSoFar, Complete
  <2> DEFINE fs == u.fields
  <2>2. fs \in Seq(Fields) /\ ~HasSet(fs) /\ Parsed(items, fs, n, y)
    BY <2>1
  <2> HIDE DEF fs
  <2>3. Parsed(items, fs, n, z) /\ EndAt(fs, n, z) = EndAt(fs, n, y)
    BY ONLY <2>2, ParsedOfData
  <2>4. Parsed(items, u.fields, n, z) /\ Stops(items, n, EndAt(u.fields, n, z), u.size)
    BY ONLY <2>1, <2>3 DEF fs
  <2> QED
    BY ONLY <1>1, <2>1, <2>4 DEF ParsedSoFar, Complete
<1>2. CASE u.gen # Done
  <2> DEFINE fs == u.fields
             n == u.gen - 1
  <2>1. fs \in Seq(Fields) /\ ~HasSet(fs) /\ Parsed(items, fs, n, y) /\ Len(u.fields) = n
    BY <1>2 DEF ParsedSoFar, OpenOK
  <2> HIDE DEF fs, n
  <2>2. Parsed(items, fs, n, z)
    BY ONLY <2>1, ParsedOfData
  <2> QED
    BY ONLY <1>2, <2>1, <2>2 DEF ParsedSoFar, OpenOK, fs, n
<1> QED
  BY ONLY <1>1, <1>2

\* What the parser yields next is its next item, if it is no set.
LEMMA NextItemIs ==
    ASSUME FieldSetInv, RootSame, ~adding, HasItem("root")
    PROVE  /\ NextItem("root").kind = "error" => ParserItems[tree.root.gen].kind = "error"
           /\ NextItem("root").kind = "data" => ParserItems[tree.root.gen] = NextItem("root")
<1> DEFINE g == tree.root.gen
           N == Len(script.root)
           fs == tree.root.fields
<1>1. /\ InputsOK /\ GensOK /\ TreeOK(tree, piped, edited) /\ "root" \in Sets
  BY ONLY FieldSetInv DEF FieldSetInv, Sets
<1>2. /\ N \in Nat /\ g # Done /\ g \in 1 .. N /\ NextItem("root") = script.root[g]
  BY ONLY <1>1, HasItem("root"), ScriptFacts DEF NextItem
<1>3. OpenOK(ParserItems, tree.root, tree.sub.size)
  BY ONLY <1>2, RootSame, ~adding DEF RootSame, ParsedSoFar
<1>4. Len(fs) = g - 1 /\ Parsed(ParserItems, fs, g - 1, tree.sub.size)
  BY ONLY <1>3 DEF OpenOK
<1>5. fs \in Seq(Fields) /\ DOMAIN fs = 1 .. (g - 1)
  BY ONLY <1>1, <1>4, TreeFacts, LenProperties
<1> HIDE DEF g, N, fs
<1>6. CASE \A i \in 1 .. N : script.root[i].kind # "set"
  <2>1. ParserItems = script.root
    BY ONLY <1>1, <1>6, ItemsAre DEF N
  <2> QED
    BY ONLY <1>2, <2>1 DEF g
<1>7. CASE ~ (\A i \in 1 .. N : script.root[i].kind # "set")
  <2>1. PICK q \in 1 .. N : script.root[q].kind = "set"
    BY ONLY <1>7
  <2>2. /\ \A i \in 1 .. N : i < q => ParserItems[i] = script.root[i]
        /\ Span = 0 => ParserItems[q].kind = "error"
        /\ Span # 0 => ParserItems[q] = [kind |-> "set", size |-> Span]
        /\ \A i \in 1 .. N : i > q => IF Fails THEN ParserItems[i].kind = "error"
                                      ELSE ParserItems[i] = script.root[i]
    BY ONLY <1>1, <2>1, ItemsAre DEF N, Span, Fails
  <2>3. CASE g < q
    BY ONLY <1>2, <2>2, <2>3 DEF g
  <2>4. CASE g = q
    BY ONLY <1>2, <2>1, <2>4 DEF g
  <2>5. CASE g > q
    <3>1. q \in 1 .. (g - 1)
      BY ONLY <1>2, <2>1, <2>5
    <3>2. ParserItems[q].kind # "error" /\ fs[q].kind = ParserItems[q].kind
      BY ONLY <1>4, <3>1 DEF Parsed
    <3>3. HasSet(fs)
      BY ONLY <1>5, <2>2, <3>1, <3>2 DEF HasSet
    <3>4. ~Fails
      BY ONLY <1>2, <3>3, RootSame DEF RootSame, g, fs
    <3> QED
      BY ONLY <1>2, <2>2, <2>5, <3>4 DEF g
  <2>6. g < q \/ g = q \/ g > q
    BY ONLY <1>2, <2>1
  <2> QED
    BY ONLY <2>3, <2>4, <2>5, <2>6
<1> QED
  BY ONLY <1>6, <1>7

\* A step of the generator of s.
GenStep(s) ==
    /\ GenEnds(s) \/ GenFails(s) \/ AddData(s)
    /\ Fed(s) /\ UNCHANGED <<inputs, address, adding, kept, edited>>

\* What is known of such a step.
LEMMA GenStepIs ==
    ASSUME FieldSetInv, NEW s \in Sets, GenStep(s)
    PROVE  /\ FedStep(s) /\ (tree'[s].gen # Done => tree[s].gen # Done)
           /\ HasSet(tree'.root.fields) <=> HasSet(tree.root.fields)
           /\ \A o \in Sets \ {s} : tree'[o] = tree[o]
<1>1. FedStep(s)
  BY ONLY FieldSetInv, s \in Sets, GenStep(s), GenEndsStep, GenFailsStep, AddDataStep DEF GenStep
<1> DEFINE t == [tree EXCEPT ![s].gen = tree'[s].gen]
<1>2. TreeOK(tree, piped, edited) /\ "root" \in Sets
  BY ONLY FieldSetInv DEF FieldSetInv, Sets
<1>3. DOMAIN tree = Sets /\ DOMAIN tree[s] = {"fields", "size", "current", "gen"}
  BY ONLY <1>2, s \in Sets, TreeFacts
<1>4. t.root.fields = tree.root.fields /\ \A o \in Sets \ {s} : t[o] = tree[o]
  BY ONLY <1>2, <1>3, s \in Sets
<1>5. /\ HasSet(tree'.root.fields) <=> HasSet(t.root.fields)
      /\ \A o \in Sets \ {s} : tree'[o] = t[o]
  BY ONLY <1>1 DEF FedStep, FeedStep
<1> HIDE DEF t
<1> QED
  BY ONLY <1>1, <1>4, <1>5 DEF FedStep

\* A step of feeding the parser.
LEMMA RootKeepsSame ==
    ASSUME FieldSetInv, autofix, ~piped, RootSame, GenStep("root")
    PROVE  RootSame' /\ SubSame'
<1> DEFINE s == "root"
           z == tree.sub.size
<1>1. /\ HistoryOK /\ InputsOK /\ GensOK /\ TreeOK(tree, piped, edited) /\ s \in Sets
      /\ "sub" \in Sets \ {s}
  BY ONLY FieldSetInv DEF FieldSetInv, Sets
<1>2. /\ ~adding /\ adding' = adding /\ address' = address
      /\ GenEnds(s) \/ GenFails(s) \/ AddData(s)
  BY ONLY GenStep("root") DEF GenStep, Fed
<1>3. /\ SetName' = SetName /\ SetAt' = SetAt /\ Span' = Span /\ Fails' = Fails
      /\ ParserItems' = ParserItems /\ script' = script /\ given' = given
  <2>1. UNCHANGED inputs
    BY ONLY GenStep("root") DEF GenStep
  <2> QED
    BY ONLY <2>1, Stable
<1>4. ParserItems \in Seq(Items) /\ Len(ParserItems) = Len(script[s])
  BY ONLY <1>1, ItemsAre
<1>5. /\ tree.root.size # Unknown /\ SetOK(tree[s], z, piped, edited)
  <2>1. tree.root.size = StreamSize /\ StreamSize \in Nat /\ Unknown \notin Int
    BY ONLY <1>1, ~piped, InputFacts DEF TreeOK
  <2> QED
    BY ONLY <1>1, <2>1, TreeFacts
<1>6. /\ HasItem(s) /\ NextItem(s).kind = "error" => ParserItems[tree[s].gen].kind = "error"
      /\ HasItem(s) /\ NextItem(s).kind = "data" => ParserItems[tree[s].gen] = NextItem(s)
  BY ONLY <1>2, FieldSetInv, RootSame, NextItemIs
<1>7. ParsedSoFar(ParserItems, tree[s], z)
  BY ONLY <1>2, RootSame DEF RootSame
<1>8. ParsedSoFar(ParserItems, tree'[s], z) /\ tree'.sub = tree.sub
  <2>1. tree[s].size # Unknown
    BY ONLY <1>5
  <2> HIDE DEF z
  <2>2. /\ ParsedSoFar(ParserItems, tree'[s], z)
        /\ \A o \in Sets \ {s} : tree'[o] = tree[o]
    BY ONLY FieldSetInv, autofix, ~piped, <1>1, <1>2, <1>4, <1>5, <1>6, <1>7, <2>1, FedSame
  <2> QED
    BY ONLY <1>1, <2>2
<1>9. /\ HasSet(tree'.root.fields) => HasSet(tree.root.fields)
      /\ tree'.root.gen # Done => tree.root.gen # Done
  BY ONLY <1>1, FieldSetInv, GenStep("root"), GenStepIs
<1>10. HasSet(tree.root.fields) =>
         /\ address = SetAt /\ tree.sub.size = Span
         /\ ParsedSoFar(script.sub, tree.sub, 0)
         /\ tree.root.gen # Done => ~Fails
  BY ONLY RootSame DEF RootSame
<1>11. RootSame'
  BY ONLY <1>2, <1>3, <1>8, <1>9, <1>10 DEF RootSame
<1>12. SubSame'
  BY ONLY <1>2 DEF SubSame
<1> QED
  BY ONLY <1>11, <1>12

\* A step of feeding the set when it is a field of the parser.
LEMMA SubKeepsSame ==
    ASSUME FieldSetInv, autofix, ~piped, RootSame, GenStep("sub"), ~adding
    PROVE  RootSame' /\ SubSame'
<1> DEFINE s == "sub"
           u == tree.root
<1>1. /\ HistoryOK /\ InputsOK /\ GensOK /\ TreeOK(tree, piped, edited) /\ s \in Sets
      /\ "root" \in Sets \ {s} /\ "root" \in Sets
  BY ONLY FieldSetInv DEF FieldSetInv, Sets
<1>2. /\ adding' = adding /\ address' = address
      /\ GenEnds(s) \/ GenFails(s) \/ AddData(s)
  BY ONLY GenStep("sub") DEF GenStep
<1>3. /\ SetName' = SetName /\ SetAt' = SetAt /\ Span' = Span /\ Fails' = Fails
      /\ ParserItems' = ParserItems /\ script' = script /\ given' = given
  <2>1. UNCHANGED inputs
    BY ONLY GenStep("sub") DEF GenStep
  <2> QED
    BY ONLY <2>1, Stable
<1>4. tree'.root = u
  BY ONLY <1>1, FieldSetInv, GenStep("sub"), GenStepIs
<1>5. ParsedSoFar(ParserItems, u, tree.sub.size)
  BY ONLY ~adding, RootSame DEF RootSame
<1>6. CASE ~HasSet(u.fields)
  <2>1. u.fields \in Seq(Fields)
    BY ONLY <1>1, TreeFacts
  <2> HIDE DEF u
  <2>2. ParsedSoFar(ParserItems, u, tree'.sub.size)
    BY ONLY <1>5, <1>6, <2>1, SoFarOfData
  <2>3. RootSame'
    BY ONLY <1>2, <1>3, <1>4, <1>6, <2>2, ~adding DEF RootSame
  <2> QED
    BY ONLY <1>2, <2>3, ~adding DEF SubSame
<1>7. CASE HasSet(u.fields)
  <2>1. /\ address = SetAt /\ tree.sub.size = Span
        /\ ParsedSoFar(script.sub, tree.sub, 0)
        /\ tree.root.gen # Done => ~Fails
    BY ONLY <1>7, RootSame DEF RootSame
  <2>2. tree[s].size # Unknown
    <3>1. tree.sub.size \in Nat /\ Unknown \notin Int
      BY ONLY <1>1, <1>7, TreeFacts, InputFacts
    <3> QED
      BY ONLY <3>1
  <2>3. SetOK(tree[s], 0, piped, edited)
    <3>1. SetOK(tree[s], tree.sub.size, piped, edited) /\ ~HasSet(tree[s].fields)
      BY ONLY <1>1, TreeFacts DEF TreeOK
    <3> QED
      BY ONLY <3>1, SetOfData
  <2>4. script[s] \in Seq(Items) /\ Len(script[s]) = Len(script[s]) /\ ParsedSoFar(script[s], tree[s], 0)
    BY ONLY <1>1, <2>1, InputFacts
  <2>5. /\ HasItem(s) /\ NextItem(s).kind = "error" => script[s][tree[s].gen].kind = "error"
        /\ HasItem(s) /\ NextItem(s).kind = "data" => script[s][tree[s].gen] = NextItem(s)
    BY ONLY DEF NextItem
  <2>6. ParsedSoFar(script[s], tree'[s], 0) /\ tree'[s].size = tree[s].size
    <3> DEFINE items == script[s]
    <3>1. /\ items \in Seq(Items) /\ Len(items) = Len(script[s]) /\ ParsedSoFar(items, tree[s], 0)
          /\ HasItem(s) /\ NextItem(s).kind = "error" => items[tree[s].gen].kind = "error"
          /\ HasItem(s) /\ NextItem(s).kind = "data" => items[tree[s].gen] = NextItem(s)
      BY ONLY <2>4, <2>5
    <3>2. s \in Sets
      BY ONLY <1>1
    <3> HIDE DEF items, s
    <3>3. ParsedSoFar(items, tree'[s], 0) /\ tree'[s].size = tree[s].size
      BY ONLY FieldSetInv, autofix, ~piped, <1>2, <2>2, <2>3, <3>1, <3>2, FedSame
    <3> QED
      BY ONLY <3>3 DEF items
  <2>7. RootSame'
    BY ONLY <1>2, <1>3, <1>4, <1>5, <2>1, <2>6, ~adding DEF RootSame
  <2> QED
    BY ONLY <1>2, <2>7, ~adding DEF SubSame
<1> QED
  BY ONLY <1>6, <1>7

\* What a set of unknown size gets, from how many of its items fit.
LEMMA SpanOfFed ==
    ASSUME InputsOK, given = Unknown, SetAt \in Nat,
           NEW fs, NEW n, Parsed(script.sub, fs, n, 0),
           NEW c, c = Sum(script.sub, n), c <= Behind(SetAt), Stops(script.sub, n, c, Behind(SetAt))
    PROVE  /\ n = Len(script.sub) => ~Fails /\ Span = c
           /\ n # Len(script.sub) /\ script.sub[n + 1].kind = "error" =>
                Fails /\ Span = IF c = Behind(SetAt) THEN c ELSE 0
           /\ n # Len(script.sub) /\ script.sub[n + 1].kind # "error" =>
                ~Fails /\ Span = IF c > 0 THEN Behind(SetAt) ELSE 0
<1> DEFINE left == Behind(SetAt)
           items == script.sub
           N == Len(items)
<1>1. items \in Seq(Items) /\ left \in Nat /\ N \in Nat
  BY ONLY InputsOK, SetAt \in Nat, InputFacts, SpanIs
<1>2. left \in Int
  BY ONLY <1>1
<1>3. Lead(items, left) = n
  <2>1. Sum(items, n) <= left /\ Stops(items, n, Sum(items, n), left) /\ Parsed(items, fs, n, 0)
    BY ONLY c = Sum(script.sub, n), c <= Behind(SetAt), Stops(script.sub, n, c, Behind(SetAt)),
       Parsed(script.sub, fs, n, 0)
  <2> HIDE DEF items, left
  <2> QED
    BY ONLY <1>1, <1>2, <2>1, StopsLeads
<1>4. n \in 0 .. N
  BY ONLY Parsed(script.sub, fs, n, 0) DEF Parsed
<1>5. Fails <=> n < N /\ items[n + 1].kind = "error"
  BY ONLY <1>3, given = Unknown DEF Fails, SetFails
<1>6. Span = IF n = N THEN c
             ELSE IF Fails THEN IF c = left THEN c ELSE 0
             ELSE IF c > 0 THEN left ELSE 0
  BY ONLY <1>3, given = Unknown, c = Sum(script.sub, n) DEF Span, SetSpan, Fails
<1>7. (n = N => ~ (n < N)) /\ (n # N => n < N)
  <2> HIDE DEF N
  <2> QED
    BY ONLY <1>1, <1>4
<1> QED
  BY ONLY <1>5, <1>6, <1>7

\* A set that ends with what it has, no more of which fits in its size, is
\* complete.
LEMMA SizedCompletes ==
    ASSUME NEW items, NEW fs, NEW n, n \in 0 .. Len(items), Parsed(items, fs, n, 0), Len(fs) = n,
           NEW c, EndAt(fs, n, 0) = c, NEW r, r.fields = fs, r.size = c, Stops(items, n, c, c)
    PROVE  Complete(items, r, 0)
BY ONLY n \in 0 .. Len(items), Parsed(items, fs, n, 0), Len(fs) = n, EndAt(fs, n, 0) = c,
   r.fields = fs, r.size = c, Stops(items, n, c, c) DEF Complete

\* The set while it is added and fed.
FedSet(n, left) ==
    /\ n \in Nat /\ n <= Len(script.sub) /\ tree.sub.gen = n + 1
    /\ Len(tree.sub.fields) = n /\ Parsed(script.sub, tree.sub.fields, n, 0)
    /\ tree.sub.current \in Nat /\ tree.sub.current = Sum(script.sub, n)
    /\ EndAt(tree.sub.fields, n, 0) = tree.sub.current
    /\ tree.sub.size = Unknown /\ left \in Nat /\ tree.sub.current <= left
    /\ left = Behind(SetAt) /\ tree.root.size = address + left

\* What is known of it.
LEMMA FedSetIs ==
    ASSUME FieldSetInv, AddsAtEnd, RootSame, SubSame, ~piped, adding, goal.sub # Idle
    PROVE  /\ given = Unknown /\ SetAt \in Nat /\ address = SetAt /\ goal.sub.want = "all"
           /\ SetOK(tree.sub, 0, piped, edited) /\ ~HasSet(tree.root.fields)
           /\ FedSet(tree.sub.gen - 1, Behind(SetAt))
<1> DEFINE n == tree.sub.gen - 1
           left == Behind(SetAt)
           c == tree.sub.current
           fs == tree.sub.fields
           items == script.sub
<1>1. /\ InputsOK /\ GensOK /\ TreeOK(tree, piped, edited) /\ "sub" \in Sets
      /\ Waiting /\ address \in Nat
  BY ONLY FieldSetInv, adding DEF FieldSetInv, AddingOK, Sets
<1>2. given = Unknown /\ SubFed
  BY ONLY SubSame, adding, goal.sub # Idle DEF SubSame
<1>3. address = SetAt
  BY ONLY RootSame, adding DEF RootSame
<1>4. goal.sub.want = "all" /\ ~HasSet(tree.root.fields)
  BY ONLY <1>1, goal.sub # Idle DEF Waiting
<1>5. tree.sub.size = Unknown /\ address + c <= tree.root.size
  BY ONLY AddsAtEnd, adding, goal.sub # Idle DEF AddsAtEnd, Waits
<1>6. SetOK(tree.sub, 0, piped, edited)
  <2>1. SetOK(tree.sub, tree.sub.size, piped, edited) /\ ~HasSet(tree.sub.fields)
    BY ONLY <1>1 DEF TreeOK
  <2> QED
    BY ONLY <2>1, SetOfData
<1>7. Chain(fs, 0, 0, c) /\ c \in Nat
  BY ONLY <1>6, SetFacts DEF SetOK
<1>8. tree.sub.gen # Done /\ Len(fs) = n /\ Parsed(items, fs, n, 0)
  BY ONLY <1>2 DEF SubFed, OpenOK
<1>9. items \in Seq(Items) /\ Len(items) \in Nat
  BY ONLY <1>1, InputFacts
<1>10. n \in Nat /\ n <= Len(items) /\ n \in 0 .. n /\ tree.sub.gen = n + 1
  <2>1. n \in 0 .. Len(items) /\ tree.sub.gen \in Nat
    BY ONLY <1>1, <1>8, ScriptFacts DEF Parsed
  <2> DEFINE N == Len(items)
             g == tree.sub.gen
  <2>2. N \in Nat /\ n \in 0 .. N /\ g \in Nat /\ n = g - 1
    BY ONLY <1>9, <2>1
  <2> HIDE DEF N, n, g
  <2>3. n \in Nat /\ n <= N /\ n \in 0 .. n /\ g = n + 1
    BY ONLY <2>2
  <2> QED
    BY ONLY <2>3 DEF N, g
<1>11. EndAt(fs, n, 0) = Sum(items, n) /\ c = Sum(items, n)
  <2> HIDE DEF n, fs, items, c
  <2> QED
    BY ONLY <1>7, <1>8, <1>9, <1>10, ParsedSums
<1>12. tree.root.size = StreamSize /\ StreamSize \in Nat
  BY ONLY <1>1, ~piped, InputFacts DEF TreeOK
<1>13. left \in Nat /\ c <= left /\ tree.root.size = address + left
  <2>1. left = IF address < StreamSize THEN StreamSize - address ELSE 0
    BY ONLY <1>3 DEF Behind
  <2>2. address + c <= StreamSize
    BY ONLY <1>5, <1>12
  <2> HIDE DEF c, left
  <2> QED
    BY ONLY <1>1, <1>7, <1>12, <2>1, <2>2
<1>14. SetAt \in Nat
  BY ONLY <1>1, <1>3
<1>15. FedSet(n, left)
  BY ONLY <1>5, <1>7, <1>8, <1>10, <1>11, <1>13 DEF FedSet
<1> QED
  BY ONLY <1>2, <1>3, <1>4, <1>6, <1>14, <1>15

\* What a step of feeding it may make of it.
FedOn == goal'.sub # Idle /\ SubFed'
FedOut == goal'.sub = Idle /\ answer' = "ok" /\ SubSized'
FedFails == goal'.sub = Idle /\ answer' = "error" /\ SubFailed'

\* StopIteration, where no more items fit: its size is what it has.
LEMMA FedStops ==
    ASSUME FieldSetInv, AddsAtEnd, RootSame, SubSame, ~piped, adding, goal.sub # Idle, UNCHANGED inputs,
           tree.sub.current = Span, ~Fails, NEW n, n = tree.sub.gen - 1,
           Stops(script.sub, n, tree.sub.current, tree.sub.current),
           NEW t, TreeOK(t, piped, edited), t.sub.fields = tree.sub.fields, t.sub.size = Unknown,
           t.sub.current = tree.sub.current, OnStop("sub", t)
    PROVE  FedOut
<1>1. FedSet(n, Behind(SetAt))
  BY ONLY FieldSetInv, AddsAtEnd, RootSame, SubSame, ~piped, adding, goal.sub # Idle,
     n = tree.sub.gen - 1, FedSetIs
<1>2. /\ tree'.sub.gen = Done /\ tree'.sub.size = t.sub.current
      /\ tree'.sub.fields = t.sub.fields
      /\ goal'.sub = Idle /\ answer' = "ok"
  <2>1. HistoryOK
    BY ONLY FieldSetInv DEF FieldSetInv
  <2> QED
    BY ONLY <2>1, TreeOK(t, piped, edited), t.sub.size = Unknown, OnStop("sub", t), StopSizes
<1>3. Complete(script.sub, tree'.sub, 0)
  <2> DEFINE fs == tree.sub.fields
             c == tree.sub.current
             items == script.sub
             r == tree'.sub
  <2>1. /\ n \in 0 .. Len(items) /\ Parsed(items, fs, n, 0) /\ Len(fs) = n /\ EndAt(fs, n, 0) = c
        /\ r.fields = fs /\ r.size = c /\ Stops(items, n, c, c)
    BY ONLY <1>1, <1>2, t.sub.fields = tree.sub.fields, t.sub.current = tree.sub.current,
       Stops(script.sub, n, tree.sub.current, tree.sub.current) DEF FedSet, Parsed
  <2> HIDE DEF fs, c, items, r
  <2>2. Complete(items, r, 0)
    BY ONLY <2>1, SizedCompletes
  <2> QED
    BY ONLY <2>2 DEF items, r
<1>4. script' = script /\ Span' = Span /\ Fails' = Fails
  BY ONLY UNCHANGED inputs, Stable
<1>5. SubSized'
  BY ONLY <1>2, <1>3, <1>4, tree.sub.current = Span, t.sub.current = tree.sub.current, ~Fails
     DEF SubSized, ParsedSoFar
<1> QED
  BY ONLY <1>2, <1>5 DEF FedOut

\* createFields() of the set returns.
LEMMA FedEnds ==
    ASSUME FieldSetInv, AddsAtEnd, RootSame, SubSame, ~piped, adding, GenStep("sub"), GenEnds("sub")
    PROVE  FedOut
<1> DEFINE n == tree.sub.gen - 1
           left == Behind(SetAt)
           N == Len(script.sub)
           c == tree.sub.current
<1>1. goal.sub # Idle /\ UNCHANGED inputs /\ ~HasItem("sub")
  BY ONLY GenStep("sub"), GenEnds("sub") DEF GenStep, Fed, GenEnds
<1>2. given = Unknown /\ SetAt \in Nat /\ FedSet(n, left)
  BY ONLY FieldSetInv, AddsAtEnd, RootSame, SubSame, ~piped, adding, <1>1, FedSetIs
<1>3. /\ InputsOK /\ TreeOK(tree, piped, edited) /\ N \in Nat
  BY ONLY FieldSetInv, InputFacts DEF FieldSetInv
<1>4. n = N /\ tree.sub.gen # Done
  <2>1. n \in Nat /\ n <= N /\ tree.sub.gen = n + 1
    BY ONLY <1>2 DEF FedSet
  <2>2. tree.sub.gen = Done \/ ~ (tree.sub.gen <= N)
    BY ONLY <1>1 DEF HasItem
  <2> HIDE DEF n, N
  <2> QED
    BY ONLY <1>3, <2>1, <2>2 DEF Done
<1>5. Stops(script.sub, n, c, left) /\ Stops(script.sub, n, c, c)
  <2>1. ~ (N < N)
    <3> HIDE DEF N
    <3> QED
      BY ONLY <1>3
  <2> QED
    BY ONLY <1>4, <2>1 DEF Stops
<1>6. /\ Parsed(script.sub, tree.sub.fields, n, 0) /\ c = Sum(script.sub, n) /\ c <= left
      /\ tree.sub.size = Unknown
  BY ONLY <1>2 DEF FedSet
<1>7. ~Fails /\ Span = c
  <2> HIDE DEF c, n
  <2> QED
    BY ONLY <1>2, <1>3, <1>4, <1>5, <1>6, SpanOfFed
<1>8. OnStop("sub", tree)
  BY ONLY <1>4, GenEnds("sub") DEF GenEnds
<1> HIDE DEF c, n
<1>9. c = Span /\ n = tree.sub.gen - 1 /\ tree.sub.current = Span
      /\ Stops(script.sub, n, tree.sub.current, tree.sub.current)
  BY ONLY <1>5, <1>7 DEF c, n
<1> QED
  BY ONLY FieldSetInv, AddsAtEnd, RootSame, SubSame, ~piped, adding, <1>1, <1>3, <1>6, <1>7, <1>8, <1>9,
     FedStops

\* createFields() of the set raises an error.
LEMMA FedRaises ==
    ASSUME FieldSetInv, AddsAtEnd, RootSame, SubSame, ~piped, adding, GenStep("sub"), GenFails("sub")
    PROVE  FedFails
<1> DEFINE n == tree.sub.gen - 1
           left == Behind(SetAt)
           N == Len(script.sub)
           c == tree.sub.current
           m == N + 1
           t == [tree EXCEPT !["sub"].gen = m]
<1>1. /\ goal.sub # Idle /\ UNCHANGED inputs /\ HasItem("sub") /\ NextItem("sub").kind = "error"
      /\ OnError("sub", t)
  BY ONLY GenStep("sub"), GenFails("sub") DEF GenStep, Fed, GenFails
<1>2. given = Unknown /\ SetAt \in Nat /\ FedSet(n, left)
  BY ONLY FieldSetInv, AddsAtEnd, RootSame, SubSame, ~piped, adding, <1>1, FedSetIs
<1>3. /\ InputsOK /\ HistoryOK /\ TreeOK(tree, piped, edited) /\ N \in Nat /\ "sub" \in Sets
  BY ONLY FieldSetInv, InputFacts DEF FieldSetInv, Sets
<1>4. n # N /\ n + 1 = tree.sub.gen /\ tree.sub.gen # Done /\ n \in 0 .. N
      /\ m \in 0 .. (N + 1) /\ m # Done /\ tree.sub.gen <= m
  <2>1. n \in Nat /\ n <= N /\ tree.sub.gen = n + 1
    BY ONLY <1>2 DEF FedSet
  <2>2. tree.sub.gen # Done /\ tree.sub.gen <= N
    BY ONLY <1>1 DEF HasItem
  <2> HIDE DEF n, N
  <2> QED
    BY ONLY <1>3, <2>1, <2>2 DEF Done
<1>5. script.sub[n + 1].kind = "error"
  BY ONLY <1>1, <1>4 DEF NextItem
<1>6. Stops(script.sub, n, c, left)
  BY ONLY <1>5 DEF Stops
<1>7. /\ Parsed(script.sub, tree.sub.fields, n, 0) /\ c = Sum(script.sub, n) /\ c <= left
      /\ tree.sub.size = Unknown /\ Len(tree.sub.fields) = n
  BY ONLY <1>2 DEF FedSet
<1>8. Fails /\ Span = IF c = left THEN c ELSE 0
  <2> HIDE DEF c, n
  <2> QED
    BY ONLY <1>2, <1>3, <1>4, <1>5, <1>6, <1>7, SpanOfFed
<1>9. Advances("sub", t, m)
  <2> HIDE DEF m
  <2>1. m \in 0 .. (Len(script["sub"]) + 1) /\ m # Done /\ tree["sub"].gen <= m /\ tree["sub"].gen # Done
    BY ONLY <1>4
  <2> QED
    BY ONLY FieldSetInv, <1>3, <2>1, AdvancesTo
<1> HIDE DEF t
<1>10. /\ TreeOK(t, piped, edited) /\ t.sub.fields = tree.sub.fields /\ t.sub.size = Unknown
       /\ t.sub.current = c
  BY ONLY <1>7, <1>9 DEF Advances
<1>11. tree' = t /\ goal'.sub = Idle /\ answer' = "error"
  BY ONLY <1>1, <1>3, <1>10, StopSizes
<1>12. script' = script /\ Span' = Span /\ Fails' = Fails /\ SetAt' = SetAt
  BY ONLY <1>1, Stable
<1>13. FailsAt(script.sub, tree'.sub.fields, n)
  BY ONLY <1>5, <1>7, <1>10, <1>11 DEF FailsAt
<1>14. Behind(SetAt)' = left
  BY ONLY <1>12 DEF Behind
<1> HIDE DEF n, left, c
<1>15. SubFailed'
  BY ONLY <1>4, <1>8, <1>10, <1>11, <1>12, <1>13, <1>14 DEF SubFailed
<1> QED
  BY ONLY <1>11, <1>15 DEF FedFails

\* The next field of the set fits.
LEMMA FedGrows ==
    ASSUME FieldSetInv, UNCHANGED inputs, NEW n, NEW left, FedSet(n, left), SetOK(tree.sub, 0, piped, edited),
           HasItem("sub"), NextItem("sub").kind = "data", NextItem("sub").size \in Nat,
           Added("sub", NextItem("sub").size), goal.sub.want = "all", goal.sub # Idle
    PROVE  FedOn
<1> DEFINE u == tree.sub
           size == NextItem("sub").size
           f == Field(u.gen, "data", u.current, size)
           items == script.sub
           r == tree'.sub
<1>1. /\ InputsOK /\ GensOK /\ "sub" \in Sets
  BY ONLY FieldSetInv DEF FieldSetInv, Sets
<1>2. /\ r.fields = Append(u.fields, f) /\ r.gen = u.gen + 1 /\ goal'.sub = goal.sub
  BY ONLY Added("sub", size), goal.sub.want = "all" DEF Added
<1>3. /\ items \in Seq(Items) /\ Len(items) \in Nat /\ \A i \in 1 .. Len(items) : items[i].kind # "set"
      /\ u.gen # Done /\ u.gen \in 1 .. Len(items)
  BY ONLY <1>1, HasItem("sub"), InputFacts, ScriptFacts
<1>4. /\ n \in Nat /\ u.gen = n + 1 /\ Len(u.fields) = n /\ Parsed(items, u.fields, n, 0)
      /\ u.current \in Nat
  BY ONLY FedSet(n, left) DEF FedSet
<1>5. items[n + 1] = NextItem("sub") /\ n + 1 \in 1 .. Len(items)
  BY ONLY <1>3, <1>4 DEF NextItem
<1>6. u.gen \in Nat /\ r.gen = (n + 1) + 1 /\ r.gen - 1 = n + 1 /\ r.gen # Done
  BY ONLY <1>2, <1>4 DEF Done
<1>7. f \in Fields /\ f.name = n + 1 /\ f.kind = "data" /\ f.size = size
  BY ONLY <1>4, <1>6, size \in Nat DEF Field, Fields, Names
<1>8. u.fields \in Seq(Fields)
  BY ONLY SetOK(tree.sub, 0, piped, edited), SetFacts
<1>9. Parsed(items, Append(u.fields, f), n + 1, 0) /\ Len(Append(u.fields, f)) = n + 1
  <2>1. f.kind = items[n + 1].kind /\ f.kind # "set" /\ f.size = items[n + 1].size
        /\ items[n + 1].kind # "error"
    BY ONLY <1>5, <1>7, NextItem("sub").kind = "data"
  <2> HIDE DEF f, u, items
  <2> QED
    BY ONLY <1>3, <1>4, <1>5, <1>7, <1>8, <2>1, ParsedAppend
<1>10. OpenOK(items, r, 0)
  BY ONLY <1>2, <1>6, <1>9 DEF OpenOK
<1>11. script' = script
  BY ONLY UNCHANGED inputs, Stable
<1>12. SubFed'
  BY ONLY <1>6, <1>10, <1>11 DEF SubFed
<1> QED
  BY ONLY <1>2, <1>12, goal.sub # Idle DEF FedOn

\* The next field of the set does not fit: the set fills what is left, or
\* fails if that was its first.
LEMMA FedOverflows ==
    ASSUME FieldSetInv, AddsAtEnd, RootSame, SubSame, autofix, ~piped, adding, goal.sub # Idle,
           UNCHANGED inputs, HasItem("sub"), NextItem("sub").kind = "data", NextItem("sub").size \in Nat,
           NEW n, n = tree.sub.gen - 1, NEW t, NEW rest,
           LeftBehind("sub", NextItem("sub").size) < 0,
           rest = NextItem("sub").size + LeftBehind("sub", NextItem("sub").size),
           Advances("sub", t, tree.sub.gen + 1), TooLarge("sub", t, rest)
    PROVE  FedOut \/ FedFails
<1> DEFINE left == Behind(SetAt)
           items == script.sub
           N == Len(items)
           c == tree.sub.current
           size == NextItem("sub").size
           u == [t.sub EXCEPT !.size = left]
<1>1. /\ InputsOK /\ GensOK /\ HistoryOK /\ "sub" \in Sets /\ N \in Nat /\ address \in Nat
  BY ONLY FieldSetInv, InputFacts DEF FieldSetInv, Sets
<1>2. given = Unknown /\ SetAt \in Nat /\ address = SetAt /\ FedSet(n, left)
      /\ SetOK(tree.sub, 0, piped, edited)
  BY ONLY FieldSetInv, AddsAtEnd, RootSame, SubSame, ~piped, adding, goal.sub # Idle,
     n = tree.sub.gen - 1, FedSetIs
<1>3. /\ n \in Nat /\ tree.sub.gen = n + 1 /\ Len(tree.sub.fields) = n
      /\ Parsed(items, tree.sub.fields, n, 0) /\ c = Sum(items, n) /\ c \in Nat /\ c <= left
      /\ left \in Nat /\ tree.sub.size = Unknown /\ tree.root.size = address + left
      /\ EndAt(tree.sub.fields, n, 0) = c
  BY ONLY <1>2 DEF FedSet
<1>4. tree.sub.gen # Done /\ tree.sub.gen \in 1 .. N
  BY ONLY <1>1, HasItem("sub"), ScriptFacts
<1>5. n # N /\ n \in 0 .. N
  <2> HIDE DEF N
  <2> QED
    BY ONLY <1>1, <1>3, <1>4
<1>6. items[n + 1] = NextItem("sub") /\ items[n + 1].kind # "error" /\ items[n + 1].size = size
  BY ONLY <1>3, NextItem("sub").kind = "data" DEF NextItem
<1>7. rest = left - c /\ c + size > left /\ size \in Nat
  <2>1. LeftBehind("sub", size) = tree.root.size - (address + (c + size))
    BY ONLY <1>3 DEF LeftBehind
  <2> DEFINE lb == LeftBehind("sub", size)
  <2>2. lb < 0 /\ rest = size + lb /\ lb = (address + left) - (address + (c + size)) /\ size \in Nat
    BY ONLY <1>3, <2>1, LeftBehind("sub", NextItem("sub").size) < 0,
       rest = NextItem("sub").size + LeftBehind("sub", NextItem("sub").size),
       NextItem("sub").size \in Nat
  <2> HIDE DEF lb, size, left, c
  <2> QED
    BY ONLY <1>1, <1>3, <2>2
<1>8. Stops(items, n, c, left)
  BY ONLY <1>6, <1>7 DEF Stops
<1>9. ~Fails /\ Span = IF c > 0 THEN left ELSE 0
  <2> HIDE DEF c
  <2> QED
    BY ONLY <1>1, <1>2, <1>3, <1>5, <1>6, <1>8, SpanOfFed
<1>10. /\ TreeOK(t, piped, edited) /\ t.sub.fields = tree.sub.fields /\ t.sub.size = Unknown
       /\ t.sub.current = c /\ t.sub.gen = n + 2 /\ t.sub.gen # Done
  <2>1. t.sub.gen = (n + 1) + 1
    BY ONLY <1>3, Advances("sub", t, tree.sub.gen + 1) DEF Advances
  <2>2. t.sub.gen = n + 2 /\ t.sub.gen # Done
    BY ONLY <1>3, <2>1 DEF Done
  <2> QED
    BY ONLY <1>3, <2>2, Advances("sub", t, tree.sub.gen + 1) DEF Advances
<1>11. script' = script /\ Span' = Span /\ Fails' = Fails
  BY ONLY UNCHANGED inputs, Stable
<1>12. IF c > 0
       THEN OnStop("sub", IF rest > 0 THEN [t EXCEPT !["sub"].size = c + rest] ELSE t)
       ELSE OnError("sub", t)
  BY ONLY <1>10, autofix, TooLarge("sub", t, rest) DEF TooLarge
<1> HIDE DEF left, c
<1>13. CASE ~ (c > 0)
  <2>1. c = 0
    BY ONLY <1>3, <1>13
  <2>2. tree' = t /\ goal'.sub = Idle /\ answer' = "error"
    BY ONLY <1>1, <1>10, <1>12, <1>13, StopSizes
  <2>3. SubFailed'
    BY ONLY <1>9, <1>10, <1>11, <1>13, <2>1, <2>2 DEF SubFailed
  <2> QED
    BY ONLY <2>2, <2>3 DEF FedFails
<1>14. CASE c > 0 /\ ~ (rest > 0)
  <2>1. c = left
    BY ONLY <1>3, <1>7, <1>14
  <2>2. OnStop("sub", t)
    BY ONLY <1>12, <1>14
  <2>3. tree.sub.current = Span
    BY ONLY <1>9, <1>14, <2>1 DEF c
  <2>4. Stops(script.sub, n, tree.sub.current, tree.sub.current)
    BY ONLY <1>8, <2>1 DEF c
  <2>5. t.sub.current = tree.sub.current
    BY ONLY <1>10 DEF c
  <2> QED
    BY ONLY FieldSetInv, AddsAtEnd, RootSame, SubSame, ~piped, adding, goal.sub # Idle, UNCHANGED inputs,
       n = tree.sub.gen - 1, <1>9, <1>10, <2>2, <2>3, <2>4, <2>5, FedStops
<1>15. CASE c > 0 /\ rest > 0
  <2> DEFINE w == [t EXCEPT !["sub"].size = c + rest]
             r == tree'.sub
  <2>1. c + rest = left /\ c + rest \in Nat /\ c <= c + rest
    BY ONLY <1>3, <1>7, <1>15
  <2>2. /\ DOMAIN t = Sets /\ DOMAIN t.sub = {"fields", "size", "current", "gen"}
    BY ONLY <1>1, <1>10, TreeFacts
  <2>3. /\ w.sub.size = c + rest /\ w.sub.current = c
        /\ w.sub.fields = tree.sub.fields
    BY ONLY <1>1, <1>10, <2>2
  <2>4. TreeOK(w, piped, edited)
    <3> DEFINE m == c + rest
    <3>1. m \in Nat /\ t.sub.current <= m
      BY ONLY <1>10, <2>1
    <3> HIDE DEF m
    <3>2. TreeOK([t EXCEPT !["sub"].size = m], piped, edited)
      BY ONLY <1>10, <3>1, SizedOK
    <3> QED
      BY ONLY <3>2 DEF m
  <2>5. OnStop("sub", w)
    BY ONLY <1>12, <1>15
  <2> HIDE DEF w
  <2>6. w.sub.size # Unknown /\ w.sub.size = left
    BY ONLY <1>1, <2>1, <2>3, InputFacts
  <2>7. FilledUp(w.sub, r) /\ answer' = "ok" /\ goal'.sub = Idle
    <3>1. w["sub"].size # Unknown
      BY ONLY <2>6
    <3>2. Over("sub", w)
      BY ONLY autofix, <1>1, <2>4, <2>5, <3>1, StopFills
    <3> QED
      BY ONLY <1>1, <3>2 DEF Over, HistoryOK
  <2>8. SetOK(w.sub, 0, piped, edited)
    <3>1. SetOK(w.sub, w.sub.size, piped, edited) /\ ~HasSet(w.sub.fields)
      BY ONLY <1>1, <2>4 DEF TreeOK
    <3> QED
      BY ONLY <3>1, SetOfData
  <2>9. Complete(items, r, 0)
    <3> DEFINE x == w.sub
    <3>1. /\ SetOK(x, 0, piped, edited) /\ x.size # Unknown /\ Parsed(items, x.fields, n, 0)
          /\ Len(x.fields) = n /\ Stops(items, n, x.current, x.size) /\ FilledUp(x, r)
          /\ items \in Seq(Items)
      BY ONLY <1>1, <1>3, <1>8, <2>3, <2>6, <2>7, <2>8, InputFacts
    <3> HIDE DEF x, items, r
    <3> QED
      BY ONLY <3>1, FillCompletes
  <2>10. r.size = left /\ r.gen = Done
    BY ONLY <2>6, <2>7 DEF FilledUp
  <2>11. SubSized'
    BY ONLY <1>9, <1>11, <1>15, <2>9, <2>10 DEF SubSized, ParsedSoFar
  <2> QED
    BY ONLY <2>7, <2>11 DEF FedOut
<1> QED
  BY ONLY <1>13, <1>14, <1>15

\* A step of feeding the set while it is added.
LEMMA AddingKeepsSame ==
    ASSUME FieldSetInv, AddsAtEnd, RootSame, SubSame, autofix, ~piped, adding, GenStep("sub")
    PROVE  RootSame' /\ SubSame'
<1> DEFINE n == tree.sub.gen - 1
           left == Behind(SetAt)
           size == NextItem("sub").size
<1>1. /\ "sub" \in Sets /\ "root" \in Sets \ {"sub"}
  BY DEF Sets
<1>2. /\ adding' = adding /\ address' = address /\ UNCHANGED inputs /\ goal.sub # Idle
      /\ GenEnds("sub") \/ GenFails("sub") \/ AddData("sub")
  BY ONLY GenStep("sub") DEF GenStep, Fed
<1>3. given = Unknown /\ goal.sub.want = "all" /\ FedSet(n, left) /\ SetOK(tree.sub, 0, piped, edited)
      /\ ~HasSet(tree.root.fields)
  BY ONLY FieldSetInv, AddsAtEnd, RootSame, SubSame, ~piped, adding, <1>2, FedSetIs
<1>4. FedOn \/ FedOut \/ FedFails
  <2>1. CASE GenEnds("sub")
    BY ONLY FieldSetInv, AddsAtEnd, RootSame, SubSame, ~piped, adding, GenStep("sub"), <2>1, FedEnds
  <2>2. CASE GenFails("sub")
    BY ONLY FieldSetInv, AddsAtEnd, RootSame, SubSame, ~piped, adding, GenStep("sub"), <2>2, FedRaises
  <2>3. CASE AddData("sub")
    <3>1. HasItem("sub") /\ NextItem("sub").kind = "data" /\ size \in Nat
      BY ONLY FieldSetInv, ~piped, <1>1, <2>3, AddDataIs
    <3>2. \/ Added("sub", size)
          \/ \E t, rest :
               /\ LeftBehind("sub", size) < 0
               /\ rest = size + LeftBehind("sub", size)
               /\ Advances("sub", t, tree["sub"].gen + 1) /\ TooLarge("sub", t, rest)
      BY ONLY FieldSetInv, ~piped, <1>1, <2>3, AddDataIs
    <3>3. CASE Added("sub", size)
      <4> HIDE DEF n, left
      <4> QED
        BY ONLY FieldSetInv, <1>2, <1>3, <3>1, <3>3, FedGrows
    <3>4. CASE ~Added("sub", size)
      <4>1. PICK t, rest :
               /\ LeftBehind("sub", size) < 0
               /\ rest = size + LeftBehind("sub", size)
               /\ Advances("sub", t, tree["sub"].gen + 1) /\ TooLarge("sub", t, rest)
        BY ONLY <3>2, <3>4
      <4>2. Advances("sub", t, tree.sub.gen + 1) /\ n = tree.sub.gen - 1
        BY ONLY <4>1
      <4> HIDE DEF n
      <4> QED
        BY ONLY FieldSetInv, AddsAtEnd, RootSame, SubSame, autofix, ~piped, adding, <1>2, <3>1, <4>1, <4>2,
           FedOverflows
    <3> QED
      BY ONLY <3>3, <3>4
  <2> QED
    BY ONLY <1>2, <2>1, <2>2, <2>3
<1>5. /\ SetName' = SetName /\ SetAt' = SetAt /\ Span' = Span /\ Fails' = Fails
      /\ ParserItems' = ParserItems /\ script' = script /\ given' = given
  BY ONLY <1>2, Stable
<1>6. tree'.root = tree.root
  BY ONLY FieldSetInv, <1>1, GenStep("sub"), GenStepIs
<1>7. SubSame'
  BY ONLY <1>3, <1>4, <1>5 DEF SubSame, FedOn, FedOut, FedFails
<1>8. /\ tree.root.gen # Done /\ SetName = tree.root.gen - 1 /\ address = SetAt
      /\ Len(tree.root.fields) = SetName - 1
      /\ Parsed(ParserItems, tree.root.fields, SetName - 1, 0)
  BY ONLY RootSame, adding DEF RootSame
<1>9. RootSame'
  BY ONLY <1>2, <1>3, <1>5, <1>6, <1>8, adding DEF RootSame
<1> QED
  BY ONLY <1>7, <1>9

\* A set that was not fed yet.
LEMMA EmptyParsed ==
    ASSUME NEW items, Len(items) \in Nat, NEW size
    PROVE  ParsedSoFar(items, Empty(size), 0) /\ OpenOK(items, Empty(size), 0)
           /\ Empty(size).gen # Done
<1> DEFINE u == Empty(size)
           N == Len(items)
<1>1. u.gen = 1 /\ u.fields = <<>> /\ 1 # Done /\ Len(<<>>) = 0 /\ u.gen - 1 = 0
  BY DEF Empty, Done
<1>2. 0 \in 0 .. N /\ 1 .. 0 = {} /\ 0 <= 0
  <2>1. N \in Nat
    OBVIOUS
  <2> HIDE DEF N
  <2> QED
    BY ONLY <2>1
<1>3. Parsed(items, <<>>, 0, 0)
  BY ONLY <1>1, <1>2 DEF Parsed
<1> QED
  BY ONLY <1>1, <1>3 DEF OpenOK, ParsedSoFar

\* The set is opened where the parser ends.
LEMMA OpenKeepsSame ==
    ASSUME FieldSetInv, RootSame, OpenSet
    PROVE  RootSame' /\ SubSame'
<1> DEFINE u == tree.root
           g == u.gen
           n == g - 1
           items == script.root
           N == Len(items)
           fs == u.fields
           z == tree.sub.size
           want == [want |-> "all", n |-> 0]
<1>1. /\ InputsOK /\ GensOK /\ HistoryOK /\ TreeOK(tree, piped, edited)
      /\ "root" \in Sets /\ "sub" \in Sets
  BY ONLY FieldSetInv DEF FieldSetInv, Sets
<1>2. /\ ~adding /\ HasItem("root") /\ NextItem("root").kind = "set"
      /\ tree' = [Advanced("root") EXCEPT !.sub = Empty(given)]
      /\ address' = u.current /\ adding' = TRUE
      /\ goal' = [goal EXCEPT !.sub = IF given = Unknown THEN want ELSE Idle]
      /\ answer' = "ok" /\ UNCHANGED inputs
  BY ONLY OpenSet DEF OpenSet, Fed
<1>3. /\ SetName = g /\ items[g].kind = "set" /\ ~HasSet(fs)
  BY ONLY FieldSetInv, <1>2, TheSet
<1>4. DOMAIN tree = Sets /\ DOMAIN u = {"fields", "size", "current", "gen"}
      /\ fs \in Seq(Fields) /\ SetOK(u, z, piped, edited)
  BY ONLY <1>1, TreeFacts
<1>5. /\ tree'.root.fields = fs /\ tree'.root.gen = g + 1 /\ tree'.sub = Empty(given)
  BY ONLY <1>1, <1>2, <1>4 DEF Advanced, Sets
<1>6. items \in Seq(Items) /\ N \in Nat /\ g # Done /\ g \in 1 .. N
  BY ONLY <1>1, <1>2, InputFacts, ScriptFacts
<1>7. /\ n \in 0 .. N /\ n \in Nat /\ (g + 1) - 1 = g /\ g + 1 # Done
      /\ \A i \in 1 .. n : i \in 1 .. N /\ i < g
  <2> HIDE DEF N, g
  <2> QED
    BY ONLY <1>6 DEF Done
<1>8. Len(fs) = n /\ Parsed(ParserItems, fs, n, z)
  <2>1. ParsedSoFar(ParserItems, u, z)
    BY ONLY <1>2, RootSame DEF RootSame
  <2> QED
    BY ONLY <1>6, <2>1 DEF ParsedSoFar, OpenOK
<1> HIDE DEF z, n, fs
<1>9. Parsed(ParserItems, fs, n, 0)
  BY ONLY <1>3, <1>4, <1>8, ParsedOfData
<1>10. \A i \in 1 .. n : items[i] = ParserItems[i]
  BY ONLY <1>1, <1>3, <1>6, <1>7, ItemsAre
<1>11. Parsed(items, fs, n, 0)
  <2> HIDE DEF items
  <2> QED
    BY ONLY <1>7, <1>9, <1>10, ParsedOther DEF N
<1>12. Chain(fs, 0, 0, u.current)
  <2>1. Chain(fs, z, 0, u.current)
    BY ONLY <1>4 DEF SetOK, fs
  <2> QED
    BY ONLY <1>3, <2>1, ChainOfData
<1>13. u.current = SetAt
  <2>1. u.current = Sum(items, n)
    <3> DEFINE b == u.current
    <3>1. Chain(fs, 0, 0, b)
      BY ONLY <1>12
    <3> HIDE DEF b, items
    <3>2. b = Sum(items, n)
      BY ONLY <1>6, <1>8, <1>11, <3>1, ParsedSums
    <3> QED
      BY ONLY <3>2 DEF b
  <2> QED
    BY ONLY <1>3, <2>1 DEF SetAt, n
<1>14. /\ SetName' = SetName /\ SetAt' = SetAt
       /\ ParserItems' = ParserItems /\ script' = script /\ given' = given
  BY ONLY <1>2, Stable
<1>15. RootSame'
  <2>1. ~HasSet(tree'.root.fields)
    BY ONLY <1>3, <1>5
  <2>2. /\ tree'.root.gen # Done /\ SetName' = tree'.root.gen - 1 /\ address' = SetAt'
        /\ Len(tree'.root.fields) = SetName' - 1
        /\ Parsed(ParserItems', tree'.root.fields, SetName' - 1, 0)
    BY ONLY <1>2, <1>3, <1>5, <1>7, <1>8, <1>9, <1>13, <1>14 DEF n
  <2> QED
    BY ONLY <1>2, <2>1, <2>2 DEF RootSame
<1>16. SubSame'
  <2>1. goal'.sub = IF given = Unknown THEN want ELSE Idle
    BY ONLY <1>1, <1>2 DEF HistoryOK
  <2>2. want # Idle
    BY DEF Idle
  <2>3. Len(script.sub) \in Nat
    BY ONLY <1>1, InputFacts
  <2>4. OpenOK(script.sub, Empty(given), 0) /\ Empty(given).gen # Done
    BY ONLY <2>3, EmptyParsed
  <2>5. SubFed'
    BY ONLY <1>5, <1>14, <2>4 DEF SubFed
  <2>6. answer' # "error"
    BY ONLY <1>2
  <2> HIDE DEF want
  <2> QED
    BY ONLY <1>5, <1>14, <2>1, <2>2, <2>5, <2>6 DEF SubSame
<1> QED
  BY ONLY <1>15, <1>16

\* What is known of the parser at the end of _addField with a set.
AtSet(q) ==
    /\ q = SetName /\ q \in 1 .. Len(script.root) /\ script.root[q].kind = "set"
    /\ tree.root.gen = q + 1 /\ Len(tree.root.fields) = q - 1 /\ ~HasSet(tree.root.fields)
    /\ Parsed(ParserItems, tree.root.fields, q - 1, 0)
    /\ address = SetAt /\ address = tree.root.current /\ SetAt \in Nat
    /\ tree.root.size = StreamSize /\ tree.root.size # Unknown /\ SetAt <= StreamSize
    /\ Behind(SetAt) = StreamSize - SetAt

\* The parser waits where the set begins, within the stream.
LEMMA AtSetIs ==
    ASSUME FieldSetInv, AddsAtEnd, RootSame, ~piped, adding
    PROVE  AtSet(SetName)
<1> DEFINE q == SetName
           N == Len(script.root)
           c == tree.root.current
<1>1. /\ InputsOK /\ GensOK /\ TreeOK(tree, piped, edited) /\ Waiting /\ address \in Nat /\ "root" \in Sets
  BY ONLY FieldSetInv, adding DEF FieldSetInv, AddingOK, Sets
<1>2. /\ tree.root.gen # Done /\ q = tree.root.gen - 1 /\ address = SetAt
      /\ Len(tree.root.fields) = q - 1
      /\ Parsed(ParserItems, tree.root.fields, q - 1, 0)
  BY ONLY RootSame, adding DEF RootSame
<1>3. ~HasSet(tree.root.fields) /\ q \in DOMAIN script.root /\ script.root[q].kind = "set"
  BY ONLY <1>1 DEF Waiting
<1>4. q \in 1 .. N
  BY ONLY <1>1, <1>3, InputFacts
<1>5. tree.root.gen \in Nat
  BY ONLY <1>1, ScriptFacts
<1>6. tree.root.gen = q + 1
  BY ONLY <1>2, <1>5
<1>7. address = c
  BY ONLY AddsAtEnd, adding DEF AddsAtEnd
<1>8. tree.root.size = StreamSize /\ StreamSize \in Nat /\ Unknown \notin Int
  BY ONLY <1>1, ~piped, InputFacts DEF TreeOK
<1>9. tree.root.size # Unknown
  BY ONLY <1>8
<1>10. SetAt \in Nat /\ SetAt <= StreamSize
  BY ONLY <1>1, <1>2, <1>7, <1>8, <1>9, TreeFacts
<1>11. Behind(SetAt) = StreamSize - SetAt
  BY ONLY <1>8, <1>10 DEF Behind
<1> QED
  BY ONLY <1>2, <1>3, <1>4, <1>6, <1>7, <1>8, <1>9, <1>10, <1>11 DEF AtSet

\* The set is dropped: the parser is filled behind what it had.
LEMMA DropKeepsSame ==
    ASSUME FieldSetInv, RootSame, autofix, AtSet(SetName), UNCHANGED inputs, ~adding', Span = 0,
           NEW t, TreeOK(t, piped, edited), t.root = tree.root, OnError("root", t) \/ OnStop("root", t)
    PROVE  RootSame' /\ SubSame'
<1> DEFINE q == SetName
           n == q - 1
           u == tree.root
           r == tree'.root
<1>1. /\ InputsOK /\ HistoryOK /\ TreeOK(tree, piped, edited) /\ "root" \in Sets
  BY ONLY FieldSetInv DEF FieldSetInv, Sets
<1>2. /\ q \in 1 .. Len(script.root) /\ script.root[q].kind = "set"
      /\ Len(u.fields) = n /\ ~HasSet(u.fields) /\ Parsed(ParserItems, u.fields, n, 0)
      /\ u.size # Unknown /\ n + 1 = q
  <2>1. n + 1 = q
    <3> DEFINE N == Len(script.root)
    <3>1. q \in 1 .. N
      BY ONLY AtSet(SetName) DEF AtSet
    <3> HIDE DEF N, q
    <3>2. N \in Nat
      BY ONLY <1>1, InputFacts DEF N
    <3> QED
      BY ONLY <3>1, <3>2
  <2> QED
    BY ONLY <2>1, AtSet(SetName) DEF AtSet
<1>3. FilledUp(u, r)
  <2>1. t["root"].size # Unknown
    BY ONLY <1>2, t.root = tree.root
  <2>2. Over("root", t)
    BY ONLY autofix, <1>1, TreeOK(t, piped, edited), <2>1, OnError("root", t) \/ OnStop("root", t), StopFills
  <2> QED
    BY ONLY <2>2, t.root = tree.root DEF Over
<1>4. TreeOK(tree', piped, edited) /\ ~HasSet(r.fields)
  <2>1. Left("root", t)
    BY ONLY <1>1, TreeOK(t, piped, edited), OnError("root", t) \/ OnStop("root", t), OnErrorIs, OnStopIs
  <2>2. TreeOK(tree', piped, edited) /\ (HasSet(r.fields) <=> HasSet(t.root.fields))
    BY ONLY <2>1 DEF Left, FeedStep
  <2> QED
    BY ONLY <1>2, <2>2, t.root = tree.root
<1>5. SetOK(u, 0, piped, edited)
  <2>1. SetOK(u, tree.sub.size, piped, edited)
    BY ONLY <1>1, TreeFacts
  <2> HIDE DEF u
  <2> QED
    BY ONLY <1>2, <2>1, SetOfData
<1>6. ParserItems \in Seq(Items) /\ ParserItems[q].kind = "error"
  BY ONLY <1>1, <1>2, Span = 0, ItemsAre DEF Span
<1>7. Stops(ParserItems, n, u.current, u.size)
  BY ONLY <1>2, <1>6 DEF Stops
<1>8. Complete(ParserItems, r, 0)
  <2> HIDE DEF u, n, r
  <2> QED
    BY ONLY <1>2, <1>3, <1>5, <1>6, <1>7, FillCompletes
<1>9. ParsedSoFar(ParserItems, r, 0)
  BY ONLY <1>3, <1>8 DEF ParsedSoFar, FilledUp
<1>10. ParsedSoFar(ParserItems, r, tree'.sub.size)
  <2>1. r.fields \in Seq(Fields)
    BY ONLY <1>1, <1>4, TreeFacts
  <2> HIDE DEF r
  <2> QED
    BY ONLY <1>4, <1>9, <2>1, SoFarOfData
<1>11. ParserItems' = ParserItems
  BY ONLY UNCHANGED inputs, Stable
<1>12. RootSame'
  BY ONLY <1>4, <1>10, <1>11, ~adding' DEF RootSame
<1> QED
  BY ONLY <1>12, ~adding' DEF SubSame

\* A set of the size that it gets is inserted: it is the next of the items
\* of the parser, and the last one that counts if its generator failed.
LEMMA InsertKeepsSame ==
    ASSUME FieldSetInv, autofix, AtSet(SetName), UNCHANGED <<inputs, address>>, ~adding',
           NEW t, Ready(t), t.root = tree.root, t.sub.size = Span, Span # 0,
           ParsedSoFar(script.sub, t.sub, 0),
           NEW raised, raised <=> Fails, InsertSet(t, raised)
    PROVE  RootSame' /\ SubSame'
<1> DEFINE q == SetName
           n == q - 1
           N == Len(ParserItems)
           u == tree.root
           r == tree'.root
           y == Inserted(t)
           f == SetField
<1>1. /\ InputsOK /\ HistoryOK /\ TreeOK(tree, piped, edited) /\ "root" \in Sets /\ "sub" \in Sets
      /\ address \in Nat
  BY ONLY FieldSetInv DEF FieldSetInv, Sets
<1>2. /\ q \in 1 .. Len(script.root) /\ script.root[q].kind = "set" /\ address = SetAt
      /\ Len(u.fields) = n /\ Parsed(ParserItems, u.fields, n, 0) /\ ~HasSet(u.fields)
      /\ u.gen = q + 1 /\ SetAt \in Nat /\ u.size = StreamSize /\ SetAt <= StreamSize
      /\ Behind(SetAt) = StreamSize - SetAt
  BY ONLY AtSet(SetName) DEF AtSet
<1>3. /\ ParserItems \in Seq(Items) /\ N = Len(script.root)
      /\ ParserItems[q] = [kind |-> "set", size |-> Span]
      /\ \A i \in 1 .. Len(script.root) : i > q /\ Fails => ParserItems[i].kind = "error"
  BY ONLY <1>1, <1>2, Span # 0, ItemsAre DEF Span, Fails
<1>4. /\ N \in Nat /\ q \in 1 .. N /\ n + 1 = q /\ n + 1 \in 1 .. N /\ (q + 1) - 1 = q /\ q + 1 # Done
      /\ q \in 0 .. N
  <2>1. N \in Nat
    BY ONLY <1>1, <1>3, InputFacts
  <2>2. q \in 1 .. N
    BY ONLY <1>2, <1>3
  <2> HIDE DEF q, N
  <2> QED
    BY ONLY <2>1, <2>2 DEF Done
<1>5. Span \in Nat /\ Span > 0 /\ SetAt + Span <= StreamSize
  <2>1. Span \in Nat /\ Span <= Behind(SetAt) /\ StreamSize \in Nat
    BY ONLY <1>1, <1>2, SpanIs, InputFacts DEF Span
  <2> QED
    BY ONLY <1>2, <2>1, Span # 0
<1>6. /\ TreeOK(y, piped, edited) /\ y.sub = t.sub
      /\ y.root.gen = u.gen /\ y.root.size = u.size
      /\ y.root.fields = Append(u.fields, f) /\ f \in Fields
  <2>1. t.sub.size > 0 /\ (t.root.size # Unknown => address + t.sub.size <= t.root.size)
    BY ONLY <1>2, <1>5, t.sub.size = Span, t.root = tree.root
  <2> QED
    BY ONLY Ready(t), <1>1, <2>1, t.root = tree.root, InsertTreeOK DEF SetField
<1>7. IF raised THEN OnStop("root", y) ELSE OnAdded("root", y, SetName)
  BY ONLY InsertSet(t, raised) DEF InsertSet, Inserted
<1>8. Parsed(ParserItems, Append(u.fields, f), q, Span) /\ Len(Append(u.fields, f)) = q
  <2> DEFINE fs == u.fields
             items == ParserItems
             z == Span
  <2>1. fs \in Seq(Fields)
    BY ONLY <1>1, TreeFacts
  <2>2. Parsed(items, fs, n, 0) /\ ~HasSet(fs) /\ Len(fs) = n
    BY ONLY <1>2
  <2>3. f.name = n + 1 /\ f.kind = "set" /\ f.size = 0
    BY ONLY <1>4 DEF SetField, Field
  <2>4. items[n + 1].kind = "set" /\ items[n + 1].size = z
    BY ONLY <1>3, <1>4
  <2>5. Len(items) \in Nat /\ n + 1 \in 1 .. Len(items) /\ f \in Fields
    BY ONLY <1>4, <1>6
  <2> HIDE DEF fs, items, z, n, f
  <2>6. Parsed(items, fs, n, z)
    BY ONLY <2>1, <2>2, ParsedOfData
  <2>7. Parsed(items, Append(fs, f), n + 1, z) /\ Len(Append(fs, f)) = n + 1
    <3>1. f.kind = items[n + 1].kind /\ items[n + 1].kind # "error"
          /\ (f.kind = "set" => f.size = 0 /\ z = items[n + 1].size)
          /\ (f.kind # "set" => f.size = items[n + 1].size)
      BY ONLY <2>3, <2>4
    <3> QED
      BY ONLY <2>1, <2>2, <2>3, <2>5, <2>6, <3>1, ParsedAppend
  <2> QED
    BY ONLY <1>4, <2>7 DEF fs, items, z
<1>9. /\ SetAt' = SetAt /\ Span' = Span /\ Fails' = Fails
      /\ ParserItems' = ParserItems /\ script' = script /\ address' = address
  BY ONLY UNCHANGED <<inputs, address>>, Stable
<1>10. ASSUME tree'.sub = t.sub, ParsedSoFar(ParserItems, r, Span), r.gen # Done => ~Fails
       PROVE  RootSame' /\ SubSame'
  <2>1. RootSame'
    BY ONLY <1>2, <1>9, <1>10, ~adding', t.sub.size = Span, ParsedSoFar(script.sub, t.sub, 0) DEF RootSame
  <2> QED
    BY ONLY <2>1, ~adding' DEF SubSame
<1>11. CASE ~raised
  <2>1. tree' = y
    BY ONLY <1>7, <1>11 DEF OnAdded
  <2>2. r.gen = q + 1 /\ r.fields = Append(u.fields, f) /\ tree'.sub = t.sub
    BY ONLY <1>2, <1>6, <2>1
  <2>3. ParsedSoFar(ParserItems, r, Span)
    BY ONLY <1>4, <1>8, <2>2 DEF ParsedSoFar, OpenOK
  <2> QED
    BY ONLY <1>10, <1>11, <2>2, <2>3, raised <=> Fails
<1>12. CASE raised
  <2>1. y["root"].size # Unknown
    BY ONLY <1>6, AtSet(SetName) DEF AtSet
  <2>2. OnStop("root", y)
    BY ONLY <1>7, <1>12
  <2> DEFINE w == y.root
  <2>3. Over("root", y)
    <3> HIDE DEF y
    <3> QED
      BY ONLY autofix, <1>1, <1>6, <2>1, <2>2, StopFills
  <2>4. FilledUp(w, r) /\ tree'.sub = y.sub /\ w.size # Unknown
    BY ONLY <2>1, <2>3 DEF Over, Sets
  <2>5. SetOK(w, Span, piped, edited)
    BY ONLY <1>1, <1>6, t.sub.size = Span, TreeFacts
  <2>6. Parsed(ParserItems, w.fields, q, Span) /\ Len(w.fields) = q
    BY ONLY <1>6, <1>8
  <2>7. Stops(ParserItems, q, w.current, w.size)
    <3>1. q < N => q + 1 \in 1 .. N /\ q + 1 > q
      <4> HIDE DEF q, N
      <4> QED
        BY ONLY <1>4
    <3> QED
      BY ONLY <1>3, <1>12, <3>1, raised <=> Fails DEF Stops
  <2> HIDE DEF w, r, y, q
  <2>8. Complete(ParserItems, r, Span)
    <3> DEFINE items == ParserItems
               z == Span
    <3>1. items \in Seq(Items) /\ SetOK(w, z, piped, edited) /\ Parsed(items, w.fields, q, z)
          /\ Stops(items, q, w.current, w.size)
      BY ONLY <1>3, <2>5, <2>6, <2>7
    <3>2. Len(w.fields) = q
      BY ONLY <2>6
    <3> HIDE DEF items, z
    <3>3. Complete(items, r, z)
      BY ONLY <2>4, <3>1, <3>2, FillCompletes
    <3> QED
      BY ONLY <3>3 DEF items, z
  <2>9. r.gen = Done
    BY ONLY <2>4 DEF FilledUp
  <2>10. ParsedSoFar(ParserItems, r, Span)
    BY ONLY <2>8, <2>9 DEF ParsedSoFar
  <2>11. tree'.sub = t.sub
    BY ONLY <1>6, <2>4
  <2> QED
    BY ONLY <1>10, <2>9, <2>10, <2>11
<1> QED
  BY ONLY <1>11, <1>12

\* A set of the size that it gets is fitted: it fits, or it is empty.
LEMMA FitKeepsSame ==
    ASSUME FieldSetInv, RootSame, autofix, AtSet(SetName), UNCHANGED <<inputs, address>>, ~adding',
           NEW t, Ready(t), t.root = tree.root, t.sub.size = Span,
           Span # 0 => ParsedSoFar(script.sub, t.sub, 0),
           NEW raised, Span # 0 => (raised <=> Fails), FitSet(t, raised)
    PROVE  RootSame' /\ SubSame'
<1> DEFINE size == t.sub.size
           room == Room(t, "root", 0, address + size)
           tight == room # Unknown /\ room < 0
           m == size + room
<1>1. InputsOK /\ TreeOK(t, piped, edited) /\ address \in Nat /\ "root" \in Sets
  BY ONLY FieldSetInv, Ready(t) DEF FieldSetInv, Ready, Sets
<1>2. /\ address = SetAt /\ SetAt \in Nat /\ SetAt <= StreamSize /\ Behind(SetAt) = StreamSize - SetAt
      /\ t.root.size = StreamSize /\ t.root.size # Unknown
  BY ONLY AtSet(SetName), t.root = tree.root DEF AtSet
<1>3. Span \in Nat /\ Span <= Behind(SetAt) /\ StreamSize \in Nat
  BY ONLY <1>1, <1>2, SpanIs, InputFacts DEF Span
<1>4. room = StreamSize - (address + size)
  BY ONLY <1>2 DEF Room
<1>5. ~tight
  BY ONLY <1>2, <1>3, <1>4, t.sub.size = Span
<1>6. IF ~tight /\ size > 0 THEN InsertSet(t, raised) /\ kept' = raised
         ELSE IF ~autofix \/ t.root.current = 0 \/ room = Unknown
              THEN OnError("root", t) /\ UNCHANGED kept
         ELSE IF size > 0 /\ m > 0
              THEN InsertSet(TruncateOne(t, "sub", m), raised) /\ kept' = raised
         ELSE OnStop("root", t) /\ UNCHANGED kept
  BY ONLY FitSet(t, raised) DEF FitSet
<1> HIDE DEF tight, room, m
<1>7. CASE Span # 0
  <2>1. size > 0
    BY ONLY <1>3, <1>7, t.sub.size = Span
  <2>2. InsertSet(t, raised)
    BY ONLY <1>5, <1>6, <2>1
  <2>3. ParsedSoFar(script.sub, t.sub, 0) /\ (raised <=> Fails)
    BY ONLY <1>7, Span # 0 => ParsedSoFar(script.sub, t.sub, 0), Span # 0 => (raised <=> Fails)
  <2> QED
    BY ONLY FieldSetInv, autofix, AtSet(SetName), UNCHANGED <<inputs, address>>, ~adding',
       Ready(t), t.root = tree.root, t.sub.size = Span, <1>7, <2>2, <2>3, InsertKeepsSame
<1>8. CASE Span = 0
  <2>1. ~(size > 0)
    BY ONLY <1>8, t.sub.size = Span
  <2>2. OnError("root", t) \/ OnStop("root", t)
    BY ONLY <1>6, <2>1
  <2> QED
    BY ONLY FieldSetInv, RootSame, autofix, AtSet(SetName), UNCHANGED <<inputs, address>>, ~adding',
       <1>1, <1>8, <2>2, t.root = tree.root, DropKeepsSame
<1> QED
  BY ONLY <1>7, <1>8

\* The set of a known size can be added as it is.
LEMMA ReadyAsItIs ==
    ASSUME FieldSetInv, adding, tree.sub.size # Unknown
    PROVE  Ready(tree)
<1>1. TreeOK(tree, piped, edited) /\ Waiting
  BY ONLY FieldSetInv, adding DEF FieldSetInv, AddingOK
<1>2. /\ ~HasSet(tree.root.fields) /\ ~Has(tree, "root", SetName)
      /\ \/ address = tree.root.current
         \/ /\ tree.root.size # Unknown /\ tree.root.current = tree.root.size
            /\ tree.root.size <= address
  BY ONLY <1>1 DEF Waiting
<1> QED
  BY ONLY FieldSetInv, adding, <1>1, <1>2, tree.sub.size # Unknown, ReadyWhen

\* A set that was not fed and is truncated to n.
LEMMA TrimEmpty ==
    ASSUME NEW t, TreeOK(t, piped, edited), NEW size, t.sub = Empty(size), NEW n \in Nat, n > 0
    PROVE  TruncateOne(t, "sub", n).sub = Empty(n)
<1> DEFINE cut == [t EXCEPT !["sub"].size = n]
<1>1. DOMAIN t = Sets /\ "sub" \in Sets
  BY ONLY TreeOK(t, piped, edited) DEF TreeOK, Sets
<1>2. t.sub = [fields |-> <<>>, size |-> size, current |-> 0, gen |-> 1]
  BY ONLY t.sub = Empty(size) DEF Empty
<1>3. ~(n < t["sub"].current)
  BY ONLY <1>2, n > 0, n \in Nat
<1>4. TruncateOne(t, "sub", n) =
        [cut EXCEPT !["sub"].gen = IF cut["sub"].size = cut["sub"].current THEN Done ELSE @]
  BY ONLY <1>3 DEF TruncateOne
<1>5. /\ cut.sub = [fields |-> <<>>, size |-> n, current |-> 0, gen |-> 1]
      /\ DOMAIN cut = Sets
  BY ONLY <1>1, <1>2
<1>6. n # 0
  BY ONLY n > 0, n \in Nat
<1> HIDE DEF cut
<1>7. TruncateOne(t, "sub", n).sub = [fields |-> <<>>, size |-> n, current |-> 0, gen |-> 1]
  BY ONLY <1>1, <1>4, <1>5, <1>6
<1> QED
  BY ONLY <1>7 DEF Empty

\* The end of _addField with a set whose size was given.
LEMMA FinishGiven ==
    ASSUME FieldSetInv, RootSame, autofix, AtSet(SetName), UNCHANGED <<inputs, address>>, ~adding', adding,
           given # Unknown, tree.sub = Empty(given), FitSet(tree, FALSE)
    PROVE  RootSame' /\ SubSame'
<1> DEFINE left == Behind(SetAt)
           size == given
           room == Room(tree, "root", 0, address + size)
           tight == room # Unknown /\ room < 0
           m == size + room
<1>1. InputsOK /\ TreeOK(tree, piped, edited) /\ address \in Nat
  BY ONLY FieldSetInv DEF FieldSetInv
<1>2. /\ address = SetAt /\ SetAt \in Nat /\ SetAt <= StreamSize /\ left = StreamSize - SetAt
      /\ tree.root.size = StreamSize /\ tree.root.size # Unknown /\ tree.root.current = SetAt
  BY ONLY AtSet(SetName) DEF AtSet
<1>3. /\ given \in Nat /\ given # 0 /\ StreamSize \in Nat /\ Unknown \notin Int
      /\ script.sub \in Seq(Items) /\ Len(script.sub) \in Nat
  BY ONLY <1>1, given # Unknown, InputFacts
<1>4. /\ ~Fails
      /\ Span = IF given <= left THEN given ELSE IF SetAt > 0 THEN left ELSE 0
  BY ONLY given # Unknown DEF Fails, Span, SetFails, SetSpan
<1>5. tree.sub.size = given /\ Ready(tree)
  <2>1. tree.sub.size = given
    BY ONLY tree.sub = Empty(given) DEF Empty
  <2> QED
    BY ONLY <2>1, FieldSetInv, adding, given # Unknown, ReadyAsItIs
<1>6. \A n : ParsedSoFar(script.sub, Empty(n), 0)
  <2> SUFFICES ASSUME NEW n PROVE ParsedSoFar(script.sub, Empty(n), 0)
    OBVIOUS
  <2> DEFINE items == script.sub
  <2>1. Len(items) \in Nat
    BY ONLY <1>3
  <2> HIDE DEF items
  <2>2. ParsedSoFar(items, Empty(n), 0)
    BY ONLY <2>1, EmptyParsed
  <2> QED
    BY ONLY <2>2 DEF items
<1>7. CASE given <= left
  <2>1. tree.sub.size = Span /\ ParsedSoFar(script.sub, tree.sub, 0)
    BY ONLY <1>4, <1>5, <1>6, <1>7, tree.sub = Empty(given)
  <2>2. FALSE <=> Fails
    BY ONLY <1>4
  <2>3. tree.root = tree.root
    OBVIOUS
  <2> QED
    BY ONLY FieldSetInv, RootSame, autofix, AtSet(SetName), UNCHANGED <<inputs, address>>, ~adding',
       <1>5, <2>1, <2>2, <2>3, FitSet(tree, FALSE), FitKeepsSame
<1>8. ASSUME ~(given <= left) PROVE RootSame' /\ SubSame'
  <2>1. left \in Nat /\ left < given
    <3> HIDE DEF left
    <3> QED
      BY ONLY <1>2, <1>3, <1>8
  <2>2. room = StreamSize - (address + size)
    BY ONLY <1>2 DEF Room
  <2>3. room # Unknown /\ room < 0 /\ m = left
    <3> HIDE DEF left, room
    <3> QED
      BY ONLY <1>2, <1>3, <2>1, <2>2
  <2>4. IF tree.root.current = 0 THEN OnError("root", tree)
        ELSE IF left > 0 THEN InsertSet(TruncateOne(tree, "sub", left), FALSE)
        ELSE OnStop("root", tree)
    <3>1. IF ~tight /\ size > 0 THEN InsertSet(tree, FALSE) /\ kept' = FALSE
          ELSE IF ~autofix \/ tree.root.current = 0 \/ room = Unknown
               THEN OnError("root", tree) /\ UNCHANGED kept
          ELSE IF size > 0 /\ m > 0
               THEN InsertSet(TruncateOne(tree, "sub", m), FALSE) /\ kept' = FALSE
          ELSE OnStop("root", tree) /\ UNCHANGED kept
      BY ONLY FitSet(tree, FALSE), <1>5 DEF FitSet
    <3>2. size > 0
      BY ONLY <1>3
    <3> HIDE DEF left, room, m
    <3> QED
      BY ONLY <2>3, <3>1, <3>2, autofix
  <2>5. ASSUME Span = 0, OnError("root", tree) \/ OnStop("root", tree)
        PROVE  RootSame' /\ SubSame'
    <3>1. UNCHANGED inputs /\ tree.root = tree.root
      BY ONLY UNCHANGED <<inputs, address>>
    <3> QED
      BY ONLY FieldSetInv, RootSame, autofix, AtSet(SetName), <3>1, ~adding', <1>1, <2>5, DropKeepsSame
  <2>6. CASE tree.root.current = 0
    <3>1. Span = 0
      BY ONLY <1>2, <1>4, <1>8, <2>6
    <3> QED
      BY ONLY <2>4, <2>5, <2>6, <3>1
  <2>7. CASE tree.root.current # 0 /\ ~(left > 0)
    <3>1. Span = 0
      <4> HIDE DEF left
      <4> QED
        BY ONLY <1>2, <1>4, <1>8, <2>1, <2>7
    <3> QED
      BY ONLY <2>4, <2>5, <2>7, <3>1
  <2>8. CASE tree.root.current # 0 /\ left > 0
    <3> DEFINE r == TruncateOne(tree, "sub", left)
    <3>1. Span = left /\ Span # 0
      <4> HIDE DEF left
      <4> QED
        BY ONLY <1>2, <1>4, <1>8, <2>1, <2>8
    <3>2. InsertSet(r, FALSE)
      BY ONLY <2>4, <2>8
    <3>3. left < tree.sub.size /\ left \in Nat /\ left > 0
      BY ONLY <1>5, <2>1, <2>8
    <3> HIDE DEF left
    <3>4. Ready(r) /\ r.root = tree.root
      BY ONLY <1>5, <3>3, TrimOK
    <3>5. r.sub = Empty(left)
      BY ONLY <1>1, <3>3, tree.sub = Empty(given), TrimEmpty
    <3> HIDE DEF r
    <3>6. r.sub.size = Span /\ ParsedSoFar(script.sub, r.sub, 0)
      BY ONLY <1>6, <3>1, <3>5 DEF Empty
    <3>7. FALSE <=> Fails
      BY ONLY <1>4
    <3> QED
      BY ONLY FieldSetInv, autofix, AtSet(SetName), UNCHANGED <<inputs, address>>, ~adding',
         <3>1, <3>2, <3>4, <3>6, <3>7, InsertKeepsSame
  <2> QED
    BY ONLY <2>6, <2>7, <2>8
<1> QED
  BY ONLY <1>7, <1>8

\* The end of _addField with a set that was fed and failed: it is kept if
\* what it has fills the stream, and dropped otherwise.
LEMMA FinishFailed ==
    ASSUME FieldSetInv, AddsAtEnd, RootSame, SubFailed, autofix, ~piped, AtSet(SetName),
           UNCHANGED <<inputs, address>>, ~adding', adding, answer = "error",
           IF tree.sub.fields = <<>> THEN OnError("root", tree)
           ELSE IF Eof(Looked) THEN FitSet(StopFeeding(Looked, "sub"), TRUE)
           ELSE OnError("root", tree)
    PROVE  RootSame' /\ SubSame'
<1> DEFINE left == Behind(SetAt)
           c == tree.sub.current
           fs == tree.sub.fields
<1>1. InputsOK /\ TreeOK(tree, piped, edited) /\ address \in Nat /\ "sub" \in Sets
  BY ONLY FieldSetInv DEF FieldSetInv, Sets
<1>2. /\ address = SetAt /\ SetAt \in Nat /\ SetAt <= StreamSize /\ left = StreamSize - SetAt
      /\ tree.root.size = StreamSize /\ tree.root.size # Unknown
  BY ONLY AtSet(SetName) DEF AtSet
<1>3. /\ StreamSize \in Nat /\ left \in Nat /\ c \in Nat /\ fs \in Seq(Fields)
      /\ SetOK(tree.sub, tree.sub.size, piped, edited) /\ ~HasSet(fs)
  <2>1. StreamSize \in Nat /\ left \in Nat
    BY ONLY <1>1, <1>2, InputFacts, SpanIs
  <2> QED
    BY ONLY <1>1, <2>1, TreeFacts DEF TreeOK
<1>4. /\ tree.sub.size = Unknown
      /\ Fails => /\ Span = IF c = left THEN c ELSE 0
                  /\ \E n \in 0 .. Len(script.sub) : FailsAt(script.sub, fs, n)
      /\ ~Fails => Span = 0 /\ c = 0
  BY ONLY SubFailed DEF SubFailed
<1>5. fs = <<>> => c = 0
  <2>1. SetOK(tree.sub, tree.sub.size, piped, edited)
    BY ONLY <1>3
  <2> QED
    BY ONLY <2>1 DEF SetOK, Chain
<1> HIDE DEF left, c, fs
<1>6. ASSUME Span = 0, OnError("root", tree)
      PROVE  RootSame' /\ SubSame'
  <2>1. UNCHANGED inputs /\ tree.root = tree.root
    BY ONLY UNCHANGED <<inputs, address>>
  <2> QED
    BY ONLY FieldSetInv, RootSame, autofix, AtSet(SetName), <2>1, ~adding', <1>1, <1>6, DropKeepsSame
<1>7. Looked = tree
  BY ONLY FieldSetInv, adding, <1>2, LookedIs
<1>8. Eof(Looked) <=> c = left
  <2>1. c <= left
    <3>1. address + tree.sub.current <= tree.root.size
      BY ONLY AddsAtEnd, adding, answer = "error" DEF AddsAtEnd, Waits
    <3> QED
      BY ONLY <1>2, <1>3, <3>1 DEF c
  <2>2. Eof(Looked) <=> StreamSize < address + c + 1
    BY ONLY <1>2, <1>7 DEF Eof, c
  <2> QED
    BY ONLY <1>2, <1>3, <2>1, <2>2
<1>9. CASE fs = <<>>
  <2>1. Span = 0
    BY ONLY <1>3, <1>4, <1>5, <1>9
  <2>2. OnError("root", tree)
    BY ONLY <1>9,
       IF tree.sub.fields = <<>> THEN OnError("root", tree)
       ELSE IF Eof(Looked) THEN FitSet(StopFeeding(Looked, "sub"), TRUE)
       ELSE OnError("root", tree) DEF fs
  <2> QED
    BY ONLY <1>6, <2>1, <2>2
<1>10. CASE fs # <<>> /\ c # left
  <2>1. Span = 0
    BY ONLY <1>4, <1>10
  <2>2. OnError("root", tree)
    BY ONLY <1>8, <1>10,
       IF tree.sub.fields = <<>> THEN OnError("root", tree)
       ELSE IF Eof(Looked) THEN FitSet(StopFeeding(Looked, "sub"), TRUE)
       ELSE OnError("root", tree) DEF fs
  <2> QED
    BY ONLY <1>6, <2>1, <2>2
<1>11. CASE fs # <<>> /\ c = left
  <2> DEFINE r == StopFeeding(Looked, "sub")
  <2>1. FitSet(r, TRUE)
    BY ONLY <1>8, <1>11,
       IF tree.sub.fields = <<>> THEN OnError("root", tree)
       ELSE IF Eof(Looked) THEN FitSet(StopFeeding(Looked, "sub"), TRUE)
       ELSE OnError("root", tree) DEF fs
  <2>2. Ready(r) /\ r.root = Looked.root /\ r.sub.gen = Done /\ r.sub.size = c
    BY ONLY FieldSetInv, adding, <1>4, StoppedIs DEF c
  <2>3. r.sub.fields = fs
    <3>1. DOMAIN tree = Sets /\ DOMAIN tree["sub"] = {"fields", "size", "current", "gen"}
      BY ONLY <1>1, TreeFacts
    <3>2. r = [tree EXCEPT !["sub"].gen = Done, !["sub"].size = tree.sub.current]
      BY ONLY <1>4, <1>7 DEF StopFeeding
    <3> QED
      BY ONLY <1>1, <3>1, <3>2 DEF fs
  <2> HIDE DEF r
  <2>4. r.root = tree.root /\ r.sub.size = Span
    BY ONLY <1>4, <1>7, <1>11, <2>2
  <2>5. Span # 0 => Fails
    BY ONLY <1>4
  <2>6. ASSUME Span # 0 PROVE ParsedSoFar(script.sub, r.sub, 0)
    <3>1. PICK n \in 0 .. Len(script.sub) : FailsAt(script.sub, fs, n)
      BY ONLY <1>4, <2>5, <2>6
    <3>2. Len(fs) = n /\ Parsed(script.sub, fs, n, 0)
          /\ Stops(script.sub, n, EndAt(fs, n, 0), r.sub.size)
      BY ONLY <3>1 DEF FailsAt, Stops
    <3>3. Complete(script.sub, r.sub, 0)
      BY ONLY <2>3, <3>1, <3>2, n \in 0 .. Len(script.sub) DEF Complete
    <3> QED
      BY ONLY <2>2, <3>3 DEF ParsedSoFar
  <2>7. Span # 0 => ParsedSoFar(script.sub, r.sub, 0) /\ (TRUE <=> Fails)
    BY ONLY <2>5, <2>6
  <2> QED
    BY ONLY FieldSetInv, RootSame, autofix, AtSet(SetName), UNCHANGED <<inputs, address>>, ~adding',
       <2>1, <2>2, <2>4, <2>7, FitKeepsSame
<1> QED
  BY ONLY <1>9, <1>10, <1>11

\* The end of _addField with a set.
LEMMA FinishKeepsSame ==
    ASSUME FieldSetInv, AddsAtEnd, RootSame, SubSame, autofix, ~piped, FinishAdd
    PROVE  RootSame' /\ SubSame'
<1>1. /\ adding /\ goal.sub = Idle /\ ~adding' /\ UNCHANGED <<inputs, address>>
      /\ answer # "error" => FitSet(tree, FALSE)
      /\ answer = "error" =>
            IF tree.sub.fields = <<>> THEN OnError("root", tree)
            ELSE IF Eof(Looked) THEN FitSet(StopFeeding(Looked, "sub"), TRUE)
            ELSE OnError("root", tree)
  <2>1. adding' = FALSE
    BY ONLY FinishAdd DEF FinishAdd
  <2> QED
    BY ONLY FinishAdd, <2>1 DEF FinishAdd
<1>2. AtSet(SetName)
  BY ONLY FieldSetInv, AddsAtEnd, RootSame, ~piped, <1>1, AtSetIs
<1>3. CASE given # Unknown
  <2>1. tree.sub = Empty(given) /\ answer # "error"
    BY ONLY <1>1, <1>3, SubSame DEF SubSame
  <2> QED
    BY ONLY FieldSetInv, RootSame, autofix, <1>1, <1>2, <1>3, <2>1, FinishGiven
<1>4. CASE given = Unknown /\ answer # "error"
  <2>1. tree.sub.size = Span /\ ~Fails /\ ParsedSoFar(script.sub, tree.sub, 0)
    BY ONLY <1>1, <1>4, SubSame DEF SubSame, SubSized
  <2>2. tree.sub.size # Unknown
    <3>1. InputsOK /\ SetAt \in Nat
      BY ONLY FieldSetInv, <1>2 DEF FieldSetInv, AtSet
    <3>2. Span \in Nat /\ Unknown \notin Int
      BY ONLY <3>1, SpanIs, InputFacts DEF Span
    <3> QED
      BY ONLY <2>1, <3>2
  <2>3. Ready(tree)
    BY ONLY FieldSetInv, <1>1, <2>2, ReadyAsItIs
  <2>4. tree.root = tree.root /\ (FALSE <=> Fails)
    BY ONLY <2>1
  <2> QED
    BY ONLY FieldSetInv, RootSame, autofix, <1>1, <1>2, <1>4, <2>1, <2>3, <2>4, FitKeepsSame
<1>5. CASE given = Unknown /\ answer = "error"
  <2>1. SubFailed
    BY ONLY <1>1, <1>5, SubSame DEF SubSame
  <2> QED
    BY ONLY FieldSetInv, AddsAtEnd, RootSame, autofix, ~piped, <1>1, <1>2, <1>5, <2>1, FinishFailed
<1> QED
  BY ONLY <1>3, <1>4, <1>5

\* Nobody has asked for a field yet.
LEMMA InitHoldsSame ==
    ASSUME Init
    PROVE  SameInv
<1>1. adding = FALSE /\ tree = [root |-> Empty(IF piped THEN Unknown ELSE StreamSize), sub |-> Empty(given)]
  BY ONLY Init DEF Init
<1>2. SubSame
  BY ONLY <1>1 DEF SubSame
<1>3. FieldSetInv
  BY ONLY Init, InitHolds
<1>4. RootSame
  <2> DEFINE size == IF piped THEN Unknown ELSE StreamSize
             u == tree.root
             items == ParserItems
  <2>1. u = Empty(size)
    BY ONLY <1>1
  <2>2. Len(items) \in Nat
    BY ONLY <1>3, ItemsAre, InputFacts DEF FieldSetInv
  <2>3. u.fields = <<>> /\ u.fields \in Seq(Fields) /\ ~HasSet(u.fields)
    <3>1. u.fields = <<>>
      BY ONLY <2>1 DEF Empty
    <3> HIDE DEF u
    <3> QED
      BY ONLY <3>1 DEF HasSet
  <2> HIDE DEF items, size
  <2>4. ParsedSoFar(items, Empty(size), 0)
    BY ONLY <2>2, EmptyParsed
  <2>5. ParsedSoFar(items, u, 0)
    BY ONLY <2>1, <2>4
  <2> HIDE DEF u
  <2>6. ParsedSoFar(items, u, tree.sub.size)
    BY ONLY <2>3, <2>5, SoFarOfData
  <2> QED
    BY ONLY <1>1, <2>3, <2>6 DEF RootSame, u, items
<1> QED
  BY ONLY <1>2, <1>4 DEF SameInv

\* Who asks for what does not matter to what is parsed.
LEMMA AskKeepsSame ==
    ASSUME RootSame, ~adding, UNCHANGED <<inputs, tree, address, adding>>
    PROVE  RootSame' /\ SubSame'
<1>1. /\ SetName' = SetName /\ SetAt' = SetAt /\ Span' = Span /\ Fails' = Fails
      /\ ParserItems' = ParserItems /\ script' = script
      /\ tree' = tree /\ address' = address /\ adding' = adding
  BY ONLY UNCHANGED <<inputs, tree, address, adding>>, Stable
<1>2. RootSame'
  BY ONLY RootSame, <1>1 DEF RootSame
<1> QED
  BY ONLY <1>1, <1>2, ~adding DEF SubSame

\* Every step keeps what the items make, if the size of the stream is
\* known, errors are repaired and no field was replaced.
LEMMA NextKeepsSame ==
    ASSUME FieldSetInv, IterInv, SameInv, [Next]_vars
    PROVE  SameInv'
<1>1. SUFFICES ASSUME autofix', ~piped', ~edited'
               PROVE  RootSame' /\ SubSame'
  BY DEF SameInv
<1>2. UNCHANGED <<inputs, edited>> => autofix /\ ~piped /\ RootSame /\ SubSame /\ AddsAtEnd
  <2>1. UNCHANGED <<inputs, edited>> => autofix /\ ~piped /\ ~edited
    BY ONLY <1>1 DEF inputs
  <2> QED
    BY ONLY <2>1, SameInv, IterInv DEF SameInv, IterInv
<1>3. CASE UNCHANGED vars
  <2>1. UNCHANGED <<inputs, edited>> /\ UNCHANGED inputs
    BY ONLY <1>3 DEF vars
  <2>2. /\ SetName' = SetName /\ SetAt' = SetAt /\ Span' = Span /\ Fails' = Fails
        /\ ParserItems' = ParserItems /\ script' = script /\ given' = given
    BY ONLY <2>1, Stable
  <2>3. tree' = tree /\ address' = address /\ adding' = adding /\ goal' = goal /\ answer' = answer
    BY ONLY <1>3 DEF vars
  <2>4. RootSame'
    BY ONLY <1>2, <2>1, <2>2, <2>3 DEF RootSame
  <2>5. SubSame'
    BY ONLY <1>2, <2>1, <2>2, <2>3 DEF SubSame, SubFed, SubSized, SubFailed
  <2> QED
    BY ONLY <2>4, <2>5
<1>4. ASSUME NEW s \in Sets, GenEnds(s) \/ GenFails(s) \/ AddData(s)
      PROVE  RootSame' /\ SubSame'
  <2>1. GenStep(s) /\ UNCHANGED <<inputs, edited>>
    BY ONLY <1>4 DEF GenEnds, GenFails, AddData, GenStep
  <2>2. autofix /\ ~piped /\ RootSame /\ SubSame /\ AddsAtEnd
    BY ONLY <1>2, <2>1
  <2>3. CASE s = "root"
    BY ONLY FieldSetInv, <2>1, <2>2, <2>3, RootKeepsSame
  <2>4. CASE s = "sub" /\ ~adding
    BY ONLY FieldSetInv, <2>1, <2>2, <2>4, SubKeepsSame
  <2>5. CASE s = "sub" /\ adding
    BY ONLY FieldSetInv, <2>1, <2>2, <2>5, AddingKeepsSame
  <2> QED
    BY ONLY s \in Sets, <2>3, <2>4, <2>5 DEF Sets
<1>5. CASE OpenSet
  <2>1. RootSame
    BY ONLY <1>2, <1>5 DEF OpenSet
  <2> QED
    BY ONLY FieldSetInv, <1>5, <2>1, OpenKeepsSame
<1>6. CASE FinishAdd
  <2>1. autofix /\ ~piped /\ RootSame /\ SubSame /\ AddsAtEnd
    BY ONLY <1>2, <1>6 DEF FinishAdd
  <2> QED
    BY ONLY FieldSetInv, <1>6, <2>1, FinishKeepsSame
<1>7. CASE IterNext
  <2>1. ~adding /\ UNCHANGED <<inputs, tree, address, adding>> /\ UNCHANGED <<inputs, edited>>
    BY ONLY <1>7 DEF IterNext
  <2> QED
    BY ONLY <1>2, <2>1, AskKeepsSame
<1>8. CASE Discover
  <2>1. piped'
    BY ONLY <1>8 DEF Discover, inputs
  <2> QED
    BY ONLY <1>1, <2>1
<1>9. ASSUME NEW s \in Sets, NEW g \in Requests(s), Call(s, g)
      PROVE  RootSame' /\ SubSame'
  <2>1. ~adding /\ UNCHANGED <<inputs, tree, address, adding>> /\ UNCHANGED <<inputs, edited>>
    BY ONLY <1>9 DEF Call, AtRest
  <2> QED
    BY ONLY <1>2, <2>1, AskKeepsSame
<1>10. ASSUME NEW i \in DOMAIN tree.root.fields, NEW offset \in 0..1, WriteFieldsIn(i, offset, 1)
       PROVE  RootSame' /\ SubSame'
  <2>1. edited'
    BY ONLY <1>10, WriteIs
  <2> QED
    BY ONLY <1>1, <2>1
<1> QED
  BY ONLY [Next]_vars, <1>3, <1>4, <1>5, <1>6, <1>7, <1>8, <1>9, <1>10 DEF Next

\* A complete parser, or set, holds what its items make.
LEMMA InvSameParse ==
    ASSUME FieldSetInv, SameInv
    PROVE  SameParse
<1>1. SUFFICES ASSUME autofix, ~piped, ~edited, RootSame
               PROVE  /\ tree.root.gen = Done => tree.root.fields = Filled(ParserItems, StreamSize)
                      /\ Present => /\ tree.sub.size = SetSpan(address)
                                    /\ tree.sub.gen = Done =>
                                         tree.sub.fields = Filled(script.sub, tree.sub.size)
  BY SameInv DEF SameInv, SameParse
<1>2. /\ InputsOK /\ TreeOK(tree, piped, edited) /\ "root" \in Sets /\ "sub" \in Sets
  BY ONLY FieldSetInv DEF FieldSetInv, Sets
<1>3. /\ SetOK(tree.root, tree.sub.size, piped, edited) /\ SetOK(tree.sub, 0, piped, edited)
      /\ tree.root.size = StreamSize
  <2>1. /\ SetOK(tree.root, tree.sub.size, piped, edited) /\ SetOK(tree.sub, tree.sub.size, piped, edited)
        /\ ~HasSet(tree.sub.fields) /\ tree.root.size = StreamSize
    BY ONLY <1>1, <1>2 DEF TreeOK
  <2>2. SetOK(tree.sub, 0, piped, edited)
    BY ONLY <2>1, SetOfData
  <2> QED
    BY ONLY <2>1, <2>2
<1>4. ASSUME NEW items \in Seq(Items), NEW u, NEW z, SetOK(u, z, piped, edited), u.gen = Done,
             ParsedSoFar(items, u, z)
      PROVE  u.fields = Filled(items, u.size)
  <2>1. Complete(items, u, z)
    BY ONLY <1>4 DEF ParsedSoFar
  <2>2. u.size = u.current
    BY ONLY <1>1, <1>4 DEF SetOK, SizesOK
  <2> QED
    BY ONLY <1>4, items \in Seq(Items), <2>1, <2>2, CompleteIs
<1>5. ASSUME tree.root.gen = Done
      PROVE  tree.root.fields = Filled(ParserItems, StreamSize)
  <2>1. ParserItems \in Seq(Items)
    BY ONLY <1>2, ItemsAre
  <2>2. ~adding /\ ParsedSoFar(ParserItems, tree.root, tree.sub.size)
    BY ONLY <1>1, <1>5 DEF RootSame
  <2> DEFINE items == ParserItems
             u == tree.root
             z == tree.sub.size
  <2>3. items \in Seq(Items) /\ SetOK(u, z, piped, edited) /\ u.gen = Done /\ ParsedSoFar(items, u, z)
    BY ONLY <1>3, <1>5, <2>1, <2>2
  <2> HIDE DEF items, u, z
  <2>4. u.fields = Filled(items, u.size)
    BY ONLY <1>4, <2>3
  <2> QED
    BY ONLY <1>3, <2>4 DEF items, u
<1>6. ASSUME Present
      PROVE  /\ tree.sub.size = SetSpan(address)
             /\ tree.sub.gen = Done => tree.sub.fields = Filled(script.sub, tree.sub.size)
  <2>1. HasSet(tree.root.fields)
    BY ONLY <1>6 DEF Present, HasSet
  <2>2. address = SetAt /\ tree.sub.size = Span /\ ParsedSoFar(script.sub, tree.sub, 0)
    BY ONLY <1>1, <2>1 DEF RootSame
  <2>3. script.sub \in Seq(Items)
    BY ONLY <1>2, InputFacts
  <2> DEFINE items == script.sub
             u == tree.sub
             z == 0
  <2>4. items \in Seq(Items) /\ SetOK(u, z, piped, edited) /\ ParsedSoFar(items, u, z)
    BY ONLY <1>3, <2>2, <2>3
  <2> HIDE DEF items, u, z
  <2>5. u.gen = Done => u.fields = Filled(items, u.size)
    BY ONLY <1>4, <2>4
  <2> QED
    BY ONLY <2>2, <2>5 DEF items, u, Span
<1> QED
  BY ONLY <1>5, <1>6

\* In a parser of a stream of known size that repairs what it meets, the
\* fields that were made so far are those that the items of createFields()
\* make; while the set is added it is either what its size was given for,
\* or the fields that its items make, up to the size that it will get.
THEOREM PartialParseInvariant == Spec => [](FieldSetInv /\ IterInv /\ SameInv)
<1>1. Init => FieldSetInv /\ IterInv /\ SameInv
  BY ONLY InitHolds, InitHoldsIter, InitHoldsSame
<1>2. FieldSetInv /\ IterInv /\ SameInv /\ [Next]_vars => (FieldSetInv /\ IterInv /\ SameInv)'
  BY ONLY NextKeeps, NextKeepsIter, NextKeepsSame
<1> QED
  BY <1>1, <1>2, PTL DEF Spec

\* With autofix and a stream of known size, what a complete parser and its
\* set hold does not depend on who asked for which fields in which order:
\* it is the fields that the items make that fit, and a raw field for the
\* rest.
THEOREM ParseIsTheSame == Spec => []SameParse
<1>1. FieldSetInv /\ SameInv => SameParse
  BY ONLY InvSameParse
<1> QED
  BY <1>1, PartialParseInvariant, PTL
=============================================================================
