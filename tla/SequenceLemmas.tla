--------------------------- MODULE SequenceLemmas ---------------------------
(***************************************************************************)
(* Facts about numbers and sequences that the proofs of several components *)
(* use: the least element of a set of numbers, which replaces induction    *)
(* (a least counterexample has no predecessor); functions that are defined *)
(* by recursion over numbers; and how many elements of a sequence are of a *)
(* kind, while it grows at its end and shrinks at its front, as the queues *)
(* of the I/O threads do.                                                  *)
(***************************************************************************)
EXTENDS Integers, Sequences, FiniteSets, SequenceTheorems, FunctionTheorems,
        FiniteSetTheorems, WellFoundedInduction, TLAPS

(* Every nonempty set of natural numbers has a least element. *)
LEMMA LeastNumber ==
    ASSUME NEW T, T \subseteq Nat, T # {}
    PROVE  \E n \in T : \A m \in T : n <= m
<1> DEFINE R == {ss \in Nat \X Nat : ss[1] < ss[2]}
<1>1. OpToRel(<,Nat) = R
  BY DEF OpToRel
<1>2. IsWellFoundedOn(R, Nat)
  BY <1>1, NatLessThanWellFounded
<1> HIDE DEF R
<1>3. PICK x \in T : \A y \in T : ~ (<<y, x>> \in R)
  BY <1>2, WFMin
<1>4. ASSUME NEW y \in T PROVE x <= y
  <2>1. <<y, x>> \notin R
    BY <1>3
  <2>2. ~(y < x)
    BY <2>1 DEF R
  <2> QED BY <2>2
<1> QED BY <1>4

(* The same as induction: a set that holds 0 and the successor of each of   *)
(* its elements below n holds every number up to n.                         *)
LEMMA UpTo ==
    ASSUME NEW n \in Nat, NEW T, 0 \in T, \A i \in 0 .. n - 1 : i \in T => i + 1 \in T
    PROVE  \A i \in 0 .. n : i \in T
<1> DEFINE B == {i \in 0 .. n : i \notin T}
<1>1. SUFFICES ASSUME B # {} PROVE FALSE
  OBVIOUS
<1>2. B \subseteq Nat
  OBVIOUS
<1>3. PICK m \in B : \A k \in B : m <= k
  BY <1>1, <1>2, LeastNumber
<1>4. m # 0 /\ m \in 0 .. n
  BY <1>3
<1>5. m - 1 \in 0 .. n - 1 /\ m - 1 \notin B
  BY <1>3, <1>4
<1>6. m - 1 \in T
  BY <1>5
<1> QED
  BY <1>3, <1>5, <1>6

(* A function on 0 .. n can be defined from its first value upwards; G[i]   *)
(* makes the value at i of the one before.                                  *)
UpwardSteps(G, n, S) == \A i \in 1 .. n : \A x \in S : G[i][x] \in S
IsUpward(f, G, n, S, v) ==
    f \in [0 .. n -> S] /\ f[0] = v /\ \A i \in 1 .. n : f[i] = G[i][f[i - 1]]

LEMMA Upward ==
    ASSUME NEW n \in Nat, NEW S, NEW v \in S, NEW G, UpwardSteps(G, n, S)
    PROVE  \E f : IsUpward(f, G, n, S, v)
<1> DEFINE Good(k, f) == f[0] = v /\ \A i \in 1 .. k : f[i] = G[i][f[i - 1]]
           T == {k \in Nat : \E f \in [0 .. k -> S] : Good(k, f)}
<1>1. 0 \in T
  <2>1. [i \in 0 .. 0 |-> v] \in [0 .. 0 -> S] /\ Good(0, [i \in 0 .. 0 |-> v])
    OBVIOUS
  <2> QED
    BY <2>1
<1>2. ASSUME NEW k \in 0 .. n - 1, k \in T
      PROVE  k + 1 \in T
  <2>1. PICK f \in [0 .. k -> S] : Good(k, f)
    BY <1>2
  <2>2. k + 1 \in 1 .. n /\ k \in 0 .. k /\ k + 1 \in Nat
    OBVIOUS
  <2>3. PICK x : x = G[k + 1][f[k]]
    OBVIOUS
  <2>4. x \in S
    BY <2>1, <2>2, <2>3 DEF UpwardSteps
  <2>5. PICK g : g = [i \in 0 .. k + 1 |-> IF i = k + 1 THEN x ELSE f[i]]
    OBVIOUS
  <2>6. g \in [0 .. k + 1 -> S]
    BY <2>1, <2>4, <2>5
  <2>7. g[k + 1] = x /\ \A i \in 0 .. k : g[i] = f[i]
    BY <2>2, <2>5
  <2>8. ASSUME NEW i \in 1 .. k + 1 PROVE g[i] = G[i][g[i - 1]]
    <3>1. CASE i = k + 1
      <4>1. i - 1 = k /\ g[k] = f[k]
        BY <2>2, <2>7, <3>1
      <4> QED
        BY <2>3, <2>7, <3>1, <4>1
    <3>2. CASE i # k + 1
      <4>1. i \in 1 .. k /\ i \in 0 .. k /\ i - 1 \in 0 .. k
        BY <3>2
      <4> QED
        BY <2>1, <2>7, <4>1
    <3> QED
      BY <3>1, <3>2
  <2>9. Good(k + 1, g)
    <3>1. g[0] = v
      BY <2>1, <2>7
    <3> QED
      BY <2>8, <3>1
  <2> HIDE DEF Good
  <2> QED
    BY <2>2, <2>6, <2>9
<1>3. n \in T
  <2> HIDE DEF T
  <2>1. \A i \in 0 .. n : i \in T
    BY <1>1, <1>2, UpTo
  <2> QED
    BY <2>1
<1> QED
  BY <1>3 DEF IsUpward

(* A function on 0 .. n can be defined from its last value downwards; G[i]  *)
(* makes the value at i of all the values after it.                         *)
DownwardSteps(G, n, S) == \A i \in 0 .. n : \A h \in [i + 1 .. n -> S] : G[i][h] \in S
IsDownward(f, G, n, S) ==
    f \in [0 .. n -> S] /\ \A i \in 0 .. n : f[i] = G[i][[j \in i + 1 .. n |-> f[j]]]

LEMMA Downward ==
    ASSUME NEW n \in Nat, NEW S, NEW G, DownwardSteps(G, n, S)
    PROVE  \E f : IsDownward(f, G, n, S)
<1> DEFINE Good(m, f) == \A i \in m .. n : f[i] = G[i][[j \in i + 1 .. n |-> f[j]]]
           T == {k \in Nat : \E f \in [(n + 1) - k .. n -> S] : Good((n + 1) - k, f)}
<1>1. 0 \in T
  <2>1. \A i \in (n + 1) - 0 .. n : FALSE
    OBVIOUS
  <2>2. PICK f : f = [i \in (n + 1) - 0 .. n |-> n]
    OBVIOUS
  <2>3. f \in [(n + 1) - 0 .. n -> S] /\ Good((n + 1) - 0, f)
    BY <2>1, <2>2
  <2> QED
    BY <2>3
<1>2. ASSUME NEW k \in 0 .. (n + 1) - 1, k \in T
      PROVE  k + 1 \in T
  <2>0. PICK m : m = n - k
    OBVIOUS
  <2>1. m \in 0 .. n /\ (n + 1) - k = m + 1 /\ (n + 1) - (k + 1) = m /\ k + 1 \in Nat
    BY <2>0
  <2>2. PICK f \in [m + 1 .. n -> S] : Good(m + 1, f)
    BY <1>2, <2>1
  <2>3. PICK x : x = G[m][f]
    OBVIOUS
  <2>4. x \in S
    BY <2>1, <2>2, <2>3 DEF DownwardSteps
  <2>5. PICK g : g = [i \in m .. n |-> IF i = m THEN x ELSE f[i]]
    OBVIOUS
  <2>6. \A i \in m + 1 .. n : i # m /\ i \in m .. n
    BY <2>1
  <2>7. m \in m .. n
    BY <2>1
  <2>8. g[m] = x /\ \A i \in m + 1 .. n : g[i] = f[i]
    BY <2>5, <2>6, <2>7
  <2>9. g \in [m .. n -> S]
    <3>1. ASSUME NEW i \in m .. n PROVE (IF i = m THEN x ELSE f[i]) \in S
      <4>1. i = m \/ i \in m + 1 .. n
        BY <2>1
      <4> QED
        BY <2>2, <2>4, <4>1
    <3> QED
      BY <2>5, <3>1
  <2>10. ASSUME NEW i \in m .. n PROVE g[i] = G[i][[j \in i + 1 .. n |-> g[j]]]
    <3>1. \A j \in i + 1 .. n : g[j] = f[j]
      <4>1. \A j \in i + 1 .. n : j \in m + 1 .. n
        BY <2>1
      <4> QED
        BY <2>8, <4>1
    <3>2. [j \in i + 1 .. n |-> g[j]] = [j \in i + 1 .. n |-> f[j]]
      BY <3>1
    <3>3. CASE i = m
      <4>1. f = [j \in m + 1 .. n |-> f[j]]
        BY <2>2
      <4> QED
        BY <2>3, <2>8, <3>2, <3>3, <4>1
    <3>4. CASE i # m
      <4>1. i \in m + 1 .. n
        BY <2>1, <3>4
      <4> QED
        BY <2>2, <2>8, <3>2, <4>1
    <3> QED
      BY <3>3, <3>4
  <2>11. Good(m, g)
    BY <2>10
  <2> HIDE DEF Good
  <2> QED
    BY <2>1, <2>9, <2>11
<1>3. n + 1 \in T
  <2> HIDE DEF T
  <2>1. n + 1 \in Nat
    OBVIOUS
  <2>2. \A i \in 0 .. n + 1 : i \in T
    BY <1>1, <1>2, <2>1, UpTo
  <2> QED
    BY <2>1, <2>2
<1>4. (n + 1) - (n + 1) = 0
  OBVIOUS
<1> QED
  BY <1>3, <1>4 DEF IsDownward

(* A part of a sequence. *)
LEMMA PartOf ==
    ASSUME NEW S, NEW s \in Seq(S), NEW m \in Nat, NEW n \in Nat, m + n <= Len(s)
    PROVE  /\ SubSeq(s, m + 1, m + n) \in Seq(S)
           /\ Len(SubSeq(s, m + 1, m + n)) = n
           /\ \A i \in 1 .. n : SubSeq(s, m + 1, m + n)[i] = s[m + i]
<1>0. Len(s) \in Nat
  BY LenProperties
<1>1. /\ m + 1 \in Int /\ m + n \in Int
      /\ \A i \in m + 1 .. m + n : i \in 1 .. Len(s)
  BY <1>0
<1>2. \A i \in 1 .. Len(s) : s[i] \in S
  BY LenProperties
<1>3. SubSeq(s, m + 1, m + n) = [i \in 1 .. (m + n) - (m + 1) + 1 |-> s[(m + 1) + i - 1]]
  BY <1>1
<1>4. (m + n) - (m + 1) + 1 = n /\ \A i \in 1 .. n : (m + 1) + i - 1 = m + i
  OBVIOUS
<1>5. SubSeq(s, m + 1, m + n) = [i \in 1 .. n |-> s[m + i]]
  BY <1>3, <1>4
<1>6. \A i \in 1 .. n : m + i \in 1 .. Len(s)
  BY <1>0
<1>7. SubSeq(s, m + 1, m + n) \in [1 .. n -> S]
  BY <1>2, <1>5, <1>6
<1>8. SubSeq(s, m + 1, m + n) \in Seq(S)
  BY <1>7, SeqDef
<1> QED
  BY <1>5, <1>7, <1>8, LenProperties

(* The places of a sequence whose elements are in M. *)
Marked(s, M) == {i \in DOMAIN s : s[i] \in M}

LEMMA MarkedFinite ==
    ASSUME NEW S, NEW s \in Seq(S), NEW M
    PROVE  IsFiniteSet(Marked(s, M)) /\ Cardinality(Marked(s, M)) \in Nat
<1>1. Marked(s, M) \subseteq 1 .. Len(s)
  BY DEF Marked
<1>2. IsFiniteSet(1 .. Len(s))
  BY FS_Interval
<1>3. IsFiniteSet(Marked(s, M))
  BY <1>1, <1>2, FS_Subset
<1> QED
  BY <1>3, FS_CardinalityType

LEMMA MarkedAppend ==
    ASSUME NEW S, NEW s \in Seq(S), NEW x \in S, NEW M
    PROVE  Cardinality(Marked(Append(s, x), M)) =
              Cardinality(Marked(s, M)) + (IF x \in M THEN 1 ELSE 0)
<1>1. IsFiniteSet(Marked(s, M)) /\ Cardinality(Marked(s, M)) \in Nat
  BY MarkedFinite
<1>2. CASE x \in M
  <2>1. Marked(Append(s, x), M) = Marked(s, M) \cup {Len(s) + 1}
    BY <1>2 DEF Marked
  <2>2. Len(s) + 1 \notin Marked(s, M)
    BY DEF Marked
  <2>3. Cardinality(Marked(s, M) \cup {Len(s) + 1}) = Cardinality(Marked(s, M)) + 1
    BY <1>1, <2>2, FS_AddElement
  <2> QED
    BY <1>2, <2>1, <2>3
<1>3. CASE x \notin M
  <2>1. Marked(Append(s, x), M) = Marked(s, M)
    BY <1>3 DEF Marked
  <2> QED
    BY <1>1, <1>3, <2>1
<1> QED
  BY <1>2, <1>3

LEMMA MarkedTail ==
    ASSUME NEW S, NEW s \in Seq(S), s # <<>>, NEW M
    PROVE  Cardinality(Marked(s, M)) =
              Cardinality(Marked(Tail(s), M)) + (IF Head(s) \in M THEN 1 ELSE 0)
<1> DEFINE A == Marked(Tail(s), M)
           B == Marked(s, M) \ {1}
           f == [i \in A |-> i + 1]
<1>a. /\ Tail(s) \in Seq(S) /\ Len(Tail(s)) = Len(s) - 1 /\ Len(s) \in Nat \ {0}
      /\ \A i \in 1 .. Len(Tail(s)) : Tail(s)[i] = s[i + 1]
      /\ Head(s) = s[1]
  BY HeadTailProperties, EmptySeq
<1>1. IsFiniteSet(A) /\ Cardinality(A) \in Nat
  BY <1>a, MarkedFinite
<1>2. IsFiniteSet(Marked(s, M))
  BY MarkedFinite
<1>3. f \in Bijection(A, B)
  <2>1. A = {i \in 1 .. Len(s) - 1 : s[i + 1] \in M}
    BY <1>a DEF Marked
  <2>2. B = {i \in 2 .. Len(s) : s[i] \in M}
    BY <1>a DEF Marked
  <2>3. f \in [A -> B]
    BY <1>a, <2>1, <2>2
  <2>4. \A i, j \in A : f[i] = f[j] => i = j
    BY <1>a, <2>1
  <2>5. ASSUME NEW b \in B PROVE \E i \in A : f[i] = b
    <3>1. b - 1 \in A
      BY <1>a, <2>1, <2>2
    <3> QED
      BY <3>1, <2>2
  <2> HIDE DEF A, B, f
  <2> QED
    BY <2>3, <2>4, <2>5, Fun_IsBij
<1>4. Cardinality(B) = Cardinality(A) /\ IsFiniteSet(B)
  <2> HIDE DEF A, B, f
  <2>1. ExistsBijection(A, B)
    BY <1>3 DEF ExistsBijection
  <2> QED
    BY <1>1, <2>1, FS_Bijection
<1>5. CASE Head(s) \in M
  <2>1. Marked(s, M) = B \cup {1}
    BY <1>5, <1>a DEF Marked
  <2>2. Cardinality(B \cup {1}) = Cardinality(B) + 1
    BY <1>4, FS_AddElement
  <2> QED
    BY <1>5, <1>4, <2>1, <2>2
<1>6. CASE Head(s) \notin M
  <2>1. Marked(s, M) = B
    BY <1>6, <1>a DEF Marked
  <2>2. Cardinality(Marked(s, M)) = Cardinality(A)
    BY <1>4, <2>1
  <2> QED
    BY <1>6, <1>1, <2>2
<1> QED
  BY <1>5, <1>6
=============================================================================
