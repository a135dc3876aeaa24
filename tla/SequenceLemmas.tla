--------------------------- MODULE SequenceLemmas ---------------------------
(***************************************************************************)
(* Facts about the two ways in which the servers change their arrays:      *)
(* taking one entry out (the later ones move forward by one), and adding   *)
(* one at the end; what an induction over their length begins with, and    *)
(* what a fold over a sequence computes.                                   *)
(***************************************************************************)
EXTENDS Naturals, Sequences, SequencesExt, SequenceTheorems, WellFoundedInduction, TLAPS

(* Numbers are well-founded, which is what an induction over the length of *)
(* a sequence rests on: a claim that fails at all fails at a least number. *)
Less == {s \in Nat \X Nat : s[1] < s[2]}

LEMMA LessWellFounded == IsWellFoundedOn(Less, Nat)
  <1>1. Less = OpToRel(<, Nat)
    BY DEF OpToRel, Less
  <1> QED BY <1>1, NatLessThanWellFounded

LEMMA LeastNumber ==
  ASSUME NEW T, T \subseteq Nat, T # {}
  PROVE  \E x \in T : \A y \in T : x <= y
  <1>1. PICK x \in T : \A y \in T : ~(<<y, x>> \in Less)
    BY LessWellFounded, WFMin
  <1>2. \A y \in T : ~(y < x)
    BY <1>1 DEF Less
  <1> QED BY <1>2

(* The largest number of a range. *)
LEMMA LargestNumber ==
  ASSUME NEW n \in Nat, NEW S, S \subseteq 1 .. n, n \in S
  PROVE  Max(S) = n
  <1>1. \A y \in S : n >= y
    OBVIOUS
  <1>2. \A x \in S : (\A y \in S : x >= y) => x = n
    OBVIOUS
  <1> QED BY <1>1, <1>2 DEF Max

(* The first k numbers, the last of them, and those before it. *)
LEMMA InitialNumbers ==
  ASSUME NEW k \in Nat \ {0}
  PROVE  Max(1 .. k) = k /\ (1 .. k) \ {k} = 1 .. (k - 1)
  <1>1. k \in 1 .. k /\ 1 .. k \subseteq 1 .. k
    OBVIOUS
  <1>2. Max(1 .. k) = k
    BY <1>1, LargestNumber
  <1>3. (1 .. k) \ {k} = 1 .. (k - 1)
    OBVIOUS
  <1> QED BY <1>2, <1>3

(* A set of numbers with a bound has a largest one. *)
LEMMA MaxOfRange ==
  ASSUME NEW n \in Nat, NEW S, S \subseteq 1 .. n, S # {}
  PROVE  Max(S) \in S /\ \A y \in S : y <= Max(S)
  <1> DEFINE T == {k \in 0 .. n : \A y \in S : y <= k}
  <1>1. T \subseteq Nat /\ n \in T
    <2>1. n \in 0 .. n /\ \A y \in S : y \in 1 .. n
      OBVIOUS
    <2>2. \A y \in S : y <= n
      BY <2>1
    <2> QED BY <2>1, <2>2
  <1>2. PICK k \in T : \A j \in T : k <= j
    <2> HIDE DEF T
    <2> QED BY <1>1, LeastNumber
  <1>3. k \in S
    <2>1. SUFFICES ASSUME k \notin S PROVE FALSE
      OBVIOUS
    <2>0. \A y \in S : y \in 1 .. n /\ y <= k
      BY <1>2
    <2>2. k # 0
      <3>1. PICK y \in S : TRUE
        OBVIOUS
      <3> QED BY <2>0, <3>1
    <2>3. \A y \in S : y <= k - 1
      BY <2>0, <2>1, <2>2
    <2>4. k - 1 \in T
      BY <2>2, <2>3
    <2> QED BY <1>2, <2>4
  <1>4. \E x \in S : \A y \in S : x >= y
    BY <1>3
  <1>5. Max(S) \in S /\ \A y \in S : Max(S) >= y
    BY <1>4 DEF Max
  <1> QED BY <1>5

(* A fold over a sequence, as FoldLeft defines it, for the first k of its  *)
(* elements: F[<<a, i>>] is what element number i makes of a.              *)
IsFold(f, S, F, base, k) ==
  /\ f \in [SUBSET (1 .. k) -> S]
  /\ \A s \in SUBSET (1 .. k) :
       f[s] = IF s = {} THEN base ELSE F[<<f[s \ {Max(s)}], Max(s)>>]

LEMMA FoldGrows ==
  ASSUME NEW S, NEW base \in S, NEW n \in Nat, NEW F \in [S \X (1 .. n) -> S],
         NEW m \in 0 .. (n - 1), NEW g, IsFold(g, S, F, base, m)
  PROVE  \E f : IsFold(f, S, F, base, m + 1)
  <1> DEFINE f == [s \in SUBSET (1 .. (m + 1)) |->
                     IF m + 1 \in s THEN F[<<g[s \ {m + 1}], m + 1>>] ELSE g[s]]
  <1>0. m + 1 \in Nat \ {0} /\ m + 1 \in 1 .. n
    OBVIOUS
  <1>1. ASSUME NEW s \in SUBSET (1 .. m)
        PROVE  /\ f[s] = g[s] /\ g[s] \in S
               /\ g[s] = IF s = {} THEN base ELSE F[<<g[s \ {Max(s)}], Max(s)>>]
    <2>1. s \in SUBSET (1 .. (m + 1)) /\ m + 1 \notin s
      OBVIOUS
    <2>2. f[s] = g[s]
      BY <2>1
    <2> QED BY <2>2 DEF IsFold
  <1>2. ASSUME NEW s \in SUBSET (1 .. (m + 1))
        PROVE  /\ f[s] \in S
               /\ f[s] = IF s = {} THEN base ELSE F[<<f[s \ {Max(s)}], Max(s)>>]
    <2>1. CASE m + 1 \in s
      <3>1. Max(s) = m + 1 /\ s \ {m + 1} \in SUBSET (1 .. m) /\ s # {}
        <4>1. \A x \in s : x # m + 1 => x \in 1 .. m
          OBVIOUS
        <4>2. Max(s) = m + 1
          BY <1>0, <2>1, LargestNumber
        <4> QED BY <2>1, <4>1, <4>2
      <3>2. f[s] = F[<<g[s \ {m + 1}], m + 1>>]
        BY <2>1
      <3>3. f[s \ {m + 1}] = g[s \ {m + 1}] /\ g[s \ {m + 1}] \in S
        BY <1>1, <3>1
      <3> HIDE DEF f
      <3> QED BY <1>0, <3>1, <3>2, <3>3
    <2>2. CASE m + 1 \notin s
      <3>1. s \in SUBSET (1 .. m) /\ s \ {Max(s)} \in SUBSET (1 .. m)
        <4>1. \A x \in s : x \in 1 .. m
          BY <2>2
        <4> QED BY <4>1
      <3>2. f[s] = g[s] /\ f[s \ {Max(s)}] = g[s \ {Max(s)}] /\ g[s] \in S
        BY <1>1, <3>1
      <3>3. g[s] = IF s = {} THEN base ELSE F[<<g[s \ {Max(s)}], Max(s)>>]
        BY <1>1, <3>1
      <3> HIDE DEF f
      <3> QED BY <3>2, <3>3
    <2> QED BY <2>1, <2>2
  <1>3. f = [s \in SUBSET (1 .. (m + 1)) |-> f[s]]
    OBVIOUS
  <1> HIDE DEF f
  <1>4. f \in [SUBSET (1 .. (m + 1)) -> S]
    BY <1>2, <1>3
  <1> QED BY <1>2, <1>4 DEF IsFold

LEMMA FoldExists ==
  ASSUME NEW S, NEW base \in S, NEW n \in Nat, NEW F \in [S \X (1 .. n) -> S]
  PROVE  \E f : IsFold(f, S, F, base, n)
  <1> DEFINE T == {k \in 0 .. n : ~ \E f : IsFold(f, S, F, base, k)}
  <1>1. SUFFICES ASSUME T # {} PROVE FALSE
    OBVIOUS
  <1>2. PICK k \in T : \A j \in T : k <= j
    <2>1. T \subseteq Nat
      OBVIOUS
    <2> HIDE DEF T
    <2> QED BY <1>1, <2>1, LeastNumber
  <1>3. CASE k = 0
    <2> DEFINE f == [s \in SUBSET (1 .. 0) |-> base]
    <2>1. \A s \in SUBSET (1 .. 0) : s = {} /\ f[s] = base
      OBVIOUS
    <2>2. f \in [SUBSET (1 .. 0) -> S]
      OBVIOUS
    <2> HIDE DEF f
    <2>3. IsFold(f, S, F, base, 0)
      BY <2>1, <2>2 DEF IsFold
    <2> QED BY <1>3, <2>3
  <1>4. CASE k # 0
    <2>1. k - 1 \in 0 .. (n - 1) /\ k - 1 \in 0 .. n /\ k - 1 \notin T /\ (k - 1) + 1 = k
      BY <1>2, <1>4
    <2>2. \E f : IsFold(f, S, F, base, k - 1)
      BY <2>1
    <2>3. \E f : IsFold(f, S, F, base, (k - 1) + 1)
      BY <2>1, <2>2, FoldGrows
    <2> QED BY <2>1, <2>3
  <1> QED BY <1>3, <1>4

(* Whatever satisfies the equation of a fold goes through the elements one  *)
(* after the other.                                                        *)
Folds(f, S, F, base, n) ==
  /\ f[{}] = base
  /\ \A k \in 1 .. n : f[1 .. (k - 1)] \in S => f[1 .. k] = F[<<f[1 .. (k - 1)], k>>]

Iterates(h, f, S, F, base, n) ==
  /\ h \in [0 .. n -> S]
  /\ h[0] = base
  /\ \A k \in 1 .. n : h[k] = F[<<h[k - 1], k>>]
  /\ f[1 .. n] = h[n]

LEMMA FoldInOrder ==
  ASSUME NEW S, NEW base \in S, NEW n \in Nat, NEW F \in [S \X (1 .. n) -> S],
         NEW f, Folds(f, S, F, base, n)
  PROVE  \E h : Iterates(h, f, S, F, base, n)
  <1> DEFINE T == {k \in 0 .. n : f[1 .. k] \notin S}
  <1>1. 1 .. 0 = {} /\ 0 \in 0 .. n /\ n \in 0 .. n
    OBVIOUS
  <1>2. T = {}
    <2>1. SUFFICES ASSUME T # {} PROVE FALSE
      OBVIOUS
    <2>2. PICK k \in T : \A j \in T : k <= j
      <3>1. T \subseteq Nat
        OBVIOUS
      <3> HIDE DEF T
      <3> QED BY <2>1, <3>1, LeastNumber
    <2>3. k # 0
      BY <1>1 DEF Folds
    <2>4. k \in 1 .. n /\ k - 1 \in 0 .. n /\ k - 1 \notin T
      BY <2>2, <2>3
    <2>5. f[1 .. (k - 1)] \in S
      BY <2>4
    <2>6. f[1 .. k] \in S
      BY <2>4, <2>5 DEF Folds
    <2> QED BY <2>6
  <1>3. \A k \in 0 .. n : f[1 .. k] \in S
    BY <1>2
  <1> DEFINE h == [k \in 0 .. n |-> f[1 .. k]]
  <1>4. h \in [0 .. n -> S]
    BY <1>3
  <1>5. \A k \in 0 .. n : h[k] = f[1 .. k]
    OBVIOUS
  <1>6. ASSUME NEW k \in 1 .. n PROVE h[k] = F[<<h[k - 1], k>>]
    <2>1. k \in 0 .. n /\ k - 1 \in 0 .. n
      OBVIOUS
    <2> QED BY <1>3, <1>5, <2>1 DEF Folds
  <1>7. h[0] = base /\ f[1 .. n] = h[n]
    BY <1>1, <1>5 DEF Folds
  <1> HIDE DEF h
  <1> QED BY <1>4, <1>6, <1>7 DEF Iterates

(* The numbers up to n that are reached from 0, if each is from the one     *)
(* before it.                                                              *)
LEMMA NumbersReached ==
  ASSUME NEW n \in Nat, NEW T, 0 \in T, \A k \in 1 .. n : k - 1 \in T => k \in T
  PROVE  \A k \in 0 .. n : k \in T
  <1> DEFINE U == {k \in 0 .. n : k \notin T}
  <1>1. SUFFICES ASSUME U # {} PROVE FALSE
    OBVIOUS
  <1>2. PICK k \in U : \A j \in U : k <= j
    <2>1. U \subseteq Nat
      OBVIOUS
    <2> HIDE DEF U
    <2> QED BY <1>1, <2>1, LeastNumber
  <1>3. k \in 1 .. n /\ k - 1 \in 0 .. n /\ k - 1 \notin U
    BY <1>2
  <1> QED BY <1>2, <1>3

(* Sequences that are put together one after the other.                    *)
Joins(h, t, C) ==
  /\ h \in [0 .. Len(t) -> Seq(C)]
  /\ h[0] = <<>>
  /\ \A k \in 1 .. Len(t) : h[k] = h[k - 1] \o t[k]
  /\ FlattenSeq(t) = h[Len(t)]

LEMMA FlatInOrder ==
  ASSUME NEW C, NEW t \in Seq(Seq(C))
  PROVE  \E h : Joins(h, t, C)
  <1> DEFINE n == Len(t)
             S == Seq(C)
             F == [p \in S \X (1 .. n) |-> p[1] \o t[p[2]]]
  <1>1. n \in Nat /\ DOMAIN t = 1 .. n /\ \A k \in 1 .. n : t[k] \in S
    OBVIOUS
  <1>2. <<>> \in S /\ \A s \in S : <<>> \o s = s /\ \A u \in S : s \o u \in S
    BY ConcatProperties, ConcatEmptySeq
  <1>3. CASE t = <<>>
    <2>1. n = 0 /\ FlattenSeq(t) = <<>>
      BY <1>3 DEF FlattenSeq
    <2> DEFINE h == [k \in 0 .. 0 |-> <<>>]
    <2>2. h \in [0 .. 0 -> S] /\ h[0] = <<>>
      BY <1>2
    <2> HIDE DEF h
    <2>3. Joins(h, t, C)
      BY <2>1, <2>2 DEF Joins
    <2> QED BY <2>3
  <1>4. CASE t # <<>>
    <2>1. n \in Nat \ {0}
      BY <1>1, <1>4
    <2> HIDE DEF S, n
    <2>2. F \in [S \X (1 .. n) -> S]
      BY <1>1, <1>2
    <2>3. \A s \in S, k \in 1 .. n : F[<<s, k>>] = s \o t[k]
      OBVIOUS
    <2> HIDE DEF F
    <2>4. PICK g : IsFold(g, S, F, <<>>, n)
      BY <2>1, <2>2, <1>2, FoldExists
    <2>5. ASSUME NEW k \in 1 .. n
          PROVE  /\ g[1 .. k] = (IF k = 1 THEN t[k] ELSE g[1 .. (k - 1)] \o t[k])
                 /\ g[1 .. k] \in S
      <3>1. k \in Nat \ {0} /\ 1 .. k \in SUBSET (1 .. n) /\ 1 .. (k - 1) \in SUBSET (1 .. n)
        BY <2>1
      <3>2. 1 .. k # {} /\ (k = 1 => 1 .. (k - 1) = {})
        BY <3>1
      <3>3. Max(1 .. k) = k /\ (1 .. k) \ {k} = 1 .. (k - 1)
        BY <3>1, InitialNumbers
      <3>4. g[1 .. k] = F[<<g[1 .. (k - 1)], k>>] /\ g[1 .. (k - 1)] \in S
        BY <2>4, <3>1, <3>2, <3>3 DEF IsFold
      <3>5. g[1 .. k] = g[1 .. (k - 1)] \o t[k]
        BY <2>3, <3>4
      <3>6. k = 1 => g[1 .. (k - 1)] = <<>>
        <4>1. g[{}] = <<>>
          BY <2>4 DEF IsFold
        <4> QED BY <3>2, <4>1
      <3> QED BY <1>1, <1>2, <3>4, <3>5, <3>6
    <2> DEFINE f == CHOOSE f : f = [k \in 1 .. Len(t) |-> IF k = 1 THEN t[k] ELSE f[k - 1] \o t[k]]
               e == [k \in 1 .. n |-> g[1 .. k]]
    <2>6. e = [k \in 1 .. n |-> IF k = 1 THEN t[k] ELSE e[k - 1] \o t[k]]
      <3>1. \A k \in 1 .. n : k = 1 \/ k - 1 \in 1 .. n
        BY <2>1
      <3>2. \A k \in 1 .. n : e[k] = g[1 .. k]
        OBVIOUS
      <3>3. e = [k \in 1 .. n |-> e[k]]
        OBVIOUS
      <3> HIDE DEF e
      <3>4. \A k \in 1 .. n : e[k] = IF k = 1 THEN t[k] ELSE e[k - 1] \o t[k]
        BY <2>5, <3>1, <3>2, SMTT(40)
      <3> QED BY <3>3, <3>4
    <2>7. f = [k \in 1 .. n |-> IF k = 1 THEN t[k] ELSE f[k - 1] \o t[k]]
      <3> HIDE DEF e
      <3> QED BY <2>6 DEF n
    <2>8. FlattenSeq(t) = f[n]
      BY <2>1 DEF FlattenSeq, n
    <2> HIDE DEF f, e
    <2> DEFINE h == [k \in 0 .. n |-> IF k = 0 THEN <<>> ELSE f[k]]
    <2>9. h[0] = <<>> /\ h = [k \in 0 .. n |-> h[k]] /\ \A k \in 1 .. n : h[k] = f[k]
      BY <2>1
    <2> HIDE DEF h
    <2> DEFINE T == {k \in 0 .. n : h[k] \in S}
    <2>10. ASSUME NEW k \in 1 .. n, k - 1 \in T
           PROVE  h[k] = h[k - 1] \o t[k] /\ k \in T
      <3>1. h[k] = IF k = 1 THEN t[k] ELSE f[k - 1] \o t[k]
        BY <2>7, <2>9
      <3>2. CASE k = 1
        BY <1>1, <1>2, <2>9, <3>1, <3>2, SMTT(40)
      <3>3. CASE k # 1
        <4>1. k - 1 \in 1 .. n
          BY <2>1, <3>3
        <4>2. h[k] = h[k - 1] \o t[k]
          BY <2>9, <3>1, <3>3, <4>1
        <4>3. h[k - 1] \in S
          BY <2>10
        <4>4. h[k - 1] \o t[k] \in S
          <5> HIDE DEF T
          <5> QED BY <1>1, <1>2, <4>3
        <4>5. k \in 0 .. n
          BY <2>1
        <4> QED BY <4>2, <4>4, <4>5
      <3> QED BY <3>2, <3>3
    <2>11. \A k \in 0 .. n : k \in T
      <3>1. 0 \in T
        BY <1>2, <2>1, <2>9
      <3> HIDE DEF T
      <3> QED BY <2>1, <2>10, <3>1, NumbersReached
    <2>12. h \in [0 .. n -> S]
      BY <2>9, <2>11
    <2>13. \A k \in 1 .. n : h[k] = h[k - 1] \o t[k]
      <3>1. \A k \in 1 .. n : k - 1 \in 0 .. n
        BY <2>1
      <3> HIDE DEF T
      <3> QED BY <2>10, <2>11, <3>1
    <2>14. h[n] = f[n]
      BY <2>1, <2>9
    <2>15. Joins(h, t, C)
      BY <2>8, <2>9, <2>12, <2>13, <2>14 DEF n, S, Joins
    <2> QED BY <2>15
  <1> QED BY <1>3, <1>4

LEMMA FlatAppend ==
  ASSUME NEW C, NEW t \in Seq(Seq(C)), NEW e \in Seq(C)
  PROVE  /\ FlattenSeq(t) \in Seq(C)
         /\ FlattenSeq(Append(t, e)) = FlattenSeq(t) \o e
  <1> DEFINE n == Len(t)
             u == Append(t, e)
  <1>1. /\ n \in Nat /\ n \in 0 .. n /\ n + 1 \in 1 .. (n + 1) /\ (n + 1) - 1 = n
        /\ u \in Seq(Seq(C)) /\ Len(u) = n + 1 /\ u[n + 1] = e
        /\ \A k \in 1 .. n : u[k] = t[k] /\ k \in 1 .. (n + 1)
    OBVIOUS
  <1> HIDE DEF u
  <1>2. PICK h : Joins(h, t, C)
    BY FlatInOrder
  <1>3. PICK g : Joins(g, u, C)
    BY <1>1, FlatInOrder
  <1> DEFINE T == {k \in 0 .. n : g[k] = h[k]}
  <1>4. 0 \in T
    BY <1>1, <1>2, <1>3 DEF Joins
  <1>5. ASSUME NEW k \in 1 .. n, k - 1 \in T PROVE k \in T
    <2>1. g[k] = g[k - 1] \o u[k] /\ u[k] = t[k]
      BY <1>1, <1>3 DEF Joins
    <2>2. h[k] = h[k - 1] \o t[k]
      BY <1>2 DEF Joins
    <2>3. g[k - 1] = h[k - 1] /\ k \in 0 .. n
      BY <1>1, <1>5
    <2>4. g[k] = h[k]
      <3> HIDE DEF T
      <3> QED BY <2>1, <2>2, <2>3
    <2> QED BY <2>3, <2>4
  <1>6. \A k \in 0 .. n : k \in T
    <2> HIDE DEF T, n
    <2> QED BY <1>1, <1>4, <1>5, NumbersReached
  <1>7. g[n] = h[n]
    BY <1>1, <1>6
  <1>8. g[n + 1] = g[n] \o e
    BY <1>1, <1>3 DEF Joins
  <1>9. FlattenSeq(t) = h[n] /\ FlattenSeq(u) = g[n + 1] /\ h[n] \in Seq(C)
    BY <1>1, <1>2, <1>3 DEF Joins
  <1> QED BY <1>7, <1>8, <1>9 DEF u

(* What storage_delete and api_address_delete do: the entries behind number i move   *)
(* forward by one.                                                         *)
LEMMA RemoveAtProperties ==
  ASSUME NEW S, NEW s \in Seq(S), NEW i \in DOMAIN s
  PROVE  /\ RemoveAt(s, i) \in Seq(S)
         /\ Len(RemoveAt(s, i)) = Len(s) - 1
         /\ \A k \in 1 .. (Len(s) - 1) :
              RemoveAt(s, i)[k] = IF k < i THEN s[k] ELSE s[k + 1]
  <1> DEFINE a == SubSeq(s, 1, i - 1)
             b == SubSeq(s, i + 1, Len(s))
  <1>1. /\ Len(s) \in Nat /\ i \in 1 .. Len(s)
        /\ \A k \in 1 .. Len(s) : s[k] \in S
    OBVIOUS
  <1>2. /\ a \in Seq(S)
        /\ Len(a) = i - 1
        /\ \A k \in 1 .. (i - 1) : a[k] = s[k]
    <2>1. \A k \in 1 .. (i - 1) : s[k] \in S
      BY <1>1
    <2>2. i - 1 \in Int /\ 1 \in Int
      BY <1>1
    <2>3. /\ SubSeq(s, 1, i - 1) \in Seq(S)
          /\ Len(SubSeq(s, 1, i - 1)) = IF 1 <= i - 1 THEN (i - 1) - 1 + 1 ELSE 0
          /\ \A k \in 1 .. (i - 1) - 1 + 1 : SubSeq(s, 1, i - 1)[k] = s[1 + k - 1]
      BY <2>1, <2>2, SubSeqProperties
    <2> QED BY <1>1, <2>3
  <1>3. /\ b \in Seq(S)
        /\ Len(b) = Len(s) - i
        /\ \A k \in 1 .. (Len(s) - i) : b[k] = s[k + i]
    <2>1. \A k \in (i + 1) .. Len(s) : s[k] \in S
      BY <1>1
    <2>2. i + 1 \in Int /\ Len(s) \in Int
      BY <1>1
    <2>3. /\ SubSeq(s, i + 1, Len(s)) \in Seq(S)
          /\ Len(SubSeq(s, i + 1, Len(s))) = IF i + 1 <= Len(s) THEN Len(s) - (i + 1) + 1 ELSE 0
          /\ \A k \in 1 .. Len(s) - (i + 1) + 1 :
               SubSeq(s, i + 1, Len(s))[k] = s[(i + 1) + k - 1]
      BY <2>1, <2>2, SubSeqProperties
    <2> QED BY <1>1, <2>3
  <1>4. /\ a \o b \in Seq(S)
        /\ Len(a \o b) = Len(a) + Len(b)
        /\ \A k \in 1 .. Len(a) + Len(b) :
             (a \o b)[k] = IF k <= Len(a) THEN a[k] ELSE b[k - Len(a)]
    BY <1>2, <1>3, ConcatProperties
  <1>5. RemoveAt(s, i) = a \o b
    BY DEF RemoveAt
  <1> HIDE DEF a, b
  <1>6. Len(a) + Len(b) = Len(s) - 1
    BY <1>1, <1>2, <1>3
  <1>7. ASSUME NEW k \in 1 .. (Len(s) - 1)
        PROVE  (a \o b)[k] = IF k < i THEN s[k] ELSE s[k + 1]
    <2>1. k \in 1 .. Len(a) + Len(b)
      BY <1>6
    <2>2. CASE k < i
      BY <1>1, <1>2, <1>4, <2>1, <2>2
    <2>3. CASE ~(k < i)
      <3>1. k - Len(a) \in 1 .. (Len(s) - i) /\ (k - Len(a)) + i = k + 1
        BY <1>1, <1>2, <2>3
      <3>2. (a \o b)[k] = b[k - Len(a)]
        BY <1>1, <1>2, <1>4, <2>1, <2>3
      <3> QED BY <1>3, <2>3, <3>1, <3>2
    <2> QED BY <2>2, <2>3
  <1> QED BY <1>4, <1>5, <1>6, <1>7

(* No entry comes twice, also without one of them. *)
LEMMA RemoveAtInjective ==
  ASSUME NEW S, NEW s \in Seq(S), NEW i \in DOMAIN s, IsInjective(s)
  PROVE  IsInjective(RemoveAt(s, i))
  <1> DEFINE r == RemoveAt(s, i)
  <1>1. /\ r \in Seq(S)
        /\ Len(r) = Len(s) - 1
        /\ \A k \in 1 .. (Len(s) - 1) : r[k] = IF k < i THEN s[k] ELSE s[k + 1]
    BY RemoveAtProperties
  <1> HIDE DEF r
  <1>2. SUFFICES ASSUME NEW j \in DOMAIN r, NEW k \in DOMAIN r, r[j] = r[k]
                 PROVE  j = k
    BY DEF IsInjective, r
  <1>3. /\ DOMAIN r = 1 .. (Len(s) - 1)
        /\ DOMAIN s = 1 .. Len(s)
        /\ Len(s) \in Nat
    BY <1>1
  <1>4. \A x, y \in 1 .. Len(s) : s[x] = s[y] => x = y
    BY <1>3 DEF IsInjective
  <1>5. i \in 1 .. Len(s) /\ j \in 1 .. (Len(s) - 1) /\ k \in 1 .. (Len(s) - 1)
    BY <1>3
  <1>6. \A x \in 1 .. (Len(s) - 1) : x \in 1 .. Len(s) /\ x + 1 \in 1 .. Len(s)
    BY <1>3
  <1>7. CASE j < i /\ k < i
    BY <1>1, <1>2, <1>4, <1>5, <1>6, <1>7
  <1>8. CASE j < i /\ ~(k < i)
    <2>1. s[j] = s[k + 1]
      BY <1>1, <1>2, <1>5, <1>8
    <2>2. j = k + 1
      BY <1>4, <1>5, <1>6, <2>1
    <2> QED BY <1>3, <1>5, <1>8, <2>2
  <1>9. CASE ~(j < i) /\ k < i
    <2>1. s[j + 1] = s[k]
      BY <1>1, <1>2, <1>5, <1>9
    <2>2. j + 1 = k
      BY <1>4, <1>5, <1>6, <2>1
    <2> QED BY <1>3, <1>5, <1>9, <2>2
  <1>10. CASE ~(j < i) /\ ~(k < i)
    <2>1. s[j + 1] = s[k + 1]
      BY <1>1, <1>2, <1>5, <1>10
    <2>2. j + 1 = k + 1
      BY <1>4, <1>5, <1>6, <2>1
    <2> QED BY <1>3, <1>5, <2>2
  <1> QED BY <1>7, <1>8, <1>9, <1>10

(* A new entry at the end that was not there before. *)
LEMMA AppendInjectiveSeq ==
  ASSUME NEW S, NEW s \in Seq(S), NEW e \in S, e \notin ToSet(s), IsInjective(s)
  PROVE  IsInjective(Append(s, e))
  <1>1. /\ Len(s) \in Nat
        /\ DOMAIN s = 1 .. Len(s)
        /\ DOMAIN Append(s, e) = 1 .. (Len(s) + 1)
        /\ \A k \in 1 .. Len(s) : Append(s, e)[k] = s[k]
        /\ Append(s, e)[Len(s) + 1] = e
    OBVIOUS
  <1>2. \A k \in 1 .. Len(s) : s[k] # e
    BY <1>1 DEF ToSet
  <1>3. \A j, k \in 1 .. Len(s) : s[j] = s[k] => j = k
    BY <1>1 DEF IsInjective
  <1>4. SUFFICES ASSUME NEW j \in 1 .. (Len(s) + 1), NEW k \in 1 .. (Len(s) + 1),
                        Append(s, e)[j] = Append(s, e)[k]
                 PROVE  j = k
    BY <1>1 DEF IsInjective
  <1>5. CASE j = Len(s) + 1
    BY <1>1, <1>2, <1>4, <1>5
  <1>6. CASE k = Len(s) + 1
    BY <1>1, <1>2, <1>4, <1>6
  <1>7. CASE j # Len(s) + 1 /\ k # Len(s) + 1
    <2>1. j \in 1 .. Len(s) /\ k \in 1 .. Len(s)
      BY <1>1, <1>7
    <2> QED BY <1>1, <1>3, <1>4, <2>1
  <1> QED BY <1>5, <1>6, <1>7

(* A new entry at the end is the only one that is added. *)
LEMMA AppendToSet ==
  ASSUME NEW S, NEW s \in Seq(S), NEW e
  PROVE  ToSet(Append(s, e)) = ToSet(s) \cup {e}
  <1>1. /\ Len(s) \in Nat
        /\ DOMAIN s = 1 .. Len(s)
        /\ DOMAIN Append(s, e) = 1 .. (Len(s) + 1)
        /\ \A k \in 1 .. Len(s) : Append(s, e)[k] = s[k]
        /\ Append(s, e)[Len(s) + 1] = e
    OBVIOUS
  <1>2. ASSUME NEW k \in DOMAIN Append(s, e) PROVE Append(s, e)[k] \in ToSet(s) \cup {e}
    <2>1. CASE k = Len(s) + 1
      BY <1>1, <2>1
    <2>2. CASE k \in DOMAIN s
      BY <1>1, <2>2 DEF ToSet
    <2> QED BY <1>1, <1>2, <2>1, <2>2
  <1>3. \A k \in DOMAIN s : s[k] \in ToSet(Append(s, e))
    <2> SUFFICES ASSUME NEW k \in DOMAIN s PROVE s[k] \in ToSet(Append(s, e))
      OBVIOUS
    <2>1. k \in DOMAIN Append(s, e) /\ Append(s, e)[k] = s[k]
      BY <1>1
    <2> QED BY <2>1 DEF ToSet
  <1>4. e \in ToSet(Append(s, e))
    <2>1. Len(s) + 1 \in DOMAIN Append(s, e)
      BY <1>1
    <2> QED BY <1>1, <2>1 DEF ToSet
  <1> HIDE DEF ToSet
  <1>5. ToSet(Append(s, e)) \subseteq ToSet(s) \cup {e}
    BY <1>2 DEF ToSet
  <1>6. ToSet(s) \subseteq ToSet(Append(s, e))
    BY <1>3 DEF ToSet
  <1> QED BY <1>4, <1>5, <1>6

(* Sequences of no entry or of one. *)
LEMMA EmptyInjective == IsInjective(<<>>) /\ \A x : IsInjective(<<x>>)
  BY DEF IsInjective
=============================================================================
