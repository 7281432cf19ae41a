------------------------------ MODULE FoldProofs ------------------------------
(***************************************************************************)
(* What is proved about FoldLeft of the community modules: to fold an      *)
(* operator over a sequence is to apply it to one element after the other. *)
(*                                                                         *)
(* A module that folds an operator takes an instance of this one: the      *)
(* operator is a parameter of the module since a lemma that has an         *)
(* operator as a parameter cannot be cited.  For the same reason the       *)
(* induction here is over sets of numbers.                                 *)
(***************************************************************************)
EXTENDS SequencesExt, Integers, SequenceTheorems, FiniteSetTheorems, WellFoundedInduction,
        TLAPS

CONSTANT Op(_, _)

(* Induction over the numbers, for a set instead of a predicate.           *)
LEMMA InductiveSet ==
    ASSUME NEW T \in SUBSET Nat, 0 \in T, \A n \in T : n + 1 \in T
    PROVE  T = Nat
<1> SUFFICES ASSUME Nat \ T # {} PROVE FALSE
  OBVIOUS
<1>1. PICK x \in Nat \ T : \A y \in Nat \ T : ~ (<<y, x>> \in OpToRel(<, Nat))
  BY NatLessThanWellFounded, WFMin
<1>2. x # 0 /\ x - 1 \in Nat /\ (x - 1) + 1 = x
  OBVIOUS
<1>3. x - 1 \in T
  <2>1. <<x - 1, x>> \in OpToRel(<, Nat)
    BY <1>2 DEF OpToRel
  <2> QED
    BY <1>1, <1>2, <2>1
<1> QED
  BY <1>2, <1>3

-----------------------------------------------------------------------------
(* What FoldLeft looks up *)

(* The greatest of some of the first numbers.                              *)
LEMMA MaxOfSome ==
    ASSUME NEW n \in Nat, NEW s \in SUBSET (1 .. n), s # {}
    PROVE  Max(s) \in s /\ \A y \in s : Max(s) >= y
<1>1. \E x \in s : \A y \in s : x >= y
  <2> SUFFICES ASSUME \A x \in s : \E y \in s : ~(x >= y) PROVE FALSE
    OBVIOUS
  <2> DEFINE U == {d \in Nat : \A e \in 0 .. d : n - e \notin s}
  <2>1. \A y \in s : y \in 1 .. n
    OBVIOUS
  <2>2. 0 \in U
    <3> SUFFICES ASSUME n - 0 \in s PROVE FALSE
      OBVIOUS
    <3>1. n \in s
      OBVIOUS
    <3>2. PICK y \in s : ~(n >= y)
      BY <3>1
    <3> QED
      BY <2>1, <3>2
  <2>3. \A d \in U : d + 1 \in U
    <3> SUFFICES ASSUME NEW d \in U, NEW e \in 0 .. d + 1, n - e \in s PROVE FALSE
      OBVIOUS
    <3>1. e = d + 1
      OBVIOUS
    <3>2. PICK y \in s : ~(n - e >= y)
      OBVIOUS
    <3>3. n - y \in 0 .. d /\ n - (n - y) = y
      BY <3>1, <3>2, <2>1
    <3> QED
      BY <3>2, <3>3
  <2>4. U = Nat
    <3> HIDE DEF U
    <3> QED
      BY <2>2, <2>3, InductiveSet DEF U
  <2>5. PICK y \in s : TRUE
    OBVIOUS
  <2>6. n - y \in Nat /\ n - (n - y) = y
    BY <2>1
  <2>7. n - y \in U
    BY <2>4, <2>6
  <2>8. n - y \in 0 .. n - y
    BY <2>6
  <2> QED
    BY <2>7, <2>8, <2>6
<1> QED
  BY <1>1 DEF Max

(* FoldLeft looks up, in a function on sets of positions, what the fold    *)
(* over all of them is.  There is one whatever the length.                 *)
Folds(g, base, q, n) ==
    g = [s \in SUBSET (1 .. n) |->
           IF s = {} THEN base ELSE Op(g[s \ {Max(s)}], q[Max(s)])]

LEMMA FoldsExist ==
    ASSUME NEW base, NEW q
    PROVE  \A n \in Nat : \E g : Folds(g, base, q, n)
<1> DEFINE T == {n \in Nat : \E g : Folds(g, base, q, n)}
<1>1. 0 \in T
  <2> DEFINE g == [s \in SUBSET (1 .. 0) |-> base]
  <2>1. \A s \in SUBSET (1 .. 0) : s = {}
    OBVIOUS
  <2>2. Folds(g, base, q, 0)
    BY <2>1 DEF Folds
  <2> QED
    BY <2>2
<1>2. ASSUME NEW n \in T PROVE n + 1 \in T
  <2>1. PICK g : Folds(g, base, q, n)
    OBVIOUS
  <2> DEFINE h == [s \in SUBSET (1 .. n + 1) |->
                     IF s = {} THEN base ELSE Op(g[s \ {Max(s)}], q[Max(s)])]
  <2>2. ASSUME NEW s \in SUBSET (1 .. n + 1), s # {}
        PROVE  h[s \ {Max(s)}] = g[s \ {Max(s)}]
    <3>1. s \ {Max(s)} \in SUBSET (1 .. n)
      <4>1. n + 1 \in Nat
        OBVIOUS
      <4>2. Max(s) \in s /\ \A y \in s : Max(s) >= y
        BY <2>2, <4>1, MaxOfSome
      <4>3. \A y \in s : y \in 1 .. n + 1
        OBVIOUS
      <4>4. ASSUME NEW m \in s, NEW y \in s \ {m}, m >= y PROVE y \in 1 .. n
        BY <4>3, <4>4
      <4> QED
        BY <4>2, <4>4
    <3>2. \A t \in SUBSET (1 .. n) : t \in SUBSET (1 .. n + 1)
      OBVIOUS
    <3>3. \A t \in SUBSET (1 .. n) : h[t] = g[t]
      BY <2>1, <3>2 DEF Folds
    <3> QED
      BY <3>1, <3>3
  <2>3. h = [s \in SUBSET (1 .. n + 1) |->
               IF s = {} THEN base ELSE Op(h[s \ {Max(s)}], q[Max(s)])]
    BY <2>2
  <2> HIDE DEF h
  <2>4. Folds(h, base, q, n + 1)
    BY <2>3 DEF Folds
  <2> QED
    BY <2>4
<1>3. T = Nat
  <2> HIDE DEF T
  <2> QED
    BY <1>1, <1>2, InductiveSet DEF T
<1> QED
  BY <1>3

-----------------------------------------------------------------------------
(* One element after the other *)

(* f[k] is what comes out after the first k elements.                      *)
Telling(f, base, q, n) ==
    /\ f[0] = base
    /\ \A k \in 1 .. n : f[k] = Op(f[k - 1], q[k])

LEMMA TellingsAgree ==
    ASSUME NEW base, NEW q, NEW n \in Nat, NEW f, NEW g,
           Telling(f, base, q, n), Telling(g, base, q, n)
    PROVE  f[n] = g[n]
<1> DEFINE T == {k \in Nat : k <= n => f[k] = g[k]}
<1>1. 0 \in T
  BY DEF Telling
<1>2. ASSUME NEW k \in T PROVE k + 1 \in T
  <2> SUFFICES ASSUME k + 1 <= n PROVE f[k + 1] = g[k + 1]
    OBVIOUS
  <2>1. k + 1 \in 1 .. n /\ (k + 1) - 1 = k /\ f[k] = g[k]
    OBVIOUS
  <2> QED
    BY <2>1 DEF Telling
<1>3. T = Nat
  <2> HIDE DEF T
  <2> QED
    BY <1>1, <1>2, InductiveSet DEF T
<1> QED
  BY <1>3

Folded(base, q) == FoldLeft(Op, base, q)

(* What FoldLeft looks up is told one element after the other.             *)
LEMMA FoldIsTold ==
    ASSUME NEW S, NEW base, NEW q \in Seq(S)
    PROVE  \E f : Telling(f, base, q, Len(q)) /\ Folded(base, q) = f[Len(q)]
<1> DEFINE n == Len(q)
           g == CHOOSE x : Folds(x, base, q, n)
           h == [k \in 0 .. n |-> g[1 .. k]]
<1>1. n \in Nat /\ DOMAIN q = 1 .. n
  BY LenProperties
<1>2. Folded(base, q) = g[1 .. n]
  BY <1>1 DEF Folded, FoldLeft, MapThenFoldSet, Folds
<1>3. Folds(g, base, q, n)
  BY <1>1, FoldsExist
<1> HIDE DEF g
<1>4. h[0] = base
  <2>1. 1 .. 0 = {} /\ {} \in SUBSET (1 .. n)
    OBVIOUS
  <2> QED
    BY <1>1, <1>3, <2>1 DEF Folds
<1>5. ASSUME NEW k \in 1 .. n PROVE h[k] = Op(h[k - 1], q[k])
  <2>1. 1 .. k \in SUBSET (1 .. n) /\ 1 .. k # {} /\ k \in 1 .. k
    BY <1>1
  <2>2. Max(1 .. k) = k
    <3>1. Max(1 .. k) \in 1 .. k /\ \A y \in 1 .. k : Max(1 .. k) >= y
      BY <1>1, <2>1, MaxOfSome
    <3> QED
      BY <2>1, <3>1
  <2>3. (1 .. k) \ {k} = 1 .. k - 1
    BY <1>1
  <2>4. g[1 .. k] = Op(g[1 .. k - 1], q[k])
    BY <1>3, <2>1, <2>2, <2>3 DEF Folds
  <2>5. k \in 0 .. n /\ k - 1 \in 0 .. n
    BY <1>1
  <2> QED
    BY <2>4, <2>5
<1>6. h[n] = g[1 .. n]
  BY <1>1
<1> HIDE DEF h
<1>7. Telling(h, base, q, n)
  BY <1>4, <1>5 DEF Telling
<1> QED
  BY <1>2, <1>6, <1>7

(* The fold of a sequence is what a telling of it ends with.               *)
LEMMA FoldIsTelling ==
    ASSUME NEW S, NEW base, NEW q \in Seq(S), NEW f, Telling(f, base, q, Len(q))
    PROVE  Folded(base, q) = f[Len(q)]
BY FoldIsTold, TellingsAgree, LenProperties

(* To fold nothing changes nothing.                                        *)
LEMMA FoldOfNone ==
    ASSUME NEW base
    PROVE  Folded(base, <<>>) = base
<1> DEFINE q == <<>>
           f == [k \in 0 .. 0 |-> base]
<1>1. q \in Seq({}) /\ Len(q) = 0
  BY EmptySeq
<1>2. Telling(f, base, q, Len(q)) /\ f[0] = base
  BY <1>1 DEF Telling
<1> HIDE DEF f, q
<1>3. Folded(base, q) = base
  BY <1>1, <1>2, FoldIsTelling
<1> QED
  BY <1>3 DEF q

(* One more element is applied after all the others,                       *)
LEMMA FoldOfAppended ==
    ASSUME NEW S, NEW base, NEW q \in Seq(S), NEW e \in S
    PROVE  Folded(base, Append(q, e)) = Op(Folded(base, q), e)
<1>1. PICK f : Telling(f, base, q, Len(q)) /\ Folded(base, q) = f[Len(q)]
  BY FoldIsTold
<1> DEFINE n == Len(q)
           r == Append(q, e)
           g == [k \in 0 .. n + 1 |-> IF k <= n THEN f[k] ELSE Op(f[n], e)]
<1>2. /\ n \in Nat /\ r \in Seq(S) /\ Len(r) = n + 1 /\ r[n + 1] = e
      /\ \A k \in 1 .. n : r[k] = q[k]
  BY LenProperties, AppendProperties
<1>3. g[0] = base
  BY <1>1, <1>2 DEF Telling
<1>4. ASSUME NEW k \in 1 .. n + 1 PROVE g[k] = Op(g[k - 1], r[k])
  <2> HIDE DEF r
  <2>1. CASE k = n + 1
    BY <1>2, <2>1
  <2>2. CASE k # n + 1
    <3>1. k \in 1 .. n /\ k - 1 \in 0 .. n
      BY <1>2, <2>2
    <3>2. f[k] = Op(f[k - 1], q[k])
      BY <1>1, <3>1 DEF Telling
    <3> QED
      BY <1>2, <3>1, <3>2
  <2> QED
    BY <2>1, <2>2
<1>5. g[n + 1] = Op(f[n], e)
  BY <1>2
<1> HIDE DEF g, r, n
<1>6. Telling(g, base, r, n + 1)
  BY <1>3, <1>4 DEF Telling
<1>7. Folded(base, r) = g[n + 1]
  BY <1>2, <1>6, FoldIsTelling
<1> QED
  BY <1>1, <1>5, <1>7 DEF r, n

(* and the first one before them.                                          *)
LEMMA FoldOfTail ==
    ASSUME NEW S, NEW base, NEW q \in Seq(S), q # <<>>
    PROVE  Folded(Op(base, Head(q)), Tail(q)) = Folded(base, q)
<1>1. PICK f : Telling(f, base, q, Len(q)) /\ Folded(base, q) = f[Len(q)]
  BY FoldIsTold
<1> DEFINE n == Len(q)
           r == Tail(q)
           g == [k \in 0 .. n - 1 |-> f[k + 1]]
<1>2. /\ n \in Nat \ {0} /\ r \in Seq(S) /\ Len(r) = n - 1 /\ Head(q) = q[1]
      /\ \A k \in 1 .. n - 1 : r[k] = q[k + 1]
  BY EmptySeq, LenProperties, HeadTailProperties
<1> HIDE DEF r
<1>3. \A k \in 1 .. n : f[k] = Op(f[k - 1], q[k])
  BY <1>1 DEF Telling
<1>4. g[0] = Op(base, Head(q))
  <2>1. 1 \in 1 .. n /\ 1 - 1 = 0 /\ f[0] = base /\ g[0] = f[1]
    BY <1>1, <1>2 DEF Telling
  <2>2. f[1] = Op(f[1 - 1], q[1])
    BY <1>3, <2>1
  <2> QED
    BY <1>2, <2>1, <2>2
<1>5. ASSUME NEW k \in 1 .. n - 1 PROVE g[k] = Op(g[k - 1], r[k])
  <2>1. /\ k + 1 \in 1 .. n /\ (k + 1) - 1 = k /\ k \in 0 .. n - 1
        /\ k - 1 \in 0 .. n - 1 /\ (k - 1) + 1 = k
    BY <1>2
  <2>2. f[k + 1] = Op(f[(k + 1) - 1], q[k + 1])
    BY <1>3, <2>1
  <2> QED
    BY <1>2, <2>1, <2>2
<1>6. g[n - 1] = f[n]
  BY <1>2
<1> HIDE DEF g, n
<1>7. Telling(g, Op(base, Head(q)), r, Len(r))
  BY <1>2, <1>4, <1>5 DEF Telling
<1>8. Folded(Op(base, Head(q)), r) = g[n - 1]
  BY <1>2, <1>7, FoldIsTelling
<1> QED
  BY <1>1, <1>6, <1>8 DEF r, n

(* The fold stays within a set that the operator does not leave.           *)
LEMMA FoldStaysWithin ==
    ASSUME NEW S, NEW T, NEW base \in T, NEW q \in Seq(S),
           \A x \in T : \A e \in S : Op(x, e) \in T
    PROVE  Folded(base, q) \in T
<1>1. PICK f : Telling(f, base, q, Len(q)) /\ Folded(base, q) = f[Len(q)]
  BY FoldIsTold
<1> DEFINE U == {k \in Nat : k <= Len(q) => f[k] \in T}
<1>2. 0 \in U
  BY <1>1 DEF Telling
<1>3. ASSUME NEW k \in U PROVE k + 1 \in U
  <2> SUFFICES ASSUME k + 1 <= Len(q) PROVE f[k + 1] \in T
    OBVIOUS
  <2>1. k + 1 \in 1 .. Len(q) /\ (k + 1) - 1 = k /\ f[k] \in T
    BY LenProperties
  <2>2. q[k + 1] \in S
    BY <2>1, ElementOfSeq
  <2> QED
    BY <1>1, <2>1, <2>2 DEF Telling
<1>4. U = Nat
  <2> HIDE DEF U
  <2> QED
    BY <1>2, <1>3, InductiveSet DEF U
<1>5. Len(q) \in Nat
  BY LenProperties
<1> QED
  BY <1>1, <1>4, <1>5
=============================================================================
