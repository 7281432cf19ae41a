----------------------- MODULE MediaWrapperListProofs -----------------------
(***************************************************************************)
(* What the operators of MediaWrapperList return: sequences of the same    *)
(* elements whose length changes by one, or not at all, in which each item *)
(* is where the service looks for it.  And one fact about numbers: a set   *)
(* of positions has a last one.                                            *)
(***************************************************************************)
EXTENDS MediaWrapperList, SequenceTheorems, WellFoundedInduction, TLAPS

(* Concatenation keeps the type and adds the lengths (from SequenceTheorems). *)
LEMMA ConcatType ==
    ASSUME NEW S, NEW f \in Seq(S), NEW g \in Seq(S)
    PROVE  f \o g \in Seq(S) /\ Len(f \o g) = Len(f) + Len(g)
BY ConcatProperties

(* The first i elements of a sequence. *)
LEMMA PrefixType ==
    ASSUME NEW S, NEW f \in Seq(S), NEW i \in 0 .. Len(f)
    PROVE  SubSeq(f, 1, i) \in Seq(S) /\ Len(SubSeq(f, 1, i)) = i
BY SubSeqProperties, LenProperties, ElementOfSeq

(* The elements of a sequence from position i on. *)
LEMMA SuffixType ==
    ASSUME NEW S, NEW f \in Seq(S), NEW i \in 1 .. Len(f) + 1
    PROVE  SubSeq(f, i, Len(f)) \in Seq(S) /\ Len(SubSeq(f, i, Len(f))) = Len(f) + 1 - i
BY SubSeqProperties, LenProperties, ElementOfSeq

(* MediaWrapperList.insert makes the list one longer. *)
LEMMA InsertType ==
    ASSUME NEW S, NEW f \in Seq(S), NEW i \in 0 .. Len(f), NEW m \in S
    PROVE  Insert(f, i, m) \in Seq(S) /\ Len(Insert(f, i, m)) = Len(f) + 1
<1> DEFINE front == SubSeq(f, 1, i)
           back  == SubSeq(f, i + 1, Len(f))
<1>1. front \in Seq(S) /\ Len(front) = i
  BY PrefixType
<1>2. back \in Seq(S) /\ Len(back) = Len(f) - i
  BY SuffixType, LenProperties
<1>3. <<m>> \in Seq(S) /\ Len(<<m>>) = 1
  OBVIOUS
<1>4. (i + 1) - 1 = i
  OBVIOUS
<1>5. Insert(f, i, m) = front \o <<m>> \o back
  BY <1>4, Zenon DEF Insert, InsertAt
<1> HIDE DEF front, back
<1>6. front \o <<m>> \in Seq(S) /\ Len(front \o <<m>>) = i + 1
  BY <1>1, <1>3, ConcatType
<1>7. \E head \in Seq(S) : Len(head) = i + 1 /\ Insert(f, i, m) = head \o back
  BY <1>5, <1>6, Zenon
<1>8. PICK head \in Seq(S) : Len(head) = i + 1 /\ Insert(f, i, m) = head \o back
  BY <1>7
<1>9. Insert(f, i, m) \in Seq(S) /\ Len(Insert(f, i, m)) = Len(head) + Len(back)
  BY <1>2, <1>8, ConcatType, Zenon
<1>10. Len(f) \in Nat
  BY LenProperties
<1> QED
  BY <1>2, <1>8, <1>9, <1>10

(* MediaWrapperList.remove(int) makes the list one shorter. *)
LEMMA DeleteType ==
    ASSUME NEW S, NEW f \in Seq(S), NEW i \in 0 .. Len(f) - 1
    PROVE  Delete(f, i) \in Seq(S) /\ Len(Delete(f, i)) = Len(f) - 1
<1> DEFINE front == SubSeq(f, 1, i)
           back  == SubSeq(f, i + 2, Len(f))
<1>1. front \in Seq(S) /\ Len(front) = i
  BY PrefixType, LenProperties
<1>2. back \in Seq(S) /\ Len(back) = Len(f) - i - 1
  BY SuffixType, LenProperties
<1>3. (i + 1) - 1 = i /\ (i + 1) + 1 = i + 2
  OBVIOUS
<1>4. Delete(f, i) = front \o back
  BY <1>3, Zenon DEF Delete, RemoveAt
<1> HIDE DEF front, back
<1>5. Delete(f, i) \in Seq(S) /\ Len(Delete(f, i)) = Len(front) + Len(back)
  BY <1>1, <1>2, <1>4, ConcatType, Zenon
<1> QED
  BY <1>1, <1>2, <1>5, LenProperties

(* A non-empty set of positions has a greatest element: the top valid entry *)
(* of the stack of played positions exists.                                *)
LEMMA LastOne ==
    ASSUME NEW n \in Nat, NEW T \in SUBSET (1 .. n), T # {}
    PROVE  \E k \in T : \A j \in T : j <= k
<1> DEFINE U == {n - k : k \in T}
<1>a. \A k \in T : n - k \in Nat
  OBVIOUS
<1>b. U \subseteq Nat
  BY <1>a, Zenon
<1>c. U # {}
  BY Zenon
<1>1. U \in SUBSET Nat /\ U # {}
  BY <1>b, <1>c, Zenon
<1> HIDE DEF U
<1>2. \E u \in U : \A w \in U : ~(<<w, u>> \in OpToRel(<, Nat))
  BY <1>1, NatLessThanWellFounded, WFMin, Zenon
<1>3. \A w, u \in Nat : w < u => <<w, u>> \in OpToRel(<, Nat)
  BY Zenon DEF OpToRel
<1>4. PICK u \in U : \A w \in U : ~(w < u)
  BY <1>1, <1>2, <1>3, Zenon
<1>5. (\E k \in T : u = n - k) /\ (\A j \in T : n - j \in U)
  BY <1>4 DEF U
<1> QED
  BY <1>4, <1>5

(* MediaWrapperList.move keeps the length of the list. *)
LEMMA MoveType ==
    ASSUME NEW S, NEW f \in Seq(S), NEW i \in 0 .. Len(f) - 1, NEW j \in 0 .. Len(f)
    PROVE  Move(f, i, j) \in Seq(S) /\ Len(Move(f, i, j)) = Len(f)
<1> DEFINE g == Delete(f, i)
           k == IF i >= j THEN j ELSE j - 1
<1>1. g \in Seq(S) /\ Len(g) = Len(f) - 1
  BY DeleteType
<1>2. Item(f, i) \in S
  BY DEF Item
<1>0. Len(f) \in Nat
  BY LenProperties
<1>3. k \in 0 .. Len(f) - 1
  BY <1>0
<1>4. Move(f, i, j) = Insert(g, k, Item(f, i))
  BY Zenon DEF Move
<1> HIDE DEF g, k
<1>6. k \in 0 .. Len(g)
  BY <1>0, <1>1, <1>3
<1>5. Insert(g, k, Item(f, i)) \in Seq(S) /\ Len(Insert(g, k, Item(f, i))) = Len(g) + 1
  BY <1>1, <1>2, <1>6, InsertType, Zenon
<1> QED
  BY <1>0, <1>1, <1>4, <1>5

-----------------------------------------------------------------------------
(* Where the items are afterwards *)

(* The items of a concatenation are those of its two parts. *)
LEMMA ConcatItem ==
    ASSUME NEW S, NEW f \in Seq(S), NEW g \in Seq(S), NEW k \in 0 .. Len(f) + Len(g) - 1
    PROVE  Item(f \o g, k) = IF k < Len(f) THEN Item(f, k) ELSE Item(g, k - Len(f))
BY ConcatProperties, LenProperties DEF Item

(* The items before position i, and those from it on. *)
LEMMA PartItem ==
    ASSUME NEW S, NEW f \in Seq(S), NEW i \in 0 .. Len(f)
    PROVE  /\ \A k \in 0 .. i - 1 : Item(SubSeq(f, 1, i), k) = Item(f, k)
           /\ \A k \in 0 .. Len(f) - i - 1 : Item(SubSeq(f, i + 1, Len(f)), k) = Item(f, i + k)
BY SubSeqProperties, LenProperties DEF Item

(* insert moves the items from the position on one further. *)
LEMMA InsertItem ==
    ASSUME NEW S, NEW f \in Seq(S), NEW i \in 0 .. Len(f), NEW m \in S
    PROVE  /\ \A k \in 0 .. i - 1 : Item(Insert(f, i, m), k) = Item(f, k)
           /\ Item(Insert(f, i, m), i) = m
           /\ \A k \in i .. Len(f) - 1 : Item(Insert(f, i, m), k + 1) = Item(f, k)
<1> DEFINE front == SubSeq(f, 1, i)
           back  == SubSeq(f, i + 1, Len(f))
           one   == <<m>>
           head  == front \o one
<1>1. Len(f) \in Nat
  BY LenProperties
<1>2. /\ front \in Seq(S) /\ Len(front) = i
      /\ \A k \in 0 .. i - 1 : Item(front, k) = Item(f, k)
  BY PrefixType, PartItem
<1>3. /\ back \in Seq(S) /\ Len(back) = Len(f) - i
      /\ \A k \in 0 .. Len(f) - i - 1 : Item(back, k) = Item(f, i + k)
  BY <1>1, SuffixType, PartItem
<1>4. one \in Seq(S) /\ Len(one) = 1 /\ Item(one, 0) = m
  BY DEF Item
<1>5. Insert(f, i, m) = head \o back
  <2>1. (i + 1) - 1 = i
    OBVIOUS
  <2> QED
    BY <2>1, Zenon DEF Insert, InsertAt
<1> HIDE DEF front, back, one
<1>6. head \in Seq(S) /\ Len(head) = i + 1
  BY <1>2, <1>4, ConcatType
<1>7. \A k \in 0 .. i - 1 : Item(head, k) = Item(f, k)
  BY <1>1, <1>2, <1>4, ConcatItem
<1>8. Item(head, i) = m
  <2>1. i \in 0 .. Len(front) + Len(one) - 1 /\ ~(i < Len(front)) /\ i - Len(front) = 0
    BY <1>1, <1>2, <1>4
  <2>2. Item(head, i) = Item(one, i - Len(front))
    BY <1>2, <1>4, <2>1, ConcatItem
  <2> QED
    BY <1>4, <2>1, <2>2
<1> HIDE DEF head
<1>9. ASSUME NEW k \in 0 .. i
      PROVE  Item(head \o back, k) = Item(head, k)
  <2>1. k \in 0 .. Len(head) + Len(back) - 1 /\ k < Len(head)
    BY <1>1, <1>3, <1>6
  <2> QED
    BY <1>3, <1>6, <2>1, ConcatItem
<1>10. ASSUME NEW k \in i .. Len(f) - 1
       PROVE  Item(head \o back, k + 1) = Item(f, k)
  <2>1. /\ k + 1 \in 0 .. Len(head) + Len(back) - 1 /\ ~(k + 1 < Len(head))
        /\ (k + 1) - Len(head) = k - i
        /\ k - i \in 0 .. Len(f) - i - 1 /\ i + (k - i) = k
    BY <1>1, <1>3, <1>6
  <2>2. Item(head \o back, k + 1) = Item(back, (k + 1) - Len(head))
    BY <1>3, <1>6, <2>1, ConcatItem
  <2> QED
    BY <1>3, <2>1, <2>2
<1> QED
  BY <1>1, <1>5, <1>7, <1>8, <1>9, <1>10

(* remove moves those after the position one back. *)
LEMMA DeleteItem ==
    ASSUME NEW S, NEW f \in Seq(S), NEW i \in 0 .. Len(f) - 1
    PROVE  /\ \A k \in 0 .. i - 1 : Item(Delete(f, i), k) = Item(f, k)
           /\ \A k \in i + 1 .. Len(f) - 1 : Item(Delete(f, i), k - 1) = Item(f, k)
<1> DEFINE front == SubSeq(f, 1, i)
           back  == SubSeq(f, i + 2, Len(f))
<1>1. Len(f) \in Nat /\ i \in Nat /\ i \in 0 .. Len(f) /\ i + 1 \in 0 .. Len(f)
      /\ (i + 1) + 1 = i + 2 /\ i + 2 \in 1 .. Len(f) + 1
  BY LenProperties
<1>2. /\ front \in Seq(S) /\ Len(front) = i
      /\ \A k \in 0 .. i - 1 : Item(front, k) = Item(f, k)
  BY <1>1, PrefixType, PartItem
<1>3. /\ back \in Seq(S) /\ Len(back) = Len(f) - (i + 1)
      /\ \A k \in 0 .. Len(f) - (i + 1) - 1 : Item(back, k) = Item(f, (i + 1) + k)
  <2>1. back \in Seq(S) /\ Len(back) = Len(f) + 1 - (i + 2)
    BY <1>1, SuffixType
  <2>2. \A k \in 0 .. Len(f) - (i + 1) - 1 :
            Item(SubSeq(f, (i + 1) + 1, Len(f)), k) = Item(f, (i + 1) + k)
    BY <1>1, PartItem
  <2> QED
    BY <1>1, <2>1, <2>2
<1>4. Delete(f, i) = front \o back
  <2>1. (i + 1) - 1 = i /\ (i + 1) + 1 = i + 2
    OBVIOUS
  <2> QED
    BY <2>1, Zenon DEF Delete, RemoveAt
<1> HIDE DEF front, back
<1>5. \A k \in 0 .. i - 1 : Item(front \o back, k) = Item(f, k)
  BY <1>1, <1>2, <1>3, ConcatItem
<1>6. ASSUME NEW k \in i + 1 .. Len(f) - 1
      PROVE  Item(front \o back, k - 1) = Item(f, k)
  <2>1. Item(front \o back, k - 1) = Item(back, (k - 1) - i)
    BY <1>1, <1>2, <1>3, ConcatItem
  <2>2. (k - 1) - i \in 0 .. Len(f) - (i + 1) - 1 /\ (i + 1) + ((k - 1) - i) = k
    BY <1>1
  <2> QED
    BY <1>3, <2>1, <2>2
<1> QED
  BY <1>4, <1>5, <1>6

(* Where move leaves the item of position c: what onItemMoved of the       *)
(* service computes for the current position.                              *)
Moved(c, start, end) ==
    IF c = start THEN (IF end > start THEN end - 1 ELSE end)
    ELSE IF start > c /\ end <= c THEN c + 1
    ELSE IF start < c /\ end > c THEN c - 1
    ELSE c

(* The item is there. *)
LEMMA MoveItem ==
    ASSUME NEW S, NEW f \in Seq(S), NEW i \in 0 .. Len(f) - 1, NEW j \in 0 .. Len(f),
           NEW c \in 0 .. Len(f) - 1
    PROVE  Item(Move(f, i, j), Moved(c, i, j)) = Item(f, c)
<1> DEFINE g == Delete(f, i)
           k == IF i >= j THEN j ELSE j - 1
           m == Item(f, i)
           d == IF c < i THEN c ELSE c - 1
<1>1. Len(f) \in Nat
  BY LenProperties
<1>2. g \in Seq(S) /\ Len(g) = Len(f) - 1 /\ (c # i => Item(g, d) = Item(f, c))
  BY <1>1, DeleteType, DeleteItem
<1>3. m \in S
  BY DEF Item
<1>4. k \in 0 .. Len(f) - 1
  BY <1>1
<1>5. Move(f, i, j) = Insert(g, k, m)
  BY Zenon DEF Move
<1>6. k \in 0 .. Len(g)
  BY <1>2, <1>4
<1> HIDE DEF g, m
<1>7. CASE c = i
  <2>1. Moved(c, i, j) = k
    BY <1>1, <1>7 DEF Moved
  <2> QED
    BY <1>2, <1>3, <1>5, <1>6, <1>7, <2>1, InsertItem DEF m
<1>8. CASE c # i
  <2>1. d \in 0 .. Len(g) - 1
    BY <1>1, <1>2, <1>8
  <2>2. Moved(c, i, j) = IF d < k THEN d ELSE d + 1
    BY <1>1, <1>8 DEF Moved
  <2>3. k \in Int /\ d \in Int
    BY <1>1
  <2> HIDE DEF d, k
  <2>4. /\ d < k => d \in 0 .. k - 1
        /\ ~(d < k) => d \in k .. Len(g) - 1
    BY <1>1, <1>2, <2>1, <2>3
  <2>5. /\ d < k => Item(Insert(g, k, m), d) = Item(g, d)
        /\ ~(d < k) => Item(Insert(g, k, m), d + 1) = Item(g, d)
    <3>1. /\ \A e \in 0 .. k - 1 : Item(Insert(g, k, m), e) = Item(g, e)
          /\ \A e \in k .. Len(g) - 1 : Item(Insert(g, k, m), e + 1) = Item(g, e)
      BY <1>2, <1>3, <1>6, InsertItem
    <3> QED
      BY <2>4, <3>1, Zenon
  <2> QED
    BY <1>2, <1>5, <1>8, <2>2, <2>5
<1> QED
  BY <1>7, <1>8
=============================================================================
