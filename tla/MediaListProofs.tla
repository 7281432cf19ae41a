---------------------------- MODULE MediaListProofs ----------------------------
(***************************************************************************)
(* What is proved about MediaList, for lists of any length: the array that *)
(* the callbacks keep by shifting slots is the native list as soon as the  *)
(* last event was dispatched; nothing is delivered after the last          *)
(* release(); a callback that runs finds the native object; the events     *)
(* tell the client the list; and each reference to a media is somebody's.  *)
(*                                                                         *)
(* The invariant says how the native list differs from the array while an  *)
(* event is under way, by the insertion or the removal the event tells;    *)
(* that the events that wait lead from the client's list to the array, one *)
(* list after the other; and whom the references of a media belong to.     *)
(***************************************************************************)
EXTENDS MediaList, SequenceTheorems, FiniteSetTheorems, TLAPS

Fold == INSTANCE FoldProofs WITH Op <- Replayed

Slots == Media \cup {None}

-----------------------------------------------------------------------------
(* Slices of a sequence *)

(* The elements of a slice, which may be empty.                            *)
LEMMA SliceElements ==
    ASSUME NEW S, NEW s \in Seq(S), NEW a \in Nat \ {0}, NEW z \in Nat,
           a <= z + 1, z <= Len(s)
    PROVE  /\ SubSeq(s, a, z) \in Seq(S) /\ Len(SubSeq(s, a, z)) = z - a + 1
           /\ \A k \in 1 .. z - a + 1 : SubSeq(s, a, z)[k] = s[a + k - 1]
<1>1. \A k \in a .. z : s[k] \in S
  BY ElementOfSeq
<1> QED
  BY <1>1, SubSeqProperties

(* A slice that begins behind the end is empty, too.                       *)
LEMMA SliceIsSequence ==
    ASSUME NEW S, NEW s \in Seq(S), NEW a \in Nat \ {0}
    PROVE  SubSeq(s, a, Len(s)) \in Seq(S) /\ Len(SubSeq(s, a, Len(s))) \in Nat
<1>1. Len(s) \in Nat /\ \A k \in a .. Len(s) : s[k] \in S
  BY ElementOfSeq, LenProperties
<1>2. SubSeq(s, a, Len(s)) \in Seq(S)
  BY <1>1, SubSeqProperties
<1> QED
  BY <1>2, LenProperties

(* An element put between two sequences.                                   *)
LEMMA PutBetween ==
    ASSUME NEW S, NEW s \in Seq(S), NEW m \in S, NEW t \in Seq(S)
    PROVE  /\ s \o <<m>> \o t \in Seq(S)
           /\ Len(s \o <<m>> \o t) = Len(s) + 1 + Len(t)
           /\ \A k \in 1 .. Len(s) : (s \o <<m>> \o t)[k] = s[k]
           /\ (s \o <<m>> \o t)[Len(s) + 1] = m
           /\ \A k \in Len(s) + 2 .. Len(s) + 1 + Len(t) :
                (s \o <<m>> \o t)[k] = t[k - (Len(s) + 1)]
<1> DEFINE u == s \o <<m>>
<1>1. <<m>> \in Seq(S) /\ Len(<<m>>) = 1 /\ <<m>>[1] = m /\ Len(s) \in Nat /\ Len(t) \in Nat
  BY LenProperties
<1>2. /\ u \in Seq(S) /\ Len(u) = Len(s) + 1
      /\ \A k \in 1 .. Len(s) : u[k] = s[k]
      /\ u[Len(s) + 1] = m
  BY <1>1, ConcatProperties
<1> HIDE DEF u
<1>3. /\ u \o t \in Seq(S) /\ Len(u \o t) = Len(u) + Len(t)
      /\ \A k \in 1 .. Len(u) + Len(t) :
           (u \o t)[k] = IF k <= Len(u) THEN u[k] ELSE t[k - Len(u)]
  BY <1>2, ConcatProperties
<1>4. \A k \in Len(s) + 2 .. Len(s) + 1 + Len(t) : (u \o t)[k] = t[k - (Len(s) + 1)]
  BY <1>1, <1>2, <1>3
<1>5. (\A k \in 1 .. Len(s) : (u \o t)[k] = s[k]) /\ (u \o t)[Len(s) + 1] = m
  BY <1>1, <1>2, <1>3
<1>6. u \o t \in Seq(S) /\ Len(u \o t) = Len(s) + 1 + Len(t)
  BY <1>1, <1>2, <1>3
<1> QED
  BY <1>4, <1>5, <1>6 DEF u

(* The first elements of a concatenation are those of its first part.      *)
LEMMA SliceOfConcat ==
    ASSUME NEW S, NEW s \in Seq(S), NEW t \in Seq(S), NEW n \in Nat, n <= Len(s)
    PROVE  SubSeq(s \o t, 1, n) = SubSeq(s, 1, n)
<1>1. /\ s \o t \in Seq(S) /\ Len(s \o t) = Len(s) + Len(t)
      /\ Len(s) \in Nat /\ Len(t) \in Nat
      /\ \A k \in 1 .. n : (s \o t)[k] = s[k]
  BY ConcatProperties, LenProperties
<1>2. /\ SubSeq(s \o t, 1, n) \in Seq(S) /\ Len(SubSeq(s \o t, 1, n)) = n
      /\ \A k \in 1 .. n : SubSeq(s \o t, 1, n)[k] = (s \o t)[k]
  BY <1>1, SliceElements
<1>3. /\ SubSeq(s, 1, n) \in Seq(S) /\ Len(SubSeq(s, 1, n)) = n
      /\ \A k \in 1 .. n : SubSeq(s, 1, n)[k] = s[k]
  BY SliceElements
<1> QED
  BY <1>1, <1>2, <1>3, SeqEqual

-----------------------------------------------------------------------------
(* The shifts of slots *)

(* Two slices of the media in a list are slices of its array.              *)
LEMMA SliceOfListed ==
    ASSUME NEW slots \in Seq(Slots), NEW c \in Nat, c <= Len(slots),
           NEW a \in Nat \ {0}, NEW z \in Nat, a <= z + 1, z <= c
    PROVE  SubSeq(SubSeq(slots, 1, c), a, z) = SubSeq(slots, a, z)
<1> DEFINE q == SubSeq(slots, 1, c)
<1>1. Len(slots) \in Nat /\ z <= Len(slots)
  BY LenProperties
<1>2. /\ q \in Seq(Slots) /\ Len(q) = c
      /\ \A k \in 1 .. c : q[k] = slots[k]
  BY SliceElements
<1> HIDE DEF q
<1>3. /\ SubSeq(q, a, z) \in Seq(Slots) /\ Len(SubSeq(q, a, z)) = z - a + 1
      /\ \A k \in 1 .. z - a + 1 : SubSeq(q, a, z)[k] = q[a + k - 1]
  BY <1>2, SliceElements
<1>4. /\ SubSeq(slots, a, z) \in Seq(Slots) /\ Len(SubSeq(slots, a, z)) = z - a + 1
      /\ \A k \in 1 .. z - a + 1 : SubSeq(slots, a, z)[k] = slots[a + k - 1]
  BY <1>1, SliceElements
<1>5. ASSUME NEW k \in 1 .. z - a + 1 PROVE q[a + k - 1] = slots[a + k - 1]
  <2>1. a + k - 1 \in 1 .. c
    OBVIOUS
  <2> QED
    BY <1>2, <2>1
<1>6. SubSeq(q, a, z) = SubSeq(slots, a, z)
  BY <1>3, <1>4, <1>5, SeqEqual
<1> QED
  BY <1>6 DEF q

(* insertMediaFromEvent puts the media where the native list has it.       *)
LEMMA InsertedMirrors ==
    ASSUME NEW slots \in Seq(Slots), NEW c \in Nat, c <= Len(slots),
           NEW i \in 1 .. c + 1, NEW m \in Slots
    PROVE  /\ Inserted(slots, c + 1, i, m) \in Seq(Slots)
           /\ c + 1 <= Len(Inserted(slots, c + 1, i, m))
           /\ SubSeq(Inserted(slots, c + 1, i, m), 1, c + 1)
                = InsertAt(SubSeq(slots, 1, c), i, m)
<1> DEFINE b == IF Len(slots) < c + 1 THEN Append(slots, None) ELSE slots
           h == SubSeq(b, 1, i - 1)
           t == SubSeq(b, i, c + 1)
           rest == SubSeq(b, c + 1 + 2, Len(b))
           u == h \o <<m>> \o t
           q == SubSeq(slots, 1, c)
           v == SubSeq(q, 1, i - 1) \o <<m>> \o SubSeq(q, i, c)
<1>1. Len(slots) \in Nat /\ None \in Slots /\ i - 1 \in Nat /\ c + 1 + 2 \in Nat \ {0}
  BY LenProperties DEF Slots
<1>2. b \in Seq(Slots) /\ c + 1 <= Len(b) /\ \A k \in 1 .. c : b[k] = slots[k]
  BY <1>1
<1>3. h \in Seq(Slots) /\ Len(h) = i - 1 /\ \A k \in 1 .. i - 1 : h[k] = b[k]
  <2> HIDE DEF b
  <2> QED
    BY <1>1, <1>2, SliceElements
<1>4. /\ t \in Seq(Slots) /\ Len(t) = c + 2 - i
      /\ \A k \in 1 .. c + 2 - i : t[k] = b[i + k - 1]
  <2> HIDE DEF b
  <2> QED
    BY <1>1, <1>2, SliceElements
<1>5. rest \in Seq(Slots) /\ Len(rest) \in Nat
  <2> HIDE DEF b
  <2> QED
    BY <1>1, <1>2, SliceIsSequence
<1>6. Inserted(slots, c + 1, i, m) = u \o rest
  BY DEF Inserted, ShiftedFrom
<1>7. /\ u \in Seq(Slots) /\ Len(u) = c + 2
      /\ \A k \in 1 .. i - 1 : u[k] = b[k]
      /\ u[i] = m
      /\ \A k \in i + 1 .. c + 2 : u[k] = b[k - 1]
  <2>1. h \in Seq(Slots) /\ t \in Seq(Slots)
    BY <1>3, <1>4
  <2> HIDE DEF b, h, t
  <2>2. /\ u \in Seq(Slots) /\ Len(u) = Len(h) + 1 + Len(t)
        /\ \A k \in 1 .. Len(h) : u[k] = h[k]
        /\ u[Len(h) + 1] = m
        /\ \A k \in Len(h) + 2 .. Len(h) + 1 + Len(t) : u[k] = t[k - (Len(h) + 1)]
    BY <2>1, PutBetween
  <2> HIDE DEF u
  <2>3. Len(h) + 1 = i /\ Len(h) + 2 = i + 1 /\ Len(h) + 1 + Len(t) = c + 2
    BY <1>3, <1>4
  <2>4. ASSUME NEW k \in i + 1 .. c + 2 PROVE u[k] = b[k - 1]
    <3>1. k - i \in 1 .. c + 2 - i /\ i + (k - i) - 1 = k - 1
      OBVIOUS
    <3>2. u[k] = t[k - i]
      BY <2>2, <2>3
    <3>3. t[k - i] = b[i + (k - i) - 1]
      BY <1>4, <3>1
    <3> QED
      BY <3>1, <3>2, <3>3
  <2>5. \A k \in 1 .. i - 1 : u[k] = b[k]
    BY <1>3, <2>2
  <2> QED
    BY <2>2, <2>3, <2>4, <2>5
<1>8. /\ q \in Seq(Slots) /\ Len(q) = c
      /\ \A k \in 1 .. c : q[k] = slots[k]
  BY <1>1, SliceElements
<1>9. InsertAt(q, i, m) = v
  <2> HIDE DEF q
  <2> QED
    BY <1>8 DEF InsertAt
<1>10. /\ v \in Seq(Slots) /\ Len(v) = c + 1
       /\ \A k \in 1 .. i - 1 : v[k] = slots[k]
       /\ v[i] = m
       /\ \A k \in i + 1 .. c + 1 : v[k] = slots[k - 1]
  <2> DEFINE f == SubSeq(q, 1, i - 1)
             g == SubSeq(q, i, c)
  <2> HIDE DEF q
  <2>1. f \in Seq(Slots) /\ Len(f) = i - 1 /\ \A k \in 1 .. i - 1 : f[k] = q[k]
    BY <1>1, <1>8, SliceElements
  <2>2. /\ g \in Seq(Slots) /\ Len(g) = c + 1 - i
        /\ \A k \in 1 .. c + 1 - i : g[k] = q[i + k - 1]
    BY <1>1, <1>8, SliceElements
  <2>3. f \in Seq(Slots) /\ g \in Seq(Slots)
    BY <2>1, <2>2
  <2> DEFINE w == f \o <<m>> \o g
  <2>4. v = w
    OBVIOUS
  <2> HIDE DEF f, g, v
  <2>9. /\ w \in Seq(Slots) /\ Len(w) = Len(f) + 1 + Len(g)
        /\ \A k \in 1 .. Len(f) : w[k] = f[k]
        /\ w[Len(f) + 1] = m
        /\ \A k \in Len(f) + 2 .. Len(f) + 1 + Len(g) : w[k] = g[k - (Len(f) + 1)]
    BY <2>3, PutBetween
  <2> HIDE DEF w
  <2>5. /\ v \in Seq(Slots) /\ Len(v) = Len(f) + 1 + Len(g)
        /\ \A k \in 1 .. Len(f) : v[k] = f[k]
        /\ v[Len(f) + 1] = m
        /\ \A k \in Len(f) + 2 .. Len(f) + 1 + Len(g) : v[k] = g[k - (Len(f) + 1)]
    BY <2>4, <2>9
  <2>6. Len(f) + 1 = i /\ Len(f) + 2 = i + 1 /\ Len(f) + 1 + Len(g) = c + 1
    BY <2>1, <2>2
  <2>7. \A k \in 1 .. i - 1 : v[k] = slots[k]
    BY <1>8, <2>1, <2>5
  <2>8. ASSUME NEW k \in i + 1 .. c + 1 PROVE v[k] = slots[k - 1]
    <3>1. k - i \in 1 .. c + 1 - i /\ i + (k - i) - 1 = k - 1 /\ k - 1 \in 1 .. c
      OBVIOUS
    <3>2. v[k] = g[k - i]
      BY <2>5, <2>6
    <3>3. g[k - i] = q[i + (k - i) - 1]
      BY <2>2, <3>1
    <3> QED
      BY <1>8, <3>1, <3>2, <3>3
  <2> QED
    BY <2>5, <2>6, <2>7, <2>8
<1> HIDE DEF b, h, t, rest, u, q, v
<1>11. SubSeq(u \o rest, 1, c + 1) = SubSeq(u, 1, c + 1)
  BY <1>5, <1>7, SliceOfConcat
<1>12. /\ SubSeq(u, 1, c + 1) \in Seq(Slots) /\ Len(SubSeq(u, 1, c + 1)) = c + 1
       /\ \A k \in 1 .. c + 1 : SubSeq(u, 1, c + 1)[k] = u[k]
  BY <1>7, SliceElements
<1>13. \A k \in 1 .. c + 1 : u[k] = v[k]
  <2> SUFFICES ASSUME NEW k \in 1 .. c + 1 PROVE u[k] = v[k]
    OBVIOUS
  <2>1. CASE k < i
    BY <1>2, <1>7, <1>10, <2>1
  <2>2. CASE k = i
    BY <1>7, <1>10, <2>2
  <2>3. CASE k > i
    <3>1. k \in i + 1 .. c + 1 /\ k \in i + 1 .. c + 2 /\ k - 1 \in 1 .. c
      BY <2>3
    <3>2. u[k] = b[k - 1]
      BY <1>7, <3>1
    <3>3. v[k] = slots[k - 1]
      BY <1>10, <3>1
    <3> QED
      BY <1>2, <3>1, <3>2, <3>3
  <2> QED
    BY <2>1, <2>2, <2>3
<1>14. SubSeq(u, 1, c + 1) = v
  BY <1>10, <1>12, <1>13, SeqEqual
<1>15. u \o rest \in Seq(Slots) /\ c + 1 <= Len(u \o rest)
  <2>1. u \in Seq(Slots) /\ Len(u) = c + 2
    BY <1>7
  <2>2. u \o rest \in Seq(Slots) /\ Len(u \o rest) = Len(u) + Len(rest)
    BY <1>5, <2>1, ConcatProperties
  <2> QED
    BY <1>5, <2>1, <2>2
<1>16. InsertAt(SubSeq(slots, 1, c), i, m) = v
  BY <1>9 DEF q
<1> QED
  BY <1>6, <1>11, <1>14, <1>15, <1>16

(* removeMediaFromEvent takes out what the native list has taken out.      *)
LEMMA RemovedMirrors ==
    ASSUME NEW slots \in Seq(Slots), NEW c \in Nat, c <= Len(slots), NEW i \in 1 .. c
    PROVE  /\ Removed(slots, c - 1, i) \in Seq(Slots)
           /\ c - 1 <= Len(Removed(slots, c - 1, i))
           /\ SubSeq(Removed(slots, c - 1, i), 1, c - 1) = RemoveAt(SubSeq(slots, 1, c), i)
<1> DEFINE h == SubSeq(slots, 1, i - 1)
           t == SubSeq(slots, i + 1, c)
           rest == SubSeq(slots, c, Len(slots))
           u == h \o t
           q == SubSeq(slots, 1, c)
<1>1. Len(slots) \in Nat /\ i - 1 \in Nat /\ i + 1 \in Nat \ {0} /\ c \in Nat \ {0}
  BY LenProperties
<1>2. h \in Seq(Slots) /\ Len(h) = i - 1
  BY <1>1, SliceElements
<1>3. t \in Seq(Slots) /\ Len(t) = c - i
  BY <1>1, SliceElements
<1>4. rest \in Seq(Slots) /\ Len(rest) \in Nat
  BY <1>1, SliceIsSequence
<1>5. Removed(slots, c - 1, i) = u \o rest
  BY DEF Removed
<1>6. Len(q) = c
  BY <1>1, SliceElements
<1>7. SubSeq(q, 1, i - 1) = h /\ SubSeq(q, i + 1, c) = t
  BY <1>1, SliceOfListed
<1>8. RemoveAt(q, i) = u
  BY <1>6, <1>7 DEF RemoveAt
<1> HIDE DEF h, t, rest, q
<1>9. u \in Seq(Slots) /\ Len(u) = c - 1
  <2>1. h \o t \in Seq(Slots) /\ Len(h \o t) = Len(h) + Len(t)
    BY <1>2, <1>3, ConcatProperties
  <2> QED
    BY <1>1, <1>2, <1>3, <2>1
<1> HIDE DEF u
<1>10. SubSeq(u \o rest, 1, c - 1) = u
  <2>1. SubSeq(u \o rest, 1, c - 1) = SubSeq(u, 1, c - 1)
    BY <1>1, <1>4, <1>9, SliceOfConcat
  <2> QED
    BY <1>9, <2>1, SubSeqFull
<1>11. u \o rest \in Seq(Slots) /\ c - 1 <= Len(u \o rest)
  <2>1. u \o rest \in Seq(Slots) /\ Len(u \o rest) = Len(u) + Len(rest)
    BY <1>4, <1>9, ConcatProperties
  <2> QED
    BY <1>1, <1>4, <1>9, <2>1
<1>12. RemoveAt(SubSeq(slots, 1, c), i) = u
  BY <1>8 DEF q
<1> QED
  BY <1>5, <1>10, <1>11, <1>12

-----------------------------------------------------------------------------
(* The array and the native list *)

Notices == [kind : {"none", "added", "deleted", "end"}, at : Nat, media : Slots, sent : BOOLEAN]

ListShape ==
    /\ native \in Seq(Media) /\ array \in Seq(Slots)
    /\ count \in Nat /\ count <= Len(array)
    /\ owners \in Nat /\ change \in Notices
    /\ owners > 0 => stage = "live"

(* How the native list differs from the array while an event is under way. *)
DiffersByChange ==
    /\ change.kind \in {"none", "end"} => Listed = native
    /\ change.kind = "added" =>
         /\ change.at \in 1 .. count + 1 /\ change.media \in Media
         /\ native = InsertAt(Listed, change.at, change.media)
    /\ change.kind = "deleted" =>
         /\ change.at \in 1 .. count
         /\ native = RemoveAt(Listed, change.at)

MirrorIInv == ListShape /\ (owners > 0 => DiffersByChange)

LEMMA NoChangeType == NoChange \in Notices /\ NoChange.kind = "none"
  BY DEF NoChange, Notices, Slots

LEMMA ListedLength ==
    ASSUME ListShape
    PROVE  Listed \in Seq(Slots) /\ Len(Listed) = count
<1>1. /\ array \in Seq(Slots) /\ count \in Nat /\ count <= Len(array)
  BY DEF ListShape
<1>2. SubSeq(array, 1, count) \in Seq(Slots) /\ Len(SubSeq(array, 1, count)) = count - 1 + 1
  BY <1>1, SliceElements
<1> QED
  BY <1>1, <1>2 DEF Listed

(* The native list stays a list of media.                                  *)
LEMMA NativeInserted ==
    ASSUME NEW s \in Seq(Media), NEW i \in 1 .. Len(s) + 1, NEW m \in Media
    PROVE  InsertAt(s, i, m) \in Seq(Media)
<1>1. Len(s) \in Nat /\ i - 1 \in Nat /\ i \in Nat \ {0}
  BY LenProperties
<1>2. SubSeq(s, 1, i - 1) \in Seq(Media) /\ SubSeq(s, i, Len(s)) \in Seq(Media)
  BY <1>1, SliceElements
<1> QED
  BY <1>2, PutBetween DEF InsertAt

LEMMA NativeRemoved ==
    ASSUME NEW s \in Seq(Media), NEW i \in 1 .. Len(s)
    PROVE  RemoveAt(s, i) \in Seq(Media)
<1>1. Len(s) \in Nat /\ i - 1 \in Nat /\ i + 1 \in Nat \ {0}
  BY LenProperties
<1>2. SubSeq(s, 1, i - 1) \in Seq(Media) /\ SubSeq(s, i + 1, Len(s)) \in Seq(Media)
  BY <1>1, SliceElements
<1> QED
  BY <1>2, ConcatProperties DEF RemoveAt

LEMMA UntouchedMirror ==
    ASSUME MirrorIInv, UNCHANGED <<native, array, count, change>>,
           owners' \in Nat, owners' > 0 => owners > 0 /\ stage' = "live"
    PROVE  MirrorIInv'
BY DEF MirrorIInv, ListShape, DiffersByChange, Listed

LEMMA MirrorInit == ListInit => MirrorIInv
<1> SUFFICES ASSUME ListInit PROVE MirrorIInv
  OBVIOUS
<1>1. native \in Seq(Media) /\ native \in Seq(Slots)
  <2>1. native = <<>> \/ \E m \in Media : native = <<m>>
    BY DEF ListInit
  <2>2. <<>> \in Seq(Media)
    OBVIOUS
  <2>3. ASSUME NEW m \in Media PROVE <<m>> \in Seq(Media)
    OBVIOUS
  <2>4. native \in Seq(Media)
    BY <2>1, <2>2, <2>3
  <2> QED
    BY <2>4, SeqMonotonic DEF Slots
<1>2. array = native /\ count = Len(native) /\ change = NoChange /\ owners = 1 /\ stage = "live"
  BY DEF ListInit
<1>3. Len(native) \in Nat /\ SubSeq(native, 1, Len(native)) = native
  BY <1>1, LenProperties, SubSeqFull
<1> QED
  BY <1>1, <1>2, <1>3, NoChangeType DEF MirrorIInv, ListShape, DiffersByChange, Listed

LEMMA NativeKeepsMirror ==
    ASSUME MirrorIInv, NativeInsert \/ NativeDelete \/ NativeEnd
    PROVE  MirrorIInv'
<1> USE DEF MirrorIInv
<1>1. UNCHANGED <<array, count, owners, stage>> /\ change = NoChange /\ Listed' = Listed
  BY DEF NativeInsert, NativeDelete, NativeEnd, MayChange, Listed
<1>2. owners > 0 => Listed = native /\ Len(native) = count
  BY <1>1, NoChangeType, ListedLength DEF DiffersByChange
<1>3. CASE NativeInsert
  <2>1. PICK m \in Media, i \in 1 .. Len(native) + 1 :
          native' = InsertAt(native, i, m) /\ Changed("added", i, m)
    BY <1>3 DEF NativeInsert
  <2>2. native \in Seq(Media) /\ Len(native) \in Nat
    BY LenProperties DEF ListShape
  <2>3. native' \in Seq(Media)
    BY <2>1, <2>2, NativeInserted
  <2>4. change' \in Notices /\ change'.kind = "added" /\ change'.at = i /\ change'.media = m
    BY <2>1, <2>2 DEF Changed, Notices, Slots
  <2> QED
    BY <1>1, <1>2, <2>1, <2>3, <2>4 DEF ListShape, DiffersByChange
<1>4. CASE NativeDelete
  <2>1. PICK i \in DOMAIN native :
          native' = RemoveAt(native, i) /\ Changed("deleted", i, native[i])
    BY <1>4 DEF NativeDelete
  <2>2. native \in Seq(Media) /\ i \in 1 .. Len(native) /\ i \in Nat /\ native[i] \in Media
    BY <2>1, LenProperties, ElementOfSeq DEF ListShape
  <2>3. native' \in Seq(Media)
    BY <2>1, <2>2, NativeRemoved
  <2>4. change' \in Notices /\ change'.kind = "deleted" /\ change'.at = i
    BY <2>1, <2>2 DEF Changed, Notices, Slots
  <2> QED
    BY <1>1, <1>2, <2>1, <2>2, <2>3, <2>4 DEF ListShape, DiffersByChange
<1>5. CASE NativeEnd
  <2>1. native' = native /\ Changed("end", 0, None)
    BY <1>5 DEF NativeEnd
  <2>2. change' \in Notices /\ change'.kind = "end"
    BY <2>1 DEF Changed, Notices, Slots
  <2> QED
    BY <1>1, <1>2, <2>1, <2>2 DEF ListShape, DiffersByChange
<1> QED
  BY <1>3, <1>4, <1>5

LEMMA DispatchKeepsMirror ==
    ASSUME MirrorIInv, SendEvent \/ Dispatch
    PROVE  MirrorIInv'
<1> USE DEF MirrorIInv
<1>1. CASE SendEvent
  <2>1. UNCHANGED <<native, array, count, owners, stage>>
    BY <1>1 DEF SendEvent
  <2>2. CASE change' = [change EXCEPT !.sent = TRUE]
    <3>1. /\ change' \in Notices /\ change'.kind = change.kind
          /\ change'.at = change.at /\ change'.media = change.media
      BY <2>2 DEF ListShape, Notices
    <3> QED
      BY <2>1, <3>1 DEF ListShape, DiffersByChange, Listed
  <2>3. CASE owners = 0 /\ change' = NoChange
    BY <2>1, <2>3, NoChangeType DEF ListShape
  <2> QED
    BY <1>1, <2>2, <2>3 DEF SendEvent, ListShape
<1>2. CASE DispatchAdded
  <2>1. /\ owners > 0 /\ change.kind = "added" /\ count' = count + 1
        /\ array' = Inserted(array, count', change.at, change.media)
        /\ change' = NoChange /\ UNCHANGED <<native, owners, stage>>
    BY <1>2 DEF DispatchAdded
  <2>2. /\ change.at \in 1 .. count + 1 /\ change.media \in Slots
        /\ native = InsertAt(Listed, change.at, change.media)
    BY <2>1 DEF DiffersByChange, Slots
  <2>3. array \in Seq(Slots) /\ count \in Nat /\ count <= Len(array)
    BY DEF ListShape
  <2>4. /\ array' \in Seq(Slots) /\ count + 1 <= Len(array')
        /\ SubSeq(array', 1, count + 1) = InsertAt(SubSeq(array, 1, count), change.at, change.media)
    BY <2>1, <2>2, <2>3, InsertedMirrors
  <2> QED
    BY <2>1, <2>2, <2>3, <2>4, NoChangeType DEF ListShape, DiffersByChange, Listed
<1>3. CASE DispatchDeleted
  <2>1. /\ owners > 0 /\ change.kind = "deleted" /\ count' = count - 1
        /\ array' = Removed(array, count', change.at)
        /\ change' = NoChange /\ UNCHANGED <<native, owners, stage>>
    BY <1>3 DEF DispatchDeleted
  <2>2. change.at \in 1 .. count /\ native = RemoveAt(Listed, change.at)
    BY <2>1 DEF DiffersByChange
  <2>3. /\ array \in Seq(Slots) /\ count \in Nat /\ count <= Len(array)
        /\ count - 1 \in Nat
    BY <2>2 DEF ListShape
  <2>4. /\ array' \in Seq(Slots) /\ count - 1 <= Len(array')
        /\ SubSeq(array', 1, count - 1) = RemoveAt(SubSeq(array, 1, count), change.at)
    BY <2>1, <2>2, <2>3, RemovedMirrors
  <2> QED
    BY <2>1, <2>2, <2>3, <2>4, NoChangeType DEF ListShape, DiffersByChange, Listed
<1>4. CASE DispatchEnd
  <2>1. /\ owners > 0 /\ change.kind = "end" /\ change' = NoChange
        /\ UNCHANGED <<native, array, count, owners, stage>>
    BY <1>4 DEF DispatchEnd
  <2> QED
    BY <2>1, NoChangeType DEF ListShape, DiffersByChange, Listed
<1>5. CASE DispatchNothing
  <2>1. owners = 0 /\ change' = NoChange /\ UNCHANGED <<native, array, count, owners, stage>>
    BY <1>5 DEF DispatchNothing
  <2> QED
    BY <2>1, NoChangeType DEF ListShape
<1> QED
  BY <1>1, <1>2, <1>3, <1>4, <1>5 DEF Dispatch

LEMMA ClientKeepsMirror ==
    ASSUME MirrorIInv,
           OnEvent \/ GetMediaAt \/ ReleaseMedia \/ RetainList \/ ReleaseList \/ ReleaseStep
    PROVE  MirrorIInv'
<1>1. UNCHANGED <<native, array, count, change>>
  BY DEF OnEvent, GetMediaAt, ReleaseMedia, RetainList, ReleaseList, ReleaseStep, Detach,
         FreeNative
<1>2. owners \in Nat /\ (owners > 0 => stage = "live")
  BY DEF MirrorIInv, ListShape
<1>3. CASE OnEvent \/ GetMediaAt \/ ReleaseMedia
  <2>1. owners' = owners /\ stage' = stage
    BY <1>3 DEF OnEvent, GetMediaAt, ReleaseMedia
  <2> QED
    BY <1>1, <1>2, <2>1, UntouchedMirror
<1>4. CASE RetainList
  <2>1. owners > 0 /\ owners' = owners + 1 /\ stage' = stage
    BY <1>4 DEF RetainList
  <2> QED
    BY <1>1, <1>2, <2>1, UntouchedMirror
<1>5. CASE ReleaseList
  <2>1. /\ owners > 0 /\ owners' = owners - 1
        /\ stage' = IF owners' = 0 THEN "cleared" ELSE "live"
    BY <1>5 DEF ReleaseList
  <2> QED
    BY <1>1, <1>2, <2>1, UntouchedMirror
<1>6. CASE ReleaseStep
  <2>1. owners' = owners /\ stage \in {"cleared", "detached"}
    BY <1>6 DEF ReleaseStep, Detach, FreeNative
  <2> QED
    BY <1>1, <1>2, <2>1, UntouchedMirror
<1> QED
  BY <1>3, <1>4, <1>5, <1>6

LEMMA MirrorStep == MirrorIInv /\ [ListNext]_listVars => MirrorIInv'
<1> SUFFICES ASSUME MirrorIInv, [ListNext]_listVars PROVE MirrorIInv'
  OBVIOUS
<1>1. CASE UNCHANGED listVars
  <2>1. owners' = owners /\ stage' = stage /\ UNCHANGED <<native, array, count, change>>
    BY <1>1 DEF listVars
  <2> QED
    BY <2>1, UntouchedMirror DEF MirrorIInv, ListShape
<1> QED
  BY <1>1, NativeKeepsMirror, DispatchKeepsMirror, ClientKeepsMirror
     DEF ListNext, NativeStep

(* Whatever the native thread inserts and deletes, and whoever holds the   *)
(* list meanwhile: the array from which getMediaAt and getCount answer is  *)
(* the native list as soon as the event of the last change was handled.    *)
THEOREM CacheIsTheList == ListSpec => []CacheMirrorsList
<1>1. MirrorIInv => CacheMirrorsList
  BY NoChangeType DEF MirrorIInv, DiffersByChange, CacheMirrorsList
<1> QED
  BY <1>1, MirrorInit, MirrorStep, PTL DEF ListSpec

-----------------------------------------------------------------------------
(* The end of the list *)

CallbackWhileAttached ==
    /\ stage \in Stages /\ change.sent \in BOOLEAN
    /\ owners \in Nat /\ (owners > 0 => stage = "live")
    /\ change.sent => stage \in {"live", "cleared"}

ReleaseIInv == CallbackWhileAttached /\ QuietAfterRelease

LEMMA ReleaseKeepsQuiet ==
    ReleaseIInv /\ MirrorIInv /\ [ListNext]_listVars => ReleaseIInv'
<1> SUFFICES ASSUME ReleaseIInv, MirrorIInv, [ListNext]_listVars PROVE ReleaseIInv'
  OBVIOUS
<1> USE DEF ReleaseIInv, CallbackWhileAttached, QuietAfterRelease, Stages
<1>1. CASE NativeInsert \/ NativeDelete \/ NativeEnd
  <2>1. change'.sent = FALSE /\ UNCHANGED <<owners, stage, queue>>
    BY <1>1 DEF NativeInsert, NativeDelete, NativeEnd, Changed
  <2> QED
    BY <2>1
<1>2. CASE SendEvent
  <2>1. UNCHANGED <<owners, stage, queue>>
    BY <1>2 DEF SendEvent
  <2>2. CASE stage \in {"live", "cleared"} /\ change' = [change EXCEPT !.sent = TRUE]
    <3>1. change'.sent = TRUE
      BY <2>2 DEF MirrorIInv, ListShape, Notices
    <3> QED
      BY <2>1, <2>2, <3>1
  <2>3. CASE change' = NoChange
    BY <2>1, <2>3 DEF NoChange
  <2> QED
    BY <1>2, <2>2, <2>3 DEF SendEvent
<1>3. CASE Dispatch
  <2>1. change' = NoChange /\ UNCHANGED <<owners, stage>>
    BY <1>3 DEF Dispatch, DispatchAdded, DispatchDeleted, DispatchEnd, DispatchNothing
  <2>2. owners = 0 => queue' = queue
    BY <1>3 DEF Dispatch, DispatchAdded, DispatchDeleted, DispatchEnd, DispatchNothing
  <2> QED
    BY <2>1, <2>2 DEF NoChange
<1>4. CASE OnEvent
  BY <1>4 DEF OnEvent
<1>5. CASE GetMediaAt \/ ReleaseMedia
  BY <1>5 DEF GetMediaAt, ReleaseMedia
<1>6. CASE RetainList
  BY <1>6 DEF RetainList
<1>7. CASE ReleaseList
  BY <1>7 DEF ReleaseList
<1>8. CASE ReleaseStep
  BY <1>8 DEF ReleaseStep, Detach, FreeNative
<1>9. CASE UNCHANGED listVars
  BY <1>9 DEF listVars
<1> QED
  BY <1>1, <1>2, <1>3, <1>4, <1>5, <1>6, <1>7, <1>8, <1>9 DEF ListNext, NativeStep

LEMMA ReleaseInit == ListInit => ReleaseIInv
<1> SUFFICES ASSUME ListInit PROVE ReleaseIInv
  OBVIOUS
<1>1. owners = 1 /\ stage = "live"
  BY DEF ListInit
<1>2. ~change.sent /\ (change.sent \in BOOLEAN)
  BY DEF ListInit, NoChange
<1> QED
  BY <1>1, <1>2 DEF ReleaseIInv, CallbackWhileAttached, QuietAfterRelease, Stages

(* release() forgets the listener and the waiting messages in the monitor, *)
(* where the callbacks test for it: no event is delivered afterwards.      *)
THEOREM NothingAfterRelease == ListSpec => []QuietAfterRelease
<1>1. ReleaseIInv => QuietAfterRelease
  BY DEF ReleaseIInv
<1> QED
  BY <1>1, MirrorInit, MirrorStep, ReleaseInit, ReleaseKeepsQuiet, PTL DEF ListSpec

(* The callbacks are detached before the native object is freed, and the   *)
(* detaching waits for the one that runs: it finds the object.             *)
THEOREM CallbackFindsObject == ListSpec => []CallbackHasObject
<1>1. ReleaseIInv => CallbackHasObject
  BY DEF ReleaseIInv, CallbackWhileAttached, CallbackHasObject
<1> QED
  BY <1>1, MirrorInit, MirrorStep, ReleaseInit, ReleaseKeepsQuiet, PTL DEF ListSpec

-----------------------------------------------------------------------------
(* Lists without repetition *)

Distinct(s) == \A i, j \in 1 .. Len(s) : s[i] = s[j] => i = j

(* One more element.                                                       *)
LEMMA InsertedElements ==
    ASSUME NEW S, NEW s \in Seq(S), NEW i \in 1 .. Len(s) + 1, NEW m \in S
    PROVE  /\ InsertAt(s, i, m) \in Seq(S)
           /\ ToSet(InsertAt(s, i, m)) = ToSet(s) \cup {m}
           /\ Distinct(s) /\ m \notin ToSet(s) => Distinct(InsertAt(s, i, m))
<1> DEFINE u == InsertAt(s, i, m)
           h == SubSeq(s, 1, i - 1)
           t == SubSeq(s, i, Len(s))
<1>1. Len(s) \in Nat /\ i - 1 \in Nat /\ i \in Nat \ {0} /\ DOMAIN s = 1 .. Len(s)
  BY LenProperties
<1>2. h \in Seq(S) /\ Len(h) = i - 1 /\ \A k \in 1 .. i - 1 : h[k] = s[k]
  BY <1>1, SliceElements
<1>3. /\ t \in Seq(S) /\ Len(t) = Len(s) + 1 - i
      /\ \A k \in 1 .. Len(s) + 1 - i : t[k] = s[i + k - 1]
  BY <1>1, SliceElements
<1>4. u = h \o <<m>> \o t
  BY DEF InsertAt
<1> HIDE DEF h, t, u
<1>5. /\ u \in Seq(S) /\ Len(u) = Len(h) + 1 + Len(t)
      /\ \A k \in 1 .. Len(h) : u[k] = h[k]
      /\ u[Len(h) + 1] = m
      /\ \A k \in Len(h) + 2 .. Len(h) + 1 + Len(t) : u[k] = t[k - (Len(h) + 1)]
  <2>1. h \in Seq(S) /\ t \in Seq(S)
    BY <1>2, <1>3
  <2> DEFINE w == h \o <<m>> \o t
  <2>2. /\ w \in Seq(S) /\ Len(w) = Len(h) + 1 + Len(t)
        /\ \A k \in 1 .. Len(h) : w[k] = h[k]
        /\ w[Len(h) + 1] = m
        /\ \A k \in Len(h) + 2 .. Len(h) + 1 + Len(t) : w[k] = t[k - (Len(h) + 1)]
    BY <2>1, PutBetween
  <2>3. u = w
    BY <1>4
  <2> HIDE DEF w
  <2> QED
    BY <2>2, <2>3
<1>6. Len(u) = Len(s) + 1 /\ DOMAIN u = 1 .. Len(s) + 1
  BY <1>1, <1>2, <1>3, <1>5, LenProperties
<1>7. u[i] = m /\ \A k \in 1 .. i - 1 : u[k] = s[k]
  BY <1>1, <1>2, <1>5
<1>8. ASSUME NEW k \in i + 1 .. Len(s) + 1 PROVE u[k] = s[k - 1]
  <2>1. /\ k - i \in 1 .. Len(s) + 1 - i /\ i + (k - i) - 1 = k - 1
        /\ k \in Len(h) + 2 .. Len(h) + 1 + Len(t) /\ k - (Len(h) + 1) = k - i
    BY <1>1, <1>2, <1>3
  <2>2. u[k] = t[k - i]
    BY <1>5, <2>1
  <2>3. t[k - i] = s[i + (k - i) - 1]
    BY <1>3, <2>1
  <2> QED
    BY <2>1, <2>2, <2>3
<1>9. ToSet(u) = ToSet(s) \cup {m}
  <2>1. ASSUME NEW k \in 1 .. Len(s) + 1 PROVE u[k] \in ToSet(s) \cup {m}
    <3>1. CASE k < i
      <4>1. k \in 1 .. i - 1 /\ k \in DOMAIN s
        BY <1>1, <3>1
      <4> QED
        BY <1>7, <4>1 DEF ToSet
    <3>2. CASE k = i
      BY <1>7, <3>2
    <3>3. CASE k > i
      <4>1. k \in i + 1 .. Len(s) + 1 /\ k - 1 \in DOMAIN s
        BY <1>1, <3>3
      <4> QED
        BY <1>8, <4>1 DEF ToSet
    <3> QED
      BY <1>1, <3>1, <3>2, <3>3
  <2>2. ASSUME NEW k \in 1 .. Len(s) PROVE s[k] \in ToSet(u)
    <3>1. CASE k < i
      <4>1. k \in 1 .. i - 1 /\ k \in DOMAIN u
        BY <1>1, <1>6, <3>1
      <4> QED
        BY <1>7, <4>1 DEF ToSet
    <3>2. CASE k >= i
      <4>1. k + 1 \in i + 1 .. Len(s) + 1 /\ k + 1 \in DOMAIN u /\ (k + 1) - 1 = k
        BY <1>1, <1>6, <3>2
      <4> QED
        BY <1>8, <4>1 DEF ToSet
    <3> QED
      BY <1>1, <3>1, <3>2
  <2>3. m \in ToSet(u)
    BY <1>1, <1>6, <1>7 DEF ToSet
  <2> QED
    BY <1>1, <1>6, <2>1, <2>2, <2>3 DEF ToSet
<1>10. ASSUME Distinct(s), m \notin ToSet(s) PROVE Distinct(u)
  <2> DEFINE Back(k) == IF k < i THEN k ELSE k - 1
  <2>1. ASSUME NEW k \in 1 .. Len(s) + 1, k # i
        PROVE  Back(k) \in 1 .. Len(s) /\ u[k] = s[Back(k)] /\ u[k] # m
    <3>1. Back(k) \in 1 .. Len(s)
      BY <1>1, <2>1
    <3>2. u[k] = s[Back(k)]
      <4>1. k \in 1 .. i - 1 \/ k \in i + 1 .. Len(s) + 1
        BY <1>1, <2>1
      <4> QED
        BY <1>1, <1>7, <1>8, <4>1
    <3> QED
      BY <1>1, <1>10, <3>1, <3>2 DEF ToSet
  <2>2. ASSUME NEW j \in 1 .. Len(s) + 1, NEW k \in 1 .. Len(s) + 1, u[j] = u[k]
        PROVE  j = k
    <3>1. CASE j = i \/ k = i
      BY <1>7, <2>1, <2>2, <3>1
    <3>2. CASE j # i /\ k # i
      <4>1. Back(j) = Back(k)
        <5> HIDE DEF Back
        <5> QED
          BY <1>10, <2>1, <2>2, <3>2 DEF Distinct
      <4> QED
        BY <1>1, <3>2, <4>1
    <3> QED
      BY <3>1, <3>2
  <2> QED
    BY <1>6, <2>2 DEF Distinct
<1> QED
  BY <1>5, <1>9, <1>10 DEF u

(* One element less.                                                       *)
LEMMA RemovedElements ==
    ASSUME NEW S, NEW s \in Seq(S), NEW i \in 1 .. Len(s), Distinct(s)
    PROVE  /\ RemoveAt(s, i) \in Seq(S)
           /\ ToSet(RemoveAt(s, i)) = ToSet(s) \ {s[i]}
           /\ Distinct(RemoveAt(s, i))
<1> DEFINE u == RemoveAt(s, i)
           h == SubSeq(s, 1, i - 1)
           t == SubSeq(s, i + 1, Len(s))
<1>1. Len(s) \in Nat /\ i - 1 \in Nat /\ i + 1 \in Nat \ {0} /\ DOMAIN s = 1 .. Len(s)
  BY LenProperties
<1>2. h \in Seq(S) /\ Len(h) = i - 1 /\ \A k \in 1 .. i - 1 : h[k] = s[k]
  BY <1>1, SliceElements
<1>3. /\ t \in Seq(S) /\ Len(t) = Len(s) - i
      /\ \A k \in 1 .. Len(s) - i : t[k] = s[i + k]
  <2> DEFINE a == i + 1
  <2>1. a \in Nat \ {0} /\ a <= Len(s) + 1 /\ Len(s) - a + 1 = Len(s) - i
    BY <1>1
  <2>2. \A k \in 1 .. Len(s) - i : a + k - 1 = i + k
    OBVIOUS
  <2>3. t = SubSeq(s, a, Len(s))
    OBVIOUS
  <2> HIDE DEF a, t
  <2>4. /\ t \in Seq(S) /\ Len(t) = Len(s) - a + 1
        /\ \A k \in 1 .. Len(s) - a + 1 : t[k] = s[a + k - 1]
    BY <1>1, <2>1, <2>3, SliceElements
  <2> QED
    BY <2>1, <2>2, <2>4
<1>4. u = h \o t
  BY DEF RemoveAt
<1> HIDE DEF h, t, u
<1>5. /\ u \in Seq(S) /\ Len(u) = Len(h) + Len(t)
      /\ \A k \in 1 .. Len(h) + Len(t) :
           u[k] = IF k <= Len(h) THEN h[k] ELSE t[k - Len(h)]
  BY <1>2, <1>3, <1>4, ConcatProperties
<1>6. Len(u) = Len(s) - 1 /\ DOMAIN u = 1 .. Len(s) - 1
  BY <1>1, <1>2, <1>3, <1>5, LenProperties
<1> DEFINE On(k) == IF k < i THEN k ELSE k + 1
<1>7. ASSUME NEW k \in 1 .. Len(s) - 1
      PROVE  On(k) \in 1 .. Len(s) /\ On(k) # i /\ u[k] = s[On(k)]
  <2>1. On(k) \in 1 .. Len(s) /\ On(k) # i
    BY <1>1
  <2>2. CASE k < i
    <3>1. k \in 1 .. i - 1 /\ k \in 1 .. Len(h) + Len(t) /\ k <= Len(h)
      BY <1>1, <1>2, <1>3, <2>2
    <3> QED
      BY <1>2, <1>5, <2>1, <2>2, <3>1
  <2>3. CASE k >= i
    <3>1. /\ k \in 1 .. Len(h) + Len(t) /\ ~(k <= Len(h)) /\ k - Len(h) = k - i + 1
          /\ k - i + 1 \in 1 .. Len(s) - i /\ i + (k - i + 1) = k + 1
      BY <1>1, <1>2, <1>3, <2>3
    <3>2. u[k] = t[k - i + 1]
      BY <1>5, <3>1
    <3>3. t[k - i + 1] = s[k + 1]
      BY <1>3, <3>1
    <3>4. On(k) = k + 1
      BY <1>1, <2>3
    <3> QED
      BY <2>1, <3>2, <3>3, <3>4
  <2> QED
    BY <1>1, <2>2, <2>3
<1>8. ToSet(u) \subseteq ToSet(s) \ {s[i]}
  <2> HIDE DEF On
  <2>1. ASSUME NEW k \in 1 .. Len(s) - 1 PROVE u[k] \in ToSet(s) \ {s[i]}
    BY <1>1, <1>7 DEF Distinct, ToSet
  <2> QED
    BY <1>6, <2>1 DEF ToSet
<1>9. ToSet(s) \ {s[i]} \subseteq ToSet(u)
  <2>1. ASSUME NEW k \in 1 .. Len(s), k # i PROVE s[k] \in ToSet(u)
    <3>1. CASE k < i
      <4>1. k \in DOMAIN u /\ On(k) = k /\ k \in 1 .. Len(s) - 1
        BY <1>1, <1>6, <3>1
      <4> HIDE DEF On
      <4> QED
        BY <1>7, <4>1 DEF ToSet
    <3>2. CASE k > i
      <4>1. k - 1 \in DOMAIN u /\ On(k - 1) = k /\ k - 1 \in 1 .. Len(s) - 1
        BY <1>1, <1>6, <3>2
      <4> HIDE DEF On
      <4> QED
        BY <1>7, <4>1 DEF ToSet
    <3> QED
      BY <1>1, <2>1, <3>1, <3>2
  <2> QED
    BY <1>1, <2>1 DEF ToSet
<1>10. Distinct(u)
  <2>1. ASSUME NEW j \in 1 .. Len(s) - 1, NEW k \in 1 .. Len(s) - 1, u[j] = u[k]
        PROVE  j = k
    <3>1. On(j) = On(k)
      <4> HIDE DEF On
      <4> QED
        BY <1>7, <2>1 DEF Distinct
    <3> QED
      BY <1>1, <3>1
  <2> QED
    BY <1>6, <2>1 DEF Distinct
<1> QED
  BY <1>5, <1>8, <1>9, <1>10 DEF u

-----------------------------------------------------------------------------
(* What the events tell *)

(* An event names a position the list has when it is its turn.             *)
Fits(list, e) ==
    /\ e.kind = "added" => e.at \in 1 .. Len(list) + 1 /\ e.media \in Media
    /\ e.kind = "deleted" => e.at \in 1 .. Len(list)

(* There are lists, one after each event that waits, from the client's to  *)
(* the one that getMediaAt reads.                                          *)
ToldBy(f) ==
    /\ f \in [0 .. Len(queue) -> Seq(Media)]
    /\ Fold!Telling(f, seen, queue, Len(queue))
    /\ f[Len(queue)] = Listed
    /\ \A k \in 1 .. Len(queue) : Fits(f[k - 1], queue[k])

Told == \E f : ToldBy(f)

LEMMA ToldIsTheFold ==
    ASSUME Told, queue \in Seq(Events)
    PROVE  FoldLeft(Replayed, seen, queue) = Listed
<1>1. PICK f : ToldBy(f)
  BY DEF Told
<1>2. Fold!Folded(seen, queue) = f[Len(queue)]
  BY <1>1, Fold!FoldIsTelling DEF ToldBy
<1>3. Fold!Folded(seen, queue) = FoldLeft(Replayed, seen, queue)
  BY DEF Fold!Folded, Fold!FoldLeft, FoldLeft, Fold!MapThenFoldSet, MapThenFoldSet,
         Fold!Max, Max
<1> QED
  BY <1>1, <1>2, <1>3 DEF ToldBy

(* An event that tells what was done to the array may be appended;         *)
LEMMA ToldAppended ==
    ASSUME Told, queue \in Seq(Events), NEW e \in Events, Fits(Listed, e),
           queue' = Append(queue, e), seen' = seen,
           Listed' = Replayed(Listed, e), Listed' \in Seq(Media)
    PROVE  Told'
<1> DEFINE n == Len(queue)
<1>1. PICK f : ToldBy(f)
  BY DEF Told
<1>2. /\ n \in Nat /\ Len(queue') = n + 1
      /\ \A k \in 1 .. n : queue'[k] = queue[k]
      /\ queue'[n + 1] = e
  BY LenProperties, AppendProperties
<1>9. PICK g : g = [k \in 0 .. n + 1 |-> IF k <= n THEN f[k] ELSE Listed']
  OBVIOUS
<1>3. f \in [0 .. n -> Seq(Media)] /\ f[0] = seen /\ f[n] = Listed
  BY <1>1 DEF ToldBy, Fold!Telling
<1>4. ASSUME NEW k \in 1 .. n
      PROVE  f[k] = Replayed(f[k - 1], queue[k]) /\ Fits(f[k - 1], queue[k])
  BY <1>1 DEF ToldBy, Fold!Telling
<1>5. g \in [0 .. n + 1 -> Seq(Media)]
  BY <1>2, <1>3, <1>9
<1>6. g[0] = seen' /\ g[n + 1] = Listed'
  BY <1>2, <1>3, <1>9
<1>7. ASSUME NEW k \in 1 .. n + 1
      PROVE  g[k] = Replayed(g[k - 1], queue'[k]) /\ Fits(g[k - 1], queue'[k])
  <2>1. CASE k = n + 1
    <3>1. g[k] = Listed' /\ g[k - 1] = Listed /\ queue'[k] = e
      BY <1>2, <1>3, <1>9, <2>1
    <3> QED
      BY <3>1
  <2>2. CASE k \in 1 .. n
    <3>1. g[k] = f[k] /\ g[k - 1] = f[k - 1] /\ queue'[k] = queue[k]
      BY <1>2, <1>9, <2>2
    <3> QED
      BY <1>4, <2>2, <3>1
  <2> QED
    BY <1>2, <2>1, <2>2
<1>8. ToldBy(g)'
  BY <1>2, <1>5, <1>6, <1>7 DEF ToldBy, Fold!Telling
<1> QED
  BY <1>8 DEF Told

(* the first one may be handled.                                           *)
LEMMA ToldHeard ==
    ASSUME Told, queue \in Seq(Events), queue # <<>>,
           queue' = Tail(queue), seen' = Replayed(seen, Head(queue)), Listed' = Listed
    PROVE  Told' /\ seen' \in Seq(Media)
<1> DEFINE n == Len(queue)
<1>1. PICK f : ToldBy(f)
  BY DEF Told
<1>2. /\ n \in Nat \ {0} /\ Len(queue') = n - 1
      /\ \A k \in 1 .. n - 1 : queue'[k] = queue[k + 1]
  BY EmptySeq, LenProperties, HeadTailProperties
<1>10. PICK g : g = [k \in 0 .. n - 1 |-> f[k + 1]]
  OBVIOUS
<1>3. f \in [0 .. n -> Seq(Media)] /\ f[0] = seen /\ f[n] = Listed
  BY <1>1 DEF ToldBy, Fold!Telling
<1>4. ASSUME NEW k \in 1 .. n
      PROVE  f[k] = Replayed(f[k - 1], queue[k]) /\ Fits(f[k - 1], queue[k])
  BY <1>1 DEF ToldBy, Fold!Telling
<1>5. g \in [0 .. n - 1 -> Seq(Media)]
  BY <1>2, <1>3, <1>10
<1>6. g[0] = seen' /\ g[n - 1] = Listed'
  <2>1. 1 \in 1 .. n /\ 1 - 1 = 0 /\ 0 \in 0 .. n - 1 /\ n - 1 \in 0 .. n - 1
    BY <1>2
  <2>2. f[1] = Replayed(f[0], queue[1])
    BY <1>4, <2>1
  <2>3. Head(queue) = queue[1]
    BY <1>2
  <2> QED
    BY <1>2, <1>3, <1>10, <2>1, <2>2, <2>3
<1>7. ASSUME NEW k \in 1 .. n - 1
      PROVE  g[k] = Replayed(g[k - 1], queue'[k]) /\ Fits(g[k - 1], queue'[k])
  <2>1. /\ k + 1 \in 1 .. n /\ (k + 1) - 1 = k /\ k \in 0 .. n - 1 /\ k - 1 \in 0 .. n - 1
        /\ (k - 1) + 1 = k
    BY <1>2
  <2>2. g[k] = f[k + 1] /\ g[k - 1] = f[k] /\ queue'[k] = queue[k + 1]
    BY <1>2, <1>10, <2>1
  <2>3. f[k + 1] = Replayed(f[k], queue[k + 1]) /\ Fits(f[k], queue[k + 1])
    BY <1>4, <2>1
  <2> QED
    BY <2>2, <2>3
<1>8. seen' \in Seq(Media)
  <2>1. 0 \in 0 .. n - 1
    BY <1>2
  <2> QED
    BY <1>5, <1>6, <2>1
<1>9. ToldBy(g)'
  BY <1>2, <1>5, <1>6, <1>7 DEF ToldBy, Fold!Telling
<1> QED
  BY <1>8, <1>9 DEF Told

LEMMA ToldStays ==
    ASSUME Told, UNCHANGED <<queue, seen, array, count>>
    PROVE  Told'
BY DEF Told, ToldBy, Listed, Fold!Telling

-----------------------------------------------------------------------------
(* The types *)

ListTypes ==
    /\ change = NoChange \/ change.kind \in {"added", "deleted", "end"}
    /\ owners <= MaxOwners /\ stage \in Stages
    /\ refs \in [Media -> Nat] /\ held \in [Media -> Nat]
    /\ queue \in Seq(Events) /\ seen \in Seq(Media)

(* The events that are on their way fit what they are about.               *)
ToldIInv == ListTypes /\ (owners > 0 => Told)

LEMMA ToldInit == ListInit => ToldIInv
<1> SUFFICES ASSUME ListInit PROVE ToldIInv
  OBVIOUS
<1>1. /\ change = NoChange /\ owners = 1 /\ stage = "live" /\ queue = <<>>
      /\ seen = native /\ array = native /\ count = Len(native)
  BY DEF ListInit
<1>2. native \in Seq(Media) /\ Len(native) \in Nat
  BY MirrorInit, LenProperties DEF MirrorIInv, ListShape
<1>3. refs \in [Media -> Nat] /\ held \in [Media -> Nat]
  BY DEF ListInit
<1>4. Listed = native
  BY <1>1, <1>2, SubSeqFull DEF Listed
<1>5. PICK f : f = [k \in 0 .. 0 |-> native]
  OBVIOUS
<1>6. Len(queue) = 0 /\ queue \in Seq(Events)
  BY <1>1
<1>7. ToldBy(f)
  BY <1>1, <1>2, <1>4, <1>5, <1>6 DEF ToldBy, Fold!Telling
<1> QED
  BY <1>1, <1>2, <1>3, <1>6, <1>7, BoundsAssumption DEF ToldIInv, ListTypes, Told, Stages

LEMMA CountUpdated ==
    ASSUME NEW f \in [Media -> Nat], NEW m, NEW v, m \in Media => v \in Nat
    PROVE  [f EXCEPT ![m] = v] \in [Media -> Nat]
<1>1. CASE m \in Media
  BY <1>1
<1>2. CASE m \notin Media
  BY <1>2
<1> QED
  BY <1>1, <1>2

(* One step keeps the types of the counts,                                 *)
LEMMA CountsStayNumbers ==
    ASSUME MirrorIInv, ListTypes, [ListNext]_listVars
    PROVE  refs' \in [Media -> Nat] /\ held' \in [Media -> Nat]
<1> USE DEF ListTypes
<1>1. \A m \in Media : Released(m) \in Nat
  BY DEF Released
<1>2. CASE DispatchAdded
  BY <1>2 DEF DispatchAdded
<1>3. CASE DispatchDeleted
  <2>1. PICK m : refs' = [refs EXCEPT ![m] = Released(m)] /\ held' = held
    BY <1>3 DEF DispatchDeleted
  <2> QED
    BY <1>1, <2>1
<1>4. CASE OnEvent
  <2>1. CASE UNCHANGED <<refs, held>>
    BY <2>1
  <2>2. ASSUME NEW m, refs' = [refs EXCEPT ![m] = refs[m] + 1],
               held' = [held EXCEPT ![m] = held[m] + 1]
        PROVE  refs' \in [Media -> Nat] /\ held' \in [Media -> Nat]
    <3>1. m \in Media => refs[m] + 1 \in Nat /\ held[m] + 1 \in Nat
      OBVIOUS
    <3> QED
      BY <2>2, <3>1, CountUpdated
  <2> QED
    BY <1>4, <2>1, <2>2 DEF OnEvent
<1>5. CASE GetMediaAt
  <2>1. PICK m : /\ refs' = [refs EXCEPT ![m] = IF refs[m] > 0 THEN refs[m] + 1 ELSE refs[m]]
                 /\ held' = [held EXCEPT ![m] = held[m] + 1]
    BY <1>5 DEF GetMediaAt
  <2>2. m \in Media => /\ (IF refs[m] > 0 THEN refs[m] + 1 ELSE refs[m]) \in Nat
                       /\ held[m] + 1 \in Nat
    OBVIOUS
  <2> QED
    BY <2>1, <2>2, CountUpdated
<1>6. CASE ReleaseMedia
  <2>1. PICK m \in Media : /\ held[m] > 0 /\ held' = [held EXCEPT ![m] = @ - 1]
                           /\ refs' = [refs EXCEPT ![m] = Released(m)]
    BY <1>6 DEF ReleaseMedia
  <2> QED
    BY <1>1, <2>1
<1>7. CASE FreeNative
  <2> DEFINE Sls(m) == Cardinality({i \in DOMAIN array : array[i] = m})
  <2>1. ASSUME NEW m \in Media PROVE Sls(m) \in Nat
    <3>1. DOMAIN array = 1 .. Len(array) /\ Len(array) \in Nat
      BY LenProperties DEF MirrorIInv, ListShape
    <3>2. IsFiniteSet(1 .. Len(array))
      BY <3>1, FS_Interval
    <3>3. {i \in DOMAIN array : array[i] = m} \in SUBSET (1 .. Len(array))
      BY <3>1
    <3> QED
      BY <3>2, <3>3, FS_Subset, FS_CardinalityType
  <2>2. /\ refs' = [m \in Media |-> IF refs[m] > Sls(m) THEN refs[m] - Sls(m) ELSE 0]
        /\ held' = held
    BY <1>7 DEF FreeNative
  <2> HIDE DEF Sls
  <2> QED
    BY <2>1, <2>2
<1>8. CASE UNCHANGED <<refs, held>>
  BY <1>8
<1> QED
  BY <1>2, <1>3, <1>4, <1>5, <1>6, <1>7, <1>8
     DEF ListNext, NativeStep, ReleaseStep, Dispatch, NativeInsert, NativeDelete, NativeEnd,
         SendEvent, DispatchEnd, DispatchNothing, RetainList, ReleaseList, Detach, listVars

(* an event is appended for what is done to the array,                     *)
LEMMA DispatchTells ==
    ASSUME MirrorIInv, ToldIInv, DispatchAdded \/ DispatchDeleted \/ DispatchEnd
    PROVE  queue' \in Seq(Events) /\ seen' = seen /\ Told'
<1>1. owners > 0 /\ Told /\ queue \in Seq(Events) /\ DiffersByChange /\ seen' = seen
      /\ change' = NoChange /\ owners' = owners /\ native' = native
  BY DEF ToldIInv, ListTypes, MirrorIInv, DispatchAdded, DispatchDeleted, DispatchEnd
<1>2. change \in Notices /\ native \in Seq(Media) /\ count \in Nat
  BY DEF MirrorIInv, ListShape
<1>3. Listed' = native
  <2>1. MirrorIInv'
    BY DispatchKeepsMirror DEF Dispatch
  <2> QED
    BY <1>1, <2>1, NoChangeType DEF MirrorIInv, DiffersByChange
<1>4. Len(Listed) = count
  BY ListedLength DEF MirrorIInv
<1>5. ASSUME NEW e \in Events, queue' = Append(queue, e), Fits(Listed, e),
             native = Replayed(Listed, e)
      PROVE  queue' \in Seq(Events) /\ Told'
  <2>1. queue' \in Seq(Events)
    BY <1>1, <1>5, AppendProperties
  <2>2. Listed' = Replayed(Listed, e) /\ Listed' \in Seq(Media)
    BY <1>2, <1>3, <1>5
  <2> QED
    BY <1>1, <1>5, <2>1, <2>2, ToldAppended
<1>6. CASE DispatchAdded
  <2> DEFINE e == [kind |-> "added", at |-> change.at, media |-> change.media]
  <2>1. change.kind = "added" /\ queue' = Append(queue, e)
    BY <1>6 DEF DispatchAdded, Post
  <2>2. e \in Events /\ e.kind = "added" /\ e.at = change.at /\ e.media = change.media
    BY <1>2 DEF Events, Notices, Slots
  <2> HIDE DEF e
  <2>3. Fits(Listed, e) /\ native = Replayed(Listed, e)
    BY <1>1, <1>4, <2>1, <2>2 DEF DiffersByChange, Fits, Replayed
  <2> QED
    BY <1>1, <1>5, <2>1, <2>2, <2>3
<1>7. CASE DispatchDeleted
  <2> DEFINE e == [kind |-> "deleted", at |-> change.at, media |-> array[change.at]]
  <2>1. change.kind = "deleted" /\ queue' = Append(queue, e)
    BY <1>7 DEF DispatchDeleted
  <2>2. change.at \in 1 .. count
    BY <1>1, <2>1 DEF DiffersByChange
  <2>3. array[change.at] \in Slots
    <3>1. array \in Seq(Slots) /\ count \in Nat /\ count <= Len(array)
      BY DEF MirrorIInv, ListShape
    <3>2. change.at \in 1 .. Len(array)
      BY <2>2, <3>1, LenProperties
    <3> QED
      BY <3>1, <3>2, ElementOfSeq
  <2>4. e \in Events /\ e.kind = "deleted" /\ e.at = change.at
    BY <1>2, <2>3 DEF Events, Notices, Slots
  <2> HIDE DEF e
  <2>5. Fits(Listed, e) /\ native = Replayed(Listed, e)
    BY <1>1, <1>4, <2>1, <2>2, <2>4 DEF DiffersByChange, Fits, Replayed
  <2> QED
    BY <1>1, <1>5, <2>1, <2>4, <2>5
<1>8. CASE DispatchEnd
  <2> DEFINE e == [kind |-> "end", at |-> change.at, media |-> change.media]
  <2>1. change.kind = "end" /\ queue' = Append(queue, e)
    BY <1>8 DEF DispatchEnd, Post
  <2>2. e \in Events /\ e.kind = "end"
    BY <1>2 DEF Events, Notices, Slots
  <2> HIDE DEF e
  <2>3. Fits(Listed, e) /\ native = Replayed(Listed, e)
    BY <1>1, <2>1, <2>2 DEF DiffersByChange, Fits, Replayed
  <2> QED
    BY <1>1, <1>5, <2>1, <2>2, <2>3
<1> QED
  BY <1>1, <1>6, <1>7, <1>8

(* and taken away when the client hears of it.                             *)
LEMMA ToldKept ==
    ASSUME MirrorIInv, ReleaseIInv, ToldIInv, [ListNext]_listVars
    PROVE  /\ queue' \in Seq(Events) /\ seen' \in Seq(Media)
           /\ owners' > 0 => Told'
<1>1. queue \in Seq(Events) /\ seen \in Seq(Media) /\ (owners > 0 => Told)
  BY DEF ToldIInv, ListTypes
<1>2. CASE DispatchAdded \/ DispatchDeleted \/ DispatchEnd
  BY <1>1, <1>2, DispatchTells
<1>3. CASE OnEvent
  <2>1. /\ queue # <<>> /\ queue' = Tail(queue) /\ seen' = Replayed(seen, Head(queue))
        /\ UNCHANGED <<array, count, owners>>
    BY <1>3 DEF OnEvent
  <2>2. owners > 0
    BY <2>1 DEF ReleaseIInv, QuietAfterRelease, CallbackWhileAttached
  <2>3. Listed' = Listed
    BY <2>1 DEF Listed
  <2>4. Told' /\ seen' \in Seq(Media)
    BY <1>1, <2>1, <2>2, <2>3, ToldHeard
  <2>5. queue' \in Seq(Events)
    BY <1>1, <2>1, HeadTailProperties
  <2> QED
    BY <2>4, <2>5
<1>4. CASE ReleaseList
  <2>1. /\ owners > 0 /\ owners' = owners - 1 /\ queue' = IF owners' = 0 THEN <<>> ELSE queue
        /\ UNCHANGED <<array, count, seen>>
    BY <1>4 DEF ReleaseList
  <2>2. CASE owners' = 0
    BY <1>1, <2>1, <2>2
  <2>3. CASE owners' # 0
    BY <1>1, <2>1, <2>3, ToldStays
  <2> QED
    BY <2>2, <2>3
<1>5. CASE UNCHANGED <<queue, seen, array, count>> /\ (owners' > 0 => owners > 0)
  BY <1>1, <1>5, ToldStays
<1> QED
  BY <1>2, <1>3, <1>4, <1>5
     DEF ListNext, NativeStep, ReleaseStep, Dispatch, NativeInsert, NativeDelete, NativeEnd,
         SendEvent, DispatchNothing, GetMediaAt, ReleaseMedia, RetainList, Detach, FreeNative,
         listVars

LEMMA ToldStep == MirrorIInv /\ ReleaseIInv /\ ToldIInv /\ [ListNext]_listVars => ToldIInv'
<1> SUFFICES ASSUME MirrorIInv, ReleaseIInv, ToldIInv, [ListNext]_listVars PROVE ToldIInv'
  OBVIOUS
<1>1. ListTypes
  BY DEF ToldIInv
<1>2. refs' \in [Media -> Nat] /\ held' \in [Media -> Nat]
  BY <1>1, CountsStayNumbers
<1>3. queue' \in Seq(Events) /\ seen' \in Seq(Media) /\ (owners' > 0 => Told')
  BY ToldKept
<1>4. stage' \in Stages
  BY ReleaseKeepsQuiet DEF ReleaseIInv, CallbackWhileAttached
<1>5. owners' <= MaxOwners
  <2>1. owners \in Nat /\ owners <= MaxOwners
    BY <1>1 DEF ListTypes, MirrorIInv, ListShape
  <2>2. owners' = owners \/ (owners < MaxOwners /\ owners' = owners + 1) \/ owners' = owners - 1
    BY DEF ListNext, NativeStep, ReleaseStep, Dispatch, NativeInsert, NativeDelete, NativeEnd,
           SendEvent, DispatchAdded, DispatchDeleted, DispatchEnd, DispatchNothing, OnEvent,
           GetMediaAt, ReleaseMedia, RetainList, ReleaseList, Detach, FreeNative, listVars
  <2> QED
    BY <2>1, <2>2, BoundsAssumption
<1>6. change' = NoChange \/ change'.kind \in {"added", "deleted", "end"}
  <2>1. CASE SendEvent
    <3>1. CASE change' = [change EXCEPT !.sent = TRUE]
      <4>1. change # NoChange /\ change \in Notices
        BY <2>1 DEF SendEvent, MirrorIInv, ListShape
      <4>2. change'.kind = change.kind
        BY <3>1, <4>1 DEF Notices
      <4> QED
        BY <1>1, <4>1, <4>2 DEF ListTypes
    <3> QED
      BY <2>1, <3>1 DEF SendEvent
  <2>2. CASE NativeInsert \/ NativeDelete \/ NativeEnd
    BY <2>2 DEF NativeInsert, NativeDelete, NativeEnd, Changed
  <2>3. CASE change' = NoChange \/ change' = change
    BY <1>1, <2>3 DEF ListTypes
  <2> QED
    BY <2>1, <2>2, <2>3
       DEF ListNext, NativeStep, ReleaseStep, Dispatch, DispatchAdded, DispatchDeleted,
           DispatchEnd, DispatchNothing, OnEvent, GetMediaAt, ReleaseMedia, RetainList,
           ReleaseList, Detach, FreeNative, listVars
<1> QED
  BY <1>2, <1>3, <1>4, <1>5, <1>6 DEF ToldIInv, ListTypes

ListIInv == MirrorIInv /\ ReleaseIInv /\ ToldIInv

LEMMA AlwaysListIInv == ListSpec => []ListIInv
<1>1. ListInit => ListIInv
  BY MirrorInit, ReleaseInit, ToldInit DEF ListIInv
<1>2. ListIInv /\ [ListNext]_listVars => ListIInv'
  BY MirrorStep, ReleaseKeepsQuiet, ToldStep DEF ListIInv
<1> QED
  BY <1>1, <1>2, PTL DEF ListSpec

(* Whatever is inserted, deleted, taken and released: the variables of the *)
(* list keep their types, the cache counts no more than its array has, and *)
(* what the client makes of the events is a list of media.                 *)
THEOREM ListTypesHold == ListSpec => []ListTypeOK
<1>1. ListIInv => ListTypeOK
  <2> SUFFICES ASSUME ListIInv PROVE ListTypeOK
    OBVIOUS
  <2>1. /\ native \in Seq(Media) /\ array \in Seq(Media \cup {None})
        /\ count \in 0 .. Len(array) /\ change \in Notices
    <3>1. ListShape
      BY DEF ListIInv, MirrorIInv
    <3> QED
      BY <3>1, LenProperties DEF ListShape, Slots
  <2>2. change = NoChange \/ change \in [kind : {"added", "deleted", "end"}, at : Nat,
                                         media : Media \cup {None}, sent : BOOLEAN]
    BY <2>1 DEF ListIInv, ToldIInv, ListTypes, Notices, Slots
  <2>3. owners \in 0 .. MaxOwners
    BY BoundsAssumption DEF ListIInv, ToldIInv, ListTypes, MirrorIInv, ListShape
  <2> QED
    BY <2>1, <2>2, <2>3 DEF ListTypeOK, ListIInv, ToldIInv, ListTypes
<1> QED
  BY <1>1, AlwaysListIInv, PTL

(* However late the main thread handles the messages that MediaList posts: *)
(* the list a client makes of them is the array once none waits, for the   *)
(* callback posts one for each change, in the order of the changes.        *)
THEOREM EventsAreTheList == ListSpec => []EventsTellTheList
<1>1. ListIInv => EventsTellTheList
  BY ToldIsTheFold DEF ListIInv, ToldIInv, ListTypes, EventsTellTheList
<1> QED
  BY <1>1, AlwaysListIInv, PTL

-----------------------------------------------------------------------------
(* The references *)

InList(m) == IF m \in ToSet(Listed) THEN 1 ELSE 0

(* A media whose insertion is under way is not reached by anybody yet.     *)
NewIsUnknown ==
    change.kind = "added" =>
        /\ change.media \notin ToSet(Listed)
        /\ refs[change.media] = 0 /\ held[change.media] = 0
        /\ \A k \in DOMAIN queue : queue[k].media # change.media

(* As long as the list is there each reference is somebody's; when it was  *)
(* released it still has its own, until the native object is freed.        *)
Accounts ==
    /\ owners > 0 =>
         /\ Distinct(Listed) /\ NewIsUnknown
         /\ \A m \in Media : refs[m] = held[m] + InList(m)
    /\ owners = 0 /\ stage \in {"cleared", "detached"} =>
         \A m \in Media : refs[m] <= held[m] + InList(m)
    /\ stage = "freed" => owners = 0 /\ \A m \in Media : refs[m] <= held[m]

LEMMA ListedInArray ==
    ASSUME ListShape
    PROVE  ToSet(Listed) \subseteq ToSet(array) /\ \A k \in 1 .. count : Listed[k] = array[k]
<1>1. array \in Seq(Slots) /\ count \in Nat /\ count <= Len(array) /\ Len(array) \in Nat
  BY LenProperties DEF ListShape
<1>2. /\ Listed \in Seq(Slots) /\ Len(Listed) = count - 1 + 1
      /\ \A k \in 1 .. count - 1 + 1 : Listed[k] = array[1 + k - 1]
  BY <1>1, SliceElements DEF Listed
<1>3. \A k \in 1 .. count : k \in 1 .. count - 1 + 1 /\ 1 + k - 1 = k
  BY <1>1
<1>4. \A k \in 1 .. count : Listed[k] = array[k]
  BY <1>2, <1>3
<1>5. DOMAIN Listed = 1 .. count /\ DOMAIN array = 1 .. Len(array)
  <2>1. Len(Listed) = count
    BY <1>1, <1>2
  <2> QED
    BY <1>1, <1>2, <2>1, LenProperties
<1>6. \A k \in 1 .. count : k \in 1 .. Len(array)
  BY <1>1
<1> QED
  BY <1>4, <1>5, <1>6 DEF ToSet

LEMMA AccountsInit == ListInit => Accounts
<1> SUFFICES ASSUME ListInit PROVE Accounts
  OBVIOUS
<1>1. /\ native = <<>> \/ \E m \in Media : native = <<m>>
      /\ array = native /\ count = Len(native) /\ owners = 1 /\ stage = "live"
      /\ change = NoChange
      /\ refs = [m \in Media |-> IF m \in ToSet(native) THEN 1 ELSE 0]
      /\ held = [m \in Media |-> 0]
  BY DEF ListInit
<1>2. native \in Seq(Media)
  BY MirrorInit DEF MirrorIInv, ListShape
<1>3. Listed = native
  BY <1>1, <1>2, SubSeqFull DEF Listed
<1>4. Distinct(native)
  BY <1>1 DEF Distinct
<1> QED
  BY <1>1, <1>3, <1>4, NoChangeType DEF Accounts, NewIsUnknown, InList

(* The native thread takes objects that nobody reaches.                    *)
LEMMA NativeKeepsAccounts ==
    ASSUME ListIInv, Accounts, NativeInsert \/ NativeDelete \/ NativeEnd \/ SendEvent
    PROVE  Accounts'
<1>1. UNCHANGED <<array, count, owners, stage, refs, held, queue>> /\ Listed' = Listed
  BY DEF NativeInsert, NativeDelete, NativeEnd, SendEvent, Listed
<1>2. NewIsUnknown => NewIsUnknown'
  <2>1. CASE NativeInsert
    <3>1. PICK m \in Media : Fresh(m) /\ change'.kind = "added" /\ change'.media = m
      BY <2>1 DEF NativeInsert, Changed
    <3>2. m \notin ToSet(Listed)
      BY <3>1, ListedInArray DEF Fresh, ListIInv, MirrorIInv
    <3> QED
      BY <1>1, <3>1, <3>2 DEF NewIsUnknown, Fresh
  <2>2. CASE NativeDelete \/ NativeEnd
    BY <2>2 DEF NativeDelete, NativeEnd, Changed, NewIsUnknown
  <2>3. CASE SendEvent
    <3>1. CASE change' = [change EXCEPT !.sent = TRUE]
      <4>1. change'.kind = change.kind /\ change'.media = change.media
        BY <3>1 DEF ListIInv, MirrorIInv, ListShape, Notices
      <4> QED
        BY <1>1, <4>1 DEF NewIsUnknown
    <3>2. CASE change' = NoChange
      BY <3>2, NoChangeType DEF NewIsUnknown
    <3> QED
      BY <2>3, <3>1, <3>2 DEF SendEvent
  <2> QED
    BY <2>1, <2>2, <2>3
<1> QED
  BY <1>1, <1>2 DEF Accounts, InList

LEMMA DispatchKeepsAccounts ==
    ASSUME ListIInv, Accounts, Dispatch
    PROVE  Accounts'
<1>1. /\ change' = NoChange /\ owners' = owners /\ stage' = stage /\ native' = native
      /\ held' = held
  BY DEF Dispatch, DispatchAdded, DispatchDeleted, DispatchEnd, DispatchNothing
<1>2. NewIsUnknown'
  BY <1>1, NoChangeType DEF NewIsUnknown
<1>3. refs \in [Media -> Nat] /\ held \in [Media -> Nat] /\ ListShape
  BY DEF ListIInv, ToldIInv, ListTypes, MirrorIInv
<1>4. Listed \in Seq(Slots) /\ Len(Listed) = count
  BY <1>3, ListedLength
<1>5. owners > 0 => /\ stage = "live" /\ Listed' = native
                    /\ DiffersByChange
  <2>1. MirrorIInv'
    BY DispatchKeepsMirror DEF ListIInv
  <2> QED
    BY <1>1, <1>3, <2>1, NoChangeType DEF ListIInv, MirrorIInv, DiffersByChange, ListShape
<1>6. CASE DispatchAdded
  <2> DEFINE m == change.media
  <2>1. owners > 0 /\ change.kind = "added" /\ refs' = [refs EXCEPT ![m] = 1]
    BY <1>6 DEF DispatchAdded
  <2>2. m \in Media /\ m \in Slots /\ change.at \in 1 .. Len(Listed) + 1
        /\ Listed' = InsertAt(Listed, change.at, m)
    BY <1>4, <1>5, <2>1 DEF DiffersByChange, Slots
  <2>3. Distinct(Listed) /\ m \notin ToSet(Listed) /\ held[m] = 0
        /\ \A x \in Media : refs[x] = held[x] + InList(x)
    BY <2>1 DEF Accounts, NewIsUnknown
  <2>4. ToSet(Listed') = ToSet(Listed) \cup {m} /\ Distinct(Listed')
    BY <1>4, <2>2, <2>3, InsertedElements
  <2> HIDE DEF m
  <2>5. ASSUME NEW x \in Media
        PROVE  refs'[x] = held'[x] + InList(x)'
    <3>1. CASE x = m
      BY <1>1, <1>3, <2>1, <2>2, <2>3, <2>4, <3>1 DEF InList
    <3>2. CASE x # m
      BY <1>1, <1>3, <2>1, <2>3, <2>4, <3>2 DEF InList
    <3> QED
      BY <3>1, <3>2
  <2> QED
    BY <1>1, <1>2, <1>5, <2>1, <2>4, <2>5 DEF Accounts, Distinct
<1>7. CASE DispatchDeleted
  <2> DEFINE m == array[change.at]
  <2>1. owners > 0 /\ change.kind = "deleted" /\ refs' = [refs EXCEPT ![m] = Released(m)]
    BY <1>7 DEF DispatchDeleted
  <2>2. /\ change.at \in 1 .. Len(Listed) /\ change.at \in 1 .. count
        /\ Listed' = RemoveAt(Listed, change.at)
    BY <1>4, <1>5, <2>1 DEF DiffersByChange
  <2>3. m = Listed[change.at] /\ m \in ToSet(Listed)
    <3>1. DOMAIN Listed = 1 .. Len(Listed)
      BY <1>4, LenProperties
    <3>2. m = Listed[change.at]
      BY <1>3, <2>2, ListedInArray
    <3> QED
      BY <2>2, <3>1, <3>2 DEF ToSet
  <2>4. Distinct(Listed) /\ \A x \in Media : refs[x] = held[x] + InList(x)
    BY <2>1 DEF Accounts
  <2>5. ToSet(Listed') = ToSet(Listed) \ {m} /\ Distinct(Listed')
    BY <1>4, <2>2, <2>3, <2>4, RemovedElements
  <2> HIDE DEF m
  <2>6. ASSUME NEW x \in Media
        PROVE  refs'[x] = held'[x] + InList(x)'
    <3>1. CASE x = m
      <4>1. refs[x] = held[x] + 1 /\ held[x] \in Nat
        BY <1>3, <2>3, <2>4, <3>1 DEF InList
      <4>2. refs'[x] = held[x]
        BY <1>3, <2>1, <3>1, <4>1 DEF Released
      <4> QED
        BY <1>1, <2>5, <3>1, <4>1, <4>2 DEF InList
    <3>2. CASE x # m
      BY <1>1, <1>3, <2>1, <2>4, <2>5, <3>2 DEF InList
    <3> QED
      BY <3>1, <3>2
  <2> QED
    BY <1>1, <1>2, <1>5, <2>1, <2>5, <2>6 DEF Accounts, Distinct
<1>8. CASE DispatchEnd \/ DispatchNothing
  <2>1. UNCHANGED <<array, count, refs>> /\ Listed' = Listed
    BY <1>8 DEF DispatchEnd, DispatchNothing, Listed
  <2> QED
    BY <1>1, <1>2, <2>1 DEF Accounts, InList
<1> QED
  BY <1>6, <1>7, <1>8 DEF Dispatch

(* The client takes references to what is alive, and gives back its own.   *)
LEMMA ClientKeepsAccounts ==
    ASSUME ListIInv, Accounts, OnEvent \/ GetMediaAt \/ ReleaseMedia
    PROVE  Accounts'
<1>1. UNCHANGED <<change, array, count, owners, stage>> /\ Listed' = Listed
  BY DEF OnEvent, GetMediaAt, ReleaseMedia, Listed
<1>2. refs \in [Media -> Nat] /\ held \in [Media -> Nat] /\ ListShape /\ queue \in Seq(Events)
  BY DEF ListIInv, ToldIInv, ListTypes, MirrorIInv
<1>3. \A m \in Media : InList(m)' = InList(m) /\ InList(m) \in 0 .. 1
  BY <1>1 DEF InList
<1>4. \A m \in Media :
        /\ refs[m] = held[m] + InList(m) => refs'[m] = held'[m] + InList(m)
        /\ refs[m] <= held[m] + InList(m) => refs'[m] <= held'[m] + InList(m)
        /\ refs[m] <= held[m] => refs'[m] <= held'[m]
  <2>1. CASE OnEvent
    <3>1. CASE UNCHANGED <<refs, held>>
      BY <1>1, <3>1
    <3>2. CASE ~UNCHANGED <<refs, held>>
      <4>1. PICK m : /\ refs' = [refs EXCEPT ![m] = @ + 1]
                     /\ held' = [held EXCEPT ![m] = @ + 1]
        BY <2>1, <3>2 DEF OnEvent
      <4> SUFFICES ASSUME NEW x \in Media
                   PROVE  /\ refs[x] = held[x] + InList(x) => refs'[x] = held'[x] + InList(x)
                          /\ refs[x] <= held[x] + InList(x) => refs'[x] <= held'[x] + InList(x)
                          /\ refs[x] <= held[x] => refs'[x] <= held'[x]
        OBVIOUS
      <4>2. refs[x] \in Nat /\ held[x] \in Nat /\ InList(x) \in 0 .. 1
        BY <1>2, <1>3
      <4>3. CASE x = m
        <5>1. refs'[x] = refs[x] + 1 /\ held'[x] = held[x] + 1
          BY <1>2, <4>1, <4>3
        <5> QED
          BY <4>2, <5>1
      <4>4. CASE x # m
        BY <1>2, <4>1, <4>4
      <4> QED
        BY <4>3, <4>4
    <3> QED
      BY <3>1, <3>2
  <2>2. CASE GetMediaAt
    <3>1. PICK i \in 1 .. count :
            /\ refs' = [refs EXCEPT ![array[i]] = IF @ > 0 THEN @ + 1 ELSE @]
            /\ held' = [held EXCEPT ![array[i]] = @ + 1]
      BY <2>2 DEF GetMediaAt
    <3>2. array[i] \in ToSet(Listed)
      <4>1. DOMAIN Listed = 1 .. count
        BY <1>2, ListedLength, LenProperties
      <4> QED
        BY <1>2, <4>1, ListedInArray DEF ToSet
    <3>3. InList(array[i]) = 1
      BY <3>2 DEF InList
    <3> QED
      BY <1>2, <1>3, <3>1, <3>3
  <2>3. CASE ReleaseMedia
    <3>1. PICK m \in Media : /\ held[m] > 0 /\ held' = [held EXCEPT ![m] = @ - 1]
                             /\ refs' = [refs EXCEPT ![m] = Released(m)]
      BY <2>3 DEF ReleaseMedia
    <3> SUFFICES ASSUME NEW x \in Media
                 PROVE  /\ refs[x] = held[x] + InList(x) => refs'[x] = held'[x] + InList(x)
                        /\ refs[x] <= held[x] + InList(x) => refs'[x] <= held'[x] + InList(x)
                        /\ refs[x] <= held[x] => refs'[x] <= held'[x]
      OBVIOUS
    <3>2. refs[x] \in Nat /\ held[x] \in Nat /\ InList(x) \in 0 .. 1
      BY <1>2, <1>3
    <3>3. CASE x = m
      <4>1. /\ refs'[x] = IF refs[x] > 0 THEN refs[x] - 1 ELSE 0
            /\ held'[x] = held[x] - 1 /\ held[x] > 0
        BY <1>2, <3>1, <3>3 DEF Released
      <4> QED
        BY <3>2, <4>1
    <3>4. CASE x # m
      BY <1>2, <3>1, <3>4
    <3> QED
      BY <3>3, <3>4
  <2> QED
    BY <2>1, <2>2, <2>3
<1>5. owners > 0 /\ NewIsUnknown => NewIsUnknown'
  <2> SUFFICES ASSUME owners > 0, NewIsUnknown, change.kind = "added"
               PROVE  NewIsUnknown'
    BY <1>1 DEF NewIsUnknown
  <2> DEFINE n == change.media
  <2>1. /\ n \in Media /\ n \notin ToSet(Listed) /\ refs[n] = 0 /\ held[n] = 0
        /\ \A k \in DOMAIN queue : queue[k].media # n
    BY DEF NewIsUnknown, ListIInv, MirrorIInv, DiffersByChange
  <2>2. refs'[n] = 0 /\ held'[n] = 0 /\ \A k \in DOMAIN queue' : queue'[k].media # n
    <3>1. CASE OnEvent
      <4>1. queue # <<>> /\ queue' = Tail(queue)
        BY <3>1 DEF OnEvent
      <4>2. /\ Len(queue) \in Nat \ {0} /\ DOMAIN queue = 1 .. Len(queue)
            /\ DOMAIN queue' = 1 .. Len(queue) - 1 /\ Head(queue) = queue[1]
            /\ \A k \in 1 .. Len(queue) - 1 : queue'[k] = queue[k + 1]
        BY <1>2, <4>1, EmptySeq, LenProperties, HeadTailProperties
      <4>3. Head(queue).media # n
        BY <2>1, <4>2
      <4>4. \A k \in DOMAIN queue' : queue'[k].media # n
        BY <2>1, <4>2
      <4> QED
        BY <1>2, <2>1, <3>1, <4>3, <4>4 DEF OnEvent
    <3>2. CASE GetMediaAt
      <4>1. PICK i \in 1 .. count :
              /\ refs' = [refs EXCEPT ![array[i]] = IF @ > 0 THEN @ + 1 ELSE @]
              /\ held' = [held EXCEPT ![array[i]] = @ + 1]
              /\ queue' = queue
        BY <3>2 DEF GetMediaAt
      <4>2. array[i] # n
        <5>1. DOMAIN Listed = 1 .. count
          BY <1>2, ListedLength, LenProperties
        <5> QED
          BY <1>2, <2>1, <5>1, ListedInArray DEF ToSet
      <4> QED
        BY <1>2, <2>1, <4>1, <4>2
    <3>3. CASE ReleaseMedia
      <4>1. PICK m \in Media : /\ held[m] > 0 /\ held' = [held EXCEPT ![m] = @ - 1]
                               /\ refs' = [refs EXCEPT ![m] = Released(m)]
                               /\ queue' = queue
        BY <3>3 DEF ReleaseMedia
      <4> QED
        BY <1>2, <2>1, <4>1
    <3> QED
      BY <3>1, <3>2, <3>3
  <2> QED
    BY <1>1, <2>1, <2>2 DEF NewIsUnknown
<1> QED
  BY <1>1, <1>3, <1>4, <1>5 DEF Accounts

(* The list gives back its references once, with the native object.        *)
LEMMA ReleaseKeepsAccounts ==
    ASSUME ListIInv, Accounts, RetainList \/ ReleaseList \/ Detach \/ FreeNative
    PROVE  Accounts'
<1>1. UNCHANGED <<change, array, count, held>> /\ Listed' = Listed
  BY DEF RetainList, ReleaseList, Detach, FreeNative, Listed
<1>2. /\ refs \in [Media -> Nat] /\ held \in [Media -> Nat] /\ ListShape
      /\ owners \in Nat /\ (owners > 0 => stage = "live")
  BY DEF ListIInv, ToldIInv, ListTypes, MirrorIInv, ListShape
<1>3. \A m \in Media : InList(m)' = InList(m) /\ InList(m) \in 0 .. 1
  BY <1>1 DEF InList
<1>4. CASE RetainList
  <2>1. owners > 0 /\ owners' = owners + 1 /\ UNCHANGED <<stage, refs, queue>>
    BY <1>4 DEF RetainList
  <2> QED
    BY <1>1, <1>2, <1>3, <2>1 DEF Accounts, NewIsUnknown
<1>5. CASE ReleaseList
  <2>1. /\ owners > 0 /\ owners' = owners - 1 /\ refs' = refs
        /\ stage' = IF owners' = 0 THEN "cleared" ELSE "live"
        /\ queue' = IF owners' = 0 THEN <<>> ELSE queue
    BY <1>5 DEF ReleaseList
  <2>2. /\ Distinct(Listed) /\ NewIsUnknown
        /\ \A m \in Media : refs[m] = held[m] + InList(m)
    BY <2>1 DEF Accounts
  <2>3. CASE owners' = 0
    BY <1>1, <1>2, <1>3, <2>1, <2>2, <2>3 DEF Accounts
  <2>4. CASE owners' # 0
    BY <1>1, <1>2, <1>3, <2>1, <2>2, <2>4 DEF Accounts, NewIsUnknown
  <2> QED
    BY <2>3, <2>4
<1>6. CASE Detach
  <2>1. stage = "cleared" /\ stage' = "detached" /\ UNCHANGED <<owners, refs>> /\ owners = 0
    BY <1>2, <1>6 DEF Detach
  <2> QED
    BY <1>1, <1>3, <2>1 DEF Accounts
<1>7. CASE FreeNative
  <2> DEFINE Places(m) == {i \in DOMAIN array : array[i] = m}
             SlotsOf(m) == Cardinality(Places(m))
  <2>1. /\ stage = "detached" /\ stage' = "freed" /\ owners' = owners /\ owners = 0
        /\ refs' = [m \in Media |-> IF refs[m] > SlotsOf(m) THEN refs[m] - SlotsOf(m) ELSE 0]
    BY <1>2, <1>7 DEF FreeNative
  <2>2. ASSUME NEW m \in Media PROVE SlotsOf(m) \in Nat /\ SlotsOf(m) >= InList(m)
    <3>1. DOMAIN array = 1 .. Len(array) /\ Len(array) \in Nat
      BY <1>2, LenProperties DEF ListShape
    <3>2. IsFiniteSet(1 .. Len(array)) /\ Places(m) \in SUBSET (1 .. Len(array))
      BY <3>1, FS_Interval
    <3>3. IsFiniteSet(Places(m)) /\ SlotsOf(m) \in Nat
      BY <3>2, FS_Subset, FS_CardinalityType
    <3>4. CASE m \in ToSet(Listed)
      <4>1. PICK i \in DOMAIN array : array[i] = m
        BY <1>2, <3>4, ListedInArray DEF ToSet
      <4>2. Places(m) # {}
        BY <4>1
      <4>3. SlotsOf(m) # 0
        <5> HIDE DEF Places
        <5> QED
          BY <3>3, <4>2, FS_EmptySet
      <4> HIDE DEF SlotsOf
      <4> QED
        BY <1>3, <3>3, <4>3
    <3>5. CASE m \notin ToSet(Listed)
      <4> HIDE DEF SlotsOf
      <4> QED
        BY <3>3, <3>5 DEF InList
    <3> QED
      BY <3>4, <3>5
  <2>3. \A m \in Media : refs[m] <= held[m] + InList(m)
    BY <2>1 DEF Accounts
  <2> HIDE DEF SlotsOf
  <2>4. \A m \in Media : refs'[m] <= held'[m]
    BY <1>1, <1>2, <1>3, <2>1, <2>2, <2>3
  <2> QED
    BY <2>1, <2>4 DEF Accounts
<1> QED
  BY <1>4, <1>5, <1>6, <1>7

AccountIInv == ListIInv /\ Accounts

LEMMA AlwaysAccountIInv == ListSpec => []AccountIInv
<1>1. ListInit => AccountIInv
  BY MirrorInit, ReleaseInit, ToldInit, AccountsInit DEF AccountIInv, ListIInv
<1>2. AccountIInv /\ [ListNext]_listVars => Accounts'
  <2> SUFFICES ASSUME ListIInv, Accounts, [ListNext]_listVars PROVE Accounts'
    BY DEF AccountIInv
  <2>1. CASE UNCHANGED listVars
    BY <2>1 DEF listVars, Accounts, InList, NewIsUnknown, Listed
  <2> QED
    BY <2>1, NativeKeepsAccounts, DispatchKeepsAccounts, ClientKeepsAccounts,
       ReleaseKeepsAccounts DEF ListNext, NativeStep, ReleaseStep
<1>3. AccountIInv /\ [ListNext]_listVars => ListIInv'
  BY MirrorStep, ReleaseKeepsQuiet, ToldStep DEF ListIInv, AccountIInv
<1>4. AccountIInv /\ [ListNext]_listVars => AccountIInv'
  BY <1>2, <1>3 DEF AccountIInv
<1> QED
  BY <1>1, <1>4, PTL DEF ListSpec

(* Until the last release() of the list a media has one reference if the   *)
(* list holds it and one for each Media object of the client: the client   *)
(* never gets hold of a media whose native object is gone.                 *)
THEOREM EachReferenceIsHeld == ListSpec => []CountsAreHeld
<1>1. AccountIInv => CountsAreHeld
  BY DEF AccountIInv, Accounts, CountsAreHeld, InList
<1> QED
  BY <1>1, AlwaysAccountIInv, PTL

(* The native list gives its references back when it is freed: what is     *)
(* left of them belongs to the client, also when the last release() came   *)
(* while the event of an insertion or a removal was under way.             *)
THEOREM NoReferenceLeaks == ListSpec => []NothingLeaks
<1>1. AccountIInv => NothingLeaks
  BY DEF AccountIInv, Accounts, NothingLeaks
<1> QED
  BY <1>1, AlwaysAccountIInv, PTL
=============================================================================
