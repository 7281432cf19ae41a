----------------------- MODULE PlaybackServiceProofs -----------------------
(***************************************************************************)
(* What is proved about PlaybackService, for every value of its constants. *)
(*                                                                         *)
(* The handlers are operators from a state to the set of states they may   *)
(* leave.  Each has a lemma that says what it leaves alone (Determined,    *)
(* Untouched, Kept, Edited) and what it preserves; the lemma of a handler  *)
(* cites those of the handlers it calls.  The inductive invariant Good is  *)
(* a predicate on a state:                                                 *)
(*   - the state has its type,                                             *)
(*   - a song has only its own events in the queue (Own),                  *)
(*   - while the list is watched, the current position and its neighbours  *)
(*     are positions of the list or -1 (InRange),                          *)
(*   - the loops insert at positions that exist (Loop).                    *)
(* InRange speaks of every watched state between steps, IndicesInRange     *)
(* only of those with a current media: next() and the listener move to a   *)
(* neighbour before a media is current again.                              *)
(*                                                                         *)
(* Two more invariants stand on Good, each in a part of its own at the     *)
(* end: Settled (the cached next position is what a fresh computation      *)
(* gives) and InStep (the current position designates what plays).         *)
(***************************************************************************)
EXTENDS PlaybackService, MediaWrapperListProofs

(* A step that Become(S) allows leads to one of the states of S. *)
LEMMA BecomeNow ==
    ASSUME NEW STATE S, S \subseteq State, Become(S)
    PROVE  Now' \in S
<1>1. PICK t \in S :
        /\ list' = t.list             /\ watched' = t.watched
        /\ cur' = t.cur               /\ prev' = t.prev
        /\ next' = t.next             /\ previous' = t.previous
        /\ shuffling' = t.shuffling   /\ repeating' = t.repeating
        /\ stopped' = t.stopped       /\ background' = t.background
        /\ forced' = t.forced         /\ media' = t.media
        /\ phase' = t.phase           /\ listened' = t.listened
        /\ attached' = t.attached     /\ queue' = t.queue
        /\ stops' = t.stops           /\ clearing' = t.clearing
        /\ main' = t.main             /\ todo' = t.todo
        /\ at' = t.at
  BY DEF Become
<1>2. t \in State
  OBVIOUS
<1>3. Now' = t
  BY <1>1, <1>2 DEF Now, State
<1> QED
  BY <1>3


(* What determinePrevAndNextIndices leaves alone. *)
Determined(s, t) ==
    /\ t \in State
    /\ t.list = s.list /\ t.watched = s.watched /\ t.cur = s.cur
    /\ t.media = s.media /\ t.queue = s.queue
    /\ t.todo = s.todo /\ t.at = s.at /\ t.main \in {s.main, "hung"}

(* The cached neighbours are positions of the list, or -1. *)
Neighbours(s) ==
    s.list # <<>> => s.prev \in -1 .. Len(s.list) - 1 /\ s.next \in -1 .. Len(s.list) - 1

(* While the list is watched, outside the expansion, so is the current one. *)
Placed(s) ==
    s.watched /\ s.main \in {"idle", "insert", "remove"} => s.cur \in -1 .. Len(s.list) - 1

InRange(s) ==
    /\ Placed(s)
    /\ s.watched /\ s.main \in {"idle", "insert", "remove"} => Neighbours(s)

(* What plays as a song has only its own events in the queue. *)
Own(s) == s.media \in Media \ Video => \A k \in DOMAIN s.queue : ~s.queue[k].stale

(* The branch for the list order only writes the two neighbours. *)
LEMMA NormalFrame ==
    ASSUME NEW s \in State
    PROVE  Determined(s, NormalIndices(s))
<1> DEFINE x == IF s.cur > 0 THEN s.cur - 1 ELSE -1
           y == IF s.cur + 1 < Len(s.list) THEN s.cur + 1
                ELSE IF s.repeating = "none" THEN -1 ELSE 0
<1>1. NormalIndices(s) = [s EXCEPT !.prev = x, !.next = y]
  BY DEF NormalIndices
<1>2. s.cur \in Positions /\ Len(s.list) \in Nat
  BY DEF State
<1>3. x \in Positions /\ y \in Positions
  BY <1>2 DEF Positions
<1> HIDE DEF x, y
<1> QED
  BY <1>1, <1>3 DEF State, Determined

(* The stack keeps its type, and its new top is a position of the list. *)
LEMMA DropInvalidType ==
    ASSUME NEW s \in State
    PROVE  /\ DropInvalid(s) \in Seq(Positions)
           /\ DropInvalid(s) # <<>> =>
                 ValidIndex(s, DropInvalid(s)[Len(DropInvalid(s))])
<1> DEFINE n == Len(s.previous)
           good == {k \in 1 .. n : ValidIndex(s, s.previous[k])}
           top == IF good = {} THEN 0 ELSE CHOOSE k \in good : \A j \in good : j <= k
<1>1. s.previous \in Seq(Positions) /\ n \in Nat
  BY DEF State
<1>2. DropInvalid(s) = SubSeq(s.previous, 1, top)
  BY DEF DropInvalid
<1>3. CASE good = {}
  <2>1. DropInvalid(s) = SubSeq(s.previous, 1, 0)
    BY <1>2, <1>3
  <2> QED
    BY <2>1, <1>1, SubSeqEmpty
<1>4. CASE good # {}
  <2>1. \E k \in good : \A j \in good : j <= k
    BY <1>1, <1>4, LastOne
  <2>2. top \in good
    BY <1>4, <2>1
  <2>3. top \in 1 .. n /\ ValidIndex(s, s.previous[top])
    BY <2>2
  <2> HIDE DEF good, top
  <2>4. DropInvalid(s) \in Seq(Positions) /\ Len(DropInvalid(s)) = top
    BY <1>1, <1>2, <2>3, PrefixType
  <2>5. DropInvalid(s)[top] = s.previous[top]
    BY <1>1, <1>2, <2>3
  <2> QED
    BY <2>3, <2>4, <2>5
<1> QED
  BY <1>3, <1>4

(* The draw writes the next position, or hangs. *)
LEMMA DrawFrame ==
    ASSUME NEW s \in State, NEW t \in Draw(s)
    PROVE  Determined(s, t)
<1>1. Candidates(s) \subseteq Positions
  BY DEF Candidates, Positions, State
<1>2. CASE t = [s EXCEPT !.main = "hung"]
  BY <1>2 DEF State, Determined
<1>3. ASSUME NEW i \in Positions, t = [s EXCEPT !.next = i]
      PROVE  Determined(s, t)
  BY <1>3 DEF State, Determined
<1> QED
  BY <1>1, <1>2, <1>3 DEF Draw

(* The shuffle branch only writes the neighbours and the stack. *)
LEMMA ShuffleFrame ==
    ASSUME NEW s \in State, NEW t \in ShuffleIndices(s)
    PROVE  Determined(s, t)
<1> DEFINE stack == DropInvalid(s)
           x == IF stack = <<>> THEN -1 ELSE stack[Len(stack)]
           u == [s EXCEPT !.previous = stack, !.prev = x]
           w == [u EXCEPT !.previous = <<>>]
<1>1. stack \in Seq(Positions)
  BY DropInvalidType
<1>2. x \in Positions
  BY <1>1 DEF Positions
<1> HIDE DEF stack, x
<1>3. u \in State /\ Determined(s, u)
  BY <1>1, <1>2 DEF State, Determined
<1> HIDE DEF u
<1>c. <<>> \in Seq(Positions)
  OBVIOUS
<1>4. w \in State /\ Determined(s, w)
  BY <1>3, <1>c DEF State, Determined
<1>a. ShuffleIndices(s) =
        IF Len(stack) + 1 # Len(s.list) THEN Draw(u)
        ELSE IF s.repeating = "none" THEN {u} ELSE Draw(w)
  BY Zenon DEF ShuffleIndices, stack, x, u
<1>5. t \in Draw(u) \/ t = u \/ t \in Draw(w)
  BY <1>a, Zenon
<1> HIDE DEF w
<1>6. ASSUME NEW v \in State, Determined(s, v), t \in Draw(v)
      PROVE  Determined(s, t)
  BY <1>6, DrawFrame DEF Determined
<1> QED
  BY <1>3, <1>4, <1>5, <1>6

(* determinePrevAndNextIndices leaves list, current position and player alone. *)
LEMMA DetermineFrame ==
    ASSUME NEW s \in State, NEW t \in Determine(s)
    PROVE  Determined(s, t)
<1> DEFINE b == s.shuffling /\ Len(s.list) > 2
           u == [s EXCEPT !.prev = -1, !.next = -1, !.shuffling = b]
           w == [u EXCEPT !.prev = s.cur, !.next = s.cur]
<1>a. b \in BOOLEAN
  OBVIOUS
<1>b. -1 \in Positions
  BY DEF Positions
<1> HIDE DEF b
<1>1. u \in State /\ Determined(s, u)
  BY <1>a, <1>b DEF State, Determined
<1>2. w \in State /\ Determined(s, w)
  BY <1>1 DEF State, Determined
<1>3. t = s \/ t = w \/ t \in ShuffleIndices(u) \/ t = NormalIndices(u)
  BY Zenon DEF Determine, b
<1>4. CASE t = s
  BY <1>4 DEF Determined
<1>5. CASE t = w
  BY <1>2, <1>5
<1> HIDE DEF u, w
<1>6. CASE t \in ShuffleIndices(u) \/ t = NormalIndices(u)
  <2>1. Determined(u, t)
    BY <1>1, <1>6, ShuffleFrame, NormalFrame
  <2> QED
    BY <1>1, <2>1 DEF Determined
<1> QED
  BY <1>3, <1>4, <1>5, <1>6

(* A position that was drawn is one of the list. *)
LEMMA DrawNeighbours ==
    ASSUME NEW s \in State, s.prev \in -1 .. Len(s.list) - 1,
           NEW t \in Draw(s), t.main # "hung"
    PROVE  Neighbours(t)
<1>1. CASE t = [s EXCEPT !.main = "hung"]
  BY <1>1 DEF State
<1>2. ASSUME NEW i \in Candidates(s), t = [s EXCEPT !.next = i]
      PROVE  Neighbours(t)
  <2>1. i \in 0 .. Len(s.list) - 1
    BY DEF Candidates
  <2>2. t.prev = s.prev /\ t.next = i /\ t.list = s.list
    BY <1>2 DEF State
  <2> QED
    BY <2>1, <2>2 DEF Neighbours
<1> QED
  BY <1>1, <1>2 DEF Draw

(* So are the neighbours in shuffle mode. *)
LEMMA ShuffleNeighbours ==
    ASSUME NEW s \in State, s.next = -1, s.list # <<>>,
           NEW t \in ShuffleIndices(s), t.main # "hung"
    PROVE  Neighbours(t)
<1> DEFINE stack == DropInvalid(s)
           x == IF stack = <<>> THEN -1 ELSE stack[Len(stack)]
           u == [s EXCEPT !.previous = stack, !.prev = x]
           w == [u EXCEPT !.previous = <<>>]
<1>1. stack \in Seq(Positions) /\ (stack # <<>> => ValidIndex(s, stack[Len(stack)]))
  BY DropInvalidType
<1>2. s.list \in Seq(Media) /\ Len(s.list) \in Nat /\ Len(s.list) # 0
  BY DEF State
<1>3. x \in Positions /\ x \in -1 .. Len(s.list) - 1
  BY <1>1, <1>2 DEF Positions, ValidIndex, Valid
<1> HIDE DEF stack, x
<1>4. /\ u \in State
      /\ u.prev = x /\ u.next = -1 /\ u.list = s.list
  BY <1>1, <1>3 DEF State
<1> HIDE DEF u
<1>5. <<>> \in Seq(Positions)
  OBVIOUS
<1>6. /\ w \in State
      /\ w.prev = x /\ w.next = -1 /\ w.list = s.list
  BY <1>4, <1>5 DEF State
<1>7. ShuffleIndices(s) =
        IF Len(stack) + 1 # Len(s.list) THEN Draw(u)
        ELSE IF s.repeating = "none" THEN {u} ELSE Draw(w)
  BY Zenon DEF ShuffleIndices, stack, x, u
<1>8. t \in Draw(u) \/ t = u \/ t \in Draw(w)
  BY <1>7, Zenon
<1> HIDE DEF w
<1>9. CASE t = u
  BY <1>2, <1>3, <1>4, <1>9 DEF Neighbours
<1> QED
  BY <1>3, <1>4, <1>6, <1>8, <1>9, DrawNeighbours

(* And in list order, if the current position is in the list or -1. *)
LEMMA NormalNeighbours ==
    ASSUME NEW s \in State, s.cur \in -1 .. Len(s.list) - 1
    PROVE  Neighbours(NormalIndices(s))
<1> DEFINE x == IF s.cur > 0 THEN s.cur - 1 ELSE -1
           y == IF s.cur + 1 < Len(s.list) THEN s.cur + 1
                ELSE IF s.repeating = "none" THEN -1 ELSE 0
           t == [s EXCEPT !.prev = x, !.next = y]
<1>1. NormalIndices(s) = t
  BY DEF NormalIndices
<1>2. s.list \in Seq(Media) /\ Len(s.list) \in Nat /\ (s.list # <<>> => Len(s.list) # 0)
  BY DEF State
<1>3. s.list # <<>> => x \in -1 .. Len(s.list) - 1 /\ y \in -1 .. Len(s.list) - 1
  BY <1>2
<1> HIDE DEF x, y
<1>4. t.list = s.list /\ t.prev = x /\ t.next = y
  BY DEF State
<1> QED
  BY <1>1, <1>3, <1>4 DEF Neighbours

(* In every mode, unless the draw hangs. *)
LEMMA DetermineNeighbours ==
    ASSUME NEW s \in State, ~Stuck(s), s.cur \in -1 .. Len(s.list) - 1,
           NEW t \in Determine(s), t.main # "hung"
    PROVE  Neighbours(t)
<1> DEFINE b == s.shuffling /\ Len(s.list) > 2
           u == [s EXCEPT !.prev = -1, !.next = -1, !.shuffling = b]
           w == [u EXCEPT !.prev = s.cur, !.next = s.cur]
<1>1. b \in BOOLEAN
  OBVIOUS
<1>2. -1 \in Positions
  BY DEF Positions
<1> HIDE DEF b
<1>3. /\ u \in State
      /\ u.list = s.list /\ u.cur = s.cur /\ u.next = -1 /\ u.shuffling = b
  BY <1>1, <1>2 DEF State
<1> HIDE DEF u
<1>4. w.list = s.list /\ w.prev = s.cur /\ w.next = s.cur
  BY <1>3 DEF State
<1>5. t = w \/ (b /\ t \in ShuffleIndices(u)) \/ t = NormalIndices(u)
  BY <1>3, Zenon DEF Determine, u, b
<1>6. b => s.list # <<>>
  BY DEF b
<1> HIDE DEF w
<1>7. CASE t = w
  BY <1>4, <1>7 DEF Neighbours
<1>8. CASE t = NormalIndices(u)
  BY <1>3, <1>8, NormalNeighbours
<1>9. CASE b /\ t \in ShuffleIndices(u)
  BY <1>3, <1>6, <1>9, ShuffleNeighbours
<1> QED
  BY <1>5, <1>7, <1>8, <1>9

(* determinePrevAndNextIndices establishes InRange from Placed. *)
LEMMA DetermineInRange ==
    ASSUME NEW s \in State, Placed(s), NEW t \in Determine(s)
    PROVE  InRange(t)
<1>1. Determined(s, t)
  BY DetermineFrame
<1>2. SUFFICES ASSUME t.watched, t.main \in {"idle", "insert", "remove"}
               PROVE  t.cur \in -1 .. Len(t.list) - 1 /\ Neighbours(t)
  BY DEF InRange, Placed
<1>3. s.watched /\ s.main = t.main
  BY <1>1, <1>2 DEF Determined
<1>4. s.cur \in -1 .. Len(s.list) - 1 /\ ~Stuck(s)
  BY <1>2, <1>3 DEF Placed, Stuck
<1>5. Neighbours(t)
  BY <1>2, <1>4, DetermineNeighbours
<1> QED
  BY <1>1, <1>4, <1>5 DEF Determined

(* The player's operations leave the playlist and the main thread alone. *)
Untouched(s, t) ==
    /\ t \in State
    /\ t.list = s.list /\ t.watched = s.watched /\ t.cur = s.cur
    /\ t.prev = s.prev /\ t.next = s.next
    /\ t.todo = s.todo /\ t.at = s.at /\ t.main = s.main

(* Events that became stale are events. *)
LEMMA StaledType ==
    ASSUME NEW q \in Seq(Event)
    PROVE  Staled(q) \in Seq(Event)
<1>1. DOMAIN q = 1 .. Len(q) /\ Len(q) \in Nat /\ \A k \in DOMAIN q : q[k] \in Event
  OBVIOUS
<1>2. \A k \in DOMAIN q : [q[k] EXCEPT !.stale = TRUE] \in Event
  BY <1>1 DEF Event
<1>3. Staled(q) \in [1 .. Len(q) -> Event]
  BY <1>1, <1>2 DEF Staled
<1> QED
  BY <1>1, <1>3

(* setMedia *)
LEMMA SetMediaFrame ==
    ASSUME NEW s \in State, NEW m \in Media \cup {None}
    PROVE  Untouched(s, SetMedia(s, m)) /\ SetMedia(s, m).media = m
<1>1. Staled(s.queue) \in Seq(Event)
  BY StaledType DEF State
<1>2. "nothing" \in Phases
  BY DEF Phases
<1> QED
  BY <1>1, <1>2 DEF SetMedia, State, Untouched

(* setEventListener: what plays has only its own events, for the queue is empty. *)
LEMMA ListenFrame ==
    ASSUME NEW s \in State, NEW on \in BOOLEAN
    PROVE  /\ Untouched(s, Listen(s, on))
           /\ Listen(s, on).media = s.media /\ Own(Listen(s, on))
<1> DEFINE t == Listen(s, on)
<1>1. <<>> \in Seq(Event)
  OBVIOUS
<1>2. Untouched(s, t) /\ t.media = s.media /\ t.queue = <<>>
  BY <1>1 DEF Listen, State, Untouched
<1> HIDE DEF t
<1>3. Own(t)
  BY <1>2 DEF Own
<1> QED
  BY <1>2, <1>3 DEF t

(* An event that is posted belongs to what the player has. *)
LEMMA PostFrame ==
    ASSUME NEW s \in State, NEW type \in EventTypes
    PROVE  /\ Untouched(s, Post(s, type)) /\ Post(s, type).media = s.media
           /\ Own(s) => Own(Post(s, type))
<1> DEFINE e == [type |-> type, stale |-> FALSE]
           events == Append(s.queue, e)
           t == [s EXCEPT !.queue = events]
<1>1. e \in Event /\ ~e.stale
  BY DEF Event
<1>2. s.queue \in Seq(Event)
  BY DEF State
<1> HIDE DEF e
<1>3. /\ events \in Seq(Event)
      /\ \A k \in DOMAIN events : events[k] = e \/ (k \in DOMAIN s.queue /\ events[k] = s.queue[k])
  BY <1>1, <1>2
<1> HIDE DEF events
<1>4. Untouched(s, t) /\ t.media = s.media /\ t.queue = events
  BY <1>3 DEF State, Untouched
<1> HIDE DEF t
<1>5. Own(s) => Own(t)
  BY <1>1, <1>3, <1>4 DEF Own
<1>6. Untouched(s, s)
  BY DEF Untouched
<1>7. Post(s, type) = IF s.listened THEN t ELSE s
  BY Zenon DEF Post, t, events, e
<1> QED
  BY <1>4, <1>5, <1>6, <1>7

(* MediaPlayer.play *)
LEMMA PlayerPlayFrame ==
    ASSUME NEW s \in State
    PROVE  /\ Untouched(s, PlayerPlay(s)) /\ PlayerPlay(s).media = s.media
           /\ Own(s) => Own(PlayerPlay(s))
<1> DEFINE u == [s EXCEPT !.phase = "opening"]
           w == [s EXCEPT !.phase = "playing"]
<1>1. {"opening", "playing"} \subseteq Phases /\ "Playing" \in EventTypes
  BY DEF Phases, EventTypes
<1>2. Untouched(s, u) /\ u.media = s.media /\ u.queue = s.queue
  BY <1>1 DEF State, Untouched
<1>3. Untouched(s, w) /\ w.media = s.media /\ w.queue = s.queue
  BY <1>1 DEF State, Untouched
<1>4. PlayerPlay(s) = u \/ PlayerPlay(s) = Post(w, "Playing") \/ PlayerPlay(s) = s
  BY Zenon DEF PlayerPlay
<1> HIDE DEF u, w
<1>5. /\ Untouched(w, Post(w, "Playing")) /\ Post(w, "Playing").media = w.media
      /\ Own(w) => Own(Post(w, "Playing"))
  BY <1>1, <1>3, PostFrame DEF Untouched
<1>6. Own(s) <=> Own(w)
  BY <1>3 DEF Own
<1>7. Own(s) <=> Own(u)
  BY <1>2 DEF Own
<1> QED
  BY <1>2, <1>3, <1>4, <1>5, <1>6, <1>7 DEF Untouched

-----------------------------------------------------------------------------
(* What playing, stopping and skipping leave alone, and what they preserve. *)
Kept(s, t) ==
    /\ t \in State
    /\ t.list = s.list /\ t.todo = s.todo /\ t.at = s.at
    /\ t.main \in {s.main, "hung"} /\ (t.watched => s.watched)
    /\ Own(s) => Own(t)

(* The frames are ordered: Determined is the stronger one. *)
LEMMA DeterminedKept ==
    ASSUME NEW s \in State, NEW t, Determined(s, t)
    PROVE  Kept(s, t)
BY DEF Determined, Kept, Own

(* InRange does not look at what the player operations write. *)
LEMMA UntouchedInRange ==
    ASSUME NEW s \in State, NEW t, Untouched(s, t)
    PROVE  (Placed(s) <=> Placed(t)) /\ (InRange(s) <=> InRange(t))
BY DEF Untouched, Placed, InRange, Neighbours

(* playIndex *)
LEMMA PlayIndexFrame ==
    ASSUME NEW s \in State, NEW i \in Positions, NEW t \in PlayIndex(s, i)
    PROVE  /\ Kept(s, t)
           /\ Placed(s) => Placed(t)
           /\ InRange(s) => InRange(t)
<1>1. CASE t = s
  BY <1>1 DEF Kept
<1>2. CASE s.list # <<>> /\ t = [s EXCEPT !.cur = 0]
  <2>1. s.list \in Seq(Media) /\ 0 \in Positions /\ 0 \in -1 .. Len(s.list) - 1
    BY <1>2 DEF State, Positions
  <2>2. /\ t \in State
        /\ t.list = s.list /\ t.watched = s.watched /\ t.cur = 0
        /\ t.prev = s.prev /\ t.next = s.next
        /\ t.todo = s.todo /\ t.at = s.at /\ t.main = s.main
        /\ t.media = s.media /\ t.queue = s.queue
    BY <1>2, <2>1 DEF State
  <2> QED
    BY <2>1, <2>2 DEF Kept, Own, Placed, InRange, Neighbours
<1>3. CASE /\ ValidIndex(s, i)
           /\ t \in LET m == Item(s.list, i)
                        w == SetMedia([s EXCEPT !.cur = i,
                                 !.forced = IF s.background THEN @ \cup ({m} \cap Video)
                                            ELSE @], m)
                    IN  IF PlaysAtOnce(w, m)
                        THEN Determine(PlayerPlay(Listen(w, TRUE)))
                        ELSE {w}
  <2> DEFINE m == Item(s.list, i)
             f == IF s.background THEN s.forced \cup ({m} \cap Video) ELSE s.forced
             v == [s EXCEPT !.cur = i, !.forced = f]
             w == SetMedia(v, m)
             x == PlayerPlay(Listen(w, TRUE))
  <2>1. IF PlaysAtOnce(w, m) THEN t \in Determine(x) ELSE t = w
    BY <1>3, Zenon
  <2>2. i \in -1 .. Len(s.list) - 1 /\ m \in Media
    BY <1>3 DEF ValidIndex, Valid, Item, State
  <2>3. f \in SUBSET Video
    BY DEF State
  <2> HIDE DEF m, f
  <2>4. /\ v \in State
        /\ v.list = s.list /\ v.watched = s.watched /\ v.cur = i
        /\ v.prev = s.prev /\ v.next = s.next
        /\ v.todo = s.todo /\ v.at = s.at /\ v.main = s.main
    BY <2>3 DEF State
  <2> HIDE DEF v
  <2>5. Untouched(v, w) /\ w.media = m
    BY <2>2, <2>4, SetMediaFrame
  <2> HIDE DEF w
  <2>6. Untouched(w, x) /\ Own(x)
    <3>1. Untouched(w, Listen(w, TRUE)) /\ Own(Listen(w, TRUE))
      BY <2>5, ListenFrame DEF Untouched
    <3> QED
      BY <3>1, PlayerPlayFrame DEF Untouched
  <2> HIDE DEF x
  <2>7. Placed(v) /\ (InRange(s) => InRange(v))
    BY <2>2, <2>4 DEF Placed, InRange, Neighbours
  <2>8. CASE PlaysAtOnce(w, m)
    <3>1. Determined(x, t)
      BY <2>1, <2>6, <2>8, DetermineFrame DEF Untouched
    <3>2. Placed(x)
      BY <2>4, <2>5, <2>6, <2>7, UntouchedInRange DEF Untouched
    <3>3. InRange(t)
      BY <2>1, <2>6, <2>8, <3>2, DetermineInRange DEF Untouched
    <3>4. Kept(s, t)
      BY <2>4, <2>5, <2>6, <3>1 DEF Kept, Untouched, Determined, Own
    <3> QED
      BY <3>3, <3>4 DEF InRange
  <2>9. CASE ~PlaysAtOnce(w, m)
    <3>1. t = w /\ m \in Video
      BY <2>1, <2>9 DEF PlaysAtOnce
    <3>2. Own(t)
      BY <3>1, <2>5 DEF Own
    <3>3. Kept(s, t)
      BY <2>4, <2>5, <3>1, <3>2 DEF Kept, Untouched
    <3> QED
      BY <2>4, <2>5, <2>7, <3>1, <3>3, UntouchedInRange
  <2> QED
    BY <2>8, <2>9
<1> QED
  BY <1>1, <1>2, <1>3 DEF PlayIndex

(* Handlers that call one after the other keep what each keeps. *)
LEMMA KeptTransitive ==
    ASSUME NEW s, NEW t, NEW u, Kept(s, t), Kept(t, u)
    PROVE  Kept(s, u)
BY DEF Kept

(* onPlaybackStopped *)
LEMMA StoppedFrame ==
    ASSUME NEW s \in State
    PROVE  /\ Kept(s, OnPlaybackStopped(s)) /\ OnPlaybackStopped(s).watched = s.watched
           /\ InRange(s) => InRange(OnPlaybackStopped(s))
<1> DEFINE t == [s EXCEPT !.stopped = TRUE, !.cur = -1]
<1>1. -1 \in Positions
  BY DEF Positions
<1>2. /\ t \in State
      /\ t.list = s.list /\ t.watched = s.watched /\ t.cur = -1
      /\ t.prev = s.prev /\ t.next = s.next
      /\ t.todo = s.todo /\ t.at = s.at /\ t.main = s.main
      /\ t.media = s.media /\ t.queue = s.queue
  BY <1>1 DEF State
<1>3. OnPlaybackStopped(s) = s \/ OnPlaybackStopped(s) = t
  BY Zenon DEF OnPlaybackStopped
<1>4. Len(s.list) \in Nat
  BY DEF State
<1> HIDE DEF t
<1>5. Kept(s, t) /\ (InRange(s) => InRange(t))
  BY <1>2, <1>4 DEF Kept, Own, InRange, Placed, Neighbours
<1> QED
  BY <1>2, <1>3, <1>5 DEF Kept

(* stop: the list is no longer watched. *)
LEMMA StopFrame ==
    ASSUME NEW s \in State
    PROVE  Kept(s, Stop(s)) /\ InRange(Stop(s))
<1> DEFINE k == Listen(s, FALSE)
           u == [k EXCEPT !.stops = k.stops + 1]
           t == IF s.media = None THEN s ELSE u
           v == [t EXCEPT !.watched = FALSE, !.previous = <<>>]
<1>1. Untouched(s, k) /\ k.media = s.media /\ Own(k)
  BY ListenFrame
<1> HIDE DEF k
<1>2. Untouched(s, u) /\ u.media = k.media /\ u.queue = k.queue
  <2>1. k \in State /\ k.stops + 1 \in Nat
    BY <1>1 DEF Untouched, State
  <2>2. Untouched(k, u) /\ u.media = k.media /\ u.queue = k.queue
    BY <2>1 DEF State, Untouched
  <2> QED
    BY <1>1, <2>2 DEF Untouched
<1> HIDE DEF u
<1>3. Untouched(s, t) /\ (Own(s) => Own(t))
  BY <1>1, <1>2 DEF Own, Untouched
<1> HIDE DEF t
<1>4. <<>> \in Seq(Positions)
  OBVIOUS
<1>5. Kept(t, v) /\ v.watched = FALSE
  BY <1>3, <1>4 DEF Untouched, State, Kept, Own
<1>6. Stop(s) = IF Stuck(s) THEN s ELSE OnPlaybackStopped(v)
  BY Zenon DEF Stop, v, t, u, k
<1> HIDE DEF v
<1>7. CASE Stuck(s)
  BY <1>6, <1>7 DEF Kept, InRange, Placed, Stuck
<1>8. CASE ~Stuck(s)
  <2>1. Kept(s, t)
    BY <1>3 DEF Untouched, Kept
  <2>2. Kept(v, Stop(s)) /\ Stop(s).watched = FALSE
    BY <1>5, <1>6, <1>8, StoppedFrame DEF Kept
  <2>3. InRange(Stop(s))
    BY <2>2 DEF InRange, Placed
  <2> QED
    BY <1>5, <2>1, <2>2, <2>3, KeptTransitive
<1> QED
  BY <1>7, <1>8

(* next *)
LEMMA NextTrackFrame ==
    ASSUME NEW s \in State,
           s.watched /\ s.main \in {"idle", "insert", "remove"} => Neighbours(s),
           NEW t \in NextTrack(s)
    PROVE  Kept(s, t) /\ InRange(t)
<1> DEFINE stack == Append(s.previous, s.cur)
           u == [s EXCEPT !.previous = stack, !.cur = s.next]
           b == ~u.attached /\ CanSwitchToVideo(u)
           w == [u EXCEPT !.background = b]
<1>1. stack \in Seq(Positions) /\ s.next \in Positions
  BY DEF State
<1> HIDE DEF stack
<1>2. /\ u \in State
      /\ u.list = s.list /\ u.watched = s.watched /\ u.cur = s.next
      /\ u.prev = s.prev /\ u.next = s.next
      /\ u.todo = s.todo /\ u.at = s.at /\ u.main = s.main
      /\ u.media = s.media /\ u.queue = s.queue
  BY <1>1 DEF State
<1> HIDE DEF u
<1>3. Kept(s, u)
  BY <1>2 DEF Kept, Own
<1>4. b \in BOOLEAN
  BY DEF CanSwitchToVideo
<1> HIDE DEF b
<1>5. /\ w \in State
      /\ w.list = s.list /\ w.watched = s.watched /\ w.cur = s.next
      /\ w.prev = s.prev /\ w.next = s.next /\ w.main = s.main
  BY <1>2, <1>4 DEF State
<1>6. Kept(u, w)
  BY <1>2, <1>4 DEF State, Kept, Own
<1>7. \/ t = s /\ Stuck(s)
      \/ t = Stop(u)
      \/ HasCurrentMedia(u) /\ t \in PlayIndex(w, w.cur)
  <2>1. PlayIndex(w, u.cur) = PlayIndex(w, w.cur)
    BY <1>2, <1>5
  <2> QED
    BY <1>5, <1>2, <2>1, Zenon DEF NextTrack, w, b, u, stack
<1> HIDE DEF w
<1>8. CASE t = s /\ Stuck(s)
  BY <1>8 DEF Kept, InRange, Placed, Stuck
<1>9. CASE t = Stop(u)
  BY <1>2, <1>3, <1>9, StopFrame, KeptTransitive
<1>10. CASE HasCurrentMedia(u) /\ t \in PlayIndex(w, w.cur)
  <2>1. InRange(w)
    BY <1>2, <1>5, <1>10 DEF HasCurrentMedia, ValidIndex, Valid, InRange, Placed, Neighbours
  <2>2. Kept(w, t) /\ InRange(t)
    BY <1>1, <1>5, <1>10, <2>1, PlayIndexFrame
  <2> QED
    BY <1>3, <1>6, <2>2, KeptTransitive
<1> QED
  BY <1>7, <1>8, <1>9, <1>10

(* previous *)
LEMMA PreviousTrackFrame ==
    ASSUME NEW s \in State, ~Stuck(s), InRange(s), NEW t \in PreviousTrack(s)
    PROVE  Kept(s, t) /\ InRange(t)
<1> DEFINE stack == IF s.previous = <<>> THEN s.previous
                    ELSE SubSeq(s.previous, 1, Len(s.previous) - 1)
           u == [s EXCEPT !.cur = s.prev, !.previous = stack]
<1>1. stack \in Seq(Positions)
  <2>1. s.previous \in Seq(Positions)
    BY DEF State
  <2>2. s.previous # <<>> => Len(s.previous) - 1 \in 0 .. Len(s.previous)
    BY <2>1
  <2> QED
    BY <2>1, <2>2, PrefixType
<1>2. s.prev \in Positions
  BY DEF State
<1> HIDE DEF stack
<1>3. /\ u \in State
      /\ u.list = s.list /\ u.watched = s.watched /\ u.cur = s.prev
      /\ u.prev = s.prev /\ u.next = s.next
      /\ u.todo = s.todo /\ u.at = s.at /\ u.main = s.main
      /\ u.media = s.media /\ u.queue = s.queue
  BY <1>1, <1>2 DEF State
<1>4. t = Stop(u) \/ (HasCurrentMedia(u) /\ t \in PlayIndex(u, u.cur))
  BY Zenon DEF PreviousTrack, stack
<1> HIDE DEF u
<1>5. Kept(s, u)
  BY <1>3 DEF Kept, Own
<1>6. CASE t = Stop(u)
  BY <1>3, <1>5, <1>6, StopFrame, KeptTransitive
<1>7. CASE HasCurrentMedia(u) /\ t \in PlayIndex(u, u.cur)
  <2>1. InRange(u)
    BY <1>3, <1>7 DEF HasCurrentMedia, ValidIndex, Valid, InRange, Placed, Neighbours
  <2>2. Kept(u, t) /\ InRange(t)
    BY <1>2, <1>3, <1>7, <2>1, PlayIndexFrame
  <2> QED
    BY <1>5, <2>2, KeptTransitive
<1> QED
  BY <1>4, <1>6, <1>7

(* An edit of the list replaces it; the rest is as in Kept. *)
Edited(s, t) ==
    /\ t \in State
    /\ t.todo = s.todo /\ t.at = s.at
    /\ t.main \in {s.main, "hung"} /\ (t.watched => s.watched)
    /\ Own(s) => Own(t)

(* load establishes InRange from any state. *)
LEMMA LoadFrame ==
    ASSUME NEW s \in State, NEW items \in Seq(Media), NEW position \in Nat,
           NEW t \in Load(s, items, position)
    PROVE  /\ t \in State /\ InRange(t)
           /\ t.main \in {s.main, "hung"} /\ t.todo = s.todo /\ t.at = s.at
           /\ Own(s) => Own(t)
<1> DEFINE v == [s EXCEPT !.watched = FALSE, !.previous = <<>>, !.list = items]
           x == IF ValidIndex(v, position) THEN position ELSE 0
           u == [v EXCEPT !.cur = x, !.watched = TRUE]
<1>1. <<>> \in Seq(Positions)
  OBVIOUS
<1>2. /\ v \in State
      /\ v.list = items /\ v.watched = FALSE
      /\ v.todo = s.todo /\ v.at = s.at /\ v.main = s.main
      /\ v.media = s.media /\ v.queue = s.queue
  BY <1>1 DEF State
<1>3. x \in Positions /\ (items # <<>> => x \in 0 .. Len(items) - 1)
  BY <1>2 DEF Positions, ValidIndex, Valid
<1>4. IF items = <<>> THEN t = v
      ELSE \E w \in PlayIndex(u, u.cur) : t \in Determine(w)
  BY Zenon DEF Load
<1> HIDE DEF v, x
<1>5. /\ u \in State
      /\ u.list = items /\ u.watched = TRUE /\ u.cur = x
      /\ u.todo = s.todo /\ u.at = s.at /\ u.main = s.main
      /\ u.media = s.media /\ u.queue = s.queue
  BY <1>2, <1>3 DEF State
<1> HIDE DEF u
<1>6. CASE items = <<>>
  BY <1>2, <1>4, <1>6 DEF InRange, Placed, Own
<1>7. CASE items # <<>>
  <2>1. PICK w \in PlayIndex(u, u.cur) : t \in Determine(w)
    BY <1>4, <1>7
  <2>2. Placed(u)
    BY <1>3, <1>5, <1>7 DEF Placed
  <2>3. Kept(u, w) /\ Placed(w)
    BY <1>3, <1>5, <2>1, <2>2, PlayIndexFrame
  <2>4. Determined(w, t) /\ InRange(t)
    BY <2>1, <2>3, DetermineFrame, DetermineInRange DEF Kept
  <2> QED
    BY <1>5, <2>3, <2>4 DEF Kept, Determined, Own
<1> QED
  BY <1>6, <1>7
-----------------------------------------------------------------------------
(* The list listener *)

(* onItemAdded: the list has grown, the current position not yet. *)
LEMMA ItemAddedFrame ==
    ASSUME NEW s \in State, NEW index \in Nat, NEW expanding \in BOOLEAN,
           s.watched /\ s.main \in {"idle", "insert", "remove"}
               => s.cur \in -1 .. Len(s.list) - 2,
           NEW t \in ItemAdded(s, index, expanding)
    PROVE  /\ Kept(s, t) /\ InRange(t)
           /\ expanding => t.cur = s.cur
<1> DEFINE u == [s EXCEPT !.cur = s.cur + 1]
           v == IF s.cur >= index /\ ~expanding THEN u ELSE s
<1>1. t \in Determine(v)
  BY Zenon DEF ItemAdded
<1>2. s.cur \in Positions /\ s.cur + 1 \in Positions
  BY DEF State, Positions
<1>3. /\ u \in State /\ u.cur = s.cur + 1
      /\ u.list = s.list /\ u.watched = s.watched /\ u.main = s.main
  BY <1>2 DEF State
<1>4. Kept(s, u)
  BY <1>2 DEF State, Kept, Own
<1> HIDE DEF u
<1>5. v \in State /\ Kept(s, v) /\ (expanding => v.cur = s.cur)
  BY <1>3, <1>4 DEF Kept
<1>6. Placed(v)
  <2>1. Placed(s)
    BY <1>2 DEF Placed
  <2>2. Placed(u)
    BY <1>2, <1>3 DEF Placed
  <2> QED
    BY <2>1, <2>2
<1> HIDE DEF v
<1>7. Determined(v, t) /\ InRange(t)
  BY <1>1, <1>5, <1>6, DetermineFrame, DetermineInRange
<1>8. Kept(v, t)
  BY <1>5, <1>7, DeterminedKept
<1> QED
  BY <1>5, <1>7, <1>8, KeptTransitive DEF Determined

(* The end of onItemRemoved: the current position may still be one too far. *)
LEMMA CloseGapFrame ==
    ASSUME NEW s \in State, NEW index \in Nat, NEW expanding \in BOOLEAN,
           s.watched /\ s.main \in {"idle", "insert", "remove"}
               => /\ s.cur \in -1 .. Len(s.list)
                  /\ s.cur = Len(s.list) => s.cur > index /\ ~expanding,
           NEW t \in CloseGap(s, index, expanding)
    PROVE  /\ Kept(s, t) /\ InRange(t)
           /\ expanding => t.cur = s.cur
<1> DEFINE u == [s EXCEPT !.cur = s.cur - 1]
           v == IF s.cur > index /\ ~expanding /\ ~Stuck(s) THEN u ELSE s
<1>1. t \in Determine(v)
  BY Zenon DEF CloseGap
<1>2. s.cur \in Positions /\ (s.cur > index => s.cur - 1 \in Positions /\ s.cur - 1 >= 0)
  BY DEF State, Positions
<1>3. Len(s.list) \in Nat
  BY DEF State
<1>4. s.cur > index => /\ u \in State /\ u.cur = s.cur - 1
                       /\ u.list = s.list /\ u.watched = s.watched /\ u.main = s.main
  BY <1>2 DEF State
<1>5. s.cur > index => Kept(s, u)
  BY <1>2 DEF State, Kept, Own
<1>6. Kept(s, s)
  BY DEF Kept
<1> HIDE DEF u
<1>7. v \in State /\ Kept(s, v) /\ (expanding => v.cur = s.cur)
  BY <1>4, <1>5, <1>6
<1>8. Placed(v)
  <2>1. CASE v = u /\ s.cur > index
    BY <1>2, <1>3, <1>4, <2>1 DEF Placed
  <2>2. CASE v = s /\ ~(s.cur > index /\ ~expanding /\ ~Stuck(s))
    BY <1>2, <1>3, <2>2 DEF Placed, Stuck
  <2> QED
    BY <2>1, <2>2
<1> HIDE DEF v
<1>9. Determined(v, t) /\ InRange(t)
  BY <1>1, <1>7, <1>8, DetermineFrame, DetermineInRange
<1>10. Kept(v, t)
  BY <1>7, <1>9, DeterminedKept
<1> QED
  BY <1>7, <1>9, <1>10, KeptTransitive DEF Determined

(* The beginning of onItemRemoved, when the current item went. *)
LEMMA CurrentRemovedFrame ==
    ASSUME NEW s \in State, Placed(s), NEW t \in CurrentRemoved(s)
    PROVE  Kept(s, t) /\ InRange(t)
<1>1. PICK u \in Determine(s) : t \in IF u.next # -1 THEN NextTrack(u)
                                       ELSE IF u.cur # -1 THEN PlayIndex(u, u.cur)
                                       ELSE {Stop(u)}
  BY DEF CurrentRemoved
<1>2. Determined(s, u) /\ InRange(u)
  BY DetermineFrame, DetermineInRange
<1>3. u \in State /\ Kept(s, u) /\ u.cur \in Positions
  BY <1>2, DeterminedKept DEF Determined, State
<1>4. CASE t \in NextTrack(u)
  BY <1>2, <1>3, <1>4, NextTrackFrame, KeptTransitive DEF InRange
<1>5. CASE t \in PlayIndex(u, u.cur)
  BY <1>2, <1>3, <1>5, PlayIndexFrame, KeptTransitive
<1>6. CASE t = Stop(u)
  BY <1>3, <1>6, StopFrame, KeptTransitive
<1> QED
  BY <1>1, <1>4, <1>5, <1>6

(* onItemRemoved: the list has shrunk, the current position not yet. *)
LEMMA ItemRemovedFrame ==
    ASSUME NEW s \in State, NEW index \in 0 .. Len(s.list), NEW expanding \in BOOLEAN,
           ~expanding /\ s.watched /\ s.main \in {"idle", "insert", "remove"}
               => s.cur \in -1 .. Len(s.list),
           NEW t \in ItemRemoved(s, index, expanding)
    PROVE  /\ Kept(s, t)
           /\ ~expanding => InRange(t)
           /\ expanding => t.cur = s.cur
<1> DEFINE u == [s EXCEPT !.cur = s.cur - 1]
<1>1. s.cur \in Positions /\ Len(s.list) \in Nat /\ index \in Nat
  BY DEF State
<1>2. CASE s.cur = index /\ ~expanding
  <2>1. /\ u \in State /\ u.cur = s.cur - 1
        /\ u.list = s.list /\ u.watched = s.watched /\ u.main = s.main
    <3>1. s.cur - 1 \in Positions
      BY <1>1, <1>2 DEF Positions
    <3> QED
      BY <3>1 DEF State
  <2>2. Kept(s, u)
    BY <2>1 DEF State, Kept, Own
  <2>3. PICK v \in CurrentRemoved(u) : t \in CloseGap(v, index, FALSE)
    BY <1>2, Zenon DEF ItemRemoved
  <2> HIDE DEF u
  <2>4. Placed(u)
    BY <1>1, <1>2, <2>1 DEF Placed
  <2>5. Kept(u, v) /\ InRange(v)
    BY <2>1, <2>3, <2>4, CurrentRemovedFrame
  <2>6. v \in State /\ Len(v.list) \in Nat
    BY <2>5 DEF Kept, State
  <2>7. v.watched /\ v.main \in {"idle", "insert", "remove"}
               => /\ v.cur \in -1 .. Len(v.list)
                  /\ v.cur = Len(v.list) => v.cur > index /\ ~FALSE
    BY <2>5, <2>6 DEF InRange, Placed
  <2>8. Kept(v, t) /\ InRange(t)
    BY <1>1, <2>3, <2>6, <2>7, CloseGapFrame
  <2> QED
    BY <1>2, <2>2, <2>5, <2>8, KeptTransitive
<1>3. CASE ~(s.cur = index /\ ~expanding)
  <2>1. t \in CloseGap(s, index, expanding)
    BY <1>3, Zenon DEF ItemRemoved
  <2>2. CASE expanding
    <3>1. t \in Determine(s)
      BY <2>1, <2>2 DEF CloseGap
    <3>2. Determined(s, t)
      BY <3>1, DetermineFrame
    <3> QED
      BY <2>2, <3>2, DeterminedKept DEF Determined
  <2>3. CASE ~expanding
    <3>1. s.watched /\ s.main \in {"idle", "insert", "remove"}
               => /\ s.cur \in -1 .. Len(s.list)
                  /\ s.cur = Len(s.list) => s.cur > index /\ ~expanding
      BY <1>1, <1>3, <2>3
    <3> QED
      BY <1>1, <2>1, <2>3, <3>1, CloseGapFrame
  <2> QED
    BY <2>2, <2>3
<1> QED
  BY <1>2, <1>3

(* onItemMoved *)
LEMMA ItemMovedFrame ==
    ASSUME NEW s \in State, Placed(s),
           NEW start \in 0 .. Len(s.list) - 1, NEW end \in 0 .. Len(s.list),
           NEW t \in ItemMoved(s, start, end)
    PROVE  Kept(s, t) /\ InRange(t)
<1> DEFINE x == IF s.cur = start THEN (IF end > start THEN end - 1 ELSE end)
                ELSE IF start > s.cur /\ end <= s.cur THEN s.cur + 1
                ELSE IF start < s.cur /\ end > s.cur THEN s.cur - 1
                ELSE s.cur
           u == [s EXCEPT !.previous = <<>>, !.cur = x]
<1>1. t \in Determine(u)
  BY Zenon DEF ItemMoved
<1>2. s.cur \in Positions /\ Len(s.list) \in Nat
  BY DEF State
<1>3. /\ x \in Positions
      /\ s.cur \in -1 .. Len(s.list) - 1 => x \in -1 .. Len(s.list) - 1
  BY <1>2 DEF Positions
<1> HIDE DEF x
<1>4. <<>> \in Seq(Positions)
  OBVIOUS
<1>5. /\ u \in State /\ u.cur = x
      /\ u.list = s.list /\ u.watched = s.watched /\ u.main = s.main
  BY <1>3, <1>4 DEF State
<1>6. Kept(s, u)
  BY <1>3, <1>4 DEF State, Kept, Own
<1> HIDE DEF u
<1>7. Placed(u)
  BY <1>3, <1>5 DEF Placed
<1>8. Determined(u, t) /\ InRange(t)
  BY <1>1, <1>5, <1>7, DetermineFrame, DetermineInRange
<1> QED
  BY <1>5, <1>6, <1>8, DeterminedKept, KeptTransitive

(* The list is replaced, nothing else. *)
LEMMA NewListFrame ==
    ASSUME NEW s \in State, NEW items \in Seq(Media)
    PROVE  /\ [s EXCEPT !.list = items] \in State
           /\ [s EXCEPT !.list = items].list = items
           /\ [s EXCEPT !.list = items].cur = s.cur
           /\ [s EXCEPT !.list = items].main = s.main
           /\ [s EXCEPT !.list = items].watched = s.watched
           /\ Edited(s, [s EXCEPT !.list = items])
BY DEF State, Edited, Own

(* A handler after an edit is part of the edit. *)
LEMMA EditedKept ==
    ASSUME NEW s, NEW u, NEW t, Edited(s, u), Kept(u, t)
    PROVE  Edited(s, t)
BY DEF Edited, Kept

(* MediaWrapperList.insert with its listener *)
LEMMA ListInsertFrame ==
    ASSUME NEW s \in State, ~Stuck(s), InRange(s),
           NEW index \in 0 .. Len(s.list), NEW m \in Media, NEW expanding \in BOOLEAN,
           NEW t \in ListInsert(s, index, m, expanding)
    PROVE  /\ Edited(s, t) /\ InRange(t)
           /\ Len(t.list) = Len(s.list) + 1
           /\ expanding => t.cur = s.cur
<1> DEFINE u == [s EXCEPT !.list = Insert(s.list, index, m)]
<1>1. s.list \in Seq(Media) /\ Len(s.list) \in Nat /\ index \in Nat
  BY DEF State
<1>2. Insert(s.list, index, m) \in Seq(Media)
      /\ Len(Insert(s.list, index, m)) = Len(s.list) + 1
  BY <1>1, InsertType
<1>3. /\ u \in State /\ Len(u.list) = Len(s.list) + 1
      /\ u.cur = s.cur /\ u.main = s.main /\ u.watched = s.watched
      /\ Edited(s, u)
  BY <1>2, NewListFrame
<1>4. IF s.watched THEN t \in ItemAdded(u, index, expanding) ELSE t = u
  BY Zenon DEF ListInsert
<1> HIDE DEF u
<1>5. CASE ~s.watched
  BY <1>3, <1>4, <1>5 DEF InRange, Placed
<1>6. CASE s.watched
  <2>1. u.watched /\ u.main \in {"idle", "insert", "remove"}
            => u.cur \in -1 .. Len(u.list) - 2
    BY <1>1, <1>3 DEF InRange, Placed
  <2>2. Kept(u, t) /\ InRange(t) /\ (expanding => t.cur = u.cur)
    BY <1>1, <1>3, <1>4, <1>6, <2>1, ItemAddedFrame
  <2>3. Edited(s, t)
    BY <1>3, <2>2, EditedKept
  <2> QED
    BY <1>3, <2>2, <2>3 DEF Kept
<1> QED
  BY <1>5, <1>6

(* MediaWrapperList.remove with its listener *)
LEMMA ListRemoveFrame ==
    ASSUME NEW s \in State, InRange(s),
           NEW index \in 0 .. Len(s.list) - 1, NEW expanding \in BOOLEAN,
           NEW t \in ListRemove(s, index, expanding)
    PROVE  /\ Edited(s, t)
           /\ Len(t.list) = Len(s.list) - 1
           /\ ~expanding => InRange(t)
           /\ expanding => t.cur = s.cur
<1> DEFINE u == [s EXCEPT !.list = Delete(s.list, index)]
<1>1. s.list \in Seq(Media) /\ Len(s.list) \in Nat
  BY DEF State
<1>2. Delete(s.list, index) \in Seq(Media)
      /\ Len(Delete(s.list, index)) = Len(s.list) - 1
  BY <1>1, DeleteType
<1>3. /\ u \in State /\ Len(u.list) = Len(s.list) - 1
      /\ u.cur = s.cur /\ u.main = s.main /\ u.watched = s.watched
      /\ Edited(s, u)
  BY <1>2, NewListFrame
<1>4. IF s.watched THEN t \in ItemRemoved(u, index, expanding) ELSE t = u
  BY Zenon DEF ListRemove
<1> HIDE DEF u
<1>5. CASE ~s.watched
  BY <1>3, <1>4, <1>5 DEF InRange, Placed
<1>6. CASE s.watched
  <2>1. u.watched /\ u.main \in {"idle", "insert", "remove"}
            => u.cur \in -1 .. Len(u.list)
    BY <1>1, <1>3 DEF InRange, Placed
  <2>2. index \in 0 .. Len(u.list)
    BY <1>1, <1>3
  <2>3. Kept(u, t) /\ (~expanding => InRange(t)) /\ (expanding => t.cur = u.cur)
    BY <1>3, <1>4, <1>6, <2>1, <2>2, ItemRemovedFrame
  <2>4. Edited(s, t)
    BY <1>3, <2>3, EditedKept
  <2> QED
    BY <1>3, <2>3, <2>4 DEF Kept
<1> QED
  BY <1>5, <1>6

-----------------------------------------------------------------------------
(* The inductive invariant *)

(* The loops of several steps are where they should be. *)
Loop(s) ==
    /\ s.main = "insert" => s.at \in 0 .. Len(s.list)
    /\ s.main = "expand" => s.cur \in 0 .. Len(s.list)
    /\ s.main = "remove" => s.todo # <<>>

(* The inductive invariant, of a state *)
Good(s) == s \in State /\ Own(s) /\ InRange(s) /\ Loop(s)

(* A step that Good does not notice *)
Alike(s, t) == Untouched(s, t) /\ (Own(s) => Own(t))

(* Good does not look at what Alike lets change. *)
LEMMA AlikeGood ==
    ASSUME NEW s, NEW t, Good(s), Alike(s, t)
    PROVE  Good(t)
BY UntouchedInRange DEF Good, Alike, Untouched, Loop

(* Outside the loops there is nothing to say of them. *)
LEMMA BetweenHandlers ==
    ASSUME NEW s, s \in State, Own(s), InRange(s), s.main \in {"idle", "hung", "crashed"}
    PROVE  Good(s)
BY DEF Good, Loop

(* A handler that keeps and ends in range preserves Good. *)
LEMMA KeptGood ==
    ASSUME NEW s, NEW t, Good(s), s.main = "idle", Kept(s, t), InRange(t)
    PROVE  Good(t)
BY BetweenHandlers DEF Good, Kept

(* The handlers that end in determinePrevAndNextIndices establish Good. *)
LEMMA DetermineGood ==
    ASSUME NEW s, s \in State, Own(s), Placed(s), s.main = "idle", NEW t \in Determine(s)
    PROVE  Good(t)
<1>1. Determined(s, t) /\ InRange(t)
  BY DetermineFrame, DetermineInRange
<1> QED
  BY <1>1, BetweenHandlers DEF Determined, Own

(* A step to one of several good states leads to a good state. *)
LEMMA BecomeGood ==
    ASSUME NEW STATE S, \A t \in S : Good(t), Become(S)
    PROVE  Good(Now')
<1>1. S \subseteq State
  BY DEF Good
<1>2. Now' \in S
  BY <1>1, BecomeNow
<1> QED
  BY <1>2

(* The fields of the current state. *)
LEMMA NowFields ==
    /\ Now.list = list /\ Now.watched = watched /\ Now.cur = cur
    /\ Now.prev = prev /\ Now.next = next /\ Now.previous = previous
    /\ Now.shuffling = shuffling /\ Now.repeating = repeating
    /\ Now.media = media /\ Now.phase = phase /\ Now.queue = queue
    /\ Now.stops = stops /\ Now.clearing = clearing /\ Now.forced = forced
    /\ Now.main = main /\ Now.todo = todo /\ Now.at = at
BY DEF Now

(* The state of a new process is good. *)
LEMMA FreshGood == Good(Fresh)
<1>1. /\ -1 \in Positions /\ "nothing" \in Phases
      /\ <<>> \in Seq(Media) /\ <<>> \in Seq(Positions) /\ <<>> \in Seq(Event)
      /\ {} \in SUBSET Video
  BY DEF Positions, Phases
<1>2. Fresh \in State
  BY <1>1 DEF Fresh, State
<1>3. Fresh.media = None /\ Fresh.watched = FALSE /\ Fresh.main = "idle"
  BY DEF Fresh
<1>4. Own(Fresh) /\ InRange(Fresh)
  BY <1>3, MediaAssumption DEF Own, InRange, Placed
<1> QED
  BY <1>2, <1>3, <1>4, BetweenHandlers

(* So is the initial state. *)
LEMMA InitGood == Init => Good(Now)
<1>1. Init => Now = Fresh
  BY DEF Init, Now, Fresh
<1> QED
  BY <1>1, FreshGood

(* The native player and the tasks of the thread pool preserve Good. *)
LEMMA PlayerGood ==
    ASSUME Good(Now), Player \/ ThreadPool
    PROVE  Good(Now')
<1>1. Now \in State
  BY DEF Good
<1>2. ASSUME NEW type \in EventTypes, NEW from, NEW to \in Phases, Report(type, from, to)
      PROVE  Good(Now')
  <2> DEFINE u == [Now EXCEPT !.phase = to]
  <2>1. Alike(Now, u)
    BY <1>1 DEF State, Alike, Untouched, Own
  <2> HIDE DEF u
  <2>2. Good(u)
    BY <2>1, AlikeGood
  <2>3. Alike(u, Post(u, type))
    BY <2>2, PostFrame DEF Alike, Good
  <2>4. Good(Post(u, type))
    BY <2>2, <2>3, AlikeGood
  <2>5. Become({Post(u, type)})
    BY <1>2 DEF Report, u
  <2> QED
    BY <2>4, <2>5, BecomeGood
<1>3. CASE Player
  BY <1>2, <1>3 DEF Player, PlayerOpens, PlayerEnds, PlayerFails, EventTypes, Phases
<1>4. CASE StopTask
  <2> DEFINE u == [Now EXCEPT !.stops = @ - 1, !.clearing = @ + 1, !.phase = "stopped"]
  <2>1. Now.stops - 1 \in Nat /\ Now.clearing + 1 \in Nat
    BY <1>1, <1>4, NowFields DEF StopTask, State
  <2>2. "stopped" \in Phases /\ "Stopped" \in EventTypes
    BY DEF Phases, EventTypes
  <2>3. Alike(Now, u)
    BY <1>1, <2>1, <2>2 DEF State, Alike, Untouched, Own
  <2>4. Become({IF phase = "stopped" THEN u ELSE Post(u, "Stopped")})
    BY <1>4 DEF StopTask
  <2> HIDE DEF u
  <2>5. Good(u)
    BY <2>3, AlikeGood
  <2>6. Good(Post(u, "Stopped"))
    BY <2>2, <2>5, PostFrame, AlikeGood DEF Alike, Good
  <2> QED
    BY <2>4, <2>5, <2>6, BecomeGood
<1>5. CASE ClearTask
  <2> DEFINE u == [Now EXCEPT !.clearing = @ - 1]
             v == SetMedia(u, None)
  <2>1. Now.clearing - 1 \in Nat
    BY <1>1, <1>5, NowFields DEF ClearTask, State
  <2>2. Alike(Now, u)
    BY <1>1, <2>1 DEF State, Alike, Untouched, Own
  <2>3. Become({v})
    BY <1>5 DEF ClearTask
  <2> HIDE DEF u
  <2>4. Good(u)
    BY <2>2, AlikeGood
  <2>5. Untouched(u, v) /\ v.media = None
    BY <2>4, SetMediaFrame DEF Good
  <2>6. Own(v)
    BY <2>5, MediaAssumption DEF Own
  <2>7. Good(v)
    BY <2>4, <2>5, <2>6, AlikeGood DEF Alike
  <2> QED
    BY <2>3, <2>7, BecomeGood
<1> QED
  BY <1>3, <1>4, <1>5 DEF ThreadPool

(* Taking an event from the queue preserves Good. *)
LEMMA TakenGood ==
    ASSUME Good(Now), main = "idle", queue # <<>>
    PROVE  Good(Taken) /\ Alike(Now, Taken)
<1> DEFINE rest == Tail(Now.queue)
<1>1. Now \in State /\ Now.queue \in Seq(Event) /\ Now.queue # <<>>
  BY NowFields DEF Good, State
<1>2. /\ rest \in Seq(Event)
      /\ \A k \in DOMAIN rest : k + 1 \in DOMAIN Now.queue /\ rest[k] = Now.queue[k + 1]
  BY <1>1
<1>3. Taken = [Now EXCEPT !.queue = rest]
  BY DEF Taken
<1> HIDE DEF rest
<1>4. Untouched(Now, Taken) /\ Taken.media = Now.media /\ Taken.queue = rest
  BY <1>1, <1>2, <1>3 DEF State, Untouched
<1>5. Own(Now) => Own(Taken)
  BY <1>2, <1>4 DEF Own
<1> QED
  BY <1>4, <1>5, AlikeGood DEF Alike

(* The handlers of the player events preserve Good. *)
LEMMA EventsGood ==
    ASSUME Good(Now), HandleEvent
    PROVE  Good(Now')
<1>1. main = "idle" /\ queue # <<>>
  BY DEF HandleEvent, OnPlaying, OnPaused, OnStopped, OnEndReached, OnEncounteredError,
         Take, Idle
<1>2. Good(Taken) /\ Alike(Now, Taken)
  BY <1>1, TakenGood
<1>3. /\ Taken \in State /\ Own(Taken) /\ InRange(Taken)
      /\ Taken.main = "idle" /\ Taken.list = list /\ Taken.cur = cur
  BY <1>1, <1>2, NowFields DEF Good, Alike, Untouched
<1>4. \A t \in NextTrack(Taken) : Good(t)
  BY <1>2, <1>3, NextTrackFrame, KeptGood DEF InRange
<1>5. Good([Taken EXCEPT !.main = "crashed"])
  <2> DEFINE u == [Taken EXCEPT !.main = "crashed"]
  <2>1. u \in State /\ u.main = "crashed" /\ u.media = Taken.media /\ u.queue = Taken.queue
    BY <1>3 DEF State
  <2> HIDE DEF u
  <2>2. Own(u) /\ InRange(u)
    BY <1>3, <2>1 DEF Own, InRange, Placed
  <2> QED
    BY <2>1, <2>2, BetweenHandlers DEF u
<1>6. CASE OnPlaying
  <2> DEFINE u == [Taken EXCEPT !.stopped = FALSE, !.background = FALSE]
             v == [Taken EXCEPT !.stopped = FALSE, !.main = "crashed"]
  <2>1. Alike(Taken, u)
    BY <1>3 DEF State, Alike, Untouched, Own
  <2>2. v \in State /\ v.main = "crashed" /\ v.media = Taken.media /\ v.queue = Taken.queue
    BY <1>3 DEF State
  <2>3. Become({IF HasCurrentMedia(Now) THEN u ELSE v})
    BY <1>6 DEF OnPlaying
  <2> HIDE DEF u, v
  <2>4. Good(u)
    BY <1>2, <2>1, AlikeGood
  <2>5. Own(v) /\ InRange(v)
    BY <1>3, <2>2 DEF Own, InRange, Placed
  <2>6. Good(v)
    BY <2>2, <2>5, BetweenHandlers
  <2> QED
    BY <2>3, <2>4, <2>6, BecomeGood
<1>7. CASE OnPaused
  <2> DEFINE u == [Taken EXCEPT !.stopped = FALSE]
  <2>1. Alike(Taken, u)
    BY <1>3 DEF State, Alike, Untouched, Own
  <2>2. Become({u})
    BY <1>7 DEF OnPaused
  <2> HIDE DEF u
  <2> QED
    BY <1>2, <2>1, <2>2, AlikeGood, BecomeGood
<1>8. CASE OnStopped
  <2>1. Good(OnPlaybackStopped(Taken))
    BY <1>2, <1>3, StoppedFrame, KeptGood
  <2> QED
    BY <1>8, <2>1, BecomeGood DEF OnStopped
<1>9. CASE OnEndReached
  <2>1. ASSUME NEW t \in Determine(Taken), NEW u \in NextTrack(t)
        PROVE  Good(u)
    <3>1. Good(t) /\ t.main \in {"idle", "hung"}
      BY <1>3, <2>1, DetermineGood, DetermineFrame DEF InRange, Determined
    <3>2. Kept(t, u) /\ InRange(u)
      BY <2>1, <3>1, NextTrackFrame DEF InRange, Good
    <3> QED
      BY <3>1, <3>2, BetweenHandlers DEF Kept, Good
  <2>2. ASSUME HasCurrentMedia(Now), media # None, NEW t \in ListRemove(Taken, cur, TRUE)
        PROVE  Good([t EXCEPT !.main = IF Stuck(t) THEN @ ELSE "expand",
                              !.todo = SubItems[media]])
    <3> DEFINE m == IF Stuck(t) THEN t.main ELSE "expand"
               items == SubItems[media]
               u == [t EXCEPT !.main = m, !.todo = items]
    <3>1. cur \in 0 .. Len(Taken.list) - 1
      BY <1>3, <2>2, NowFields DEF HasCurrentMedia, ValidIndex, Valid
    <3>2. /\ Edited(Taken, t) /\ t.cur = cur
          /\ Len(t.list) = Len(Taken.list) - 1
      BY <1>3, <2>2, <3>1, ListRemoveFrame
    <3>3. items \in Seq(Media)
      <4>1. media \in Media
        BY <2>2, NowFields DEF Good, State
      <4> QED
        BY <4>1, SubItemsAssumption
    <3>4. m \in {"expand", "hung", "crashed"}
      BY DEF Stuck
    <3> HIDE DEF m, items
    <3>5. /\ u \in State /\ u.main = m /\ u.cur = cur /\ u.list = t.list
          /\ u.media = t.media /\ u.queue = t.queue
      BY <3>2, <3>3, <3>4 DEF State, Edited
    <3> HIDE DEF u
    <3>6. Own(u) /\ InRange(u)
      BY <1>3, <3>2, <3>4, <3>5 DEF Own, InRange, Placed, Edited
    <3>7. Len(Taken.list) \in Nat
      BY <1>3 DEF State
    <3>8. cur \in 0 .. Len(t.list)
      BY <3>1, <3>2, <3>7
    <3>9. Loop(u)
      BY <3>4, <3>5, <3>8 DEF Loop
    <3> QED
      BY <3>5, <3>6, <3>9 DEF Good, u, m, items
  <2> DEFINE X == IF media = None \/ ~HasCurrentMedia(Now)
              THEN {[Taken EXCEPT !.main = "crashed"]}
              ELSE IF SubItems[media] = <<>>
              THEN UNION {NextTrack(t) : t \in Determine(Taken)}
              ELSE {[t EXCEPT !.main = IF Stuck(t) THEN @ ELSE "expand",
                              !.todo = SubItems[media]] :
                        t \in ListRemove(Taken, cur, TRUE)}
  <2>3. Become(X)
    BY <1>9 DEF OnEndReached
  <2>4. \A u \in X : Good(u)
    <3>1. CASE media = None \/ ~HasCurrentMedia(Now)
      BY <1>5, <3>1
    <3>2. CASE ~(media = None \/ ~HasCurrentMedia(Now)) /\ SubItems[media] = <<>>
      BY <2>1, <3>2, Zenon
    <3>3. CASE ~(media = None \/ ~HasCurrentMedia(Now)) /\ SubItems[media] # <<>>
      BY <2>2, <3>3, Zenon
    <3> QED
      BY <3>1, <3>2, <3>3
  <2> HIDE DEF X
  <2> QED
    BY <2>3, <2>4, BecomeGood
<1>10. CASE OnEncounteredError
  BY <1>4, <1>10, BecomeGood DEF OnEncounteredError
<1> QED
  BY <1>6, <1>7, <1>8, <1>9, <1>10 DEF HandleEvent

(* The steps of the loops preserve Good. *)
LEMMA LoopsGood ==
    ASSUME Good(Now), LoopStep
    PROVE  Good(Now')
<1>1. /\ Now \in State /\ Own(Now) /\ InRange(Now) /\ Loop(Now)
      /\ Now.list = list /\ Now.cur = cur /\ Now.main = main /\ Now.todo = todo
      /\ Now.at = at
  BY NowFields DEF Good
<1>2. list \in Seq(Media) /\ Len(list) \in Nat /\ todo \in Seq(Media) /\ at \in Nat
  BY <1>1 DEF State
<1>3. ASSUME NEW t, t \in State, Own(t), InRange(t), NEW x \in Seq(Media), NEW y \in Nat,
             t.main \in {"insert", "hung"}, t.main = "insert" => y \in 0 .. Len(t.list)
      PROVE  Good([t EXCEPT !.todo = x, !.at = y])
  <2> DEFINE u == [t EXCEPT !.todo = x, !.at = y]
  <2>1. /\ u \in State /\ u.at = y /\ u.main = t.main /\ u.list = t.list /\ u.cur = t.cur
        /\ u.watched = t.watched /\ u.prev = t.prev /\ u.next = t.next
        /\ u.media = t.media /\ u.queue = t.queue
    BY <1>3 DEF State
  <2> HIDE DEF u
  <2>2. Own(u) /\ InRange(u)
    BY <1>3, <2>1 DEF Own, InRange, Placed, Neighbours
  <2> QED
    BY <1>3, <2>1, <2>2 DEF Good, Loop, u
<1>4. CASE InsertStep
  <2>1. main = "insert" /\ todo # <<>>
    BY <1>4 DEF InsertStep
  <2>2. Head(todo) \in Media /\ Tail(todo) \in Seq(Media)
    BY <1>2, <2>1
  <2>3. ~Stuck(Now) /\ at \in 0 .. Len(list)
    BY <1>1, <2>1 DEF Stuck, Loop
  <2>4. ASSUME NEW t \in ListInsert(Now, at, Head(todo), FALSE)
        PROVE  Good([t EXCEPT !.todo = Tail(@), !.at = @ + 1])
    <3>1. Edited(Now, t) /\ InRange(t) /\ Len(t.list) = Len(list) + 1
      BY <1>1, <2>2, <2>3, ListInsertFrame
    <3>2. /\ t \in State /\ t.todo = todo /\ t.at = at /\ t.main \in {"insert", "hung"}
          /\ Own(t)
      BY <1>1, <2>1, <3>1 DEF Edited
    <3>3. at + 1 \in Nat /\ at + 1 \in 0 .. Len(t.list)
      BY <1>2, <2>3, <3>1
    <3>4. Good([t EXCEPT !.todo = Tail(todo), !.at = at + 1])
      BY <1>3, <2>2, <3>1, <3>2, <3>3
    <3> QED
      BY <3>2, <3>4, Zenon
  <2> DEFINE X == {[t EXCEPT !.todo = Tail(@), !.at = @ + 1] :
                      t \in ListInsert(Now, at, Head(todo), FALSE)}
  <2>5. Become(X)
    BY <1>4 DEF InsertStep
  <2>6. \A t \in X : Good(t)
    BY <2>4, Zenon
  <2> HIDE DEF X
  <2> QED
    BY <2>5, <2>6, BecomeGood
<1>5. CASE InsertDone
  <2> DEFINE u == [Now EXCEPT !.main = "idle", !.at = 0]
  <2>1. main = "insert"
    BY <1>5 DEF InsertDone
  <2>2. /\ u \in State /\ u.main = "idle" /\ u.list = list /\ u.cur = cur
        /\ u.watched = Now.watched /\ u.media = Now.media /\ u.queue = Now.queue
    BY <1>1 DEF State
  <2>3. Become(Determine(u))
    BY <1>5 DEF InsertDone
  <2> HIDE DEF u
  <2>4. Own(u) /\ Placed(u)
    BY <1>1, <2>1, <2>2 DEF Own, InRange, Placed
  <2> QED
    BY <2>2, <2>3, <2>4, DetermineGood, BecomeGood
<1>6. CASE RemoveStep
  <2>1. PICK i \in 0 .. Len(list) - 1 :
          /\ main = "remove"
          /\ Become({[t EXCEPT !.at = i] : t \in ListRemove(Now, i, FALSE)})
    BY <1>6 DEF RemoveStep
  <2>i. i \in Nat
    BY <1>2
  <2>2. todo # <<>>
    BY <1>1, <2>1 DEF Loop
  <2>3. ASSUME NEW t \in ListRemove(Now, i, FALSE)
        PROVE  Good([t EXCEPT !.at = i])
    <3> DEFINE u == [t EXCEPT !.at = i]
    <3>1. Edited(Now, t) /\ InRange(t)
      BY <1>1, ListRemoveFrame
    <3>2. /\ t \in State /\ t.todo = todo /\ t.main \in {"remove", "hung"} /\ Own(t)
      BY <1>1, <2>1, <3>1 DEF Edited
    <3>3. /\ u \in State /\ u.todo = todo /\ u.main = t.main /\ u.list = t.list /\ u.cur = t.cur
          /\ u.watched = t.watched /\ u.prev = t.prev /\ u.next = t.next
          /\ u.media = t.media /\ u.queue = t.queue
      BY <2>i, <3>2 DEF State
    <3> HIDE DEF u
    <3>4. Own(u) /\ InRange(u)
      BY <3>1, <3>2, <3>3 DEF Own, InRange, Placed, Neighbours
    <3> QED
      BY <2>2, <3>2, <3>3, <3>4 DEF Good, Loop, u
  <2> DEFINE X == {[t EXCEPT !.at = i] : t \in ListRemove(Now, i, FALSE)}
  <2>4. \A t \in X : Good(t)
    BY <2>3, Zenon
  <2>5. Become(X)
    BY <2>1
  <2> HIDE DEF X
  <2> QED
    BY <2>4, <2>5, BecomeGood
<1>7. CASE RemoveDone
  <2> DEFINE u == [Now EXCEPT !.main = "idle", !.todo = <<>>, !.at = 0]
  <2>1. main = "remove"
    BY <1>7 DEF RemoveDone
  <2>2. <<>> \in Seq(Media)
    OBVIOUS
  <2>3. /\ u \in State /\ u.main = "idle" /\ u.list = list /\ u.cur = cur
        /\ u.watched = Now.watched /\ u.media = Now.media /\ u.queue = Now.queue
    BY <1>1, <2>2 DEF State
  <2>4. Become(Determine(u))
    BY <1>7 DEF RemoveDone
  <2> HIDE DEF u
  <2>5. Own(u) /\ Placed(u)
    BY <1>1, <2>1, <2>3 DEF Own, InRange, Placed
  <2> QED
    BY <2>3, <2>4, <2>5, DetermineGood, BecomeGood
<1>8. CASE ExpandStep
  <2>1. main = "expand" /\ todo # <<>>
    BY <1>8 DEF ExpandStep
  <2>2. /\ todo[Len(todo)] \in Media
        /\ Len(todo) - 1 \in 0 .. Len(todo)
    BY <1>2, <2>1
  <2>3. ~Stuck(Now) /\ cur \in 0 .. Len(list)
    BY <1>1, <2>1 DEF Stuck, Loop
  <2> DEFINE rest == SubSeq(todo, 1, Len(todo) - 1)
  <2>4. rest \in Seq(Media)
    BY <1>2, <2>2, PrefixType
  <2>5. ASSUME NEW t \in ListInsert(Now, cur, todo[Len(todo)], TRUE)
        PROVE  Good([t EXCEPT !.todo = SubSeq(@, 1, Len(@) - 1)])
    <3> DEFINE u == [t EXCEPT !.todo = rest]
    <3>1. /\ Edited(Now, t) /\ InRange(t) /\ Len(t.list) = Len(list) + 1 /\ t.cur = cur
      BY <1>1, <2>2, <2>3, ListInsertFrame
    <3>2. /\ t \in State /\ t.todo = todo /\ t.main \in {"expand", "hung"} /\ Own(t)
      BY <1>1, <2>1, <3>1 DEF Edited
    <3> HIDE DEF rest
    <3>3. /\ u \in State /\ u.main = t.main /\ u.list = t.list /\ u.cur = cur
          /\ u.media = t.media /\ u.queue = t.queue
      BY <2>4, <3>1, <3>2 DEF State
    <3>4. cur \in 0 .. Len(t.list)
      BY <1>2, <2>3, <3>1
    <3>5. [t EXCEPT !.todo = SubSeq(@, 1, Len(@) - 1)] = u
      BY <3>2, Zenon DEF rest
    <3> HIDE DEF u
    <3>6. Own(u) /\ InRange(u) /\ Loop(u)
      BY <3>2, <3>3, <3>4 DEF Own, InRange, Placed, Loop
    <3> QED
      BY <3>3, <3>5, <3>6 DEF Good
  <2> DEFINE X == {[t EXCEPT !.todo = SubSeq(@, 1, Len(@) - 1)] :
                      t \in ListInsert(Now, cur, todo[Len(todo)], TRUE)}
  <2>6. \A t \in X : Good(t)
    BY <2>5, Zenon
  <2>7. Become(X)
    BY <1>8 DEF ExpandStep
  <2> HIDE DEF X
  <2> QED
    BY <2>6, <2>7, BecomeGood
<1>9. CASE ExpandDone
  <2> DEFINE u == [Now EXCEPT !.main = "idle", !.next = 0, !.prev = -1]
  <2>1. 0 \in Positions /\ -1 \in Positions
    BY DEF Positions
  <2>2. /\ u \in State /\ u.main = "idle" /\ u.next = 0 /\ u.prev = -1
        /\ u.media = Now.media /\ u.queue = Now.queue /\ u.list = list
    BY <1>1, <2>1 DEF State
  <2>3. Become(NextTrack(u))
    BY <1>9 DEF ExpandDone
  <2> HIDE DEF u
  <2>4. Neighbours(u) /\ Own(u)
    BY <1>1, <1>2, <2>2 DEF Neighbours, Own
  <2>5. \A t \in NextTrack(u) : Good(t)
    BY <2>2, <2>4, NextTrackFrame, BetweenHandlers DEF Kept
  <2> QED
    BY <2>3, <2>5, BecomeGood
<1> QED
  BY <1>4, <1>5, <1>6, <1>7, <1>8, <1>9 DEF LoopStep

(* The calls of the user interface preserve Good. *)
LEMMA CallsGood ==
    ASSUME Good(Now), UserCall
    PROVE  Good(Now')
<1>1. /\ Now \in State /\ Own(Now) /\ InRange(Now)
      /\ Now.list = list /\ Now.cur = cur /\ Now.main = main
      /\ list \in Seq(Media) /\ Len(list) \in Nat /\ cur \in Positions
  BY NowFields DEF Good, State
<1>2. Placed(Now) /\ (Now.watched /\ Now.main \in {"idle", "insert", "remove"} => Neighbours(Now))
  BY <1>1 DEF InRange
<1>3. ASSUME NEW s \in State, Own(s), s.main = "idle",
             NEW items \in Seq(Media), NEW position \in Nat,
             Become(Load(s, items, position))
      PROVE  Good(Now')
  <2>1. \A t \in Load(s, items, position) : Good(t)
    BY <1>3, LoadFrame, BetweenHandlers
  <2> QED
    BY <1>3, <2>1, BecomeGood
<1>4. ASSUME NEW items \in Loads, NEW position \in 0 .. Len(items),
             UserLoad(items, position)
      PROVE  Good(Now')
  BY <1>1, <1>3, <1>4, LoadsAssumption DEF UserLoad, Idle
<1>5. ASSUME NEW items \in Loads, NEW position \in 0 .. Len(items),
             NEW shuffle \in Shuffles, NEW repeat \in Repeats,
             LoadLast(items, position, shuffle, repeat)
      PROVE  Good(Now')
  <2> DEFINE u == [Now EXCEPT !.shuffling = shuffle, !.repeating = repeat]
  <2>1. shuffle \in BOOLEAN /\ repeat \in {"none", "one", "all"}
    BY ModesAssumption
  <2>2. u \in State /\ u.main = Now.main /\ u.media = Now.media /\ u.queue = Now.queue
    BY <1>1, <2>1 DEF State
  <2>3. main = "idle" /\ Become(Load(u, items, position))
    BY <1>5 DEF LoadLast, Idle
  <2> HIDE DEF u
  <2>4. Own(u)
    BY <1>1, <2>2 DEF Own
  <2> QED
    BY <1>1, <1>3, <2>2, <2>3, <2>4, LoadsAssumption
<1>6. ASSUME NEW items \in Loads, UserAppend(items)
      PROVE  Good(Now')
  <2> DEFINE u == [Now EXCEPT !.list = list \o items]
  <2>1. items \in Seq(Media)
    BY LoadsAssumption
  <2>2. list \o items \in Seq(Media) /\ Len(list \o items) = Len(list) + Len(items)
    BY <1>1, <2>1, ConcatType
  <2>3. Len(items) \in Nat
    BY <2>1
  <2>4. Edited(Now, u) /\ u.list = list \o items /\ u.cur = cur /\ u.main = main
        /\ u.watched = Now.watched
    BY <1>1, <2>2, NewListFrame
  <2>5. main = "idle" /\ Become(IF HasCurrentMedia(Now) THEN Determine(u) ELSE Load(Now, items, 0))
    BY <1>1, <1>6, Zenon DEF UserAppend, Idle
  <2> HIDE DEF u
  <2>6. CASE HasCurrentMedia(Now)
    <3>1. Placed(u)
      <4>1. Len(u.list) \in Nat /\ Len(u.list) >= Len(list)
        BY <1>1, <2>2, <2>3, <2>4
      <4> QED
        BY <1>1, <1>2, <2>4, <4>1 DEF Placed
    <3>2. u \in State /\ Own(u)
      BY <1>1, <2>4 DEF Edited
    <3> QED
      BY <2>4, <2>5, <2>6, <3>1, <3>2, DetermineGood, BecomeGood
  <2>7. CASE ~HasCurrentMedia(Now)
    BY <1>1, <1>3, <2>1, <2>5, <2>7
  <2> QED
    BY <2>6, <2>7
<1>7. ASSUME NEW items \in Loads, UserInsertNext(items)
      PROVE  Good(Now')
  <2> DEFINE u == [Now EXCEPT !.main = "insert", !.todo = items, !.at = cur + 1]
  <2>1. items \in Seq(Media)
    BY LoadsAssumption
  <2>2. /\ main = "idle"
        /\ Become(IF HasCurrentMedia(Now) THEN {u} ELSE Load(Now, items, 0))
    BY <1>7 DEF UserInsertNext, Idle
  <2>3. CASE HasCurrentMedia(Now)
    <3>1. cur + 1 \in Nat /\ cur + 1 \in 0 .. Len(list)
      BY <1>1, <2>3 DEF HasCurrentMedia, ValidIndex, Valid
    <3>2. /\ u \in State /\ u.main = "insert" /\ u.at = cur + 1 /\ u.list = list
          /\ u.cur = cur /\ u.watched = Now.watched /\ u.prev = Now.prev /\ u.next = Now.next
          /\ u.media = Now.media /\ u.queue = Now.queue
      BY <1>1, <2>1, <3>1 DEF State
    <3> HIDE DEF u
    <3>3. Own(u) /\ InRange(u)
      BY <1>1, <2>2, <3>2 DEF Own, InRange, Placed, Neighbours
    <3>4. Good(u)
      BY <3>1, <3>2, <3>3 DEF Good, Loop
    <3> QED
      BY <2>2, <2>3, <3>4, BecomeGood
  <2>4. CASE ~HasCurrentMedia(Now)
    BY <1>1, <1>3, <2>1, <2>2, <2>4
  <2> QED
    BY <2>3, <2>4
<1>8. ASSUME NEW m \in Media, NEW position \in 0 .. Len(list), UserInsertItem(position, m)
      PROVE  Good(Now')
  <2> DEFINE X == UNION {Determine(t) : t \in ListInsert(Now, position, m, FALSE)}
  <2>1. main = "idle" /\ Become(X)
    BY <1>8 DEF UserInsertItem, Idle
  <2>2. ASSUME NEW t \in ListInsert(Now, position, m, FALSE), NEW u \in Determine(t)
        PROVE  Good(u)
    <3>1. Edited(Now, t) /\ InRange(t)
      BY <1>1, <2>1, ListInsertFrame DEF Stuck
    <3>2. t \in State /\ Own(t) /\ t.main \in {"idle", "hung"}
      BY <1>1, <2>1, <3>1 DEF Edited
    <3>3. Determined(t, u) /\ InRange(u)
      BY <3>1, <3>2, <2>2, DetermineFrame, DetermineInRange DEF InRange
    <3> QED
      BY <3>2, <3>3, BetweenHandlers DEF Determined, Own
  <2>3. \A u \in X : Good(u)
    BY <2>2, Zenon
  <2> HIDE DEF X
  <2> QED
    BY <2>1, <2>3, BecomeGood
<1>9. ASSUME NEW start \in 0 .. Len(list), NEW end \in 0 .. Len(list), UserMove(start, end)
      PROVE  Good(Now')
  <2> DEFINE u == [Now EXCEPT !.list = Move(list, start, end)]
  <2>1. start \in 0 .. Len(list) - 1
    BY <1>1, <1>9 DEF UserMove, ValidIndex, Valid
  <2>2. Move(list, start, end) \in Seq(Media) /\ Len(Move(list, start, end)) = Len(list)
    BY <1>1, <2>1, MoveType
  <2>3. Edited(Now, u) /\ Len(u.list) = Len(list) /\ u.cur = cur /\ u.main = main
        /\ u.watched = Now.watched
    BY <1>1, <2>2, NewListFrame
  <2>4. main = "idle" /\ Become(IF watched THEN ItemMoved(u, start, end) ELSE {u})
    BY <1>1, <1>9, Zenon DEF UserMove, Idle
  <2> HIDE DEF u
  <2>5. u \in State /\ Own(u) /\ Placed(u) /\ (~watched => InRange(u))
    BY <1>1, <1>2, <2>3, NowFields DEF Edited, Placed, InRange
  <2>6. CASE watched
    <3>1. \A t \in ItemMoved(u, start, end) : Good(t)
      BY <2>1, <2>3, <2>4, <2>5, ItemMovedFrame, BetweenHandlers DEF Kept
    <3> QED
      BY <2>4, <2>6, <3>1, BecomeGood
  <2>7. CASE ~watched
    <3>1. Good(u)
      BY <2>3, <2>4, <2>5, <2>7, BetweenHandlers
    <3> QED
      BY <2>4, <2>7, <3>1, BecomeGood
  <2> QED
    BY <2>6, <2>7
<1>10. ASSUME NEW i \in 0 .. Len(list) - 1, UserRemove(i)
       PROVE  Good(Now')
  <2> DEFINE X == UNION {Determine(t) : t \in ListRemove(Now, i, FALSE)}
  <2>1. main = "idle" /\ Become(X)
    BY <1>10 DEF UserRemove, Idle
  <2>2. ASSUME NEW t \in ListRemove(Now, i, FALSE), NEW u \in Determine(t)
        PROVE  Good(u)
    <3>1. Edited(Now, t) /\ InRange(t)
      BY <1>1, ListRemoveFrame
    <3>2. t \in State /\ Own(t) /\ t.main \in {"idle", "hung"}
      BY <1>1, <2>1, <3>1 DEF Edited
    <3>3. Determined(t, u) /\ InRange(u)
      BY <3>1, <3>2, <2>2, DetermineFrame, DetermineInRange DEF InRange
    <3> QED
      BY <3>2, <3>3, BetweenHandlers DEF Determined, Own
  <2>3. \A u \in X : Good(u)
    BY <2>2, Zenon
  <2> HIDE DEF X
  <2> QED
    BY <2>1, <2>3, BecomeGood
<1>11. ASSUME NEW m \in Media, UserRemoveLocation(m)
       PROVE  Good(Now')
  <2> DEFINE u == [Now EXCEPT !.main = "remove", !.todo = <<m>>, !.at = 0]
  <2>1. main = "idle" /\ Become({u})
    BY <1>11 DEF UserRemoveLocation, Idle
  <2>2. <<m>> \in Seq(Media) /\ <<m>> # <<>>
    OBVIOUS
  <2>3. /\ u \in State /\ u.main = "remove" /\ u.todo = <<m>> /\ u.list = list
        /\ u.cur = cur /\ u.watched = Now.watched /\ u.prev = Now.prev /\ u.next = Now.next
        /\ u.media = Now.media /\ u.queue = Now.queue
    BY <1>1, <2>2 DEF State
  <2> HIDE DEF u
  <2>4. Own(u) /\ InRange(u)
    BY <1>1, <2>1, <2>3 DEF Own, InRange, Placed, Neighbours
  <2>5. Good(u)
    BY <2>2, <2>3, <2>4 DEF Good, Loop
  <2> QED
    BY <2>1, <2>5, BecomeGood
<1>12. CASE UserNext
  <2>1. \A t \in NextTrack(Now) : Good(t)
    BY <1>1, <1>2, <1>12, NextTrackFrame, BetweenHandlers DEF UserNext, Idle, Kept
  <2> QED
    BY <1>12, <2>1, BecomeGood DEF UserNext
<1>13. CASE UserPrevious
  <2>1. main = "idle" /\ Become(PreviousTrack(Now))
    BY <1>13 DEF UserPrevious, Idle
  <2>2. \A t \in PreviousTrack(Now) : Good(t)
    BY <1>1, <2>1, PreviousTrackFrame, BetweenHandlers DEF Kept, Stuck
  <2> QED
    BY <2>1, <2>2, BecomeGood
<1>14. CASE UserShuffle
  <2> DEFINE stack == IF shuffling THEN <<>> ELSE Now.previous
             b == ~Now.shuffling
             u == [Now EXCEPT !.shuffling = b, !.previous = stack]
  <2>1. main = "idle" /\ Become(Determine(u))
    BY <1>14 DEF UserShuffle, Idle
  <2>2. stack \in Seq(Positions) /\ b \in BOOLEAN
    BY <1>1 DEF State
  <2> HIDE DEF stack, b
  <2>3. /\ u \in State /\ u.main = main /\ u.list = list /\ u.cur = cur
        /\ u.watched = Now.watched /\ u.media = Now.media /\ u.queue = Now.queue
    BY <1>1, <2>2 DEF State
  <2> HIDE DEF u
  <2>4. Own(u) /\ Placed(u)
    BY <1>1, <1>2, <2>3 DEF Own, Placed
  <2> QED
    BY <2>1, <2>3, <2>4, DetermineGood, BecomeGood
<1>15. ASSUME NEW type \in Repeats, UserRepeat(type)
       PROVE  Good(Now')
  <2> DEFINE u == [Now EXCEPT !.repeating = type]
  <2>1. main = "idle" /\ Become(Determine(u)) /\ type \in {"none", "one", "all"}
    BY <1>15, ModesAssumption DEF UserRepeat, Idle
  <2>2. /\ u \in State /\ u.main = main /\ u.list = list /\ u.cur = cur
        /\ u.watched = Now.watched /\ u.media = Now.media /\ u.queue = Now.queue
    BY <1>1, <2>1 DEF State
  <2> HIDE DEF u
  <2>3. Own(u) /\ Placed(u)
    BY <1>1, <1>2, <2>2 DEF Own, Placed
  <2> QED
    BY <2>1, <2>2, <2>3, DetermineGood, BecomeGood
<1>16. ASSUME NEW i \in 0 .. Len(list) - 1, UserPlayIndex(i)
       PROVE  Good(Now')
  <2>1. main = "idle" /\ Become(PlayIndex(Now, i)) /\ i \in Positions
    BY <1>1, <1>16 DEF UserPlayIndex, Idle, Positions
  <2>2. \A t \in PlayIndex(Now, i) : Good(t)
    BY <1>1, <2>1, PlayIndexFrame, BetweenHandlers DEF Kept
  <2> QED
    BY <2>1, <2>2, BecomeGood
<1>17. CASE UserPlay
  <2>1. Good(PlayerPlay(Now))
    BY <1>1, PlayerPlayFrame, AlikeGood DEF Alike
  <2> QED
    BY <1>17, <2>1, BecomeGood DEF UserPlay
<1>18. CASE UserPause
  <2> DEFINE u == [Now EXCEPT !.phase = "paused"]
  <2>1. "paused" \in Phases /\ "Paused" \in EventTypes
    BY DEF Phases, EventTypes
  <2>2. Alike(Now, u)
    BY <1>1, <2>1 DEF State, Alike, Untouched, Own
  <2>3. Become({Post(u, "Paused")})
    BY <1>18 DEF UserPause
  <2> HIDE DEF u
  <2>4. Good(u)
    BY <2>2, AlikeGood
  <2>5. Good(Post(u, "Paused"))
    BY <2>1, <2>4, PostFrame, AlikeGood DEF Alike, Good
  <2> QED
    BY <2>3, <2>5, BecomeGood
<1>19. CASE UserStop
  <2>1. main = "idle" /\ Become({Stop(Now)})
    BY <1>19 DEF UserStop, Idle
  <2>2. Good(Stop(Now))
    BY <1>1, <2>1, StopFrame, KeptGood
  <2> QED
    BY <2>1, <2>2, BecomeGood
<1>20. ASSUME NEW i \in -1 .. Len(list) - 1, NEW m \in Video, ActivityPlays(i, m)
       PROVE  Good(Now')
  <2> DEFINE f == Now.forced \ {m}
             u == [Now EXCEPT !.attached = TRUE, !.forced = f]
             t == IF HasCurrentMedia(u) /\ Current(u) # m THEN Stop(u) ELSE u
             X == IF ~HasCurrentMedia(t) THEN Load(t, <<m>>, 0)
                  ELSE IF t.phase # "playing" THEN PlayIndex(t, i)
                  ELSE {t}
  <2>1. main = "idle" /\ Become(X)
    BY <1>20, Zenon DEF ActivityPlays, Idle
  <2>2. f \in SUBSET Video
    BY <1>1 DEF State
  <2> HIDE DEF f
  <2>3. Alike(Now, u)
    BY <1>1, <2>2 DEF State, Alike, Untouched, Own
  <2> HIDE DEF u
  <2>4. Good(u) /\ u.main = "idle"
    BY <1>1, <2>1, <2>3, AlikeGood DEF Alike, Untouched
  <2>5. Good(t) /\ t \in State /\ t.main \in {"idle", "hung"} /\ Own(t) /\ InRange(t)
    <3>1. Good(Stop(u)) /\ Stop(u).main \in {"idle", "hung"}
      BY <2>4, StopFrame, KeptGood DEF Good, Kept
    <3> QED
      BY <2>4, <3>1 DEF Good
  <2> HIDE DEF t
  <2>6. <<m>> \in Seq(Media) /\ 0 \in Nat /\ i \in Positions
    BY <1>1, MediaAssumption DEF Positions
  <2>7. \A w \in Load(t, <<m>>, 0) : Good(w)
    BY <2>5, <2>6, LoadFrame, BetweenHandlers
  <2>8. \A w \in PlayIndex(t, i) : Good(w)
    BY <2>5, <2>6, PlayIndexFrame, BetweenHandlers DEF Kept
  <2>9. \A w \in X : Good(w)
    BY <2>5, <2>7, <2>8
  <2> HIDE DEF X
  <2> QED
    BY <2>1, <2>9, BecomeGood
<1>21. ASSUME NEW asAudio \in BOOLEAN, ActivityStops(asAudio)
       PROVE  Good(Now')
  <2> DEFINE u == [Now EXCEPT !.attached = FALSE]
             f == u.forced \cup ({Current(u)} \cap Video)
             w == [u EXCEPT !.forced = f]
  <2>1. main = "idle" /\ Become({IF asAudio /\ HasCurrentMedia(u) THEN w ELSE Stop(u)})
    BY <1>21, Zenon DEF ActivityStops, Idle
  <2>2. Alike(Now, u)
    BY <1>1 DEF State, Alike, Untouched, Own
  <2> HIDE DEF u
  <2>3. Good(u) /\ u.main = "idle"
    BY <1>1, <2>1, <2>2, AlikeGood DEF Alike, Untouched
  <2>4. f \in SUBSET Video
    BY <2>3 DEF Good, State
  <2> HIDE DEF f
  <2>5. Alike(u, w)
    BY <2>3, <2>4 DEF State, Alike, Untouched, Own, Good
  <2> HIDE DEF w
  <2>6. Good(w) /\ Good(Stop(u))
    BY <2>3, <2>5, AlikeGood, StopFrame, KeptGood DEF Good
  <2> QED
    BY <2>1, <2>6, BecomeGood
<1> QED
  BY <1>4, <1>5, <1>6, <1>7, <1>8, <1>9, <1>10, <1>11, <1>12, <1>13, <1>14, <1>15, <1>16,
     <1>17, <1>18, <1>19, <1>20, <1>21 DEF UserCall

-----------------------------------------------------------------------------
(* Theorems *)

(* Good is inductive. *)
LEMMA GoodIsInductive == Good(Now) /\ [Next]_vars => Good(Now')
<1> SUFFICES ASSUME Good(Now), [Next]_vars PROVE Good(Now')
  OBVIOUS
<1>1. CASE UNCHANGED vars
  <2>1. Now' = Now
    BY <1>1 DEF vars, Now
  <2> QED
    BY <2>1
<1>2. CASE Restart
  BY <1>2, FreshGood, BecomeGood DEF Restart
<1> QED
  BY <1>1, <1>2, CallsGood, LoopsGood, EventsGood, PlayerGood
     DEF Next, SystemStep, Spin

(* and of the current state *)
IInv == Good(Now)

(* Good is an invariant. *)
LEMMA AlwaysGood == Spec => []IInv
<1>1. Init => IInv
  BY InitGood DEF IInv
<1>2. IInv /\ [Next]_vars => IInv'
  BY GoodIsInductive DEF IInv
<1> QED
  BY <1>1, <1>2, PTL DEF Spec

(* Every state the service reaches has its type, whatever is loaded, in    *)
(* every mode and with queues of any length: in particular no position     *)
(* falls below -1, and no task of the thread pool runs without having been *)
(* posted.                                                                 *)
THEOREM TypeCorrect == Spec => []TypeOK
<1>1. IInv => TypeOK
  BY DEF IInv, Good, TypeOK
<1> QED
  BY <1>1, AlwaysGood, PTL

(* insertNext and expand never insert outside the list, whatever the list  *)
(* listener does to the current position between two insertions.           *)
THEOREM LoopsInsertInRange == Spec => []InsertionsInRange
<1>1. IInv => InsertionsInRange
  BY NowFields DEF IInv, Good, Loop, InsertionsInRange
<1> QED
  BY <1>1, AlwaysGood, PTL

(* While a song is what the player has, every event on its way to the main *)
(* thread is one of that song: no late end of the former media skips it.   *)
THEOREM NoLateEvents == Spec => []SongsGetTheirOwnEvents
<1>1. IInv => SongsGetTheirOwnEvents
  BY NowFields DEF IInv, Good, Own, SongsGetTheirOwnEvents
<1> QED
  BY <1>1, AlwaysGood, PTL

(* Whenever a media is current in a watched list, next() and previous()    *)
(* lead to positions of the list, or nowhere, in every mode and after any  *)
(* sequence of edits.                                                      *)
THEOREM NeighboursInRange == Spec => []IndicesInRange
<1>1. IInv => IndicesInRange
  <2> SUFFICES ASSUME IInv, Idle, watched, HasCurrentMedia(Now)
               PROVE  /\ next \in -1 .. Len(list) - 1
                      /\ prev \in -1 .. Len(list) - 1
    BY DEF IndicesInRange
  <2>1. list # <<>>
    BY NowFields DEF HasCurrentMedia, ValidIndex, Valid
  <2> QED
    BY <2>1, NowFields DEF IInv, Good, InRange, Neighbours, Idle
<1> QED
  BY <1>1, AlwaysGood, PTL

-----------------------------------------------------------------------------
(* The cached next position.                                               *)
(*                                                                         *)
(* Between handlers, while a song is what the player has, the next         *)
(* position is what determinePrevAndNextIndices gives: Settled.  It is     *)
(* inductive because each handler either ends in that method, leaves a     *)
(* video or no media, stops watching the list, or leaves alone everything  *)
(* the method reads (Steady).                                              *)

(* The next position in list order *)
NextOf(s) ==
    IF s.cur + 1 < Len(s.list) THEN s.cur + 1
    ELSE IF s.repeating = "none" THEN -1 ELSE 0

(* The player has a media, or has not yet been told that it has none. *)
Plays(s) == s.media # None \/ s.phase \in {"opening", "playing", "paused"}

Sings(s) ==
    /\ s.main = "idle" /\ s.watched /\ HasCurrentMedia(s)
    /\ s.media \notin Video /\ Plays(s)

Settled(s) ==
    Sings(s) /\ s.repeating # "one" =>
        /\ ~s.shuffling => s.next = NextOf(s)
        /\ s.shuffling /\ s.next # -1 =>
              s.next # s.cur /\ s.next \notin Elements(s.previous)

(* A step that Settled does not notice *)
Steady(s, t) ==
    /\ t.list = s.list /\ t.watched = s.watched /\ t.cur = s.cur
    /\ t.next = s.next /\ t.previous = s.previous
    /\ t.shuffling = s.shuffling /\ t.repeating = s.repeating
    /\ t.media = s.media /\ t.main = s.main
    /\ Plays(t) => Plays(s)

LEMMA SteadySettled ==
    ASSUME NEW s, NEW t, Settled(s), Steady(s, t)
    PROVE  Settled(t)
BY DEF Settled, Steady, Sings, NextOf, HasCurrentMedia, ValidIndex

(* A state in which nothing sings is settled. *)
LEMMA SilentSettled ==
    ASSUME NEW s, \/ s.main # "idle" \/ s.watched = FALSE
                  \/ s.media \in Video \/ ~Plays(s)
    PROVE  Settled(s)
BY DEF Settled, Sings

(* A step to one of several settled states leads to a settled state. *)
LEMMA BecomeSettled ==
    ASSUME NEW STATE S, S \subseteq State, \A t \in S : Settled(t), Become(S)
    PROVE  Settled(Now')
BY BecomeNow

(* A position that was drawn neither plays nor was played. *)
LEMMA DrawSettled ==
    ASSUME NEW s \in State, s.shuffling, NEW t \in Draw(s)
    PROVE  Settled(t)
<1>1. CASE t = [s EXCEPT !.main = "hung"]
  <2>1. t.main # "idle"
    BY <1>1 DEF State
  <2> QED
    BY <2>1, SilentSettled
<1>2. ASSUME NEW i \in Candidates(s), t = [s EXCEPT !.next = i]
      PROVE  Settled(t)
  <2>1. i # s.cur /\ i \notin Elements(s.previous)
    BY DEF Candidates
  <2>2. t.next = i /\ t.cur = s.cur /\ t.previous = s.previous /\ t.shuffling = s.shuffling
    BY <1>2 DEF State
  <2> QED
    BY <2>1, <2>2 DEF Settled
<1> QED
  BY <1>1, <1>2 DEF Draw

(* The shuffle branch draws, or leaves no next position. *)
LEMMA ShuffleSettled ==
    ASSUME NEW s \in State, s.shuffling, s.next = -1, NEW t \in ShuffleIndices(s)
    PROVE  Settled(t)
<1> DEFINE stack == DropInvalid(s)
           x == IF stack = <<>> THEN -1 ELSE stack[Len(stack)]
           u == [s EXCEPT !.previous = stack, !.prev = x]
           w == [u EXCEPT !.previous = <<>>]
<1>1. stack \in Seq(Positions)
  BY DropInvalidType
<1>2. x \in Positions
  BY <1>1 DEF Positions
<1> HIDE DEF stack, x
<1>3. u \in State /\ u.shuffling /\ u.next = -1
  BY <1>1, <1>2 DEF State
<1> HIDE DEF u
<1>4. <<>> \in Seq(Positions)
  OBVIOUS
<1>5. w \in State /\ w.shuffling
  BY <1>3, <1>4 DEF State
<1>6. ShuffleIndices(s) =
        IF Len(stack) + 1 # Len(s.list) THEN Draw(u)
        ELSE IF s.repeating = "none" THEN {u} ELSE Draw(w)
  BY Zenon DEF ShuffleIndices, stack, x, u
<1>7. t \in Draw(u) \/ t = u \/ t \in Draw(w)
  BY <1>6, Zenon
<1> HIDE DEF w
<1>8. CASE t = u
  BY <1>3, <1>8 DEF Settled
<1> QED
  BY <1>3, <1>5, <1>7, <1>8, DrawSettled

(* In list order, the next position is the one after the current. *)
LEMMA NormalSettled ==
    ASSUME NEW s \in State, ~s.shuffling
    PROVE  Settled(NormalIndices(s))
<1> DEFINE x == IF s.cur > 0 THEN s.cur - 1 ELSE -1
           y == NextOf(s)
           t == [s EXCEPT !.prev = x, !.next = y]
<1>1. NormalIndices(s) = t
  BY DEF NormalIndices, NextOf
<1> HIDE DEF x, y
<1>2. /\ t.next = y /\ t.list = s.list /\ t.cur = s.cur
      /\ t.repeating = s.repeating /\ t.shuffling = s.shuffling
  BY DEF State
<1> HIDE DEF t
<1>3. t.next = NextOf(t)
  BY <1>2 DEF NextOf, y
<1> QED
  BY <1>1, <1>2, <1>3 DEF Settled

(* determinePrevAndNextIndices settles every state. *)
LEMMA DetermineSettled ==
    ASSUME NEW s \in State, NEW t \in Determine(s)
    PROVE  Settled(t)
<1> DEFINE b == s.shuffling /\ Len(s.list) > 2
           u == [s EXCEPT !.prev = -1, !.next = -1, !.shuffling = b]
           w == [u EXCEPT !.prev = s.cur, !.next = s.cur]
<1>1. b \in BOOLEAN
  OBVIOUS
<1>2. -1 \in Positions
  BY DEF Positions
<1> HIDE DEF b
<1>3. u \in State /\ u.next = -1 /\ u.shuffling = b /\ u.repeating = s.repeating
  BY <1>1, <1>2 DEF State
<1> HIDE DEF u
<1>4. w.repeating = u.repeating
  BY <1>3 DEF State
<1>5. \/ Stuck(s) /\ t = s
      \/ u.repeating = "one" /\ t = w
      \/ b /\ t \in ShuffleIndices(u)
      \/ ~b /\ t = NormalIndices(u)
  BY <1>3, Zenon DEF Determine, u, b
<1> HIDE DEF w
<1>6. CASE Stuck(s) /\ t = s
  BY <1>6, SilentSettled DEF Stuck
<1>7. CASE u.repeating = "one" /\ t = w
  BY <1>4, <1>7 DEF Settled
<1>8. CASE b /\ t \in ShuffleIndices(u)
  BY <1>3, <1>8, ShuffleSettled
<1>9. CASE ~b /\ t = NormalIndices(u)
  BY <1>3, <1>9, NormalSettled
<1> QED
  BY <1>5, <1>6, <1>7, <1>8, <1>9

(* Posting an event settles nothing and unsettles nothing. *)
LEMMA PostSteady ==
    ASSUME NEW s \in State, NEW type \in EventTypes
    PROVE  Steady(s, Post(s, type)) /\ Post(s, type).phase = s.phase
<1> DEFINE events == Append(s.queue, [type |-> type, stale |-> FALSE])
           t == [s EXCEPT !.queue = events]
<1>1. Post(s, type) = IF s.listened THEN t ELSE s
  BY Zenon DEF Post, t, events
<1> HIDE DEF events
<1>2. Steady(s, t) /\ t.phase = s.phase
  BY DEF State, Steady, Plays
<1> HIDE DEF t
<1>3. Steady(s, s)
  BY DEF Steady
<1> QED
  BY <1>1, <1>2, <1>3

(* MediaPlayer.play starts nothing when the player has no media. *)
LEMMA PlayerPlaySteady ==
    ASSUME NEW s \in State
    PROVE  Steady(s, PlayerPlay(s))
<1> DEFINE u == [s EXCEPT !.phase = "opening"]
           w == [s EXCEPT !.phase = "playing"]
<1>1. {"opening", "playing"} \subseteq Phases /\ "Playing" \in EventTypes
  BY DEF Phases, EventTypes
<1>2. /\ s.media # None => Steady(s, u)
      /\ s.phase = "paused" => Steady(s, w)
      /\ w \in State
  BY <1>1 DEF State, Steady, Plays
<1>3. \/ s.media # None /\ PlayerPlay(s) = u
      \/ s.phase = "paused" /\ PlayerPlay(s) = Post(w, "Playing")
      \/ PlayerPlay(s) = s
  BY Zenon DEF PlayerPlay
<1> HIDE DEF u, w
<1>4. Steady(w, Post(w, "Playing"))
  BY <1>1, <1>2, PostSteady
<1> QED
  BY <1>2, <1>3, <1>4 DEF Steady

(* playIndex of a position of the list *)
LEMMA PlayIndexSettled ==
    ASSUME NEW s \in State, NEW i, ValidIndex(s, i), NEW t \in PlayIndex(s, i)
    PROVE  Settled(t)
<1> DEFINE m == Item(s.list, i)
           f == IF s.background THEN s.forced \cup ({m} \cap Video) ELSE s.forced
           v == [s EXCEPT !.cur = i, !.forced = f]
           w == SetMedia(v, m)
           x == PlayerPlay(Listen(w, TRUE))
<1>1. s.list \in Seq(Media) /\ i \in 0 .. Len(s.list) - 1 /\ Len(s.list) \in Nat
  BY DEF ValidIndex, Valid, State
<1>2. s.list # <<>> /\ i \in Positions /\ m \in Media
  BY <1>1 DEF Positions, Item
<1>3. \/ Stuck(s) /\ t = s
      \/ PlaysAtOnce(w, m) /\ t \in Determine(x)
      \/ ~PlaysAtOnce(w, m) /\ t = w
  BY <1>2, Zenon DEF PlayIndex
<1>4. f \in SUBSET Video
  BY DEF State
<1> HIDE DEF m, f
<1>5. v \in State
  BY <1>2, <1>4 DEF State
<1> HIDE DEF v
<1>6. w \in State /\ w.media = m
  BY <1>2, <1>5, SetMediaFrame DEF Untouched
<1> HIDE DEF w
<1>7. x \in State
  BY <1>6, ListenFrame, PlayerPlayFrame DEF Untouched
<1> HIDE DEF x
<1>8. CASE Stuck(s) /\ t = s
  BY <1>8, SilentSettled DEF Stuck
<1>9. CASE PlaysAtOnce(w, m) /\ t \in Determine(x)
  BY <1>7, <1>9, DetermineSettled
<1>10. CASE ~PlaysAtOnce(w, m) /\ t = w
  BY <1>6, <1>10, SilentSettled DEF PlaysAtOnce
<1> QED
  BY <1>3, <1>8, <1>9, <1>10

(* onPlaybackStopped leaves nothing current, or does nothing. *)
LEMMA StoppedSettled ==
    ASSUME NEW s \in State, Settled(s)
    PROVE  Settled(OnPlaybackStopped(s))
<1> DEFINE t == [s EXCEPT !.stopped = TRUE, !.cur = -1]
<1>1. OnPlaybackStopped(s) = s \/ OnPlaybackStopped(s) = t
  BY Zenon DEF OnPlaybackStopped
<1>2. t.cur = -1
  BY DEF State
<1> HIDE DEF t
<1>3. ~HasCurrentMedia(t)
  BY <1>2 DEF HasCurrentMedia, ValidIndex, Valid
<1>4. Settled(t)
  BY <1>3 DEF Settled, Sings
<1> QED
  BY <1>1, <1>4

(* stop stops watching the list. *)
LEMMA StopSettled ==
    ASSUME NEW s \in State
    PROVE  Settled(Stop(s))
<1> DEFINE k == Listen(s, FALSE)
           u == [k EXCEPT !.stops = k.stops + 1]
           t == IF s.media = None THEN s ELSE u
           v == [t EXCEPT !.watched = FALSE, !.previous = <<>>]
<1>1. k \in State
  BY ListenFrame DEF Untouched
<1> HIDE DEF k
<1>2. u \in State
  <2>1. k.stops + 1 \in Nat
    BY <1>1 DEF State
  <2> QED
    BY <1>1, <2>1 DEF State
<1> HIDE DEF u
<1>3. t \in State
  BY <1>2
<1> HIDE DEF t
<1>4. <<>> \in Seq(Positions)
  OBVIOUS
<1>5. v \in State /\ v.watched = FALSE
  BY <1>3, <1>4 DEF State
<1>6. Stop(s) = IF Stuck(s) THEN s ELSE OnPlaybackStopped(v)
  BY Zenon DEF Stop, v, t, u, k
<1> HIDE DEF v
<1>7. CASE Stuck(s)
  BY <1>6, <1>7, SilentSettled DEF Stuck
<1>8. CASE ~Stuck(s)
  BY <1>5, <1>6, <1>8, SilentSettled, StoppedSettled
<1> QED
  BY <1>7, <1>8

(* next *)
LEMMA NextTrackSettled ==
    ASSUME NEW s \in State, NEW t \in NextTrack(s)
    PROVE  Settled(t)
<1> DEFINE stack == Append(s.previous, s.cur)
           u == [s EXCEPT !.previous = stack, !.cur = s.next]
           b == ~u.attached /\ CanSwitchToVideo(u)
           w == [u EXCEPT !.background = b]
<1>1. stack \in Seq(Positions) /\ s.next \in Positions
  BY DEF State
<1> HIDE DEF stack
<1>2. u \in State
  BY <1>1 DEF State
<1>3. \/ t = s /\ Stuck(s)
      \/ t = Stop(u)
      \/ HasCurrentMedia(u) /\ t \in PlayIndex(w, u.cur)
  BY Zenon DEF NextTrack, w, b, u, stack
<1> HIDE DEF u
<1>4. b \in BOOLEAN
  BY DEF CanSwitchToVideo
<1> HIDE DEF b
<1>5. w \in State /\ w.list = u.list
  BY <1>2, <1>4 DEF State
<1> HIDE DEF w
<1>6. CASE t = s /\ Stuck(s)
  BY <1>6, SilentSettled DEF Stuck
<1>7. CASE t = Stop(u)
  BY <1>2, <1>7, StopSettled
<1>8. CASE HasCurrentMedia(u) /\ t \in PlayIndex(w, u.cur)
  <2>1. ValidIndex(w, u.cur)
    BY <1>5, <1>8 DEF HasCurrentMedia, ValidIndex
  <2> QED
    BY <1>5, <1>8, <2>1, PlayIndexSettled
<1> QED
  BY <1>3, <1>6, <1>7, <1>8

(* previous *)
LEMMA PreviousTrackSettled ==
    ASSUME NEW s \in State, NEW t \in PreviousTrack(s)
    PROVE  Settled(t)
<1> DEFINE stack == IF s.previous = <<>> THEN s.previous
                    ELSE SubSeq(s.previous, 1, Len(s.previous) - 1)
           u == [s EXCEPT !.cur = s.prev, !.previous = stack]
<1>1. stack \in Seq(Positions)
  <2>1. s.previous \in Seq(Positions)
    BY DEF State
  <2>2. s.previous # <<>> => Len(s.previous) - 1 \in 0 .. Len(s.previous)
    BY <2>1
  <2> QED
    BY <2>1, <2>2, PrefixType
<1>2. s.prev \in Positions
  BY DEF State
<1> HIDE DEF stack
<1>3. u \in State
  BY <1>1, <1>2 DEF State
<1>4. t = Stop(u) \/ (HasCurrentMedia(u) /\ t \in PlayIndex(u, u.cur))
  BY Zenon DEF PreviousTrack, stack
<1> HIDE DEF u
<1> QED
  BY <1>3, <1>4, StopSettled, PlayIndexSettled DEF HasCurrentMedia

(* load: an empty list is not watched. *)
LEMMA LoadSettled ==
    ASSUME NEW s \in State, NEW items \in Seq(Media), NEW position \in Nat,
           NEW t \in Load(s, items, position)
    PROVE  Settled(t)
<1> DEFINE v == [s EXCEPT !.watched = FALSE, !.previous = <<>>, !.list = items]
           x == IF ValidIndex(v, position) THEN position ELSE 0
           u == [v EXCEPT !.cur = x, !.watched = TRUE]
<1>1. <<>> \in Seq(Positions)
  OBVIOUS
<1>2. v \in State /\ v.watched = FALSE
  BY <1>1 DEF State
<1>3. x \in Positions
  BY DEF Positions
<1>4. IF items = <<>> THEN t = v
      ELSE \E w \in PlayIndex(u, u.cur) : t \in Determine(w)
  BY Zenon DEF Load
<1> HIDE DEF v, x
<1>5. u \in State /\ u.cur \in Positions
  BY <1>2, <1>3 DEF State
<1> HIDE DEF u
<1>6. CASE items = <<>>
  BY <1>2, <1>4, <1>6, SilentSettled
<1>7. CASE items # <<>>
  <2>1. PICK w \in PlayIndex(u, u.cur) : t \in Determine(w)
    BY <1>4, <1>7
  <2>2. w \in State
    BY <1>5, <2>1, PlayIndexFrame DEF Kept
  <2> QED
    BY <2>1, <2>2, DetermineSettled
<1> QED
  BY <1>6, <1>7

(* onItemMoved ends in determinePrevAndNextIndices. *)
LEMMA ItemMovedSettled ==
    ASSUME NEW s \in State, NEW start \in Nat, NEW end \in Nat,
           NEW t \in ItemMoved(s, start, end)
    PROVE  Settled(t)
<1> DEFINE x == IF s.cur = start THEN (IF end > start THEN end - 1 ELSE end)
                ELSE IF start > s.cur /\ end <= s.cur THEN s.cur + 1
                ELSE IF start < s.cur /\ end > s.cur THEN s.cur - 1
                ELSE s.cur
           u == [s EXCEPT !.previous = <<>>, !.cur = x]
<1>1. s.cur \in Positions
  BY DEF State
<1>2. x \in Positions
  BY <1>1 DEF Positions
<1>3. <<>> \in Seq(Positions)
  OBVIOUS
<1>4. t \in Determine(u)
  BY Zenon DEF ItemMoved
<1> HIDE DEF x
<1>5. u \in State
  BY <1>2, <1>3 DEF State
<1> HIDE DEF u
<1> QED
  BY <1>4, <1>5, DetermineSettled

(* The state of a new process is settled: it watches no list. *)
LEMMA FreshSettled == Settled(Fresh)
BY SilentSettled DEF Fresh

(* The native player and the tasks of the thread pool leave the state settled. *)
LEMMA PlayerSettled ==
    ASSUME Good(Now), Settled(Now), Player \/ ThreadPool
    PROVE  Settled(Now')
<1>1. Now \in State
  BY DEF Good
<1>2. ASSUME NEW type \in EventTypes, NEW from, from \subseteq {"opening", "playing"},
             NEW to \in Phases, Report(type, from, to)
      PROVE  Settled(Now')
  <2> DEFINE u == [Now EXCEPT !.phase = to]
  <2>1. Plays(Now)
    BY <1>2, NowFields DEF Report, Plays
  <2>2. u \in State /\ Steady(Now, u)
    BY <1>1, <2>1 DEF State, Steady
  <2>3. Become({Post(u, type)})
    BY <1>2 DEF Report, u
  <2> HIDE DEF u
  <2>4. Settled(u)
    BY <2>2, SteadySettled
  <2>5. Post(u, type) \in State /\ Settled(Post(u, type))
    BY <2>2, <2>4, PostFrame, PostSteady, SteadySettled DEF Untouched
  <2> QED
    BY <2>3, <2>5, BecomeSettled
<1>3. CASE Player
  BY <1>2, <1>3 DEF Player, PlayerOpens, PlayerEnds, PlayerFails, EventTypes, Phases
<1>4. CASE StopTask
  <2> DEFINE u == [Now EXCEPT !.stops = @ - 1, !.clearing = @ + 1, !.phase = "stopped"]
  <2>1. Now.stops - 1 \in Nat /\ Now.clearing + 1 \in Nat
    BY <1>1, <1>4, NowFields DEF StopTask, State
  <2>2. "stopped" \in Phases /\ "Stopped" \in EventTypes
    BY DEF Phases, EventTypes
  <2>3. u \in State /\ Steady(Now, u)
    BY <1>1, <2>1, <2>2 DEF State, Steady, Plays
  <2>4. Become({IF phase = "stopped" THEN u ELSE Post(u, "Stopped")})
    BY <1>4 DEF StopTask
  <2> HIDE DEF u
  <2>5. Settled(u)
    BY <2>3, SteadySettled
  <2>6. Post(u, "Stopped") \in State /\ Settled(Post(u, "Stopped"))
    BY <2>2, <2>3, <2>5, PostFrame, PostSteady, SteadySettled DEF Untouched
  <2> QED
    BY <2>3, <2>4, <2>5, <2>6, BecomeSettled
<1>5. CASE ClearTask
  <2> DEFINE u == [Now EXCEPT !.clearing = @ - 1]
             v == SetMedia(u, None)
  <2>1. Now.clearing - 1 \in Nat
    BY <1>1, <1>5, NowFields DEF ClearTask, State
  <2>2. u \in State
    BY <1>1, <2>1 DEF State
  <2>3. Become({v})
    BY <1>5 DEF ClearTask
  <2> HIDE DEF u
  <2>4. v \in State /\ v.media = None
    BY <2>2, SetMediaFrame DEF Untouched
  <2>5. v.phase = "nothing"
    BY <2>2 DEF SetMedia, State
  <2> HIDE DEF v
  <2>6. Settled(v)
    BY <2>4, <2>5, SilentSettled DEF Plays
  <2> QED
    BY <2>3, <2>4, <2>6, BecomeSettled
<1> QED
  BY <1>3, <1>4, <1>5 DEF ThreadPool

(* So do the handlers of the player events. *)
LEMMA EventsSettled ==
    ASSUME Good(Now), Settled(Now), HandleEvent
    PROVE  Settled(Now')
<1>1. main = "idle" /\ queue # <<>>
  BY DEF HandleEvent, OnPlaying, OnPaused, OnStopped, OnEndReached, OnEncounteredError,
         Take, Idle
<1>2. Now \in State /\ Good(Taken)
  BY <1>1, TakenGood DEF Good
<1>3. /\ Taken \in State /\ InRange(Taken) /\ Taken.main = "idle"
      /\ Taken.list = list /\ Taken.cur = cur
  BY <1>1, <1>2, TakenGood, NowFields DEF Good, Alike, Untouched
<1>4. Settled(Taken)
  <2>1. Steady(Now, Taken)
    <3> DEFINE rest == Tail(Now.queue)
    <3>1. Taken = [Now EXCEPT !.queue = rest]
      BY DEF Taken
    <3> HIDE DEF rest
    <3> QED
      BY <1>2, <3>1 DEF State, Steady, Plays
  <2> QED
    BY <2>1, SteadySettled
<1>5. ASSUME NEW t \in NextTrack(Taken)
      PROVE  t \in State /\ Settled(t)
  BY <1>3, NextTrackFrame, NextTrackSettled DEF InRange, Kept
<1>6. CASE OnPlaying
  <2> DEFINE u == [Taken EXCEPT !.stopped = FALSE, !.background = FALSE]
             v == [Taken EXCEPT !.stopped = FALSE, !.main = "crashed"]
  <2>1. u \in State /\ Steady(Taken, u)
    BY <1>3 DEF State, Steady, Plays
  <2>2. v \in State /\ v.main = "crashed"
    BY <1>3 DEF State
  <2>3. Become({IF HasCurrentMedia(Now) THEN u ELSE v})
    BY <1>6 DEF OnPlaying
  <2> HIDE DEF u, v
  <2>4. Settled(u) /\ Settled(v)
    BY <1>4, <2>1, <2>2, SteadySettled, SilentSettled
  <2> QED
    BY <2>1, <2>2, <2>3, <2>4, BecomeSettled
<1>7. CASE OnPaused
  <2> DEFINE u == [Taken EXCEPT !.stopped = FALSE]
  <2>1. u \in State /\ Steady(Taken, u)
    BY <1>3 DEF State, Steady, Plays
  <2>2. Become({u})
    BY <1>7 DEF OnPaused
  <2> HIDE DEF u
  <2> QED
    BY <1>4, <2>1, <2>2, SteadySettled, BecomeSettled
<1>8. CASE OnStopped
  <2>1. OnPlaybackStopped(Taken) \in State /\ Settled(OnPlaybackStopped(Taken))
    BY <1>3, <1>4, StoppedFrame, StoppedSettled DEF Kept
  <2> QED
    BY <1>8, <2>1, BecomeSettled DEF OnStopped
<1>9. CASE OnEndReached
  <2>1. ASSUME NEW t \in Determine(Taken), NEW u \in NextTrack(t)
        PROVE  u \in State /\ Settled(u)
    <3>1. t \in State /\ InRange(t)
      BY <1>3, DetermineFrame, DetermineInRange DEF InRange, Determined
    <3> QED
      BY <2>1, <3>1, NextTrackFrame, NextTrackSettled DEF InRange, Kept
  <2>2. ASSUME HasCurrentMedia(Now), media # None, NEW t \in ListRemove(Taken, cur, TRUE)
        PROVE  LET u == [t EXCEPT !.main = IF Stuck(t) THEN @ ELSE "expand",
                                  !.todo = SubItems[media]]
               IN  u \in State /\ Settled(u)
    <3> DEFINE m == IF Stuck(t) THEN t.main ELSE "expand"
               items == SubItems[media]
               u == [t EXCEPT !.main = m, !.todo = items]
    <3>1. cur \in 0 .. Len(Taken.list) - 1
      BY <1>3, <2>2, NowFields DEF HasCurrentMedia, ValidIndex, Valid
    <3>2. t \in State
      BY <1>3, <2>2, <3>1, ListRemoveFrame DEF Edited
    <3>3. items \in Seq(Media)
      <4>1. media \in Media
        BY <1>2, <2>2, NowFields DEF State
      <4> QED
        BY <4>1, SubItemsAssumption
    <3>4. m \in {"expand", "hung", "crashed"}
      BY DEF Stuck
    <3> HIDE DEF m, items
    <3>5. u \in State /\ u.main # "idle"
      BY <3>2, <3>3, <3>4 DEF State
    <3> HIDE DEF u
    <3> QED
      BY <3>5, SilentSettled DEF u, m, items
  <2> DEFINE X == IF media = None \/ ~HasCurrentMedia(Now)
              THEN {[Taken EXCEPT !.main = "crashed"]}
              ELSE IF SubItems[media] = <<>>
              THEN UNION {NextTrack(t) : t \in Determine(Taken)}
              ELSE {[t EXCEPT !.main = IF Stuck(t) THEN @ ELSE "expand",
                              !.todo = SubItems[media]] :
                        t \in ListRemove(Taken, cur, TRUE)}
  <2>3. Become(X)
    BY <1>9 DEF OnEndReached
  <2>4. \A u \in X : u \in State /\ Settled(u)
    <3>1. CASE media = None \/ ~HasCurrentMedia(Now)
      <4> DEFINE u == [Taken EXCEPT !.main = "crashed"]
      <4>1. u \in State /\ u.main # "idle"
        BY <1>3 DEF State
      <4> HIDE DEF u
      <4> QED
        BY <3>1, <4>1, SilentSettled DEF u
    <3>2. CASE ~(media = None \/ ~HasCurrentMedia(Now)) /\ SubItems[media] = <<>>
      BY <2>1, <3>2, Zenon
    <3>3. CASE ~(media = None \/ ~HasCurrentMedia(Now)) /\ SubItems[media] # <<>>
      BY <2>2, <3>3, Zenon
    <3> QED
      BY <3>1, <3>2, <3>3
  <2> HIDE DEF X
  <2> QED
    BY <2>3, <2>4, BecomeSettled
<1>10. CASE OnEncounteredError
  BY <1>5, <1>10, BecomeSettled DEF OnEncounteredError
<1> QED
  BY <1>6, <1>7, <1>8, <1>9, <1>10 DEF HandleEvent

(* The loops are silent until their last step, which settles. *)
LEMMA LoopsSettled ==
    ASSUME Good(Now), LoopStep
    PROVE  Settled(Now')
<1>1. /\ Now \in State /\ InRange(Now) /\ Loop(Now)
      /\ Now.list = list /\ Now.cur = cur /\ Now.main = main /\ Now.todo = todo
      /\ Now.at = at
  BY NowFields DEF Good
<1>2. list \in Seq(Media) /\ Len(list) \in Nat /\ todo \in Seq(Media) /\ at \in Nat
  BY <1>1 DEF State
<1>3. ASSUME NEW t \in State, t.main # "idle", NEW x \in Seq(Media), NEW y \in Nat
      PROVE  LET u == [t EXCEPT !.todo = x, !.at = y]
             IN  u \in State /\ Settled(u)
  <2> DEFINE u == [t EXCEPT !.todo = x, !.at = y]
  <2>1. u \in State /\ u.main # "idle"
    BY <1>3 DEF State
  <2> HIDE DEF u
  <2> QED
    BY <2>1, SilentSettled DEF u
<1>4. CASE InsertStep
  <2>1. main = "insert" /\ todo # <<>>
    BY <1>4 DEF InsertStep
  <2>2. Head(todo) \in Media /\ Tail(todo) \in Seq(Media) /\ at + 1 \in Nat
    BY <1>2, <2>1
  <2>3. ~Stuck(Now) /\ at \in 0 .. Len(list)
    BY <1>1, <2>1 DEF Stuck, Loop
  <2>4. ASSUME NEW t \in ListInsert(Now, at, Head(todo), FALSE)
        PROVE  LET u == [t EXCEPT !.todo = Tail(@), !.at = @ + 1]
               IN  u \in State /\ Settled(u)
    <3>1. Edited(Now, t)
      BY <1>1, <2>2, <2>3, ListInsertFrame
    <3>2. t \in State /\ t.todo = todo /\ t.at = at /\ t.main # "idle"
      BY <1>1, <2>1, <3>1 DEF Edited
    <3> QED
      BY <1>3, <2>2, <3>2, Zenon
  <2> DEFINE X == {[t EXCEPT !.todo = Tail(@), !.at = @ + 1] :
                      t \in ListInsert(Now, at, Head(todo), FALSE)}
  <2>5. Become(X)
    BY <1>4 DEF InsertStep
  <2>6. \A t \in X : t \in State /\ Settled(t)
    BY <2>4, Zenon
  <2> HIDE DEF X
  <2> QED
    BY <2>5, <2>6, BecomeSettled
<1>5. ASSUME NEW u \in State, Become(Determine(u))
      PROVE  Settled(Now')
  <2>1. \A t \in Determine(u) : t \in State /\ Settled(t)
    BY DetermineFrame, DetermineSettled DEF Determined
  <2> QED
    BY <1>5, <2>1, BecomeSettled
<1>6. CASE InsertDone
  <2> DEFINE u == [Now EXCEPT !.main = "idle", !.at = 0]
  <2>1. u \in State
    BY <1>1 DEF State
  <2>2. Become(Determine(u))
    BY <1>6 DEF InsertDone
  <2> HIDE DEF u
  <2> QED
    BY <1>5, <2>1, <2>2
<1>7. CASE RemoveStep
  <2>1. PICK i \in 0 .. Len(list) - 1 :
          /\ main = "remove"
          /\ Become({[t EXCEPT !.at = i] : t \in ListRemove(Now, i, FALSE)})
    BY <1>7 DEF RemoveStep
  <2>2. i \in Nat
    BY <1>2
  <2>3. ASSUME NEW t \in ListRemove(Now, i, FALSE)
        PROVE  LET u == [t EXCEPT !.at = i] IN u \in State /\ Settled(u)
    <3> DEFINE u == [t EXCEPT !.at = i]
    <3>1. t \in State /\ t.main # "idle"
      BY <1>1, <2>1, ListRemoveFrame DEF Edited
    <3>2. u \in State /\ u.main # "idle"
      BY <2>2, <3>1 DEF State
    <3> HIDE DEF u
    <3> QED
      BY <3>2, SilentSettled DEF u
  <2> DEFINE X == {[t EXCEPT !.at = i] : t \in ListRemove(Now, i, FALSE)}
  <2>4. \A t \in X : t \in State /\ Settled(t)
    BY <2>3, Zenon
  <2>5. Become(X)
    BY <2>1
  <2> HIDE DEF X
  <2> QED
    BY <2>4, <2>5, BecomeSettled
<1>8. CASE RemoveDone
  <2> DEFINE u == [Now EXCEPT !.main = "idle", !.todo = <<>>, !.at = 0]
  <2>1. <<>> \in Seq(Media)
    OBVIOUS
  <2>2. u \in State
    BY <1>1, <2>1 DEF State
  <2>3. Become(Determine(u))
    BY <1>8 DEF RemoveDone
  <2> HIDE DEF u
  <2> QED
    BY <1>5, <2>2, <2>3
<1>9. CASE ExpandStep
  <2>1. main = "expand" /\ todo # <<>>
    BY <1>9 DEF ExpandStep
  <2>2. todo[Len(todo)] \in Media /\ Len(todo) - 1 \in 0 .. Len(todo)
    BY <1>2, <2>1
  <2>3. ~Stuck(Now) /\ cur \in 0 .. Len(list)
    BY <1>1, <2>1 DEF Stuck, Loop
  <2> DEFINE rest == SubSeq(todo, 1, Len(todo) - 1)
  <2>4. rest \in Seq(Media)
    BY <1>2, <2>2, PrefixType
  <2>5. ASSUME NEW t \in ListInsert(Now, cur, todo[Len(todo)], TRUE)
        PROVE  LET u == [t EXCEPT !.todo = SubSeq(@, 1, Len(@) - 1)]
               IN  u \in State /\ Settled(u)
    <3> DEFINE u == [t EXCEPT !.todo = rest]
    <3>1. t \in State /\ t.todo = todo /\ t.main # "idle"
      BY <1>1, <2>1, <2>2, <2>3, ListInsertFrame DEF Edited
    <3> HIDE DEF rest
    <3>2. u \in State /\ u.main # "idle"
      BY <2>4, <3>1 DEF State
    <3>3. [t EXCEPT !.todo = SubSeq(@, 1, Len(@) - 1)] = u
      BY <3>1, Zenon DEF rest
    <3> HIDE DEF u
    <3> QED
      BY <3>2, <3>3, SilentSettled
  <2> DEFINE X == {[t EXCEPT !.todo = SubSeq(@, 1, Len(@) - 1)] :
                      t \in ListInsert(Now, cur, todo[Len(todo)], TRUE)}
  <2>6. \A t \in X : t \in State /\ Settled(t)
    BY <2>5, Zenon
  <2>7. Become(X)
    BY <1>9 DEF ExpandStep
  <2> HIDE DEF X
  <2> QED
    BY <2>6, <2>7, BecomeSettled
<1>10. CASE ExpandDone
  <2> DEFINE u == [Now EXCEPT !.main = "idle", !.next = 0, !.prev = -1]
  <2>1. 0 \in Positions /\ -1 \in Positions
    BY DEF Positions
  <2>2. u \in State /\ u.next = 0 /\ u.prev = -1 /\ u.list = list
    BY <1>1, <2>1 DEF State
  <2>3. Become(NextTrack(u))
    BY <1>10 DEF ExpandDone
  <2> HIDE DEF u
  <2>4. Neighbours(u)
    BY <1>2, <2>2 DEF Neighbours
  <2>5. \A t \in NextTrack(u) : t \in State /\ Settled(t)
    BY <2>2, <2>4, NextTrackFrame, NextTrackSettled DEF Kept
  <2> QED
    BY <2>3, <2>5, BecomeSettled
<1> QED
  BY <1>4, <1>6, <1>7, <1>8, <1>9, <1>10 DEF LoopStep

(* The calls of the user interface end settled too, unless a video is      *)
(* opened outside the playlist: playIndex(-1) moves the current position   *)
(* and determines nothing.                                                 *)
LEMMA CallsSettled ==
    ASSUME Alone = FALSE, Good(Now), Settled(Now), UserCall
    PROVE  Settled(Now')
<1>1. /\ Now \in State /\ InRange(Now)
      /\ Now.list = list /\ Now.cur = cur /\ Now.main = main
      /\ list \in Seq(Media) /\ Len(list) \in Nat /\ cur \in Positions
  BY NowFields DEF Good, State
<1>2. Now.watched /\ Now.main \in {"idle", "insert", "remove"} => Neighbours(Now)
  BY <1>1 DEF InRange
<1>3. ASSUME NEW s \in State, NEW items \in Seq(Media), NEW position \in Nat,
             Become(Load(s, items, position))
      PROVE  Settled(Now')
  <2>1. \A t \in Load(s, items, position) : t \in State /\ Settled(t)
    BY <1>3, LoadFrame, LoadSettled
  <2> QED
    BY <1>3, <2>1, BecomeSettled
<1>4. ASSUME NEW u \in State, Become(Determine(u))
      PROVE  Settled(Now')
  <2>1. \A t \in Determine(u) : t \in State /\ Settled(t)
    BY DetermineFrame, DetermineSettled DEF Determined
  <2> QED
    BY <1>4, <2>1, BecomeSettled
<1>5. ASSUME NEW u, u \in State, Settled(u), Become({u})
      PROVE  Settled(Now')
  BY <1>5, BecomeSettled
<1>6. ASSUME NEW items \in Loads, NEW position \in 0 .. Len(items),
             UserLoad(items, position)
      PROVE  Settled(Now')
  BY <1>1, <1>3, <1>6, LoadsAssumption DEF UserLoad
<1>7. ASSUME NEW items \in Loads, NEW position \in 0 .. Len(items),
             NEW shuffle \in Shuffles, NEW repeat \in Repeats,
             LoadLast(items, position, shuffle, repeat)
      PROVE  Settled(Now')
  <2> DEFINE u == [Now EXCEPT !.shuffling = shuffle, !.repeating = repeat]
  <2>1. shuffle \in BOOLEAN /\ repeat \in {"none", "one", "all"}
    BY ModesAssumption
  <2>2. u \in State
    BY <1>1, <2>1 DEF State
  <2>3. Become(Load(u, items, position))
    BY <1>7 DEF LoadLast
  <2> HIDE DEF u
  <2> QED
    BY <1>3, <2>2, <2>3, LoadsAssumption
<1>8. ASSUME NEW items \in Loads, UserAppend(items)
      PROVE  Settled(Now')
  <2> DEFINE u == [Now EXCEPT !.list = list \o items]
  <2>1. items \in Seq(Media)
    BY LoadsAssumption
  <2>2. list \o items \in Seq(Media)
    BY <1>1, <2>1, ConcatType
  <2>3. u \in State
    BY <1>1, <2>2, NewListFrame
  <2>4. Become(IF HasCurrentMedia(Now) THEN Determine(u) ELSE Load(Now, items, 0))
    BY <1>1, <1>8, Zenon DEF UserAppend
  <2> HIDE DEF u
  <2> QED
    BY <1>1, <1>3, <1>4, <2>1, <2>3, <2>4
<1>9. ASSUME NEW items \in Loads, UserInsertNext(items)
      PROVE  Settled(Now')
  <2> DEFINE u == [Now EXCEPT !.main = "insert", !.todo = items, !.at = cur + 1]
  <2>1. items \in Seq(Media)
    BY LoadsAssumption
  <2>2. Become(IF HasCurrentMedia(Now) THEN {u} ELSE Load(Now, items, 0))
    BY <1>9 DEF UserInsertNext
  <2>3. CASE HasCurrentMedia(Now)
    <3>1. cur + 1 \in Nat
      BY <1>1, <2>3 DEF HasCurrentMedia, ValidIndex, Valid
    <3>2. u \in State /\ u.main = "insert"
      BY <1>1, <2>1, <3>1 DEF State
    <3> HIDE DEF u
    <3>3. Settled(u)
      BY <3>2, SilentSettled
    <3> QED
      BY <1>5, <2>2, <2>3, <3>2, <3>3
  <2>4. CASE ~HasCurrentMedia(Now)
    BY <1>1, <1>3, <2>1, <2>2, <2>4
  <2> QED
    BY <2>3, <2>4
<1>10. ASSUME NEW m \in Media, NEW position \in 0 .. Len(list), UserInsertItem(position, m)
       PROVE  Settled(Now')
  <2> DEFINE X == UNION {Determine(t) : t \in ListInsert(Now, position, m, FALSE)}
  <2>1. main = "idle" /\ Become(X)
    BY <1>10 DEF UserInsertItem, Idle
  <2>2. ASSUME NEW t \in ListInsert(Now, position, m, FALSE), NEW u \in Determine(t)
        PROVE  u \in State /\ Settled(u)
    <3>1. t \in State
      BY <1>1, <2>1, ListInsertFrame DEF Stuck, Edited
    <3> QED
      BY <2>2, <3>1, DetermineFrame, DetermineSettled DEF Determined
  <2>3. \A u \in X : u \in State /\ Settled(u)
    BY <2>2, Zenon
  <2> HIDE DEF X
  <2> QED
    BY <2>1, <2>3, BecomeSettled
<1>11. ASSUME NEW start \in 0 .. Len(list), NEW end \in 0 .. Len(list), UserMove(start, end)
       PROVE  Settled(Now')
  <2> DEFINE u == [Now EXCEPT !.list = Move(list, start, end)]
  <2>1. start \in 0 .. Len(list) - 1
    BY <1>1, <1>11 DEF UserMove, ValidIndex, Valid
  <2>2. Move(list, start, end) \in Seq(Media)
    BY <1>1, <2>1, MoveType
  <2>3. u \in State /\ u.main = main /\ u.watched = watched
        /\ Len(u.list) = Len(list) /\ u.cur = cur
    BY <1>1, <2>1, <2>2, NewListFrame, MoveType, NowFields
  <2>4. main = "idle" /\ Become(IF watched THEN ItemMoved(u, start, end) ELSE {u})
    BY <1>1, <1>11, Zenon DEF UserMove, Idle
  <2> HIDE DEF u
  <2>5. CASE watched
    <3>1. Placed(u)
      BY <1>1, <2>3, NowFields DEF InRange, Placed
    <3>2. \A t \in ItemMoved(u, start, end) : t \in State /\ Settled(t)
      BY <2>1, <2>3, <3>1, ItemMovedFrame, ItemMovedSettled DEF Kept
    <3> QED
      BY <2>4, <2>5, <3>2, BecomeSettled
  <2>6. CASE ~watched
    <3>1. Settled(u)
      BY <2>3, <2>6 DEF Settled, Sings
    <3> QED
      BY <1>5, <2>3, <2>4, <2>6, <3>1
  <2> QED
    BY <2>5, <2>6
<1>12. ASSUME NEW i \in 0 .. Len(list) - 1, UserRemove(i)
       PROVE  Settled(Now')
  <2> DEFINE X == UNION {Determine(t) : t \in ListRemove(Now, i, FALSE)}
  <2>1. Become(X)
    BY <1>12 DEF UserRemove
  <2>2. ASSUME NEW t \in ListRemove(Now, i, FALSE), NEW u \in Determine(t)
        PROVE  u \in State /\ Settled(u)
    <3>1. t \in State
      BY <1>1, ListRemoveFrame DEF Edited
    <3> QED
      BY <2>2, <3>1, DetermineFrame, DetermineSettled DEF Determined
  <2>3. \A u \in X : u \in State /\ Settled(u)
    BY <2>2, Zenon
  <2> HIDE DEF X
  <2> QED
    BY <2>1, <2>3, BecomeSettled
<1>13. ASSUME NEW m \in Media, UserRemoveLocation(m)
       PROVE  Settled(Now')
  <2> DEFINE u == [Now EXCEPT !.main = "remove", !.todo = <<m>>, !.at = 0]
  <2>1. Become({u})
    BY <1>13 DEF UserRemoveLocation
  <2>2. <<m>> \in Seq(Media)
    OBVIOUS
  <2>3. u \in State /\ u.main = "remove"
    BY <1>1, <2>2 DEF State
  <2> HIDE DEF u
  <2> QED
    BY <1>5, <2>1, <2>3, SilentSettled
<1>14. CASE UserNext
  <2>1. \A t \in NextTrack(Now) : t \in State /\ Settled(t)
    BY <1>1, <1>2, NextTrackFrame, NextTrackSettled DEF Kept
  <2> QED
    BY <1>14, <2>1, BecomeSettled DEF UserNext
<1>15. CASE UserPrevious
  <2>1. main = "idle" /\ Become(PreviousTrack(Now))
    BY <1>15 DEF UserPrevious, Idle
  <2>2. \A t \in PreviousTrack(Now) : t \in State /\ Settled(t)
    BY <1>1, <2>1, PreviousTrackFrame, PreviousTrackSettled DEF Kept, Stuck
  <2> QED
    BY <2>1, <2>2, BecomeSettled
<1>16. CASE UserShuffle
  <2> DEFINE stack == IF shuffling THEN <<>> ELSE Now.previous
             b == ~Now.shuffling
             u == [Now EXCEPT !.shuffling = b, !.previous = stack]
  <2>1. Become(Determine(u))
    BY <1>16 DEF UserShuffle
  <2>2. stack \in Seq(Positions) /\ b \in BOOLEAN
    BY <1>1 DEF State
  <2> HIDE DEF stack, b
  <2>3. u \in State
    BY <1>1, <2>2 DEF State
  <2> HIDE DEF u
  <2> QED
    BY <1>4, <2>1, <2>3
<1>17. ASSUME NEW type \in Repeats, UserRepeat(type)
       PROVE  Settled(Now')
  <2> DEFINE u == [Now EXCEPT !.repeating = type]
  <2>1. Become(Determine(u)) /\ type \in {"none", "one", "all"}
    BY <1>17, ModesAssumption DEF UserRepeat
  <2>2. u \in State
    BY <1>1, <2>1 DEF State
  <2> HIDE DEF u
  <2> QED
    BY <1>4, <2>1, <2>2
<1>18. ASSUME NEW i \in 0 .. Len(list) - 1, UserPlayIndex(i)
       PROVE  Settled(Now')
  <2>1. Become(PlayIndex(Now, i)) /\ i \in Positions
    BY <1>1, <1>18 DEF UserPlayIndex, Positions
  <2>2. ValidIndex(Now, i)
    BY <1>1 DEF ValidIndex, Valid
  <2>3. \A t \in PlayIndex(Now, i) : t \in State /\ Settled(t)
    BY <1>1, <2>1, <2>2, PlayIndexFrame, PlayIndexSettled DEF Kept
  <2> QED
    BY <2>1, <2>3, BecomeSettled
<1>19. CASE UserPlay
  <2>1. PlayerPlay(Now) \in State /\ Settled(PlayerPlay(Now))
    BY <1>1, PlayerPlayFrame, PlayerPlaySteady, SteadySettled DEF Untouched
  <2> QED
    BY <1>5, <1>19, <2>1 DEF UserPlay
<1>20. CASE UserPause
  <2> DEFINE u == [Now EXCEPT !.phase = "paused"]
  <2>1. "paused" \in Phases /\ "Paused" \in EventTypes
    BY DEF Phases, EventTypes
  <2>2. Plays(Now)
    BY <1>20, NowFields DEF UserPause, Plays
  <2>3. u \in State /\ Steady(Now, u)
    BY <1>1, <2>1, <2>2 DEF State, Steady
  <2>4. Become({Post(u, "Paused")})
    BY <1>20 DEF UserPause
  <2> HIDE DEF u
  <2>5. Post(u, "Paused") \in State /\ Settled(Post(u, "Paused"))
    BY <2>1, <2>3, PostFrame, PostSteady, SteadySettled DEF Untouched
  <2> QED
    BY <1>5, <2>4, <2>5
<1>21. CASE UserStop
  <2>1. Stop(Now) \in State /\ Settled(Stop(Now))
    BY <1>1, StopFrame, StopSettled DEF Kept
  <2> QED
    BY <1>5, <1>21, <2>1 DEF UserStop
<1>22. ASSUME NEW i \in -1 .. Len(list) - 1, NEW m \in Video, ActivityPlays(i, m)
       PROVE  Settled(Now')
  <2> DEFINE f == Now.forced \ {m}
             u == [Now EXCEPT !.attached = TRUE, !.forced = f]
             t == IF HasCurrentMedia(u) /\ Current(u) # m THEN Stop(u) ELSE u
             X == IF ~HasCurrentMedia(t) THEN Load(t, <<m>>, 0)
                  ELSE IF t.phase # "playing" THEN PlayIndex(t, i)
                  ELSE {t}
  <2>1. Become(X) /\ ValidIndex(Now, i)
    BY <1>22, Zenon DEF ActivityPlays
  <2>2. f \in SUBSET Video
    BY <1>1 DEF State
  <2> HIDE DEF f
  <2>3. u \in State /\ Steady(Now, u)
    BY <1>1, <2>2 DEF State, Steady, Plays
  <2> HIDE DEF u
  <2>4. t \in State /\ t.list = list /\ Settled(t)
    <3>1. Stop(u) \in State /\ Stop(u).list = u.list /\ Settled(Stop(u))
      BY <2>3, StopFrame, StopSettled DEF Kept
    <3>2. Settled(u) /\ u.list = list
      BY <1>1, <2>3, SteadySettled DEF Steady
    <3> QED
      BY <2>3, <3>1, <3>2
  <2> HIDE DEF t
  <2>5. <<m>> \in Seq(Media) /\ 0 \in Nat /\ i \in Positions
    BY <1>1, MediaAssumption DEF Positions
  <2>6. \A w \in Load(t, <<m>>, 0) : w \in State /\ Settled(w)
    BY <2>4, <2>5, LoadFrame, LoadSettled
  <2>7. ValidIndex(t, i)
    BY <1>1, <2>1, <2>4 DEF ValidIndex
  <2>8. \A w \in PlayIndex(t, i) : w \in State /\ Settled(w)
    BY <2>4, <2>5, <2>7, PlayIndexFrame, PlayIndexSettled DEF Kept
  <2>9. \A w \in X : w \in State /\ Settled(w)
    BY <2>4, <2>6, <2>8
  <2> HIDE DEF X
  <2> QED
    BY <2>1, <2>9, BecomeSettled
<1>23. ASSUME NEW asAudio \in BOOLEAN, ActivityStops(asAudio)
       PROVE  Settled(Now')
  <2> DEFINE u == [Now EXCEPT !.attached = FALSE]
             f == u.forced \cup ({Current(u)} \cap Video)
             w == [u EXCEPT !.forced = f]
  <2>1. Become({IF asAudio /\ HasCurrentMedia(u) THEN w ELSE Stop(u)})
    BY <1>23, Zenon DEF ActivityStops
  <2>2. u \in State /\ Steady(Now, u)
    BY <1>1 DEF State, Steady, Plays
  <2> HIDE DEF u
  <2>3. f \in SUBSET Video
    BY <2>2 DEF State
  <2> HIDE DEF f
  <2>4. w \in State /\ Steady(u, w)
    BY <2>2, <2>3 DEF State, Steady, Plays
  <2> HIDE DEF w
  <2>5. Settled(w)
    BY <2>2, <2>4, SteadySettled
  <2>6. Stop(u) \in State /\ Settled(Stop(u))
    BY <2>2, StopFrame, StopSettled DEF Kept
  <2> QED
    BY <1>5, <2>1, <2>4, <2>5, <2>6
<1> QED
  BY <1>6, <1>7, <1>8, <1>9, <1>10, <1>11, <1>12, <1>13, <1>14, <1>15, <1>16, <1>17,
     <1>18, <1>19, <1>20, <1>21, <1>22, <1>23 DEF UserCall

(* While no video is opened outside the playlist, every step settles. *)
LEMMA SettledIsInductive ==
    ASSUME Alone = FALSE
    PROVE  Good(Now) /\ Settled(Now) /\ [Next]_vars => Settled(Now')
<1> SUFFICES ASSUME Good(Now), Settled(Now), [Next]_vars PROVE Settled(Now')
  OBVIOUS
<1>1. CASE UNCHANGED vars
  <2>1. Now' = Now
    BY <1>1 DEF vars, Now
  <2> QED
    BY <2>1
<1>2. CASE Restart
  <2>1. Fresh \in State /\ Settled(Fresh)
    BY FreshGood, FreshSettled DEF Good
  <2> QED
    BY <1>2, <2>1, BecomeSettled DEF Restart
<1> QED
  BY <1>1, <1>2, CallsSettled, LoopsSettled, EventsSettled, PlayerSettled
     DEF Next, SystemStep, Spin

(* and of the current state *)
SettledNow == Settled(Now)

LEMMA AlwaysSettled ==
    ASSUME Alone = FALSE
    PROVE  Spec => []SettledNow
<1>1. Init => SettledNow
  <2>1. Init => Now = Fresh
    BY DEF Init, Now, Fresh
  <2> QED
    BY <2>1, FreshSettled DEF SettledNow
<1>2. IInv /\ SettledNow /\ [Next]_vars => SettledNow'
  BY SettledIsInductive DEF IInv, SettledNow
<1> QED
  BY <1>1, <1>2, AlwaysGood, PTL DEF Spec

(* In list order, whatever was loaded, inserted, moved, removed, skipped   *)
(* or answered late, next() leads from the song that plays to the position *)
(* a fresh computation would give.  It needs Alone = FALSE: to open a      *)
(* video on its own may call playIndex(-1), which moves the current        *)
(* position to 0 and leaves its neighbours as they were.                   *)
THEOREM NextStaysFresh ==
    ASSUME Alone = FALSE
    PROVE  Spec => []NextIsFresh
<1>1. IInv /\ SettledNow => NextIsFresh
  <2> SUFFICES ASSUME IInv, SettledNow, Idle, watched, phase = "playing",
                      media \notin Video, HasCurrentMedia(Now),
                      repeating # "one", ~shuffling
               PROVE  next = NormalIndices(Now).next
    BY DEF NextIsFresh
  <2>1. Now \in State
    BY DEF IInv, Good
  <2>2. NormalIndices(Now).next = NextOf(Now)
    BY <2>1 DEF NormalIndices, NextOf, State
  <2>3. Sings(Now)
    BY NowFields DEF Sings, Plays, Idle
  <2> QED
    BY <2>2, <2>3, NowFields DEF SettledNow, Settled
<1> QED
  BY <1>1, AlwaysGood, AlwaysSettled, PTL

(* In shuffle mode, while a song plays, the position next() leads to is    *)
(* neither the one that plays nor one played since the last reshuffle,     *)
(* after any sequence of edits and skips; under the same assumption.       *)
THEOREM ShuffleStaysFresh ==
    ASSUME Alone = FALSE
    PROVE  Spec => []ShuffleNeverRepeats
<1>1. SettledNow => ShuffleNeverRepeats
  <2> SUFFICES ASSUME SettledNow, Idle, watched, shuffling, repeating # "one",
                      phase = "playing", media \notin Video, HasCurrentMedia(Now),
                      next # -1
               PROVE  next # cur /\ next \notin Elements(previous)
    BY DEF ShuffleNeverRepeats
  <2>1. Sings(Now)
    BY NowFields DEF Sings, Plays, Idle
  <2> QED
    BY <2>1, NowFields DEF SettledNow, Settled
<1> QED
  BY <1>1, AlwaysSettled, PTL

-----------------------------------------------------------------------------
(* The current position and what plays.                                    *)
(*                                                                         *)
(* In list order the current position designates the media the player was  *)
(* given: InStep.  Inserting, moving and removing carry the position along *)
(* with its item; to play another item gives it to the player.  When the   *)
(* current item is removed, next() goes at most to the position after the  *)
(* gap, so that closing the gap afterwards moves nothing.  A position that *)
(* was drawn may lie beyond: the assumption Shuffles = {FALSE} excludes    *)
(* what the run shuffle_remove shows to fail.                              *)

InStep(s) ==
    /\ ~s.shuffling /\ s.main # "hung"
    /\ s.watched /\ s.main # "expand" /\ s.media # None /\ HasCurrentMedia(s) =>
          Current(s) = s.media

(* A step that InStep does not notice *)
Carried(s, t) ==
    /\ t.list = s.list /\ t.watched = s.watched /\ t.cur = s.cur
    /\ t.media = s.media /\ t.shuffling = s.shuffling
    /\ t.main = s.main \/ (s.main # "expand" /\ t.main # "hung")

LEMMA CarriedInStep ==
    ASSUME NEW s, NEW t, InStep(s), Carried(s, t)
    PROVE  InStep(t)
BY DEF InStep, Carried, HasCurrentMedia, ValidIndex, Current

LEMMA SteadyCarried ==
    ASSUME NEW s, NEW t, Steady(s, t)
    PROVE  Carried(s, t)
BY DEF Steady, Carried

(* A state that watches no list is in step. *)
LEMMA UnwatchedInStep ==
    ASSUME NEW s, ~s.shuffling, s.main # "hung", s.watched = FALSE
    PROVE  InStep(s)
BY DEF InStep

LEMMA BecomeInStep ==
    ASSUME NEW STATE S, S \subseteq State, \A t \in S : InStep(t), Become(S)
    PROVE  InStep(Now')
BY BecomeNow

(* In list order determinePrevAndNextIndices never hangs, and the next     *)
(* position is at most the one after the current.                          *)
LEMMA DetermineInOrder ==
    ASSUME NEW s \in State, ~s.shuffling, NEW t \in Determine(s)
    PROVE  /\ Carried(s, t) /\ t.main = s.main
           /\ ~Stuck(s) => t.next <= s.cur + 1
<1> DEFINE b == s.shuffling /\ Len(s.list) > 2
           u == [s EXCEPT !.prev = -1, !.next = -1, !.shuffling = b]
           w == [u EXCEPT !.prev = s.cur, !.next = s.cur]
           x == IF u.cur > 0 THEN u.cur - 1 ELSE -1
           v == [u EXCEPT !.prev = x, !.next = NextOf(u)]
<1>1. ~b /\ b \in BOOLEAN /\ -1 \in Positions /\ s.cur \in Positions
  BY DEF Positions, State
<1> HIDE DEF b
<1>2. /\ u \in State /\ u.list = s.list /\ u.watched = s.watched /\ u.cur = s.cur
      /\ u.media = s.media /\ u.main = s.main /\ u.shuffling = b /\ s.shuffling = b
  BY <1>1 DEF State
<1> HIDE DEF u
<1>3. t = w \/ t = NormalIndices(u) \/ (Stuck(s) /\ t = s)
  BY <1>1, <1>2, Zenon DEF Determine, u, b
<1>4. NormalIndices(u) = v
  BY DEF NormalIndices, NextOf
<1> HIDE DEF x
<1>5. /\ w.list = s.list /\ w.watched = s.watched /\ w.cur = s.cur /\ w.next = s.cur
      /\ w.media = s.media /\ w.main = s.main /\ w.shuffling = s.shuffling
  BY <1>2 DEF State
<1>6. /\ v.list = s.list /\ v.watched = s.watched /\ v.cur = s.cur /\ v.next = NextOf(u)
      /\ v.media = s.media /\ v.main = s.main /\ v.shuffling = s.shuffling
  BY <1>2 DEF State
<1>7. NextOf(u) <= s.cur + 1
  BY <1>1, <1>2 DEF NextOf, Positions
<1> HIDE DEF w, v
<1>8. s.cur <= s.cur + 1
  BY <1>1 DEF Positions
<1> QED
  BY <1>3, <1>4, <1>5, <1>6, <1>7, <1>8 DEF Carried

LEMMA DetermineInStep ==
    ASSUME NEW s \in State, InStep(s), NEW t \in Determine(s)
    PROVE  t \in State /\ InStep(t) /\ t.main = s.main
BY DetermineInOrder, DetermineFrame, CarriedInStep DEF InStep, Determined

(* playIndex gives the player the item of the position. *)
LEMMA PlayIndexInStep ==
    ASSUME NEW s \in State, ~s.shuffling, ~Stuck(s),
           NEW i, ValidIndex(s, i), NEW t \in PlayIndex(s, i)
    PROVE  /\ t \in State /\ InStep(t)
           /\ t.main = s.main /\ t.cur = i /\ t.list = s.list
<1> DEFINE m == Item(s.list, i)
           f == IF s.background THEN s.forced \cup ({m} \cap Video) ELSE s.forced
           v == [s EXCEPT !.cur = i, !.forced = f]
           w == SetMedia(v, m)
           k == Listen(w, TRUE)
           x == PlayerPlay(k)
<1>1. s.list \in Seq(Media) /\ i \in 0 .. Len(s.list) - 1 /\ Len(s.list) \in Nat
  BY DEF ValidIndex, Valid, State
<1>2. s.list # <<>> /\ i \in Positions /\ m \in Media
  BY <1>1 DEF Positions, Item
<1>3. \/ t \in Determine(x)
      \/ t = w
  BY <1>2, Zenon DEF PlayIndex
<1>4. f \in SUBSET Video
  BY DEF State
<1>m. m = Item(s.list, i)
  OBVIOUS
<1> HIDE DEF m, f
<1>5. v \in State /\ v.list = s.list /\ v.cur = i /\ v.main = s.main /\ v.shuffling = s.shuffling
  BY <1>2, <1>4 DEF State
<1> HIDE DEF v
<1>6. Untouched(v, w) /\ w.media = m /\ w.shuffling = v.shuffling
  <2>1. Untouched(v, w) /\ w.media = m
    BY <1>2, <1>5, SetMediaFrame
  <2>2. w.shuffling = v.shuffling
    BY <1>5 DEF SetMedia, State
  <2> QED
    BY <2>1, <2>2
<1> HIDE DEF w
<1>7. Untouched(w, k) /\ k.media = w.media /\ k.shuffling = w.shuffling
  <2>1. w \in State
    BY <1>6 DEF Untouched
  <2>2. k.shuffling = w.shuffling
    BY <2>1 DEF Listen, State
  <2> QED
    BY <2>1, <2>2, ListenFrame
<1> HIDE DEF k
<1>8. x \in State /\ Steady(k, x)
  BY <1>7, PlayerPlayFrame, PlayerPlaySteady DEF Untouched
<1> HIDE DEF x
<1>9. /\ w \in State /\ InStep(w)
      /\ w.main = s.main /\ w.cur = i /\ w.list = s.list /\ ~w.shuffling
  BY <1>m, <1>5, <1>6 DEF InStep, Untouched, Current, Stuck
<1>10. Carried(w, x)
  BY <1>7, <1>8 DEF Carried, Untouched, Steady
<1>11. InStep(x) /\ x.main = s.main /\ x.cur = i /\ x.list = s.list
  <2>1. x.main = s.main /\ x.cur = i /\ x.list = s.list
    BY <1>7, <1>8, <1>9 DEF Untouched, Steady
  <2> QED
    BY <1>9, <1>10, <2>1, CarriedInStep
<1>12. CASE t \in Determine(x)
  BY <1>8, <1>11, <1>12, DetermineInStep, DetermineFrame DEF Determined
<1> QED
  BY <1>3, <1>9, <1>12

(* onPlaybackStopped leaves nothing current, or does nothing. *)
LEMMA StoppedInStep ==
    ASSUME NEW s \in State
    PROVE  /\ InStep(s) => InStep(OnPlaybackStopped(s))
           /\ OnPlaybackStopped(s).shuffling = s.shuffling
           /\ OnPlaybackStopped(s).main = s.main
<1> DEFINE t == [s EXCEPT !.stopped = TRUE, !.cur = -1]
<1>1. OnPlaybackStopped(s) = s \/ OnPlaybackStopped(s) = t
  BY Zenon DEF OnPlaybackStopped
<1>2. t.cur = -1 /\ t.shuffling = s.shuffling /\ t.main = s.main
  BY DEF State
<1> HIDE DEF t
<1>3. ~HasCurrentMedia(t)
  BY <1>2 DEF HasCurrentMedia, ValidIndex, Valid
<1> QED
  BY <1>1, <1>2, <1>3 DEF InStep

(* stop watches no list. *)
LEMMA StopInStep ==
    ASSUME NEW s \in State, ~s.shuffling, ~Stuck(s)
    PROVE  /\ Stop(s) \in State /\ InStep(Stop(s))
           /\ Stop(s).main = s.main /\ Stop(s).list = s.list /\ Stop(s).watched = FALSE
<1> DEFINE k == Listen(s, FALSE)
           u == [k EXCEPT !.stops = k.stops + 1]
           t == IF s.media = None THEN s ELSE u
           v == [t EXCEPT !.watched = FALSE, !.previous = <<>>]
<1>1. k \in State /\ k.shuffling = s.shuffling /\ k.main = s.main
  <2>1. k.shuffling = s.shuffling
    BY DEF Listen, State
  <2> QED
    BY <2>1, ListenFrame DEF Untouched
<1> HIDE DEF k
<1>2. u \in State /\ u.shuffling = s.shuffling /\ u.main = s.main
  <2>1. k.stops + 1 \in Nat
    BY <1>1 DEF State
  <2> QED
    BY <1>1, <2>1 DEF State
<1> HIDE DEF u
<1>3. t \in State /\ t.shuffling = s.shuffling /\ t.main = s.main
  BY <1>2
<1> HIDE DEF t
<1>4. <<>> \in Seq(Positions)
  OBVIOUS
<1>5. v \in State /\ v.watched = FALSE /\ v.shuffling = s.shuffling /\ v.main = s.main
  BY <1>3, <1>4 DEF State
<1>6. Stop(s) = OnPlaybackStopped(v)
  BY Zenon DEF Stop, v, t, u, k
<1> HIDE DEF v
<1>7. /\ Stop(s) \in State /\ Stop(s).watched = FALSE
      /\ Stop(s).shuffling = s.shuffling /\ Stop(s).main = s.main
  BY <1>5, <1>6, StoppedFrame, StoppedInStep DEF Kept
<1>8. Stop(s).list = s.list
  BY StopFrame DEF Kept
<1> QED
  BY <1>7, <1>8, UnwatchedInStep DEF Stuck

(* next plays the next item, or stops. *)
LEMMA NextTrackInStep ==
    ASSUME NEW s \in State, ~s.shuffling, ~Stuck(s), NEW t \in NextTrack(s)
    PROVE  /\ t \in State /\ InStep(t) /\ t.main = s.main
           /\ t.watched => t.cur = s.next
<1> DEFINE stack == Append(s.previous, s.cur)
           u == [s EXCEPT !.previous = stack, !.cur = s.next]
           b == ~u.attached /\ CanSwitchToVideo(u)
           w == [u EXCEPT !.background = b]
<1>1. stack \in Seq(Positions) /\ s.next \in Positions
  BY DEF State
<1> HIDE DEF stack
<1>2. u \in State /\ u.cur = s.next /\ u.shuffling = s.shuffling /\ u.main = s.main
  BY <1>1 DEF State
<1>3. \/ t = Stop(u)
      \/ HasCurrentMedia(u) /\ t \in PlayIndex(w, u.cur)
  BY Zenon DEF NextTrack, w, b, u, stack
<1> HIDE DEF u
<1>4. b \in BOOLEAN
  BY DEF CanSwitchToVideo
<1> HIDE DEF b
<1>5. w \in State /\ w.list = u.list /\ w.shuffling = u.shuffling /\ w.main = u.main
  BY <1>2, <1>4 DEF State
<1> HIDE DEF w
<1>6. CASE t = Stop(u)
  BY <1>2, <1>6, StopInStep DEF Stuck
<1>7. CASE HasCurrentMedia(u) /\ t \in PlayIndex(w, u.cur)
  <2>1. ValidIndex(w, u.cur) /\ ~Stuck(w) /\ ~w.shuffling
    BY <1>2, <1>5, <1>7 DEF HasCurrentMedia, ValidIndex, Stuck
  <2> QED
    BY <1>2, <1>5, <1>7, <2>1, PlayIndexInStep
<1> QED
  BY <1>3, <1>6, <1>7

(* So does previous, with the previous item. *)
LEMMA PreviousTrackInStep ==
    ASSUME NEW s \in State, ~s.shuffling, ~Stuck(s), NEW t \in PreviousTrack(s)
    PROVE  t \in State /\ InStep(t)
<1> DEFINE stack == IF s.previous = <<>> THEN s.previous
                    ELSE SubSeq(s.previous, 1, Len(s.previous) - 1)
           u == [s EXCEPT !.cur = s.prev, !.previous = stack]
<1>1. stack \in Seq(Positions)
  <2>1. s.previous \in Seq(Positions)
    BY DEF State
  <2>2. s.previous # <<>> => Len(s.previous) - 1 \in 0 .. Len(s.previous)
    BY <2>1
  <2> QED
    BY <2>1, <2>2, PrefixType
<1>2. s.prev \in Positions
  BY DEF State
<1> HIDE DEF stack
<1>3. u \in State /\ u.shuffling = s.shuffling /\ u.main = s.main
  BY <1>1, <1>2 DEF State
<1>4. t = Stop(u) \/ (HasCurrentMedia(u) /\ t \in PlayIndex(u, u.cur))
  BY Zenon DEF PreviousTrack, stack
<1> HIDE DEF u
<1> QED
  BY <1>3, <1>4, StopInStep, PlayIndexInStep DEF HasCurrentMedia, Stuck

(* load plays an item of the new list, or watches none. *)
LEMMA LoadInStep ==
    ASSUME NEW s \in State, ~s.shuffling, ~Stuck(s),
           NEW items \in Seq(Media), NEW position \in Nat,
           NEW t \in Load(s, items, position)
    PROVE  t \in State /\ InStep(t)
<1> DEFINE v == [s EXCEPT !.watched = FALSE, !.previous = <<>>, !.list = items]
           x == IF ValidIndex(v, position) THEN position ELSE 0
           u == [v EXCEPT !.cur = x, !.watched = TRUE]
<1>1. <<>> \in Seq(Positions)
  OBVIOUS
<1>2. /\ v \in State /\ v.watched = FALSE /\ v.list = items
      /\ v.shuffling = s.shuffling /\ v.main = s.main
  BY <1>1 DEF State
<1>3. x \in Positions /\ (items # <<>> => Valid(items, x))
  BY <1>2 DEF Positions, ValidIndex, Valid
<1>4. IF items = <<>> THEN t = v
      ELSE \E w \in PlayIndex(u, u.cur) : t \in Determine(w)
  BY Zenon DEF Load
<1> HIDE DEF v, x
<1>5. /\ u \in State /\ u.list = items /\ u.cur = x
      /\ u.shuffling = s.shuffling /\ u.main = s.main
  BY <1>2, <1>3 DEF State
<1> HIDE DEF u
<1>6. CASE items = <<>>
  BY <1>2, <1>4, <1>6, UnwatchedInStep DEF Stuck
<1>7. CASE items # <<>>
  <2>1. PICK w \in PlayIndex(u, u.cur) : t \in Determine(w)
    BY <1>4, <1>7
  <2>2. w \in State /\ InStep(w)
    BY <1>3, <1>5, <1>7, <2>1, PlayIndexInStep DEF ValidIndex, Stuck
  <2> QED
    BY <2>1, <2>2, DetermineInStep
<1> QED
  BY <1>6, <1>7

(* insert carries the current position along with its item; the insertions *)
(* of an expansion leave it, and nothing is said of it until they end.     *)
LEMMA ListInsertInStep ==
    ASSUME NEW s \in State, ~Stuck(s), InRange(s), InStep(s),
           NEW index \in 0 .. Len(s.list), NEW m \in Media, NEW expanding \in BOOLEAN,
           expanding <=> s.main = "expand",
           NEW t \in ListInsert(s, index, m, expanding)
    PROVE  t \in State /\ InStep(t) /\ t.main = s.main
<1> DEFINE items == Insert(s.list, index, m)
           u == [s EXCEPT !.list = items]
           w == [u EXCEPT !.cur = u.cur + 1]
           v == IF u.cur >= index /\ ~expanding THEN w ELSE u
<1>1. s.list \in Seq(Media) /\ Len(s.list) \in Nat /\ index \in Nat /\ s.cur \in Positions
  BY DEF State
<1>2. items \in Seq(Media) /\ Len(items) = Len(s.list) + 1
  BY <1>1, InsertType
<1>3. /\ \A k \in 0 .. index - 1 : Item(items, k) = Item(s.list, k)
      /\ \A k \in index .. Len(s.list) - 1 : Item(items, k + 1) = Item(s.list, k)
  BY <1>1, InsertItem
<1>4. IF s.watched THEN t \in ItemAdded(u, index, expanding) ELSE t = u
  BY Zenon DEF ListInsert
<1> HIDE DEF items
<1>5. /\ u \in State /\ u.list = items /\ u.cur = s.cur /\ u.main = s.main
      /\ u.watched = s.watched /\ u.media = s.media /\ u.shuffling = s.shuffling
  BY <1>2 DEF State
<1>6. t \in ItemAdded(u, index, expanding) => t \in Determine(v)
  BY Zenon DEF ItemAdded
<1> HIDE DEF u
<1>7. s.cur + 1 \in Positions
  BY <1>1 DEF Positions
<1>8. /\ w \in State /\ w.list = items /\ w.cur = s.cur + 1 /\ w.main = s.main
      /\ w.watched = s.watched /\ w.media = s.media /\ w.shuffling = s.shuffling
  BY <1>5, <1>7 DEF State
<1> HIDE DEF w
<1>9. /\ v \in State /\ v.list = items /\ v.main = s.main
      /\ v.watched = s.watched /\ v.media = s.media /\ v.shuffling = s.shuffling
      /\ v.cur = IF s.cur >= index /\ ~expanding THEN s.cur + 1 ELSE s.cur
  BY <1>5, <1>8
<1> HIDE DEF v
<1>10. CASE ~s.watched
  BY <1>4, <1>5, <1>10 DEF InStep
<1>11. CASE s.watched
  <2>1. InStep(v)
    <3> SUFFICES ASSUME v.main # "expand", v.media # None, HasCurrentMedia(v)
                 PROVE  Current(v) = v.media
      BY <1>9 DEF InStep
    <3>1. ~expanding /\ s.main \in {"idle", "insert", "remove"}
      BY <1>9 DEF Stuck, State
    <3>2. s.cur \in 0 .. Len(s.list) - 1
      BY <1>1, <1>9, <1>11, <3>1 DEF InRange, Placed, HasCurrentMedia, ValidIndex, Valid
    <3>3. Item(s.list, s.cur) = s.media
      BY <1>9, <1>11, <3>2 DEF InStep, HasCurrentMedia, ValidIndex, Valid, Current
    <3>4. CASE s.cur >= index
      <4>1. s.cur \in index .. Len(s.list) - 1
        BY <1>1, <3>2, <3>4
      <4> QED
        BY <1>3, <1>9, <3>1, <3>3, <3>4, <4>1 DEF Current
    <3>5. CASE ~(s.cur >= index)
      <4>1. s.cur \in 0 .. index - 1
        BY <1>1, <3>2, <3>5
      <4> QED
        BY <1>3, <1>9, <3>3, <3>5, <4>1 DEF Current
    <3> QED
      BY <3>4, <3>5
  <2> QED
    BY <1>4, <1>6, <1>9, <1>11, <2>1, DetermineInStep
<1> QED
  BY <1>10, <1>11

(* The removal that begins an expansion only determines the neighbours. *)
LEMMA ExpansionInOrder ==
    ASSUME NEW s \in State, ~s.shuffling, NEW index \in 0 .. Len(s.list) - 1,
           NEW t \in ListRemove(s, index, TRUE)
    PROVE  t \in State /\ ~t.shuffling /\ t.main = s.main
<1> DEFINE u == [s EXCEPT !.list = Delete(s.list, index)]
<1>1. Delete(s.list, index) \in Seq(Media)
  BY DeleteType DEF State
<1>2. u \in State /\ u.shuffling = s.shuffling /\ u.main = s.main
  BY <1>1 DEF State
<1>3. t \in Determine(u) \/ t = u
  BY Zenon DEF ListRemove, ItemRemoved, CloseGap
<1> HIDE DEF u
<1> QED
  BY <1>2, <1>3, DetermineInOrder, DetermineFrame DEF Carried, Determined

(* When the current item went, what plays next lies before the gap or in it. *)
LEMMA CurrentRemovedInStep ==
    ASSUME NEW s \in State, ~s.shuffling, ~Stuck(s),
           s.cur \in -1 .. Len(s.list) - 1, NEW t \in CurrentRemoved(s)
    PROVE  /\ t \in State /\ InStep(t) /\ t.main = s.main
           /\ t.watched => t.cur <= s.cur + 1
<1>1. PICK u \in Determine(s) : t \in IF u.next # -1 THEN NextTrack(u)
                                       ELSE IF u.cur # -1 THEN PlayIndex(u, u.cur)
                                       ELSE {Stop(u)}
  BY DEF CurrentRemoved
<1>2. /\ u \in State /\ u.list = s.list /\ u.cur = s.cur /\ u.main = s.main
      /\ ~u.shuffling /\ ~Stuck(u) /\ u.next <= s.cur + 1
  BY DetermineInOrder, DetermineFrame DEF Carried, Determined, Stuck
<1>3. Len(s.list) \in Nat
  BY DEF State
<1>4. CASE t \in NextTrack(u)
  BY <1>2, <1>4, NextTrackInStep
<1>5. CASE u.cur # -1 /\ t \in PlayIndex(u, u.cur)
  <2>1. ValidIndex(u, u.cur)
    BY <1>2, <1>3, <1>5 DEF ValidIndex, Valid
  <2>2. t \in State /\ InStep(t) /\ t.main = u.main /\ t.cur = u.cur
    BY <1>2, <1>5, <2>1, PlayIndexInStep
  <2>3. s.cur <= s.cur + 1
    BY <1>3
  <2> QED
    BY <1>2, <2>2, <2>3
<1>6. CASE t = Stop(u)
  BY <1>2, <1>6, StopInStep
<1> QED
  BY <1>1, <1>4, <1>5, <1>6

(* Outside an expansion remove carries the current position along, or      *)
(* plays another item.                                                     *)
LEMMA ListRemoveInStep ==
    ASSUME NEW s \in State, ~Stuck(s), InRange(s), InStep(s), s.main # "expand",
           NEW index \in 0 .. Len(s.list) - 1,
           NEW t \in ListRemove(s, index, FALSE)
    PROVE  t \in State /\ InStep(t) /\ t.main = s.main
<1> DEFINE items == Delete(s.list, index)
           u == [s EXCEPT !.list = items]
           w == [u EXCEPT !.cur = u.cur - 1]
<1>1. s.list \in Seq(Media) /\ Len(s.list) \in Nat /\ index \in Nat /\ s.cur \in Positions
  BY DEF State
<1>2. items \in Seq(Media) /\ Len(items) = Len(s.list) - 1
  BY <1>1, DeleteType
<1>3. /\ \A k \in 0 .. index - 1 : Item(items, k) = Item(s.list, k)
      /\ \A k \in index + 1 .. Len(s.list) - 1 : Item(items, k - 1) = Item(s.list, k)
  BY <1>1, DeleteItem
<1>4. IF s.watched THEN t \in ItemRemoved(u, index, FALSE) ELSE t = u
  BY Zenon DEF ListRemove
<1> HIDE DEF items
<1>5. /\ u \in State /\ u.list = items /\ u.cur = s.cur /\ u.main = s.main
      /\ u.watched = s.watched /\ u.media = s.media /\ u.shuffling = s.shuffling
  BY <1>2 DEF State
<1>6. t \in ItemRemoved(u, index, FALSE) =>
        \/ u.cur = index /\ \E v \in CurrentRemoved(w) : t \in CloseGap(v, index, FALSE)
        \/ u.cur # index /\ t \in CloseGap(u, index, FALSE)
  BY Zenon DEF ItemRemoved
<1> HIDE DEF u
<1>7. s.cur >= index => /\ w \in State /\ w.list = items /\ w.cur = s.cur - 1
                        /\ w.main = s.main /\ w.watched = s.watched
                        /\ w.media = s.media /\ w.shuffling = s.shuffling
  <2>1. s.cur >= index => s.cur - 1 \in Positions
    BY <1>1 DEF Positions
  <2> QED
    BY <1>5, <2>1 DEF State
<1> HIDE DEF w
<1>8. ~Stuck(u) /\ ~s.shuffling
  BY <1>5 DEF Stuck, InStep
<1>9. CASE ~s.watched
  BY <1>4, <1>5, <1>9 DEF InStep
<1>10. CASE s.watched /\ s.cur = index
  <2>1. PICK v \in CurrentRemoved(w) : t \in CloseGap(v, index, FALSE)
    BY <1>4, <1>5, <1>6, <1>10
  <2>2. /\ w \in State /\ w.list = items /\ w.cur = index - 1
        /\ w.main = s.main /\ ~w.shuffling
    BY <1>1, <1>7, <1>8, <1>10
  <2>a. w.cur \in -1 .. Len(w.list) - 1 /\ w.cur + 1 = index /\ ~Stuck(w)
    BY <1>1, <1>2, <2>2 DEF Stuck
  <2>3. /\ v \in State /\ InStep(v) /\ v.main = s.main
        /\ v.watched => v.cur <= index
    BY <2>1, <2>2, <2>a, CurrentRemovedInStep
  <2> DEFINE x == [v EXCEPT !.cur = v.cur - 1]
             y == IF v.cur > index /\ ~Stuck(v) THEN x ELSE v
  <2>4. t \in Determine(y)
    BY <2>1, Zenon DEF CloseGap
  <2>5. v.cur \in Int /\ (v.cur > index => v.cur - 1 \in Positions)
    BY <1>1, <2>3 DEF State, Positions
  <2>6. v.cur > index => /\ x \in State /\ x.main = v.main
                         /\ x.watched = v.watched /\ x.shuffling = v.shuffling
    BY <2>3, <2>5 DEF State
  <2> HIDE DEF x
  <2>7. v.cur > index => InStep(x) /\ v.watched = FALSE
    <3>1. v.cur > index => v.watched = FALSE
      BY <1>1, <2>3, <2>5 DEF State
    <3> QED
      BY <2>3, <2>6, <3>1, UnwatchedInStep DEF InStep
  <2>8. y \in State /\ InStep(y) /\ y.main = s.main
    BY <2>3, <2>6, <2>7
  <2> QED
    BY <2>4, <2>8, DetermineInStep
<1>11. CASE s.watched /\ s.cur # index
  <2> DEFINE y == IF u.cur > index /\ ~Stuck(u) THEN w ELSE u
  <2>1. t \in Determine(y)
    BY <1>4, <1>5, <1>6, <1>11, Zenon DEF CloseGap, w
  <2>2. /\ y \in State /\ y.list = items /\ y.main = s.main
        /\ y.watched = s.watched /\ y.media = s.media /\ y.shuffling = s.shuffling
        /\ y.cur = IF s.cur > index THEN s.cur - 1 ELSE s.cur
    <3>1. s.cur > index => s.cur >= index
      BY <1>1 DEF Positions
    <3> QED
      BY <1>5, <1>7, <1>8, <3>1
  <2> HIDE DEF y
  <2>3. InStep(y)
    <3> SUFFICES ASSUME y.media # None, HasCurrentMedia(y)
                 PROVE  Current(y) = y.media
      BY <1>8, <2>2 DEF InStep, Stuck
    <3>1. s.main \in {"idle", "insert", "remove"}
      BY DEF Stuck, State
    <3>2. s.cur \in 0 .. Len(s.list) - 1
      BY <1>1, <1>11, <2>2, <3>1 DEF InRange, Placed, HasCurrentMedia, ValidIndex, Valid
    <3>3. Item(s.list, s.cur) = s.media
      BY <1>11, <2>2, <3>2 DEF InStep, HasCurrentMedia, ValidIndex, Valid, Current
    <3>4. CASE s.cur > index
      <4>1. s.cur \in index + 1 .. Len(s.list) - 1
        BY <1>1, <3>2, <3>4
      <4> QED
        BY <1>3, <2>2, <3>3, <3>4, <4>1 DEF Current
    <3>5. CASE ~(s.cur > index)
      <4>1. s.cur \in 0 .. index - 1
        BY <1>1, <1>11, <3>2, <3>5
      <4> QED
        BY <1>3, <2>2, <3>3, <3>5, <4>1 DEF Current
    <3> QED
      BY <3>4, <3>5
  <2> QED
    BY <2>1, <2>2, <2>3, DetermineInStep
<1> QED
  BY <1>9, <1>10, <1>11

(* move carries the current position along with its item. *)
LEMMA MoveInStep ==
    ASSUME NEW s \in State, s.main = "idle", InRange(s), InStep(s), s.watched,
           NEW start \in 0 .. Len(s.list) - 1, NEW end \in 0 .. Len(s.list),
           NEW t \in ItemMoved([s EXCEPT !.list = Move(s.list, start, end)], start, end)
    PROVE  t \in State /\ InStep(t)
<1> DEFINE items == Move(s.list, start, end)
           u == [s EXCEPT !.list = items]
           x == Moved(u.cur, start, end)
           v == [u EXCEPT !.previous = <<>>, !.cur = x]
<1>1. s.list \in Seq(Media) /\ Len(s.list) \in Nat /\ s.cur \in -1 .. Len(s.list) - 1
  BY DEF State, InRange, Placed
<1>2. items \in Seq(Media) /\ Len(items) = Len(s.list)
  BY <1>1, MoveType
<1>3. s.cur \in 0 .. Len(s.list) - 1 =>
        Item(items, Moved(s.cur, start, end)) = Item(s.list, s.cur)
  BY <1>1, MoveItem
<1>4. t \in Determine(v)
  BY Zenon DEF ItemMoved, Moved
<1> HIDE DEF items
<1>5. /\ u \in State /\ u.list = items /\ u.cur = s.cur /\ u.main = s.main
      /\ u.watched = s.watched /\ u.media = s.media /\ u.shuffling = s.shuffling
  BY <1>2 DEF State
<1> HIDE DEF u
<1>6. x \in Positions /\ (x >= 0 => s.cur >= 0)
  BY <1>1, <1>5 DEF Moved, Positions
<1>7. <<>> \in Seq(Positions)
  OBVIOUS
<1>8. x = Moved(s.cur, start, end)
  BY <1>5
<1> HIDE DEF x
<1>9. /\ v \in State /\ v.list = items /\ v.cur = x /\ v.main = s.main
      /\ v.watched = s.watched /\ v.media = s.media /\ v.shuffling = s.shuffling
  BY <1>5, <1>6, <1>7 DEF State
<1> HIDE DEF v
<1>10. InStep(v)
  <2> SUFFICES ASSUME v.media # None, HasCurrentMedia(v)
               PROVE  Current(v) = v.media
    BY <1>9 DEF InStep
  <2>1. s.cur \in 0 .. Len(s.list) - 1
    BY <1>1, <1>2, <1>6, <1>9 DEF HasCurrentMedia, ValidIndex, Valid
  <2>2. Item(s.list, s.cur) = s.media
    BY <1>9, <2>1 DEF InStep, HasCurrentMedia, ValidIndex, Valid, Current
  <2> QED
    BY <1>3, <1>8, <1>9, <2>1, <2>2 DEF Current
<1> QED
  BY <1>4, <1>9, <1>10, DetermineInStep

(* The native player and the tasks of the thread pool keep the step. *)
LEMMA PlayerInStep ==
    ASSUME Good(Now), InStep(Now), Player \/ ThreadPool
    PROVE  InStep(Now')
<1>1. Now \in State
  BY DEF Good
<1>2. ASSUME NEW u \in State, Carried(Now, u), NEW type \in EventTypes,
             Become({u}) \/ Become({Post(u, type)})
      PROVE  InStep(Now')
  <2>1. InStep(u)
    BY <1>2, CarriedInStep
  <2>2. Post(u, type) \in State /\ InStep(Post(u, type))
    BY <2>1, PostFrame, PostSteady, SteadyCarried, CarriedInStep DEF Untouched
  <2> QED
    BY <1>2, <2>1, <2>2, BecomeInStep
<1>3. ASSUME NEW type \in EventTypes, NEW from, NEW to \in Phases, Report(type, from, to)
      PROVE  InStep(Now')
  <2> DEFINE u == [Now EXCEPT !.phase = to]
  <2>1. u \in State /\ Carried(Now, u)
    BY <1>1 DEF State, Carried
  <2>2. Become({Post(u, type)})
    BY <1>3 DEF Report
  <2> HIDE DEF u
  <2> QED
    BY <1>2, <2>1, <2>2
<1>4. CASE Player
  BY <1>3, <1>4 DEF Player, PlayerOpens, PlayerEnds, PlayerFails, EventTypes, Phases
<1>5. CASE StopTask
  <2> DEFINE u == [Now EXCEPT !.stops = @ - 1, !.clearing = @ + 1, !.phase = "stopped"]
  <2>1. Now.stops - 1 \in Nat /\ Now.clearing + 1 \in Nat
    BY <1>1, <1>5, NowFields DEF StopTask, State
  <2>2. "stopped" \in Phases /\ "Stopped" \in EventTypes
    BY DEF Phases, EventTypes
  <2>3. u \in State /\ Carried(Now, u)
    BY <1>1, <2>1, <2>2 DEF State, Carried
  <2>4. Become({IF phase = "stopped" THEN u ELSE Post(u, "Stopped")})
    BY <1>5 DEF StopTask
  <2> HIDE DEF u
  <2> QED
    BY <1>2, <2>2, <2>3, <2>4
<1>6. CASE ClearTask
  <2> DEFINE u == [Now EXCEPT !.clearing = @ - 1]
             v == SetMedia(u, None)
  <2>1. Now.clearing - 1 \in Nat
    BY <1>1, <1>6, NowFields DEF ClearTask, State
  <2>2. u \in State /\ u.shuffling = Now.shuffling /\ u.main = Now.main
    BY <1>1, <2>1 DEF State
  <2>3. Become({v})
    BY <1>6 DEF ClearTask
  <2> HIDE DEF u
  <2>4. v \in State /\ v.media = None /\ v.main = u.main
    BY <2>2, SetMediaFrame DEF Untouched
  <2>5. v.shuffling = u.shuffling
    BY <2>2 DEF SetMedia, State
  <2> HIDE DEF v
  <2>6. InStep(v)
    BY <2>2, <2>4, <2>5 DEF InStep
  <2> QED
    BY <2>3, <2>4, <2>6, BecomeInStep
<1> QED
  BY <1>4, <1>5, <1>6 DEF ThreadPool

(* So do the handlers of the player events. *)
LEMMA EventsInStep ==
    ASSUME Good(Now), InStep(Now), HandleEvent
    PROVE  InStep(Now')
<1>1. main = "idle" /\ queue # <<>>
  BY DEF HandleEvent, OnPlaying, OnPaused, OnStopped, OnEndReached, OnEncounteredError,
         Take, Idle
<1>2. Now \in State /\ Taken \in State
  BY <1>1, TakenGood DEF Good
<1>3. Carried(Now, Taken)
  <2> DEFINE rest == Tail(Now.queue)
  <2>1. Taken = [Now EXCEPT !.queue = rest]
    BY DEF Taken
  <2> HIDE DEF rest
  <2> QED
    BY <1>2, <2>1 DEF State, Carried
<1>4. InStep(Taken)
  BY <1>3, CarriedInStep
<1>5. /\ Taken.main = "idle" /\ Taken.list = list /\ Taken.cur = cur
      /\ Taken.media = media /\ ~Taken.shuffling /\ ~Stuck(Taken)
  <2>1. Taken.main = Now.main
    BY DEF Taken, Now
  <2> QED
    BY <1>1, <1>3, <1>4, <2>1, NowFields DEF Carried, InStep, Stuck
<1>6. ASSUME NEW t, t \in State, Carried(Taken, t), Become({t})
      PROVE  InStep(Now')
  BY <1>4, <1>6, CarriedInStep, BecomeInStep
<1>7. CASE OnPlaying
  <2> DEFINE u == [Taken EXCEPT !.stopped = FALSE, !.background = FALSE]
             v == [Taken EXCEPT !.stopped = FALSE, !.main = "crashed"]
  <2>1. u \in State /\ Carried(Taken, u)
    BY <1>2 DEF State, Carried
  <2>2. v \in State /\ Carried(Taken, v)
    BY <1>2, <1>5 DEF State, Carried
  <2>3. Become({IF HasCurrentMedia(Now) THEN u ELSE v})
    BY <1>7 DEF OnPlaying
  <2> HIDE DEF u, v
  <2> QED
    BY <1>6, <2>1, <2>2, <2>3
<1>8. CASE OnPaused
  <2> DEFINE u == [Taken EXCEPT !.stopped = FALSE]
  <2>1. u \in State /\ Carried(Taken, u)
    BY <1>2 DEF State, Carried
  <2>2. Become({u})
    BY <1>8 DEF OnPaused
  <2> HIDE DEF u
  <2> QED
    BY <1>6, <2>1, <2>2
<1>9. CASE OnStopped
  <2>1. OnPlaybackStopped(Taken) \in State /\ InStep(OnPlaybackStopped(Taken))
    BY <1>2, <1>4, StoppedFrame, StoppedInStep DEF Kept
  <2> QED
    BY <1>9, <2>1, BecomeInStep DEF OnStopped
<1>10. CASE OnEndReached
  <2>1. ASSUME NEW t \in Determine(Taken), NEW u \in NextTrack(t)
        PROVE  u \in State /\ InStep(u)
    <3>1. t \in State /\ InStep(t) /\ ~Stuck(t)
      BY <1>2, <1>4, <1>5, DetermineInStep DEF Stuck
    <3> QED
      BY <2>1, <3>1, NextTrackInStep DEF InStep
  <2>2. ASSUME HasCurrentMedia(Now), media # None, NEW t \in ListRemove(Taken, cur, TRUE)
        PROVE  LET u == [t EXCEPT !.main = IF Stuck(t) THEN @ ELSE "expand",
                                  !.todo = SubItems[media]]
               IN  u \in State /\ InStep(u)
    <3> DEFINE m == IF Stuck(t) THEN t.main ELSE "expand"
               items == SubItems[media]
               u == [t EXCEPT !.main = m, !.todo = items]
    <3>1. cur \in 0 .. Len(Taken.list) - 1
      BY <1>5, <2>2, NowFields DEF HasCurrentMedia, ValidIndex, Valid
    <3>2. t \in State /\ ~t.shuffling /\ t.main = "idle"
      BY <1>2, <1>5, <2>2, <3>1, ExpansionInOrder
    <3>3. items \in Seq(Media)
      <4>1. media \in Media
        BY <1>2, <2>2, NowFields DEF State
      <4> QED
        BY <4>1, SubItemsAssumption
    <3>4. m = "expand"
      BY <3>2 DEF Stuck
    <3> HIDE DEF m, items
    <3>5. u \in State /\ u.main = "expand" /\ ~u.shuffling
      BY <3>2, <3>3, <3>4 DEF State
    <3> HIDE DEF u
    <3>6. InStep(u)
      BY <3>5 DEF InStep
    <3> QED
      BY <3>5, <3>6 DEF u, m, items
  <2> DEFINE X == IF media = None \/ ~HasCurrentMedia(Now)
              THEN {[Taken EXCEPT !.main = "crashed"]}
              ELSE IF SubItems[media] = <<>>
              THEN UNION {NextTrack(t) : t \in Determine(Taken)}
              ELSE {[t EXCEPT !.main = IF Stuck(t) THEN @ ELSE "expand",
                              !.todo = SubItems[media]] :
                        t \in ListRemove(Taken, cur, TRUE)}
  <2>3. Become(X)
    BY <1>10 DEF OnEndReached
  <2>4. \A u \in X : u \in State /\ InStep(u)
    <3>1. CASE media = None \/ ~HasCurrentMedia(Now)
      <4> DEFINE u == [Taken EXCEPT !.main = "crashed"]
      <4>1. u \in State /\ Carried(Taken, u)
        BY <1>2, <1>5 DEF State, Carried
      <4> HIDE DEF u
      <4>2. InStep(u)
        BY <1>4, <4>1, CarriedInStep
      <4> QED
        BY <3>1, <4>1, <4>2 DEF u
    <3>2. CASE ~(media = None \/ ~HasCurrentMedia(Now)) /\ SubItems[media] = <<>>
      BY <2>1, <3>2, Zenon
    <3>3. CASE ~(media = None \/ ~HasCurrentMedia(Now)) /\ SubItems[media] # <<>>
      BY <2>2, <3>3, Zenon
    <3> QED
      BY <3>1, <3>2, <3>3
  <2> HIDE DEF X
  <2> QED
    BY <2>3, <2>4, BecomeInStep
<1>11. CASE OnEncounteredError
  <2>1. \A t \in NextTrack(Taken) : t \in State /\ InStep(t)
    BY <1>2, <1>5, NextTrackInStep
  <2> QED
    BY <1>11, <2>1, BecomeInStep DEF OnEncounteredError
<1> QED
  BY <1>7, <1>8, <1>9, <1>10, <1>11 DEF HandleEvent

(* And each step of the loops. *)
LEMMA LoopsInStep ==
    ASSUME Good(Now), InStep(Now), LoopStep
    PROVE  InStep(Now')
<1>1. /\ Now \in State /\ InRange(Now) /\ Loop(Now)
      /\ Now.list = list /\ Now.cur = cur /\ Now.main = main /\ Now.todo = todo
      /\ Now.at = at /\ ~Now.shuffling
  BY NowFields DEF Good, InStep
<1>2. list \in Seq(Media) /\ Len(list) \in Nat /\ todo \in Seq(Media) /\ at \in Nat
  BY <1>1 DEF State
<1>3. ASSUME NEW t \in State, InStep(t), NEW x \in Seq(Media), NEW y \in Nat
      PROVE  LET u == [t EXCEPT !.todo = x, !.at = y]
             IN  u \in State /\ InStep(u)
  <2> DEFINE u == [t EXCEPT !.todo = x, !.at = y]
  <2>1. u \in State /\ Carried(t, u)
    BY DEF State, Carried
  <2> HIDE DEF u
  <2> QED
    BY <1>3, <2>1, CarriedInStep DEF u
<1>4. CASE InsertStep
  <2>1. main = "insert" /\ todo # <<>>
    BY <1>4 DEF InsertStep
  <2>2. Head(todo) \in Media /\ Tail(todo) \in Seq(Media) /\ at + 1 \in Nat
    BY <1>2, <2>1
  <2>3. ~Stuck(Now) /\ at \in 0 .. Len(list)
    BY <1>1, <2>1 DEF Stuck, Loop
  <2>4. ASSUME NEW t \in ListInsert(Now, at, Head(todo), FALSE)
        PROVE  LET u == [t EXCEPT !.todo = Tail(@), !.at = @ + 1]
               IN  u \in State /\ InStep(u)
    <3>1. t \in State /\ t.todo = todo /\ t.at = at
      <4>1. Edited(Now, t)
        BY <1>1, <2>2, <2>3, ListInsertFrame
      <4> QED
        BY <1>1, <4>1 DEF Edited
    <3>2. InStep(t)
      BY <1>1, <2>1, <2>2, <2>3, ListInsertInStep
    <3> QED
      BY <1>3, <2>2, <3>1, <3>2, Zenon
  <2> DEFINE X == {[t EXCEPT !.todo = Tail(@), !.at = @ + 1] :
                      t \in ListInsert(Now, at, Head(todo), FALSE)}
  <2>5. Become(X)
    BY <1>4 DEF InsertStep
  <2>6. \A t \in X : t \in State /\ InStep(t)
    BY <2>4, Zenon
  <2> HIDE DEF X
  <2> QED
    BY <2>5, <2>6, BecomeInStep
<1>5. ASSUME NEW u \in State, Carried(Now, u), Become(Determine(u))
      PROVE  InStep(Now')
  <2>1. \A t \in Determine(u) : t \in State /\ InStep(t)
    BY <1>5, CarriedInStep, DetermineInStep
  <2> QED
    BY <1>5, <2>1, BecomeInStep
<1>6. CASE InsertDone
  <2> DEFINE u == [Now EXCEPT !.main = "idle", !.at = 0]
  <2>1. main = "insert" /\ Become(Determine(u))
    BY <1>6 DEF InsertDone
  <2>2. u \in State /\ Carried(Now, u)
    BY <1>1, <2>1 DEF State, Carried
  <2> HIDE DEF u
  <2> QED
    BY <1>5, <2>1, <2>2
<1>7. CASE RemoveStep
  <2>1. PICK i \in 0 .. Len(list) - 1 :
          /\ main = "remove"
          /\ Become({[t EXCEPT !.at = i] : t \in ListRemove(Now, i, FALSE)})
    BY <1>7 DEF RemoveStep
  <2>2. i \in Nat /\ ~Stuck(Now)
    BY <1>1, <1>2, <2>1 DEF Stuck
  <2>3. ASSUME NEW t \in ListRemove(Now, i, FALSE)
        PROVE  LET u == [t EXCEPT !.at = i] IN u \in State /\ InStep(u)
    <3> DEFINE u == [t EXCEPT !.at = i]
    <3>1. t \in State /\ InStep(t)
      BY <1>1, <2>1, <2>2, ListRemoveInStep
    <3>2. u \in State /\ Carried(t, u)
      BY <2>2, <3>1 DEF State, Carried
    <3> HIDE DEF u
    <3> QED
      BY <3>1, <3>2, CarriedInStep DEF u
  <2> DEFINE X == {[t EXCEPT !.at = i] : t \in ListRemove(Now, i, FALSE)}
  <2>4. \A t \in X : t \in State /\ InStep(t)
    BY <2>3, Zenon
  <2>5. Become(X)
    BY <2>1
  <2> HIDE DEF X
  <2> QED
    BY <2>4, <2>5, BecomeInStep
<1>8. CASE RemoveDone
  <2> DEFINE u == [Now EXCEPT !.main = "idle", !.todo = <<>>, !.at = 0]
  <2>1. main = "remove" /\ Become(Determine(u))
    BY <1>8 DEF RemoveDone
  <2>2. <<>> \in Seq(Media)
    OBVIOUS
  <2>3. u \in State /\ Carried(Now, u)
    BY <1>1, <2>1, <2>2 DEF State, Carried
  <2> HIDE DEF u
  <2> QED
    BY <1>5, <2>1, <2>3
<1>9. CASE ExpandStep
  <2>1. main = "expand" /\ todo # <<>>
    BY <1>9 DEF ExpandStep
  <2>2. todo[Len(todo)] \in Media /\ Len(todo) - 1 \in 0 .. Len(todo)
    BY <1>2, <2>1
  <2>3. ~Stuck(Now) /\ cur \in 0 .. Len(list)
    BY <1>1, <2>1 DEF Stuck, Loop
  <2> DEFINE rest == SubSeq(todo, 1, Len(todo) - 1)
  <2>4. rest \in Seq(Media)
    BY <1>2, <2>2, PrefixType
  <2>5. ASSUME NEW t \in ListInsert(Now, cur, todo[Len(todo)], TRUE)
        PROVE  LET u == [t EXCEPT !.todo = SubSeq(@, 1, Len(@) - 1)]
               IN  u \in State /\ InStep(u)
    <3> DEFINE u == [t EXCEPT !.todo = rest]
    <3>1. t \in State /\ t.todo = todo
      <4>1. Edited(Now, t)
        BY <1>1, <2>2, <2>3, ListInsertFrame
      <4> QED
        BY <1>1, <4>1 DEF Edited
    <3>2. InStep(t)
      BY <1>1, <2>1, <2>2, <2>3, ListInsertInStep
    <3> HIDE DEF rest
    <3>3. u \in State /\ Carried(t, u)
      BY <2>4, <3>1 DEF State, Carried
    <3>4. [t EXCEPT !.todo = SubSeq(@, 1, Len(@) - 1)] = u
      BY <3>1, Zenon DEF rest
    <3> HIDE DEF u
    <3> QED
      BY <3>2, <3>3, <3>4, CarriedInStep
  <2> DEFINE X == {[t EXCEPT !.todo = SubSeq(@, 1, Len(@) - 1)] :
                      t \in ListInsert(Now, cur, todo[Len(todo)], TRUE)}
  <2>6. \A t \in X : t \in State /\ InStep(t)
    BY <2>5, Zenon
  <2>7. Become(X)
    BY <1>9 DEF ExpandStep
  <2> HIDE DEF X
  <2> QED
    BY <2>6, <2>7, BecomeInStep
<1>10. CASE ExpandDone
  <2> DEFINE u == [Now EXCEPT !.main = "idle", !.next = 0, !.prev = -1]
  <2>1. 0 \in Positions /\ -1 \in Positions
    BY DEF Positions
  <2>2. u \in State /\ u.main = "idle" /\ ~u.shuffling
    BY <1>1, <2>1 DEF State
  <2>3. Become(NextTrack(u))
    BY <1>10 DEF ExpandDone
  <2> HIDE DEF u
  <2>4. \A t \in NextTrack(u) : t \in State /\ InStep(t)
    BY <2>2, NextTrackInStep DEF Stuck
  <2> QED
    BY <2>3, <2>4, BecomeInStep
<1> QED
  BY <1>4, <1>6, <1>7, <1>8, <1>9, <1>10 DEF LoopStep

(* And the calls of the user interface, in list order and with no video    *)
(* opened outside the playlist.                                            *)
LEMMA CallsInStep ==
    ASSUME Alone = FALSE, Shuffles = {FALSE}, Good(Now), InStep(Now), UserCall
    PROVE  InStep(Now')
<1>1. /\ Now \in State /\ InRange(Now)
      /\ Now.list = list /\ Now.cur = cur /\ Now.main = main /\ ~Now.shuffling
      /\ list \in Seq(Media) /\ Len(list) \in Nat /\ cur \in Positions
  BY NowFields DEF Good, State, InStep
<1>2. main = "idle" => ~Stuck(Now)
  BY <1>1 DEF Stuck
<1>3. ASSUME NEW s \in State, ~s.shuffling, s.main = "idle",
             NEW items \in Seq(Media), NEW position \in Nat,
             Become(Load(s, items, position))
      PROVE  InStep(Now')
  <2>1. \A t \in Load(s, items, position) : t \in State /\ InStep(t)
    BY <1>3, LoadInStep DEF Stuck
  <2> QED
    BY <1>3, <2>1, BecomeInStep
<1>4. ASSUME NEW u \in State, InStep(u), Become(Determine(u))
      PROVE  InStep(Now')
  <2>1. \A t \in Determine(u) : t \in State /\ InStep(t)
    BY <1>4, DetermineInStep
  <2> QED
    BY <1>4, <2>1, BecomeInStep
<1>5. ASSUME NEW u, u \in State, InStep(u), Become({u})
      PROVE  InStep(Now')
  BY <1>5, BecomeInStep
<1>6. ASSUME NEW items \in Loads, NEW position \in 0 .. Len(items),
             UserLoad(items, position)
      PROVE  InStep(Now')
  BY <1>1, <1>3, <1>6, LoadsAssumption DEF UserLoad, Idle
<1>7. ASSUME NEW items \in Loads, NEW position \in 0 .. Len(items),
             NEW shuffle \in Shuffles, NEW repeat \in Repeats,
             LoadLast(items, position, shuffle, repeat)
      PROVE  InStep(Now')
  <2> DEFINE u == [Now EXCEPT !.shuffling = shuffle, !.repeating = repeat]
  <2>1. shuffle = FALSE /\ repeat \in {"none", "one", "all"}
    BY ModesAssumption
  <2>2. u \in State /\ ~u.shuffling /\ u.main = main
    BY <1>1, <2>1 DEF State
  <2>3. main = "idle" /\ Become(Load(u, items, position))
    BY <1>7 DEF LoadLast, Idle
  <2> HIDE DEF u
  <2> QED
    BY <1>3, <2>2, <2>3, LoadsAssumption
<1>8. ASSUME NEW items \in Loads, UserAppend(items)
      PROVE  InStep(Now')
  <2> DEFINE u == [Now EXCEPT !.list = list \o items]
  <2>1. items \in Seq(Media) /\ Len(items) \in Nat
    BY LoadsAssumption
  <2>2. list \o items \in Seq(Media)
    BY <1>1, <2>1, ConcatType
  <2>3. /\ u \in State /\ u.list = list \o items /\ u.cur = cur /\ u.main = main
        /\ u.watched = Now.watched /\ u.media = Now.media /\ ~u.shuffling
    BY <1>1, <2>2 DEF State
  <2>4. main = "idle" /\ Become(IF HasCurrentMedia(Now) THEN Determine(u) ELSE Load(Now, items, 0))
    BY <1>1, <1>8, Zenon DEF UserAppend, Idle
  <2> HIDE DEF u
  <2>5. CASE HasCurrentMedia(Now)
    <3>1. cur \in 0 .. Len(list) - 1
      BY <1>1, <2>5 DEF HasCurrentMedia, ValidIndex, Valid
    <3>2. cur \in 0 .. Len(list) + Len(items) - 1 /\ cur < Len(list)
      BY <1>1, <2>1, <3>1
    <3>3. Item(list \o items, cur) = Item(list, cur)
      BY <1>1, <2>1, <3>2, ConcatItem
    <3>4. InStep(u)
      BY <1>1, <2>3, <2>4, <2>5, <3>3 DEF InStep, Current
    <3> QED
      BY <1>4, <2>3, <2>4, <2>5, <3>4
  <2>6. CASE ~HasCurrentMedia(Now)
    BY <1>1, <1>3, <2>1, <2>4, <2>6
  <2> QED
    BY <2>5, <2>6
<1>9. ASSUME NEW items \in Loads, UserInsertNext(items)
      PROVE  InStep(Now')
  <2> DEFINE u == [Now EXCEPT !.main = "insert", !.todo = items, !.at = cur + 1]
  <2>1. items \in Seq(Media)
    BY LoadsAssumption
  <2>2. main = "idle" /\ Become(IF HasCurrentMedia(Now) THEN {u} ELSE Load(Now, items, 0))
    BY <1>9 DEF UserInsertNext, Idle
  <2>3. CASE HasCurrentMedia(Now)
    <3>1. cur + 1 \in Nat
      BY <1>1, <2>3 DEF HasCurrentMedia, ValidIndex, Valid
    <3>2. u \in State /\ Carried(Now, u)
      BY <1>1, <2>1, <2>2, <3>1 DEF State, Carried
    <3> HIDE DEF u
    <3> QED
      BY <1>5, <2>2, <2>3, <3>2, CarriedInStep
  <2>4. CASE ~HasCurrentMedia(Now)
    BY <1>1, <1>3, <2>1, <2>2, <2>4
  <2> QED
    BY <2>3, <2>4
<1>10. ASSUME NEW m \in Media, NEW position \in 0 .. Len(list), UserInsertItem(position, m)
       PROVE  InStep(Now')
  <2> DEFINE X == UNION {Determine(t) : t \in ListInsert(Now, position, m, FALSE)}
  <2>1. main = "idle" /\ Become(X)
    BY <1>10 DEF UserInsertItem, Idle
  <2>2. ASSUME NEW t \in ListInsert(Now, position, m, FALSE), NEW u \in Determine(t)
        PROVE  u \in State /\ InStep(u)
    <3>1. t \in State /\ InStep(t)
      BY <1>1, <1>2, <2>1, ListInsertInStep
    <3> QED
      BY <2>2, <3>1, DetermineInStep
  <2>3. \A u \in X : u \in State /\ InStep(u)
    BY <2>2, Zenon
  <2> HIDE DEF X
  <2> QED
    BY <2>1, <2>3, BecomeInStep
<1>11. ASSUME NEW start \in 0 .. Len(list), NEW end \in 0 .. Len(list), UserMove(start, end)
       PROVE  InStep(Now')
  <2> DEFINE u == [Now EXCEPT !.list = Move(list, start, end)]
  <2>1. start \in 0 .. Len(list) - 1
    BY <1>1, <1>11 DEF UserMove, ValidIndex, Valid
  <2>2. Move(list, start, end) \in Seq(Media)
    BY <1>1, <2>1, MoveType
  <2>3. u \in State /\ u.main = main /\ u.watched = watched /\ ~u.shuffling
    BY <1>1, <2>2, NowFields DEF State
  <2>4. main = "idle" /\ Become(IF watched THEN ItemMoved(u, start, end) ELSE {u})
    BY <1>1, <1>11, Zenon DEF UserMove, Idle
  <2>5. CASE watched
    <3>1. \A t \in ItemMoved(u, start, end) : t \in State /\ InStep(t)
      BY <1>1, <2>1, <2>4, <2>5, MoveInStep, NowFields
    <3> HIDE DEF u
    <3> QED
      BY <2>4, <2>5, <3>1, BecomeInStep
  <2> HIDE DEF u
  <2>6. CASE ~watched
    <3>1. InStep(u)
      BY <2>3, <2>4, <2>6 DEF InStep
    <3> QED
      BY <1>5, <2>3, <2>4, <2>6, <3>1
  <2> QED
    BY <2>5, <2>6
<1>12. ASSUME NEW i \in 0 .. Len(list) - 1, UserRemove(i)
       PROVE  InStep(Now')
  <2> DEFINE X == UNION {Determine(t) : t \in ListRemove(Now, i, FALSE)}
  <2>1. main = "idle" /\ Become(X)
    BY <1>12 DEF UserRemove, Idle
  <2>2. ASSUME NEW t \in ListRemove(Now, i, FALSE), NEW u \in Determine(t)
        PROVE  u \in State /\ InStep(u)
    <3>1. t \in State /\ InStep(t)
      BY <1>1, <1>2, <2>1, ListRemoveInStep
    <3> QED
      BY <2>2, <3>1, DetermineInStep
  <2>3. \A u \in X : u \in State /\ InStep(u)
    BY <2>2, Zenon
  <2> HIDE DEF X
  <2> QED
    BY <2>1, <2>3, BecomeInStep
<1>13. ASSUME NEW m \in Media, UserRemoveLocation(m)
       PROVE  InStep(Now')
  <2> DEFINE u == [Now EXCEPT !.main = "remove", !.todo = <<m>>, !.at = 0]
  <2>1. main = "idle" /\ Become({u})
    BY <1>13 DEF UserRemoveLocation, Idle
  <2>2. <<m>> \in Seq(Media)
    OBVIOUS
  <2>3. u \in State /\ Carried(Now, u)
    BY <1>1, <2>1, <2>2 DEF State, Carried
  <2> HIDE DEF u
  <2> QED
    BY <1>5, <2>1, <2>3, CarriedInStep
<1>14. CASE UserNext
  <2>1. main = "idle" /\ Become(NextTrack(Now))
    BY <1>14 DEF UserNext, Idle
  <2>2. \A t \in NextTrack(Now) : t \in State /\ InStep(t)
    BY <1>1, <1>2, <2>1, NextTrackInStep
  <2> QED
    BY <2>1, <2>2, BecomeInStep
<1>15. CASE UserPrevious
  <2>1. main = "idle" /\ Become(PreviousTrack(Now))
    BY <1>15 DEF UserPrevious, Idle
  <2>2. \A t \in PreviousTrack(Now) : t \in State /\ InStep(t)
    BY <1>1, <1>2, <2>1, PreviousTrackInStep
  <2> QED
    BY <2>1, <2>2, BecomeInStep
<1>16. CASE UserShuffle
  <2>1. (~shuffling) \in Shuffles /\ Now.shuffling = shuffling
    BY <1>16, NowFields DEF UserShuffle
  <2> QED
    BY <1>1, <2>1
<1>17. ASSUME NEW type \in Repeats, UserRepeat(type)
       PROVE  InStep(Now')
  <2> DEFINE u == [Now EXCEPT !.repeating = type]
  <2>1. Become(Determine(u)) /\ type \in {"none", "one", "all"}
    BY <1>17, ModesAssumption DEF UserRepeat
  <2>2. u \in State /\ Carried(Now, u)
    BY <1>1, <2>1 DEF State, Carried
  <2> HIDE DEF u
  <2> QED
    BY <1>4, <2>1, <2>2, CarriedInStep
<1>18. ASSUME NEW i \in 0 .. Len(list) - 1, UserPlayIndex(i)
       PROVE  InStep(Now')
  <2>1. main = "idle" /\ Become(PlayIndex(Now, i))
    BY <1>18 DEF UserPlayIndex, Idle
  <2>2. ValidIndex(Now, i)
    BY <1>1 DEF ValidIndex, Valid
  <2>3. \A t \in PlayIndex(Now, i) : t \in State /\ InStep(t)
    BY <1>1, <1>2, <2>1, <2>2, PlayIndexInStep
  <2> QED
    BY <2>1, <2>3, BecomeInStep
<1>19. CASE UserPlay
  <2>1. PlayerPlay(Now) \in State /\ InStep(PlayerPlay(Now))
    BY <1>1, PlayerPlayFrame, PlayerPlaySteady, SteadyCarried, CarriedInStep DEF Untouched
  <2> QED
    BY <1>5, <1>19, <2>1 DEF UserPlay
<1>20. CASE UserPause
  <2> DEFINE u == [Now EXCEPT !.phase = "paused"]
  <2>1. "paused" \in Phases /\ "Paused" \in EventTypes
    BY DEF Phases, EventTypes
  <2>2. u \in State /\ Carried(Now, u)
    BY <1>1, <2>1 DEF State, Carried
  <2>3. Become({Post(u, "Paused")})
    BY <1>20 DEF UserPause
  <2> HIDE DEF u
  <2>4. Post(u, "Paused") \in State /\ Carried(u, Post(u, "Paused"))
    BY <2>1, <2>2, PostFrame, PostSteady, SteadyCarried DEF Untouched
  <2> QED
    BY <1>5, <2>2, <2>3, <2>4, CarriedInStep
<1>21. CASE UserStop
  <2>1. main = "idle" /\ Become({Stop(Now)})
    BY <1>21 DEF UserStop, Idle
  <2>2. Stop(Now) \in State /\ InStep(Stop(Now))
    BY <1>1, <1>2, <2>1, StopInStep
  <2> QED
    BY <1>5, <2>1, <2>2
<1>22. ASSUME NEW i \in -1 .. Len(list) - 1, NEW m \in Video, ActivityPlays(i, m)
       PROVE  InStep(Now')
  <2> DEFINE f == Now.forced \ {m}
             u == [Now EXCEPT !.attached = TRUE, !.forced = f]
             t == IF HasCurrentMedia(u) /\ Current(u) # m THEN Stop(u) ELSE u
             X == IF ~HasCurrentMedia(t) THEN Load(t, <<m>>, 0)
                  ELSE IF t.phase # "playing" THEN PlayIndex(t, i)
                  ELSE {t}
  <2>1. main = "idle" /\ Become(X) /\ ValidIndex(Now, i)
    BY <1>22, Zenon DEF ActivityPlays, Idle
  <2>2. f \in SUBSET Video
    BY <1>1 DEF State
  <2> HIDE DEF f
  <2>3. u \in State /\ Carried(Now, u) /\ u.main = main
    BY <1>1, <2>2 DEF State, Carried
  <2> HIDE DEF u
  <2>4. InStep(u) /\ u.list = list /\ ~u.shuffling /\ ~Stuck(u)
    BY <1>1, <2>1, <2>3, CarriedInStep DEF Carried, InStep, Stuck
  <2>5. t \in State /\ t.list = list /\ t.main = "idle" /\ InStep(t)
    BY <2>1, <2>3, <2>4, StopInStep
  <2> HIDE DEF t
  <2>6. ~t.shuffling /\ ~Stuck(t)
    BY <2>5 DEF InStep, Stuck
  <2>7. <<m>> \in Seq(Media) /\ 0 \in Nat
    BY MediaAssumption
  <2>8. \A w \in Load(t, <<m>>, 0) : w \in State /\ InStep(w)
    BY <2>5, <2>6, <2>7, LoadInStep
  <2>9. ValidIndex(t, i)
    BY <1>1, <2>1, <2>5 DEF ValidIndex
  <2>10. \A w \in PlayIndex(t, i) : w \in State /\ InStep(w)
    BY <2>5, <2>6, <2>9, PlayIndexInStep
  <2>11. \A w \in X : w \in State /\ InStep(w)
    BY <2>5, <2>8, <2>10
  <2> HIDE DEF X
  <2> QED
    BY <2>1, <2>11, BecomeInStep
<1>23. ASSUME NEW asAudio \in BOOLEAN, ActivityStops(asAudio)
       PROVE  InStep(Now')
  <2> DEFINE u == [Now EXCEPT !.attached = FALSE]
             f == u.forced \cup ({Current(u)} \cap Video)
             w == [u EXCEPT !.forced = f]
  <2>1. main = "idle" /\ Become({IF asAudio /\ HasCurrentMedia(u) THEN w ELSE Stop(u)})
    BY <1>23, Zenon DEF ActivityStops, Idle
  <2>2. u \in State /\ Carried(Now, u) /\ u.main = main
    BY <1>1 DEF State, Carried
  <2> HIDE DEF u
  <2>3. f \in SUBSET Video
    BY <2>2 DEF State
  <2> HIDE DEF f
  <2>4. w \in State /\ Carried(u, w)
    BY <2>2, <2>3 DEF State, Carried
  <2> HIDE DEF w
  <2>5. InStep(u) /\ InStep(w)
    BY <2>2, <2>4, CarriedInStep
  <2>6. Stop(u) \in State /\ InStep(Stop(u))
    BY <2>1, <2>2, <2>5, StopInStep DEF InStep, Stuck
  <2> QED
    BY <1>5, <2>1, <2>4, <2>5, <2>6
<1> QED
  BY <1>6, <1>7, <1>8, <1>9, <1>10, <1>11, <1>12, <1>13, <1>14, <1>15, <1>16, <1>17,
     <1>18, <1>19, <1>20, <1>21, <1>22, <1>23 DEF UserCall

(* In list order every step keeps the step. *)
LEMMA InStepIsInductive ==
    ASSUME Alone = FALSE, Shuffles = {FALSE}
    PROVE  Good(Now) /\ InStep(Now) /\ [Next]_vars => InStep(Now')
<1> SUFFICES ASSUME Good(Now), InStep(Now), [Next]_vars PROVE InStep(Now')
  OBVIOUS
<1>1. CASE UNCHANGED vars
  <2>1. Now' = Now
    BY <1>1 DEF vars, Now
  <2> QED
    BY <2>1
<1>2. CASE Restart
  <2>1. Fresh \in State /\ InStep(Fresh)
    BY FreshGood, UnwatchedInStep DEF Good, Fresh
  <2> QED
    BY <1>2, <2>1, BecomeInStep DEF Restart
<1> QED
  BY <1>1, <1>2, CallsInStep, LoopsInStep, EventsInStep, PlayerInStep
     DEF Next, SystemStep, Spin

(* and of the current state *)
InStepNow == InStep(Now)

LEMMA AlwaysInStep ==
    ASSUME Alone = FALSE, Shuffles = {FALSE}
    PROVE  Spec => []InStepNow
<1>1. Init => InStepNow
  <2>1. Init => Now = Fresh
    BY DEF Init, Now, Fresh
  <2> QED
    BY <2>1, UnwatchedInStep DEF InStepNow, Fresh
<1>2. IInv /\ InStepNow /\ [Next]_vars => InStepNow'
  BY InStepIsInductive DEF IInv, InStepNow
<1> QED
  BY <1>1, <1>2, AlwaysGood, PTL DEF Spec

(* What getCurrentMedia returns is what the media player was given, after  *)
(* any sequence of loads, insertions, moves, removals, expansions, skips   *)
(* and late stop tasks, for lists and queues of any length.  In shuffle    *)
(* mode the removal of the current item breaks it (run shuffle_remove).    *)
THEOREM CurrentStaysPlaying ==
    ASSUME Alone = FALSE, Shuffles = {FALSE}
    PROVE  Spec => []CurrentIsPlaying
<1>1. InStepNow => CurrentIsPlaying
  BY NowFields DEF InStepNow, InStep, CurrentIsPlaying
<1> QED
  BY <1>1, AlwaysInStep, PTL
=============================================================================
