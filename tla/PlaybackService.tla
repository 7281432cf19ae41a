--------------------------- MODULE PlaybackService ---------------------------
(***************************************************************************)
(* The playback service of the player (vlc/PlaybackService.java): the      *)
(* current, previous and next position in the playlist, what the media     *)
(* player was told to play, and the events that come back from it.         *)
(*                                                                         *)
(* Three actors share the state.                                           *)
(*   - The main thread runs one handler to its end: a call of the user     *)
(*     interface, or an event of the media player taken from `queue`.      *)
(*     The handlers call each other; each is an operator from a state s to *)
(*     the SET of states it may leave behind, because the shuffle draws a  *)
(*     random position.  A loop over several items is cut into one step    *)
(*     per item (`main`, `todo`, `at`); no other handler runs meanwhile.   *)
(*   - The native player opens, plays, ends or fails, and posts events.    *)
(*   - The thread pool runs the tasks that stop() leaves behind.           *)
(***************************************************************************)
EXTENDS Integers, Sequences, FiniteSets, MediaWrapperList

CONSTANTS
    Media,        \* the media that may be put in a list
    Video,        \* those whose type is TYPE_VIDEO; the rest plays as audio
    SubItems,     \* SubItems[m]: what the player finds inside m (a playlist file)
    None,         \* no media
    Loads,        \* the lists the user may load
    Shuffles,     \* the values the shuffle mode may take: {FALSE} or BOOLEAN
    Repeats,      \* the repeat modes the user may choose
    Alone,        \* videos may be opened outside the playlist: BOOLEAN
    MaxList,      \* bound on the lists built by appending, inserting, expanding
    MaxPrevious,  \* bound on the stack of played positions
    MaxQueue,     \* bound on the events waiting for the main thread
    MaxStops      \* bound on the stop tasks waiting for the thread pool

ASSUME MediaAssumption == Video \subseteq Media /\ None \notin Media
ASSUME SubItemsAssumption == SubItems \in [Media -> Seq(Media)]
ASSUME LoadsAssumption == Loads \subseteq Seq(Media)
ASSUME ModesAssumption ==
    /\ Shuffles \subseteq BOOLEAN /\ FALSE \in Shuffles
    /\ Repeats \subseteq {"none", "one", "all"} /\ Alone \in BOOLEAN
ASSUME BoundsAssumption ==
    MaxList \in Nat /\ MaxPrevious \in Nat /\ MaxQueue \in Nat /\ MaxStops \in Nat

VARIABLES
    list,        \* mMediaList's items
    watched,     \* mListEventListener is registered with the list
    cur,         \* mCurrentIndex
    prev,        \* mPrevIndex
    next,        \* mNextIndex
    previous,    \* mPrevious, the top of the stack last
    shuffling,   \* mShuffling
    repeating,   \* mRepeating
    stopped,     \* mStopped
    background,  \* mVideoBackground
    forced,      \* the videos flagged MEDIA_FORCE_AUDIO
    media,       \* what the media player was given by setMedia
    phase,       \* the native player's state
    listened,    \* mMediaPlayerListener is registered with the player
    attached,    \* video surfaces are attached: isVideoPlaying()
    queue,       \* player events posted to the main thread
    stops,       \* stop tasks posted to the thread pool
    clearing,    \* those between mp.stop() and mp.setMedia(null)
    main,        \* what the main thread is in the middle of
    todo,        \* the media its loop has left
    at           \* the position its loop is at

vars == <<list, watched, cur, prev, next, previous, shuffling, repeating, stopped,
          background, forced, media, phase, listened, attached, queue, stops,
          clearing, main, todo, at>>

EventTypes == {"Playing", "Paused", "Stopped", "EndReached", "EncounteredError"}
Phases == {"nothing", "opening", "playing", "paused", "ended", "error", "stopped"}

(* A position in the list, or -1.                                          *)
Positions == Nat \cup {-1}

(* An event is stale when the player was given another media since.        *)
Event == [type : EventTypes, stale : BOOLEAN]

State ==
    [list : Seq(Media), watched : BOOLEAN, cur : Positions, prev : Positions,
     next : Positions, previous : Seq(Positions), shuffling : BOOLEAN, repeating : {"none", "one", "all"},
     stopped : BOOLEAN, background : BOOLEAN, forced : SUBSET Video,
     media : Media \cup {None}, phase : Phases, listened : BOOLEAN,
     attached : BOOLEAN, queue : Seq(Event), stops : Nat, clearing : Nat,
     main : {"idle", "expand", "insert", "remove", "hung", "crashed"},
     todo : Seq(Media), at : Nat]

(* The current state as one value, and the step to one of the states S.    *)
Now ==
    [list |-> list, watched |-> watched, cur |-> cur, prev |-> prev, next |-> next,
     previous |-> previous, shuffling |-> shuffling, repeating |-> repeating,
     stopped |-> stopped, background |-> background, forced |-> forced,
     media |-> media, phase |-> phase, listened |-> listened, attached |-> attached,
     queue |-> queue, stops |-> stops, clearing |-> clearing, main |-> main,
     todo |-> todo, at |-> at]

Become(S) ==
    \E t \in S :
        /\ list' = t.list             /\ watched' = t.watched
        /\ cur' = t.cur               /\ prev' = t.prev
        /\ next' = t.next             /\ previous' = t.previous
        /\ shuffling' = t.shuffling   /\ repeating' = t.repeating
        /\ stopped' = t.stopped       /\ background' = t.background
        /\ forced' = t.forced         /\ media' = t.media
        /\ phase' = t.phase           /\ listened' = t.listened
        /\ attached' = t.attached     /\ queue' = t.queue
        /\ stops' = t.stops           /\ clearing' = t.clearing
        /\ main' = t.main             /\ todo' = t.todo
        /\ at' = t.at

Fresh ==
    [list |-> <<>>, watched |-> FALSE, cur |-> -1, prev |-> -1, next |-> -1,
     previous |-> <<>>, shuffling |-> FALSE, repeating |-> "none", stopped |-> TRUE,
     background |-> FALSE, forced |-> {}, media |-> None, phase |-> "nothing",
     listened |-> FALSE, attached |-> FALSE, queue |-> <<>>, stops |-> 0,
     clearing |-> 0, main |-> "idle", todo |-> <<>>, at |-> 0]

-----------------------------------------------------------------------------
(* Questions the handlers ask of a state *)

ValidIndex(s, i) == Valid(s.list, i)
HasCurrentMedia(s) == ValidIndex(s, s.cur)
Current(s) == Item(s.list, s.cur)
CanSwitchToVideo(s) ==
    HasCurrentMedia(s) /\ s.media \in Video /\ s.phase \in {"playing", "paused"}
Elements(seq) == {seq[k] : k \in DOMAIN seq}

(* The main thread can take no further step of the handler it is in.       *)
Stuck(s) == s.main \in {"hung", "crashed"}

-----------------------------------------------------------------------------
(* determinePrevAndNextIndices *)

NormalIndices(s) ==
    LET size == Len(s.list)
    IN  [s EXCEPT !.prev = IF s.cur > 0 THEN s.cur - 1 ELSE -1,
                  !.next = IF s.cur + 1 < size THEN s.cur + 1
                           ELSE IF s.repeating = "none" THEN -1 ELSE 0]

DropNothing(s) == s.previous  \* MUTANT: the stack keeps positions that are gone

(* The stack without the positions on its top that the list no longer has. *)
DropInvalid(s) ==
    LET good == {k \in 1 .. Len(s.previous) : ValidIndex(s, s.previous[k])}
        top  == IF good = {} THEN 0 ELSE CHOOSE k \in good : \A j \in good : j <= k
    IN  SubSeq(s.previous, 1, top)

CandidatesWithCurrent(s) ==  \* MUTANT: the draw may return the current position
    {i \in 0 .. Len(s.list) - 1 : i \notin Elements(s.previous)}

Candidates(s) ==
    {i \in 0 .. Len(s.list) - 1 : i # s.cur /\ i \notin Elements(s.previous)}

(* The loop draws until it finds a candidate: with none it never ends.     *)
Draw(s) ==
    IF Candidates(s) = {} THEN {[s EXCEPT !.main = "hung"]}
    ELSE {[s EXCEPT !.next = i] : i \in Candidates(s)}

ShuffleIndices(s) ==
    LET stack == DropInvalid(s)
        t     == [s EXCEPT !.previous = stack,
                           !.prev = IF stack = <<>> THEN -1 ELSE stack[Len(stack)]]
    IN  IF Len(stack) + 1 # Len(s.list) THEN Draw(t)
        ELSE IF s.repeating = "none" THEN {t}
        ELSE Draw([t EXCEPT !.previous = <<>>])

Determine(s) ==
    LET t == [s EXCEPT !.prev = -1, !.next = -1, !.shuffling = @ /\ Len(s.list) > 2]
    IN  IF Stuck(s) THEN {s}
        ELSE IF t.repeating = "one" THEN {[t EXCEPT !.prev = s.cur, !.next = s.cur]}
        ELSE IF t.shuffling THEN ShuffleIndices(t)
        ELSE {NormalIndices(t)}

-----------------------------------------------------------------------------
(* The media player, as the service uses it *)

Staled(events) == [k \in DOMAIN events |-> [events[k] EXCEPT !.stale = TRUE]]

SetMedia(s, m) ==
    [s EXCEPT !.media = m, !.phase = "nothing", !.queue = Staled(s.queue)]

Post(s, type) ==
    IF s.listened
    THEN [s EXCEPT !.queue = Append(@, [type |-> type, stale |-> FALSE])]
    ELSE s

ListenKeepingEvents(s, on) ==  \* MUTANT: messages already posted are not removed
    [s EXCEPT !.listened = on]

(* setEventListener drops what the former listener was posted.             *)
Listen(s, on) == [s EXCEPT !.listened = on, !.queue = <<>>]

PlayerPlay(s) ==
    IF s.media # None /\ s.phase \in {"nothing", "stopped"} THEN [s EXCEPT !.phase = "opening"]
    ELSE IF s.phase = "paused" THEN Post([s EXCEPT !.phase = "playing"], "Playing")
    ELSE s

-----------------------------------------------------------------------------
(* Playing, stopping, skipping *)

(* A video without surfaces waits for VideoPlayerActivity.                 *)
PlaysAtOnce(s, m) == m \notin Video \/ s.attached \/ m \in s.forced

PlayIndex(s, i) ==
    IF Stuck(s) \/ s.list = <<>> THEN {s}
    ELSE IF ~ValidIndex(s, i) THEN {[s EXCEPT !.cur = 0]}
    ELSE LET m == Item(s.list, i)
             t == SetMedia([s EXCEPT !.cur = i,
                                     !.forced = IF s.background THEN @ \cup ({m} \cap Video)
                                                ELSE @], m)
         IN  IF PlaysAtOnce(t, m)
             THEN Determine(PlayerPlay(Listen(t, TRUE)))
             ELSE {t}

OnPlaybackStopped(s) ==
    IF s.stopped THEN s ELSE [s EXCEPT !.stopped = TRUE, !.cur = -1]

Stop(s) ==
    LET t == IF s.media = None THEN s
             ELSE [Listen(s, FALSE) EXCEPT !.stops = @ + 1]
    IN  IF Stuck(s) THEN s
        ELSE OnPlaybackStopped([t EXCEPT !.watched = FALSE, !.previous = <<>>])

NextTrack(s) ==
    LET t == [s EXCEPT !.previous = Append(@, s.cur), !.cur = s.next]
    IN  IF Stuck(s) THEN {s}
        ELSE IF ~HasCurrentMedia(t) THEN {Stop(t)}
        ELSE PlayIndex([t EXCEPT !.background = ~t.attached /\ CanSwitchToVideo(t)], t.cur)

PreviousTrack(s) ==
    LET t == [s EXCEPT !.cur = s.prev,
                       !.previous = IF @ = <<>> THEN @ ELSE SubSeq(@, 1, Len(@) - 1)]
    IN  IF HasCurrentMedia(t) THEN PlayIndex(t, t.cur) ELSE {Stop(t)}

Load(s, items, position) ==
    LET t == [s EXCEPT !.watched = FALSE, !.previous = <<>>, !.list = items]
        u == [t EXCEPT !.cur = IF ValidIndex(t, position) THEN position ELSE 0,
                       !.watched = TRUE]
    IN  IF items = <<>> THEN {t}
        ELSE UNION {Determine(v) : v \in PlayIndex(u, u.cur)}

-----------------------------------------------------------------------------
(* The list listener.  `expanding` is mExpanding.                          *)

ItemAddedAfter(s, index, expanding) ==  \* MUTANT: an insertion at the current position is missed
    Determine(IF s.cur > index /\ ~expanding THEN [s EXCEPT !.cur = @ + 1] ELSE s)

ItemAdded(s, index, expanding) ==
    Determine(IF s.cur >= index /\ ~expanding THEN [s EXCEPT !.cur = @ + 1] ELSE s)

CloseGapAlways(s, index, expanding) ==  \* MUTANT: decrements without comparing
    Determine(IF ~expanding /\ ~Stuck(s) THEN [s EXCEPT !.cur = @ - 1] ELSE s)

(* Determine is guarded by Stuck, so a handler that hung stays as it is.   *)
CloseGap(s, index, expanding) ==
    Determine(IF s.cur > index /\ ~expanding /\ ~Stuck(s) THEN [s EXCEPT !.cur = @ - 1] ELSE s)

CurrentRemoved(s) ==
    UNION {IF t.next # -1 THEN NextTrack(t)
           ELSE IF t.cur # -1 THEN PlayIndex(t, t.cur)
           ELSE {Stop(t)} : t \in Determine(s)}

ItemRemovedExpanding(s, index, expanding) ==  \* MUTANT: mExpanding is not tested
    IF s.cur = index
    THEN UNION {CloseGap(t, index, FALSE) : t \in CurrentRemoved([s EXCEPT !.cur = @ - 1])}
    ELSE CloseGap(s, index, FALSE)

ItemRemoved(s, index, expanding) ==
    IF s.cur = index /\ ~expanding
    THEN UNION {CloseGap(t, index, FALSE) : t \in CurrentRemoved([s EXCEPT !.cur = @ - 1])}
    ELSE CloseGap(s, index, expanding)

ItemMovedTooFar(s, start, end) ==  \* MUTANT: `end` is taken for the item's new position
    Determine([s EXCEPT !.previous = <<>>,
                        !.cur = IF @ = start THEN end
                                ELSE IF start > @ /\ end <= @ THEN @ + 1
                                ELSE IF start < @ /\ end > @ THEN @ - 1
                                ELSE @])

ItemMoved(s, start, end) ==
    Determine([s EXCEPT !.previous = <<>>,
                        !.cur = IF @ = start THEN (IF end > start THEN end - 1 ELSE end)
                                ELSE IF start > @ /\ end <= @ THEN @ + 1
                                ELSE IF start < @ /\ end > @ THEN @ - 1
                                ELSE @])

ListInsert(s, index, m, expanding) ==
    LET t == [s EXCEPT !.list = Insert(@, index, m)]
    IN  IF Stuck(s) THEN {s}
        ELSE IF s.watched THEN ItemAdded(t, index, expanding)
        ELSE {t}

ListRemove(s, index, expanding) ==
    LET t == [s EXCEPT !.list = Delete(@, index)]
    IN  IF s.watched THEN ItemRemoved(t, index, expanding) ELSE {t}

-----------------------------------------------------------------------------
(* Main thread: calls of the user interface *)

Idle == main = "idle"
StopBound == stops + clearing < MaxStops
SkipBound == StopBound /\ Len(previous) < MaxPrevious
ListBound(more) == Len(list) + more <= MaxList

Init ==
    /\ list = <<>> /\ watched = FALSE /\ cur = -1 /\ prev = -1 /\ next = -1
    /\ previous = <<>> /\ shuffling = FALSE /\ repeating = "none"
    /\ stopped = TRUE /\ background = FALSE /\ forced = {}
    /\ media = None /\ phase = "nothing" /\ listened = FALSE /\ attached = FALSE
    /\ queue = <<>> /\ stops = 0 /\ clearing = 0
    /\ main = "idle" /\ todo = <<>> /\ at = 0

UserLoad(items, position) ==
    /\ Idle
    /\ Become(Load(Now, items, position))

(* loadLastPlaylist: the modes come from the saved settings too.           *)
LoadLast(items, position, shuffle, repeat) ==
    /\ Idle /\ items # <<>>
    /\ Become(Load([Now EXCEPT !.shuffling = shuffle, !.repeating = repeat], items, position))

UserAppendOnly(items) ==  \* MUTANT: the neighbours are not determined again
    /\ Idle /\ ListBound(Len(items))
    /\ Become(IF HasCurrentMedia(Now) THEN {[Now EXCEPT !.list = @ \o items]}
              ELSE Load(Now, items, 0))

UserAppend(items) ==
    /\ Idle /\ ListBound(Len(items))
    /\ Become(IF HasCurrentMedia(Now) THEN Determine([Now EXCEPT !.list = @ \o items])
              ELSE Load(Now, items, 0))

(* insertNext inserts one item per step from the position after the current one. *)
UserInsertNext(items) ==
    /\ Idle /\ ListBound(Len(items))
    /\ Become(IF HasCurrentMedia(Now)
              THEN {[Now EXCEPT !.main = "insert", !.todo = items, !.at = cur + 1]}
              ELSE Load(Now, items, 0))

InsertStep ==
    /\ main = "insert" /\ todo # <<>>
    /\ Become({[t EXCEPT !.todo = Tail(@), !.at = @ + 1] :
                  t \in ListInsert(Now, at, Head(todo), FALSE)})

InsertDone ==
    /\ main = "insert" /\ todo = <<>>
    /\ Become(Determine([Now EXCEPT !.main = "idle", !.at = 0]))

UserInsertItem(position, m) ==
    /\ Idle /\ ListBound(1) /\ position \in 0 .. Len(list)
    /\ Become(UNION {Determine(t) : t \in ListInsert(Now, position, m, FALSE)})

UserMove(start, end) ==
    /\ Idle /\ ValidIndex(Now, start) /\ end \in 0 .. Len(list)
    /\ LET t == [Now EXCEPT !.list = Move(@, start, end)]
       IN  Become(IF watched THEN ItemMoved(t, start, end) ELSE {t})

UserRemove(position) ==
    /\ Idle /\ SkipBound /\ ValidIndex(Now, position)
    /\ Become(UNION {Determine(t) : t \in ListRemove(Now, position, FALSE)})

(* remove(String) takes out every item with the location, one per step.    *)
UserRemoveLocation(m) ==
    /\ Idle /\ SkipBound
    /\ Become({[Now EXCEPT !.main = "remove", !.todo = <<m>>, !.at = 0]})

RemoveStep ==
    \E i \in 0 .. Len(list) - 1 :
        /\ main = "remove" /\ NextHit(list, at, todo[1], i)
        /\ Become({[t EXCEPT !.at = i] : t \in ListRemove(Now, i, FALSE)})

RemoveDone ==
    /\ main = "remove" /\ \A i \in 0 .. Len(list) - 1 : ~NextHit(list, at, todo[1], i)
    /\ Become(Determine([Now EXCEPT !.main = "idle", !.todo = <<>>, !.at = 0]))

UserNext ==
    /\ Idle /\ SkipBound
    /\ Become(NextTrack(Now))

(* previous: with a position to go back to; otherwise it only rewinds.     *)
UserPrevious ==
    /\ Idle /\ StopBound /\ prev # -1 /\ cur > 0
    /\ Become(PreviousTrack(Now))

UserShuffle ==
    /\ Idle /\ (~shuffling) \in Shuffles
    /\ Become(Determine([Now EXCEPT !.shuffling = ~@,
                                    !.previous = IF shuffling THEN <<>> ELSE @]))

UserRepeat(type) ==
    /\ Idle
    /\ Become(Determine([Now EXCEPT !.repeating = type]))

(* The playlist views play a position of the list they show.               *)
UserPlayIndex(i) ==
    /\ Idle /\ HasCurrentMedia(Now)
    /\ Become(PlayIndex(Now, i))

UserPlay ==
    /\ Idle /\ HasCurrentMedia(Now) /\ Len(queue) < MaxQueue
    /\ Become({PlayerPlay(Now)})

UserPause ==
    /\ Idle /\ phase = "playing" /\ Len(queue) < MaxQueue
    /\ Become({Post([Now EXCEPT !.phase = "paused"], "Paused")})

UserStop ==
    /\ Idle /\ StopBound
    /\ Become({Stop(Now)})

(* VideoPlayerActivity.startPlayback and loadMedia: it attaches its surfaces, *)
(* then plays position i of the list, or video m when it was opened on its own *)
(* (i = -1).                                                               *)
ActivityPlays(i, m) ==
    LET s == [Now EXCEPT !.attached = TRUE, !.forced = @ \ {m}]
        t == IF HasCurrentMedia(s) /\ Current(s) # m THEN Stop(s) ELSE s
    IN  /\ Idle /\ StopBound
        /\ (i = -1 /\ Alone) \/ (HasCurrentMedia(Now) /\ ValidIndex(Now, i) /\ m = Item(list, i))
        /\ Become(IF ~HasCurrentMedia(t) THEN Load(t, <<m>>, 0)
                  ELSE IF t.phase # "playing" THEN PlayIndex(t, i)
                  ELSE {t})

(* VideoPlayerActivity.stopPlayback: the surfaces go, and playback stops   *)
(* unless it goes on as audio.                                             *)
ActivityStops(asAudio) ==
    LET s == [Now EXCEPT !.attached = FALSE]
    IN  /\ Idle /\ StopBound /\ attached
        /\ Become({IF asAudio /\ HasCurrentMedia(s)
                   THEN [s EXCEPT !.forced = @ \cup ({Current(s)} \cap Video)]
                   ELSE Stop(s)})

-----------------------------------------------------------------------------
(* Main thread: mMediaPlayerListener.onEvent *)

Take(type) ==
    /\ Idle /\ queue # <<>> /\ Head(queue).type = type

Taken == [Now EXCEPT !.queue = Tail(@)]

OnPlaying ==
    /\ Take("Playing")
    /\ Become({IF HasCurrentMedia(Now)
               THEN [Taken EXCEPT !.stopped = FALSE, !.background = FALSE]
               ELSE [Taken EXCEPT !.stopped = FALSE, !.main = "crashed"]})

OnPaused ==
    /\ Take("Paused")
    /\ Become({[Taken EXCEPT !.stopped = FALSE]})

OnStopped ==
    /\ Take("Stopped")
    /\ Become({OnPlaybackStopped(Taken)})

(* The ended media is replaced in the list by its sub-items, if it has any. *)
OnEndReached ==
    /\ Take("EndReached") /\ SkipBound
    /\ media # None => SubItems[media] = <<>> \/ ListBound(Len(SubItems[media]) - 1)
    /\ Become(IF media = None \/ ~HasCurrentMedia(Now)
              THEN {[Taken EXCEPT !.main = "crashed"]}
              ELSE IF SubItems[media] = <<>>
              THEN UNION {NextTrack(t) : t \in Determine(Taken)}
              ELSE {[t EXCEPT !.main = IF Stuck(t) THEN @ ELSE "expand",
                              !.todo = SubItems[media]] :
                        t \in ListRemove(Taken, cur, TRUE)})

(* The children go in from the last to the first, at the current position. *)
ExpandStep ==
    /\ main = "expand" /\ todo # <<>>
    /\ Become({[t EXCEPT !.todo = SubSeq(@, 1, Len(@) - 1)] :
                  t \in ListInsert(Now, cur, todo[Len(todo)], TRUE)})

(* expand returned 0: that is the next position, and next() goes there.    *)
ExpandDone ==
    /\ main = "expand" /\ todo = <<>>
    /\ Become(NextTrack([Now EXCEPT !.main = "idle", !.next = 0, !.prev = -1]))

OnErrorIgnored ==  \* MUTANT: an error does not lead to the next media
    /\ Take("EncounteredError") /\ SkipBound
    /\ Become({Taken})

OnEncounteredError ==
    /\ Take("EncounteredError") /\ SkipBound
    /\ Become(NextTrack(Taken))

(* The shuffle loop draws again and again.                                 *)
Spin == main = "hung" /\ UNCHANGED vars

(* The process died of a NullPointerException; Android starts a new one.   *)
Restart ==
    /\ main = "crashed"
    /\ Become({Fresh})

-----------------------------------------------------------------------------
(* The native player *)

Report(type, from, to) ==
    /\ main # "crashed" /\ phase \in from /\ Len(queue) < MaxQueue
    /\ Become({Post([Now EXCEPT !.phase = to], type)})

PlayerOpens == Report("Playing", {"opening"}, "playing")
PlayerEnds == Report("EndReached", {"playing"}, "ended")
PlayerFails == Report("EncounteredError", {"opening", "playing"}, "error")

-----------------------------------------------------------------------------
(* The thread pool: mp.stop(), then mp.setMedia(null) *)

StopTask ==
    /\ main # "crashed" /\ stops > 0 /\ Len(queue) < MaxQueue
    /\ LET t == [Now EXCEPT !.stops = @ - 1, !.clearing = @ + 1, !.phase = "stopped"]
       IN  Become({IF phase = "stopped" THEN t ELSE Post(t, "Stopped")})

ClearTask ==
    /\ main # "crashed" /\ clearing > 0
    /\ Become({SetMedia([Now EXCEPT !.clearing = @ - 1], None)})

-----------------------------------------------------------------------------
UserCall ==
    \/ \E items \in Loads :
           \/ \E position \in 0 .. Len(items) : UserLoad(items, position)
           \/ \E position \in 0 .. Len(items), shuffle \in Shuffles, repeat \in Repeats :
                  LoadLast(items, position, shuffle, repeat)
           \/ UserAppend(items)
           \/ UserInsertNext(items)
    \/ \E m \in Media :
           \/ \E position \in 0 .. Len(list) : UserInsertItem(position, m)
           \/ UserRemoveLocation(m)
    \/ \E start, end \in 0 .. Len(list) : UserMove(start, end)
    \/ \E i \in 0 .. Len(list) - 1 : UserRemove(i) \/ UserPlayIndex(i)
    \/ UserNext \/ UserPrevious \/ UserShuffle
    \/ \E type \in Repeats : UserRepeat(type)
    \/ UserPlay \/ UserPause \/ UserStop
    \/ \E i \in -1 .. Len(list) - 1, m \in Video : ActivityPlays(i, m)
    \/ \E asAudio \in BOOLEAN : ActivityStops(asAudio)

LoopStep == InsertStep \/ InsertDone \/ RemoveStep \/ RemoveDone \/ ExpandStep \/ ExpandDone

HandleEvent == OnPlaying \/ OnPaused \/ OnStopped \/ OnEndReached \/ OnEncounteredError

Player == PlayerOpens \/ PlayerEnds \/ PlayerFails

ThreadPool == StopTask \/ ClearTask

(* The system's own steps: all but the calls of the user interface.        *)
SystemStep ==
    \/ LoopStep \/ HandleEvent \/ Spin \/ Restart
    \/ Player \/ ThreadPool

Next == UserCall \/ SystemStep

Spec == Init /\ [][Next]_vars

-----------------------------------------------------------------------------
(* Properties *)

(* Every field keeps its type; no position falls below -1, and no counter  *)
(* of waiting tasks below 0.                                               *)
TypeOK == Now \in State

(* The loops of insertNext and expand insert at a position that exists,    *)
(* whatever the list listener did to the current index on the way:         *)
(* ArrayList.add would throw otherwise.                                    *)
InsertionsInRange ==
    /\ main = "insert" => at \in 0 .. Len(list)
    /\ main = "expand" => cur \in 0 .. Len(list)

(* What getCurrentMedia returns is what the media player was given: after  *)
(* any sequence of insertions, moves, removals, skips, and late stop tasks *)
(* the current index still designates the media that plays.                *)
CurrentIsPlaying ==
    watched /\ main # "expand" /\ media # None /\ HasCurrentMedia(Now) => Current(Now) = media

(* The two cached neighbours exist or are -1 whenever a media is current.  *)
IndicesInRange ==
    Idle /\ watched /\ HasCurrentMedia(Now) =>
        /\ next \in -1 .. Len(list) - 1
        /\ prev \in -1 .. Len(list) - 1

(* In list order, while a song plays, the cached next index is the one a   *)
(* fresh computation would give: no operation leaves it stale.             *)
NextIsFresh ==
    Idle /\ watched /\ phase = "playing" /\ media \notin Video /\ HasCurrentMedia(Now)
        /\ repeating # "one" /\ ~shuffling => next = NormalIndices(Now).next

(* In shuffle mode the next media, if there is one, is neither the one     *)
(* that plays nor one that was played since the last reshuffle.            *)
ShuffleNeverRepeats ==
    Idle /\ watched /\ shuffling /\ repeating # "one" /\ phase = "playing"
        /\ media \notin Video /\ HasCurrentMedia(Now) /\ next # -1 =>
    next # cur /\ next \notin Elements(previous)

(* An event of an earlier media never reaches the handler while a song is  *)
(* the player's media: an end reached late cannot skip the song.           *)
SongsGetTheirOwnEvents ==
    media \in Media \ Video => \A k \in DOMAIN queue : ~queue[k].stale

=============================================================================
