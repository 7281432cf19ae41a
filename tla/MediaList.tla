------------------------------ MODULE MediaList ------------------------------
(***************************************************************************)
(* A list of media of libvlc and its Java copy (libvlc/MediaList.java,     *)
(* libvlc/VLCObject.java, libvlcjni-vlcobject.c, libvlcjni-medialist.c).   *)
(*                                                                         *)
(* A native thread changes the list and sends an event, still under the    *)
(* native lock of the list.  The callback updates the Java array inside    *)
(* the object's monitor and posts the event to the main thread.  The       *)
(* client holds references to media and to the list.  Release takes three  *)
(* steps: the count and the listener in the monitor, the detaching of the  *)
(* callbacks outside, the end of the native object in the monitor again.   *)
(*                                                                         *)
(* Position i of the program is i + 1 here.  A media stands for its Java   *)
(* object and for what it wraps; one that nothing reaches any more is used *)
(* again for the next object.                                              *)
(***************************************************************************)
EXTENDS Integers, Sequences, FiniteSets, SequencesExt

CONSTANTS
    Media, None,  \* the objects, and an empty slot
    MaxQueue,     \* bound on the events that wait for the main thread
    MaxHeld,      \* bound on the client's references to one media
    MaxOwners     \* bound on the references to the list

ASSUME NoneAssumption == None \notin Media
ASSUME BoundsAssumption == MaxQueue \in Nat /\ MaxHeld \in Nat /\ MaxOwners \in Nat \ {0}

VARIABLES
    native,  \* the list of libvlc
    change,  \* the change whose event was not dispatched yet
    array,   \* mMediaArray: more slots than there are media
    count,   \* mCount
    owners,  \* mNativeRefCount of the list
    stage,   \* how far the last release() is
    refs,    \* mNativeRefCount of each media
    held,    \* history: how many of them the client must still give back
    queue,   \* the events posted to mHandler
    seen     \* the list the client makes of the events it handled

listVars == <<native, change, array, count, owners, stage, refs, held, queue, seen>>

Events == [kind : {"added", "deleted", "end"}, at : Nat, media : Media \cup {None}]
NoChange == [kind |-> "none", at |-> 0, media |-> None, sent |-> FALSE]
Stages == {"live", "cleared", "detached", "freed"}

Listed == SubSeq(array, 1, count)

Fresh(m) ==
    /\ m \notin ToSet(native) \cup ToSet(array) \cup ToSet(seen)
    /\ refs[m] = 0 /\ held[m] = 0
    /\ \A i \in DOMAIN queue : queue[i].media # m

(* The list as it is when the constructor has copied it; init() makes one  *)
(* slot for each media.                                                    *)
ListInit ==
    /\ native \in {<<>>} \cup {<<m>> : m \in Media}
    /\ change = NoChange
    /\ array = native /\ count = Len(native)
    /\ owners = 1 /\ stage = "live"
    /\ refs = [m \in Media |-> IF m \in ToSet(native) THEN 1 ELSE 0]
    /\ held = [m \in Media |-> 0]
    /\ queue = <<>> /\ seen = native

-----------------------------------------------------------------------------
(* The native thread *)

Changed(kind, i, m) == change' = [kind |-> kind, at |-> i, media |-> m, sent |-> FALSE]

MayChange == change = NoChange /\ stage # "freed" /\ Len(queue) < MaxQueue

NativeInsert ==
    /\ MayChange
    /\ \E m \in Media, i \in 1 .. Len(native) + 1 :
         /\ Fresh(m)
         /\ native' = InsertAt(native, i, m) /\ Changed("added", i, m)
    /\ UNCHANGED <<array, count, owners, stage, refs, held, queue, seen>>

NativeDelete ==
    /\ MayChange
    /\ \E i \in DOMAIN native :
         native' = RemoveAt(native, i) /\ Changed("deleted", i, native[i])
    /\ UNCHANGED <<array, count, owners, stage, refs, held, queue, seen>>

NativeEnd ==
    /\ MayChange /\ Changed("end", 0, None)
    /\ UNCHANGED <<native, array, count, owners, stage, refs, held, queue, seen>>

(* libvlc_event_send calls VLCJniObject_eventCallback, if it is attached.  *)
SendEvent ==
    /\ change # NoChange /\ ~change.sent
    /\ change' = IF stage \in {"live", "cleared"} THEN [change EXCEPT !.sent = TRUE]
                 ELSE NoChange
    /\ UNCHANGED <<native, array, count, owners, stage, refs, held, queue, seen>>

(* Where release() keeps the monitor from one step to the next: "detach    *)
(* events when not synchronized since onEvent is executed synchronized".   *)
KeepsMonitorMeanwhile == {"cleared"}  \* MUTANT: events detached in the monitor

KeepsMonitor == {}

Dispatching == change.sent /\ stage \notin KeepsMonitor

Post(kind) ==
    queue' = Append(queue, [kind |-> kind, at |-> change.at, media |-> change.media])

(* insertMediaFromEvent: slots from i on move up by one, the one past the  *)
(* last media, which may not exist yet, included.                          *)
ShiftedFrom(slots, n, i, m) ==
    LET b == IF Len(slots) < n THEN Append(slots, None) ELSE slots
    IN  SubSeq(b, 1, i - 1) \o <<m>> \o SubSeq(b, i, n) \o SubSeq(b, n + 2, Len(b))

InsertedOver(slots, n, i, m) == [slots EXCEPT ![i] = m] \o <<None>>  \* MUTANT: no shift

Inserted(slots, n, i, m) == ShiftedFrom(slots, n, i, m)

(* removeMediaFromEvent: those behind i move down, the last slot stays.    *)
Removed(slots, n, i) ==
    SubSeq(slots, 1, i - 1) \o SubSeq(slots, i + 1, n + 1) \o SubSeq(slots, n + 1, Len(slots))

DispatchAdded ==
    /\ Dispatching /\ change.kind = "added" /\ owners > 0
    /\ count' = count + 1
    /\ array' = Inserted(array, count', change.at, change.media)
    /\ refs' = [refs EXCEPT ![change.media] = 1]
    /\ Post("added") /\ change' = NoChange
    /\ UNCHANGED <<native, owners, stage, held, seen>>

DispatchDeletedKept ==  \* MUTANT: the reference of the list is not given back
    /\ Dispatching /\ change.kind = "deleted" /\ owners > 0
    /\ count' = count - 1
    /\ array' = Removed(array, count', change.at)
    /\ Post("deleted") /\ change' = NoChange
    /\ UNCHANGED <<native, owners, stage, refs, held, seen>>

ReleasedAgain(m) == refs[m] - 1  \* MUTANT: a release of what is released counts

Released(m) == IF refs[m] > 0 THEN refs[m] - 1 ELSE 0

DispatchDeleted ==
    /\ Dispatching /\ change.kind = "deleted" /\ owners > 0
    /\ LET m == array[change.at] IN
         /\ refs' = [refs EXCEPT ![m] = Released(m)]
         /\ queue' = Append(queue, [kind |-> "deleted", at |-> change.at, media |-> m])
    /\ count' = count - 1
    /\ array' = Removed(array, count', change.at)
    /\ change' = NoChange
    /\ UNCHANGED <<native, owners, stage, held, seen>>

DispatchEnd ==
    /\ Dispatching /\ change.kind = "end" /\ owners > 0
    /\ Post("end") /\ change' = NoChange
    /\ UNCHANGED <<native, array, count, owners, stage, refs, held, seen>>

(* isReleased: the event is dropped.                                       *)
DispatchNothing ==
    /\ Dispatching /\ owners = 0
    /\ change' = NoChange
    /\ UNCHANGED <<native, array, count, owners, stage, refs, held, queue, seen>>

Dispatch == DispatchAdded \/ DispatchDeleted \/ DispatchEnd \/ DispatchNothing

-----------------------------------------------------------------------------
(* The client *)

Replayed(list, e) ==
    CASE e.kind = "added"   -> InsertAt(list, e.at, e.media)
      [] e.kind = "deleted" -> RemoveAt(list, e.at)
      [] e.kind = "end"     -> list

(* The listener hears of an event.  "You should call Media#retain() and    *)
(* check the return value": it may keep the media, if that is alive.       *)
OnEvent ==
    /\ queue # <<>>
    /\ seen' = Replayed(seen, Head(queue)) /\ queue' = Tail(queue)
    /\ \/ UNCHANGED <<refs, held>>
       \/ LET m == Head(queue).media IN
            /\ m # None /\ refs[m] > 0 /\ held[m] < MaxHeld
            /\ refs' = [refs EXCEPT ![m] = @ + 1] /\ held' = [held EXCEPT ![m] = @ + 1]
    /\ UNCHANGED <<native, change, array, count, owners, stage>>

(* MediaList.getMediaAt does not look at what retain() returns.            *)
GetMediaAt ==
    /\ owners > 0
    /\ \E i \in 1 .. count :
         LET m == array[i] IN
         /\ held[m] < MaxHeld
         /\ refs' = [refs EXCEPT ![m] = IF @ > 0 THEN @ + 1 ELSE @]
         /\ held' = [held EXCEPT ![m] = @ + 1]
    /\ UNCHANGED <<native, change, array, count, owners, stage, queue, seen>>

ReleaseMedia ==
    /\ \E m \in Media :
         /\ held[m] > 0 /\ held' = [held EXCEPT ![m] = @ - 1]
         /\ refs' = [refs EXCEPT ![m] = Released(m)]
    /\ UNCHANGED <<native, change, array, count, owners, stage, queue, seen>>

(* Media.subItems() gives one more reference to the list.                  *)
RetainList ==
    /\ owners > 0 /\ owners < MaxOwners /\ owners' = owners + 1
    /\ UNCHANGED <<native, change, array, count, stage, refs, held, queue, seen>>

ReleaseListOnly ==  \* MUTANT: the messages that wait are not removed
    /\ owners > 0 /\ owners' = owners - 1
    /\ stage' = IF owners' = 0 THEN "cleared" ELSE "live"
    /\ UNCHANGED <<native, change, array, count, refs, held, queue, seen>>

(* release, in the monitor: the last one forgets the listener and removes  *)
(* the messages that wait.                                                 *)
ReleaseList ==
    /\ owners > 0 /\ owners' = owners - 1
    /\ stage' = IF owners' = 0 THEN "cleared" ELSE "live"
    /\ queue' = IF owners' = 0 THEN <<>> ELSE queue
    /\ UNCHANGED <<native, change, array, count, refs, held, seen>>

DetachAtOnce ==  \* MUTANT: detaching does not wait for the callback
    /\ stage = "cleared" /\ stage' = "detached"
    /\ UNCHANGED <<native, change, array, count, owners, refs, held, queue, seen>>

(* nativeDetachEvents: libvlc_event_detach waits for a callback that runs. *)
Detach ==
    /\ stage = "cleared" /\ ~change.sent
    /\ stage' = "detached"
    /\ UNCHANGED <<native, change, array, count, owners, refs, held, queue, seen>>

(* onReleaseNative: every slot that is not empty is released.              *)
FreeNative ==
    /\ stage = "detached" /\ stage' = "freed"
    /\ refs' = [m \in Media |->
                  LET slots == Cardinality({i \in DOMAIN array : array[i] = m})
                  IN  IF refs[m] > slots THEN refs[m] - slots ELSE 0]
    /\ UNCHANGED <<native, change, array, count, owners, held, queue, seen>>

-----------------------------------------------------------------------------
NativeStep == SendEvent \/ Dispatch
ReleaseStep == Detach \/ FreeNative

ListNext ==
    \/ NativeInsert \/ NativeDelete \/ NativeEnd \/ NativeStep
    \/ OnEvent \/ GetMediaAt \/ ReleaseMedia
    \/ RetainList \/ ReleaseList \/ ReleaseStep

ListSpec == ListInit /\ [][ListNext]_listVars

(* The native thread ends a callback it began, the main thread ends a      *)
(* release it began; nobody need change anything.                          *)
ListFairSpec ==
    ListSpec /\ WF_listVars(NativeStep) /\ SF_listVars(Detach) /\ WF_listVars(FreeNative)

-----------------------------------------------------------------------------
(* Properties *)

ListTypeOK ==
    /\ native \in Seq(Media) /\ array \in Seq(Media \cup {None})
    /\ count \in 0 .. Len(array)
    /\ change = NoChange \/ change \in [kind : {"added", "deleted", "end"}, at : Nat,
                                        media : Media \cup {None}, sent : BOOLEAN]
    /\ owners \in 0 .. MaxOwners /\ stage \in Stages
    /\ refs \in [Media -> Nat] /\ held \in [Media -> Nat]
    /\ queue \in Seq(Events) /\ seen \in Seq(Media)

(* The array that getMediaAt and getCount read is the native list, as soon *)
(* as the event of the last change was dispatched, although only events    *)
(* and shifts of slots keep it so.                                         *)
CacheMirrorsList == owners > 0 /\ change = NoChange => Listed = native

(* As long as the list is alive, each media is held once by the list, if   *)
(* it is in it, and as often as the client must give it back: getMediaAt   *)
(* never returns a media that is gone.                                     *)
CountsAreHeld ==
    owners > 0 => \A m \in Media : refs[m] = held[m] + IF m \in ToSet(Listed) THEN 1 ELSE 0

(* The list the client makes of the events, once it has handled those that *)
(* wait, is the array: no event is lost, repeated or out of place.         *)
EventsTellTheList == owners > 0 => FoldLeft(Replayed, seen, queue) = Listed

(* After the last release() nothing is delivered any more, also when a     *)
(* callback was running, or messages waited, when it came.                 *)
QuietAfterRelease == owners = 0 => queue = <<>>

(* A callback that runs finds the native object and its owner.             *)
CallbackHasObject == change.sent => stage \notin {"detached", "freed"}

(* When the list is gone so are all the references it had.                 *)
NothingLeaks == stage = "freed" => \A m \in Media : refs[m] <= held[m]

(* release() comes to its end, also when a callback runs meanwhile.        *)
ReleaseEnds == owners = 0 ~> stage = "freed"

(* MediaBrowser.browse: "media can be associated with a medialist, so      *)
(* increment ref count in order to don't clean it with the medialist": a   *)
(* media the client holds stays alive.                                     *)
RetainedStaysAlive == \A m \in Media : held[m] > 0 => refs[m] > 0
=============================================================================
