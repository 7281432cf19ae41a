-------------------------- MODULE PlaybackNotification --------------------------
(***************************************************************************)
(* The notification of the playback service and the metadata of its media  *)
(* session (PlaybackService.java).                                         *)
(*                                                                         *)
(* The main thread asks a single-thread executor to gather metadata, to    *)
(* show a notification made of the session's metadata, or to hide it.  The *)
(* metadata gathered are set by a message to the main thread; a flag makes *)
(* a notification wait for them.                                           *)
(***************************************************************************)
EXTENDS Integers, Sequences

CONSTANTS
    MaxMeta,  \* bound on the updates of the metadata
    MaxTasks  \* bound on the tasks that wait for the executor

ASSUME TasksAssumption == MaxMeta \in Nat /\ MaxTasks \in Nat \ {0}

VARIABLES
    asked,       \* the updates asked for
    tasks,       \* the tasks of mExecutorService, the one that runs first
    executor,    \* what its thread does
    updateMeta,  \* mUpdateMeta
    overlap,     \* history: the last update began before the one before was set
    setters,     \* the messages that set metadata on the main thread
    metadata,    \* what the media session has, 0 for nothing
    session,     \* mMediaSession is there
    notification,  \* what is shown
    crashed      \* a null pointer has ended the process

noteVars == <<asked, tasks, executor, updateMeta, overlap, setters, metadata, session,
              notification, crashed>>

Hidden == [there |-> FALSE, of |-> 0, metadata |-> 0, overlap |-> FALSE]

NoteInit ==
    /\ asked = 0 /\ tasks = <<>> /\ executor = "free"
    /\ updateMeta = FALSE /\ overlap = FALSE /\ setters = <<>> /\ metadata = 0
    /\ session = TRUE /\ notification = Hidden /\ crashed = FALSE

Execute(kind, of) ==
    /\ ~crashed /\ Len(tasks) < MaxTasks
    /\ tasks' = Append(tasks, [kind |-> kind, of |-> of])

-----------------------------------------------------------------------------
(* The main thread *)

UpdateMetadata ==
    /\ session /\ asked < MaxMeta
    /\ asked' = asked + 1 /\ Execute("update", asked')
    /\ UNCHANGED <<executor, updateMeta, overlap, setters, metadata, session,
                   notification, crashed>>

(* A current media has had its metadata updated before.                    *)
ShowNotification ==
    /\ session /\ asked > 0
    /\ Execute("show", asked)
    /\ UNCHANGED <<asked, executor, updateMeta, overlap, setters, metadata, session,
                   notification, crashed>>

HideNotification ==
    /\ session
    /\ Execute("hide", asked)
    /\ UNCHANGED <<asked, executor, updateMeta, overlap, setters, metadata, session,
                   notification, crashed>>

(* onDestroy: stop() hides the notification, unless it was stopped before; *)
(* the session is released.                                                *)
DestroyService ==
    /\ session /\ session' = FALSE
    /\ \/ Execute("hide", asked)
       \/ ~crashed /\ UNCHANGED tasks
    /\ UNCHANGED <<asked, executor, updateMeta, overlap, setters, metadata,
                   notification, crashed>>

SetSilently ==  \* MUTANT: nobody is notified
    /\ ~crashed /\ setters # <<>> /\ setters' = Tail(setters)
    /\ IF session THEN metadata' = Head(setters) /\ updateMeta' = FALSE /\ UNCHANGED crashed
       ELSE crashed' = TRUE /\ UNCHANGED <<metadata, updateMeta>>
    /\ UNCHANGED <<executor, asked, tasks, overlap, session, notification>>

(* The runnable that the update posts: it does not expect the session to   *)
(* be released meanwhile.                                                  *)
SetMetadata ==
    /\ ~crashed /\ setters # <<>> /\ setters' = Tail(setters)
    /\ IF session THEN
         /\ metadata' = Head(setters) /\ updateMeta' = FALSE /\ UNCHANGED crashed
         /\ executor' = IF executor = "asleep" THEN "woken" ELSE executor
       ELSE crashed' = TRUE /\ UNCHANGED <<metadata, updateMeta, executor>>
    /\ UNCHANGED <<asked, tasks, overlap, session, notification>>

-----------------------------------------------------------------------------
(* The executor *)

Runs(kind) == ~crashed /\ tasks # <<>> /\ Head(tasks).kind = kind
Done == tasks' = Tail(tasks) /\ executor' = "free"

BeginUpdate ==
    /\ Runs("update") /\ executor = "free" /\ executor' = "updating"
    /\ updateMeta' = TRUE /\ overlap' = (setters # <<>>)
    /\ UNCHANGED <<asked, tasks, setters, metadata, session, notification,
                   crashed>>

EndUpdate ==
    /\ Runs("update") /\ executor = "updating" /\ Done
    /\ setters' = Append(setters, Head(tasks).of)
    /\ UNCHANGED <<asked, updateMeta, overlap, metadata, session, notification,
                   crashed>>

WaitForMetadata ==
    /\ Runs("show") /\ executor \in {"free", "woken"} /\ updateMeta
    /\ executor' = "asleep"
    /\ UNCHANGED <<asked, tasks, updateMeta, overlap, setters, metadata, session,
                   notification, crashed>>

ShowUnawaited ==  \* MUTANT: the flag is not looked at
    /\ Runs("show") /\ executor \in {"free", "woken"}
    /\ IF session
       THEN notification' = [there |-> TRUE, of |-> Head(tasks).of, metadata |-> metadata,
                      overlap |-> overlap] /\ Done /\ UNCHANGED crashed
       ELSE crashed' = TRUE /\ UNCHANGED <<notification, tasks, executor>>
    /\ UNCHANGED <<asked, updateMeta, overlap, setters, metadata, session>>

(* The session may have been released before this task comes to it.        *)
Show ==
    /\ Runs("show") /\ executor \in {"free", "woken"} /\ ~updateMeta
    /\ IF session
       THEN notification' = [there |-> TRUE, of |-> Head(tasks).of, metadata |-> metadata,
                      overlap |-> overlap] /\ Done /\ UNCHANGED crashed
       ELSE crashed' = TRUE /\ UNCHANGED <<notification, tasks, executor>>
    /\ UNCHANGED <<asked, updateMeta, overlap, setters, metadata, session>>

Hide ==
    /\ Runs("hide") /\ executor = "free" /\ Done /\ notification' = Hidden
    /\ UNCHANGED <<asked, updateMeta, overlap, setters, metadata, session,
                   crashed>>

-----------------------------------------------------------------------------
ExecutorStep == BeginUpdate \/ EndUpdate \/ WaitForMetadata \/ Show \/ Hide

NoteNext ==
    \/ UpdateMetadata \/ ShowNotification \/ HideNotification \/ DestroyService \/ SetMetadata
    \/ ExecutorStep

NoteSpec == NoteInit /\ [][NoteNext]_noteVars

-----------------------------------------------------------------------------
(* Properties *)

NoteTypeOK ==
    /\ asked \in 0 .. MaxMeta /\ metadata \in 0 .. MaxMeta
    /\ tasks \in Seq([kind : {"update", "show", "hide"}, of : 0 .. MaxMeta])
    /\ executor \in {"free", "updating", "asleep", "woken"} /\ setters \in Seq(0 .. MaxMeta)
    /\ notification \in [there : BOOLEAN, of : 0 .. MaxMeta, metadata : 0 .. MaxMeta,
                         overlap : BOOLEAN]
    /\ updateMeta \in BOOLEAN /\ overlap \in BOOLEAN /\ session \in BOOLEAN
    /\ crashed \in BOOLEAN

(* A notification shows the metadata of the media it was asked for, which  *)
(* are set by a message later than it was asked: unless two updates follow *)
(* each other so fast that the end of one is taken for that of the other.  *)
NotificationIsFresh ==
    notification.there /\ ~notification.overlap => notification.metadata = notification.of

(* The notification that waits holds up the only thread that could update  *)
(* metadata; it comes to its end all the same.                             *)
WaitEnds == executor = "asleep" ~> executor # "asleep" \/ crashed
=============================================================================
