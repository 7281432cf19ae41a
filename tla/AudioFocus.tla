------------------------------ MODULE AudioFocus ------------------------------
(***************************************************************************)
(* The audio focus and the wake lock of the playback service               *)
(* (PlaybackService.java).                                                 *)
(*                                                                         *)
(* The system takes the focus for a call, for a notification that only     *)
(* lowers the volume, or for good, and gives it back; what it says, and    *)
(* what the player says, comes to the main thread as messages.  Commands   *)
(* to the player take effect later, and stop() runs on another thread.     *)
(* The media are songs that can be paused.                                 *)
(***************************************************************************)
EXTENDS Integers, Sequences

CONSTANT MaxMessages  \* bound on the messages of each kind that wait

ASSUME MessagesAssumption == MaxMessages \in Nat \ {0}

VARIABLES
    player,         \* the state of libvlc's player
    stopTask,       \* mp.stop() waits on the pool
    listening,      \* mMediaPlayer has an event listener
    events,         \* the events posted by the player
    stopped,        \* mStopped
    current,        \* hasCurrentMedia()
    wake,           \* mWakeLock.isHeld()
    hasFocus,       \* mHasAudioFocus
    system,         \* what the system thinks of our focus
    changes,        \* the focus changes that wait
    lossTransient,  \* mLossTransient
    wasPlaying,     \* wasPlaying, of the focus listener
    interrupted     \* history: a call paused the song, and nobody touched it since

focusVars == <<player, stopTask, listening, events, stopped, current, wake, hasFocus,
               system, changes, lossTransient, wasPlaying, interrupted>>
lossVars == <<lossTransient, wasPlaying, interrupted>>

FocusInit ==
    /\ player = "none" /\ stopTask = FALSE /\ listening = FALSE /\ events = <<>>
    /\ stopped = TRUE /\ current = FALSE /\ wake = FALSE
    /\ hasFocus = FALSE /\ system = "none" /\ changes = <<>>
    /\ lossTransient = FALSE /\ wasPlaying = FALSE /\ interrupted = FALSE

-----------------------------------------------------------------------------
(* The player *)

IsPlaying == player \in {"playing", "pausing"}

(* play() and isPlaying() hand on to libvlc: what that plays, and when it  *)
(* counts as playing, is external.  It plays what is paused or over, and   *)
(* pauses only what plays.                                                 *)
Played == IF player \in {"paused", "pausing", "ended"} THEN "starting" ELSE player
PausedSoon == IF player = "playing" THEN "pausing" ELSE player

Post(event) ==
    /\ Len(events) < MaxMessages
    /\ events' = IF listening THEN Append(events, event) ELSE events

PlayerSteps(from, to, event) ==
    /\ player = from /\ player' = to /\ Post(event)
    /\ UNCHANGED <<stopTask, listening, stopped, current, wake, hasFocus, system, changes,
                   lossVars>>

Starts == PlayerSteps("starting", "playing", "Playing")
Pauses == PlayerSteps("pausing", "paused", "Paused")
Ends == PlayerSteps("playing", "ended", "EndReached")
Fails == PlayerSteps("starting", "ended", "EncounteredError")

(* The task of stop(): the player may have another song by now.            *)
RunStopTask ==
    /\ stopTask /\ stopTask' = FALSE /\ player' = "none" /\ interrupted' = FALSE
    /\ IF player = "none" THEN UNCHANGED events ELSE Post("Stopped")
    /\ UNCHANGED <<listening, stopped, current, wake, hasFocus, system, changes,
                   lossTransient, wasPlaying>>

-----------------------------------------------------------------------------
(* The system *)

SystemSays(from, to, change) ==
    /\ system \in from /\ Len(changes) < MaxMessages
    /\ system' = to /\ changes' = Append(changes, change)
    /\ UNCHANGED <<player, stopTask, listening, events, stopped, current, wake, hasFocus, lossVars>>

Loss == SystemSays({"ours", "call", "notification"}, "lost", "LOSS")
Call == SystemSays({"ours", "notification"}, "call", "LOSS_TRANSIENT")
Notification == SystemSays({"ours"}, "notification", "CAN_DUCK")
CallEnds == SystemSays({"call"}, "ours", "GAIN")
NotificationEnds == SystemSays({"notification"}, "ours", "GAIN after CAN_DUCK")

(* requestAudioFocus may be refused; what it says comes back at once.  A   *)
(* focus that was abandoned hears of nothing any more.                     *)
ChangeAudioFocus(acquire) ==
    IF acquire THEN
      \/ hasFocus /\ UNCHANGED <<hasFocus, system>>
      \/ ~hasFocus /\ hasFocus' = TRUE /\ system' = "ours"
      \/ ~hasFocus /\ UNCHANGED <<hasFocus, system>>
    ELSE hasFocus' = FALSE /\ system' = IF hasFocus THEN "none" ELSE system

-----------------------------------------------------------------------------
(* The focus listener *)

Heard(change) == changes # <<>> /\ Head(changes) = change /\ changes' = Tail(changes)
Registered == system # "none"

DropChange ==
    /\ changes # <<>> /\ ~Registered /\ changes' = Tail(changes)
    /\ UNCHANGED <<player, stopTask, listening, events, stopped, current, wake, hasFocus,
                   system, lossVars>>

OnLoss ==
    /\ Registered /\ Heard("LOSS")
    /\ ChangeAudioFocus(FALSE) /\ player' = PausedSoon /\ interrupted' = FALSE
    /\ UNCHANGED <<stopTask, listening, events, stopped, current, wake, lossTransient, wasPlaying>>

OnCallOnce ==  \* MUTANT: a loss on top of an earlier one keeps what that one saw
    /\ Registered /\ Heard("LOSS_TRANSIENT")
    /\ lossTransient' = TRUE /\ player' = PausedSoon
    /\ wasPlaying' = IF lossTransient THEN wasPlaying ELSE IsPlaying
    /\ interrupted' = (player = "playing")
    /\ UNCHANGED <<stopTask, listening, events, stopped, current, wake, hasFocus, system>>

OnCall ==
    /\ Registered /\ Heard("LOSS_TRANSIENT")
    /\ lossTransient' = TRUE /\ wasPlaying' = IsPlaying /\ player' = PausedSoon
    /\ interrupted' = (player = "playing")
    /\ UNCHANGED <<stopTask, listening, events, stopped, current, wake, hasFocus, system>>

OnDuck ==
    /\ Registered /\ Heard("CAN_DUCK")
    /\ UNCHANGED <<player, stopTask, listening, events, stopped, current, wake, hasFocus,
                   system, lossVars>>

(* "Resume playback after a call" is set.                                  *)
OnGain ==
    /\ Registered /\ (Heard("GAIN") \/ Heard("GAIN after CAN_DUCK"))
    /\ player' = IF lossTransient /\ wasPlaying THEN Played ELSE player
    /\ lossTransient' = FALSE /\ interrupted' = FALSE
    /\ UNCHANGED <<stopTask, listening, events, stopped, current, wake, hasFocus, system,
                   wasPlaying>>

-----------------------------------------------------------------------------
(* What the user does, and where the playlist goes by itself *)

(* setEventListener removes the messages of the listener before.           *)
DropEvents == events' = <<>>

UserPlays ==
    /\ current /\ player' = Played /\ interrupted' = FALSE
    /\ UNCHANGED <<stopTask, listening, events, stopped, current, wake, hasFocus, system,
                   changes, lossTransient, wasPlaying>>

UserPauses ==
    /\ player' = PausedSoon /\ interrupted' = FALSE
    /\ UNCHANGED <<stopTask, listening, events, stopped, current, wake, hasFocus, system,
                   changes, lossTransient, wasPlaying>>

(* playIndex                                                               *)
PlaySong ==
    /\ ChangeAudioFocus(TRUE) /\ listening' = TRUE /\ DropEvents
    /\ player' = "starting" /\ current' = TRUE /\ interrupted' = FALSE
    /\ UNCHANGED <<stopTask, stopped, changes, lossTransient, wasPlaying>>

UserLoads == PlaySong /\ UNCHANGED wake

(* Nothing happens when it was stopped before, also to the focus.          *)
OnPlaybackStopped ==
    IF stopped THEN UNCHANGED <<stopped, current, hasFocus, system>>
    ELSE stopped' = TRUE /\ current' = FALSE /\ ChangeAudioFocus(FALSE)

ReleaseWake == wake' = (stopped /\ wake)

(* stop(), when the player has a media; one task waits at a time.          *)
StopPlayback ==
    /\ ~stopTask /\ stopTask' = TRUE /\ listening' = FALSE /\ DropEvents
    /\ OnPlaybackStopped /\ interrupted' = FALSE
    /\ UNCHANGED <<player, changes, lossTransient, wasPlaying>>

UserStops == listening /\ StopPlayback /\ ReleaseWake

-----------------------------------------------------------------------------
(* The player's listener *)

Arrived(event) == events # <<>> /\ Head(events) = event

OnPlaying ==
    /\ Arrived("Playing") /\ events' = Tail(events)
    /\ stopped' = FALSE /\ ChangeAudioFocus(TRUE) /\ wake' = TRUE
    /\ UNCHANGED <<player, stopTask, listening, current, changes, lossVars>>

OnPausedKeepsLock ==  \* MUTANT: the wake lock is kept during a pause
    /\ Arrived("Paused") /\ events' = Tail(events)
    /\ stopped' = FALSE
    /\ UNCHANGED <<player, stopTask, listening, current, wake, hasFocus, system, changes, lossVars>>

OnPaused ==
    /\ Arrived("Paused") /\ events' = Tail(events)
    /\ stopped' = FALSE /\ wake' = FALSE
    /\ UNCHANGED <<player, stopTask, listening, current, hasFocus, system, changes, lossVars>>

OnStopped ==
    /\ Arrived("Stopped") /\ events' = Tail(events)
    /\ OnPlaybackStopped /\ ReleaseWake
    /\ UNCHANGED <<player, stopTask, listening, changes, lossVars>>

(* next(): another song, or the end of the list                            *)
OnEndReached ==
    /\ Arrived("EndReached")
    /\ \/ PlaySong /\ UNCHANGED wake
       \/ StopPlayback /\ ReleaseWake

OnError ==
    /\ Arrived("EncounteredError") /\ wake' = FALSE
    /\ PlaySong \/ StopPlayback

-----------------------------------------------------------------------------
FocusNext ==
    \/ Starts \/ Pauses \/ Ends \/ Fails \/ RunStopTask
    \/ Loss \/ Call \/ Notification \/ CallEnds \/ NotificationEnds
    \/ DropChange \/ OnLoss \/ OnCall \/ OnDuck \/ OnGain
    \/ UserPlays \/ UserPauses \/ UserLoads \/ UserStops
    \/ OnPlaying \/ OnPaused \/ OnStopped \/ OnEndReached \/ OnError

FocusSpec == FocusInit /\ [][FocusNext]_focusVars

-----------------------------------------------------------------------------
(* Properties *)

PlayerEvents == {"Playing", "Paused", "Stopped", "EndReached", "EncounteredError"}
FocusChanges == {"LOSS", "LOSS_TRANSIENT", "CAN_DUCK", "GAIN", "GAIN after CAN_DUCK"}

FocusTypeOK ==
    /\ player \in {"none", "starting", "playing", "pausing", "paused", "ended"}
    /\ system \in {"none", "ours", "call", "notification", "lost"}
    /\ events \in Seq(PlayerEvents) /\ changes \in Seq(FocusChanges)
    /\ \A flag \in {stopTask, listening, stopped, current, wake, hasFocus, lossTransient,
                    wasPlaying, interrupted} : flag \in BOOLEAN

(* A song that a call has paused is resumed by the end of the call, unless *)
(* somebody touched the player: whatever losses came on top of each other. *)
CallIsRemembered == interrupted => lossTransient /\ wasPlaying /\ hasFocus

(* With no event under way, the wake lock is held exactly while a song     *)
(* plays or is about to, whatever events a new listener has dropped.       *)
WakeLockFollows ==
    events = <<>> /\ ~stopTask =>
      /\ player = "playing" => wake
      /\ player \in {"none", "paused"} => ~wake

(* strings.xml: "Resume playback after a call", "Stay in pause otherwise": *)
(* the end of a notification starts nothing.                               *)
OnlyCallsResume ==
    [][changes # <<>> /\ Head(changes) = "GAIN after CAN_DUCK" /\ changes' = Tail(changes)
         => UNCHANGED player]_focusVars
=============================================================================
