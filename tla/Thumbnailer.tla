----------------------------- MODULE Thumbnailer -----------------------------
(***************************************************************************)
(* A picture of the middle of a media (src/libvlc/jni/thumbnailer.c).      *)
(*                                                                         *)
(* nativeGetThumbnail plays the media in a player of its own, whose video  *)
(* output calls back into the same structure: setup when it opens, display *)
(* for each frame; the input thread reports the position.  The caller      *)
(* waits on a condition variable, with two deadlines, stops the player and *)
(* collects the picture.                                                   *)
(*                                                                         *)
(* What runs under doneMutex is one step; a wait is a step enabled by its  *)
(* condition or by its deadline, so that wake-ups without a cause change   *)
(* nothing.  The player is libvlc's: stop() returns when no callback runs  *)
(* any more.                                                               *)
(***************************************************************************)
EXTENDS Integers

CONSTANTS
    MaxFrames,  \* bound on the frames displayed
    MaxSetups   \* bound on the openings of the video output

ASSUME BoundsAssumption == MaxFrames \in Nat /\ MaxSetups \in Nat

VARIABLES
    state,    \* sys->state, the flags that are set
    frame,    \* sys->frameData: none, or how much of it is filled
    vout,     \* where the thread of the video output is
    caller,   \* where the caller is
    clock,    \* the deadlines that have passed
    picture,  \* the byte array returned
    frames,   \* the number of frames displayed
    setups    \* the number of openings of the video output

vars == <<state, frame, vout, caller, clock, picture, frames, setups>>

Flags == {"SEEKED", "VOUT", "DONE"}
Fillings == {"none", "blank", "half", "whole"}

Init ==
    /\ state = {} /\ frame = "none" /\ vout = "closed"
    /\ caller = "await VOUT" /\ clock = 0 /\ picture = "none"
    /\ frames = 0 /\ setups = 0

Playing == caller \in {"await VOUT", "await DONE", "stop"}

-----------------------------------------------------------------------------
(* Callbacks of the player *)

(* thumbnailer_setup: the dimensions are fit and the memory is there, or   *)
(* the caller is told that it is over.                                     *)
Setup ==
    /\ Playing /\ vout = "closed" /\ setups < MaxSetups
    /\ setups' = setups + 1
    /\ \/ state' = state \cup {"VOUT"} /\ vout' = "open"
       \/ state' = state \cup {"DONE"} /\ UNCHANGED vout
    /\ UNCHANGED <<frame, caller, clock, picture, frames>>

(* thumbnailer_event, with a position past the middle.                     *)
PositionChanged ==
    /\ Playing
    /\ state' = state \cup {"SEEKED"}
    /\ UNCHANGED <<frame, vout, caller, clock, picture, frames, setups>>

(* thumbnailer_display: the test, with the mutex; then, without it, the    *)
(* allocation, which forgets the frame there was, and the copy, line by    *)
(* line; then the signal.                                                  *)
DisplayTest ==
    /\ Playing /\ vout = "open" /\ frames < MaxFrames
    /\ frames' = frames + 1
    /\ vout' = IF {"SEEKED", "VOUT"} \subseteq state THEN "allocate" ELSE "open"
    /\ UNCHANGED <<state, frame, caller, clock, picture, setups>>

Allocate ==
    /\ vout = "allocate"
    /\ \/ frame' = "blank" /\ vout' = "copy"
       \/ frame' = "none" /\ vout' = "signal"
    /\ UNCHANGED <<state, caller, clock, picture, frames, setups>>

Copy ==
    /\ vout = "copy"
    /\ \/ frame = "blank" /\ frame' = "half" /\ UNCHANGED vout
       \/ frame = "half" /\ frame' = "whole" /\ vout' = "signal"
    /\ UNCHANGED <<state, caller, clock, picture, frames, setups>>

SignalDone ==
    /\ vout = "signal"
    /\ state' = state \cup {"DONE"} /\ vout' = "open"
    /\ UNCHANGED <<frame, caller, clock, picture, frames, setups>>

-----------------------------------------------------------------------------
(* The caller *)

(* Three seconds pass, and seven more.                                     *)
Tick ==
    /\ caller \in {"await VOUT", "await DONE"} /\ clock < 2
    /\ clock' = clock + 1
    /\ UNCHANGED <<state, frame, vout, caller, picture, frames, setups>>

AwaitVoutOnly ==  \* MUTANT: a wait without a deadline
    /\ caller = "await VOUT" /\ "VOUT" \in state
    /\ caller' = "await DONE"
    /\ UNCHANGED <<state, frame, vout, clock, picture, frames, setups>>

AwaitVout ==
    /\ caller = "await VOUT" /\ ("VOUT" \in state \/ clock >= 1)
    /\ caller' = IF "VOUT" \in state THEN "await DONE" ELSE "stop"
    /\ UNCHANGED <<state, frame, vout, clock, picture, frames, setups>>

AwaitDone ==
    /\ caller = "await DONE" /\ ("DONE" \in state \/ clock >= 2)
    /\ caller' = "stop"
    /\ UNCHANGED <<state, frame, vout, clock, picture, frames, setups>>

StopAtOnce ==  \* MUTANT: the picture is collected while the player still runs
    /\ caller = "stop"
    /\ caller' = "collect"
    /\ UNCHANGED <<state, frame, vout, clock, picture, frames, setups>>

(* libvlc_media_player_stop and release: the callback that runs ends       *)
(* first.                                                                  *)
Stop ==
    /\ caller = "stop" /\ vout \in {"closed", "open"}
    /\ caller' = "collect"
    /\ UNCHANGED <<state, frame, vout, clock, picture, frames, setups>>

(* The Java array, if it can be allocated; then everything is freed that   *)
(* sys points to.                                                          *)
Collect ==
    /\ caller = "collect"
    /\ picture' \in IF "DONE" \in state THEN {frame, "none"} ELSE {"none"}
    /\ frame' = "none" /\ caller' = "returned"
    /\ UNCHANGED <<state, vout, clock, frames, setups>>

-----------------------------------------------------------------------------
VoutStep == Allocate \/ Copy \/ SignalDone
CallerStep == AwaitVout \/ AwaitDone \/ Stop \/ Collect

Next == Setup \/ PositionChanged \/ DisplayTest \/ VoutStep \/ Tick \/ CallerStep

Spec == Init /\ [][Next]_vars

(* Time passes, the caller runs, a callback that began comes to its end,   *)
(* and stop() returns between two frames; nothing says that the player     *)
(* opens an output or shows a frame.                                       *)
FairSpec ==
    /\ Spec
    /\ WF_vars(VoutStep) /\ WF_vars(Tick)
    /\ WF_vars(CallerStep) /\ SF_vars(Stop)

-----------------------------------------------------------------------------
(* Properties *)

TypeOK ==
    /\ state \subseteq Flags /\ frame \in Fillings
    /\ vout \in {"closed", "open", "allocate", "copy", "signal"}
    /\ caller \in {"await VOUT", "await DONE", "stop", "collect", "returned"}
    /\ clock \in 0 .. 2 /\ picture \in Fillings
    /\ frames \in 0 .. MaxFrames /\ setups \in 0 .. MaxSetups

(* A picture that is returned is a whole frame, also when the deadline     *)
(* passes, or a second frame arrives, during the copy.                     *)
PictureIsWhole == picture \in {"none", "whole"}

(* The caller comes back, whatever the media does.                         *)
Returns == <>(caller = "returned")
=============================================================================
