--------------------------- MODULE MCPlaybackLive ---------------------------
(***************************************************************************)
(* The playback service with a user who makes at most MaxCalls calls, and  *)
(* a system whose actors keep running.                                     *)
(***************************************************************************)
EXTENDS MCPlaybackService

CONSTANT MaxCalls  \* bound on the calls of the user interface

ASSUME MaxCallsAssumption == MaxCalls \in Nat

VARIABLE calls

LiveInit == Init /\ calls = 0

LiveNext ==
    \/ UserCall /\ calls < MaxCalls /\ calls' = calls + 1
    \/ SystemStep /\ UNCHANGED calls

(* The main looper handles its messages and finishes its handlers; the     *)
(* native player opens what it was told to play and gets to the end of it, *)
(* or fails; the threads of the pool run their tasks.                      *)
Fairness ==
    /\ WF_vars(HandleEvent) /\ WF_vars(LoopStep) /\ WF_vars(Restart)
    /\ WF_vars(PlayerOpens \/ PlayerFails) /\ WF_vars(PlayerEnds \/ PlayerFails)
    /\ WF_vars(StopTask) /\ WF_vars(ClearTask)

LiveSpec == LiveInit /\ [][LiveNext]_<<vars, calls>> /\ Fairness

(* Left alone without a repeat mode, the service plays its list to the end *)
(* and stops: no lost event, late stop task or failing media leaves it     *)
(* waiting in the middle, and the pool's tasks and the player's events are *)
(* all used up.  Excepted is a video that play() started while it waited   *)
(* for VideoPlayerActivity: no listener hears that it ended.               *)
PlaybackEnds ==
    <>[]/\ listened \/ media \notin Video => phase \in {"nothing", "paused", "stopped"}
        /\ main = "idle" /\ queue = <<>> /\ stops = 0 /\ clearing = 0
=============================================================================
