------------------------------ MODULE MCThreads ------------------------------
(***************************************************************************)
(* The components that are made of a few threads around one native object, *)
(* each on its own: which one runs is chosen in the first state, and the   *)
(* others stay as they begin.  None of them shares state with another.     *)
(***************************************************************************)
EXTENDS Thumbnailer, MediaParse, Dialogs, AWindow, DebugLog, AudioFocus,
        PlaybackNotification

VARIABLE active  \* the component that runs

all == <<vars, parseVars, dialogVars, windowVars, logVars, focusVars, noteVars, active>>

MCInit ==
    /\ active \in {"thumbnailer", "parse", "dialog", "window", "log", "focus",
                  "notification"}
    /\ Init /\ ParseInit /\ DialogInit /\ WindowInit /\ LogInit /\ FocusInit
    /\ NoteInit

ThumbnailerRuns ==
    /\ active = "thumbnailer"
    /\ UNCHANGED <<parseVars, dialogVars, windowVars, logVars, focusVars, noteVars, active>>
ParseRuns ==
    /\ active = "parse"
    /\ UNCHANGED <<vars, dialogVars, windowVars, logVars, focusVars, noteVars, active>>
DialogRuns ==
    /\ active = "dialog"
    /\ UNCHANGED <<vars, parseVars, windowVars, logVars, focusVars, noteVars, active>>
WindowRuns ==
    /\ active = "window"
    /\ UNCHANGED <<vars, parseVars, dialogVars, logVars, focusVars, noteVars, active>>
LogRuns ==
    /\ active = "log"
    /\ UNCHANGED <<vars, parseVars, dialogVars, windowVars, focusVars, noteVars, active>>
FocusRuns ==
    /\ active = "focus"
    /\ UNCHANGED <<vars, parseVars, dialogVars, windowVars, logVars, noteVars, active>>
NoteRuns ==
    /\ active = "notification"
    /\ UNCHANGED <<vars, parseVars, dialogVars, windowVars, logVars, focusVars, active>>

MCNext ==
    \/ ThumbnailerRuns /\ Next
    \/ ParseRuns /\ ParseNext
    \/ DialogRuns /\ DialogNext
    \/ WindowRuns /\ WindowNext
    \/ LogRuns /\ LogNext
    \/ FocusRuns /\ FocusNext
    \/ NoteRuns /\ NoteNext

(* The fairness of each component, as its section of the README justifies  *)
(* it.                                                                     *)
MCSpec ==
    /\ MCInit /\ [][MCNext]_all
    /\ WF_all(ThumbnailerRuns /\ VoutStep) /\ WF_all(ThumbnailerRuns /\ Tick)
    /\ WF_all(ThumbnailerRuns /\ CallerStep) /\ SF_all(ThumbnailerRuns /\ Stop)
    /\ WF_all(ParseRuns /\ ParseCaller) /\ WF_all(ParseRuns /\ ParseEvents)
    /\ SF_all(ParseRuns /\ EndParse)
    /\ WF_all(DialogRuns /\ DialogLibvlc) /\ WF_all(DialogRuns /\ DialogMain)
    /\ WF_all(WindowRuns /\ GlStep) /\ WF_all(WindowRuns /\ TexLooperStep)
    /\ SF_all(WindowRuns /\ DetachGl) /\ WF_all(WindowRuns /\ Release)
    /\ WF_all(NoteRuns /\ ExecutorStep) /\ WF_all(NoteRuns /\ SetMetadata)

(* The types of all of them.  Among those of the log: the list never has   *)
(* more than MAX_LINES + 1 lines.                                          *)
TypesOK ==
    /\ TypeOK /\ ParseTypeOK /\ DialogTypeOK /\ WindowTypeOK /\ LogTypeOK
    /\ FocusTypeOK /\ NoteTypeOK

(* The caller of the thumbnailer comes back, whatever the media does.      *)
CallerReturns == active = "thumbnailer" => Returns
=============================================================================
