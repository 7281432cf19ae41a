---------------------------- MODULE MCThreadsProofs ----------------------------
(***************************************************************************)
(* What is proved about MCThreads: each component behaves in it as its own *)
(* specification says, so that whatever is proved of that holds of the     *)
(* composition that the run checks.                                        *)
(***************************************************************************)
EXTENDS MCThreads, NativeObjectsProofs, ServiceProofs

LEMMA MCStarts ==
    MCInit => Init /\ ParseInit /\ DialogInit /\ WindowInit /\ LogInit /\ FocusInit /\ NoteInit
BY DEF MCInit

LEMMA Stuttering ==
    ASSUME UNCHANGED all
    PROVE  UNCHANGED <<vars, parseVars, dialogVars, windowVars, logVars, focusVars, noteVars>>
BY DEF all

(* A step of the composition is a step of one component, and of the others *)
(* none.                                                                   *)
LEMMA OneRuns ==
    ASSUME [MCNext]_all
    PROVE  /\ [Next]_vars /\ [ParseNext]_parseVars /\ [DialogNext]_dialogVars
           /\ [WindowNext]_windowVars /\ [LogNext]_logVars /\ [FocusNext]_focusVars
           /\ [NoteNext]_noteVars
BY Stuttering DEF MCNext, ThumbnailerRuns, ParseRuns, DialogRuns, WindowRuns, LogRuns, FocusRuns,
                  NoteRuns

(* The fairness is not used: what follows is safety.                       *)
LEMMA MCSafety == MCSpec => MCInit /\ [][MCNext]_all
BY PTL DEF MCSpec

(* The composition is, of each component, its specification: no component  *)
(* can do there what it could not do alone.                                *)
THEOREM ComponentsBehave ==
    MCSpec => /\ Spec /\ ParseSpec /\ DialogSpec /\ WindowSpec /\ LogSpec /\ FocusSpec
              /\ NoteSpec
BY MCSafety, MCStarts, OneRuns, PTL
   DEF Spec, ParseSpec, DialogSpec, WindowSpec, LogSpec, FocusSpec, NoteSpec

(* All components stay within their types, together.                       *)
THEOREM TypesHold == MCSpec => []TypesOK
<1>1. /\ TypeOK /\ ParseTypeOK /\ DialogTypeOK /\ WindowTypeOK /\ LogTypeOK
      /\ FocusTypeOK /\ NoteTypeOK
      => TypesOK
  BY DEF TypesOK
<1> QED
  BY <1>1, ComponentsBehave, ThumbnailerTypes, ParseTypesHold, DialogTypesHold, WindowTypesHold,
     LogTypesHold, FocusTypesHold, NoteTypesHold, PTL

(* What the run checks of each of them holds of the composition, for every *)
(* value of the bounds: a whole picture, the end of a parse heard once,    *)
(* one answer to a question, a texture while it is drawn to, a log without *)
(* gaps, a call that is remembered and a notification that is fresh.       *)
THEOREM ThreadsAreSafe ==
    MCSpec => [](/\ PictureIsWhole /\ KeptIsCurrent /\ HeardOnce
                 /\ AnsweredOnce /\ ReferenceGivenBack
                 /\ ReadyWithSurfaces /\ TextureStays
                 /\ OwnLines /\ ShownEndsWithLog
                 /\ CallIsRemembered /\ WakeLockFollows /\ NotificationIsFresh)
BY ComponentsBehave, WholePicture, KeptStaysCurrent, EndHeardOnce, OneAnswer,
   ReferenceIsDeleted, ReadyWithTheSurfaces, TextureOfTheAttached, LinesAreOfTheSession,
   ActivityShowsTheLog, CallStaysRemembered, LockFollowsSong, NotificationStaysFresh, PTL
=============================================================================
