------------------------------- MODULE Dialogs -------------------------------
(***************************************************************************)
(* A question of libvlc to the user (libvlcjni-dialog.c, libvlc/Dialog.java,*)
(* gui/DialogActivity.java, gui/dialogs/VlcDialog.java).                   *)
(*                                                                         *)
(* A thread of libvlc displays a dialog and waits for its answer; it may   *)
(* be interrupted, and cancels the dialog then.  The main thread starts an *)
(* activity that shows a window; the user answers or closes it.  Between   *)
(* them are the native id, which must be answered exactly once since that  *)
(* is what frees it, and a global reference to the Java dialog, the id's   *)
(* context.                                                                *)
(***************************************************************************)
EXTENDS Integers, Sequences

CONSTANT MaxUpdates  \* bound on the updates of the progress

ASSUME UpdatesAssumption == MaxUpdates \in Nat

VARIABLES
    asker,    \* where the thread of libvlc is
    looper,   \* the messages posted to the main thread
    hasId,    \* mId is not 0
    answers,  \* history: how often the native id was answered
    context,  \* the context of the id is set
    globals,  \* the global references to the dialog that exist
    window,   \* the dialog fragment
    early,    \* history: the answer came before the context was set
    updates   \* the number of updates

dialogVars == <<asker, looper, hasId, answers, context, globals, window, early, updates>>

DialogInit ==
    /\ asker = "begin" /\ looper = <<>> /\ hasId = FALSE /\ answers = 0
    /\ context = FALSE /\ globals = 0 /\ window = "none" /\ early = FALSE /\ updates = 0

-----------------------------------------------------------------------------
(* The thread of libvlc *)

(* display_*_cb calls Java, which posts the dialog,                        *)
Display ==
    /\ asker = "begin" /\ asker' = "displayed"
    /\ hasId' = TRUE /\ looper' = Append(looper, "display")
    /\ UNCHANGED <<answers, context, globals, window, early, updates>>

(* and then sets the context: the main thread may be faster.               *)
SetContext ==
    /\ asker = "displayed" /\ asker' = "wait"
    /\ context' = TRUE /\ globals' = globals + 1
    /\ UNCHANGED <<looper, hasId, answers, window, early, updates>>

UpdateProgress ==
    /\ asker = "wait" /\ answers = 0 /\ updates < MaxUpdates
    /\ updates' = updates + 1 /\ looper' = Append(looper, "update")
    /\ UNCHANGED <<asker, hasId, answers, context, globals, window, early>>

Answered ==
    /\ asker = "wait" /\ answers > 0 /\ asker' = "end"
    /\ UNCHANGED <<looper, hasId, answers, context, globals, window, early, updates>>

Interrupted ==
    /\ asker = "wait" /\ answers = 0 /\ asker' = "cancel"
    /\ UNCHANGED <<looper, hasId, answers, context, globals, window, early, updates>>

(* cancel_cb                                                               *)
CancelCallback ==
    /\ asker = "cancel" /\ asker' = "end"
    /\ looper' = IF context THEN Append(looper, "cancel") ELSE looper
    /\ UNCHANGED <<hasId, answers, context, globals, window, early, updates>>

-----------------------------------------------------------------------------
(* The main thread *)

AnswerAndKeepRef ==  \* MUTANT: the global reference is forgotten
    /\ answers' = answers + 1
    /\ UNCHANGED globals
    /\ early' = (early \/ ~context)
    /\ hasId' = FALSE

AnswerAndKeepId ==  \* MUTANT: mId is not reset
    /\ answers' = answers + 1
    /\ globals' = IF context THEN globals - 1 ELSE globals
    /\ early' = (early \/ ~context)
    /\ UNCHANGED hasId

(* nativeDismiss, nativePostLogin, nativePostAction: the id is answered and *)
(* the reference deleted, if it is there.                                  *)
Answer ==
    /\ answers' = answers + 1
    /\ globals' = IF context THEN globals - 1 ELSE globals
    /\ early' = (early \/ ~context)
    /\ hasId' = FALSE

AnswerIfAny ==
    \/ hasId /\ Answer
    \/ ~hasId /\ UNCHANGED <<answers, globals, early, hasId>>

Handle(message) == looper # <<>> /\ Head(looper) = message /\ looper' = Tail(looper)

OnDisplay ==
    /\ Handle("display") /\ window' = "started"
    /\ UNCHANGED <<asker, hasId, answers, context, globals, early, updates>>

(* An update touches what the window shows only.                           *)
OnUpdate ==
    /\ Handle("update")
    /\ UNCHANGED <<asker, hasId, answers, context, globals, window, early, updates>>

OnCancelOnly ==  \* MUTANT: the listener is told, the id is not dismissed
    /\ Handle("cancel")
    /\ window' \in IF window = "shown" THEN {"shown", "closing"} ELSE {window}
    /\ UNCHANGED <<asker, hasId, answers, context, globals, early, updates>>

(* cancelFromNative: a window that is not there yet, or is not resumed,    *)
(* stays.                                                                  *)
OnCancel ==
    /\ Handle("cancel") /\ AnswerIfAny
    /\ window' \in IF window = "shown" THEN {"shown", "closing"} ELSE {window}
    /\ UNCHANGED <<asker, context, updates>>

(* The activity creates the window.                                        *)
ShowDialog ==
    /\ window = "started" /\ window' = "shown"
    /\ UNCHANGED <<asker, looper, hasId, answers, context, globals, early, updates>>

(* A button: postLogin or postAction, and the window closes.               *)
UserAnswers ==
    /\ window = "shown" /\ AnswerIfAny /\ window' = "closing"
    /\ UNCHANGED <<asker, looper, context, updates>>

UserCloses ==
    /\ window = "shown" /\ window' = "closing"
    /\ UNCHANGED <<asker, looper, hasId, answers, context, globals, early, updates>>

(* onDestroy dismisses the dialog.                                         *)
DestroyDialog ==
    /\ window = "closing" /\ window' = "closed" /\ AnswerIfAny
    /\ UNCHANGED <<asker, looper, context, updates>>

-----------------------------------------------------------------------------
DialogLibvlc == SetContext \/ Answered \/ CancelCallback
DialogMain == OnDisplay \/ OnUpdate \/ OnCancel \/ ShowDialog \/ DestroyDialog

DialogNext ==
    \/ Display \/ UpdateProgress \/ Interrupted \/ DialogLibvlc
    \/ DialogMain \/ UserAnswers \/ UserCloses

DialogSpec == DialogInit /\ [][DialogNext]_dialogVars

-----------------------------------------------------------------------------
(* Properties *)

DialogTypeOK ==
    /\ asker \in {"begin", "displayed", "wait", "cancel", "end"}
    /\ looper \in Seq({"display", "update", "cancel"})
    /\ hasId \in BOOLEAN /\ context \in BOOLEAN /\ early \in BOOLEAN
    /\ answers \in Nat /\ globals \in Int /\ updates \in 0 .. MaxUpdates
    /\ window \in {"none", "started", "shown", "closing", "closed"}

(* Whatever comes together, an answer, the cancellation, the end of the    *)
(* window: the native id is answered once, since that frees it.            *)
AnsweredOnce == answers <= 1

(* What was answered has given its global reference back, unless the       *)
(* answer was there before the reference.                                  *)
ReferenceGivenBack == answers > 0 /\ ~early => globals = 0

(* A dialog that libvlc cancels is answered, also when its window was      *)
(* never shown, or stays.                                                  *)
CancelledIsAnswered == asker = "cancel" ~> answers = 1
=============================================================================
