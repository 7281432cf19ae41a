------------------------------- MODULE DebugLog -------------------------------
(***************************************************************************)
(* The service that records the system log, and the activity that shows it *)
(* (DebugLogService.java, util/Logcat.java, gui/DebugLogActivity.java).    *)
(*                                                                         *)
(* A thread per Logcat reads lines and appends each to the service's list; *)
(* another saves the list.  The activity, in a process of its own, calls   *)
(* the service, is called back and posts what it hears to its main thread. *)
(* The methods of the service are synchronized: each is one step, but for  *)
(* join(), which waits without letting go of the monitor.                  *)
(***************************************************************************)
EXTENDS Integers, Sequences, SequencesExt

CONSTANTS
    MaxLines,     \* MAX_LINES
    MaxRead,      \* bound on the lines read
    MaxSessions   \* bound on the Logcats started

ASSUME LogAssumption == MaxLines \in Nat /\ MaxRead \in Nat /\ MaxSessions \in Nat \ {0}

Sessions == 1 .. MaxSessions

VARIABLES
    logcat,   \* mLogcat, 0 for null
    started,  \* the Logcats there were
    readers,  \* where the thread of each Logcat is
    run,      \* mRun of each
    log,      \* mLogList
    lines,    \* the number of lines logged
    joining,  \* who waits in join() and holds the monitor
    saver,    \* where mSaveThread is
    client,   \* where the main thread of the activity is
    posted,   \* the messages for it
    shown,    \* the activity's mLogList
    buttons   \* the buttons that are enabled

logVars == <<logcat, started, readers, run, log, lines, joining, saver, client, posted,
             shown, buttons>>

NoList == <<[session |-> 0, number |-> 0]>>

LogInit ==
    /\ logcat = 0 /\ started = 0
    /\ readers = [s \in Sessions |-> "none"] /\ run = [s \in Sessions |-> FALSE]
    /\ log = <<>> /\ lines = 0 /\ joining = "none" /\ saver = "none"
    /\ client = "gone" /\ posted = <<>> /\ shown = NoList /\ buttons = {}

MonitorIsFree == joining = "none"

Message(kind, list) == [kind |-> kind, list |-> list]
Send(message) == posted' = IF client = "gone" THEN posted ELSE Append(posted, message)

-----------------------------------------------------------------------------
(* The threads of the service *)

(* Logcat.run: it enters the monitor of its Logcat, which stop() holds.    *)
BeginReading(s) ==
    /\ readers[s] = "starting" /\ ~(joining = "stop" /\ logcat = s)
    /\ \E at \in {"reading", "ended"} :
         /\ run[s] \/ at = "ended"
         /\ readers' = [readers EXCEPT ![s] = at]
    /\ UNCHANGED <<logcat, started, run, log, lines, joining, saver, client, posted,
                   shown, buttons>>

(* A line may still be buffered when the process was destroyed.            *)
ReadLine(s) ==
    /\ readers[s] = "reading" /\ lines < MaxRead
    /\ readers' = [readers EXCEPT ![s] = "line"]
    /\ UNCHANGED <<logcat, started, run, log, lines, joining, saver, client, posted,
                   shown, buttons>>

EndReading(s) ==
    /\ readers[s] = "reading"
    /\ readers' = [readers EXCEPT ![s] = "ended"]
    /\ UNCHANGED <<logcat, started, run, log, lines, joining, saver, client, posted,
                   shown, buttons>>

AppendedOnly(line) == Append(log, line)  \* MUTANT: the list grows without bound

(* The oldest line goes when there are more than MAX_LINES.                *)
Appended(line) == Append(IF Len(log) > MaxLines THEN Tail(log) ELSE log, line)

OnLog(s) ==
    /\ readers[s] = "line" /\ MonitorIsFree /\ lines < MaxRead
    /\ readers' = [readers EXCEPT ![s] = "reading"]
    /\ lines' = lines + 1
    /\ LET line == [session |-> s, number |-> lines']
       IN  log' = Appended(line) /\ Send(Message("line", <<line>>))
    /\ UNCHANGED <<logcat, started, run, joining, saver, client, shown, buttons>>

(* run of the service: the file is written within the monitor, if it can   *)
(* be opened; then the activity is told, which shows a notice only.        *)
SaveLog ==
    /\ saver = "starting" /\ saver' = "written"
    /\ UNCHANGED <<logcat, started, readers, run, log, lines, joining, client, posted,
                   shown, buttons>>

TellSaved ==
    /\ saver = "written" /\ MonitorIsFree
    /\ saver' = "none"
    /\ UNCHANGED <<logcat, started, readers, run, log, lines, joining, client, posted,
                   shown, buttons>>

-----------------------------------------------------------------------------
(* The activity: its main thread waits for each call of the service *)

(* onServiceConnected: registered first, told afterwards.                  *)
RegisterCallback ==
    /\ client = "gone" /\ client' = "registering"
    /\ UNCHANGED <<logcat, started, readers, run, log, lines, joining, saver, posted,
                   shown, buttons>>

TellRegistered ==
    /\ client = "registering" /\ MonitorIsFree /\ client' = "idle"
    /\ Send(IF logcat # 0 THEN Message("started", log) ELSE Message("stopped", <<>>))
    /\ UNCHANGED <<logcat, started, readers, run, log, lines, joining, saver, shown, buttons>>

LeaveActivity ==
    /\ client = "idle" /\ client' = "gone"
    /\ posted' = <<>> /\ shown' = NoList /\ buttons' = {}
    /\ UNCHANGED <<logcat, started, readers, run, log, lines, joining, saver>>

StartLog ==
    /\ client = "idle" /\ "start" \in buttons /\ MonitorIsFree
    /\ logcat = 0 /\ started < MaxSessions
    /\ started' = started + 1 /\ logcat' = started'
    /\ readers' = [readers EXCEPT ![started'] = "starting"]
    /\ run' = [run EXCEPT ![started'] = TRUE]
    /\ log' = <<>> /\ Send(Message("started", <<>>))
    /\ buttons' = buttons \ {"start", "stop"}
    /\ UNCHANGED <<lines, joining, saver, client, shown>>

(* stop(): the monitors of the service and of its Logcat are held, the     *)
(* process is destroyed;                                                   *)
StopLog ==
    /\ client = "idle" /\ "stop" \in buttons /\ MonitorIsFree
    /\ joining' = "stop" /\ client' = "stopping"
    /\ run' = [run EXCEPT ![logcat] = FALSE]
    /\ buttons' = buttons \ {"start", "stop"}
    /\ UNCHANGED <<logcat, started, readers, log, lines, saver, posted, shown>>

StoppedAtOnce ==  \* MUTANT: the thread is not waited for
    /\ joining = "stop"
    /\ logcat' = 0 /\ joining' = "none" /\ client' = "idle"
    /\ Send(Message("stopped", <<>>))
    /\ UNCHANGED <<started, readers, run, log, lines, saver, shown, buttons>>

(* then the thread is joined.                                              *)
StoppedLog ==
    /\ joining = "stop" /\ readers[logcat] = "ended"
    /\ logcat' = 0 /\ joining' = "none" /\ client' = "idle"
    /\ Send(Message("stopped", <<>>))
    /\ UNCHANGED <<started, readers, run, log, lines, saver, shown, buttons>>

(* A click on clear: the service's list, then the one that is shown.       *)
ClearLog ==
    /\ client = "idle" /\ "options" \in buttons /\ MonitorIsFree
    /\ client' = "clearing" /\ log' = <<>>
    /\ UNCHANGED <<logcat, started, readers, run, lines, joining, saver, posted, shown, buttons>>

ClearShownAndPosted ==  \* MUTANT: what waits to be shown is dropped, too
    /\ client = "clearing" /\ client' = "idle"
    /\ shown' = <<>> /\ posted' = <<>> /\ buttons' = buttons \ {"options"}
    /\ UNCHANGED <<logcat, started, readers, run, log, lines, joining, saver>>

ClearShown ==
    /\ client = "clearing" /\ client' = "idle"
    /\ shown' = <<>> /\ buttons' = buttons \ {"options"}
    /\ UNCHANGED <<logcat, started, readers, run, log, lines, joining, saver, posted>>

(* save(): while another save is under way it waits for a thread that      *)
(* needs the monitor before it ends: join() never returns.                 *)
SaveClicked ==
    /\ client = "idle" /\ "options" \in buttons /\ MonitorIsFree
    /\ IF saver = "none" THEN saver' = "starting" /\ UNCHANGED <<joining, client>>
       ELSE joining' = "save" /\ client' = "saving" /\ UNCHANGED saver
    /\ UNCHANGED <<logcat, started, readers, run, log, lines, posted, shown, buttons>>

-----------------------------------------------------------------------------
(* What the activity hears *)

ShownAfter(list, message) ==
    CASE message.kind = "started" -> message.list
      [] message.kind = "line" /\ list # NoList -> list \o message.list
      [] OTHER -> list

ButtonsAfter(message) ==
    CASE message.kind = "started" ->
           (buttons \ {"start"}) \cup {"stop"}
             \cup (IF message.list = <<>> THEN {} ELSE {"options"})
      [] message.kind = "stopped" -> (buttons \ {"stop"}) \cup {"start"}
      [] message.kind = "line" /\ shown # NoList -> buttons \cup {"options"}
      [] OTHER -> buttons

HearLog ==
    /\ client = "idle" /\ posted # <<>> /\ posted' = Tail(posted)
    /\ shown' = ShownAfter(shown, Head(posted)) /\ buttons' = ButtonsAfter(Head(posted))
    /\ UNCHANGED <<logcat, started, readers, run, log, lines, joining, saver, client>>

-----------------------------------------------------------------------------
(* The steps that come whatever the user does *)
LogSteps ==
    \/ \E s \in Sessions : BeginReading(s) \/ OnLog(s) \/ EndReading(s)
    \/ SaveLog \/ TellSaved \/ TellRegistered \/ StoppedLog \/ ClearShown \/ HearLog

LogNext ==
    \/ \E s \in Sessions : ReadLine(s)
    \/ RegisterCallback \/ LeaveActivity \/ StartLog \/ StopLog \/ ClearLog \/ SaveClicked
    \/ LogSteps

LogSpec == LogInit /\ [][LogNext]_logVars
LogFairSpec == LogSpec /\ WF_logVars(LogSteps) /\ \A s \in Sessions : WF_logVars(EndReading(s))

-----------------------------------------------------------------------------
(* Properties *)

Lines == [session : Sessions, number : 1 .. MaxRead]

(* Among the types: the list never has more than MAX_LINES + 1 lines.      *)
LogTypeOK ==
    /\ logcat \in 0 .. MaxSessions /\ started \in 0 .. MaxSessions
    /\ readers \in [Sessions -> {"none", "starting", "reading", "line", "ended"}]
    /\ run \in [Sessions -> BOOLEAN] /\ lines \in 0 .. MaxRead
    /\ log \in Seq(Lines) /\ Len(log) <= MaxLines + 1
    /\ joining \in {"none", "stop", "save"} /\ saver \in {"none", "starting", "written"}
    /\ client \in {"gone", "registering", "idle", "stopping", "clearing", "saving"}
    /\ \A i \in DOMAIN posted :
         posted[i].kind \in {"started", "stopped", "line"} /\ posted[i].list \in Seq(Lines)
    /\ shown = NoList \/ shown \in Seq(Lines)
    /\ buttons \subseteq {"start", "stop", "options"}

(* While a Logcat runs the list holds no line that an earlier one read,    *)
(* however late its thread was.                                            *)
OwnLines == logcat # 0 => \A i \in DOMAIN log : log[i].session = logcat

(* No line is missing or out of place in the activity: the service's list  *)
(* is the end of what is shown, once what is posted is shown, whatever     *)
(* lines come while the activity registers, clears, starts or stops.       *)
ShownEndsWithLog ==
    LET view == FoldLeft(ShownAfter, shown, posted)
    IN  view # NoList => IsSuffix(log, view)

(* Logcat.java: "Stop the thread previously started": stop() returns.      *)
StopEnds == client = "stopping" ~> client = "idle"
=============================================================================
