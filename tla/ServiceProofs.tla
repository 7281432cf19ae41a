----------------------------- MODULE ServiceProofs -----------------------------
(***************************************************************************)
(* What is proved about the services' protocols with the system and with   *)
(* an activity: DebugLog, AudioFocus and PlaybackNotification, one part of *)
(* this module each.                                                       *)
(***************************************************************************)
EXTENDS DebugLog, AudioFocus, PlaybackNotification, SequenceTheorems, TLAPS

(* What the activity shows is a fold of ShownAfter.                        *)
LogFold == INSTANCE FoldProofs WITH Op <- ShownAfter

-----------------------------------------------------------------------------
(***************************************************************************)
(* DebugLog, for any bound on the lines and any number of sessions.  The   *)
(* invariant says what the activity knows: whether a Logcat runs is told   *)
(* by its buttons or by the one answer that is posted, so that none is     *)
(* started twice and none is stopped that does not run; only the current   *)
(* one reads; and the list is the end of what is shown when every message  *)
(* that waits was heard, with what is cleared empty at both ends.          *)
(***************************************************************************)
(* The sessions *)

Messages == [kind : {"started", "stopped", "line"}, list : Seq(Lines)]

LogTypes ==
    /\ logcat \in 0 .. started /\ started \in 0 .. MaxSessions
    /\ readers \in [Sessions -> {"none", "starting", "reading", "line", "ended"}]
    /\ run \in [Sessions -> BOOLEAN] /\ lines \in 0 .. MaxRead
    /\ log \in Seq(Lines) /\ Len(log) <= MaxLines + 1
    /\ joining \in {"none", "stop", "save"} /\ saver \in {"none", "starting", "written"}
    /\ client \in {"gone", "registering", "idle", "stopping", "clearing", "saving"}
    /\ posted \in Seq(Messages)
    /\ shown = NoList \/ shown \in Seq(Lines)
    /\ buttons \subseteq {"start", "stop", "options"}

(* The messages that say whether a Logcat runs.                            *)
Answers == {k \in DOMAIN posted : posted[k].kind # "line"}

(* The activity knows whether a Logcat runs, or is about to hear it: its   *)
(* buttons do not ask for a second one, nor to stop what does not run.     *)
ButtonsKnow ==
    /\ client \in {"gone", "registering", "stopping"} =>
         Answers = {} /\ buttons \cap {"start", "stop"} = {}
    /\ "stop" \in buttons => logcat # 0 /\ "start" \notin buttons /\ Answers = {}
    /\ "start" \in buttons => logcat = 0 /\ Answers = {}
    /\ \A j, k \in Answers : j = k
    /\ \A k \in Answers : posted[k].kind = "started" <=> logcat # 0

(* Only the thread of the current Logcat still reads.                      *)
OneReads ==
    /\ \A s \in Sessions : s # logcat => readers[s] \in {"none", "ended"}
    /\ joining = "stop" <=> client = "stopping"
    /\ client = "stopping" => logcat # 0
    /\ client = "gone" => shown = NoList /\ posted = <<>>

SessionIInv == LogTypes /\ ButtonsKnow /\ OneReads /\ OwnLines

LEMMA SessionInit == LogInit => SessionIInv
<1> SUFFICES ASSUME LogInit PROVE SessionIInv
  OBVIOUS
<1>1. posted \in Seq(Messages) /\ DOMAIN posted = {} /\ log \in Seq(Lines) /\ Len(log) = 0
  BY EmptySeq DEF LogInit
<1>2. LogTypes
  BY <1>1, LogAssumption DEF LogInit, LogTypes, Sessions
<1>3. ButtonsKnow /\ OneReads /\ OwnLines
  BY <1>1 DEF LogInit, ButtonsKnow, Answers, OneReads, OwnLines
<1> QED
  BY <1>2, <1>3 DEF SessionIInv

(* What is posted by an answer, *)
LEMMA AnswerPosted ==
    ASSUME posted \in Seq(Messages), Answers = {}, client # "gone",
           NEW kind \in {"started", "stopped"},
           NEW list \in Seq(Lines), Send(Message(kind, list))
    PROVE  /\ posted' \in Seq(Messages) /\ posted' = Append(posted, Message(kind, list))
           /\ \A j \in Answers' : j = Len(posted) + 1 /\ posted'[j].kind = kind
<1> DEFINE m == Message(kind, list)
<1>1. m \in Messages /\ m.kind = kind
  BY DEF Message, Messages
<1> HIDE DEF m
<1>2. posted' = Append(posted, m)
  BY DEF Send, m
<1>3. /\ posted' \in Seq(Messages) /\ DOMAIN posted' = 1 .. Len(posted) + 1
      /\ DOMAIN posted = 1 .. Len(posted) /\ posted'[Len(posted) + 1] = m
      /\ \A k \in 1 .. Len(posted) : posted'[k] = posted[k]
      /\ Len(posted) \in Nat
  BY <1>1, <1>2, AppendProperties, LenProperties
<1>4. ASSUME NEW j \in Answers' PROVE j = Len(posted) + 1
  <2>1. j \in 1 .. Len(posted) + 1 /\ posted'[j].kind # "line"
    BY <1>3, <1>4 DEF Answers
  <2>2. CASE j \in 1 .. Len(posted)
    BY <1>3, <2>1, <2>2 DEF Answers
  <2> QED
    BY <1>3, <2>1, <2>2
<1> QED
  BY <1>1, <1>2, <1>3, <1>4 DEF m

(* a line, *)
LEMMA LinePosted ==
    ASSUME posted \in Seq(Messages), NEW line \in Lines, Send(Message("line", <<line>>))
    PROVE  /\ posted' \in Seq(Messages) /\ Answers' = Answers
           /\ \A k \in Answers : posted'[k] = posted[k]
           /\ client = "gone" => posted' = posted
<1> DEFINE m == Message("line", <<line>>)
<1>1. m \in Messages /\ m.kind = "line"
  BY DEF Message, Messages
<1> HIDE DEF m
<1>2. posted' = IF client = "gone" THEN posted ELSE Append(posted, m)
  BY DEF Send, m
<1>3. CASE posted' = posted
  BY <1>2, <1>3 DEF Answers
<1>4. CASE posted' = Append(posted, m) /\ client # "gone"
  <2>1. /\ posted' \in Seq(Messages) /\ DOMAIN posted' = 1 .. Len(posted) + 1
        /\ DOMAIN posted = 1 .. Len(posted) /\ posted'[Len(posted) + 1] = m
        /\ \A k \in 1 .. Len(posted) : posted'[k] = posted[k]
        /\ Len(posted) \in Nat
    BY <1>1, <1>4, AppendProperties, LenProperties
  <2>2. Answers' = Answers
    BY <1>1, <2>1 DEF Answers
  <2> QED
    BY <1>4, <2>1, <2>2 DEF Answers
<1> QED
  BY <1>2, <1>3, <1>4

(* and what is left when a message was handled.                            *)
LEMMA MessageHeard ==
    ASSUME posted \in Seq(Messages), posted # <<>>, posted' = Tail(posted)
    PROVE  /\ Head(posted) \in Messages /\ posted' \in Seq(Messages)
           /\ Head(posted) = posted[1] /\ 1 \in DOMAIN posted
           /\ \A k \in Answers' : /\ k + 1 \in Answers /\ posted'[k] = posted[k + 1]
                                 /\ k \in Nat \ {0}
<1>1. /\ Len(posted) \in Nat \ {0} /\ posted' \in Seq(Messages) /\ Len(posted') = Len(posted) - 1
      /\ \A k \in 1 .. Len(posted) - 1 : posted'[k] = posted[k + 1]
      /\ Head(posted) = posted[1] /\ Head(posted) \in Messages
  BY EmptySeq, LenProperties, HeadTailProperties
<1>2. DOMAIN posted = 1 .. Len(posted) /\ DOMAIN posted' = 1 .. Len(posted) - 1
  BY <1>1, LenProperties
<1> QED
  BY <1>1, <1>2 DEF Answers

LEMMA LogAppended ==
    ASSUME log \in Seq(Lines), Len(log) <= MaxLines + 1, NEW line \in Lines, log' = Appended(line)
    PROVE  /\ log' \in Seq(Lines) /\ Len(log') <= MaxLines + 1
           /\ \A i \in DOMAIN log' : log'[i] = line \/ \E j \in DOMAIN log : log'[i] = log[j]
<1> DEFINE t == IF Len(log) > MaxLines THEN Tail(log) ELSE log
<1>1. /\ t \in Seq(Lines) /\ Len(t) \in Nat /\ Len(t) <= MaxLines
      /\ \A i \in 1 .. Len(t) : \E j \in DOMAIN log : t[i] = log[j]
  <2>1. MaxLines \in Nat /\ Len(log) \in Nat /\ DOMAIN log = 1 .. Len(log)
    BY LogAssumption, LenProperties
  <2>2. CASE Len(log) > MaxLines
    <3>1. log # <<>> /\ t = Tail(log)
      BY <2>1, <2>2, EmptySeq
    <3>2. /\ t \in Seq(Lines) /\ Len(t) = Len(log) - 1
          /\ \A i \in 1 .. Len(log) - 1 : t[i] = log[i + 1]
      BY <3>1, HeadTailProperties
    <3>3. \A i \in 1 .. Len(log) - 1 : i + 1 \in DOMAIN log
      BY <2>1
    <3> HIDE DEF t
    <3> QED
      BY <2>1, <2>2, <3>2, <3>3
  <2>3. CASE ~(Len(log) > MaxLines)
    BY <2>1, <2>3
  <2> QED
    BY <2>2, <2>3
<1>2. log' = Append(t, line)
  BY DEF Appended
<1> HIDE DEF t
<1>3. /\ log' \in Seq(Lines) /\ Len(log') = Len(t) + 1 /\ DOMAIN log' = 1 .. Len(t) + 1
      /\ log'[Len(t) + 1] = line /\ \A i \in 1 .. Len(t) : log'[i] = t[i]
  BY <1>1, <1>2, AppendProperties, LenProperties
<1>4. ASSUME NEW i \in DOMAIN log'
      PROVE  log'[i] = line \/ \E j \in DOMAIN log : log'[i] = log[j]
  <2>1. i = Len(t) + 1 \/ i \in 1 .. Len(t)
    BY <1>1, <1>3
  <2> QED
    BY <1>1, <1>3, <2>1
<1> QED
  BY <1>1, <1>3, <1>4, LogAssumption

(* The threads of the service                                              *)
LEMMA ReadersKeepSessions ==
    ASSUME SessionIInv, NEW s \in Sessions,
           BeginReading(s) \/ ReadLine(s) \/ EndReading(s) \/ OnLog(s)
    PROVE  SessionIInv'
<1>1. LogTypes /\ ButtonsKnow /\ OneReads /\ OwnLines
  BY DEF SessionIInv
<1>2. readers[s] \in {"starting", "reading", "line"} /\ s = logcat
  BY <1>1 DEF OneReads, BeginReading, ReadLine, EndReading, OnLog
<1>3. /\ UNCHANGED <<logcat, started, run, joining, saver, client, shown, buttons>>
      /\ readers' \in [Sessions -> {"none", "starting", "reading", "line", "ended"}]
      /\ \A r \in Sessions : r # logcat => readers'[r] = readers[r]
  BY <1>1, <1>2 DEF LogTypes, BeginReading, ReadLine, EndReading, OnLog
<1>4. CASE UNCHANGED <<log, lines, posted>>
  <2>1. Answers' = Answers
    BY <1>4 DEF Answers
  <2> QED
    BY <1>1, <1>3, <1>4, <2>1 DEF SessionIInv, LogTypes, ButtonsKnow, OneReads, OwnLines
<1>5. CASE OnLog(s)
  <2> DEFINE line == [session |-> s, number |-> lines']
  <2>1. /\ lines \in 0 .. MaxRead /\ lines' = lines + 1 /\ lines < MaxRead /\ MaxRead \in Nat
        /\ log' = Appended(line) /\ Send(Message("line", <<line>>))
    BY <1>1, <1>5, LogAssumption DEF OnLog, LogTypes
  <2>2. lines' \in 1 .. MaxRead /\ lines' \in 0 .. MaxRead
    BY <2>1
  <2>3. line \in Lines /\ line.session = s
    BY <2>2 DEF Lines
  <2> HIDE DEF line
  <2>4. /\ log' \in Seq(Lines) /\ Len(log') <= MaxLines + 1
        /\ \A i \in DOMAIN log' : log'[i] = line \/ \E j \in DOMAIN log : log'[i] = log[j]
    BY <1>1, <2>1, <2>3, LogAppended DEF LogTypes
  <2>5. /\ posted' \in Seq(Messages) /\ Answers' = Answers
        /\ \A k \in Answers : posted'[k] = posted[k]
        /\ client = "gone" => posted' = posted
    BY <1>1, <2>1, <2>3, LinePosted DEF LogTypes
  <2>6. OwnLines'
    BY <1>1, <1>2, <1>3, <2>3, <2>4 DEF OwnLines
  <2>7. LogTypes'
    BY <1>1, <1>3, <2>2, <2>4, <2>5 DEF LogTypes
  <2>8. ButtonsKnow' /\ OneReads'
    BY <1>1, <1>3, <2>5 DEF ButtonsKnow, OneReads
  <2> QED
    BY <2>6, <2>7, <2>8 DEF SessionIInv
<1> QED
  BY <1>4, <1>5 DEF BeginReading, ReadLine, EndReading

LEMMA SaverKeepsSessions ==
    ASSUME SessionIInv, SaveLog \/ TellSaved \/ SaveClicked \/ ClearLog \/ ClearShown
    PROVE  SessionIInv'
<1>1. /\ UNCHANGED <<logcat, started, readers, run, lines, posted>> /\ Answers' = Answers
      /\ log' = log \/ log' = <<>>
  BY DEF SaveLog, TellSaved, SaveClicked, ClearLog, ClearShown, Answers
<1>2. LogTypes /\ ButtonsKnow /\ OneReads /\ OwnLines
  BY DEF SessionIInv
<1>3. /\ log' \in Seq(Lines) /\ Len(log') <= MaxLines + 1
      /\ \A i \in DOMAIN log' : log' = log
  <2>1. CASE log' = log
    BY <1>2, <2>1 DEF LogTypes
  <2>2. CASE log' = <<>>
    <3>1. Len(log') = 0 /\ DOMAIN log' = {} /\ log' \in Seq(Lines)
      BY <2>2, EmptySeq
    <3> QED
      BY <3>1, LogAssumption
  <2> QED
    BY <1>1, <2>1, <2>2
<1>4. <<>> \in Seq(Lines)
  BY EmptySeq
<1>5. LogTypes'
  BY <1>1, <1>2, <1>3, <1>4
     DEF LogTypes, SaveLog, TellSaved, SaveClicked, ClearLog, ClearShown
<1>6. ButtonsKnow'
  <2>1. /\ buttons' \cap {"start", "stop"} = buttons \cap {"start", "stop"}
        /\ client' \in {"gone", "registering", "stopping"} => client' = client
    BY DEF SaveLog, TellSaved, SaveClicked, ClearLog, ClearShown
  <2>2. /\ "stop" \in buttons' <=> "stop" \in buttons
        /\ ("start" \in buttons' <=> "start" \in buttons)
    BY <2>1
  <2> QED
    BY <1>1, <1>2, <2>1, <2>2 DEF ButtonsKnow
<1>7. OneReads'
  BY <1>1, <1>2 DEF OneReads, LogTypes, MonitorIsFree, SaveLog, TellSaved, SaveClicked,
                       ClearLog, ClearShown
<1>8. OwnLines'
  BY <1>1, <1>2, <1>3 DEF OwnLines
<1> QED
  BY <1>5, <1>6, <1>7, <1>8 DEF SessionIInv

LEMMA CallsKeepSessions ==
    ASSUME SessionIInv, RegisterCallback \/ TellRegistered \/ LeaveActivity \/ StartLog
                        \/ StopLog \/ StoppedLog
    PROVE  SessionIInv'
<1>1. LogTypes /\ ButtonsKnow /\ OneReads /\ OwnLines
  BY DEF SessionIInv
<1>2. <<>> \in Seq(Lines) /\ <<>> \in Seq(Messages) /\ DOMAIN <<>> = {} /\ Len(<<>>) = 0
  BY EmptySeq
<1>3. CASE RegisterCallback
  <2>1. Answers' = Answers
    BY <1>3 DEF RegisterCallback, Answers
  <2> QED
    BY <1>1, <1>3, <2>1
       DEF RegisterCallback, SessionIInv, LogTypes, ButtonsKnow, OneReads, OwnLines
<1>4. CASE TellRegistered
  <2>1. PICK kind \in {"started", "stopped"}, list \in Seq(Lines) :
          Send(Message(kind, list)) /\ (kind = "started" <=> logcat # 0)
    BY <1>1, <1>2, <1>4 DEF TellRegistered, LogTypes
  <2>2. client = "registering" /\ Answers = {} /\ buttons \cap {"start", "stop"} = {}
    BY <1>1, <1>4 DEF TellRegistered, ButtonsKnow
  <2>3. /\ posted' \in Seq(Messages) /\ posted' = Append(posted, Message(kind, list))
        /\ \A j \in Answers' : j = Len(posted) + 1 /\ posted'[j].kind = kind
    BY <1>1, <2>1, <2>2, AnswerPosted DEF LogTypes
  <2>4. /\ UNCHANGED <<logcat, started, readers, run, log, lines, joining, saver, shown, buttons>>
        /\ client' = "idle"
    BY <1>4 DEF TellRegistered
  <2>5. ButtonsKnow'
    BY <2>1, <2>2, <2>3, <2>4 DEF ButtonsKnow
  <2> QED
    BY <1>1, <2>2, <2>3, <2>4, <2>5 DEF SessionIInv, LogTypes, OneReads, OwnLines
<1>5. CASE LeaveActivity
  <2>1. Answers' = {}
    BY <1>2, <1>5 DEF LeaveActivity, Answers
  <2> QED
    BY <1>1, <1>2, <1>5, <2>1
       DEF LeaveActivity, SessionIInv, LogTypes, ButtonsKnow, OneReads, OwnLines
<1>6. CASE StartLog
  <2>1. /\ client = "idle" /\ logcat = 0 /\ "start" \in buttons /\ Answers = {}
        /\ Send(Message("started", <<>>)) /\ log' = <<>>
    BY <1>1, <1>6 DEF StartLog, ButtonsKnow
  <2>2. /\ posted' \in Seq(Messages) /\ posted' = Append(posted, Message("started", <<>>))
        /\ \A j \in Answers' : j = Len(posted) + 1 /\ posted'[j].kind = "started"
    BY <1>1, <1>2, <2>1, AnswerPosted DEF LogTypes
  <2>3. /\ started' = started + 1 /\ logcat' = started' /\ started' \in Sessions
        /\ started' \in 0 .. MaxSessions /\ logcat' # 0 /\ logcat' \in 0 .. started'
    BY <1>1, <1>6, LogAssumption DEF StartLog, LogTypes, Sessions
  <2>4. LogTypes'
    BY <1>1, <1>2, <1>6, <2>2, <2>3, LogAssumption DEF LogTypes, StartLog
  <2>5. ButtonsKnow'
    BY <1>6, <2>1, <2>2, <2>3 DEF ButtonsKnow, StartLog
  <2>6. OneReads'
    <3>1. \A s \in Sessions : s # logcat
      BY <2>1 DEF Sessions
    <3>2. \A s \in Sessions : s # logcat' => readers'[s] = readers[s]
      BY <1>1, <1>6, <2>3 DEF StartLog, LogTypes
    <3> QED
      BY <1>1, <1>6, <2>1, <2>3, <3>1, <3>2 DEF OneReads, StartLog
  <2>7. OwnLines'
    BY <1>2, <2>1 DEF OwnLines
  <2> QED
    BY <2>4, <2>5, <2>6, <2>7 DEF SessionIInv
<1>7. CASE StopLog
  <2>1. /\ logcat # 0 /\ Answers = {} /\ Answers' = {} /\ joining' = "stop" /\ client' = "stopping"
        /\ run' = [run EXCEPT ![logcat] = FALSE] /\ buttons' = buttons \ {"start", "stop"}
        /\ UNCHANGED <<logcat, started, readers, log, lines, saver, posted, shown>>
    BY <1>1, <1>7 DEF StopLog, ButtonsKnow, Answers
  <2> QED
    BY <1>1, <2>1 DEF SessionIInv, LogTypes, ButtonsKnow, OneReads, OwnLines
<1>8. CASE StoppedLog
  <2>1. /\ joining = "stop" /\ client = "stopping" /\ Answers = {} /\ readers[logcat] = "ended"
        /\ buttons \cap {"start", "stop"} = {} /\ Send(Message("stopped", <<>>))
    BY <1>1, <1>8 DEF StoppedLog, OneReads, ButtonsKnow
  <2>2. /\ posted' \in Seq(Messages) /\ posted' = Append(posted, Message("stopped", <<>>))
        /\ \A j \in Answers' : j = Len(posted) + 1 /\ posted'[j].kind = "stopped"
    BY <1>1, <1>2, <2>1, AnswerPosted DEF LogTypes
  <2>3. /\ UNCHANGED <<started, readers, run, log, lines, saver, shown, buttons>>
        /\ logcat' = 0 /\ joining' = "none" /\ client' = "idle"
    BY <1>8 DEF StoppedLog
  <2>4. LogTypes'
    BY <1>1, <2>2, <2>3, LogAssumption DEF LogTypes
  <2>5. ButtonsKnow'
    BY <2>1, <2>2, <2>3 DEF ButtonsKnow
  <2>6. OneReads' /\ OwnLines'
    BY <1>1, <2>1, <2>3 DEF OneReads, OwnLines
  <2> QED
    BY <2>4, <2>5, <2>6 DEF SessionIInv
<1> QED
  BY <1>3, <1>4, <1>5, <1>6, <1>7, <1>8

LEMMA HearingKeepsSessions ==
    ASSUME SessionIInv, HearLog
    PROVE  SessionIInv'
<1>1. LogTypes /\ ButtonsKnow /\ OneReads /\ OwnLines
  BY DEF SessionIInv
<1>2. /\ client = "idle" /\ posted # <<>> /\ posted' = Tail(posted)
      /\ shown' = ShownAfter(shown, Head(posted)) /\ buttons' = ButtonsAfter(Head(posted))
      /\ UNCHANGED <<logcat, started, readers, run, log, lines, joining, saver, client>>
  BY DEF HearLog
<1> DEFINE m == Head(posted)
<1>3. /\ m \in Messages /\ posted' \in Seq(Messages) /\ m = posted[1] /\ 1 \in DOMAIN posted
      /\ \A k \in Answers' : /\ k + 1 \in Answers /\ posted'[k] = posted[k + 1]
                            /\ k \in Nat \ {0}
  BY <1>1, <1>2, MessageHeard DEF LogTypes
<1> HIDE DEF m
<1>4. m.kind \in {"started", "stopped", "line"} /\ m.list \in Seq(Lines)
  BY <1>3 DEF Messages
<1>5. shown' = ShownAfter(shown, m) /\ buttons' = ButtonsAfter(m)
  BY <1>2 DEF m
<1>6. shown' = NoList \/ shown' \in Seq(Lines)
  <2>1. CASE m.kind = "line" /\ shown # NoList
    <3>1. shown \in Seq(Lines) /\ shown' = shown \o m.list
      BY <1>1, <1>5, <2>1 DEF LogTypes, ShownAfter
    <3> QED
      BY <1>4, <3>1, ConcatProperties
  <2>2. CASE ~(m.kind = "line" /\ shown # NoList)
    BY <1>1, <1>4, <1>5, <2>2 DEF LogTypes, ShownAfter
  <2> QED
    BY <2>1, <2>2
<1>7. buttons' \subseteq {"start", "stop", "options"}
  BY <1>1, <1>4, <1>5 DEF LogTypes, ButtonsAfter
<1>8. LogTypes'
  BY <1>1, <1>2, <1>3, <1>6, <1>7 DEF LogTypes
<1>9. ButtonsKnow'
  <2>1. \A k \in Answers : posted[k].kind = "started" <=> logcat # 0
    BY <1>1 DEF ButtonsKnow
  <2>2. CASE m.kind = "line"
    <3>1. "stop" \in buttons' <=> "stop" \in buttons
      BY <1>5, <2>2 DEF ButtonsAfter
    <3>2. "start" \in buttons' <=> "start" \in buttons
      BY <1>5, <2>2 DEF ButtonsAfter
    <3>3. Answers = {} => Answers' = {}
      BY <1>3
    <3>4. \A j, k \in Answers' : j = k
      BY <1>1, <1>3 DEF ButtonsKnow
    <3>5. \A k \in Answers' : posted'[k].kind = "started" <=> logcat # 0
      BY <1>3, <2>1
    <3> QED
      BY <1>1, <1>2, <3>1, <3>2, <3>3, <3>4, <3>5 DEF ButtonsKnow
  <2>3. CASE m.kind # "line"
    <3>1. 1 \in Answers
      BY <1>3, <2>3 DEF Answers
    <3>2. Answers' = {}
      <4> SUFFICES ASSUME NEW k \in Answers' PROVE FALSE
        OBVIOUS
      <4>1. k + 1 = 1 /\ k \in Nat \ {0}
        BY <1>1, <1>3, <3>1 DEF ButtonsKnow
      <4> QED
        BY <4>1
    <3>3. m.kind = "started" <=> logcat # 0
      BY <1>3, <2>1, <3>1
    <3>4. m.kind = "started" => "start" \notin buttons'
      BY <1>5 DEF ButtonsAfter
    <3>5. m.kind = "stopped" => "stop" \notin buttons'
      BY <1>5 DEF ButtonsAfter
    <3> QED
      BY <1>2, <1>4, <2>3, <3>2, <3>3, <3>4, <3>5 DEF ButtonsKnow
  <2> QED
    BY <2>2, <2>3
<1> QED
  BY <1>1, <1>2, <1>8, <1>9 DEF SessionIInv, OneReads, OwnLines

LEMMA SessionStep == SessionIInv /\ [LogNext]_logVars => SessionIInv'
<1> SUFFICES ASSUME SessionIInv, [LogNext]_logVars PROVE SessionIInv'
  OBVIOUS
<1>1. CASE UNCHANGED logVars
  BY <1>1 DEF logVars, SessionIInv, LogTypes, ButtonsKnow, Answers, OneReads, OwnLines
<1>2. CASE LogNext
  BY <1>2, ReadersKeepSessions, SaverKeepsSessions, CallsKeepSessions, HearingKeepsSessions
     DEF LogNext, LogSteps
<1> QED
  BY <1>1, <1>2

LEMMA AlwaysSessionIInv == LogSpec => []SessionIInv
BY SessionInit, SessionStep, PTL DEF LogSpec

(* However many lines come, onLog leaves the list with MAX_LINES + 1 lines  *)
(* at the most; what is posted to the activity are its three messages.     *)
THEOREM LogTypesHold == LogSpec => []LogTypeOK
<1>1. SessionIInv => LogTypeOK
  <2> SUFFICES ASSUME LogTypes PROVE LogTypeOK
    BY DEF SessionIInv
  <2>1. \A i \in DOMAIN posted : posted[i] \in Messages
    BY ElementOfSeq, LenProperties DEF LogTypes
  <2>2. logcat \in 0 .. MaxSessions
    BY LogAssumption DEF LogTypes
  <2> QED
    BY <2>1, <2>2 DEF LogTypes, LogTypeOK, Messages
<1> QED
  BY <1>1, AlwaysSessionIInv, PTL

(* A thread that outlives stop() would put a line of the earlier Logcat     *)
(* into the list of the next one: stop() joins it first, and no Logcat is  *)
(* started while another runs.                                             *)
THEOREM LinesAreOfTheSession == LogSpec => []OwnLines
<1>1. SessionIInv => OwnLines
  BY DEF SessionIInv
<1> QED
  BY <1>1, AlwaysSessionIInv, PTL

-----------------------------------------------------------------------------
(* What the activity shows *)

Views == Seq(Lines) \cup {NoList}

(* The list is the end of what is seen.                                    *)
IsEndOf(list, view) ==
    /\ Len(list) <= Len(view)
    /\ \A i \in 1 .. Len(list) : list[i] = view[i + (Len(view) - Len(list))]

(* What is seen of a list after some messages.                             *)
Seen(base, messages, list) ==
    LET view == LogFold!Folded(base, messages) IN view # NoList => IsEndOf(list, view)

ShownIInv == Seen(shown, posted, log) /\ (client = "clearing" => Seen(<<>>, posted, log))

LEMMA ReversedElements ==
    ASSUME NEW S, NEW s \in Seq(S)
    PROVE  /\ Reverse(s) \in Seq(S) /\ Len(Reverse(s)) = Len(s)
           /\ \A i \in 1 .. Len(s) : Reverse(s)[i] = s[Len(s) - i + 1]
<1>1. Len(s) \in Nat /\ \A i \in 1 .. Len(s) : s[i] \in S
  BY LenProperties, ElementOfSeq
<1>2. \A i \in 1 .. Len(s) : (Len(s) - i) + 1 \in 1 .. Len(s)
  BY <1>1
<1>3. Reverse(s) = [i \in 1 .. Len(s) |-> s[(Len(s) - i) + 1]]
  BY DEF Reverse
<1>4. Reverse(s) \in [1 .. Len(s) -> S]
  BY <1>1, <1>2, <1>3
<1> QED
  BY <1>1, <1>3, <1>4, LenProperties

LEMMA EndsIsSuffix ==
    ASSUME NEW S, NEW list \in Seq(S), NEW view \in Seq(S), IsEndOf(list, view)
    PROVE  IsSuffix(list, view)
<1> DEFINE l == Reverse(list)
           v == Reverse(view)
           n == Len(list)
           w == Len(view)
<1>1. n \in Nat /\ w \in Nat /\ n <= w
  BY LenProperties DEF IsEndOf
<1>2. l \in Seq(S) /\ Len(l) = n /\ \A i \in 1 .. n : l[i] = list[n - i + 1]
  BY ReversedElements
<1>3. v \in Seq(S) /\ Len(v) = w /\ \A i \in 1 .. w : v[i] = view[w - i + 1]
  BY ReversedElements
<1> HIDE DEF l, v
<1>4. ASSUME NEW i \in 1 .. n PROVE l[i] = v[i]
  <2>1. n - i + 1 \in 1 .. n /\ (n - i + 1) + (w - n) = w - i + 1 /\ i \in 1 .. w
    BY <1>1
  <2>2. list[n - i + 1] = view[(n - i + 1) + (w - n)]
    BY <2>1 DEF IsEndOf
  <2> QED
    BY <1>2, <1>3, <2>1, <2>2
<1>5. SubSeq(l, 1, n) = SubSeq(v, 1, n)
  BY <1>1, <1>2, <1>3, <1>4, SubSeqProperties
<1>6. Len(l) <= Len(v) /\ SubSeq(l, 1, Len(l)) = SubSeq(v, 1, Len(l))
  BY <1>1, <1>2, <1>3, <1>5
<1> QED
  BY <1>6 DEF IsSuffix, IsPrefix, l, v

LEMMA NoListIsNone == NoList \notin Seq(Lines)
<1> SUFFICES ASSUME NoList \in Seq(Lines) PROVE FALSE
  OBVIOUS
<1>1. Len(NoList) = 1 /\ NoList[1].session = 0
  BY DEF NoList
<1>2. 1 \in 1 .. Len(NoList)
  BY <1>1
<1>3. NoList[1] \in Lines
  <2> DEFINE list == NoList
  <2>1. list \in Seq(Lines) /\ 1 \in 1 .. Len(list)
    BY <1>2
  <2> HIDE DEF list
  <2>2. list[1] \in Lines
    BY <2>1, ElementOfSeq
  <2> QED
    BY <2>2 DEF list
<1> QED
  BY <1>1, <1>3 DEF Lines, Sessions

LEMMA ShownIsView ==
    ASSUME NEW view \in Views, NEW m \in Messages
    PROVE  ShownAfter(view, m) \in Views
<1>1. m.list \in Seq(Lines) /\ m.kind \in {"started", "stopped", "line"}
  BY DEF Messages
<1>2. CASE m.kind = "line" /\ view # NoList
  <2>1. view \in Seq(Lines) /\ ShownAfter(view, m) = view \o m.list
    BY <1>2 DEF Views, ShownAfter
  <2> QED
    BY <1>1, <2>1, ConcatProperties DEF Views
<1>3. CASE ~(m.kind = "line" /\ view # NoList)
  BY <1>1, <1>3 DEF Views, ShownAfter
<1> QED
  BY <1>2, <1>3

LEMMA FoldIsView ==
    ASSUME NEW base \in Views, NEW messages \in Seq(Messages)
    PROVE  LogFold!Folded(base, messages) \in Views
BY ShownIsView, LogFold!FoldStaysWithin

LEMMA NothingSeen ==
    ASSUME NEW base, NEW messages, NEW list, list = <<>>,
           LogFold!Folded(base, messages) \in Views
    PROVE  Seen(base, messages, list)
<1>1. Len(list) = 0
  OBVIOUS
<1>2. LogFold!Folded(base, messages) # NoList => Len(LogFold!Folded(base, messages)) \in Nat
  BY LenProperties DEF Views
<1> QED
  BY <1>1, <1>2 DEF Seen, IsEndOf

(* What is cut off at the front of the list stays to be seen.              *)
LEMMA TailEnds ==
    ASSUME NEW S, NEW list \in Seq(S), list # <<>>, NEW view \in Seq(S), IsEndOf(list, view)
    PROVE  IsEndOf(Tail(list), view)
<1> DEFINE t == Tail(list)
<1>1. /\ t \in Seq(S) /\ Len(t) = Len(list) - 1
      /\ \A i \in 1 .. Len(list) - 1 : t[i] = list[i + 1]
      /\ Len(list) \in Nat \ {0} /\ Len(view) \in Nat /\ Len(list) <= Len(view)
  BY HeadTailProperties, EmptySeq, LenProperties DEF IsEndOf
<1> HIDE DEF t
<1>2. ASSUME NEW i \in 1 .. Len(t) PROVE t[i] = view[i + (Len(view) - Len(t))]
  <2>1. i + 1 \in 1 .. Len(list) /\ (i + 1) + (Len(view) - Len(list)) = i + (Len(view) - Len(t))
    BY <1>1
  <2>2. list[i + 1] = view[(i + 1) + (Len(view) - Len(list))]
    BY <2>1 DEF IsEndOf
  <2> QED
    BY <1>1, <2>1, <2>2
<1>3. IsEndOf(t, view)
  BY <1>1, <1>2 DEF IsEndOf
<1> QED
  BY <1>3 DEF t

(* A line comes at the end of both.                                        *)
LEMMA BothGrow ==
    ASSUME NEW S, NEW list \in Seq(S), NEW view \in Seq(S), IsEndOf(list, view), NEW line \in S
    PROVE  IsEndOf(Append(list, line), view \o <<line>>)
<1> DEFINE longer == Append(list, line)
           seen == view \o <<line>>
           last == <<line>>
<1>1. Len(list) \in Nat /\ Len(view) \in Nat /\ Len(list) <= Len(view)
  BY LenProperties DEF IsEndOf
<1>2. /\ Len(longer) = Len(list) + 1 /\ longer[Len(list) + 1] = line
      /\ \A i \in 1 .. Len(list) : longer[i] = list[i]
  BY AppendProperties
<1>3. last \in Seq(S) /\ Len(last) = 1 /\ last[1] = line
  OBVIOUS
<1>4. seen = view \o last
  OBVIOUS
<1> HIDE DEF last, seen, longer
<1>5. /\ Len(seen) = Len(view) + 1
      /\ \A i \in 1 .. Len(view) + 1 :
           seen[i] = IF i <= Len(view) THEN view[i] ELSE last[i - Len(view)]
  <2>1. /\ Len(view \o last) = Len(view) + Len(last)
        /\ \A i \in 1 .. Len(view) + Len(last) :
             (view \o last)[i] = IF i <= Len(view) THEN view[i] ELSE last[i - Len(view)]
    BY <1>3, ConcatProperties, Zenon
  <2>2. /\ Len(seen) = Len(view) + Len(last)
        /\ \A i \in 1 .. Len(view) + Len(last) :
             seen[i] = IF i <= Len(view) THEN view[i] ELSE last[i - Len(view)]
    BY <1>4, <2>1, Zenon
  <2> QED
    BY <1>3, <2>2
<1>6. ASSUME NEW i \in 1 .. Len(longer)
      PROVE  longer[i] = seen[i + (Len(seen) - Len(longer))]
  <2>1. CASE i = Len(list) + 1
    <3>1. i + (Len(seen) - Len(longer)) = Len(view) + 1
      BY <1>1, <1>2, <1>5, <2>1
    <3>2. seen[Len(view) + 1] = last[(Len(view) + 1) - Len(view)]
      BY <1>1, <1>5
    <3>3. (Len(view) + 1) - Len(view) = 1
      BY <1>1
    <3> QED
      BY <1>2, <1>3, <2>1, <3>1, <3>2, <3>3
  <2>2. CASE i # Len(list) + 1
    <3>1. i \in 1 .. Len(list)
      BY <1>1, <1>2, <2>2
    <3>2. i + (Len(view) - Len(list)) \in 1 .. Len(view)
      BY <1>1, <3>1
    <3>3. i + (Len(seen) - Len(longer)) = i + (Len(view) - Len(list))
      BY <1>1, <1>2, <1>5, <3>1
    <3>4. list[i] = view[i + (Len(view) - Len(list))]
      BY <3>1 DEF IsEndOf
    <3> DEFINE j == i + (Len(view) - Len(list))
    <3>5. j \in 1 .. Len(view) + 1 /\ j <= Len(view)
      BY <1>1, <3>2
    <3> HIDE DEF j
    <3>6. seen[j] = view[j]
      BY <1>5, <3>5
    <3> QED
      BY <1>2, <3>1, <3>3, <3>4, <3>6 DEF j
  <2> QED
    BY <2>1, <2>2
<1>7. IsEndOf(longer, seen)
  BY <1>1, <1>2, <1>5, <1>6 DEF IsEndOf
<1> QED
  BY <1>7 DEF longer, seen

LEMMA LineSeen ==
    ASSUME NEW base \in Views, NEW messages \in Seq(Messages), NEW list \in Seq(Lines),
           Seen(base, messages, list), NEW line \in Lines
    PROVE  Seen(base, Append(messages, Message("line", <<line>>)),
                Append(IF Len(list) > MaxLines THEN Tail(list) ELSE list, line))
<1> DEFINE view == LogFold!Folded(base, messages)
           m == Message("line", <<line>>)
           t == IF Len(list) > MaxLines THEN Tail(list) ELSE list
<1>1. m \in Messages /\ m.kind = "line" /\ m.list = <<line>>
  BY DEF Message, Messages
<1>2. view \in Views
  BY FoldIsView
<1> HIDE DEF m
<1>3. LogFold!Folded(base, Append(messages, m)) = ShownAfter(view, m)
  BY <1>1, LogFold!FoldOfAppended
<1>4. CASE view = NoList
  BY <1>1, <1>3, <1>4 DEF Seen, ShownAfter, m
<1>5. CASE view # NoList
  <2>1. view \in Seq(Lines) /\ IsEndOf(list, view)
    BY <1>2, <1>5 DEF Views, Seen
  <2>2. t \in Seq(Lines) /\ IsEndOf(t, view)
    <3>1. CASE Len(list) > MaxLines
      <4>1. list # <<>>
        BY <3>1, LogAssumption, EmptySeq
      <4> HIDE DEF view
      <4>2. Tail(list) \in Seq(Lines) /\ IsEndOf(Tail(list), view)
        BY <2>1, <4>1, TailEnds, HeadTailProperties
      <4> QED
        BY <3>1, <4>2
    <3>2. CASE ~(Len(list) > MaxLines)
      BY <2>1, <3>2
    <3> QED
      BY <3>1, <3>2
  <2> HIDE DEF t
  <2>3. ShownAfter(view, m) = view \o <<line>>
    BY <1>1, <1>5 DEF ShownAfter
  <2>4. IsEndOf(Append(t, line), view \o <<line>>)
    <3> HIDE DEF view
    <3> QED
      BY <2>1, <2>2, BothGrow
  <2>5. IsEndOf(Append(t, line), LogFold!Folded(base, Append(messages, m)))
    BY <1>3, <2>3, <2>4
  <2> QED
    BY <2>5 DEF Seen, m, t
<1> QED
  BY <1>4, <1>5

-----------------------------------------------------------------------------
(* The steps *)

LEMMA ShownInit == LogInit => ShownIInv
<1> SUFFICES ASSUME LogInit PROVE ShownIInv
  OBVIOUS
<1>1. posted = <<>> /\ shown = NoList /\ client = "gone"
  BY DEF LogInit
<1>2. LogFold!Folded(shown, posted) = shown
  BY <1>1, LogFold!FoldOfNone
<1> QED
  BY <1>1, <1>2 DEF ShownIInv, Seen

(* The list that a new Logcat, or a client, begins with is posted.         *)
LEMMA ListSeen ==
    ASSUME NEW base \in Views, NEW messages \in Seq(Messages), NEW list \in Seq(Lines)
    PROVE  Seen(base, Append(messages, Message("started", list)), list)
<1> DEFINE m == Message("started", list)
<1>1. m \in Messages /\ m.kind = "started" /\ m.list = list
  BY DEF Message, Messages
<1> HIDE DEF m
<1>2. LogFold!Folded(base, Append(messages, m))
        = ShownAfter(LogFold!Folded(base, messages), m)
  BY <1>1, LogFold!FoldOfAppended
<1>3. ShownAfter(LogFold!Folded(base, messages), m) = list
  BY <1>1 DEF ShownAfter
<1> QED
  BY <1>2, <1>3, LenProperties DEF Seen, IsEndOf, m

LEMMA StopSeen ==
    ASSUME NEW base \in Views, NEW messages \in Seq(Messages), NEW list,
           Seen(base, messages, list), NEW nothing \in Seq(Lines)
    PROVE  Seen(base, Append(messages, Message("stopped", nothing)), list)
<1> DEFINE m == Message("stopped", nothing)
<1>1. m \in Messages /\ m.kind = "stopped"
  BY DEF Message, Messages
<1> HIDE DEF m
<1>2. LogFold!Folded(base, Append(messages, m)) = LogFold!Folded(base, messages)
  BY <1>1, LogFold!FoldOfAppended DEF ShownAfter
<1> QED
  BY <1>2 DEF Seen, m

LEMMA ShownStep == SessionIInv /\ ShownIInv /\ [LogNext]_logVars => ShownIInv'
<1> SUFFICES ASSUME SessionIInv, ShownIInv, [LogNext]_logVars PROVE ShownIInv'
  OBVIOUS
<1>1. LogTypes /\ OneReads
  BY DEF SessionIInv
<1>2. /\ log \in Seq(Lines) /\ posted \in Seq(Messages) /\ shown \in Views
      /\ <<>> \in Seq(Lines) /\ <<>> \in Views
  BY <1>1, EmptySeq DEF LogTypes, Views
<1>3. CASE UNCHANGED <<log, posted, shown>> /\ (client' = "clearing" => client = "clearing")
  BY <1>3 DEF ShownIInv, Seen
<1>4. ASSUME NEW s \in Sessions, OnLog(s) PROVE ShownIInv'
  <2> DEFINE line == [session |-> s, number |-> lines']
  <2>1. /\ log' = Appended(line) /\ Send(Message("line", <<line>>)) /\ UNCHANGED <<client, shown>>
        /\ lines \in 0 .. MaxRead /\ lines' = lines + 1 /\ lines < MaxRead /\ MaxRead \in Nat
    BY <1>1, <1>4, LogAssumption DEF OnLog, LogTypes
  <2>2. lines' \in 1 .. MaxRead
    BY <2>1
  <2>3. line \in Lines
    BY <2>2 DEF Lines
  <2> HIDE DEF line
  <2>4. CASE client = "gone"
    <3>1. posted' = <<>> /\ shown' = NoList /\ client' # "clearing"
      BY <1>1, <2>1, <2>4 DEF OneReads, Send
    <3>2. LogFold!Folded(NoList, <<>>) = NoList
      BY LogFold!FoldOfNone
    <3> QED
      BY <3>1, <3>2 DEF ShownIInv, Seen
  <2>5. CASE client # "gone"
    <3>1. /\ posted' = Append(posted, Message("line", <<line>>))
          /\ log' = Append(IF Len(log) > MaxLines THEN Tail(log) ELSE log, line)
      BY <2>1, <2>5 DEF Send, Appended
    <3>2. Seen(shown, posted', log')
      BY <1>2, <2>3, <3>1, LineSeen DEF ShownIInv
    <3>3. client = "clearing" => Seen(<<>>, posted', log')
      BY <1>2, <2>3, <3>1, LineSeen DEF ShownIInv
    <3> QED
      BY <2>1, <3>2, <3>3 DEF ShownIInv, Seen
  <2> QED
    BY <2>4, <2>5
<1>5. CASE TellRegistered
  <2>1. UNCHANGED <<log, shown>> /\ client = "registering" /\ client' = "idle"
    BY <1>5 DEF TellRegistered
  <2>2. \/ posted' = Append(posted, Message("started", log))
        \/ posted' = Append(posted, Message("stopped", <<>>))
    BY <1>5, <2>1 DEF TellRegistered, Send
  <2>3. Seen(shown, posted', log)
    BY <1>2, <2>2, ListSeen, StopSeen DEF ShownIInv
  <2> QED
    BY <2>1, <2>3 DEF ShownIInv, Seen
<1>6. CASE LeaveActivity
  <2>1. posted' = <<>> /\ shown' = NoList /\ client' = "gone"
    BY <1>6 DEF LeaveActivity
  <2>2. LogFold!Folded(NoList, <<>>) = NoList
    BY LogFold!FoldOfNone
  <2> QED
    BY <2>1, <2>2 DEF ShownIInv, Seen
<1>7. CASE StartLog
  <2>1. /\ UNCHANGED <<client, shown>> /\ client = "idle" /\ log' = <<>>
        /\ posted' = Append(posted, Message("started", <<>>))
    BY <1>7 DEF StartLog, Send
  <2>2. Seen(shown, posted', log')
    BY <1>2, <2>1, ListSeen
  <2> QED
    BY <2>1, <2>2 DEF ShownIInv, Seen
<1>8. CASE StoppedLog
  <2>1. /\ UNCHANGED <<log, shown>> /\ client' = "idle"
        /\ posted' = Append(posted, Message("stopped", <<>>))
    BY <1>1, <1>8 DEF StoppedLog, Send, OneReads
  <2>2. Seen(shown, posted', log)
    BY <1>2, <2>1, StopSeen DEF ShownIInv
  <2> QED
    BY <2>1, <2>2 DEF ShownIInv, Seen
<1>9. CASE ClearLog
  <2>1. UNCHANGED <<posted, shown>> /\ log' = <<>>
    BY <1>9 DEF ClearLog
  <2>2. Seen(shown, posted, log') /\ Seen(<<>>, posted, log')
    BY <1>2, <2>1, NothingSeen, FoldIsView
  <2> QED
    BY <2>1, <2>2 DEF ShownIInv, Seen
<1>10. CASE ClearShown
  <2>1. UNCHANGED <<posted, log>> /\ client = "clearing" /\ client' = "idle" /\ shown' = <<>>
    BY <1>10 DEF ClearShown
  <2> QED
    BY <2>1 DEF ShownIInv, Seen
<1>11. CASE HearLog
  <2>1. /\ client = "idle" /\ posted # <<>> /\ posted' = Tail(posted)
        /\ shown' = ShownAfter(shown, Head(posted)) /\ UNCHANGED <<client, log>>
    BY <1>11 DEF HearLog
  <2>2. LogFold!Folded(shown', posted') = LogFold!Folded(shown, posted)
    BY <1>2, <2>1, LogFold!FoldOfTail
  <2> QED
    BY <2>1, <2>2 DEF ShownIInv, Seen
<1>12. CASE UNCHANGED logVars
  BY <1>3, <1>12 DEF logVars
<1>13. CASE \E s \in Sessions : BeginReading(s) \/ ReadLine(s) \/ EndReading(s)
  BY <1>3, <1>13 DEF BeginReading, ReadLine, EndReading
<1>14. CASE SaveLog \/ TellSaved \/ RegisterCallback \/ StopLog \/ SaveClicked
  BY <1>3, <1>14 DEF SaveLog, TellSaved, RegisterCallback, StopLog, SaveClicked
<1> QED
  BY <1>4, <1>5, <1>6, <1>7, <1>8, <1>9, <1>10, <1>11, <1>12, <1>13, <1>14 DEF LogNext, LogSteps

(* Whatever lines come while the activity registers, clears, starts or     *)
(* stops, when it has shown what is posted the service's list is the end   *)
(* of what it shows.                                                       *)
THEOREM ActivityShowsTheLog == LogSpec => []ShownEndsWithLog
<1>1. SessionIInv /\ ShownIInv => ShownEndsWithLog
  <2> SUFFICES ASSUME LogTypes, ShownIInv PROVE ShownEndsWithLog
    BY DEF SessionIInv
  <2> DEFINE view == LogFold!Folded(shown, posted)
  <2>1. view = FoldLeft(ShownAfter, shown, posted)
    BY DEF LogFold!Folded, LogFold!FoldLeft, FoldLeft, LogFold!MapThenFoldSet,
           MapThenFoldSet, LogFold!Max, Max
  <2>2. view \in Views /\ log \in Seq(Lines)
    BY FoldIsView DEF LogTypes, Views
  <2>3. view # NoList => IsEndOf(log, view)
    BY DEF ShownIInv, Seen
  <2> HIDE DEF view
  <2>4. view # NoList => IsSuffix(log, view)
    BY <2>2, <2>3, EndsIsSuffix DEF Views
  <2> QED
    BY <2>1, <2>4 DEF ShownEndsWithLog
<1> QED
  BY <1>1, SessionInit, SessionStep, ShownInit, ShownStep, PTL DEF LogSpec

-----------------------------------------------------------------------------
(***************************************************************************)
(* AudioFocus.  The invariant follows the events that wait: the last of    *)
(* them, or the wake lock when none is left, says what the player does     *)
(* now; a Stopped waits only when the player is gone.                      *)
(***************************************************************************)
(* The player's events *)

LastEvent == events[Len(events)]

(* The last event that waits is this one; when none waits, the wake lock   *)
(* is what it made of it.                                                  *)
Settled(event, held) == IF events = <<>> THEN wake = held ELSE LastEvent = event

FocusKnown ==
    /\ hasFocus <=> system # "none"
    /\ interrupted => lossTransient /\ wasPlaying /\ hasFocus /\ player \in {"pausing", "paused"}
    /\ \A k \in DOMAIN events : events[k] = "Stopped" => player = "none"

WakeKnown ==
    /\ stopped => ~wake
    /\ ~listening => events = <<>> /\ ~wake /\ (stopTask \/ player = "none")
    /\ listening /\ player = "playing" => Settled("Playing", TRUE)
    /\ listening /\ player = "paused" => Settled("Paused", FALSE)
    /\ listening /\ player = "none" => Settled("Stopped", FALSE)

FocusTypes ==
    /\ player \in {"none", "starting", "playing", "pausing", "paused", "ended"}
    /\ system \in {"none", "ours", "call", "notification", "lost"}
    /\ events \in Seq(PlayerEvents) /\ changes \in Seq(FocusChanges)
    /\ stopTask \in BOOLEAN /\ listening \in BOOLEAN /\ stopped \in BOOLEAN
    /\ current \in BOOLEAN /\ wake \in BOOLEAN /\ hasFocus \in BOOLEAN
    /\ lossTransient \in BOOLEAN /\ wasPlaying \in BOOLEAN /\ interrupted \in BOOLEAN

FocusIInv == FocusTypes /\ FocusKnown /\ WakeKnown

LEMMA FocusStarts == FocusInit => FocusIInv
<1> SUFFICES ASSUME FocusInit PROVE FocusIInv
  OBVIOUS
<1>1. <<>> \in Seq(PlayerEvents) /\ <<>> \in Seq(FocusChanges) /\ DOMAIN <<>> = {}
  BY EmptySeq
<1>2. FocusTypes
  BY <1>1 DEF FocusInit, FocusTypes
<1>3. FocusKnown
  BY <1>1 DEF FocusInit, FocusKnown
<1>4. WakeKnown
  BY DEF FocusInit, WakeKnown
<1> QED
  BY <1>2, <1>3, <1>4 DEF FocusIInv

LEMMA EventPosted ==
    ASSUME events \in Seq(PlayerEvents), NEW event \in PlayerEvents, Post(event)
    PROVE  /\ events' \in Seq(PlayerEvents)
           /\ listening => events' # <<>> /\ LastEvent' = event
           /\ ~listening => events' = events
           /\ \A k \in DOMAIN events' :
                events'[k] = event \/ \E j \in DOMAIN events : events'[k] = events[j]
<1>1. CASE ~listening
  BY <1>1 DEF Post
<1>2. CASE listening
  <2>1. events' = Append(events, event)
    BY <1>2 DEF Post
  <2>2. /\ events' \in Seq(PlayerEvents) /\ Len(events') = Len(events) + 1 /\ Len(events) \in Nat
        /\ events'[Len(events) + 1] = event /\ events' # <<>>
        /\ \A k \in 1 .. Len(events) : events'[k] = events[k]
        /\ DOMAIN events' = 1 .. Len(events) + 1 /\ DOMAIN events = 1 .. Len(events)
    BY <2>1, AppendProperties, LenProperties
  <2> QED
    BY <1>2, <2>2 DEF LastEvent
<1> QED
  BY <1>1, <1>2

LEMMA EventTaken ==
    ASSUME events \in Seq(PlayerEvents), events # <<>>, events' = Tail(events)
    PROVE  /\ events' \in Seq(PlayerEvents)
           /\ IF events' = <<>> THEN LastEvent = Head(events) ELSE LastEvent' = LastEvent
           /\ \A k \in DOMAIN events' : \E j \in DOMAIN events : events'[k] = events[j]
           /\ \E j \in DOMAIN events : events[j] = Head(events)
<1>1. /\ Len(events) \in Nat \ {0} /\ events' \in Seq(PlayerEvents)
      /\ Len(events') = Len(events) - 1
      /\ \A k \in 1 .. Len(events) - 1 : events'[k] = events[k + 1]
      /\ Head(events) = events[1]
  BY EmptySeq, LenProperties, HeadTailProperties
<1>2. DOMAIN events = 1 .. Len(events) /\ DOMAIN events' = 1 .. Len(events) - 1
  BY <1>1, LenProperties
<1>3. CASE events' = <<>>
  <2>1. Len(events) = 1
    BY <1>1, <1>3, EmptySeq
  <2> QED
    BY <1>1, <1>2, <1>3, <2>1 DEF LastEvent
<1>4. CASE events' # <<>>
  <2>1. Len(events) - 1 \in 1 .. Len(events) - 1
    BY <1>1, <1>4, EmptySeq
  <2>2. LastEvent' = LastEvent
    BY <1>1, <2>1 DEF LastEvent
  <2> QED
    BY <1>1, <1>2, <1>4, <2>2
<1> QED
  BY <1>3, <1>4

(* What the player does                                                    *)
LEMMA PlayerKeepsFocus ==
    ASSUME FocusIInv, Starts \/ Pauses \/ Ends \/ Fails
    PROVE  FocusIInv'
<1>1. FocusTypes /\ FocusKnown /\ WakeKnown
  BY DEF FocusIInv
<1>2. PICK event \in {"Playing", "Paused", "EndReached", "EncounteredError"} :
        /\ Post(event) /\ player # "none"
        /\ UNCHANGED <<stopTask, listening, stopped, current, wake, hasFocus, system, changes,
                       lossTransient, wasPlaying, interrupted>>
        /\ player' = CASE event = "Playing" -> "playing" [] event = "Paused" -> "paused"
                       [] OTHER -> "ended"
        /\ event = "Paused" => player = "pausing"
        /\ event # "Paused" => player \in {"starting", "playing"}
  BY DEF Starts, Pauses, Ends, Fails, PlayerSteps, lossVars
<1>3. /\ events' \in Seq(PlayerEvents)
      /\ listening => events' # <<>> /\ LastEvent' = event
      /\ ~listening => events' = events
      /\ \A k \in DOMAIN events' :
           events'[k] = event \/ \E j \in DOMAIN events : events'[k] = events[j]
  BY <1>1, <1>2, EventPosted DEF FocusTypes, PlayerEvents
<1>4. \A k \in DOMAIN events' : events'[k] # "Stopped"
  BY <1>1, <1>2, <1>3 DEF FocusKnown
<1>5. FocusTypes'
  BY <1>1, <1>2, <1>3 DEF FocusTypes
<1>6. FocusKnown'
  BY <1>1, <1>2, <1>4 DEF FocusKnown
<1>7. WakeKnown'
  BY <1>1, <1>2, <1>3 DEF WakeKnown, Settled, FocusTypes
<1> QED
  BY <1>5, <1>6, <1>7 DEF FocusIInv

LEMMA StopTaskKeepsFocus ==
    ASSUME FocusIInv, RunStopTask
    PROVE  FocusIInv'
<1>1. FocusTypes /\ FocusKnown /\ WakeKnown
  BY DEF FocusIInv
<1>2. /\ stopTask' = FALSE /\ player' = "none" /\ interrupted' = FALSE
      /\ UNCHANGED <<listening, stopped, current, wake, hasFocus, system, changes,
                     lossTransient, wasPlaying>>
  BY DEF RunStopTask
<1>3. CASE player = "none" /\ events' = events
  BY <1>1, <1>2, <1>3 DEF FocusIInv, FocusTypes, FocusKnown, WakeKnown, Settled, LastEvent
<1>4. CASE Post("Stopped")
  <2>1. /\ events' \in Seq(PlayerEvents)
        /\ listening => events' # <<>> /\ LastEvent' = "Stopped"
        /\ ~listening => events' = events
    BY <1>1, <1>4, EventPosted DEF FocusTypes, PlayerEvents
  <2>2. FocusTypes' /\ FocusKnown'
    BY <1>1, <1>2, <2>1 DEF FocusTypes, FocusKnown
  <2>3. WakeKnown'
    BY <1>1, <1>2, <2>1 DEF WakeKnown, Settled
  <2> QED
    BY <2>2, <2>3 DEF FocusIInv
<1> QED
  BY <1>3, <1>4 DEF RunStopTask

(* What the system says, and what is made of it                            *)
LEMMA ChangesKeepFocus ==
    ASSUME FocusIInv, \/ Loss \/ Call \/ Notification \/ CallEnds \/ NotificationEnds
                      \/ DropChange \/ OnDuck
    PROVE  FocusIInv'
<1>1. FocusTypes /\ FocusKnown /\ WakeKnown
  BY DEF FocusIInv
<1>2. /\ UNCHANGED <<player, stopTask, listening, events, stopped, current, wake, hasFocus,
                     lossTransient, wasPlaying, interrupted>>
      /\ \/ system' = system
         \/ /\ system \in {"ours", "call", "notification"}
            /\ system' \in {"ours", "call", "notification", "lost"}
  BY DEF Loss, Call, Notification, CallEnds, NotificationEnds, DropChange, OnDuck, SystemSays,
         Heard, lossVars
<1>3. changes' \in Seq(FocusChanges)
  <2>1. CASE \E change \in FocusChanges : changes' = Append(changes, change)
    BY <1>1, <2>1, AppendProperties DEF FocusTypes
  <2>2. CASE changes # <<>> /\ changes' = Tail(changes)
    BY <1>1, <2>2, HeadTailProperties DEF FocusTypes
  <2> QED
    BY <2>1, <2>2 DEF Loss, Call, Notification, CallEnds, NotificationEnds, DropChange, OnDuck,
                      SystemSays, Heard, FocusChanges
<1>4. FocusTypes' /\ FocusKnown'
  BY <1>1, <1>2, <1>3 DEF FocusTypes, FocusKnown
<1>5. WakeKnown'
  BY <1>1, <1>2 DEF WakeKnown, Settled, LastEvent
<1> QED
  BY <1>4, <1>5 DEF FocusIInv

LEMMA ListenerKeepsFocus ==
    ASSUME FocusIInv, OnLoss \/ OnCall \/ OnGain \/ UserPlays \/ UserPauses
    PROVE  FocusIInv'
<1>1. FocusTypes /\ FocusKnown /\ WakeKnown
  BY DEF FocusIInv
<1>2. /\ UNCHANGED <<stopTask, listening, events, stopped, current, wake>>
      /\ changes' = changes \/ (changes # <<>> /\ changes' = Tail(changes))
  BY DEF OnLoss, OnCall, OnGain, UserPlays, UserPauses, Heard
<1>3. changes' \in Seq(FocusChanges)
  BY <1>1, <1>2, HeadTailProperties DEF FocusTypes
<1>4. player' = player \/ player' = PausedSoon \/ player' = Played
  BY DEF OnLoss, OnCall, OnGain, UserPlays, UserPauses
<1>5. /\ player' \in {"none", "starting", "playing", "pausing", "paused", "ended"}
      /\ player' \in {"none", "playing", "paused"} => player' = player
      /\ player = "none" => player' = "none"
  BY <1>1, <1>4 DEF PausedSoon, Played, FocusTypes
<1>9. /\ hasFocus' \in BOOLEAN /\ system' \in {"none", "ours", "call", "notification", "lost"}
      /\ hasFocus' <=> system' # "none"
  <2>1. CASE UNCHANGED <<hasFocus, system>>
    BY <1>1, <2>1 DEF FocusTypes, FocusKnown
  <2>2. CASE ChangeAudioFocus(FALSE)
    BY <1>1, <2>2 DEF FocusTypes, FocusKnown, ChangeAudioFocus
  <2> QED
    BY <2>1, <2>2 DEF OnLoss, OnCall, OnGain, UserPlays, UserPauses
<1>8. WakeKnown'
  BY <1>1, <1>2, <1>5 DEF WakeKnown, Settled, LastEvent
<1>10. CASE OnCall
  <2>1. /\ lossTransient' = TRUE /\ wasPlaying' = IsPlaying /\ player' = PausedSoon
        /\ interrupted' = (player = "playing") /\ UNCHANGED <<hasFocus, system>>
        /\ system # "none"
    BY <1>10 DEF OnCall, Registered
  <2>2. wasPlaying' \in BOOLEAN /\ interrupted' \in BOOLEAN
    BY <2>1 DEF IsPlaying
  <2>3. CASE player = "playing"
    <3>1. wasPlaying' = TRUE /\ player' = "pausing"
      BY <2>1, <2>3 DEF IsPlaying, PausedSoon
    <3>2. hasFocus'
      BY <1>1, <2>1 DEF FocusKnown
    <3>3. FocusTypes' /\ FocusKnown'
      BY <1>1, <1>2, <1>3, <1>5, <1>9, <2>1, <2>2, <2>3, <3>1, <3>2 DEF FocusTypes, FocusKnown
    <3> QED
      BY <1>8, <3>3 DEF FocusIInv
  <2>4. CASE player # "playing"
    <3>1. interrupted' = FALSE
      BY <2>1, <2>4
    <3>2. FocusTypes' /\ FocusKnown'
      BY <1>1, <1>2, <1>3, <1>5, <1>9, <2>1, <2>2, <3>1 DEF FocusTypes, FocusKnown
    <3> QED
      BY <1>8, <3>2 DEF FocusIInv
  <2> QED
    BY <2>3, <2>4
<1>11. CASE OnLoss \/ OnGain \/ UserPlays \/ UserPauses
  <2>1. interrupted' = FALSE /\ wasPlaying' = wasPlaying
    BY <1>11 DEF OnLoss, OnGain, UserPlays, UserPauses
  <2>2. lossTransient' \in BOOLEAN
    BY <1>1, <1>11 DEF OnLoss, OnGain, UserPlays, UserPauses, FocusTypes
  <2>3. FocusTypes' /\ FocusKnown'
    BY <1>1, <1>2, <1>3, <1>5, <1>9, <2>1, <2>2 DEF FocusTypes, FocusKnown
  <2> QED
    BY <1>8, <2>3 DEF FocusIInv
<1> QED
  BY <1>10, <1>11

(* A song that begins, and the end of playback                             *)
LEMMA SongKeepsFocus ==
    ASSUME FocusIInv, PlaySong, wake' \in BOOLEAN, wake' => wake
    PROVE  FocusIInv'
<1>1. FocusTypes /\ FocusKnown /\ WakeKnown
  BY DEF FocusIInv
<1>2. /\ listening' = TRUE /\ events' = <<>> /\ player' = "starting" /\ current' = TRUE
      /\ interrupted' = FALSE /\ UNCHANGED <<stopTask, stopped, changes, lossTransient, wasPlaying>>
  BY DEF PlaySong, DropEvents
<1>3. /\ hasFocus' \in BOOLEAN /\ system' \in {"none", "ours", "call", "notification", "lost"}
      /\ hasFocus' <=> system' # "none"
  BY <1>1 DEF PlaySong, ChangeAudioFocus, FocusTypes, FocusKnown
<1>4. events' \in Seq(PlayerEvents) /\ DOMAIN events' = {}
  BY <1>2, EmptySeq
<1>5. FocusTypes' /\ FocusKnown'
  BY <1>1, <1>2, <1>3, <1>4 DEF FocusTypes, FocusKnown
<1>6. WakeKnown'
  BY <1>1, <1>2 DEF WakeKnown
<1> QED
  BY <1>5, <1>6 DEF FocusIInv

LEMMA StopKeepsFocus ==
    ASSUME FocusIInv, StopPlayback, ReleaseWake \/ wake' = FALSE
    PROVE  FocusIInv'
<1>1. FocusTypes /\ FocusKnown /\ WakeKnown
  BY DEF FocusIInv
<1>2. /\ listening' = FALSE /\ events' = <<>> /\ stopTask' = TRUE /\ interrupted' = FALSE
      /\ UNCHANGED <<player, changes, lossTransient, wasPlaying>>
  BY DEF StopPlayback, DropEvents
<1>3. /\ hasFocus' \in BOOLEAN /\ system' \in {"none", "ours", "call", "notification", "lost"}
      /\ (hasFocus' <=> system' # "none") /\ stopped' = TRUE /\ current' \in BOOLEAN
  BY <1>1 DEF StopPlayback, OnPlaybackStopped, ChangeAudioFocus, FocusTypes, FocusKnown
<1>4. events' \in Seq(PlayerEvents) /\ DOMAIN events' = {} /\ wake' = FALSE
  BY <1>1, <1>2, EmptySeq DEF ReleaseWake, WakeKnown, FocusTypes
<1>5. FocusTypes' /\ FocusKnown'
  BY <1>1, <1>2, <1>3, <1>4 DEF FocusTypes, FocusKnown
<1>6. WakeKnown'
  BY <1>2, <1>4 DEF WakeKnown
<1> QED
  BY <1>5, <1>6 DEF FocusIInv

(* The player's listener                                                   *)
LEMMA EventsKeepFocus ==
    ASSUME FocusIInv, OnPlaying \/ OnPaused \/ OnStopped
    PROVE  FocusIInv'
<1>1. FocusTypes /\ FocusKnown /\ WakeKnown
  BY DEF FocusIInv
<1>2. /\ events # <<>> /\ events' = Tail(events)
      /\ UNCHANGED <<player, stopTask, listening, changes, lossTransient, wasPlaying, interrupted>>
  BY DEF OnPlaying, OnPaused, OnStopped, Arrived, lossVars
<1>3. /\ events' \in Seq(PlayerEvents)
      /\ IF events' = <<>> THEN LastEvent = Head(events) ELSE LastEvent' = LastEvent
      /\ \A k \in DOMAIN events' : \E j \in DOMAIN events : events'[k] = events[j]
      /\ \E j \in DOMAIN events : events[j] = Head(events)
  BY <1>1, <1>2, EventTaken DEF FocusTypes
<1>4. listening
  BY <1>1, <1>2 DEF WakeKnown
<1>5. \A k \in DOMAIN events' : events'[k] = "Stopped" => player' = "none"
  BY <1>1, <1>2, <1>3 DEF FocusKnown
<1>6. CASE OnPlaying
  <2>1. /\ Head(events) = "Playing" /\ stopped' = FALSE /\ wake' = TRUE /\ current' = current
        /\ ChangeAudioFocus(TRUE)
    BY <1>6 DEF OnPlaying, Arrived
  <2>2. /\ hasFocus' \in BOOLEAN /\ system' \in {"none", "ours", "call", "notification", "lost"}
        /\ (hasFocus' <=> system' # "none") /\ (hasFocus => hasFocus')
    BY <1>1, <2>1 DEF ChangeAudioFocus, FocusTypes, FocusKnown
  <2>3. FocusTypes' /\ FocusKnown'
    BY <1>1, <1>2, <1>3, <1>5, <2>1, <2>2 DEF FocusTypes, FocusKnown
  <2>4. WakeKnown'
    BY <1>1, <1>2, <1>3, <1>4, <2>1 DEF WakeKnown, Settled
  <2> QED
    BY <2>3, <2>4 DEF FocusIInv
<1>7. CASE OnPaused
  <2>1. /\ Head(events) = "Paused" /\ stopped' = FALSE /\ wake' = FALSE
        /\ UNCHANGED <<current, hasFocus, system>>
    BY <1>7 DEF OnPaused, Arrived
  <2>2. FocusTypes' /\ FocusKnown'
    BY <1>1, <1>2, <1>3, <1>5, <2>1 DEF FocusTypes, FocusKnown
  <2>3. WakeKnown'
    BY <1>1, <1>2, <1>3, <1>4, <2>1 DEF WakeKnown, Settled
  <2> QED
    BY <2>2, <2>3 DEF FocusIInv
<1>8. CASE OnStopped
  <2>1. Head(events) = "Stopped" /\ OnPlaybackStopped /\ ReleaseWake
    BY <1>8 DEF OnStopped, Arrived
  <2>2. player = "none"
    BY <1>1, <1>3, <2>1 DEF FocusKnown
  <2>3. /\ hasFocus' \in BOOLEAN /\ system' \in {"none", "ours", "call", "notification", "lost"}
        /\ (hasFocus' <=> system' # "none") /\ stopped' = TRUE /\ current' \in BOOLEAN
    BY <1>1, <2>1 DEF OnPlaybackStopped, ChangeAudioFocus, FocusTypes, FocusKnown
  <2>4. wake' = FALSE
    BY <1>1, <2>1 DEF ReleaseWake, WakeKnown, FocusTypes
  <2>5. FocusTypes' /\ FocusKnown'
    BY <1>1, <1>2, <1>3, <1>5, <2>2, <2>3, <2>4 DEF FocusTypes, FocusKnown
  <2>6. WakeKnown'
    BY <1>1, <1>2, <1>3, <1>4, <2>1, <2>2, <2>4 DEF WakeKnown, Settled
  <2> QED
    BY <2>5, <2>6 DEF FocusIInv
<1> QED
  BY <1>6, <1>7, <1>8

LEMMA FocusStep == FocusIInv /\ [FocusNext]_focusVars => FocusIInv'
<1> SUFFICES ASSUME FocusIInv, [FocusNext]_focusVars PROVE FocusIInv'
  OBVIOUS
<1>1. CASE UNCHANGED focusVars
  BY <1>1 DEF focusVars, FocusIInv, FocusTypes, FocusKnown, WakeKnown, Settled, LastEvent
<1>2. wake \in BOOLEAN
  BY DEF FocusIInv, FocusTypes
<1>3. CASE UserLoads
  BY <1>2, <1>3, SongKeepsFocus DEF UserLoads
<1>4. CASE UserStops
  BY <1>4, StopKeepsFocus DEF UserStops
<1>5. CASE OnEndReached
  <2>1. CASE PlaySong /\ UNCHANGED wake
    BY <1>2, <2>1, SongKeepsFocus
  <2>2. CASE StopPlayback /\ ReleaseWake
    BY <2>2, StopKeepsFocus
  <2> QED
    BY <1>5, <2>1, <2>2 DEF OnEndReached
<1>6. CASE OnError
  BY <1>2, <1>6, SongKeepsFocus, StopKeepsFocus DEF OnError
<1> QED
  BY <1>1, <1>3, <1>4, <1>5, <1>6, PlayerKeepsFocus, StopTaskKeepsFocus, ChangesKeepFocus,
     ListenerKeepsFocus, EventsKeepFocus DEF FocusNext

LEMMA AlwaysFocusIInv == FocusSpec => []FocusIInv
BY FocusStarts, FocusStep, PTL DEF FocusSpec

(* The player, the system and the messages that wait never leave their     *)
(* enumerations.                                                           *)
THEOREM FocusTypesHold == FocusSpec => []FocusTypeOK
<1>1. FocusIInv => FocusTypeOK
  BY DEF FocusIInv, FocusTypes, FocusTypeOK
<1> QED
  BY <1>1, AlwaysFocusIInv, PTL

(* Whatever losses the system sends on top of each other: a song that a    *)
(* call has paused keeps the flags by which the end of the call resumes    *)
(* it, until somebody touches the player.                                  *)
THEOREM CallStaysRemembered == FocusSpec => []CallIsRemembered
<1>1. FocusIInv => CallIsRemembered
  BY DEF FocusIInv, FocusKnown, CallIsRemembered
<1> QED
  BY <1>1, AlwaysFocusIInv, PTL

(* The wake lock is held while a song plays and not while it is paused or  *)
(* over, once the player's events were heard: although a new song drops    *)
(* those of the last one that wait, and stopPlayback() those that come.    *)
THEOREM LockFollowsSong == FocusSpec => []WakeLockFollows
<1>1. FocusIInv => WakeLockFollows
  BY DEF FocusIInv, FocusTypes, WakeKnown, Settled, WakeLockFollows
<1> QED
  BY <1>1, AlwaysFocusIInv, PTL

-----------------------------------------------------------------------------
(***************************************************************************)
(* PlaybackNotification, for any number of updates.  The invariant orders  *)
(* the tasks by the update each was asked after, which gives the last one  *)
(* that has run; its metadata are set, or in the one message that waits.   *)
(***************************************************************************)
(* The updates in their order *)

Tasks == [kind : {"update", "show", "hide"}, of : 0 .. MaxMeta]
Notes == [there : BOOLEAN, of : 0 .. MaxMeta, metadata : 0 .. MaxMeta, overlap : BOOLEAN]

NoteTypes ==
    /\ asked \in 0 .. MaxMeta /\ metadata \in 0 .. MaxMeta /\ tasks \in Seq(Tasks)
    /\ executor \in {"free", "updating", "asleep", "woken"} /\ setters \in Seq(0 .. MaxMeta)
    /\ notification \in Notes
    /\ updateMeta \in BOOLEAN /\ overlap \in BOOLEAN /\ session \in BOOLEAN
    /\ crashed \in BOOLEAN

One(kind) == IF kind = "update" THEN 1 ELSE 0

(* Each task is for the last update asked for before it.                   *)
Ordered(queue, last) ==
    /\ queue # <<>> => queue[Len(queue)].of = last
    /\ \A k \in 2 .. Len(queue) : queue[k].of = queue[k - 1].of + One(queue[k].kind)

(* The last update that has run, when those that wait are known.           *)
Updated(queue, last) ==
    IF queue = <<>> THEN last ELSE queue[1].of - One(queue[1].kind)

(* What the last update gathered is in the session, or in the one message  *)
(* that will set it, as long as the update did not begin too early.        *)
SetInTime ==
    ~crashed /\ ~overlap =>
      IF executor = "updating" THEN updateMeta /\ setters = <<>>
      ELSE IF updateMeta THEN setters = <<Updated(tasks, asked)>>
      ELSE setters = <<>> /\ metadata = Updated(tasks, asked)

NoteIInv == NoteTypes /\ Ordered(tasks, asked) /\ SetInTime /\ NotificationIsFresh

LEMMA NoteStarts == NoteInit => NoteIInv
<1> SUFFICES ASSUME NoteInit PROVE NoteIInv
  OBVIOUS
<1>1. <<>> \in Seq(Tasks) /\ <<>> \in Seq(0 .. MaxMeta) /\ Len(<<>>) = 0 /\ 0 \in 0 .. MaxMeta
  BY EmptySeq, TasksAssumption
<1>2. Hidden \in Notes /\ Hidden.there = FALSE
  BY <1>1 DEF Hidden, Notes
<1>3. NoteTypes
  BY <1>1, <1>2 DEF NoteInit, NoteTypes
<1>4. Ordered(tasks, asked)
  <2>1. tasks = <<>> /\ Len(tasks) = 0
    BY <1>1 DEF NoteInit
  <2> QED
    BY <2>1 DEF Ordered
<1>5. SetInTime
  BY DEF NoteInit, SetInTime, Updated
<1> QED
  BY <1>2, <1>3, <1>4, <1>5 DEF NoteInit, NoteIInv, NotificationIsFresh

(* A task comes last,                                                      *)
LEMMA TaskAppended ==
    ASSUME NEW queue \in Seq(Tasks), NEW last \in 0 .. MaxMeta, Ordered(queue, last),
           NEW kind \in {"update", "show", "hide"}, NEW of \in 0 .. MaxMeta,
           of = last + One(kind)
    PROVE  LET longer == Append(queue, [kind |-> kind, of |-> of])
           IN  /\ longer \in Seq(Tasks) /\ Ordered(longer, of)
               /\ Updated(longer, of) = Updated(queue, last)
<1> DEFINE task == [kind |-> kind, of |-> of]
           longer == Append(queue, task)
           n == Len(queue)
<1>1. task \in Tasks /\ task.kind = kind /\ task.of = of
  BY DEF Tasks
<1> HIDE DEF task
<1>2. /\ n \in Nat /\ longer \in Seq(Tasks) /\ Len(longer) = n + 1 /\ longer[n + 1] = task
      /\ \A k \in 1 .. n : longer[k] = queue[k]
      /\ longer # <<>>
  BY <1>1, LenProperties, AppendProperties
<1> HIDE DEF longer
<1>3. /\ last \in Nat /\ of \in Nat /\ One(kind) \in {0, 1}
      /\ \A k \in 1 .. n : queue[k].of \in Nat
  <2>1. \A k \in 1 .. n : queue[k] \in Tasks
    BY ElementOfSeq
  <2> QED
    BY <2>1, TasksAssumption DEF Tasks, One
<1>4. CASE n = 0
  <2>1. queue = <<>>
    BY <1>4, EmptySeq
  <2>2. Updated(longer, of) = Updated(queue, last)
    BY <1>1, <1>2, <1>3, <1>4, <2>1 DEF Updated
  <2>3. Ordered(longer, of)
    BY <1>1, <1>2, <1>4 DEF Ordered
  <2> QED
    BY <1>2, <2>2, <2>3 DEF longer, task
<1>5. CASE n # 0
  <2>1. queue # <<>> /\ n \in 1 .. n /\ 1 \in 1 .. n
    BY <1>2, <1>5, EmptySeq
  <2>2. Updated(longer, of) = Updated(queue, last)
    BY <1>2, <2>1 DEF Updated
  <2>3. queue[n].of = last
    BY <2>1 DEF Ordered
  <2>4. ASSUME NEW k \in 2 .. n + 1
        PROVE  longer[k].of = longer[k - 1].of + One(longer[k].kind)
    <3>1. CASE k = n + 1
      <4>1. longer[k] = task /\ longer[k - 1] = queue[n]
        BY <1>2, <2>1, <3>1
      <4> QED
        BY <1>1, <2>3, <4>1
    <3>2. CASE k # n + 1
      <4>1. k \in 2 .. n /\ k \in 1 .. n /\ k - 1 \in 1 .. n
        BY <1>2, <3>2
      <4>2. longer[k] = queue[k] /\ longer[k - 1] = queue[k - 1]
        BY <1>2, <4>1
      <4> QED
        BY <4>1, <4>2 DEF Ordered
    <3> QED
      BY <3>1, <3>2
  <2>5. Ordered(longer, of)
    BY <1>1, <1>2, <2>4 DEF Ordered
  <2> QED
    BY <1>2, <2>2, <2>5 DEF longer, task
<1> QED
  BY <1>4, <1>5

(* and the first one runs.                                                 *)
LEMMA TaskRuns ==
    ASSUME NEW queue \in Seq(Tasks), queue # <<>>, NEW last \in 0 .. MaxMeta,
           Ordered(queue, last)
    PROVE  /\ Head(queue) \in Tasks /\ Tail(queue) \in Seq(Tasks) /\ Head(queue) = queue[1]
           /\ Ordered(Tail(queue), last) /\ Updated(Tail(queue), last) = Head(queue).of
<1> DEFINE n == Len(queue)
           t == Tail(queue)
<1>1. /\ n \in Nat \ {0} /\ t \in Seq(Tasks) /\ Len(t) = n - 1
      /\ \A k \in 1 .. n - 1 : t[k] = queue[k + 1]
      /\ Head(queue) = queue[1] /\ Head(queue) \in Tasks
  BY EmptySeq, LenProperties, HeadTailProperties
<1> HIDE DEF t
<1>2. \A k \in 1 .. n : queue[k].of \in Nat /\ One(queue[k].kind) \in {0, 1}
  <2>1. \A k \in 1 .. n : queue[k] \in Tasks
    BY ElementOfSeq
  <2> QED
    BY <2>1, TasksAssumption DEF Tasks, One
<1>3. CASE n = 1
  <2>1. t = <<>> /\ Len(t) = 0
    BY <1>1, <1>3, EmptySeq
  <2>2. queue[1].of = last
    BY <1>3 DEF Ordered
  <2> QED
    BY <1>1, <2>1, <2>2 DEF Ordered, Updated, t
<1>4. CASE n # 1
  <2>1. t # <<>> /\ n - 1 \in 1 .. n - 1 /\ 1 \in 1 .. n - 1 /\ 2 \in 2 .. n /\ (n - 1) + 1 = n
    BY <1>1, <1>4, EmptySeq
  <2>2. t[n - 1] = queue[n] /\ t[1] = queue[2]
    <3>1. t[n - 1] = queue[(n - 1) + 1] /\ t[1] = queue[1 + 1]
      BY <1>1, <2>1
    <3> QED
      BY <2>1, <3>1
  <2>3. ASSUME NEW k \in 2 .. n - 1 PROVE t[k].of = t[k - 1].of + One(t[k].kind)
    <3>1. k + 1 \in 2 .. n /\ (k + 1) - 1 = k /\ k \in 1 .. n - 1 /\ k - 1 \in 1 .. n - 1
          /\ (k - 1) + 1 = k
      BY <1>1
    <3>2. t[k] = queue[k + 1] /\ t[k - 1] = queue[k]
      BY <1>1, <3>1
    <3>3. queue[k + 1].of = queue[(k + 1) - 1].of + One(queue[k + 1].kind)
      BY <3>1 DEF Ordered
    <3> QED
      BY <3>1, <3>2, <3>3
  <2>4. Ordered(t, last)
    BY <1>1, <2>1, <2>2, <2>3 DEF Ordered
  <2>5. Updated(t, last) = queue[1].of
    <3>1. queue[2].of = queue[2 - 1].of + One(queue[2].kind) /\ 2 - 1 = 1
      BY <2>1 DEF Ordered
    <3>2. 1 \in 1 .. n /\ 2 \in 1 .. n
      BY <1>1, <1>4
    <3>3. queue[1].of \in Nat /\ One(queue[2].kind) \in {0, 1}
      BY <1>2, <3>2
    <3>4. queue[2].of - One(queue[2].kind) = queue[1].of
      BY <3>1, <3>3
    <3> QED
      BY <2>1, <2>2, <3>4 DEF Updated
  <2> QED
    BY <1>1, <2>4, <2>5 DEF t
<1> QED
  BY <1>3, <1>4

(* The main thread                                                         *)
LEMMA AskingKeepsNotes ==
    ASSUME NoteIInv, UpdateMetadata \/ ShowNotification \/ HideNotification \/ DestroyService
    PROVE  NoteIInv'
<1>1. NoteTypes /\ Ordered(tasks, asked) /\ SetInTime /\ NotificationIsFresh
  BY DEF NoteIInv
<1>2. /\ UNCHANGED <<executor, updateMeta, overlap, setters, metadata, notification, crashed>>
      /\ session' \in BOOLEAN
  BY <1>1 DEF UpdateMetadata, ShowNotification, HideNotification, DestroyService, NoteTypes
<1>3. /\ asked' \in 0 .. MaxMeta /\ tasks' \in Seq(Tasks) /\ Ordered(tasks, asked)'
      /\ Updated(tasks, asked)' = Updated(tasks, asked)
  <2>1. CASE UNCHANGED <<tasks, asked>>
    BY <1>1, <2>1 DEF NoteTypes, Ordered, Updated
  <2>2. CASE ~UNCHANGED <<tasks, asked>>
    <3>1. PICK kind \in {"update", "show", "hide"} :
            /\ asked' = asked + One(kind) /\ asked' \in 0 .. MaxMeta
            /\ tasks' = Append(tasks, [kind |-> kind, of |-> asked'])
      <4>1. asked \in 0 .. MaxMeta /\ MaxMeta \in Nat /\ asked + 0 = asked
        BY <1>1, TasksAssumption DEF NoteTypes
      <4>2. CASE UpdateMetadata
        <5>1. asked < MaxMeta /\ asked' = asked + 1
              /\ tasks' = Append(tasks, [kind |-> "update", of |-> asked'])
          BY <4>2 DEF UpdateMetadata, Execute
        <5> QED
          BY <4>1, <5>1 DEF One
      <4>3. CASE ShowNotification
        <5>1. asked' = asked /\ tasks' = Append(tasks, [kind |-> "show", of |-> asked'])
          BY <4>3 DEF ShowNotification, Execute
        <5> QED
          BY <4>1, <5>1 DEF One
      <4>4. CASE HideNotification \/ DestroyService
        <5>1. asked' = asked /\ tasks' = Append(tasks, [kind |-> "hide", of |-> asked'])
          BY <2>2, <4>4 DEF HideNotification, DestroyService, Execute
        <5> QED
          BY <4>1, <5>1 DEF One
      <4> QED
        BY <4>2, <4>3, <4>4
    <3>2. /\ tasks' \in Seq(Tasks) /\ Ordered(tasks', asked')
          /\ Updated(tasks', asked') = Updated(tasks, asked)
      BY <1>1, <3>1, TaskAppended DEF NoteTypes
    <3> QED
      BY <3>1, <3>2 DEF Ordered, Updated
  <2> QED
    BY <2>1, <2>2
<1>4. NoteTypes'
  BY <1>1, <1>2, <1>3 DEF NoteTypes
<1>5. SetInTime'
  BY <1>1, <1>2, <1>3 DEF SetInTime
<1> QED
  BY <1>1, <1>2, <1>3, <1>4, <1>5 DEF NoteIInv, NotificationIsFresh

LEMMA SettingKeepsNotes ==
    ASSUME NoteIInv, SetMetadata
    PROVE  NoteIInv'
<1>1. NoteTypes /\ Ordered(tasks, asked) /\ SetInTime /\ NotificationIsFresh
  BY DEF NoteIInv
<1>2. /\ ~crashed /\ setters # <<>> /\ setters' = Tail(setters)
      /\ UNCHANGED <<asked, tasks, overlap, session, notification>>
  BY DEF SetMetadata
<1>3. setters' \in Seq(0 .. MaxMeta) /\ Head(setters) \in 0 .. MaxMeta
  BY <1>1, <1>2, HeadTailProperties DEF NoteTypes
<1>4. Ordered(tasks, asked)' /\ Updated(tasks, asked)' = Updated(tasks, asked)
  BY <1>1, <1>2 DEF Ordered, Updated
<1>5. CASE session
  <2>1. /\ metadata' = Head(setters) /\ updateMeta' = FALSE /\ crashed' = crashed
        /\ executor' = IF executor = "asleep" THEN "woken" ELSE executor
    BY <1>5 DEF SetMetadata
  <2>2. NoteTypes'
    BY <1>1, <1>2, <1>3, <2>1 DEF NoteTypes
  <2>3. SetInTime'
    <3> SUFFICES ASSUME ~overlap PROVE SetInTime'
      BY <1>2 DEF SetInTime
    <3>1. executor # "updating" /\ setters = <<Updated(tasks, asked)>>
      BY <1>1, <1>2 DEF SetInTime
    <3>2. Tail(setters) = <<>> /\ Head(setters) = Updated(tasks, asked)
      BY <3>1
    <3> QED
      BY <1>2, <1>4, <2>1, <3>1, <3>2 DEF SetInTime
  <2> QED
    BY <1>1, <1>2, <1>4, <2>2, <2>3 DEF NoteIInv, NotificationIsFresh
<1>6. CASE ~session
  <2>1. crashed' = TRUE /\ UNCHANGED <<metadata, updateMeta, executor>>
    BY <1>6 DEF SetMetadata
  <2>2. NoteTypes' /\ SetInTime'
    BY <1>1, <1>2, <1>3, <2>1 DEF NoteTypes, SetInTime
  <2> QED
    BY <1>1, <1>2, <1>4, <2>2 DEF NoteIInv, NotificationIsFresh
<1> QED
  BY <1>5, <1>6

LEMMA ExecutorKeepsNotes ==
    ASSUME NoteIInv, ExecutorStep
    PROVE  NoteIInv'
<1>1. NoteTypes /\ Ordered(tasks, asked) /\ SetInTime /\ NotificationIsFresh
  BY DEF NoteIInv
<1>2. /\ ~crashed /\ tasks # <<>> /\ UNCHANGED <<asked, metadata, session>>
  BY DEF ExecutorStep, BeginUpdate, EndUpdate, WaitForMetadata, Show, Hide, Runs
<1>3. /\ Head(tasks) \in Tasks /\ Tail(tasks) \in Seq(Tasks) /\ Head(tasks) = tasks[1]
      /\ Ordered(Tail(tasks), asked) /\ Updated(Tail(tasks), asked) = Head(tasks).of
  BY <1>1, <1>2, TaskRuns DEF NoteTypes
<1>4. Head(tasks).of \in 0 .. MaxMeta
  BY <1>3 DEF Tasks
<1>5. CASE BeginUpdate
  BY <1>1, <1>2, <1>5
     DEF BeginUpdate, NoteIInv, NoteTypes, Ordered, SetInTime, NotificationIsFresh
<1>6. CASE EndUpdate
  <2>1. /\ executor = "updating" /\ executor' = "free" /\ tasks' = Tail(tasks)
        /\ setters' = Append(setters, Head(tasks).of)
        /\ UNCHANGED <<updateMeta, overlap, notification, crashed>>
    BY <1>6 DEF EndUpdate, Done
  <2>2. setters' \in Seq(0 .. MaxMeta)
    BY <1>1, <1>4, <2>1, AppendProperties DEF NoteTypes
  <2>3. NoteTypes'
    BY <1>1, <1>2, <1>3, <2>1, <2>2 DEF NoteTypes
  <2>4. Ordered(tasks', asked') /\ Updated(tasks', asked') = Head(tasks).of
    BY <1>2, <1>3, <2>1
  <2>5. SetInTime'
    <3> SUFFICES ASSUME ~overlap PROVE SetInTime'
      BY <2>1 DEF SetInTime
    <3>1. updateMeta /\ setters = <<>>
      BY <1>1, <1>2, <2>1 DEF SetInTime
    <3>2. setters' = <<Head(tasks).of>>
      BY <2>1, <3>1
    <3> QED
      BY <2>1, <2>4, <3>1, <3>2 DEF SetInTime, Updated
  <2> QED
    BY <1>1, <1>2, <2>1, <2>3, <2>4, <2>5 DEF NoteIInv, NotificationIsFresh, Ordered
<1>7. CASE WaitForMetadata
  BY <1>1, <1>2, <1>7
     DEF WaitForMetadata, NoteIInv, NoteTypes, Ordered, SetInTime, Updated, NotificationIsFresh
<1>8. CASE Show
  <2>1. /\ executor # "updating" /\ ~updateMeta /\ Head(tasks).kind = "show"
        /\ UNCHANGED <<updateMeta, overlap, setters>>
    BY <1>8 DEF Show, Runs
  <2>2. Updated(tasks, asked) = Head(tasks).of
    BY <1>2, <1>3, <1>4, <2>1, TasksAssumption DEF Updated, One
  <2>3. CASE session
    <3>1. /\ notification' = [there |-> TRUE, of |-> Head(tasks).of, metadata |-> metadata,
                              overlap |-> overlap]
          /\ tasks' = Tail(tasks) /\ executor' = "free" /\ crashed' = crashed
      BY <1>8, <2>3 DEF Show, Done
    <3>2. notification' \in Notes
      BY <1>1, <1>4, <3>1 DEF Notes, NoteTypes
    <3>3. NoteTypes'
      BY <1>1, <1>2, <1>3, <2>1, <3>1, <3>2 DEF NoteTypes
    <3>4. Ordered(tasks', asked') /\ Updated(tasks', asked') = Head(tasks).of
      BY <1>2, <1>3, <3>1
    <3>5. SetInTime'
      BY <1>1, <1>2, <2>1, <2>2, <3>1, <3>4 DEF SetInTime, Updated
    <3>6. NotificationIsFresh'
      BY <1>1, <1>2, <2>1, <2>2, <3>1 DEF SetInTime, NotificationIsFresh
    <3> QED
      BY <3>3, <3>4, <3>5, <3>6 DEF NoteIInv, Ordered
  <2>4. CASE ~session
    <3>1. crashed' = TRUE /\ UNCHANGED <<notification, tasks, executor>>
      BY <1>8, <2>4 DEF Show
    <3> QED
      BY <1>1, <1>2, <2>1, <3>1
         DEF NoteIInv, NoteTypes, Ordered, SetInTime, NotificationIsFresh
  <2> QED
    BY <2>3, <2>4
<1>9. CASE Hide
  <2>1. /\ executor = "free" /\ Head(tasks).kind = "hide"
        /\ tasks' = Tail(tasks) /\ executor' = "free" /\ notification' = Hidden
        /\ UNCHANGED <<updateMeta, overlap, setters, crashed>>
    BY <1>9 DEF Hide, Runs, Done
  <2>2. Updated(tasks, asked) = Head(tasks).of
    BY <1>2, <1>3, <1>4, <2>1, TasksAssumption DEF Updated, One
  <2>3. Hidden \in Notes /\ ~Hidden.there
    BY TasksAssumption DEF Hidden, Notes
  <2>4. NoteTypes'
    BY <1>1, <1>2, <1>3, <2>1, <2>3 DEF NoteTypes
  <2>5. Ordered(tasks', asked') /\ Updated(tasks', asked') = Head(tasks).of
    BY <1>2, <1>3, <2>1
  <2>6. SetInTime'
    BY <1>1, <1>2, <2>1, <2>2, <2>5 DEF SetInTime, Updated
  <2> QED
    BY <2>1, <2>3, <2>4, <2>5, <2>6 DEF NoteIInv, NotificationIsFresh, Ordered
<1> QED
  BY <1>5, <1>6, <1>7, <1>8, <1>9 DEF ExecutorStep

LEMMA NoteStep == NoteIInv /\ [NoteNext]_noteVars => NoteIInv'
<1> SUFFICES ASSUME NoteIInv, [NoteNext]_noteVars PROVE NoteIInv'
  OBVIOUS
<1>1. CASE UNCHANGED noteVars
  BY <1>1 DEF noteVars, NoteIInv, NoteTypes, Ordered, SetInTime, Updated, NotificationIsFresh
<1> QED
  BY <1>1, AskingKeepsNotes, SettingKeepsNotes, ExecutorKeepsNotes DEF NoteNext

LEMMA AlwaysNoteIInv == NoteSpec => []NoteIInv
BY NoteStarts, NoteStep, PTL DEF NoteSpec

(* The updates are numbered in the order they were asked for: no task and  *)
(* no message is ever for one that was not asked.                          *)
THEOREM NoteTypesHold == NoteSpec => []NoteTypeOK
<1>1. NoteIInv => NoteTypeOK
  BY DEF NoteIInv, NoteTypes, Tasks, Notes, NoteTypeOK
<1> QED
  BY <1>1, AlwaysNoteIInv, PTL

(* showNotification() shows the metadata of the media it was called for,   *)
(* through two queues and the flag the executor waits on, as long as no    *)
(* update begins before the last one was set.                              *)
THEOREM NotificationStaysFresh == NoteSpec => []NotificationIsFresh
<1>1. NoteIInv => NotificationIsFresh
  BY DEF NoteIInv
<1> QED
  BY <1>1, AlwaysNoteIInv, PTL
=============================================================================
