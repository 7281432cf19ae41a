-------------------------- MODULE NativeObjectsProofs --------------------------
(***************************************************************************)
(* What is proved about the components that are a few threads around one   *)
(* native object: Thumbnailer, MediaParse, Dialogs and AWindow, one part   *)
(* of this module each.                                                    *)
(***************************************************************************)
EXTENDS Thumbnailer, MediaParse, Dialogs, AWindow, SequenceTheorems, TLAPS

(***************************************************************************)
(* Thumbnailer: the picture is a whole frame, for any number of frames and *)
(* of openings of the video output.  The invariant says that a frame is    *)
(* partly filled only while the video output fills it, and that the video  *)
(* output is between two frames once the player is stopped.                *)
(***************************************************************************)

FilledOutsideCopy == vout # "copy" => frame \in {"none", "whole"}

QuietOnceStopped == caller \in {"collect", "returned"} => vout \in {"closed", "open"}

IInv == FilledOutsideCopy /\ QuietOnceStopped /\ PictureIsWhole

LEMMA InitIInv == Init => IInv
  BY DEF Init, IInv, FilledOutsideCopy, QuietOnceStopped, PictureIsWhole

(* The callbacks, and time.                                                *)
LEMMA PlayerKeepsIInv ==
    ASSUME IInv, Setup \/ PositionChanged \/ DisplayTest \/ VoutStep \/ Tick
    PROVE  IInv'
<1> USE DEF IInv, FilledOutsideCopy, QuietOnceStopped, PictureIsWhole, Playing
<1>1. CASE Setup
  BY <1>1 DEF Setup
<1>2. CASE PositionChanged
  BY <1>2 DEF PositionChanged
<1>3. CASE DisplayTest
  BY <1>3 DEF DisplayTest
<1>4. CASE Allocate
  BY <1>4 DEF Allocate
<1>5. CASE Copy
  BY <1>5 DEF Copy
<1>6. CASE SignalDone
  BY <1>6 DEF SignalDone
<1>7. CASE Tick
  BY <1>7 DEF Tick
<1> QED
  BY <1>1, <1>2, <1>3, <1>4, <1>5, <1>6, <1>7 DEF VoutStep

LEMMA CallerKeepsIInv ==
    ASSUME IInv, CallerStep
    PROVE  IInv'
<1> USE DEF IInv, FilledOutsideCopy, QuietOnceStopped, PictureIsWhole
<1>1. CASE AwaitVout
  BY <1>1 DEF AwaitVout
<1>2. CASE AwaitDone
  BY <1>2 DEF AwaitDone
<1>3. CASE Stop
  BY <1>3 DEF Stop
<1>4. CASE Collect
  BY <1>4 DEF Collect
<1> QED
  BY <1>1, <1>2, <1>3, <1>4 DEF CallerStep

(* Whatever the player does and whichever deadline passes, the caller gets *)
(* a whole frame or none.                                                  *)
THEOREM WholePicture == Spec => []PictureIsWhole
<1>1. IInv /\ [Next]_vars => IInv'
  <2> SUFFICES ASSUME IInv, [Next]_vars PROVE IInv'
    OBVIOUS
  <2>1. CASE UNCHANGED vars
    BY <2>1 DEF IInv, FilledOutsideCopy, QuietOnceStopped, PictureIsWhole, vars
  <2> QED
    BY <2>1, PlayerKeepsIInv, CallerKeepsIInv DEF Next
<1>2. IInv => PictureIsWhole
  BY DEF IInv
<1> QED
  BY <1>1, <1>2, InitIInv, PTL DEF Spec

(* The counters stay within their bounds and the flags are the three of    *)
(* the enumeration: a caller or a video output is never anywhere else.     *)
THEOREM ThumbnailerTypes == Spec => []TypeOK
<1>1. Init => TypeOK
  <2> SUFFICES ASSUME Init PROVE TypeOK
    OBVIOUS
  <2>1. clock \in 0 .. 2 /\ frames \in 0 .. MaxFrames /\ setups \in 0 .. MaxSetups
    <3>1. clock = 0 /\ frames = 0 /\ setups = 0
      BY DEF Init
    <3> QED
      BY <3>1, BoundsAssumption
  <2> QED
    BY <2>1 DEF Init, TypeOK, Flags, Fillings
<1>2. TypeOK /\ [Next]_vars => TypeOK'
  <2> SUFFICES ASSUME TypeOK, [Next]_vars PROVE TypeOK'
    OBVIOUS
  <2>1. CASE Setup
    <3>1. setups' \in 0 .. MaxSetups
      <4>1. setups < MaxSetups /\ setups' = setups + 1 /\ setups \in 0 .. MaxSetups
        BY <2>1 DEF Setup, TypeOK
      <4> QED
        BY <4>1, BoundsAssumption
    <3> QED
      BY <2>1, <3>1 DEF Setup, TypeOK, Flags
  <2>2. CASE DisplayTest
    <3>1. frames' \in 0 .. MaxFrames
      <4>1. frames < MaxFrames /\ frames' = frames + 1 /\ frames \in 0 .. MaxFrames
        BY <2>2 DEF DisplayTest, TypeOK
      <4> QED
        BY <4>1, BoundsAssumption
    <3>2. vout' \in {"allocate", "open"}
      BY <2>2 DEF DisplayTest
    <3> QED
      BY <2>2, <3>1, <3>2 DEF DisplayTest, TypeOK
  <2>3. CASE Tick
    <3>1. clock' \in 0 .. 2
      <4>1. clock < 2 /\ clock' = clock + 1 /\ clock \in 0 .. 2
        BY <2>3 DEF Tick, TypeOK
      <4> QED
        BY <4>1
    <3> QED
      BY <2>3, <3>1 DEF Tick, TypeOK
  <2>4. CASE PositionChanged
    BY <2>4 DEF PositionChanged, TypeOK, Flags
  <2>5. CASE VoutStep
    BY <2>5 DEF VoutStep, Allocate, Copy, SignalDone, TypeOK, Flags, Fillings
  <2>6. CASE CallerStep
    BY <2>6 DEF CallerStep, AwaitVout, AwaitDone, Stop, Collect, TypeOK, Fillings
  <2>7. CASE UNCHANGED vars
    BY <2>7 DEF vars, TypeOK
  <2> QED
    BY <2>1, <2>2, <2>3, <2>4, <2>5, <2>6, <2>7 DEF Next
<1> QED
  BY <1>1, <1>2, PTL DEF Spec

-----------------------------------------------------------------------------
(***************************************************************************)
(* MediaParse: for any number of changes, the listener hears of the end of *)
(* a parse once, and not at all when somebody waited for it; and what Java *)
(* keeps is current when nothing is under way.  The invariant says what    *)
(* each flag stands for, and that a value which is out of date, kept or    *)
(* about to be stored, is owed a refresh by an event or by a parse that    *)
(* has not ended.                                                          *)
(***************************************************************************)

ParsedNotice == notice.type = "parsed"
EndUnfiltered == notice = [type |-> "parsed", at |-> "filter"]
Waited == mode = "sync" /\ parse \in {"wait", "fetch", "returned"}
ParsedAsync == mode = "async" /\ parse = "returned"

(* The fields and the words that the steps compare.                        *)
Shape ==
    /\ notice \in {NoNotice} \cup [type : {"duration", "parsed"}, at : {"filter", "dispatch"}]
    /\ reader \in [at : {"out", "get", "store"}, value : Int, fresh : BOOLEAN]
    /\ parser \in {"idle", "parsing", "done"} /\ mode \in {"none", "sync", "async"}
    /\ parse \in {"none", "asked", "flagged", "wait", "fetch", "returned", "failed"}
    /\ parse = "none" <=> mode = "none"
    /\ parse \in {"wait", "fetch"} => mode = "sync"
    /\ syncFlag \in BOOLEAN /\ asyncFlag \in BOOLEAN /\ excused \in BOOLEAN
    /\ heard \in Nat /\ duration \in Nat

(* libvlc parses a media once: its end is heard of after that parse.       *)
OneEnd ==
    /\ ParsedNotice => parser = "done" /\ heard = 0
    /\ parser # "done" => heard = 0
    /\ heard <= 1

(* A flag is set from the time its caller set it until the end of a parse. *)
FlagsOfCallers ==
    /\ syncFlag => mode = "sync" /\ parse \in {"flagged", "wait", "failed"}
    /\ asyncFlag => /\ mode = "async"
                    /\ \/ parse \in {"flagged", "failed"}
                       \/ parse = "returned" /\ (parser = "parsing" \/ EndUnfiltered)
    /\ mode = "sync" /\ parse \in {"flagged", "wait"}
         /\ (parser # "done" \/ EndUnfiltered) => syncFlag

(* The end of a parse that is waited for is for the one who waits.         *)
EndIsForTheWaiting ==
    /\ Waited => heard = 0 /\ notice # [type |-> "parsed", at |-> "dispatch"]
    /\ Waited => parser # "idle"
    /\ mode = "sync" /\ parse \in {"fetch", "returned"} => parser = "done" /\ ~ParsedNotice
    /\ parse \in {"asked", "flagged"} /\ parser # "done" => status = "parsing"
    /\ mode = "sync" /\ parse \in {"wait", "fetch"} => status = "parsing"
    /\ ParsedAsync /\ (parser = "parsing" \/ ParsedNotice) => status = "parsing"
    /\ ParsedAsync => parser # "idle"

(* Something under way will have the values fetched again.                 *)
Owed ==
    \/ notice.type = "duration"
    \/ parse \in {"failed", "flagged", "wait", "fetch"}
    \/ ParsedAsync /\ (parser = "parsing" \/ ParsedNotice)

StaleIsOwed ==
    /\ ~excused /\ cached \notin {Unknown, duration} => Owed
    /\ reader.at = "store" /\ reader.fresh /\ reader.value # duration => Owed

ParseIInv == Shape /\ OneEnd /\ FlagsOfCallers /\ EndIsForTheWaiting /\ StaleIsOwed

LEMMA ParseInitIInv == ParseInit => ParseIInv
<1> SUFFICES ASSUME ParseInit PROVE ParseIInv
  OBVIOUS
<1> USE DEF ParseInit, NoNotice, Idle, Unknown
<1>1. Shape
  <2>1. notice \in {NoNotice}
    OBVIOUS
  <2>2. reader \in [at : {"out", "get", "store"}, value : Int, fresh : BOOLEAN]
    OBVIOUS
  <2>3. heard \in Nat /\ parse = "none" /\ mode = "none" /\ parser = "idle"
    OBVIOUS
  <2>4. syncFlag \in BOOLEAN /\ asyncFlag \in BOOLEAN /\ excused \in BOOLEAN
    OBVIOUS
  <2> QED
    BY <2>1, <2>2, <2>3, <2>4 DEF Shape
<1>2. OneEnd /\ FlagsOfCallers /\ EndIsForTheWaiting
  BY DEF OneEnd, FlagsOfCallers, EndIsForTheWaiting, ParsedNotice, EndUnfiltered, Waited,
         ParsedAsync
<1>3. StaleIsOwed
  BY DEF StaleIsOwed
<1> QED
  BY <1>1, <1>2, <1>3 DEF ParseIInv

LEMMA CallerKeepsParseIInv ==
    ASSUME ParseIInv, ParseCaller
    PROVE  ParseIInv'
<1> USE DEF ParseIInv, Shape, OneEnd, FlagsOfCallers, EndIsForTheWaiting,
            StaleIsOwed, ParsedNotice, EndUnfiltered, Waited, ParsedAsync, Owed, NoNotice
<1>1. CASE Ask
  BY <1>1 DEF Ask
<1>2. CASE SetFlag
  BY <1>2 DEF SetFlag
<1>3. CASE Request
  <2>1. CASE parse' = "failed"
    BY <1>3, <2>1 DEF Request
  <2>2. CASE mode = "sync" /\ parse' = "wait"
    BY <1>3, <2>2 DEF Request
  <2>3. CASE mode = "async" /\ parse' = "returned"
    BY <1>3, <2>3 DEF Request
  <2> QED
    BY <1>3, <2>1, <2>2, <2>3 DEF Request
<1>4. CASE Wait
  BY <1>4 DEF Wait
<1>5. CASE ReturnParsed
  BY <1>5 DEF ReturnParsed, MarkParsed, Forget, Unknown
<1> QED
  BY <1>1, <1>2, <1>3, <1>4, <1>5 DEF ParseCaller

LEMMA LibvlcKeepsParseIInv ==
    ASSUME ParseIInv, OtherRequest \/ ChangeDuration \/ EndParse
    PROVE  ParseIInv'
<1> USE DEF ParseIInv, Shape, OneEnd, FlagsOfCallers, EndIsForTheWaiting,
            StaleIsOwed, ParsedNotice, EndUnfiltered, Waited, ParsedAsync, Owed, NoNotice
<1>1. CASE OtherRequest
  BY <1>1 DEF OtherRequest
<1>2. CASE ChangeDuration
  BY <1>2 DEF ChangeDuration
<1>3. CASE EndParse
  BY <1>3 DEF EndParse
<1> QED
  BY <1>1, <1>2, <1>3

LEMMA EventsKeepParseIInv ==
    ASSUME ParseIInv, ParseEvents
    PROVE  ParseIInv'
<1> USE DEF ParseIInv, Shape, OneEnd, FlagsOfCallers, EndIsForTheWaiting,
            StaleIsOwed, ParsedNotice, EndUnfiltered, Waited, ParsedAsync, Owed, NoNotice
<1>1. CASE FilterParsed
  BY <1>1 DEF FilterParsed, Passes
<1>2. CASE FilterOther
  BY <1>2 DEF FilterOther, Passes
<1>3. CASE TellDuration
  BY <1>3 DEF TellDuration, Forget, Unknown
<1>4. CASE TellParsed
  <2>1. notice = [type |-> "parsed", at |-> "dispatch"] /\ notice' = NoNotice
    BY <1>4 DEF TellParsed
  <2>2. heard = 0 /\ heard' = 1
    BY <1>4, <2>1 DEF TellParsed
  <2>3. ~Waited
    BY <2>1
  <2>4. CASE status = "parsed" /\ UNCHANGED <<status, cached, reader, excused>>
    BY <1>4, <2>1, <2>2, <2>3, <2>4 DEF TellParsed
  <2>5. CASE status # "parsed" /\ status' = "parsed" /\ Forget
    <3>1. /\ cached' = Unknown /\ excused' \in BOOLEAN /\ ~reader'.fresh
          /\ reader' \in [at : {"out", "get", "store"}, value : Int, fresh : BOOLEAN]
      BY <2>5 DEF Forget
    <3>2. UNCHANGED <<syncFlag, asyncFlag, parser, parse, mode, duration>>
      BY <1>4 DEF TellParsed
    <3> QED
      BY <2>1, <2>2, <2>3, <3>1, <3>2
  <2> QED
    BY <1>4, <2>4, <2>5 DEF TellParsed, MarkParsed
<1> QED
  BY <1>1, <1>2, <1>3, <1>4 DEF ParseEvents

LEMMA ReaderKeepsParseIInv ==
    ASSUME ParseIInv, ParseReader
    PROVE  ParseIInv'
<1> USE DEF ParseIInv, Shape, OneEnd, FlagsOfCallers, EndIsForTheWaiting,
            StaleIsOwed, ParsedNotice, EndUnfiltered, Waited, ParsedAsync, Owed, NoNotice
<1>1. CASE Look
  <2>1. reader' = [at |-> "get", value |-> Unknown, fresh |-> TRUE]
    BY <1>1 DEF Look, Idle
  <2>2. /\ reader' \in [at : {"out", "get", "store"}, value : Int, fresh : BOOLEAN]
        /\ reader'.at = "get"
    BY <2>1 DEF Unknown
  <2> QED
    BY <1>1, <2>2 DEF Look
<1>2. CASE Get
  BY <1>2 DEF Get
<1>3. CASE Store
  <2>1. reader' = [at |-> "out", value |-> Unknown, fresh |-> TRUE]
    BY <1>3 DEF Store, Idle
  <2>2. /\ reader' \in [at : {"out", "get", "store"}, value : Int, fresh : BOOLEAN]
        /\ reader'.at = "out"
    BY <2>1 DEF Unknown
  <2>3. excused' \in BOOLEAN /\ (~excused' => reader.fresh) /\ cached' = reader.value
    BY <1>3 DEF Store
  <2> QED
    BY <1>3, <2>2, <2>3 DEF Store
<1> QED
  BY <1>1, <1>2, <1>3 DEF ParseReader

LEMMA ParseStepKeepsIInv == ParseIInv /\ [ParseNext]_parseVars => ParseIInv'
<1> SUFFICES ASSUME ParseIInv, [ParseNext]_parseVars PROVE ParseIInv'
  OBVIOUS
<1>1. CASE UNCHANGED parseVars
  BY <1>1 DEF parseVars, ParseIInv, Shape, OneEnd, FlagsOfCallers, EndIsForTheWaiting,
              StaleIsOwed, ParsedNotice, EndUnfiltered, Waited, ParsedAsync, Owed, NoNotice
<1> QED
  BY <1>1, CallerKeepsParseIInv, LibvlcKeepsParseIInv, EventsKeepParseIInv,
     ReaderKeepsParseIInv DEF ParseNext

(* "no need to send libvlc_MediaParsedChanged when parsing is              *)
(* synchronous": the event filter never lets that end through, whoever     *)
(* else parses the media, and no end is sent twice.                        *)
THEOREM EndHeardOnce == ParseSpec => []HeardOnce
<1>1. ParseIInv => HeardOnce
  BY DEF ParseIInv, Shape, OneEnd, EndIsForTheWaiting, Waited, HeardOnce
<1> QED
  BY <1>1, ParseInitIInv, ParseStepKeepsIInv, PTL DEF ParseSpec

(* Changes whose events were held back during a parse are not missed: with *)
(* nothing under way the kept duration is the one libvlc has.              *)
THEOREM KeptStaysCurrent == ParseSpec => []KeptIsCurrent
<1>1. ParseIInv => KeptIsCurrent
  BY DEF ParseIInv, Shape, StaleIsOwed, Owed, ParsedAsync, ParsedNotice, NoNotice,
         Quiescent, KeptIsCurrent
<1> QED
  BY <1>1, ParseInitIInv, ParseStepKeepsIInv, PTL DEF ParseSpec

Statuses == {"init", "parsing", "parsed"}
Durations == 0 .. MaxChanges
Kept == {Unknown} \cup Durations

(* What the invariant of the reader and the events leaves to say of types. *)
ValuesInRange ==
    /\ status \in Statuses /\ duration \in Durations /\ cached \in Kept
    /\ reader.value \in Kept

LEMMA ParseInitTypes == ParseInit => ValuesInRange
BY ChangesAssumption DEF ParseInit, ValuesInRange, Statuses, Durations, Kept, Unknown, Idle

LEMMA MarkParsedInRange ==
    ASSUME ParseIInv, ValuesInRange, MarkParsed, duration' = duration
    PROVE  ValuesInRange'
<1>1. reader \in [at : {"out", "get", "store"}, value : Int, fresh : BOOLEAN]
  BY DEF ParseIInv, Shape
<1>2. CASE status = "parsed" /\ UNCHANGED <<status, cached, reader, excused>>
  BY <1>2 DEF ValuesInRange, Kept, Durations
<1>3. CASE status # "parsed" /\ status' = "parsed" /\ Forget
  <2>1. cached' = Unknown /\ reader'.value = reader.value
    BY <1>1, <1>3 DEF Forget
  <2> QED
    BY <1>3, <2>1 DEF ValuesInRange, Kept, Durations, Statuses
<1> QED
  BY <1>2, <1>3 DEF MarkParsed

LEMMA ParseStepKeepsTypes ==
    ParseIInv /\ ValuesInRange /\ [ParseNext]_parseVars => ValuesInRange'
<1> SUFFICES ASSUME ParseIInv, ValuesInRange, [ParseNext]_parseVars PROVE ValuesInRange'
  OBVIOUS
<1>0. reader \in [at : {"out", "get", "store"}, value : Int, fresh : BOOLEAN]
  BY DEF ParseIInv, Shape
<1>1. CASE Ask
  BY <1>1 DEF Ask, ValuesInRange, Kept, Durations, Statuses
<1>2. CASE ReturnParsed
  BY <1>2, MarkParsedInRange DEF ReturnParsed
<1>3. CASE TellParsed
  BY <1>3, MarkParsedInRange DEF TellParsed
<1>4. CASE TellDuration
  <2>1. cached' = Unknown /\ reader'.value = reader.value /\ UNCHANGED <<status, duration>>
    BY <1>0, <1>4 DEF TellDuration, Forget
  <2> QED
    BY <2>1 DEF ValuesInRange, Kept, Durations, Statuses
<1>5. CASE ChangeDuration
  <2>1. duration' \in Durations
    BY <1>5, ChangesAssumption DEF ChangeDuration, ValuesInRange, Durations
  <2>2. UNCHANGED <<status, cached, reader>>
    BY <1>5 DEF ChangeDuration
  <2> QED
    BY <2>1, <2>2 DEF ValuesInRange, Kept, Durations, Statuses
<1>6. CASE Look
  BY <1>0, <1>6 DEF Look, Idle, ValuesInRange, Kept, Durations
<1>7. CASE Get
  BY <1>7 DEF Get, ValuesInRange, Kept, Durations
<1>8. CASE Store
  BY <1>8 DEF Store, Idle, ValuesInRange, Kept, Durations
<1>9. CASE \/ SetFlag \/ Request \/ Wait \/ FilterParsed \/ FilterOther
           \/ OtherRequest \/ EndParse \/ UNCHANGED parseVars
  <2>1. UNCHANGED <<status, duration, cached, reader>>
    BY <1>9 DEF SetFlag, Request, Wait, FilterParsed, FilterOther, OtherRequest,
                EndParse, parseVars
  <2> QED
    BY <2>1 DEF ValuesInRange, Kept, Durations
<1> QED
  BY <1>1, <1>2, <1>3, <1>4, <1>5, <1>6, <1>7, <1>8, <1>9
     DEF ParseNext, ParseCaller, ParseEvents, ParseReader

(* The duration that is kept, or that a reader is about to keep, is one    *)
(* that libvlc had or the one that says "unknown", and the flags, the      *)
(* status and the event under way never leave their enumerations.          *)
THEOREM ParseTypesHold == ParseSpec => []ParseTypeOK
<1>1. ParseIInv /\ ValuesInRange => ParseTypeOK
  <2> SUFFICES ASSUME ParseIInv, ValuesInRange PROVE ParseTypeOK
    OBVIOUS
  <2>1. Kept = -1 .. MaxChanges
    BY ChangesAssumption DEF Kept, Durations, Unknown
  <2>2. reader \in [at : {"out", "get", "store"}, value : -1 .. MaxChanges, fresh : BOOLEAN]
    BY <2>1 DEF ParseIInv, Shape, ValuesInRange
  <2> QED
    BY <2>1, <2>2 DEF ParseIInv, Shape, ValuesInRange, Durations, Statuses, ParseTypeOK
<1> QED
  BY <1>1, ParseInitIInv, ParseStepKeepsIInv, ParseInitTypes, ParseStepKeepsTypes, PTL
     DEF ParseSpec

-----------------------------------------------------------------------------
(***************************************************************************)
(* Dialogs: a question is answered at most once, and gives its global      *)
(* reference back, for any number of updates of the progress.  The         *)
(* invariant relates mId, which three paths of the main thread test and    *)
(* reset, to the answers given, and the reference to the moment at which   *)
(* the thread of libvlc sets the context.                                  *)
(***************************************************************************)

ValuesAreTyped ==
    /\ answers \in {0, 1} /\ globals \in {0, 1}
    /\ hasId \in BOOLEAN /\ context \in BOOLEAN /\ early \in BOOLEAN

NoIdOnceAnswered == (hasId => answers = 0) /\ (asker = "begin" => answers = 0 /\ ~hasId)

ContextWhileAsked == context <=> asker \in {"wait", "cancel", "end"}

ReferenceFollowsContext ==
    /\ answers = 0 => globals = IF context THEN 1 ELSE 0
    /\ ~context => globals = 0

EarlyBeforeContext == answers > 0 /\ ~context => early

DialogIInv ==
    /\ ValuesAreTyped /\ NoIdOnceAnswered /\ ContextWhileAsked
    /\ ReferenceFollowsContext /\ EarlyBeforeContext /\ ReferenceGivenBack

LEMMA DialogInitIInv == DialogInit => DialogIInv
<1> SUFFICES ASSUME DialogInit PROVE DialogIInv
  OBVIOUS
<1>1. asker = "begin" /\ answers = 0 /\ globals = 0 /\ ~hasId /\ ~context /\ ~early
  BY DEF DialogInit
<1>2. ValuesAreTyped
  BY DEF DialogInit, ValuesAreTyped
<1> QED
  BY <1>1, <1>2 DEF DialogIInv, NoIdOnceAnswered, ContextWhileAsked,
         ReferenceFollowsContext, EarlyBeforeContext, ReferenceGivenBack

(* What the paths that answer have in common: whether there is an id or    *)
(* not, the invariant holds afterwards.                                    *)
LEMMA AnswerKeepsIInv ==
    ASSUME DialogIInv, AnswerIfAny, UNCHANGED <<asker, context>>
    PROVE  DialogIInv'
<1> USE DEF DialogIInv, ValuesAreTyped, NoIdOnceAnswered, ContextWhileAsked,
            ReferenceFollowsContext, EarlyBeforeContext, ReferenceGivenBack
<1>1. CASE hasId /\ Answer
  <2>1. answers = 0 /\ answers' = 1 /\ globals' = 0
    BY <1>1 DEF Answer
  <2>2. ~hasId' /\ hasId' \in BOOLEAN
    BY <1>1 DEF Answer
  <2>3. (~context => early') /\ early' \in BOOLEAN
    BY <1>1 DEF Answer
  <2>4. asker' = asker /\ context' = context
    OBVIOUS
  <2>5. ContextWhileAsked' /\ (context' \in BOOLEAN)
    BY <2>4
  <2>6. ValuesAreTyped'
    BY <2>1, <2>2, <2>3, <2>5
  <2>7. NoIdOnceAnswered'
    BY <1>1, <2>2, <2>4
  <2>8. ReferenceFollowsContext' /\ ReferenceGivenBack'
    BY <2>1
  <2>9. EarlyBeforeContext'
    BY <2>3, <2>4
  <2> QED
    BY <2>5, <2>6, <2>7, <2>8, <2>9
<1>2. CASE ~hasId /\ UNCHANGED <<answers, globals, early, hasId>>
  BY <1>2
<1> QED
  BY <1>1, <1>2 DEF AnswerIfAny

LEMMA LibvlcKeepsIInv ==
    ASSUME DialogIInv, Display \/ UpdateProgress \/ Interrupted \/ DialogLibvlc
    PROVE  DialogIInv'
<1> USE DEF DialogIInv, ValuesAreTyped, NoIdOnceAnswered, ContextWhileAsked,
            ReferenceFollowsContext, EarlyBeforeContext, ReferenceGivenBack
<1>1. CASE Display
  BY <1>1 DEF Display
<1>2. CASE SetContext
  BY <1>2 DEF SetContext
<1>3. CASE UpdateProgress
  BY <1>3 DEF UpdateProgress
<1>4. CASE Answered
  BY <1>4 DEF Answered
<1>5. CASE Interrupted
  BY <1>5 DEF Interrupted
<1>6. CASE CancelCallback
  BY <1>6 DEF CancelCallback
<1> QED
  BY <1>1, <1>2, <1>3, <1>4, <1>5, <1>6 DEF DialogLibvlc

LEMMA MainKeepsIInv ==
    ASSUME DialogIInv, DialogMain \/ UserAnswers \/ UserCloses
    PROVE  DialogIInv'
<1>1. CASE OnCancel
  BY <1>1, AnswerKeepsIInv DEF OnCancel
<1>2. CASE UserAnswers
  BY <1>2, AnswerKeepsIInv DEF UserAnswers
<1>3. CASE DestroyDialog
  BY <1>3, AnswerKeepsIInv DEF DestroyDialog
<1>4. CASE OnDisplay \/ OnUpdate \/ ShowDialog \/ UserCloses
  <2>1. UNCHANGED <<asker, hasId, answers, context, globals, early>>
    BY <1>4 DEF OnDisplay, OnUpdate, ShowDialog, UserCloses
  <2> QED
    BY <2>1 DEF DialogIInv, ValuesAreTyped, NoIdOnceAnswered, ContextWhileAsked,
                ReferenceFollowsContext, EarlyBeforeContext, ReferenceGivenBack
<1> QED
  BY <1>1, <1>2, <1>3, <1>4 DEF DialogMain

LEMMA DialogStepKeepsIInv == DialogIInv /\ [DialogNext]_dialogVars => DialogIInv'
<1> SUFFICES ASSUME DialogIInv, [DialogNext]_dialogVars PROVE DialogIInv'
  OBVIOUS
<1>1. CASE UNCHANGED dialogVars
  BY <1>1 DEF dialogVars, DialogIInv, ValuesAreTyped, NoIdOnceAnswered, ContextWhileAsked,
              ReferenceFollowsContext, EarlyBeforeContext, ReferenceGivenBack
<1> QED
  BY <1>1, LibvlcKeepsIInv, MainKeepsIInv DEF DialogNext

(* The user's answer, the cancellation by libvlc and the end of the window *)
(* may come in any order: the native id, which an answer frees, is used    *)
(* for one answer at most.                                                 *)
THEOREM OneAnswer == DialogSpec => []AnsweredOnce
<1>1. DialogIInv => AnsweredOnce
  BY DEF DialogIInv, ValuesAreTyped, AnsweredOnce
<1> QED
  BY <1>1, DialogInitIInv, DialogStepKeepsIInv, PTL DEF DialogSpec

(* An answer deletes the global reference that display_*_cb set as the     *)
(* context of the id, unless it came before that was set.                  *)
THEOREM ReferenceIsDeleted == DialogSpec => []ReferenceGivenBack
<1>1. DialogIInv => ReferenceGivenBack
  BY DEF DialogIInv
<1> QED
  BY <1>1, DialogInitIInv, DialogStepKeepsIInv, PTL DEF DialogSpec

DialogMessages == {"display", "update", "cancel"}

(* What the invariant of the id leaves to say of types.                    *)
DialogInRange ==
    /\ asker \in {"begin", "displayed", "wait", "cancel", "end"}
    /\ looper \in Seq(DialogMessages) /\ updates \in 0 .. MaxUpdates
    /\ window \in {"none", "started", "shown", "closing", "closed"}

LEMMA DialogInitInRange == DialogInit => DialogInRange
BY UpdatesAssumption DEF DialogInit, DialogInRange

(* A message is taken from the front, or put at the end.                   *)
LEMMA LooperStaysTyped ==
    ASSUME looper \in Seq(DialogMessages),
           \/ UNCHANGED looper
           \/ \E message \in DialogMessages : looper' = Append(looper, message) \/ Handle(message)
    PROVE  looper' \in Seq(DialogMessages)
<1>1. CASE UNCHANGED looper
  BY <1>1
<1>2. CASE \E message \in DialogMessages : looper' = Append(looper, message)
  BY <1>2, AppendProperties
<1>3. CASE \E message \in DialogMessages : Handle(message)
  <2>1. looper # <<>> /\ looper' = Tail(looper)
    BY <1>3 DEF Handle
  <2> QED
    BY <2>1, HeadTailProperties
<1> QED
  BY <1>1, <1>2, <1>3

LEMMA DialogStepKeepsRange ==
    DialogInRange /\ [DialogNext]_dialogVars => DialogInRange'
<1> SUFFICES ASSUME DialogInRange, [DialogNext]_dialogVars PROVE DialogInRange'
  OBVIOUS
<1>1. looper' \in Seq(DialogMessages)
  <2>1. \/ UNCHANGED looper
        \/ \E message \in DialogMessages : looper' = Append(looper, message) \/ Handle(message)
    BY DEF DialogNext, DialogLibvlc, DialogMain, Display, UpdateProgress, Interrupted,
           SetContext, Answered, CancelCallback, OnDisplay, OnUpdate, OnCancel, ShowDialog,
           DestroyDialog, UserAnswers, UserCloses, dialogVars, DialogMessages
  <2> QED
    BY <2>1, LooperStaysTyped DEF DialogInRange
<1>2. updates' \in 0 .. MaxUpdates
  <2>1. CASE UpdateProgress
    BY <2>1, UpdatesAssumption DEF UpdateProgress, DialogInRange
  <2>2. CASE ~UpdateProgress
    <3>1. UNCHANGED updates
      BY <2>2 DEF DialogNext, DialogLibvlc, DialogMain, Display, Interrupted,
             SetContext, Answered, CancelCallback, OnDisplay, OnUpdate, OnCancel, ShowDialog,
             DestroyDialog, UserAnswers, UserCloses, dialogVars
    <3> QED
      BY <3>1 DEF DialogInRange
  <2> QED
    BY <2>1, <2>2
<1>3. /\ asker' \in {"begin", "displayed", "wait", "cancel", "end"}
      /\ window' \in {"none", "started", "shown", "closing", "closed"}
  BY DEF DialogNext, DialogLibvlc, DialogMain, Display, UpdateProgress, Interrupted,
         SetContext, Answered, CancelCallback, OnDisplay, OnUpdate, OnCancel, ShowDialog,
         DestroyDialog, UserAnswers, UserCloses, dialogVars, DialogInRange
<1> QED
  BY <1>1, <1>2, <1>3 DEF DialogInRange

(* What waits in the queue of the main thread is always one of the three   *)
(* messages of the callbacks, and the window at one of its five stages.    *)
THEOREM DialogTypesHold == DialogSpec => []DialogTypeOK
<1>1. DialogIInv /\ DialogInRange => DialogTypeOK
  BY DEF DialogIInv, ValuesAreTyped, DialogInRange, DialogTypeOK, DialogMessages
<1> QED
  BY <1>1, DialogInitIInv, DialogStepKeepsIInv, DialogInitInRange, DialogStepKeepsRange, PTL
     DEF DialogSpec

-----------------------------------------------------------------------------
(***************************************************************************)
(* AWindow.  The texture: it and its Surface are there while the OpenGL    *)
(* thread is attached; the invariant says that only the thread which waits *)
(* for the looper sees the one without the other.  The views: the window   *)
(* is ready exactly when all of them have surfaces, which the invariant    *)
(* ties to the views and to what the system has.                           *)
(***************************************************************************)

AttachedIsUsed == isAttached <=> gl \in {"attached", "updating", "joining"}

SurfaceWithTexture ==
    /\ texture \in BOOLEAN /\ surface \in BOOLEAN /\ isAttached \in BOOLEAN
    /\ gl \in {"out", "waiting", "attached", "updating", "joining"}
    /\ gl # "waiting" => (texture <=> surface)
    /\ gl = "waiting" => ~surface
    /\ texLooper = "starting" => gl = "waiting" /\ ~texture

TextureIInv == AttachedIsUsed /\ SurfaceWithTexture /\ TextureStays

LEMMA InitTextureIInv == WindowInit => TextureIInv
<1> SUFFICES ASSUME WindowInit PROVE TextureIInv
  OBVIOUS
<1>1. ~texture /\ ~surface /\ ~isAttached /\ gl = "out" /\ texLooper = "none"
  BY DEF WindowInit
<1>2. texture \in BOOLEAN /\ surface \in BOOLEAN /\ isAttached \in BOOLEAN
  BY DEF WindowInit
<1> QED
  BY <1>1, <1>2 DEF TextureIInv, AttachedIsUsed, SurfaceWithTexture, TextureStays

(* What leaves these variables alone keeps what is said of them.           *)
LEMMA UntouchedTexture ==
    ASSUME TextureIInv, UNCHANGED <<texture, surface, isAttached, gl, texLooper>>
    PROVE  TextureIInv'
BY DEF TextureIInv, AttachedIsUsed, SurfaceWithTexture, TextureStays

LEMMA ReleaseKeepsTexture ==
    ASSUME TextureIInv, Release
    PROVE  TextureIInv'
<1> USE DEF TextureIInv, AttachedIsUsed, SurfaceWithTexture, TextureStays
<1>1. CASE UNCHANGED <<texture, surface>>
  BY <1>1, UntouchedTexture DEF Release
<1>2. CASE /\ texture /\ ~isAttached /\ surface
           /\ texture' = FALSE /\ surface' = FALSE
  <2>1. gl # "waiting" /\ UNCHANGED <<isAttached, gl, texLooper>>
    BY <1>2 DEF Release
  <2> QED
    BY <1>2, <2>1
<1> QED
  BY <1>1, <1>2 DEF Release

LEMMA GlKeepsTexture ==
    ASSUME TextureIInv, AttachGl \/ AttachGlNew \/ DetachGl \/ GlStep
    PROVE  TextureIInv'
<1> USE DEF TextureIInv, AttachedIsUsed, SurfaceWithTexture, TextureStays
<1>1. CASE AttachGl
  <2>1. isAttached' /\ (isAttached' \in BOOLEAN) /\ gl' = "attached"
    BY <1>1 DEF AttachGl, BeAttached
  <2>2. gl = "out" /\ texture /\ UNCHANGED <<texture, surface, texLooper>>
    BY <1>1 DEF AttachGl
  <2> QED
    BY <2>1, <2>2
<1>2. CASE AttachGlNew
  BY <1>2 DEF AttachGlNew
<1>3. CASE AttachGlWake
  <2>1. isAttached' /\ (isAttached' \in BOOLEAN) /\ gl' = "attached"
    BY <1>3 DEF AttachGlWake, BeAttached
  <2>2. surface' /\ (surface' \in BOOLEAN) /\ texture /\ UNCHANGED <<texture, texLooper>>
    BY <1>3 DEF AttachGlWake
  <2> QED
    BY <2>1, <2>2
<1>4. CASE TakeFrame
  BY <1>4 DEF TakeFrame
<1>5. CASE UpdateTexImage
  BY <1>5 DEF UpdateTexImage
<1>6. CASE DetachGl
  <2>1. gl = "attached" /\ UNCHANGED <<texture, surface, texLooper>>
    BY <1>6 DEF DetachGl
  <2>2. CASE gl' = "joining" /\ UNCHANGED isAttached
    BY <2>1, <2>2
  <2>3. CASE gl' = "out" /\ ~isAttached' /\ (isAttached' \in BOOLEAN)
    BY <2>1, <2>3
  <2> QED
    BY <1>6, <2>2, <2>3 DEF DetachGl
<1>7. CASE Joined
  BY <1>7 DEF Joined
<1> QED
  BY <1>1, <1>2, <1>3, <1>4, <1>5, <1>6, <1>7 DEF GlStep

LEMMA LooperKeepsTexture ==
    ASSUME TextureIInv, FrameDrawn \/ TexLooperStep
    PROVE  TextureIInv'
<1> USE DEF TextureIInv, AttachedIsUsed, SurfaceWithTexture, TextureStays
<1>1. CASE CreateTexture
  BY <1>1 DEF CreateTexture
<1>2. CASE FrameDrawn
  BY <1>2 DEF FrameDrawn
<1>3. CASE OnFrameAvailable
  BY <1>3 DEF OnFrameAvailable
<1>4. CASE QuitLooper
  BY <1>4 DEF QuitLooper
<1> QED
  BY <1>1, <1>2, <1>3, <1>4 DEF TexLooperStep

LEMMA ViewsKeepTexture ==
    ASSUME TextureIInv, NEW id \in Ids,
           \/ SetView(id) \/ SurfaceAppears(id) \/ SurfaceVanishes(id)
           \/ AttachViews \/ DetachViews
    PROVE  TextureIInv'
<1>1. UNCHANGED textureVars
  BY DEF SetView, SurfaceAppears, SurfaceVanishes, AttachViews, DetachViews
<1> QED
  BY <1>1, UntouchedTexture DEF textureVars

LEMMA TextureStepKeepsIInv == TextureIInv /\ [WindowNext]_windowVars => TextureIInv'
<1> SUFFICES ASSUME TextureIInv, [WindowNext]_windowVars PROVE TextureIInv'
  OBVIOUS
<1>1. CASE UNCHANGED windowVars
  BY <1>1, UntouchedTexture DEF windowVars
<1>2. CASE \E id \in Ids : SetView(id) \/ SurfaceAppears(id) \/ SurfaceVanishes(id)
  BY <1>2, ViewsKeepTexture
<1>3. CASE AttachViews \/ DetachViews
  BY <1>3, ViewsKeepTexture DEF Ids
<1> QED
  BY <1>1, <1>2, <1>3, ReleaseKeepsTexture, GlKeepsTexture, LooperKeepsTexture
     DEF WindowNext

(* Whenever the main thread detaches the views or releases the texture,    *)
(* the OpenGL thread that is attached draws into a texture and a Surface   *)
(* that are there.                                                         *)
THEOREM TextureOfTheAttached == WindowSpec => []TextureStays
<1>1. TextureIInv => TextureStays
  BY DEF TextureIInv
<1> QED
  BY <1>1, TextureStepKeepsIInv, InitTextureIInv, PTL DEF WindowSpec

-----------------------------------------------------------------------------
(* The views *)

SurfacesOfViews ==
    /\ views \in [Ids -> BOOLEAN] /\ surfaces \in [Ids -> BOOLEAN] /\ valid \in [Ids -> BOOLEAN]
    /\ winState \in {"init", "attached", "ready"}
    /\ winState # "init" => \A id \in Ids : surfaces[id] => views[id]

ViewsIInv == SurfacesOfViews /\ ReadyWithSurfaces

LEMMA InitViewsIInv == WindowInit => ViewsIInv
  BY DEF WindowInit, NoneOf, Ids, ViewsIInv, SurfacesOfViews, ReadyWithSurfaces

(* Without views there is nothing to say but that no surface is left.      *)
LEMMA DetachedViews ==
    ASSUME ViewsIInv, Detach, valid' \in [Ids -> BOOLEAN], thrown' = thrown
    PROVE  ViewsIInv'
BY DEF Detach, NoneOf, Ids, ViewsIInv, SurfacesOfViews, ReadyWithSurfaces

LEMMA UntouchedViews ==
    ASSUME ViewsIInv, UNCHANGED <<winState, views, surfaces, valid, thrown>>
    PROVE  ViewsIInv'
BY DEF ViewsIInv, SurfacesOfViews, ReadyWithSurfaces

LEMMA MainKeepsViews ==
    ASSUME ViewsIInv, AttachViews \/ DetachViews \/ \E id \in Ids : SetView(id)
    PROVE  ViewsIInv'
<1> USE DEF ViewsIInv, SurfacesOfViews, ReadyWithSurfaces
<1>1. CASE \E id \in Ids : SetView(id)
  BY <1>1 DEF SetView
<1>2. CASE AttachViews
  <2>1. /\ surfaces' = [id \in Ids |-> views[id] /\ valid[id]]
        /\ winState' = Created("attached", surfaces')
        /\ UNCHANGED <<views, valid, thrown>>
    BY <1>2 DEF AttachViews
  <2>2. surfaces' \in [Ids -> BOOLEAN]
    BY <2>1
  <2>3. \A id \in Ids : surfaces'[id] => views[id] /\ valid[id]
    BY <2>1
  <2>4. CASE \A id \in Ids : views[id] => surfaces'[id]
    <3>1. winState' = "ready"
      BY <2>1, <2>4 DEF Created
    <3> QED
      BY <2>1, <2>2, <2>3, <2>4, <3>1
  <2>5. CASE ~ \A id \in Ids : views[id] => surfaces'[id]
    <3>1. winState' = "attached"
      BY <2>1, <2>5 DEF Created
    <3> QED
      BY <2>1, <2>2, <2>3, <2>5, <3>1
  <2> QED
    BY <2>4, <2>5
<1>3. CASE DetachViews
  BY <1>3, DetachedViews DEF DetachViews
<1> QED
  BY <1>1, <1>2, <1>3

LEMMA CallbacksKeepViews ==
    ASSUME ViewsIInv, NEW id \in Ids, SurfaceAppears(id) \/ SurfaceVanishes(id)
    PROVE  ViewsIInv'
<1> USE DEF ViewsIInv, SurfacesOfViews, ReadyWithSurfaces
<1>1. valid' \in [Ids -> BOOLEAN]
  BY DEF SurfaceAppears, SurfaceVanishes
<1>2. CASE SurfaceAppears(id)
  <2>1. valid' = [valid EXCEPT ![id] = TRUE] /\ views' = views
    BY <1>2 DEF SurfaceAppears
  <2>2. \A i \in Ids : valid[i] => valid'[i]
    BY <2>1
  <2>3. CASE UNCHANGED <<winState, surfaces, thrown>>
    BY <1>1, <2>1, <2>2, <2>3
  <2>4. CASE winState # "init" /\ views[id] /\ ~surfaces[id]
    <3>1. winState = "attached"
      BY <2>4
    <3>2. /\ surfaces' = [surfaces EXCEPT ![id] = TRUE]
          /\ winState' = Created(winState, surfaces') /\ thrown' = thrown
      BY <1>2, <2>4, <3>1 DEF SurfaceAppears
    <3>3. /\ surfaces' \in [Ids -> BOOLEAN]
          /\ \A i \in Ids : surfaces'[i] => views[i] /\ valid'[i]
      BY <2>1, <2>2, <2>4, <3>2
    <3>4. CASE \A i \in Ids : views[i] => surfaces'[i]
      <4>1. winState' = "ready"
        BY <3>2, <3>4 DEF Created
      <4> QED
        BY <1>1, <2>1, <3>2, <3>3, <3>4, <4>1
    <3>5. CASE ~ \A i \in Ids : views[i] => surfaces'[i]
      <4>1. winState' = "attached"
        BY <3>1, <3>2, <3>5 DEF Created
      <4> QED
        BY <1>1, <2>1, <3>2, <3>3, <3>5, <4>1
    <3> QED
      BY <3>4, <3>5
  <2> QED
    BY <1>2, <2>3, <2>4 DEF SurfaceAppears
<1>3. CASE SurfaceVanishes(id)
  <2>1. valid' = [valid EXCEPT ![id] = FALSE] /\ thrown' = thrown
    BY <1>3 DEF SurfaceVanishes
  <2>2. CASE Detach
    BY <1>1, <2>1, <2>2, DetachedViews
  <2>3. CASE /\ winState = "init" \/ ~views[id]
             /\ UNCHANGED <<winState, views, surfaces>>
    <3>1. winState # "init" => ~surfaces[id]
      BY <2>3
    <3> QED
      BY <1>1, <2>1, <2>3, <3>1
  <2> QED
    BY <1>3, <2>2, <2>3 DEF SurfaceVanishes
<1> QED
  BY <1>2, <1>3

LEMMA OthersKeepViews ==
    ASSUME ViewsIInv,
           \/ Release \/ AttachGl \/ AttachGlNew \/ DetachGl \/ GlStep
           \/ FrameDrawn \/ TexLooperStep
    PROVE  ViewsIInv'
<1>1. UNCHANGED <<winState, views, surfaces, valid, thrown>>
  BY DEF Release, AttachGl, AttachGlNew, DetachGl, GlStep, AttachGlWake, TakeFrame,
         UpdateTexImage, Joined, FrameDrawn, TexLooperStep, CreateTexture,
         OnFrameAvailable, QuitLooper, viewVars
<1> QED
  BY <1>1, UntouchedViews

LEMMA ViewsStepKeepsIInv == ViewsIInv /\ [WindowNext]_windowVars => ViewsIInv'
<1> SUFFICES ASSUME ViewsIInv, [WindowNext]_windowVars PROVE ViewsIInv'
  OBVIOUS
<1>1. CASE UNCHANGED windowVars
  BY <1>1, UntouchedViews DEF windowVars
<1> QED
  BY <1>1, MainKeepsViews, CallbacksKeepViews, OthersKeepViews DEF WindowNext

(* Views are set, attached and detached, and surfaces come and go, in any  *)
(* order: the native side is told "ready" when each view has a surface and *)
(* not before, gets no surface of a detached view, and no callback throws. *)
THEOREM ReadyWithTheSurfaces == WindowSpec => []ReadyWithSurfaces
<1>1. ViewsIInv => ReadyWithSurfaces
  BY DEF ViewsIInv
<1> QED
  BY <1>1, ViewsStepKeepsIInv, InitViewsIInv, PTL DEF WindowSpec

(* What the two invariants leave to say of types.                          *)
ThreadsInRange ==
    /\ main \in {"idle", "releasing", "dead"}
    /\ texLooper \in {"none", "starting", "looping", "callback", "ended"}
    /\ doRelease \in BOOLEAN /\ frameAvailable \in BOOLEAN /\ quit \in BOOLEAN
    /\ thrown \in BOOLEAN

LEMMA InitThreadsInRange == WindowInit => ThreadsInRange
BY DEF WindowInit, ThreadsInRange

LEMMA ViewsKeepRange ==
    ASSUME ThreadsInRange, NEW id \in Ids,
           \/ SetView(id) \/ SurfaceAppears(id) \/ SurfaceVanishes(id)
           \/ AttachViews \/ DetachViews
    PROVE  ThreadsInRange'
<1>1. UNCHANGED textureVars
  BY DEF SetView, SurfaceAppears, SurfaceVanishes, AttachViews, DetachViews
<1>2. main' \in {main, "releasing"} /\ (thrown' \in BOOLEAN)
  BY DEF ThreadsInRange, SetView, SurfaceAppears, SurfaceVanishes, AttachViews, DetachViews,
         Detach
<1> QED
  BY <1>1, <1>2 DEF textureVars, ThreadsInRange

LEMMA TextureKeepsRange ==
    ASSUME ThreadsInRange,
           \/ Release \/ AttachGl \/ AttachGlNew \/ DetachGl \/ GlStep
           \/ FrameDrawn \/ TexLooperStep \/ UNCHANGED windowVars
    PROVE  ThreadsInRange'
<1> USE DEF ThreadsInRange
<1>1. CASE Release
  <2>1. doRelease' \in BOOLEAN
    BY <1>1 DEF Release
  <2>2. main' \in {"idle", "dead"} /\ UNCHANGED <<texLooper, frameAvailable, quit, thrown>>
    BY <1>1 DEF Release
  <2> QED
    BY <2>1, <2>2
<1>2. CASE AttachGl
  BY <1>2 DEF AttachGl, BeAttached, viewVars
<1>3. CASE AttachGlNew
  BY <1>3 DEF AttachGlNew, viewVars
<1>4. CASE DetachGl
  <2>1. quit' \in BOOLEAN
    BY <1>4 DEF DetachGl
  <2> QED
    BY <1>4, <2>1 DEF DetachGl, viewVars
<1>5. CASE GlStep
  BY <1>5 DEF GlStep, AttachGlWake, BeAttached, TakeFrame, UpdateTexImage, Joined, viewVars
<1>6. CASE FrameDrawn
  BY <1>6 DEF FrameDrawn, viewVars
<1>7. CASE CreateTexture
  BY <1>7 DEF CreateTexture, viewVars
<1>8. CASE OnFrameAvailable
  <2>1. frameAvailable' \in BOOLEAN
    BY <1>8 DEF OnFrameAvailable
  <2> QED
    BY <1>8, <2>1 DEF OnFrameAvailable, viewVars
<1>9. CASE QuitLooper
  BY <1>9 DEF QuitLooper, viewVars
<1>10. CASE UNCHANGED windowVars
  BY <1>10 DEF windowVars
<1> QED
  BY <1>1, <1>2, <1>3, <1>4, <1>5, <1>6, <1>7, <1>8, <1>9, <1>10 DEF TexLooperStep

(* The looper thread, the OpenGL thread and the main thread are never      *)
(* anywhere but at the steps of SurfaceTextureThread, and every view has   *)
(* a surface or has none.                                                  *)
THEOREM WindowTypesHold == WindowSpec => []WindowTypeOK
<1>1. TextureIInv /\ ViewsIInv /\ ThreadsInRange => WindowTypeOK
  BY DEF TextureIInv, SurfaceWithTexture, ViewsIInv, SurfacesOfViews, ThreadsInRange,
         WindowTypeOK
<1>2. ThreadsInRange /\ [WindowNext]_windowVars => ThreadsInRange'
  <2> SUFFICES ASSUME ThreadsInRange, [WindowNext]_windowVars PROVE ThreadsInRange'
    OBVIOUS
  <2>1. CASE \E id \in Ids : SetView(id) \/ SurfaceAppears(id) \/ SurfaceVanishes(id)
    BY <2>1, ViewsKeepRange
  <2>2. CASE AttachViews \/ DetachViews
    BY <2>2, ViewsKeepRange DEF Ids
  <2> QED
    BY <2>1, <2>2, TextureKeepsRange DEF WindowNext
<1> QED
  BY <1>1, <1>2, InitTextureIInv, TextureStepKeepsIInv, InitViewsIInv, ViewsStepKeepsIInv,
     InitThreadsInRange, PTL DEF WindowSpec
=============================================================================
