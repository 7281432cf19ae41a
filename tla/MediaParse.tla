------------------------------ MODULE MediaParse ------------------------------
(***************************************************************************)
(* The parsing of a media and what Java keeps of its results               *)
(* (libvlc/Media.java, libvlcjni-media.c).                                 *)
(*                                                                         *)
(* A caller parses the media, waiting for the end or not; a thread of      *)
(* libvlc sends the media's events; a reader asks for the duration, which  *)
(* Java keeps until an event says that it changed.  While a parse is under *)
(* way the callback holds the events back.  The native media may be shared *)
(* with another Java object, which may have it parsed: libvlc parses a     *)
(* media once and refuses later requests.                                  *)
(*                                                                         *)
(* What runs under p_sys->lock, or in the monitor of the Java object, is   *)
(* one step.  The duration stands for every value that is fetched and kept *)
(* in this way: state, type, tracks.                                       *)
(***************************************************************************)
EXTENDS Integers

CONSTANT MaxChanges  \* bound on the changes of the duration

ASSUME ChangesAssumption == MaxChanges \in Nat

VARIABLES
    syncFlag, asyncFlag,  \* b_parsing_sync, b_parsing_async
    parser,    \* what libvlc does with the media
    status,    \* mParseStatus
    parse,     \* where the caller of parse or parseAsync is
    mode,      \* which of the two it called
    notice,    \* the event under way, and how far it is
    duration,  \* the duration, as libvlc knows it
    cached,    \* mDuration
    reader,    \* where the reader is, and what it was given
    excused,   \* history: cached was read before an event that it outlived
    heard      \* history: how often the listener was told ParsedChanged

parseVars == <<syncFlag, asyncFlag, parser, status, parse, mode, notice, duration,
               cached, reader, excused, heard>>

Unknown == -1
NoNotice == [type |-> "none", at |-> "none"]
Idle == [at |-> "out", value |-> Unknown, fresh |-> TRUE]

ParseInit ==
    /\ syncFlag = FALSE /\ asyncFlag = FALSE /\ parser = "idle" /\ status = "init"
    /\ parse = "none" /\ mode = "none" /\ notice = NoNotice
    /\ duration = 0 /\ cached = Unknown /\ reader = Idle /\ excused = FALSE /\ heard = 0

(* What was fetched is forgotten; a reader that has a value will still     *)
(* store it.                                                               *)
Forget ==
    /\ cached' = Unknown /\ excused' = FALSE
    /\ reader' = [reader EXCEPT !.fresh = FALSE]

-----------------------------------------------------------------------------
(* The caller *)

Ask ==
    /\ status = "init" /\ parse = "none"
    /\ mode' \in {"sync", "async"}
    /\ status' = "parsing" /\ parse' = "asked"
    /\ UNCHANGED <<syncFlag, asyncFlag, parser, notice, duration, cached, reader, excused, heard>>

SetFlag ==
    /\ parse = "asked" /\ parse' = "flagged"
    /\ IF mode = "sync" THEN syncFlag' = TRUE /\ UNCHANGED asyncFlag
       ELSE asyncFlag' = TRUE /\ UNCHANGED syncFlag
    /\ UNCHANGED <<parser, status, mode, notice, duration, cached, reader, excused, heard>>

(* libvlc_media_parse_with_options                                         *)
Request ==
    /\ parse = "flagged"
    /\ \/ /\ parser = "idle" /\ parser' = "parsing"
          /\ parse' = IF mode = "sync" THEN "wait" ELSE "returned"
       \/ parse' = "failed" /\ UNCHANGED parser
    /\ UNCHANGED <<syncFlag, asyncFlag, status, mode, notice, duration, cached, reader,
                   excused, heard>>

Wait ==
    /\ parse = "wait" /\ ~syncFlag
    /\ parse' = "fetch"
    /\ UNCHANGED <<syncFlag, asyncFlag, parser, status, mode, notice, duration, cached,
                   reader, excused, heard>>

(* postParse                                                               *)
MarkParsed ==
    \/ status = "parsed" /\ UNCHANGED <<status, cached, reader, excused>>
    \/ status # "parsed" /\ status' = "parsed" /\ Forget

ReturnUnfetched ==  \* MUTANT: nothing is forgotten after a parse that was waited for
    /\ parse = "fetch" /\ parse' = "returned"
    /\ UNCHANGED <<status, cached, reader, excused, syncFlag, asyncFlag, parser, mode,
                   notice, duration, heard>>

ReturnParsed ==
    /\ parse = "fetch" /\ parse' = "returned" /\ MarkParsed
    /\ UNCHANGED <<syncFlag, asyncFlag, parser, mode, notice, duration, heard>>

-----------------------------------------------------------------------------
(* libvlc *)

(* Another Java object on the same native media asks.                      *)
OtherRequest ==
    /\ parser = "idle" /\ parser' = "parsing"
    /\ UNCHANGED <<syncFlag, asyncFlag, status, parse, mode, notice, duration, cached,
                   reader, excused, heard>>

ChangeDuration ==
    /\ notice = NoNotice /\ duration < MaxChanges
    /\ duration' = duration + 1
    /\ notice' = [type |-> "duration", at |-> "filter"]
    /\ UNCHANGED <<syncFlag, asyncFlag, parser, status, parse, mode, cached, reader,
                   excused, heard>>

EndParse ==
    /\ parser = "parsing" /\ notice = NoNotice
    /\ parser' = "done" /\ notice' = [type |-> "parsed", at |-> "filter"]
    /\ UNCHANGED <<syncFlag, asyncFlag, status, parse, mode, duration, cached, reader,
                   excused, heard>>

Passes(dispatch) == notice' = IF dispatch THEN [notice EXCEPT !.at = "dispatch"] ELSE NoNotice

(* Media_event_cb: the end of the parse clears both flags, and is not sent *)
(* on when somebody waits for it; others pass if no flag is set.           *)
FilterParsedLate ==  \* MUTANT: the flags are tested before they are cleared
    /\ notice = [type |-> "parsed", at |-> "filter"]
    /\ Passes(~syncFlag /\ ~asyncFlag)
    /\ syncFlag' = FALSE /\ asyncFlag' = FALSE
    /\ UNCHANGED <<parser, status, parse, mode, duration, cached, reader, excused, heard>>

FilterParsedAlways ==  \* MUTANT: sent on although somebody waits
    /\ notice = [type |-> "parsed", at |-> "filter"]
    /\ Passes(TRUE)
    /\ syncFlag' = FALSE /\ asyncFlag' = FALSE
    /\ UNCHANGED <<parser, status, parse, mode, duration, cached, reader, excused, heard>>

FilterParsedOneFlag ==  \* MUTANT: the flag of the other kind of parse is cleared
    /\ notice = [type |-> "parsed", at |-> "filter"]
    /\ Passes(~syncFlag)
    /\ asyncFlag' = FALSE /\ UNCHANGED syncFlag
    /\ UNCHANGED <<parser, status, parse, mode, duration, cached, reader, excused, heard>>

FilterParsed ==
    /\ notice = [type |-> "parsed", at |-> "filter"]
    /\ Passes(~syncFlag)
    /\ syncFlag' = FALSE /\ asyncFlag' = FALSE
    /\ UNCHANGED <<parser, status, parse, mode, duration, cached, reader, excused, heard>>

FilterOther ==
    /\ notice = [type |-> "duration", at |-> "filter"]
    /\ Passes(~syncFlag /\ ~asyncFlag)
    /\ UNCHANGED <<syncFlag, asyncFlag, parser, status, parse, mode, duration, cached,
                   reader, excused, heard>>

(* onEventNative                                                           *)
TellDuration ==
    /\ notice = [type |-> "duration", at |-> "dispatch"] /\ notice' = NoNotice
    /\ Forget
    /\ UNCHANGED <<syncFlag, asyncFlag, parser, status, parse, mode, duration, heard>>

TellParsed ==
    /\ notice = [type |-> "parsed", at |-> "dispatch"] /\ notice' = NoNotice
    /\ MarkParsed /\ heard' = heard + 1
    /\ UNCHANGED <<syncFlag, asyncFlag, parser, parse, mode, duration>>

-----------------------------------------------------------------------------
(* The reader: getDuration, three steps                                    *)

Look ==
    /\ reader.at = "out" /\ cached = Unknown
    /\ reader' = [Idle EXCEPT !.at = "get"]
    /\ UNCHANGED <<syncFlag, asyncFlag, parser, status, parse, mode, notice, duration,
                   cached, excused, heard>>

Get ==
    /\ reader.at = "get"
    /\ reader' = [at |-> "store", value |-> duration, fresh |-> TRUE]
    /\ UNCHANGED <<syncFlag, asyncFlag, parser, status, parse, mode, notice, duration,
                   cached, excused, heard>>

Store ==
    /\ reader.at = "store" /\ cached' = reader.value /\ excused' = ~reader.fresh
    /\ reader' = Idle
    /\ UNCHANGED <<syncFlag, asyncFlag, parser, status, parse, mode, notice, duration, heard>>

-----------------------------------------------------------------------------
ParseCaller == Ask \/ SetFlag \/ Request \/ Wait \/ ReturnParsed
ParseEvents == FilterParsed \/ FilterOther \/ TellDuration \/ TellParsed
ParseReader == Look \/ Get \/ Store

ParseNext ==
    \/ ParseCaller \/ ParseEvents \/ ParseReader
    \/ OtherRequest \/ ChangeDuration \/ EndParse

ParseSpec == ParseInit /\ [][ParseNext]_parseVars

-----------------------------------------------------------------------------
(* Properties *)

ParseTypeOK ==
    /\ syncFlag \in BOOLEAN /\ asyncFlag \in BOOLEAN
    /\ parser \in {"idle", "parsing", "done"} /\ status \in {"init", "parsing", "parsed"}
    /\ parse \in {"none", "asked", "flagged", "wait", "fetch", "returned", "failed"}
    /\ mode \in {"none", "sync", "async"}
    /\ notice \in {NoNotice} \cup [type : {"duration", "parsed"}, at : {"filter", "dispatch"}]
    /\ duration \in 0 .. MaxChanges /\ cached \in -1 .. MaxChanges
    /\ reader \in [at : {"out", "get", "store"}, value : -1 .. MaxChanges, fresh : BOOLEAN]
    /\ excused \in BOOLEAN /\ heard \in Nat

Quiescent == notice = NoNotice /\ parse \in {"none", "returned", "failed"} /\ parser # "parsing"

(* When no parse and no event is under way, what is kept is what libvlc    *)
(* knows, although changes were held back: but for a reader that was       *)
(* overtaken by an event, and for a request that libvlc refused.           *)
KeptIsCurrent ==
    Quiescent /\ parse # "failed" /\ ~excused => cached \in {Unknown, duration}

(* "no need to send libvlc_MediaParsedChanged when parsing is              *)
(* synchronous", and it is never sent twice.                               *)
HeardOnce == heard <= IF mode = "sync" /\ parse \in {"wait", "fetch", "returned"} THEN 0 ELSE 1

(* The caller that waits for the end of the parse comes back.              *)
ParseReturns == parse = "wait" ~> parse = "returned"

(* "To track when this is over you can listen to ParsedChanged event (only *)
(* if this methods returned true)".                                        *)
ParseIsHeard == mode = "async" /\ parse = "returned" ~> heard = 1
=============================================================================
