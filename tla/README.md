# Lingua Player in TLA+

Lingua Player is an Android media player built from VLC for Android: a Java
application (`src/vlc-android`), Java and JNI bindings of libvlc
(`src/libvlc`), a media library (`src/medialibrary`) and an extension API
(`src/api`). This directory holds TLA+ models of the parts of it whose
correctness depends on the order of events, their TLC configurations, and
proofs checked by TLAPS.

## 1. Inventory

Paths are relative to `src/vlc-android/src/org/videolan/vlc/` unless they start
with `src/`. The last column names the modules here.

| component | state | operations | what is hard | modules |
|---|---|---|---|---|
| Playback service (`PlaybackService.java`) and playlist (`media/MediaWrapperList.java`) | the list; current, previous and next index; stack of played positions; shuffle, repeat; what the player was given | load, append, insert, move, remove, expand, next, previous, playIndex, play, pause, stop; the player's events | handlers call each other through the list listener; player events and stop tasks arrive late; the draw of the shuffle | `MediaWrapperList`, `PlaybackService` |
| Audio focus and wake lock (`PlaybackService.java` 372-430 and the event handlers) | what the focus listener remembers, `mHasAudioFocus`, `mWakeLock` | focus changes, the player's events, play, pause, stop | losses on top of each other; commands take effect later | `AudioFocus` |
| libvlc object (`src/libvlc/src/org/videolan/libvlc/VLCObject.java`, JNI `libvlcjni-vlcobject.c`) | reference count, listener, handler | retain, release, setEventListener, dispatch from native | release races a native event; events posted but not run | `MediaList`, and the event queue of `PlaybackService` |
| libvlc media list (`.../libvlc/MediaList.java`) and browser (`.../libvlc/util/MediaBrowser.java`) | cached array of media, count, lock flag | native insert and delete events, getMediaAt, browse, reset, release | the cache follows native events; release during events | `MediaList` |
| Video output window (`.../libvlc/AWindow.java`) | surface states, attached flag | attachViews, detachViews, surface callbacks | surfaces come and go while the native vout opens | `AWindow` |
| Media (`.../libvlc/Media.java`, JNI `libvlcjni-media.c`) | cached duration, state, tracks; parse status; two flags and a condition | parse, parseAsync, getters, events | events are held back during a parse and fetched after it; a wait for an event | `MediaParse` |
| Dialogs (`.../libvlc/Dialog.java`, JNI `libvlcjni-dialog.c`, `gui/dialogs/VlcDialog.java`) | native id, global reference, window | display, update, cancel, answer, dismiss | three parties may answer, the answer frees the id | `Dialogs` |
| Thumbnailer (`src/libvlc/jni/thumbnailer.c`) | state bits, frame buffers, deadline | setup, display, position event, timed waits | a timed wait on a condition set by two decoder callbacks | `Thumbnailer` |
| List adapters (`gui/BaseQueuedAdapter.java`) | data set, deque of pending updates | update, diff on an executor, processQueue | diff computed off the main thread, updates that arrive meanwhile | `QueuedAdapter`, `LatestList` |
| Debug log (`DebugLogService.java`, `util/Logcat.java`, `gui/DebugLogActivity.java`) | log lines, reading and saving threads, the lines shown | start, stop, onLog, clear, save | stop and save join threads that need the monitor they hold; messages on their way | `DebugLog` |
| Media parsing service (`MediaParsingService.java`) | executors, notification time, wake lock, scan flags | discover, reload, progress callbacks, onDestroy | callbacks of native threads after the executor was shut down | not modelled |
| Extensions (`extensions/ExtensionManagerService.java`, `media/BrowserProvider.java`) | current extension, connection, semaphore | bind, browse, updateList, unbind | a browse blocks on a semaphore an extension may never release | not modelled |
| Metadata and notification tasks (`PlaybackService.java` 880-960, 1305-1350) | `mUpdateMeta`, single-thread executor | updateMetadata, showNotification | a task waits for a main-thread message | `PlaybackNotification` |
| Saved playlists and settings (`PlaybackService.java` 1544-1690) | preference keys | saveMediaList, savePosition, loadLastPlaylist | what is saved under which key | not modelled |
| Media library (`src/medialibrary`) | database, listeners, discoverers | init, discover, reload, queries | native threads; most of it is a submodule that is not in the tree | not modelled |
| Database (`media/MediaDatabase.java`) | SQLite tables | queries and updates | pure I/O | not modelled |
| Subtitles (`subs/`, `gui/video/VideoPlayerActivity.java`) | parsed captions, look-up map | parse, search by time | text parsing | not modelled |
| Video player activity (`gui/video/VideoPlayerActivity.java`) | user interface | touch, overlays, resume | its calls into the service | as actions of `PlaybackService` |
| Other user interface, dictionary, preferences, TV, widgets | views | Android callbacks | layout | not modelled |
| Vendored or generated (`src/android-headers`, `src/java-libs`, `src/ffmpeg_arm.0.3.2`, `src/appodeal`, `src/tapsell-android-3.0.31`) | | | third-party | not modelled |

What makes each correct:

- *Playback service*: `getCurrentMedia` is what the player was given; the cached
  next index is what a fresh computation gives; the shuffle repeats nothing
  before a reshuffle; no event of an old media acts on a new one; playback ends.
- *libvlc object and media list*: no event is delivered after the last release,
  a callback always finds the native object, release ends; the cached array is
  the native list, each media is counted as often as it is held.
- *Media*: what is kept is what libvlc knows, although events are held back; the
  end of a parse wakes its caller or is heard, once.
- *Dialogs*: whoever answers, the native id is answered once, and a cancelled
  dialog is answered.
- *Output window*: ready exactly with all surfaces; the texture outlives the
  OpenGL thread's use of it and is released in the end.
- *Audio focus, notification*: a call resumes what it paused and nothing else;
  the wake lock follows the song; a notification shows its own song's metadata.
- *Thumbnailer*: a picture is returned only of a frame after the seek, the
  caller never waits for ever, later frames do not disturb the first.
- *List adapter*: what is displayed in the end is the last list given, every diff
  is computed against the list that is displayed, at most one is in flight.
- *Debug log*: the lines of a log are its own, the activity shows what was logged,
  nobody waits for ever.

## 2. Plan

1. `PlaybackService` with `MediaWrapperList`: done, with `PlaybackServiceProofs`.
2. `QueuedAdapter`, implementing the abstract `LatestList`: done; its safety and
   the safety half of the refinement are proved.
3. `Thumbnailer`: done, with its safety proved.
4. `MediaList`, with `VLCObject` in it (a list and the media it holds are both
   objects with counts), `AWindow`, `MediaParse`, `Dialogs`: done, their safety
   proved.
5. `DebugLog`, `AudioFocus`, `PlaybackNotification`: done, their safety proved;
   the first two have the known violations of section 4.
6. `MCThreads`, the composition of the seven small components: done, it is proved
   to be, of each, its specification.
7. Left for later: the persistence of the playlist, what loadLastPlaylist
   restores after a process death.

## 3. The modules

| module | what it is |
|---|---|
| `MediaWrapperList` | the list of `media/MediaWrapperList.java` as operators on sequences: insert, delete, move, the next hit of a location |
| `PlaybackService` | the service, the player it drives and the actors around them |
| `MCPlaybackService`, `MCPlaybackLive` | values of the constants; a user with a budget of calls, and fairness |
| `LatestList` | what a list view promises: it never goes back to an older list, and shows the last one in the end |
| `QueuedAdapter`, `MCQueuedAdapter` | the adapter behind the lists, and values of its constants |
| `Thumbnailer` | the thumbnailer of libvlc's JNI layer |
| `MediaList` | a native list of media, its Java copy, and the release of both |
| `MediaParse` | the parsing of a media, its events and what Java keeps of it |
| `Dialogs` | a question of libvlc to the user |
| `AWindow` | the surfaces of a video output and its OpenGL texture |
| `DebugLog` | the debug log's service, its threads and its activity |
| `AudioFocus` | the audio focus and the wake lock of the playback service |
| `PlaybackNotification` | its notification and the metadata of its session |
| `MCThreads` | the seven small components above, one at a time |
| `MediaWrapperListProofs`, `PlaybackServiceProofs`, `QueuedAdapterProofs`, `MediaListProofs` | theorems about the module they are named for |
| `NativeObjectsProofs` | theorems about `Thumbnailer`, `MediaParse`, `Dialogs` and `AWindow` |
| `ServiceProofs` | theorems about `DebugLog`, `AudioFocus` and `PlaybackNotification` |
| `MCThreadsProofs` | what these say of the composition |
| `FoldProofs` | what FoldLeft of the community modules computes, for any operator |

### PlaybackService

The service has one main thread, on which the user's calls and the player's
events are handled; a pool whose threads run the tasks stop() leaves; and the
native player, which plays what it was given and posts events. The model has
one action for each call of the user interface (`UserLoad`, `UserAppend`,
`UserInsertNext`, `UserMove`, `UserRemove`, `UserNext`, `UserPlayIndex`, ...),
one for each event the service handles (`OnPlaying`, `OnPaused`, `OnStopped`,
`OnEndReached`, `OnEncounteredError`), one for what the native player does, and
one for each step of a task of the pool.

- *State.* The fields of the service that decide what plays next keep their
  meaning: `list` is mMediaList, `watched` whether its listener is registered,
  `cur`, `prev`, `next`, `previous` are mCurrentIndex, mPrevIndex, mNextIndex,
  mPrevious; `shuffling`, `repeating`, `stopped` (mStopped) likewise. `media`
  and `phase` are the player's media and what it does with it; `queue` is the
  events posted to the main thread, each marked stale once the player was given
  another media; `stops` and `clearing` are the tasks on the pool, `main` is
  what the main thread is at.
- *Handlers as operators.* The code's handlers call each other: remove() calls
  the list, which calls the listener, which calls next(), which calls
  playIndex(). Each is an operator from a state (a record of the fields) to the
  set of states it may leave; an action is one whole handler. A set, because
  the shuffle draws at random and a draw may not end (`main` becomes "hung").
- *Loops.* insertNext, expand and removeLocation signal the list's listener at
  every turn. They are cut into one step per turn (`InsertStep`, `ExpandStep`,
  `RemoveStep`) so that properties can speak of the state between two turns. No
  other handler runs in between: the main thread is busy.
- *The player.* setMedia and play do what `MediaPlayer.java` shows: play() posts
  Playing when the media opens, EndReached or EncounteredError when it ends or
  fails. `setEventListener` drops the messages that wait, which is what keeps
  late events from a new song; a video that plays through the activity has no
  listener of the service's own before the activity attaches.
- *A crash.* A handler that dereferences null leaves `main = "crashed"`;
  `Restart` is Android starting the process again, with the fields as new.

Decisions. append() adds all its items without signalling, so it is one step.
The flag that forces a video to be played as audio is set on the media
(`forced`), as the code does. Android's `ArrayList` iterator with a removal of
the listener itself does not throw for the one listener there is. Left out of
the model because nothing of the rest reads them back: saving the list and the position,
widgets, the commands of the media session, pop-up,
history, the seek to a saved time, rates and delays, mVideoCount,
showWithoutParse, restartMediaPlayer, areSurfacesWaiting, and the dialogs of
loadMedia in the video activity.

### QueuedAdapter and LatestList

`update()` queues a list and, if none was under way, submits its diff to a
single-thread executor; the executor computes it (`StartDiff`, `EndDiff`) and
posts it to the main thread, which shows the list and runs processQueue
(`OnDiff`). `SortableAdapter.add` is three steps on three threads: a copy of the
last list on the main thread (`Add`), the insertion on the pool (`AddTask`), an
update on the main thread (`OnAdd`). A list is a set of items with the number of
the update that asked for it, since sorting changes neither. `looper` is the
main thread's queue, in order; `asked`, `wanted` and `overtaken` are history: how
many updates were made, what the user's calls add up to, and whether an update
came between the copy and the update of one add().

`LatestList` has two variables, how many lists were asked for and the number of
the one shown. The mapping takes `dataset.id` for `shown`.

### Thumbnailer

The caller of nativeGetThumbnail, the callbacks of the video output and of the
position run in three threads and share one structure. What is done with
doneMutex locked is one step. The copy of a frame is several, so that a deadline
can pass in the middle. `clock` counts the two deadlines that have passed.
libvlc is external: the model uses that `libvlc_media_player_stop` returns when
no callback runs any more.

### MediaList

`native` is libvlc's list, `array` and `count` the Java copy, `refs` the count of
every media, `owners` that of the list. A native thread changes the list
(`NativeInsert`, `NativeDelete`) and sends one event (`SendEvent`), whose callback
updates the copy in the object's monitor and posts the event (`Dispatch...`).
The main thread's listener hears it (`OnEvent`), keeps the media if it likes, asks
for media (`GetMediaAt`), gives them back, retains and releases the list.
`ReleaseList`, `Detach` and `FreeNative` are the three parts of release(): the
second waits for a callback that runs. The array keeps spare slots, as
`SparseArray` does. `held` and `seen` are history: what the client must give back,
and the list it makes of the events.

### MediaParse

The caller of parse() or parseAsync(), libvlc's event thread and a reader of the
duration are three threads; each lock or monitor section is a step. `syncFlag`
and `asyncFlag` are the flags of libvlcjni-media.c that hold events back. The
native media may be shared with another Java object that has it parsed
(`OtherRequest`); whether libvlc accepts a request is open. The duration stands
for every field that is fetched once and reset by an event. `excused` marks a
value stored by a reader that an event has overtaken, which the code allows.

### Dialogs

A libvlc thread displays, updates and cancels; the main thread shows the window
and dismisses; the user answers or closes. An answer to the native id frees it,
so `answers` counts them, and `globals` the references to the Java dialog. The
main thread may answer before the callback has set the context: `early` marks
this.

### AWindow

The main thread's attach, detach and surface callbacks; the OpenGL thread of the
video output with the methods of SurfaceTextureThread it calls; and that class's
looper thread. Every synchronized method is a step, cut where it waits. A join
keeps the monitor: `MonitorFree`.

### DebugLog

The service's main methods run one at a time in its monitor. `readers` are the
threads of Logcat, one per start, `saver` is mSaveThread, `posted` the messages
that the service sends to the activity. A join inside the monitor is `joining`.

### AudioFocus, PlaybackNotification

`AudioFocus` has the system's messages about the focus, the player with commands
that take effect later, and the service's handlers as far as they touch focus and
wake lock. `PlaybackNotification` has the main thread, the single-thread executor
with its tasks in order, and the flag mUpdateMeta between them. A media session
that onDestroy has released makes late users end in `crashed`. play() and
isPlaying() of `MediaPlayer.java` and its JNI hand on to libvlc; what libvlc
plays, pauses, or counts as playing is external (`Played`, `PausedSoon`,
`IsPlaying`).

### MCThreads

A configuration is a start of a JVM: to check seven small components that share
nothing, one run chooses one of them in the first state (`active`) and lets only
that one run. Their reachable states add up, they do not multiply, and every
fairness conjunct speaks of one component.

## 4. The runs

| run | what it checks | size |
|---|---|---|
| `playlist_order` | `CurrentIsPlaying`, `NextIsFresh`, `InsertionsInRange` in list order, with a playlist file that expands | 730,942 states |
| `playlist_video` | `TypeOK`, `CurrentIsPlaying`, `SongsGetTheirOwnEvents` with a video | 648,166 |
| `playlist_shuffle` | `ShuffleNeverRepeats`, `IndicesInRange` | 145,537 |
| `playback_ends` | `PlaybackEnds` (liveness) | 178,594 |
| `adapter` | `OneDiffAtATime`, `DiffFitsDisplay`, `NothingLost`, `ShowsTheLatest` (refinement of `LatestList`, with liveness) | 141,924 |
| `media_list` | `CacheMirrorsList`, `CountsAreHeld`, `EventsTellTheList`, `QuietAfterRelease`, `CallbackHasObject`, `NothingLeaks`, `ReleaseEnds` (liveness) | 696,930 |
| `threads` | thumbnailer: `PictureIsWhole`, `CallerReturns`; parse: `KeptIsCurrent`, `HeardOnce`, `ParseReturns`, `ParseIsHeard`; dialogs: `AnsweredOnce`, `ReferenceGivenBack`, `CancelledIsAnswered`; window: `ReadyWithSurfaces`, `TextureStays`, `ReleasedByGl`; log: `OwnLines`, `ShownEndsWithLog`; focus: `CallIsRemembered`, `WakeLockFollows`; notification: `NotificationIsFresh`, `WaitEnds` | 61,453 |

What they show:

- *The current index follows the media.* Insertions before the current position,
  moves across it, removals of and around it, skips, late stop tasks: after any
  sequence `getCurrentMedia` is what the player has (`CurrentIsPlaying`), in list
  order. In shuffle mode it is not so, see `shuffle_remove` below.
- *Insertions are in range*: insertNext and the expansion of a playlist file never
  insert outside the list, whatever the listener did between two of them
  (`InsertionsInRange`).
- *The cached neighbours are right.* The next index equals a fresh computation
  (`NextIsFresh`), and both are positions of the list (`IndicesInRange`).
- *A song hears only its own events* (`SongsGetTheirOwnEvents`): an EndReached
  of the media before cannot skip it.
- *Playback ends* (`PlaybackEnds`): events, tasks and failing media leave nothing
  waiting. Excepted is a video that play() starts while it waits for the video
  activity: the code registers no listener then, so nobody hears of its end.
- *The adapter shows the last list* and loses nothing on the way, except that an
  add() whose copy is overtaken by an update undoes it (`overtaken`).
- *The thumbnailer returns*, with a whole frame or with nothing.
- *The Java list is the native list* after each event (`CacheMirrorsList`), and
  media are counted right (`CountsAreHeld`) as long as the list lives. At its end
  they are not, see `list_release`.
- *release() and native callbacks* meet in any order: no late event, no callback
  on a freed object, no wait for ever. It depends on detaching outside the
  monitor, as the comment in release() says: within it, `ReleaseEnds` fails.
- *Parsing*: holding events back loses nothing (`KeptIsCurrent`), but for a
  reader overtaken by an event and for a refused request.
- *Dialogs* are answered once, and always when libvlc cancels them.
- *The window* never throws for a wrong state, whatever the system does to the
  surfaces; a texture in use is released by its user, with its Surface
  (`ReleasedByGl`: not only the flag must go), unless a frame arrives just
  then, which stops both threads (`Stuck`).
- *The log* shown by the activity ends as the service's list; no line of a
  stopped log comes into the next.
- *Focus*: what a call has paused is remembered through any losses; the wake lock
  is held as long as a song plays. *The notification* that waits for metadata
  gets them, though it blocks the thread that gathers them: the message that
  wakes it is on its way already.

Five runs are expected to fail: each checks one sentence of a comment or of the
application's texts, and TLC finds the code doing something else.

| run | sentence | what the code does |
|---|---|---|
| `shuffle_hangs` | after all songs, "either reshuffle or stop" (PlaybackService.java:1044) | a skip under repeat-one pushes the current index too; the stack outgrows the equality test and the draw never ends |
| `shuffle_remove` | "Return the current media" (834) | a removal in shuffle mode decrements a freshly drawn index |
| `list_release` | retained "in order to don't clean it with the medialist" (MediaBrowser.java:216) | the last slot of the array keeps a deleted media, which the end of the list releases once more |
| `log_stop` | "Stop the thread previously started" (Logcat.java:87) | stop() joins, inside the monitor, a thread that needs it to log the line it has read |
| `audio_focus` | "Resume playback after a call", "Stay in pause otherwise" (strings.xml:437) | flags left by a loss without a gain make the end of a mere notification start the player |

Four more disagreements were met while modelling and have no run; PROJECT.json
names them under its hazards: expand() returns 0 (PlaybackService.java:1015),
an index without media after a stop before the first Playing event (1875), the
Playing handler without a current media (610), and frames allocated again after
the thumbnail was taken (thumbnailer.c:207).

### Bounds

- `MaxList` 2 to 4. An off-by-one of insert, move or remove shows with a position
  before, at and after the current one: three items. A draw with a choice left,
  and a reshuffle, need four, of which `playlist_shuffle` has four copies of one
  song: positions, not media, are what is drawn.
- `MaxPrevious`, the stack of played positions: as long as the list in the other
  playlist runs, three in `playlist_shuffle`, a full
  round of its four items (the current one is not on the stack), and 16 in
  `playback_ends`, where the user's four calls never reach it.
- `MaxQueue` 1 or 2 events that wait: a stale and a fresh one. `MaxStops` 1 or 2
  tasks on the pool: one that is late is enough to hit the next media.
- `MaxCalls`, 4 calls: for the adapter, an update in the making, one that
  is skipped, one that is last, and an add() in between. Counts of calls are
  bounded only where histories or liveness need it; the safety runs of
  `PlaybackService` have no bound on calls.
- Media: a song and a video, or a song and a playlist file with two songs inside;
  equal media at several positions are included in every list.
- `Alone = FALSE` in the runs that check `CurrentIsPlaying`: with a video opened
  on its own the activity passes position -1 to playIndex, which moves the
  index to 0 without playing. This is listed as a hazard.
- `media_list`: three media, so that one is before, at and behind the position of a
  change; `MaxQueue` 2 events, `MaxOwners` 2 references to the list, `MaxHeld` 1
  of the client to each media: one is enough to lose.
- `threads`: `MaxFrames` 3 and `MaxSetups` 2 of the thumbnailer: a frame before,
  for and after the picture, an output that opens again; `MaxChanges` 2 of the
  duration: one held back and one dispatched; `MaxUpdates` 2 of a dialog;
  `MaxLines` 1 is MAX_LINES, 20000 in the code, so that a full list occurs,
  `MaxRead` 4 lines read, `MaxSessions` 2 starts of the log: a late reader
  and its successor; `MaxMessages` 2 of each kind of message; `MaxMeta` 3 updates and
  `MaxTasks` 3 tasks of the notification: an update, a wait and an update behind
  it.
- `list_release`, `log_stop`, `audio_focus`: the smallest bounds that show the
  case.
- Where a run says `CHECK_DEADLOCK FALSE`, the calls are bounded, or
  the caller has returned, and the system may really stop. Elsewhere TLC checks
  that some action is always possible.

### Fairness

`playback_ends`: the main looper handles its messages and ends its handlers; the
native player opens what it was told to play and comes to its end, or fails; the
pool's threads run their tasks. The user is not fair. All are weak fairness of
actors that the code leaves running: the looper and `THREAD_POOL` live as long
as the process. `adapter`: the executor's thread, the pool and the looper
run on. `media_list`: a callback that began ends, a release that began goes on;
detaching is strongly fair, since callbacks may begin again and again before it,
and it gets the lock between two of them. `threads`, for each component on its
own. Thumbnailer: time passes, a callback that began ends, the caller runs, and
stop() returns between two frames (strong fairness, since frames go on until
then); nothing is assumed of the media. Parsing: the caller's thread
and the event thread run, and libvlc ends a parse it accepted, between two other
events (strong fairness). Dialogs: libvlc's thread and the main thread run, the
user is not fair. Window: the OpenGL thread, the looper thread and a release that
began run on, and the video output closes in the end (strong fairness of
`DetachGl`, since frames go on until then). Notification: the executor's
thread and the looper run on. `log_stop`: the threads of the log run, and a
reading thread whose process was destroyed ends; the user is not fair.
None of this is an order between threads.

## 5. What is proved

`MediaWrapperListProofs` has lemmas about the list operators: what insert,
delete and move return is a sequence over the same elements, one longer, one
shorter, as long, and every item is in it where the service looks for it
afterwards (`InsertItem`, `DeleteItem`, `MoveItem`).

`PlaybackServiceProofs` proves `TypeOK`, `InsertionsInRange`,
`SongsGetTheirOwnEvents` and `IndicesInRange` for every set of media, every
nesting of playlist files and every bound. The inductive invariant `Good` is a
predicate on a state record, the conjunction of the state's type, `Own` (a song's
queue holds only its events), `InRange` (the current position and its
neighbours are positions or -1 while the list is watched) and `Loop` (the
loops' position). It must be stronger than the properties: next() and the list
listener move to a neighbour while no media is current yet, so `InRange` speaks
of all watched states between steps, not only of those with a current media.
Because handlers are operators from states to sets of states, the proof has one
lemma per operator, and the lemma of a handler cites those of the handlers it
calls, as the code calls them.

The same module proves `NextIsFresh` and `ShuffleNeverRepeats` where `Alone` is
FALSE. Their invariant, `Settled`, says that every handler ends in one of four
ways: it called determinePrevAndNextIndices last, it left a video or no media,
it stopped watching the list, or it left alone all that the neighbours are computed
from (`Steady`). A video opened on its own breaks this: playIndex(-1) moves the
current position to 0 and determines no neighbours.
It proves `CurrentIsPlaying` where `Alone` is FALSE and `Shuffles` is {FALSE}. The invariant
`InStep` says that an edit of the list carries the current position along with its
item; when the current item itself is removed, next() goes no further
than the gap, so closing the gap moves nothing. In shuffle mode next() may go anywhere,
and the property is false: run `shuffle_remove` shows it.

`QueuedAdapterProofs` proves `OneDiffAtATime`, `DiffFitsDisplay`, `NothingLost`
and that every step is a step of `LatestList` or a stutter, for every set of
items and tasks and any number of calls. The invariant adds to the properties
that waiting lists are numbered upwards from the displayed one (needed for the
refinement: what a diff shows is newer), that no addition claims a base in the
future, and `Kept`: as long as every addition under way was copied from the last
list, either none is under way and the last list is what is wanted, or one is
and it holds what is wanted. With two under way nothing is claimed, since the
first to arrive makes the other late.

`MediaListProofs` proves `CacheMirrorsList`, `QuietAfterRelease` and
`CallbackHasObject` for any number of media and lists of any length. The invariant says more
than that the copy is the list between changes: while an insertion or deletion
is under way the copy is the list before it, so that the event, with the position it
names, brings it there. That the loops over the slots do this, spare slots and all, are the
lemmas `InsertedMirrors` and `RemovedMirrors` about sequences.

It proves `EventsTellTheList` from a sequence of lists (`ToldBy`): the first is the
client's, each next one is what the event that waits makes of the one before, in which it
finds the position it names (`Fits`), and the last one is the array. Such a sequence is
easily extended by an event and shortened by one, and its end is the fold, for a queue of any
length: that is the lemma `FoldIsTelling` of `FoldProofs`, with the fold of an appended
element and of a tail, and that a fold stays within a set the operator stays within.
The library's induction theorems take a
predicate as a parameter, which no prover here can instantiate; `FoldProofs` uses instead
that the order of the numbers is well founded, applied to the *set* of the lengths for
which a claim fails, and takes the folded operator as a CONSTANT of the module, which
`INSTANCE FoldProofs WITH Op <- ...` gives a value.

It proves `CountsAreHeld` and `NothingLeaks` from an account of the references (`Accounts`):
while the list is owned, a media has one if the copy lists it, which it does once at most,
and one for each Media object of the client. A media whose insertion is under way
is one that nobody reaches yet (`NewIsUnknown`), or its event would add a reference to one
that is there. After the last release() the list's own may be left, until the
destructor has dropped them.

`NativeObjectsProofs` has a part for each of four components, with the types of each.
Of `Thumbnailer` it proves `PictureIsWhole`: a frame is partly
filled only while the video output fills it, and it fills none once the player
was stopped. Of `MediaParse` it proves `HeardOnce` and `KeptIsCurrent`. Its invariant: the end of a
parse comes once (`OneEnd`); a flag is set only by a caller who is still about to
be served, or whom libvlc refused (`FlagsOfCallers`); while a synchronous caller waits, the end, if it is under
way, was not passed on (`EndIsForTheWaiting`); and whenever the kept
duration is stale, somebody still owes its reset (`StaleIsOwed`): an event under
way, the end of a parse, or the caller that fetches.
Of `Dialogs` it proves `AnsweredOnce` and `ReferenceGivenBack`: the id is there
exactly as long as it was displayed and not answered. Of `AWindow` it proves
`TextureStays` and `ReadyWithSurfaces`: the texture is there without its Surface
only while the OpenGL thread waits for the looper thread, and the state of the
window is a function of the views and their surfaces.

`ServiceProofs` has a part for each of three. Of `DebugLog` it proves the types, among
them the bound on the list, `OwnLines` and `ShownEndsWithLog`, for every MAX_LINES and any
number of lines and sessions. The invariant says what the activity knows (`ButtonsKnow`): the
buttons that are enabled, or the one answer that is posted, say whether a Logcat runs. That is why
stop() is never called without one and none is started before the last one was joined, hence why
only the current thread reads (`OneReads`). What is shown is again a fold (`Seen`): when
all messages that wait were heard, the service's list is the end of what is
shown, and while the activity clears both lists this also holds of an empty one.
Of `AudioFocus` it proves `CallIsRemembered` and `WakeLockFollows`. Between events the
wake lock may be wrong; the invariant (`Settled`) says that the last event that
waits tells what the player does now, and that the lock does when none waits. It
also says that a `Stopped` waits only when the player is gone, without which
an old one could release the lock of the next song.
Of `PlaybackNotification` it proves `NotificationIsFresh`. Each task is for the last
update asked for before it (`Ordered`), so that the head of the queue tells which
update ran last (`Updated`); its metadata are in the session, or in the one
message that will set them, unless two updates overlapped (`SetInTime`).

`MCThreadsProofs` proves of the composition that the run `threads` checks that a step of
it is a step of one component and none of the others (`ComponentsBehave`), hence
`TypesOK` and, together, all of the safety properties the run checks (`ThreadsAreSafe`).

Assumptions are those declared with the constants: None is not a media, bounds
are numbers, sub-items are lists of media, modes are modes; and in
`NextStaysFresh`, `ShuffleStaysFresh` and `CurrentStaysPlaying` `Alone` and `Shuffles` have the values they have in the runs
that check these properties.

Model-checked only: liveness (`PlaybackEnds`, `ShowsTheLatest`, `CallerReturns`,
`ReleaseEnds`, `ParseReturns`, `ParseIsHeard`, `CancelledIsAnswered`, `ReleasedByGl`, `WaitEnds`), since
fairness and ENABLED are outside what the prover does. Every invariant that a passing run
checks is proved, and of the refinement `ShowsTheLatest` the safety half.

## 6. What is not modelled

Section 1 lists the components without a module. Most of the repository's C code
is vendored: `src/android-headers`, the headers of six releases of Android,
holds most of its lines, with declarations and no behaviour to model;
measured against all C lines the models cover a very small share, and can cover no
more. The native parts of libvlc and of the media library are submodules that are
not in the tree; the models take from libvlc only what its callers rely on.
`MediaParsingService` is a thin layer over the media library, the extensions are
bindings to other applications whose answers nothing bounds, and the database,
subtitles and dictionary are sequential I/O or parsing. Of the modelled ones:

- PlaybackService: see the decisions above. Saving is the largest omission; the
  state that loadLastPlaylist restores is an arbitrary list and position.
- QueuedAdapter: clear() and addAll() write the displayed list directly, drags
  swap two of its items, and the comparator is shared by all adapters. Also the
  order of the items, hence what a sort that races a copy would give.
- Thumbnailer: the geometry of the frame; the memory of the raw frame, which is
  allocated again when an output opens again; a player that cannot be created.
- MediaList: the constructor of a list that has several media, lock() and
  unlock(), the arrays of MediaBrowser and its discoverers.
- MediaParse: the other cached fields, options, slaves; releasing the media during a
  parse, which `MediaList` has for objects in general.
- Dialogs: error dialogs, several at a time, the recreation of the activity.
- AWindow: TextureView and plain Surface, window size, mouse events, the wait for
  buffers geometry.
- DebugLog: several clients, the file, what a second process does.
- AudioFocus: videos, "resume playback" switched off, streams that cannot pause.
- PlaybackNotification: covers and texts, the choice between two kinds of
  notification.
