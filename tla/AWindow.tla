------------------------------- MODULE AWindow -------------------------------
(***************************************************************************)
(* The output window of a player (libvlc/AWindow.java).                    *)
(*                                                                         *)
(* The main thread attaches a view for the video and perhaps one for the   *)
(* subtitles, learns from callbacks when their surfaces appear and vanish, *)
(* and detaches the views.  The OpenGL thread of a video output draws      *)
(* through a SurfaceTexture, which is created on a looper thread of its    *)
(* own, is kept over several outputs and released when the views are       *)
(* detached, or by the OpenGL thread if it is attached then.               *)
(*                                                                         *)
(* The methods of SurfaceTextureThread are synchronized: each is one step, *)
(* but for wait(), which lets go of the monitor, and for join(), which     *)
(* does not.  Views are SurfaceViews, as in the application.               *)
(***************************************************************************)
EXTENDS Integers

Ids == {"video", "subtitles"}

VARIABLES
    winState,   \* mSurfacesState
    views,      \* mSurfaceHelpers: which views are set
    surfaces,   \* mSurfaces, what the native side can get
    valid,      \* which surfaces the system has for the views
    thrown,     \* an exception for an invalid state was thrown
    main,       \* "idle", or "releasing" before mSurfaceTextureThread.release()
    texture,    \* mSurfaceTexture is there
    surface,    \* mSurface is there
    isAttached, doRelease, frameAvailable,
    gl,         \* where the OpenGL thread is
    texLooper,  \* where the looper thread is
    quit        \* mLooper.quit() was called

windowVars == <<winState, views, surfaces, valid, thrown, main, texture, surface,
                isAttached, doRelease, frameAvailable, gl, texLooper, quit>>
viewVars == <<winState, views, surfaces, valid, thrown, main>>
textureVars == <<texture, surface, isAttached, doRelease, frameAvailable, gl, texLooper, quit>>

NoneOf == [id \in Ids |-> FALSE]

WindowInit ==
    /\ winState = "init" /\ views = NoneOf /\ surfaces = NoneOf /\ valid = NoneOf
    /\ thrown = FALSE /\ main = "idle"
    /\ texture = FALSE /\ surface = FALSE /\ isAttached = FALSE /\ doRelease = FALSE
    /\ frameAvailable = FALSE /\ gl = "out" /\ texLooper = "none" /\ quit = FALSE

-----------------------------------------------------------------------------
(* The main thread *)

SetView(id) ==
    /\ main = "idle" /\ winState = "init"
    /\ views' = [views EXCEPT ![id] = TRUE]
    /\ UNCHANGED <<winState, surfaces, valid, thrown, main, textureVars>>

(* onSurfaceCreated, once the surfaces are now: ready when all views have  *)
(* one.                                                                    *)
Created(state, now) ==
    IF \A id \in Ids : views[id] => now[id] THEN "ready" ELSE state

(* setSurface for every view that has a valid surface, one after the       *)
(* other: the last one finds the window attached and makes it ready.       *)
AttachViews ==
    /\ main = "idle" /\ winState = "init" /\ views["video"]
    /\ surfaces' = [id \in Ids |-> views[id] /\ valid[id]]
    /\ winState' = Created("attached", surfaces')
    /\ UNCHANGED <<views, valid, thrown, main, textureVars>>

(* surfaceCreated                                                          *)
SurfaceAppears(id) ==
    /\ main = "idle" /\ ~valid[id] /\ valid' = [valid EXCEPT ![id] = TRUE]
    /\ \/ /\ winState # "init" /\ views[id] /\ ~surfaces[id]
          /\ surfaces' = [surfaces EXCEPT ![id] = TRUE]
          /\ IF winState = "attached"
             THEN winState' = Created(winState, surfaces') /\ UNCHANGED thrown
             ELSE thrown' = TRUE /\ UNCHANGED winState
       \/ /\ winState = "init" \/ ~views[id] \/ surfaces[id]
          /\ UNCHANGED <<winState, surfaces, thrown>>
    /\ UNCHANGED <<views, main, textureVars>>

DetachKeepsSurfaces ==  \* MUTANT: the native side keeps the surfaces
    /\ winState' = "init" /\ views' = NoneOf /\ UNCHANGED surfaces /\ main' = "releasing"

(* detachViews, up to the release of the texture                           *)
Detach ==
    /\ winState' = "init" /\ views' = NoneOf /\ surfaces' = NoneOf /\ main' = "releasing"

DetachViews ==
    /\ main = "idle" /\ winState # "init" /\ Detach
    /\ UNCHANGED <<valid, thrown, textureVars>>

(* surfaceDestroyed: the callback is gone once the views are detached.     *)
SurfaceVanishes(id) ==
    /\ main = "idle" /\ valid[id] /\ valid' = [valid EXCEPT ![id] = FALSE]
    /\ \/ winState # "init" /\ views[id] /\ Detach
       \/ (winState = "init" \/ ~views[id]) /\ UNCHANGED <<winState, views, surfaces, main>>
    /\ UNCHANGED <<thrown, textureVars>>

MonitorFree == gl # "joining"

ReleaseAtOnce ==  \* MUTANT: released although the OpenGL thread is attached
    /\ main = "releasing" /\ MonitorFree
    /\ IF texture /\ ~surface THEN main' = "dead" ELSE main' = "idle"
    /\ texture' = FALSE /\ surface' = FALSE
    /\ UNCHANGED <<winState, views, surfaces, valid, thrown, isAttached, doRelease,
                   frameAvailable, gl, texLooper, quit>>

(* SurfaceTextureThread.release: a texture whose Surface was not made yet  *)
(* is a null pointer.  The looper thread lives on when the texture is      *)
(* released here.                                                          *)
Release ==
    /\ main = "releasing" /\ MonitorFree
    /\ \/ /\ texture /\ isAttached /\ UNCHANGED <<texture, surface>>
          /\ doRelease' = TRUE /\ main' = "idle"
       \/ /\ texture /\ ~isAttached /\ UNCHANGED doRelease
          /\ IF surface THEN texture' = FALSE /\ surface' = FALSE /\ main' = "idle"
             ELSE main' = "dead" /\ UNCHANGED <<texture, surface>>
       \/ ~texture /\ main' = "idle" /\ UNCHANGED <<texture, surface, doRelease>>
    /\ UNCHANGED <<winState, views, surfaces, valid, thrown, isAttached, frameAvailable,
                   gl, texLooper, quit>>

-----------------------------------------------------------------------------
(* The OpenGL thread *)

Alive == main # "dead"

BeAttached == frameAvailable' = FALSE /\ isAttached' = TRUE /\ gl' = "attached"

AttachGl ==
    /\ Alive /\ gl = "out" /\ texture /\ BeAttached
    /\ UNCHANGED <<viewVars, texture, surface, doRelease, texLooper, quit>>

AttachGlNew ==
    /\ Alive /\ gl = "out" /\ ~texture
    /\ texLooper' = "starting" /\ quit' = FALSE /\ gl' = "waiting"
    /\ UNCHANGED <<viewVars, texture, surface, isAttached, doRelease, frameAvailable>>

(* wait() is over: other methods may have run since notify().              *)
AttachGlWake ==
    /\ Alive /\ gl = "waiting" /\ texture
    /\ surface' = TRUE /\ BeAttached
    /\ UNCHANGED <<viewVars, texture, doRelease, texLooper, quit>>

(* waitAndUpdateTexImage; without a frame in time nothing changes.         *)
TakeFrame ==
    /\ Alive /\ gl = "attached" /\ frameAvailable
    /\ frameAvailable' = FALSE /\ gl' = "updating"
    /\ UNCHANGED <<viewVars, texture, surface, isAttached, doRelease, texLooper, quit>>

UpdateTexImage ==
    /\ Alive /\ gl = "updating" /\ gl' = "attached"
    /\ UNCHANGED <<viewVars, texture, surface, isAttached, doRelease, frameAvailable,
                   texLooper, quit>>

DetachGlDropsFlag ==  \* MUTANT: the texture is only detached, the flag reset
    /\ Alive /\ gl = "attached"
    /\ isAttached' = FALSE /\ doRelease' = FALSE /\ gl' = "out"
    /\ UNCHANGED <<viewVars, texture, surface, frameAvailable, texLooper, quit>>

(* detachFromGLContext                                                     *)
DetachGl ==
    /\ Alive /\ gl = "attached"
    /\ \/ doRelease /\ quit' = TRUE /\ gl' = "joining" /\ UNCHANGED isAttached
       \/ ~doRelease /\ isAttached' = FALSE /\ gl' = "out" /\ UNCHANGED quit
    /\ UNCHANGED <<viewVars, texture, surface, doRelease, frameAvailable, texLooper>>

Joined ==
    /\ Alive /\ gl = "joining" /\ texLooper = "ended"
    /\ surface' = FALSE /\ texture' = FALSE /\ doRelease' = FALSE
    /\ isAttached' = FALSE /\ gl' = "out"
    /\ UNCHANGED <<viewVars, frameAvailable, texLooper, quit>>

-----------------------------------------------------------------------------
(* The looper thread *)

CreateTexture ==
    /\ Alive /\ texLooper = "starting" /\ MonitorFree
    /\ texture' = TRUE /\ texLooper' = "looping"
    /\ UNCHANGED <<viewVars, surface, isAttached, doRelease, frameAvailable, gl, quit>>

(* The codec has drawn a frame into the texture; it draws the next when    *)
(* that one was taken.                                                     *)
FrameDrawn ==
    /\ Alive /\ texLooper = "looping" /\ ~quit /\ texture /\ surface /\ ~frameAvailable
    /\ texLooper' = "callback"
    /\ UNCHANGED <<viewVars, texture, surface, isAttached, doRelease, frameAvailable, gl, quit>>

OnFrameAvailable ==
    /\ Alive /\ texLooper = "callback" /\ MonitorFree
    /\ frameAvailable' = (frameAvailable \/ texture) /\ texLooper' = "looping"
    /\ UNCHANGED <<viewVars, texture, surface, isAttached, doRelease, gl, quit>>

QuitLooper ==
    /\ Alive /\ texLooper = "looping" /\ quit /\ texLooper' = "ended"
    /\ UNCHANGED <<viewVars, texture, surface, isAttached, doRelease, frameAvailable, gl, quit>>

-----------------------------------------------------------------------------
GlStep == AttachGlWake \/ TakeFrame \/ UpdateTexImage \/ Joined
TexLooperStep == CreateTexture \/ OnFrameAvailable \/ QuitLooper

WindowNext ==
    \/ \E id \in Ids : SetView(id) \/ SurfaceAppears(id) \/ SurfaceVanishes(id)
    \/ AttachViews \/ DetachViews \/ Release
    \/ AttachGl \/ AttachGlNew \/ DetachGl \/ GlStep
    \/ FrameDrawn \/ TexLooperStep

WindowSpec == WindowInit /\ [][WindowNext]_windowVars

-----------------------------------------------------------------------------
(* Properties *)

WindowTypeOK ==
    /\ winState \in {"init", "attached", "ready"}
    /\ views \in [Ids -> BOOLEAN] /\ surfaces \in [Ids -> BOOLEAN] /\ valid \in [Ids -> BOOLEAN]
    /\ thrown \in BOOLEAN /\ main \in {"idle", "releasing", "dead"}
    /\ texture \in BOOLEAN /\ surface \in BOOLEAN /\ isAttached \in BOOLEAN
    /\ doRelease \in BOOLEAN /\ frameAvailable \in BOOLEAN /\ quit \in BOOLEAN
    /\ gl \in {"out", "waiting", "attached", "updating", "joining"}
    /\ texLooper \in {"none", "starting", "looping", "callback", "ended"}

(* The window is ready exactly when every view that is set has a surface,  *)
(* which the system still has, and the native side gets none when it is    *)
(* not attached; no callback comes at a moment that makes it throw.        *)
ReadyWithSurfaces ==
    /\ ~thrown
    /\ winState = "init" => surfaces = NoneOf
    /\ winState # "init" =>
         /\ (winState = "ready") = (\A id \in Ids : views[id] => surfaces[id])
         /\ \A id \in Ids : surfaces[id] => valid[id]

(* While the OpenGL thread is attached its texture and its Surface are     *)
(* there, whatever the main thread detaches meanwhile.                     *)
TextureStays == isAttached => texture /\ surface

(* A texture whose release was left to the OpenGL thread is really         *)
(* released in the end, its Surface with it: it is not enough that the     *)
(* flag goes.  Except when that thread waits for the looper thread while   *)
(* the looper thread waits for the monitor.                                *)
Stuck == gl = "joining" /\ texLooper = "callback"
ReleasedByGl == doRelease ~> (~texture /\ ~surface) \/ Stuck
=============================================================================
