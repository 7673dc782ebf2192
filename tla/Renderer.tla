------------------------------- MODULE Renderer -------------------------------
(***************************************************************************)
(* The renderer as the engine drives it: on the systems thread a tick that *)
(* installs what the loader has ready, runs the game and draws a frame;    *)
(* loading jobs on the workers; the GPU; and the main thread, which shuts  *)
(* everything down once the systems thread has left its loop.              *)
(***************************************************************************)
EXTENDS FramePacing, TextureLoader

CONSTANT Objects   \* what keeps a texture set it once looked up, to be drawn with

VARIABLES
  bound,       \* the texture behind the set an object keeps
  pc,          \* what the systems thread does next
  mainPc,      \* how far the main thread's shutdown has come
  exitSignal

vars == <<paceVars, loaderVars, bound, pc, mainPc, exitSignal>>

Init ==
  /\ PaceInit /\ LoaderInit
  /\ bound = [o \in Objects |-> None]
  /\ pc = "events" /\ mainPc = "loop"
  /\ exitSignal = FALSE

Panicked == pc = "panicked" \/ RingJammed

StepTo(from, to) == pc = from /\ pc' = to /\ UNCHANGED <<mainPc, exitSignal>>
Go(from, to) == StepTo(from, to) /\ UNCHANGED bound
MainGo(from, to) == mainPc = from /\ mainPc' = to /\ UNCHANGED <<bound, pc, exitSignal>>
Elsewhere == UNCHANGED <<bound, pc, mainPc, exitSignal>>

-----------------------------------------------------------------------------
(* Engine.tick: the eventors, then the ticks. *)

ProcessEvents == Go("events", "drain") /\ LockReady /\ UNCHANGED paceVars
NothingReady == Go("events", "tick") /\ assetsReady = <<>> /\ UNCHANGED <<paceVars, loaderVars>>

(* The upload waits for a fence of its own on the graphics queue, and with   *)
(* it for every frame submitted before.                                      *)
Upload == Go("drain", "drain") /\ GpuIdle /\ InstallReady /\ UNCHANGED paceVars
Drained == Go("drain", "tick") /\ UnlockReady /\ UNCHANGED paceVars

(* What the game may do during its tick. *)
GameLoads(n) == Go("tick", "tick") /\ ~exitSignal /\ LoadTexture(n) /\ UNCHANGED paceVars

(* Mutant: the new pixels are uploaded without waiting. *)
GameUpdatesAtOnce(n) == Go("tick", "tick") /\ UpdateTexture(n) /\ UNCHANGED paceVars

GameUpdates(n) == Go("tick", "tick") /\ GpuIdle /\ UpdateTexture(n) /\ UNCHANGED paceVars

(* setRenderObjectTexture: the set is looked up once, and kept. *)
GameBinds(o, n) ==
  /\ StepTo("tick", "tick") /\ textures[n] # None
  /\ bound' = [bound EXCEPT ![o] = textures[n]]
  /\ UNCHANGED <<paceVars, loaderVars>>

(* Either looks up a texture that must be there. *)
GameNamesUnloaded(n) == Go("tick", "panicked") /\ NotLoaded(n) /\ UNCHANGED paceVars
Ticked == Go("tick", "draw") /\ UNCHANGED <<paceVars, loaderVars>>

(* draw, in the order of its steps. *)
Acquire ==
  /\ Go("draw", "acquired") /\ ~isMinimized
  /\ \E i \in Images : GetNextSwapImage(i)
  /\ UNCHANGED loaderVars
AcquireFails == Go("draw", "panicked") /\ ~isMinimized /\ AcquireOutOfDate /\ UNCHANGED loaderVars
Record == Go("acquired", "recorded") /\ WaitForFence /\ UNCHANGED loaderVars

(* A frame reads what the sets lead to that objects keep, and for images of  *)
(* the user interface, looked up anew in each frame, what has a name.  Sets  *)
(* are freed with their textures, but who keeps one is not told: of what is  *)
(* read, some may dangle, put aside by an update before.                     *)
Registered == {textures[n] : n \in Names} \ {None}
Drawn == Registered \cup ({bound[o] : o \in Objects} \ {None})
Dangling == {t \in Drawn : t \in deferred \/ image[t] = "destroyed"}

Finish ==
  \E outOfDate \in BOOLEAN :
    /\ Go("recorded", IF MustRecreate(outOfDate) THEN "recreate" ELSE "finished")
    /\ FinishFrame(Drawn, Dangling, outOfDate)
    /\ UNCHANGED loaderVars
Recreate == Go("recreate", "finished") /\ RecreateSwapchain /\ UNCHANGED loaderVars

DestroyUnused == Go("finished", "drawn") /\ DestroyDeferred /\ UNCHANGED paceVars
SkipDraw ==
  /\ DrawMinimized
  /\ Go("draw", IF isMinimized' THEN "drawn" ELSE "restore")
  /\ UNCHANGED loaderVars
Restore == Go("restore", "drawn") /\ RecreateSwapchain /\ UNCHANGED loaderVars

(* The loop of the systems thread looks for the exit signal after each tick; *)
(* in this build the renderer is ready to exit at once.                      *)
NextTick == Go("drawn", IF exitSignal THEN "exited" ELSE "events") /\ UNCHANGED <<paceVars, loaderVars>>

SystemsThread ==
  \/ ProcessEvents \/ NothingReady \/ Upload \/ Drained
  \/ Ticked
  \/ Acquire \/ AcquireFails \/ Record \/ Finish \/ Recreate \/ DestroyUnused
  \/ SkipDraw \/ Restore
  \/ NextTick
Game ==
  \E n \in Names :
    \/ GameLoads(n) \/ GameUpdates(n) \/ GameNamesUnloaded(n)
    \/ \E o \in Objects : GameBinds(o, n)

-----------------------------------------------------------------------------
Stages(t) == StageImage(t) /\ UNCHANGED paceVars /\ Elsewhere
Pushes(t) == PushStaged(t) /\ UNCHANGED paceVars /\ Elsewhere
Finishes(t) == FinishJob(t) /\ UNCHANGED paceVars /\ Elsewhere
Takes == \E t \in Textures : Stages(t)
Works == \E t \in Textures : Pushes(t) \/ Finishes(t)

Gpu == GpuFinish /\ UNCHANGED loaderVars /\ Elsewhere
User ==
  /\ mainPc = "loop"
  /\ \/ \E size \in Sizes : WindowResized(size) /\ UNCHANGED exitSignal
     \/ exitSignal' = TRUE /\ UNCHANGED paceVars
  /\ UNCHANGED <<loaderVars, bound, pc, mainPc>>

-----------------------------------------------------------------------------
(* The main thread, from the end of its loop: NeonVkContext.shutdown waits   *)
(* for outstandingJobsCount, discards, destroys textures and then the        *)
(* device; after it the assets module destroys the loaders.                  *)

ExitConfirmed == pc = "exited" /\ MainGo("loop", "spin") /\ UNCHANGED <<paceVars, loaderVars>>

Spin == outstanding <= 0 /\ MainGo("spin", "discard") /\ UNCHANGED <<paceVars, loaderVars>>
Discard == MainGo("discard", "textures") /\ DiscardAll /\ UNCHANGED paceVars
DestroyRegistered == MainGo("textures", "device") /\ DestroyTextures /\ UNCHANGED paceVars
DestroyDevice == MainGo("device", "loaders") /\ UNCHANGED <<paceVars, loaderVars>>
DestroyLoaders == MainGo("loaders", "done") /\ UNCHANGED <<paceVars, loaderVars>>

MainThread ==
  ExitConfirmed \/ Spin \/ Discard \/ DestroyRegistered \/ DestroyDevice \/ DestroyLoaders

Next ==
  /\ ~Panicked
  /\ SystemsThread \/ Game \/ MainThread \/ Takes \/ Works \/ Gpu \/ User

Spec == Init /\ [][Next]_vars

(* A worker goes on with the job it has.  That it takes another is not       *)
(* assumed: the job queue may fail to hand it over, and nobody wakes workers *)
(* once the main loop is left.                                               *)
Running(A) == ~Panicked /\ A
FairSpec ==
  /\ Spec
  /\ WF_vars(Running(SystemsThread)) /\ WF_vars(Running(MainThread)) /\ WF_vars(Running(Gpu))
  /\ WF_vars(Running(Works))

-----------------------------------------------------------------------------
(* Every variable keeps its type; the count is never below zero. *)
TypeOK ==
  /\ extraSemaphore \in Semaphores /\ acquireSemaphores \in [Images -> Semaphores]
  /\ pending \subseteq Semaphores /\ fences \subseteq Images
  /\ nextFrameIndex \in Images
  /\ \A k \in DOMAIN gpu :
       gpu[k] \in [image : Images, semaphore : Semaphores,
                   reads : SUBSET Textures, dangling : SUBSET Textures]
  /\ window \in Sizes /\ extent \in Sizes /\ isMinimized \in BOOLEAN
  /\ created \in 0 .. MaxTextures
  /\ name \in [Textures -> Names \cup {NoName}]
  /\ job \in [Textures -> {"none", "queued", "staged", "pushed", "done", "refused", "jammed"}]
  /\ image \in [Textures -> {"none", "allocated", "destroyed"}]
  /\ staging \subseteq Textures /\ deferred \subseteq Textures
  /\ assetsReady \in Seq(Textures)
  /\ mutex \in {"free", "systems", "worker"}
  /\ outstanding \in Nat
  /\ discarding \in BOOLEAN /\ exitSignal \in BOOLEAN
  /\ textures \in [Names -> Textures \cup {None}]
  /\ bound \in [Objects -> Textures \cup {None}]
  /\ pc \in {"events", "drain", "tick", "draw", "acquired", "recorded", "recreate", "restore",
             "finished", "drawn", "exited", "panicked"}
  /\ mainPc \in {"loop", "spin", "discard", "textures", "device", "loaders", "done"}

(* getNextSwapImage hands the GPU a semaphore that no earlier frame is still  *)
(* to wait on, whatever order images come in and however far behind the GPU   *)
(* is.  The swap with acquireSemaphores and the wait for the fence of the     *)
(* same image are what this rests on.                                         *)
SpareSemaphoreIsIdle == pc = "draw" => extraSemaphore \notin pending

(* acquire_next_frame waits for the fence of a frame that has been submitted, *)
(* never for one nobody will signal, and once it has, the command buffer to   *)
(* be recorded is not being executed.                                         *)
FrameSlotIsFree ==
  /\ pc = "acquired" => nextFrameIndex \in fences \/ InFlight(nextFrameIndex)
  /\ pc = "recorded" => ~InFlight(nextFrameIndex)

(* While the engine runs nothing is destroyed under a frame that was recorded *)
(* before: destroyDeferredDestroyTextures waits for nothing, but the update   *)
(* that put a texture aside had waited for the frames before it.  What such a *)
(* frame reads stays, by name or through a kept set, also the set of a        *)
(* texture another load replaced.  Only what dangled when the frame was       *)
(* recorded is destroyed under it, or was before.                             *)
FramesReadLiveTextures ==
  mainPc \in {"loop", "spin", "discard"} =>
    \A k \in DOMAIN gpu : \A t \in gpu[k].reads \ gpu[k].dangling : image[t] = "allocated"

(* While the engine runs, a name answers with a live texture of that name,    *)
(* uploaded and off its staging buffer, that nobody has put aside: what       *)
(* updateTextureFromPixelsSync and processEvents leave in the registry is     *)
(* never destroyed twice.                                                     *)
RegistryIsLive ==
  \A n \in Names :
    textures[n] # None =>
      /\ name[textures[n]] = n
      /\ textures[n] \notin staging \cup deferred
      /\ mainPc \in {"loop", "spin", "discard", "textures"} => image[textures[n]] = "allocated"

(* Once shutdown has discarded what was ready no loading job is left to push  *)
(* into the ring, or to touch the loader or the device, which are destroyed   *)
(* while the workers still run.                                               *)
JobsEndBeforeDiscard ==
  mainPc \notin {"loop", "spin", "discard"} =>
    Jobs({"queued", "staged", "pushed"}) = {} /\ assetsReady = <<>>

(* When the device goes, no staging buffer is left and no image, but those    *)
(* of textures that lost their name: one loaded again before, which nothing   *)
(* frees, and one put aside in a tick that drew no frame.                     *)
OnlyUnnamedImagesLeak ==
  mainPc \in {"loaders", "done"} =>
    /\ staging = {}
    /\ \A t \in Textures : image[t] = "allocated" => textures[name[t]] # t /\ textures[name[t]] # None

(* However many textures the game asks for, until the exit signal again and   *)
(* again a moment comes when every load a worker took has been installed and  *)
(* none is on its way, unless the program stops on an error.                  *)
NothingTaken == Jobs({"staged", "pushed"}) = {} /\ assetsReady = <<>> /\ staging = {}

LoadsSettle == []<>(NothingTaken \/ exitSignal \/ Panicked)

(* After the exit signal the engine shuts down to the end, or the program     *)
(* stops on an error, or shutdown waits for ever for the count of a job that  *)
(* no worker takes: one the job queue refused or keeps.  Nothing else stops   *)
(* it: not the GPU, the ring, or a job that a worker took.                    *)
Untaken == Jobs({"queued", "refused"}) # {}

ShutdownEnds == []<>~Untaken => (exitSignal ~> mainPc = "done" \/ Panicked)
=============================================================================
