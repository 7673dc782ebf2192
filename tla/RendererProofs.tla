--------------------------- MODULE RendererProofs ---------------------------
(***************************************************************************)
(* Theorems about Renderer, for any number of swapchain images, workers,   *)
(* textures, names, and room in the queues.  First what keeps semaphores,  *)
(* fences and command buffers apart; then the textures and the jobs that   *)
(* load them.                                                              *)
(***************************************************************************)
EXTENDS Renderer, FiniteSetTheorems, TLAPS

Submissions ==
  [image : Images, semaphore : Semaphores, reads : SUBSET Textures, dangling : SUBSET Textures]

PaceTypes ==
  /\ extraSemaphore \in Semaphores /\ acquireSemaphores \in [Images -> Semaphores]
  /\ pending \subseteq Semaphores /\ fences \subseteq Images
  /\ nextFrameIndex \in Images
  /\ gpu \in Seq(Submissions)
  /\ window \in Sizes /\ extent \in Sizes /\ isMinimized \in BOOLEAN

LoaderTypes ==
  /\ created \in 0 .. MaxTextures
  /\ name \in [Textures -> Names \cup {NoName}]
  /\ job \in [Textures -> {"none", "queued", "staged", "pushed", "done", "refused", "jammed"}]
  /\ image \in [Textures -> {"none", "allocated", "destroyed"}]
  /\ staging \subseteq Textures /\ deferred \subseteq Textures
  /\ assetsReady \in Seq(Textures)
  /\ mutex \in {"free", "systems", "worker"}
  /\ outstanding \in Int
  /\ discarding \in BOOLEAN
  /\ textures \in [Names -> Textures \cup {None}]

ControlTypes ==
  /\ pc \in {"events", "drain", "tick", "draw", "acquired", "recorded", "recreate", "restore",
             "finished", "drawn", "exited", "panicked"}
  /\ mainPc \in {"loop", "spin", "discard", "textures", "device", "loaders", "done"}
  /\ exitSignal \in BOOLEAN
  /\ bound \in [Objects -> Textures \cup {None}]

Types == PaceTypes /\ LoaderTypes /\ ControlTypes

-----------------------------------------------------------------------------
(* The synchronization of frames.                                          *)
(*                                                                         *)
(* The spare semaphore and those of the images are all different; no two   *)
(* frames in flight have the same image, whose fence is not signalled; a   *)
(* frame in flight waits for its image's semaphore, or for the spare one   *)
(* once its image has been acquired again; a semaphore is pending only for *)
(* a frame in flight or the one being recorded; and a fence is reset only  *)
(* for such a frame.                                                       *)

SemaphoresDiffer ==
  /\ \A i \in Images : acquireSemaphores[i] # extraSemaphore
  /\ \A i, j \in Images : i # j => acquireSemaphores[i] # acquireSemaphores[j]

FramesDiffer ==
  /\ \A k, l \in DOMAIN gpu : k # l => gpu[k].image # gpu[l].image
  /\ \A k \in DOMAIN gpu : gpu[k].image \notin fences

FramesWait ==
  \A k \in DOMAIN gpu :
    gpu[k].semaphore = IF pc = "acquired" /\ gpu[k].image = nextFrameIndex
                       THEN extraSemaphore
                       ELSE acquireSemaphores[gpu[k].image]

PendingIsWaitedFor ==
  \A s \in pending :
    \/ \E k \in DOMAIN gpu : gpu[k].semaphore = s
    \/ pc \in {"acquired", "recorded"} /\ s = acquireSemaphores[nextFrameIndex]

FencesAreOwed ==
  \A i \in Images \ fences : InFlight(i) \/ (pc = "recorded" /\ i = nextFrameIndex)

RecordedIsFree == pc = "recorded" => nextFrameIndex \notin fences /\ ~InFlight(nextFrameIndex)

SyncInv ==
  SemaphoresDiffer /\ FramesDiffer /\ FramesWait /\ PendingIsWaitedFor /\ FencesAreOwed /\ RecordedIsFree

(* Steps that neither touch what is synchronized nor begin or end a frame. *)
Quiet ==
  /\ UNCHANGED syncs
  /\ pc' = pc \/ (pc \notin {"acquired", "recorded"} /\ pc' \notin {"acquired", "recorded"})

-----------------------------------------------------------------------------
(* The textures and their jobs.                                            *)

Counted == {"queued", "staged", "pushed", "refused", "jammed"}

InRing(t) == \E k \in DOMAIN assetsReady : assetsReady[k] = t

(* What has not been asked for is untouched; what has, has a name. *)
Fresh ==
  \A t \in Textures :
    /\ t > created => job[t] = "none" /\ image[t] = "none"
    /\ t <= created => name[t] \in Names

(* A staging buffer belongs to a job that is to push it or to the ring. *)
Staged ==
  /\ \A t \in staging : image[t] = "allocated" /\ (job[t] \in {"staged", "jammed"} \/ InRing(t))
  /\ \A t \in Textures : job[t] = "staged" => t \in staging
  /\ \A t \in Textures : job[t] \in {"queued", "refused"} => image[t] = "none"

RingIsStaged ==
  /\ \A k \in DOMAIN assetsReady : assetsReady[k] \in staging /\ job[assetsReady[k]] \in {"pushed", "done"}
  /\ \A k, l \in DOMAIN assetsReady : k # l => assetsReady[k] # assetsReady[l]

(* A registered texture has its name and is neither staged nor put aside. *)
Named ==
  \A n \in Names :
    textures[n] # None =>
      name[textures[n]] = n /\ textures[n] \notin staging \cup deferred /\ image[textures[n]] # "none"

PutAside == \A t \in deferred : t \notin staging /\ image[t] # "none"

(* An image that is uploaded has, or had, its name in the registry. *)
Reachable == \A t \in Textures : image[t] = "allocated" /\ t \notin staging => textures[name[t]] # None

DataInv == Fresh /\ Staged /\ RingIsStaged /\ Named /\ PutAside /\ Reachable

CountInv == outstanding = Cardinality(Jobs(Counted))

(* What shutdown has reached. *)
PhaseInv ==
  /\ mainPc # "loop" => pc = "exited"
  /\ mainPc \notin {"loop", "spin"} => Jobs(Counted) = {}
  /\ mainPc \notin {"loop", "spin", "discard"} => assetsReady = <<>>

LiveInv ==
  /\ mainPc \in {"loop", "spin", "discard", "textures"} =>
       \A n \in Names : textures[n] # None => image[textures[n]] = "allocated"
  /\ mainPc \in {"device", "loaders", "done"} =>
       \A n \in Names : textures[n] # None => image[textures[n]] = "destroyed"

FramesInv ==
  \A k \in DOMAIN gpu : \A t \in gpu[k].reads \ gpu[k].dangling :
    /\ t \notin deferred
    /\ mainPc \in {"loop", "spin", "discard"} => image[t] = "allocated"

(* The set an object keeps is, or was, that of a texture. *)
KeptInv == \A o \in Objects : bound[o] # None => image[bound[o]] # "none"

-----------------------------------------------------------------------------
(* Types *)

(* Init gives every variable its type. *)
LEMMA InitTypes == Init => Types
<1> SUFFICES ASSUME Init PROVE Types
  OBVIOUS
<1>1. PaceTypes
  <2>1. extraSemaphore \in Semaphores /\ acquireSemaphores \in [Images -> Semaphores]
    BY NumFramesAssumption DEF Init, PaceInit, Images, Semaphores
  <2>2. nextFrameIndex \in Images /\ window \in Sizes /\ extent \in Sizes
    BY NumFramesAssumption, MaxSizeAssumption DEF Init, PaceInit, Images, Sizes
  <2>3. gpu \in Seq(Submissions)
    BY DEF Init, PaceInit
  <2> QED BY <2>1, <2>2, <2>3 DEF Init, PaceInit, PaceTypes
<1>2. LoaderTypes
  <2>1. assetsReady \in Seq(Textures)
    BY DEF Init, LoaderInit
  <2>2. created \in 0 .. MaxTextures
    BY TexturesAssumption DEF Init, LoaderInit
  <2>3. textures \in [Names -> Textures \cup {None}] /\ name \in [Textures -> Names \cup {NoName}]
    BY DEF Init, LoaderInit
  <2>4. job \in [Textures -> {"none", "queued", "staged", "pushed", "done", "refused", "jammed"}]
    BY DEF Init, LoaderInit
  <2>5. image \in [Textures -> {"none", "allocated", "destroyed"}]
    BY DEF Init, LoaderInit
  <2>6. outstanding \in Int /\ mutex \in {"free", "systems", "worker"}
    BY DEF Init, LoaderInit
  <2>8. discarding \in BOOLEAN
    BY Zenon DEF Init, LoaderInit
  <2>7. staging \subseteq Textures /\ deferred \subseteq Textures
    BY DEF Init, LoaderInit
  <2> QED BY <2>1, <2>2, <2>3, <2>4, <2>5, <2>6, <2>7, <2>8 DEF LoaderTypes
<1> QED BY <1>1, <1>2 DEF Init, Types, ControlTypes

(* The handlers of FramePacing keep the types of what they change. *)
LEMMA AcquireTypes ==
  ASSUME PaceTypes, NEW i \in Images, GetNextSwapImage(i)
  PROVE  PaceTypes'
<1>1. extraSemaphore' \in Semaphores /\ acquireSemaphores' \in [Images -> Semaphores]
  BY DEF PaceTypes, GetNextSwapImage
<1>2. pending' \subseteq Semaphores
  BY DEF PaceTypes, GetNextSwapImage
<1> QED BY <1>1, <1>2 DEF PaceTypes, GetNextSwapImage, surface, Submissions, Images, Semaphores, Sizes

(* A frame handed to the GPU is a submission like the others.                 *)
LEMMA FinishTypes ==
  ASSUME PaceTypes, NEW reads \in SUBSET Textures, NEW dangling \in SUBSET Textures,
         NEW outOfDate \in BOOLEAN, FinishFrame(reads, dangling, outOfDate)
  PROVE  PaceTypes'
<1>1. Submission(reads, dangling) \in Submissions
  BY DEF PaceTypes, Submission, Submissions
<1>2. gpu' \in Seq(Submissions)
  BY <1>1 DEF PaceTypes, FinishFrame
<1>3. extent' \in Sizes /\ isMinimized' \in BOOLEAN
  BY Zenon DEF PaceTypes, FinishFrame
<1> QED BY <1>2, <1>3 DEF PaceTypes, FinishFrame, Submissions, Images, Semaphores, Sizes

(* The oldest frame in flight is a submission.                                *)
LEMMA GpuTypes ==
  ASSUME PaceTypes, GpuFinish
  PROVE  PaceTypes' /\ gpu # <<>> /\ Head(gpu) \in Submissions
<1>1. gpu # <<>> /\ gpu \in Seq(Submissions)
  BY DEF PaceTypes, GpuFinish, GpuIdle
<1>2. Head(gpu) \in Submissions /\ Tail(gpu) \in Seq(Submissions)
  BY <1>1
<1>3. fences' \subseteq Images
  BY <1>2 DEF PaceTypes, GpuFinish, Submissions
<1> QED
  BY <1>1, <1>2, <1>3
  DEF PaceTypes, GpuFinish, surface, Submissions, Images, Semaphores, Sizes

(* What a frame reads are textures, and so is what of it dangles.             *)
LEMMA DrawnType == Types => Drawn \in SUBSET Textures /\ Dangling \in SUBSET Textures
BY DEF Types, LoaderTypes, ControlTypes, Registered, Drawn, Dangling

(* Every step keeps the types of FramePacing's variables. *)
LEMMA PaceTypesKept == Types /\ [Next]_vars => PaceTypes'
<1> SUFFICES ASSUME Types, [Next]_vars PROVE PaceTypes'
  OBVIOUS
<1>0. PaceTypes
  BY DEF Types
<1>u. ASSUME UNCHANGED paceVars PROVE PaceTypes'
  BY <1>0, <1>u DEF PaceTypes, paceVars, syncs, surface, Submissions, Images, Semaphores, Sizes
<1>w. ASSUME WaitForFence PROVE PaceTypes'
  BY <1>0, <1>w DEF PaceTypes, WaitForFence, surface, Submissions, Images, Semaphores, Sizes
<1>m. ASSUME DrawMinimized PROVE PaceTypes'
  BY <1>0, <1>m DEF PaceTypes, DrawMinimized, syncs, Submissions, Images, Semaphores, Sizes
<1>r. ASSUME NEW size \in Sizes, WindowResized(size) PROVE PaceTypes'
  BY <1>0, <1>r DEF PaceTypes, WindowResized, syncs, surface, Submissions, Images, Semaphores, Sizes
<1>1. CASE ProcessEvents \/ NothingReady \/ Upload \/ Drained \/ Ticked \/ DestroyUnused \/ NextTick
  BY <1>1, <1>u DEF ProcessEvents, NothingReady, Upload, Drained, Ticked, DestroyUnused, NextTick
<1>2. CASE Acquire
  BY <1>2, <1>0, AcquireTypes DEF Acquire
<1>3. CASE AcquireFails \/ Recreate \/ Restore
  BY <1>3, <1>u DEF AcquireFails, AcquireOutOfDate, Recreate, Restore, RecreateSwapchain
<1>4. CASE Record
  BY <1>4, <1>w DEF Record
<1>5. CASE Finish
  BY <1>5, <1>0, FinishTypes, DrawnType DEF Finish
<1>6. CASE SkipDraw
  BY <1>6, <1>m DEF SkipDraw
<1>7. CASE Game \/ Takes \/ Works
  BY <1>7, <1>u
  DEF Game, GameLoads, GameUpdates, GameNamesUnloaded, GameBinds, Takes, Works, Stages, Pushes, Finishes
<1>8. CASE MainThread
  BY <1>8, <1>u
  DEF MainThread, ExitConfirmed, Spin, Discard, DestroyRegistered, DestroyDevice, DestroyLoaders
<1>9. CASE Gpu
  BY <1>9, <1>0, GpuTypes DEF Gpu
<1>10. CASE User
  BY <1>10, <1>u, <1>r DEF User
<1>11. CASE UNCHANGED vars
  BY <1>11, <1>u DEF vars
<1> QED
  BY <1>1, <1>2, <1>3, <1>4, <1>5, <1>6, <1>7, <1>8, <1>9, <1>10, <1>11 DEF Next, SystemsThread
(* The handlers of TextureLoader keep the types of its variables. *)
LEMMA LoadTypes ==
  ASSUME LoaderTypes, NEW n \in Names, LoadTexture(n)
  PROVE  LoaderTypes'
<1>1. created' \in 0 .. MaxTextures /\ outstanding' \in Int
  BY TexturesAssumption DEF LoaderTypes, LoadTexture
<1>2. name' \in [Textures -> Names \cup {NoName}]
  BY DEF LoaderTypes, LoadTexture
<1>3. job' \in [Textures -> {"none", "queued", "staged", "pushed", "done", "refused", "jammed"}]
  BY DEF LoaderTypes, LoadTexture
<1> QED BY <1>1, <1>2, <1>3 DEF LoaderTypes, LoadTexture, ring, memory, Textures

(* A job moves between stages of its life.                                    *)
LEMMA JobTypes ==
  ASSUME LoaderTypes, NEW t \in Textures, NEW from, NEW to,
         to \in {"staged", "pushed", "done", "jammed"}, JobReaches(t, from, to)
  PROVE  job' \in [Textures -> {"none", "queued", "staged", "pushed", "done", "refused", "jammed"}]
BY DEF LoaderTypes, JobReaches

(* The job that stages an image keeps the types.                              *)
LEMMA StageTypes ==
  ASSUME LoaderTypes, NEW t \in Textures, StageImage(t)
  PROVE  LoaderTypes'
<1>1. job' \in [Textures -> {"none", "queued", "staged", "pushed", "done", "refused", "jammed"}]
  BY JobTypes DEF StageImage
<1>2. image' \in [Textures -> {"none", "allocated", "destroyed"}] /\ staging' \subseteq Textures
  BY DEF LoaderTypes, StageImage
<1> QED BY <1>1, <1>2 DEF LoaderTypes, StageImage, ring, Textures

(* So does the job that pushes, whether the ring has room or not.             *)
LEMMA PushTypes ==
  ASSUME LoaderTypes, NEW t \in Textures, PushStaged(t)
  PROVE  LoaderTypes'
<1>1. job' \in [Textures -> {"none", "queued", "staged", "pushed", "done", "refused", "jammed"}]
  BY JobTypes DEF PushStaged
<1>2. assetsReady' \in Seq(Textures)
  BY DEF LoaderTypes, PushStaged
<1>3. mutex' \in {"free", "systems", "worker"}
  BY DEF LoaderTypes, PushStaged
<1> QED BY <1>1, <1>2, <1>3 DEF LoaderTypes, PushStaged, memory, Textures

(* The count of jobs may be lowered: it stays an integer.                     *)
LEMMA FinishJobTypes ==
  ASSUME LoaderTypes, NEW t \in Textures, FinishJob(t)
  PROVE  LoaderTypes'
<1>1. job' \in [Textures -> {"none", "queued", "staged", "pushed", "done", "refused", "jammed"}]
  BY JobTypes DEF FinishJob
<1>2. outstanding' \in Int
  BY DEF LoaderTypes, FinishJob
<1> QED BY <1>1, <1>2 DEF LoaderTypes, FinishJob, ring, memory, Textures

(* What is taken out of the ring is a texture.                                *)
LEMMA InstallTypes ==
  ASSUME LoaderTypes, InstallReady
  PROVE  LoaderTypes' /\ assetsReady # <<>> /\ Head(assetsReady) \in Textures
<1>1. assetsReady # <<>> /\ assetsReady \in Seq(Textures)
  BY DEF LoaderTypes, InstallReady
<1>2. Head(assetsReady) \in Textures /\ Tail(assetsReady) \in Seq(Textures)
  BY <1>1
<1>3. textures' \in [Names -> Textures \cup {None}]
  BY <1>2 DEF LoaderTypes, InstallReady
<1>4. staging' \subseteq Textures
  BY DEF LoaderTypes, InstallReady
<1> QED BY <1>1, <1>2, <1>3, <1>4 DEF LoaderTypes, InstallReady, jobVars, Textures

(* The texture made from pixels is one that was not asked for yet.            *)
LEMMA UpdateTypes ==
  ASSUME LoaderTypes, NEW n \in Names, UpdateTexture(n)
  PROVE  LoaderTypes'
<1>1. created' \in 0 .. MaxTextures /\ created' \in Textures
  BY TexturesAssumption DEF LoaderTypes, UpdateTexture, Textures
<1>2. name' \in [Textures -> Names \cup {NoName}]
  BY <1>1 DEF LoaderTypes, UpdateTexture
<1>3. image' \in [Textures -> {"none", "allocated", "destroyed"}]
  BY <1>1 DEF LoaderTypes, UpdateTexture
<1>4. textures' \in [Names -> Textures \cup {None}] /\ deferred' \subseteq Textures
  BY <1>1 DEF LoaderTypes, UpdateTexture
<1> QED BY <1>1, <1>2, <1>3, <1>4 DEF LoaderTypes, UpdateTexture, ring, Textures

(* Destroying images, of whatever set, keeps their type.                      *)
LEMMA DestroyTypes ==
  ASSUME LoaderTypes, NEW ts, Destroy(ts)
  PROVE  image' \in [Textures -> {"none", "allocated", "destroyed"}]
BY DEF LoaderTypes, Destroy

(* Every step keeps the types of TextureLoader's variables. *)
LEMMA LoaderTypesKept == Types /\ [Next]_vars => LoaderTypes'
<1> SUFFICES ASSUME Types, [Next]_vars PROVE LoaderTypes'
  OBVIOUS
<1>0. LoaderTypes
  BY DEF Types
<1>u. ASSUME UNCHANGED loaderVars PROVE LoaderTypes'
  BY <1>0, <1>u DEF LoaderTypes, loaderVars, jobVars, ring, memory, Textures
<1>l. ASSUME LockReady \/ UnlockReady PROVE LoaderTypes'
  BY <1>0, <1>l DEF LoaderTypes, LockReady, UnlockReady, jobVars, memory, Textures
<1>d. ASSUME DestroyDeferred PROVE LoaderTypes'
  <2>1. image' \in [Textures -> {"none", "allocated", "destroyed"}]
    BY <1>0, <1>d, DestroyTypes DEF DestroyDeferred
  <2> QED BY <1>0, <1>d, <2>1 DEF LoaderTypes, DestroyDeferred, jobVars, ring, Textures
<1>a. ASSUME DiscardAll PROVE LoaderTypes'
  <2>1. image' \in [Textures -> {"none", "allocated", "destroyed"}]
    BY <1>0, <1>a, DestroyTypes DEF DiscardAll
  <2>2. assetsReady' \in Seq(Textures) /\ staging' \subseteq Textures
    BY <1>0, <1>a DEF LoaderTypes, DiscardAll
  <2> QED BY <1>0, <1>a, <2>1, <2>2 DEF LoaderTypes, DiscardAll, jobVars, Textures
<1>t. ASSUME DestroyTextures PROVE LoaderTypes'
  <2>1. image' \in [Textures -> {"none", "allocated", "destroyed"}]
    BY <1>0, <1>t, DestroyTypes DEF DestroyTextures
  <2> QED BY <1>0, <1>t, <2>1 DEF LoaderTypes, DestroyTextures, jobVars, ring, Textures
<1>1. CASE ProcessEvents \/ Drained
  BY <1>1, <1>l DEF ProcessEvents, Drained
<1>2. CASE NothingReady \/ Ticked \/ Acquire \/ AcquireFails \/ Record
  BY <1>2, <1>u DEF NothingReady, Ticked, Acquire, AcquireFails, Record
<1>3. CASE Finish \/ Recreate \/ SkipDraw \/ Restore \/ NextTick
  BY <1>3, <1>u DEF Finish, Recreate, SkipDraw, Restore, NextTick
<1>4. CASE Upload
  BY <1>4, <1>0, InstallTypes DEF Upload
<1>5. CASE DestroyUnused
  BY <1>5, <1>d DEF DestroyUnused
<1>6. CASE Game
  BY <1>6, <1>0, <1>u, LoadTypes, UpdateTypes
  DEF Game, GameLoads, GameUpdates, GameNamesUnloaded, GameBinds, NotLoaded
<1>7. CASE Takes \/ Works
  BY <1>7, <1>0, StageTypes, PushTypes, FinishJobTypes DEF Takes, Works, Stages, Pushes, Finishes
<1>8. CASE MainThread
  BY <1>8, <1>u, <1>a, <1>t
  DEF MainThread, ExitConfirmed, Spin, Discard, DestroyRegistered, DestroyDevice, DestroyLoaders
<1>9. CASE Gpu \/ User
  BY <1>9, <1>u DEF Gpu, User
<1>10. CASE UNCHANGED vars
  BY <1>10, <1>u DEF vars
<1> QED
  BY <1>1, <1>2, <1>3, <1>4, <1>5, <1>6, <1>7, <1>8, <1>9, <1>10 DEF Next, SystemsThread

(* Every step keeps the types of where the threads are. *)
LEMMA ControlTypesKept == Types /\ [Next]_vars => ControlTypes'
<1> SUFFICES ASSUME Types, ControlTypes, [Next]_vars PROVE ControlTypes'
  BY DEF Types
<1>1. CASE SystemsThread
  BY <1>1
  DEF SystemsThread, ProcessEvents, NothingReady, Upload, Drained, Ticked, Acquire, AcquireFails,
      Record, Finish, Recreate, DestroyUnused, SkipDraw, Restore, NextTick, Go, StepTo, ControlTypes
<1>2. CASE Game
  <2>1. ASSUME NEW n \in Names, NEW o \in Objects, GameBinds(o, n) PROVE ControlTypes'
    BY <2>1 DEF GameBinds, StepTo, ControlTypes, Types, LoaderTypes
  <2> QED BY <1>2, <2>1 DEF Game, GameLoads, GameUpdates, GameNamesUnloaded, Go, StepTo, ControlTypes
<1>3. CASE MainThread
  BY <1>3
  DEF MainThread, ExitConfirmed, Spin, Discard, DestroyRegistered, DestroyDevice, DestroyLoaders,
      MainGo, ControlTypes
<1>4. CASE Takes \/ Works \/ Gpu
  BY <1>4 DEF Takes, Works, Stages, Pushes, Finishes, Gpu, Elsewhere, ControlTypes
<1>5. CASE User
  BY <1>5 DEF User, ControlTypes
<1>6. CASE UNCHANGED vars
  BY <1>6 DEF vars, ControlTypes
<1> QED BY <1>1, <1>2, <1>3, <1>4, <1>5, <1>6 DEF Next

(* Every step keeps every type.                                               *)
LEMMA TypesKept == Types /\ [Next]_vars => Types'
BY PaceTypesKept, LoaderTypesKept, ControlTypesKept DEF Types
-----------------------------------------------------------------------------
(* The synchronization of frames *)

(* No semaphore is pending and no frame in flight at the start. *)
LEMMA InitSync == Init => SyncInv
<1> SUFFICES ASSUME Init PROVE SyncInv
  OBVIOUS
<1>1. SemaphoresDiffer
  BY NumFramesAssumption DEF Init, PaceInit, SemaphoresDiffer, Images
<1>2. gpu = <<>> /\ DOMAIN gpu = {} /\ pending = {} /\ fences = Images /\ pc = "events"
  BY DEF Init, PaceInit
<1> QED
  BY <1>1, <1>2
  DEF SyncInv, FramesDiffer, FramesWait, PendingIsWaitedFor, FencesAreOwed, RecordedIsFree

(* SyncInv says nothing of anything a quiet step changes. *)
LEMMA QuietKeepsSync ==
  ASSUME SyncInv, Quiet
  PROVE  SyncInv'
BY DEF SyncInv, Quiet, syncs, SemaphoresDiffer, FramesDiffer, FramesWait, PendingIsWaitedFor,
       FencesAreOwed, RecordedIsFree, InFlight

(* A frame in flight draws an image and reads textures.                       *)
LEMMA SubmissionsType ==
  ASSUME PaceTypes, NEW k \in DOMAIN gpu
  PROVE  gpu[k].image \in Images /\ gpu[k].reads \subseteq Textures
<1>1. gpu[k] \in Submissions
  BY DEF PaceTypes
<1> QED BY <1>1 DEF Submissions

(* getNextSwapImage: the spare semaphore becomes the image's, and the image's, *)
(* which a frame in flight may wait for, becomes the spare one.                *)
LEMMA AcquireKeepsSync ==
  ASSUME PaceTypes, SyncInv, NEW i \in Images, GetNextSwapImage(i), pc = "draw", pc' = "acquired"
  PROVE  SyncInv'
<1>1. acquireSemaphores \in [Images -> Semaphores] /\ gpu \in Seq(Submissions)
  BY DEF PaceTypes
<1>2. \A k \in DOMAIN gpu : gpu[k].image \in Images
  BY SubmissionsType
<1>3. SemaphoresDiffer'
  BY <1>1 DEF SyncInv, SemaphoresDiffer, GetNextSwapImage
<1>4. FramesDiffer'
  BY DEF SyncInv, FramesDiffer, GetNextSwapImage
<1>5. FramesWait'
  BY <1>1, <1>2 DEF SyncInv, FramesWait, GetNextSwapImage
<1>6. PendingIsWaitedFor'
  BY <1>1 DEF SyncInv, PendingIsWaitedFor, GetNextSwapImage
<1>7. FencesAreOwed' /\ RecordedIsFree'
  BY DEF SyncInv, FencesAreOwed, RecordedIsFree, GetNextSwapImage, InFlight
<1> QED BY <1>3, <1>4, <1>5, <1>6, <1>7 DEF SyncInv

(* acquire_next_frame's wait: the fence was signalled, so no frame with this  *)
(* image is in flight, and none waits for the spare semaphore any more.       *)
LEMMA RecordKeepsSync ==
  ASSUME PaceTypes, SyncInv, WaitForFence, pc = "acquired", pc' = "recorded"
  PROVE  SyncInv'
<1>1. nextFrameIndex \in Images /\ nextFrameIndex \in fences
  BY DEF PaceTypes, WaitForFence
<1>2. \A k \in DOMAIN gpu : gpu[k].image # nextFrameIndex
  BY <1>1 DEF SyncInv, FramesDiffer
<1>3. SemaphoresDiffer' /\ FramesDiffer'
  BY DEF SyncInv, SemaphoresDiffer, FramesDiffer, WaitForFence
<1>4. FramesWait'
  BY <1>2 DEF SyncInv, FramesWait, WaitForFence
<1>5. PendingIsWaitedFor'
  BY DEF SyncInv, PendingIsWaitedFor, WaitForFence
<1>6. FencesAreOwed' /\ RecordedIsFree'
  BY <1>2 DEF SyncInv, FencesAreOwed, RecordedIsFree, WaitForFence, InFlight
<1> QED BY <1>3, <1>4, <1>5, <1>6 DEF SyncInv

(* finish_frame: the frame that was recorded is in flight. *)
LEMMA FinishKeepsSync ==
  ASSUME PaceTypes, SyncInv, NEW reads \in SUBSET Textures, NEW dangling \in SUBSET Textures,
         NEW outOfDate \in BOOLEAN, FinishFrame(reads, dangling, outOfDate), pc = "recorded", pc' \notin {"acquired", "recorded"}
  PROVE  SyncInv'
<1> DEFINE last == Len(gpu) + 1
<1>1. gpu \in Seq(Submissions) /\ nextFrameIndex \in Images
  BY DEF PaceTypes
<1>2. /\ Submission(reads, dangling).image = nextFrameIndex
      /\ Submission(reads, dangling).semaphore = acquireSemaphores[nextFrameIndex]
  BY DEF Submission
<1>3. /\ DOMAIN gpu = 1 .. Len(gpu) /\ DOMAIN gpu' = 1 .. last
      /\ gpu'[last] = Submission(reads, dangling)
      /\ \A k \in DOMAIN gpu : gpu'[k] = gpu[k]
  <2>1. Submission(reads, dangling) \in Submissions
    BY DEF PaceTypes, Submission, Submissions
  <2> QED BY <1>1, <2>1 DEF FinishFrame
<1>4. DOMAIN gpu' = DOMAIN gpu \cup {last} /\ last \notin DOMAIN gpu
  BY <1>1, <1>3
<1>5. \A k \in DOMAIN gpu : gpu[k].image # nextFrameIndex
  BY DEF SyncInv, RecordedIsFree, InFlight
<1>6. nextFrameIndex \notin fences
  BY DEF SyncInv, RecordedIsFree
<1>7. UNCHANGED <<extraSemaphore, acquireSemaphores, pending, fences, nextFrameIndex>>
  BY DEF FinishFrame
<1> HIDE DEF last
<1>8. SemaphoresDiffer'
  BY <1>7 DEF SyncInv, SemaphoresDiffer
<1>9. FramesDiffer'
  BY <1>2, <1>3, <1>4, <1>5, <1>6, <1>7 DEF SyncInv, FramesDiffer
<1>10. FramesWait'
  <2>1. \A k \in DOMAIN gpu : gpu[k].semaphore = acquireSemaphores[gpu[k].image]
    BY DEF SyncInv, FramesWait
  <2>2. \A k \in DOMAIN gpu' : gpu'[k].semaphore = acquireSemaphores[gpu'[k].image]
    <3>1. gpu'[last].semaphore = acquireSemaphores[gpu'[last].image]
      BY <1>2, <1>3
    <3>2. \A k \in DOMAIN gpu : gpu'[k].semaphore = acquireSemaphores[gpu'[k].image]
      BY <2>1, <1>3
    <3> QED BY <3>1, <3>2, <1>4
  <2> QED BY <2>2, <1>7 DEF FramesWait
<1>11. PendingIsWaitedFor'
  <2>1. ASSUME NEW s \in pending PROVE \E k \in DOMAIN gpu' : gpu'[k].semaphore = s
    <3>1. CASE \E k \in DOMAIN gpu : gpu[k].semaphore = s
      BY <3>1, <1>3, <1>4
    <3>2. CASE s = acquireSemaphores[nextFrameIndex]
      BY <3>2, <1>2, <1>3, <1>4
    <3> QED BY <3>1, <3>2 DEF SyncInv, PendingIsWaitedFor
  <2> QED BY <2>1, <1>7 DEF PendingIsWaitedFor
<1>12. RecordedIsFree'
  BY DEF RecordedIsFree
<1>13. ASSUME NEW i \in Images \ fences
       PROVE  \E k \in DOMAIN gpu' : gpu'[k].image = i
  <2>1. CASE InFlight(i)
    BY <2>1, <1>3, <1>4 DEF InFlight
  <2>2. CASE i = nextFrameIndex
    BY <2>2, <1>2, <1>3, <1>4
  <2> QED BY <2>1, <2>2 DEF SyncInv, FencesAreOwed
<1>14. FencesAreOwed'
  BY <1>7, <1>13 DEF FencesAreOwed, InFlight
<1> QED BY <1>8, <1>9, <1>10, <1>11, <1>12, <1>14 DEF SyncInv

(* The GPU is done with the oldest frame: its fence is signalled, and nobody  *)
(* else waits for its semaphore.                                              *)
LEMMA GpuKeepsSync ==
  ASSUME PaceTypes, SyncInv, GpuFinish, pc' = pc
  PROVE  SyncInv'
<1>1. gpu \in Seq(Submissions) /\ gpu # <<>> /\ Head(gpu) = gpu[1] /\ 1 \in DOMAIN gpu
  BY GpuTypes DEF PaceTypes
<1>2. /\ \A k \in DOMAIN gpu' : k + 1 \in DOMAIN gpu /\ k + 1 # 1 /\ gpu'[k] = gpu[k + 1]
      /\ \A k \in DOMAIN gpu : k = 1 \/ (k - 1 \in DOMAIN gpu' /\ gpu'[k - 1] = gpu[k])
      /\ \A k, l \in DOMAIN gpu' : k # l => k + 1 # l + 1
  BY <1>1 DEF GpuFinish
<1>3. UNCHANGED <<extraSemaphore, acquireSemaphores, nextFrameIndex>>
  BY DEF GpuFinish
<1>4. fences' = fences \cup {gpu[1].image} /\ pending' = pending \ {gpu[1].semaphore}
  BY <1>1 DEF GpuFinish
<1>5. SemaphoresDiffer'
  BY <1>3 DEF SyncInv, SemaphoresDiffer
<1>6. FramesDiffer'
  BY <1>1, <1>2, <1>4 DEF SyncInv, FramesDiffer
<1>7. FramesWait'
  BY <1>2, <1>3 DEF SyncInv, FramesWait
<1>8. PendingIsWaitedFor'
  BY <1>1, <1>2, <1>3, <1>4 DEF SyncInv, PendingIsWaitedFor
<1>9. FencesAreOwed'
  BY <1>1, <1>2, <1>3, <1>4 DEF SyncInv, FencesAreOwed, InFlight
<1>10. RecordedIsFree'
  BY <1>1, <1>2, <1>3, <1>4 DEF SyncInv, RecordedIsFree, InFlight
<1> QED BY <1>5, <1>6, <1>7, <1>8, <1>9, <1>10 DEF SyncInv

(* Each step is quiet or one of the four. *)
LEMMA SyncKept == Types /\ SyncInv /\ [Next]_vars => SyncInv'
<1> SUFFICES ASSUME Types, SyncInv, [Next]_vars PROVE SyncInv'
  OBVIOUS
<1>0. PaceTypes
  BY DEF Types
<1>1. CASE ProcessEvents \/ NothingReady \/ Upload \/ Drained \/ Ticked \/ DestroyUnused \/ NextTick
  <2>1. Quiet
    BY <1>1
    DEF ProcessEvents, NothingReady, Upload, Drained, Ticked, DestroyUnused, NextTick, Go, StepTo, Quiet, paceVars
  <2> QED BY <2>1, QuietKeepsSync
<1>2. CASE Acquire
  BY <1>2, <1>0, AcquireKeepsSync DEF Acquire, Go, StepTo
<1>3. CASE AcquireFails \/ Recreate \/ Restore
  <2>1. Quiet
    BY <1>3 DEF AcquireFails, AcquireOutOfDate, Recreate, Restore, RecreateSwapchain, Go, StepTo, Quiet, paceVars
  <2> QED BY <2>1, QuietKeepsSync
<1>4. CASE Record
  BY <1>4, <1>0, RecordKeepsSync DEF Record, Go, StepTo
<1>5. CASE Finish
  BY <1>5, <1>0, FinishKeepsSync, DrawnType DEF Finish, Go, StepTo
<1>6. CASE SkipDraw
  <2>1. Quiet
    BY <1>6 DEF SkipDraw, DrawMinimized, Go, StepTo, Quiet
  <2> QED BY <2>1, QuietKeepsSync
<1>7. CASE Game \/ Takes \/ Works
  <2>1. Quiet
    BY <1>7
    DEF Game, GameLoads, GameUpdates, GameNamesUnloaded, GameBinds, Takes, Works, Stages, Pushes,
        Finishes, Go, StepTo, Elsewhere, Quiet, paceVars
  <2> QED BY <2>1, QuietKeepsSync
<1>8. CASE MainThread
  <2>1. Quiet
    BY <1>8
    DEF MainThread, ExitConfirmed, Spin, Discard, DestroyRegistered, DestroyDevice, DestroyLoaders,
        MainGo, Quiet, paceVars
  <2> QED BY <2>1, QuietKeepsSync
<1>9. CASE Gpu
  BY <1>9, <1>0, GpuKeepsSync DEF Gpu, Elsewhere
<1>10. CASE User
  <2>1. Quiet
    BY <1>10 DEF User, WindowResized, Quiet, paceVars
  <2> QED BY <2>1, QuietKeepsSync
<1>11. CASE UNCHANGED vars
  <2>1. Quiet
    BY <1>11 DEF vars, paceVars, Quiet
  <2> QED BY <2>1, QuietKeepsSync
<1> QED
  BY <1>1, <1>2, <1>3, <1>4, <1>5, <1>6, <1>7, <1>8, <1>9, <1>10, <1>11 DEF Next, SystemsThread

(* The synchronization invariant gives the two properties of the runs. *)
LEMMA SyncSuffices == PaceTypes /\ SyncInv => SpareSemaphoreIsIdle /\ FrameSlotIsFree
<1> SUFFICES ASSUME PaceTypes, SyncInv PROVE SpareSemaphoreIsIdle /\ FrameSlotIsFree
  OBVIOUS
<1>1. \A k \in DOMAIN gpu : gpu[k].image \in Images
  BY SubmissionsType
<1>2. SpareSemaphoreIsIdle
  BY <1>1 DEF SyncInv, SemaphoresDiffer, FramesWait, PendingIsWaitedFor, SpareSemaphoreIsIdle
<1>3. FrameSlotIsFree
  BY DEF SyncInv, PaceTypes, FencesAreOwed, RecordedIsFree, FrameSlotIsFree
<1> QED BY <1>2, <1>3
-----------------------------------------------------------------------------
(* The textures *)

(* A handler that touches neither jobs, images, the ring nor the registry *)
(* keeps what is said of them.                                            *)
LoaderQuiet == UNCHANGED <<jobVars, assetsReady, memory, textures, deferred>>

(* Such a step keeps them.                                                    *)
LEMMA QuietKeepsData ==
  ASSUME DataInv, CountInv, LoaderQuiet
  PROVE  DataInv' /\ CountInv'
<1>1. DataInv'
  BY DEF DataInv, LoaderQuiet, jobVars, memory, Fresh, Staged, RingIsStaged, InRing, Named, PutAside, Reachable
<1>2. CountInv'
  BY DEF CountInv, LoaderQuiet, jobVars, Jobs
<1> QED BY <1>1, <1>2

(* loadAsset: a new texture with a name, nothing staged. *)
LEMMA LoadKeepsData ==
  ASSUME LoaderTypes, DataInv, NEW n \in Names, LoadTexture(n)
  PROVE  DataInv'
<1> DEFINE new == created + 1
<1>1. new \in Textures /\ created \in Int /\ new > created /\ created' = new
  BY TexturesAssumption DEF LoaderTypes, LoadTexture, Textures
<1>2. /\ \A t \in Textures : name'[t] = IF t = new THEN n ELSE name[t]
      /\ \A t \in Textures : t # new => job'[t] = job[t]
      /\ job'[new] \in {"queued", "refused"}
  BY <1>1 DEF LoaderTypes, LoadTexture
<1>3. UNCHANGED <<assetsReady, image, staging, textures, deferred>>
  BY DEF LoadTexture, ring, memory
<1>4. image[new] = "none" /\ job[new] = "none"
  BY <1>1 DEF DataInv, Fresh
<1>5. staging \subseteq Textures /\ (\A k \in DOMAIN assetsReady : assetsReady[k] \in Textures)
  BY DEF LoaderTypes
<1>6. \A t \in Textures : t > new => t > created /\ t # new
  BY <1>1 DEF Textures
<1>7. \A t \in Textures : t <= new => t <= created \/ t = new
  BY <1>1 DEF Textures
<1> HIDE DEF new
<1>8. Fresh'
  BY <1>1, <1>2, <1>3, <1>6, <1>7 DEF DataInv, Fresh
<1>9. Staged'
  BY <1>2, <1>3, <1>4, <1>5 DEF DataInv, Staged, InRing
<1>10. RingIsStaged'
  BY <1>2, <1>3, <1>4, <1>5 DEF DataInv, RingIsStaged
<1>11. \A m \in Names : textures[m] # None => textures[m] \in Textures /\ textures[m] # new
  BY <1>4 DEF DataInv, Named, LoaderTypes
<1>12. Named' /\ PutAside'
  BY <1>2, <1>3, <1>11 DEF DataInv, Named, PutAside
<1>13. Reachable'
  BY <1>2, <1>3, <1>4 DEF DataInv, Reachable
<1> QED BY <1>8, <1>9, <1>10, <1>12, <1>13 DEF DataInv

(* The job stages an image that nobody has seen yet. *)
LEMMA StageKeepsData ==
  ASSUME LoaderTypes, DataInv, NEW t \in Textures, StageImage(t)
  PROVE  DataInv'
<1>1. /\ job[t] = "queued" /\ job' = [job EXCEPT ![t] = "staged"]
      /\ image' = [image EXCEPT ![t] = "allocated"] /\ staging' = staging \cup {t}
      /\ UNCHANGED <<created, name, assetsReady, textures, deferred>>
  BY DEF StageImage, JobReaches, ring
<1>2. image[t] = "none" /\ t \notin staging
  BY <1>1 DEF DataInv, Staged
<1>3. \A u \in Textures : u # t => job'[u] = job[u] /\ image'[u] = image[u]
  BY <1>1 DEF LoaderTypes
<1>4. job'[t] = "staged" /\ image'[t] = "allocated"
  BY <1>1 DEF LoaderTypes
<1>5. \A k \in DOMAIN assetsReady : assetsReady[k] \in Textures /\ assetsReady[k] # t
  BY <1>2 DEF DataInv, RingIsStaged, LoaderTypes
<1>6. \A m \in Names : textures[m] # None => textures[m] \in Textures /\ textures[m] # t
  BY <1>2 DEF DataInv, Named, LoaderTypes
<1>7. \A u \in deferred : u \in Textures /\ u # t
  BY <1>2 DEF DataInv, PutAside, LoaderTypes
<1>8. Fresh'
  BY <1>1, <1>3 DEF DataInv, Fresh
<1>9. Staged'
  BY <1>1, <1>3, <1>4 DEF DataInv, Staged, InRing, LoaderTypes
<1>10. RingIsStaged'
  BY <1>1, <1>3, <1>5 DEF DataInv, RingIsStaged
<1>11. Named' /\ PutAside'
  BY <1>1, <1>3, <1>6, <1>7 DEF DataInv, Named, PutAside
<1>12. Reachable'
  BY <1>1, <1>3 DEF DataInv, Reachable
<1> QED BY <1>8, <1>9, <1>10, <1>11, <1>12 DEF DataInv

(* The job pushes what it has staged, or finds the ring full. *)
LEMMA PushKeepsData ==
  ASSUME LoaderTypes, DataInv, NEW t \in Textures, PushStaged(t)
  PROVE  DataInv'
<1>1. job[t] = "staged" /\ UNCHANGED <<created, name, image, staging, textures, deferred>>
  BY DEF PushStaged, JobReaches, memory
<1>2. t \in staging
  BY <1>1 DEF DataInv, Staged
<1>3. assetsReady \in Seq(Textures) /\ (\A k \in DOMAIN assetsReady : assetsReady[k] \in Textures /\ assetsReady[k] # t)
  BY <1>1 DEF DataInv, RingIsStaged, LoaderTypes
<1>4. \A u \in Textures : u # t => job'[u] = job[u]
  BY DEF PushStaged, JobReaches, LoaderTypes
<1>5. \/ job'[t] = "pushed" /\ assetsReady' = Append(assetsReady, t)
      \/ job'[t] = "jammed" /\ assetsReady' = assetsReady
  BY DEF PushStaged, JobReaches, LoaderTypes
<1>6. Fresh' /\ Named' /\ PutAside' /\ Reachable'
  BY <1>1, <1>4 DEF DataInv, Fresh, Named, PutAside, Reachable
<1>7. CASE job'[t] = "jammed" /\ assetsReady' = assetsReady
  <2>1. Staged'
    BY <1>1, <1>4, <1>7 DEF DataInv, Staged, InRing, LoaderTypes
  <2>2. RingIsStaged'
    BY <1>1, <1>3, <1>4, <1>7 DEF DataInv, RingIsStaged
  <2> QED BY <1>6, <2>1, <2>2 DEF DataInv
<1>8. CASE job'[t] = "pushed" /\ assetsReady' = Append(assetsReady, t)
  <2> DEFINE last == Len(assetsReady) + 1
  <2>1. /\ DOMAIN assetsReady' = DOMAIN assetsReady \cup {last} /\ last \notin DOMAIN assetsReady
        /\ assetsReady'[last] = t
        /\ \A k \in DOMAIN assetsReady : assetsReady'[k] = assetsReady[k]
    BY <1>3, <1>8
  <2> HIDE DEF last
  <2>2. \A u \in Textures : InRing(u)' <=> InRing(u) \/ u = t
    BY <2>1 DEF InRing
  <2>3. Staged'
    BY <1>1, <1>4, <1>8, <2>2 DEF DataInv, Staged, LoaderTypes
  <2>4. RingIsStaged'
    BY <1>1, <1>2, <1>3, <1>4, <1>8, <2>1 DEF DataInv, RingIsStaged
  <2> QED BY <1>6, <2>3, <2>4 DEF DataInv
<1> QED BY <1>5, <1>7, <1>8

(* The job ends. *)
LEMMA FinishJobKeepsData ==
  ASSUME LoaderTypes, DataInv, NEW t \in Textures, FinishJob(t)
  PROVE  DataInv'
<1>1. /\ job[t] = "pushed" /\ job' = [job EXCEPT ![t] = "done"]
      /\ UNCHANGED <<created, name, image, assetsReady, staging, textures, deferred>>
  BY DEF FinishJob, JobReaches, ring, memory
<1>2. job'[t] = "done" /\ (\A u \in Textures : u # t => job'[u] = job[u])
  BY <1>1 DEF LoaderTypes
<1>3. Fresh' /\ Named' /\ PutAside' /\ Reachable'
  BY <1>1, <1>2 DEF DataInv, Fresh, Named, PutAside, Reachable
<1>4. Staged'
  BY <1>1, <1>2 DEF DataInv, Staged, InRing, LoaderTypes
<1>5. RingIsStaged'
  BY <1>1, <1>2 DEF DataInv, RingIsStaged, LoaderTypes
<1> QED BY <1>3, <1>4, <1>5 DEF DataInv

(* processEvents: the oldest asset of the ring leaves its staging buffer and *)
(* gets its name.                                                            *)
LEMMA InstallKeepsData ==
  ASSUME LoaderTypes, DataInv, InstallReady
  PROVE  DataInv' /\ Head(assetsReady) \in Textures /\ image[Head(assetsReady)] = "allocated"
<1> DEFINE t == Head(assetsReady)
<1>1. assetsReady \in Seq(Textures) /\ assetsReady # <<>> /\ t \in Textures /\ t = assetsReady[1] /\ 1 \in DOMAIN assetsReady
  BY InstallTypes DEF LoaderTypes
<1>2. /\ textures' = [textures EXCEPT ![name[t]] = t] /\ staging' = staging \ {t}
      /\ assetsReady' = Tail(assetsReady)
      /\ UNCHANGED <<created, name, job, image, deferred>>
  BY DEF InstallReady, jobVars
<1>3. /\ \A k \in DOMAIN assetsReady' : k + 1 \in DOMAIN assetsReady /\ k + 1 # 1 /\ assetsReady'[k] = assetsReady[k + 1]
      /\ \A k \in DOMAIN assetsReady : k = 1 \/ (k - 1 \in DOMAIN assetsReady' /\ assetsReady'[k - 1] = assetsReady[k])
      /\ \A k, l \in DOMAIN assetsReady' : k # l => k + 1 # l + 1
  BY <1>1, <1>2
<1>4. t \in staging /\ job[t] \in {"pushed", "done"}
  BY <1>1 DEF DataInv, RingIsStaged
<1>5. image[t] = "allocated" /\ t \notin deferred /\ t # None
  BY <1>1, <1>4 DEF DataInv, Staged, PutAside, Textures, None
<1>6. name[t] \in Names
  <2>1. t <= created \/ t > created
    BY <1>1 DEF LoaderTypes, Textures
  <2> QED BY <1>1, <1>4, <2>1 DEF DataInv, Fresh
<1>7. textures'[name[t]] = t /\ (\A n \in Names : n # name[t] => textures'[n] = textures[n])
  BY <1>2, <1>6 DEF LoaderTypes
<1> HIDE DEF t
<1>8. Fresh' /\ PutAside'
  BY <1>2 DEF DataInv, Fresh, PutAside
<1>9. \A u \in Textures : InRing(u) => InRing(u)' \/ u = t
  BY <1>1, <1>3 DEF InRing
<1>10. Staged'
  BY <1>2, <1>4, <1>9 DEF DataInv, Staged, LoaderTypes
<1>11. RingIsStaged'
  BY <1>1, <1>2, <1>3 DEF DataInv, RingIsStaged
<1>12. Named'
  BY <1>2, <1>5, <1>7 DEF DataInv, Named
<1>13. Reachable'
  BY <1>2, <1>5, <1>7 DEF DataInv, Reachable
<1> QED BY <1>1, <1>5, <1>8, <1>10, <1>11, <1>12, <1>13 DEF DataInv, t

(* updateTextureFromPixelsSync: the name passes to a new texture. *)
LEMMA UpdateKeepsData ==
  ASSUME LoaderTypes, DataInv, NEW n \in Names, UpdateTexture(n)
  PROVE  DataInv'
<1> DEFINE new == created + 1
           old == textures[n]
<1>1. new \in Textures /\ new # None /\ created \in Int /\ new > created /\ created' = new
  BY TexturesAssumption DEF LoaderTypes, UpdateTexture, Textures, None
<1>2. old \in Textures /\ old # None
  BY DEF LoaderTypes, UpdateTexture
<1>3. /\ \A t \in Textures : name'[t] = IF t = new THEN n ELSE name[t]
      /\ \A t \in Textures : image'[t] = IF t = new THEN "allocated" ELSE image[t]
      /\ \A m \in Names : textures'[m] = IF m = n THEN new ELSE textures[m]
  BY <1>1 DEF LoaderTypes, UpdateTexture
<1>4. UNCHANGED <<job, assetsReady, staging>> /\ deferred' = deferred \cup {old}
  BY DEF UpdateTexture, ring
<1>5. image[new] = "none" /\ job[new] = "none"
  BY <1>1 DEF DataInv, Fresh
<1>6. /\ name[old] = n /\ old \notin staging /\ image[old] # "none"
      /\ \A m \in Names : m # n => textures[m] # old
  BY <1>2 DEF DataInv, Named
<1>7. \A t \in staging : t \in Textures /\ t # new
  BY <1>5 DEF DataInv, Staged, LoaderTypes
<1>8. \A t \in deferred : t \in Textures /\ t # new
  BY <1>5 DEF DataInv, PutAside, LoaderTypes
<1>9. \A m \in Names : textures[m] # None => textures[m] \in Textures /\ textures[m] # new
  BY <1>5 DEF DataInv, Named, LoaderTypes
<1>10. \A t \in Textures : (t > new => t > created /\ t # new) /\ (t <= new => t <= created \/ t = new)
  BY <1>1 DEF Textures
<1>11. \A k \in DOMAIN assetsReady : assetsReady[k] \in Textures
  BY DEF LoaderTypes
<1> HIDE DEF new, old
<1>12. Fresh'
  BY <1>1, <1>3, <1>4, <1>10 DEF DataInv, Fresh
<1>13. Staged'
  BY <1>3, <1>4, <1>5, <1>7 DEF DataInv, Staged, InRing
<1>14. RingIsStaged'
  BY <1>4 DEF DataInv, RingIsStaged
<1>15. Named'
  BY <1>1, <1>2, <1>3, <1>4, <1>5, <1>6, <1>7, <1>8, <1>9 DEF DataInv, Named
<1>16. PutAside'
  BY <1>2, <1>3, <1>4, <1>6, <1>8 DEF DataInv, PutAside
<1>17. \A t \in Textures : image[t] = "allocated" => name[t] \in Names
  <2> SUFFICES ASSUME NEW t \in Textures, image[t] = "allocated" PROVE name[t] \in Names
    OBVIOUS
  <2>1. t <= created \/ t > created
    BY <1>1 DEF Textures
  <2> QED BY <2>1 DEF DataInv, Fresh
<1>18. Reachable'
  BY <1>1, <1>3, <1>4, <1>17 DEF DataInv, Reachable
<1> QED BY <1>12, <1>13, <1>14, <1>15, <1>16, <1>18 DEF DataInv

(* Images that are destroyed had been made. *)
LEMMA DestroyKeepsData ==
  ASSUME LoaderTypes, NEW ts, Destroy(ts)
  PROVE  \A t \in Textures : image'[t] = IF t \in ts THEN "destroyed" ELSE image[t]
BY DEF Destroy

(* destroyDeferredDestroyTextures destroys nothing staged and nothing named.  *)
LEMMA DestroyDeferredKeepsData ==
  ASSUME LoaderTypes, DataInv, DestroyDeferred
  PROVE  DataInv'
<1>1. \A t \in Textures : image'[t] = IF t \in deferred THEN "destroyed" ELSE image[t]
  BY DestroyKeepsData DEF DestroyDeferred
<1>2. deferred' = {} /\ UNCHANGED <<created, name, job, assetsReady, staging, textures>>
  BY DEF DestroyDeferred, jobVars, ring
<1>3. \A m \in Names : textures[m] # None => textures[m] \in Textures
  BY DEF LoaderTypes
<1>4. Fresh'
  BY <1>1, <1>2 DEF DataInv, Fresh, PutAside
<1>5. Staged'
  BY <1>1, <1>2 DEF DataInv, Staged, InRing, PutAside, LoaderTypes
<1>6. RingIsStaged' /\ PutAside'
  BY <1>2 DEF DataInv, RingIsStaged, PutAside
<1>7. Named'
  BY <1>1, <1>2, <1>3 DEF DataInv, Named
<1>8. Reachable'
  BY <1>1, <1>2 DEF DataInv, Reachable
<1> QED BY <1>4, <1>5, <1>6, <1>7, <1>8 DEF DataInv

(* discardAll frees the staging buffers of the ring, and those only.          *)
LEMMA DiscardKeepsData ==
  ASSUME LoaderTypes, DataInv, DiscardAll
  PROVE  DataInv'
<1> DEFINE left == {assetsReady[k] : k \in DOMAIN assetsReady}
<1>1. \A t \in Textures : image'[t] = IF t \in left THEN "destroyed" ELSE image[t]
  BY DestroyKeepsData DEF DiscardAll
<1>2. /\ staging' = staging \ left /\ assetsReady' = <<>>
      /\ UNCHANGED <<created, name, job, textures, deferred>>
  BY DEF DiscardAll, jobVars
<1>3. \A t \in left : t \in staging /\ image[t] = "allocated" /\ job[t] \in {"pushed", "done"}
  BY DEF DataInv, Staged, RingIsStaged
<1>4. \A t : InRing(t) <=> t \in left
  BY DEF InRing
<1>5. \A m \in Names : textures[m] # None => textures[m] \in Textures
  BY DEF LoaderTypes
<1> HIDE DEF left
<1>6. Fresh'
  BY <1>1, <1>2, <1>3 DEF DataInv, Fresh
<1>7. Staged'
  BY <1>1, <1>2, <1>3, <1>4 DEF DataInv, Staged, LoaderTypes
<1>8. RingIsStaged'
  BY <1>2 DEF RingIsStaged
<1>9. Named'
  BY <1>1, <1>2, <1>5 DEF DataInv, Named
<1>10. PutAside'
  BY <1>1, <1>2 DEF DataInv, PutAside, LoaderTypes
<1>11. Reachable'
  BY <1>1, <1>2 DEF DataInv, Reachable
<1> QED BY <1>6, <1>7, <1>8, <1>9, <1>10, <1>11 DEF DataInv

(* destroy_textures destroys nothing staged.                                  *)
LEMMA DestroyTexturesKeepsData ==
  ASSUME LoaderTypes, DataInv, DestroyTextures
  PROVE  DataInv'
<1> DEFINE named == {textures[n] : n \in Names}
<1>1. \A t \in Textures : image'[t] = IF t \in named THEN "destroyed" ELSE image[t]
  BY DestroyKeepsData DEF DestroyTextures
<1>2. UNCHANGED <<created, name, job, assetsReady, staging, textures, deferred>>
  BY DEF DestroyTextures, jobVars, ring
<1>3. \A t \in Textures : t # None
  BY DEF Textures, None
<1>4. \A t \in Textures : t \in named => image[t] # "none" /\ t \notin staging
  BY <1>3 DEF DataInv, Named
<1>5. \A m \in Names : textures[m] # None => textures[m] \in Textures
  BY DEF LoaderTypes
<1> HIDE DEF named
<1>6. Fresh'
  BY <1>1, <1>2, <1>4 DEF DataInv, Fresh
<1>7. Staged'
  BY <1>1, <1>2, <1>4 DEF DataInv, Staged, InRing, LoaderTypes
<1>8. RingIsStaged'
  BY <1>2 DEF DataInv, RingIsStaged
<1>9. Named'
  BY <1>1, <1>2, <1>5 DEF DataInv, Named
<1>10. PutAside'
  BY <1>1, <1>2 DEF DataInv, PutAside, LoaderTypes
<1>11. Reachable'
  BY <1>1, <1>2 DEF DataInv, Reachable
<1> QED BY <1>6, <1>7, <1>8, <1>9, <1>10, <1>11 DEF DataInv
-----------------------------------------------------------------------------
(* The count of jobs *)

(* The jobs at any stages are finitely many, and can be counted.              *)
LEMMA JobsFinite == \A stages : IsFiniteSet(Jobs(stages))
<1>1. IsFiniteSet(Textures)
  BY FS_Interval, TexturesAssumption DEF Textures
<1> QED BY <1>1, FS_Subset DEF Jobs

(* A load raises the count, whether the queue takes the job or refuses it. *)
LEMMA LoadCounts ==
  ASSUME LoaderTypes, DataInv, CountInv, NEW n \in Names, LoadTexture(n)
  PROVE  CountInv'
<1> DEFINE new == created + 1
<1>1. new \in Textures /\ new > created
  BY TexturesAssumption DEF LoaderTypes, LoadTexture, Textures
<1>2. job[new] = "none"
  BY <1>1 DEF DataInv, Fresh
<1>3. /\ job' = [job EXCEPT ![new] = job'[new]]
      /\ job'[new] \in {"queued", "refused"}
  BY <1>1 DEF LoaderTypes, LoadTexture
<1> HIDE DEF new
<1>4. Jobs(Counted)' = Jobs(Counted) \cup {new} /\ new \notin Jobs(Counted)
  BY <1>1, <1>2, <1>3 DEF Jobs, Counted, LoaderTypes
<1>5. Cardinality(Jobs(Counted)') = Cardinality(Jobs(Counted)) + 1
  BY <1>4, JobsFinite, FS_AddElement
<1> QED BY <1>5 DEF CountInv, LoadTexture

(* A job on its way stays counted. *)
LEMMA StageCounts ==
  ASSUME LoaderTypes, CountInv, NEW t \in Textures, StageImage(t) \/ PushStaged(t)
  PROVE  CountInv'
<1>1. outstanding' = outstanding
  BY DEF StageImage, PushStaged
<1>2. Jobs(Counted)' = Jobs(Counted)
  BY DEF Jobs, Counted, LoaderTypes, StageImage, PushStaged, JobReaches
<1> QED BY <1>1, <1>2 DEF CountInv

(* A job that ends lowers the count it had raised.                            *)
LEMMA FinishJobCounts ==
  ASSUME LoaderTypes, CountInv, NEW t \in Textures, FinishJob(t)
  PROVE  CountInv'
<1>1. Jobs(Counted)' = Jobs(Counted) \ {t} /\ t \in Jobs(Counted)
  BY DEF Jobs, Counted, LoaderTypes, FinishJob, JobReaches
<1>2. Cardinality(Jobs(Counted)') = Cardinality(Jobs(Counted)) - 1
  BY <1>1, JobsFinite, FS_RemoveElement
<1> QED BY <1>2 DEF CountInv, FinishJob

(* What outstandingJobsCount tells whoever waits for it. *)
LEMMA NoneOutstanding ==
  ASSUME CountInv
  PROVE  outstanding \in Nat /\ (outstanding <= 0 => Jobs(Counted) = {})
<1>1. IsFiniteSet(Jobs(Counted)) /\ Cardinality(Jobs(Counted)) \in Nat
  BY JobsFinite, FS_CardinalityType
<1> QED BY <1>1, FS_EmptySet DEF CountInv

-----------------------------------------------------------------------------
(* The systems thread is alive only while the main thread is in its loop. *)
LEMMA TickingInLoop ==
  ASSUME PhaseInv, NEW from, NEW to, Go(from, to), from # "exited"
  PROVE  mainPc = "loop" /\ mainPc' = "loop"
BY DEF PhaseInv, Go, StepTo

(* The part of the invariant that speaks of phases and of the registry. *)
Rest == DataInv /\ CountInv /\ PhaseInv /\ LiveInv /\ FramesInv

(* At the start nothing is loaded.                                            *)
LEMMA InitRest == Init => Rest
<1> SUFFICES ASSUME Init PROVE Rest
  OBVIOUS
<1>1. /\ created = 0 /\ (\A t \in Textures : job[t] = "none" /\ image[t] = "none")
      /\ staging = {} /\ deferred = {} /\ assetsReady = <<>> /\ outstanding = 0
      /\ (\A n \in Names : textures[n] = None) /\ gpu = <<>> /\ mainPc = "loop"
  BY DEF Init, PaceInit, LoaderInit
<1>2. \A t \in Textures : t > 0 /\ ~(t <= 0)
  BY DEF Textures
<1>3. DataInv
  BY <1>1, <1>2 DEF DataInv, Fresh, Staged, RingIsStaged, Named, PutAside, Reachable
<1>4. Jobs(Counted) = {}
  BY <1>1 DEF Jobs, Counted
<1>5. CountInv
  BY <1>1, <1>4, FS_EmptySet DEF CountInv
<1> QED BY <1>1, <1>3, <1>5 DEF Rest, PhaseInv, LiveInv, FramesInv

(* A step that moves neither the main thread nor the loader. *)
LEMMA QuietKeepsRest ==
  ASSUME Rest, LoaderQuiet, UNCHANGED <<gpu, mainPc>>, pc' = pc \/ mainPc = "loop"
  PROVE  Rest'
<1>1. DataInv' /\ CountInv'
  BY QuietKeepsData DEF Rest
<1>2. PhaseInv'
  BY DEF Rest, PhaseInv, LoaderQuiet, jobVars, Jobs
<1>3. LiveInv' /\ FramesInv'
  BY DEF Rest, LiveInv, FramesInv, LoaderQuiet, memory
<1> QED BY <1>1, <1>2, <1>3 DEF Rest
(* The steps that do move the loader or the frames, one by one. *)
LEMMA UploadKeepsRest == Types /\ Rest /\ Upload => Rest'
<1> SUFFICES ASSUME Types, Rest, Upload PROVE Rest'
  OBVIOUS
<1> DEFINE t == Head(assetsReady)
<1>1. LoaderTypes /\ DataInv /\ InstallReady /\ mainPc = "loop" /\ mainPc' = "loop"
  BY TickingInLoop DEF Upload, Types, Rest
<1>2. DataInv' /\ t \in Textures /\ image[t] = "allocated"
  BY <1>1, InstallKeepsData
<1>3. UNCHANGED <<job, outstanding, image, deferred, gpu>>
  BY <1>1 DEF InstallReady, jobVars, Upload, paceVars, syncs
<1>4. textures' = [textures EXCEPT ![name[t]] = t]
  BY <1>1 DEF InstallReady
<1> HIDE DEF t
<1>5. CountInv'
  BY <1>3 DEF Rest, CountInv, Jobs
<1>6. LiveInv'
  BY <1>1, <1>2, <1>3, <1>4 DEF Rest, LiveInv, LoaderTypes
<1>7. PhaseInv' /\ FramesInv'
  BY <1>1, <1>3 DEF Rest, PhaseInv, FramesInv
<1> QED BY <1>2, <1>5, <1>6, <1>7 DEF Rest

(* loadAsset runs while the main thread is in its loop.                       *)
LEMMA LoadKeepsRest ==
  ASSUME Types, Rest, NEW n \in Names, GameLoads(n)
  PROVE  Rest'
<1>1. LoaderTypes /\ LoadTexture(n) /\ mainPc = "loop" /\ mainPc' = "loop"
  BY TickingInLoop DEF GameLoads, Types, Rest
<1>2. DataInv' /\ CountInv'
  BY <1>1, LoadKeepsData, LoadCounts DEF Rest
<1>3. UNCHANGED <<image, textures, deferred, gpu>>
  BY <1>1 DEF LoadTexture, memory, GameLoads, paceVars, syncs
<1>4. PhaseInv' /\ LiveInv' /\ FramesInv'
  BY <1>1, <1>3 DEF Rest, PhaseInv, LiveInv, FramesInv
<1> QED BY <1>2, <1>4 DEF Rest

(* updateTextureFromPixelsSync puts aside a texture while no frame is in flight. *)
LEMMA UpdateKeepsRest ==
  ASSUME Types, Rest, NEW n \in Names, GameUpdates(n)
  PROVE  Rest'
<1>1. LoaderTypes /\ UpdateTexture(n) /\ mainPc = "loop" /\ mainPc' = "loop" /\ gpu' = <<>>
  BY TickingInLoop DEF GameUpdates, GpuIdle, paceVars, syncs, Types, Rest
<1>2. DataInv'
  BY <1>1, UpdateKeepsData DEF Rest
<1>3. CountInv'
  BY <1>1 DEF UpdateTexture, Rest, CountInv, Jobs
<1>4. created' \in Textures
  BY <1>1, TexturesAssumption DEF LoaderTypes, UpdateTexture, Textures
<1>5. LiveInv'
  BY <1>1, <1>4 DEF Rest, LiveInv, LoaderTypes, UpdateTexture
<1>6. PhaseInv' /\ FramesInv'
  BY <1>1 DEF PhaseInv, FramesInv
<1> QED BY <1>2, <1>3, <1>5, <1>6 DEF Rest

(* What the frame submitted reads is live and not put aside, unless it        *)
(* dangles.                                                                   *)
LEMMA FinishKeepsRest == Types /\ KeptInv /\ Rest /\ Finish => Rest'
<1> SUFFICES ASSUME Types, KeptInv, Rest, NEW outOfDate \in BOOLEAN,
                    FinishFrame(Drawn, Dangling, outOfDate),
                    pc = "recorded", UNCHANGED <<loaderVars, mainPc>>
             PROVE  Rest'
  BY DEF Finish, Go, StepTo
<1>1. mainPc = "loop" /\ mainPc' = "loop"
  BY DEF Rest, PhaseInv
<1>2. DataInv' /\ CountInv'
  BY QuietKeepsData DEF Rest, LoaderQuiet, loaderVars, jobVars, ring, memory
<1>3. PhaseInv' /\ LiveInv'
  BY <1>1 DEF Rest, PhaseInv, LiveInv, loaderVars, memory
<1>4. /\ Submission(Drawn, Dangling).reads = Drawn /\ Submission(Drawn, Dangling).dangling = Dangling
      /\ Submission(Drawn, Dangling) \in Submissions /\ gpu \in Seq(Submissions)
  BY DrawnType DEF Submission, Submissions, Types, PaceTypes
<1>5. \A k \in DOMAIN gpu' :
        \/ k \in DOMAIN gpu /\ gpu'[k] = gpu[k]
        \/ gpu'[k].reads = Drawn /\ gpu'[k].dangling = Dangling
  BY <1>4 DEF FinishFrame
<1>6. ASSUME NEW t \in Drawn \ Dangling
      PROVE  t \notin deferred /\ image[t] = "allocated"
  <2>1. t \in Textures /\ t \notin deferred /\ image[t] # "destroyed"
    BY DrawnType DEF Dangling
  <2>2. image[t] # "none"
    BY DEF Drawn, Registered, KeptInv, Rest, DataInv, Named
  <2> QED BY <2>1, <2>2 DEF Types, LoaderTypes
<1>7. FramesInv'
  BY <1>1, <1>5, <1>6 DEF Rest, FramesInv, loaderVars, memory
<1> QED BY <1>2, <1>3, <1>7 DEF Rest

(* What was put aside is read by no frame in flight and has no name.          *)
LEMMA DestroyUnusedKeepsRest == Types /\ Rest /\ DestroyUnused => Rest'
<1> SUFFICES ASSUME Types, Rest, DestroyUnused PROVE Rest'
  OBVIOUS
<1>1. LoaderTypes /\ DestroyDeferred /\ mainPc = "loop" /\ mainPc' = "loop" /\ gpu' = gpu
  BY TickingInLoop DEF DestroyUnused, Types, Rest, paceVars, syncs
<1>2. DataInv'
  BY <1>1, DestroyDeferredKeepsData DEF Rest
<1>3. UNCHANGED <<job, outstanding, textures>> /\ deferred' = {}
  BY <1>1 DEF DestroyDeferred, jobVars
<1>4. \A t \in Textures : image'[t] = IF t \in deferred THEN "destroyed" ELSE image[t]
  BY <1>1, DestroyKeepsData DEF DestroyDeferred
<1>5. CountInv' /\ PhaseInv'
  BY <1>1, <1>3 DEF Rest, CountInv, PhaseInv, Jobs
<1>6. LiveInv'
  BY <1>1, <1>3, <1>4 DEF Rest, DataInv, Named, LiveInv, LoaderTypes
<1>7. \A k \in DOMAIN gpu : gpu[k].reads \subseteq Textures
  BY SubmissionsType DEF Types
<1>8. FramesInv'
  BY <1>1, <1>3, <1>4, <1>7 DEF Rest, FramesInv
<1> QED BY <1>2, <1>5, <1>6, <1>8 DEF Rest

(* A job that is counted keeps the main thread from discarding.               *)
LEMMA StagesKeepsRest ==
  ASSUME Types, Rest, NEW t \in Textures, Stages(t)
  PROVE  Rest'
<1>1. LoaderTypes /\ StageImage(t) /\ UNCHANGED <<gpu, pc, mainPc>>
  BY DEF Stages, Elsewhere, Types, paceVars, syncs
<1>2. DataInv' /\ CountInv'
  BY <1>1, StageKeepsData, StageCounts DEF Rest
<1>3. t \in Jobs(Counted) /\ Jobs(Counted)' = Jobs(Counted)
  BY <1>1 DEF Jobs, Counted, LoaderTypes, StageImage, JobReaches
<1>4. mainPc \in {"loop", "spin"}
  BY <1>3 DEF Rest, PhaseInv
<1>5. UNCHANGED <<textures, deferred>> /\ image' = [image EXCEPT ![t] = "allocated"]
  BY <1>1 DEF StageImage
<1>6. PhaseInv'
  BY <1>1, <1>4 DEF Rest, PhaseInv
<1>7. LiveInv' /\ FramesInv'
  BY <1>1, <1>4, <1>5 DEF Rest, LiveInv, FramesInv, LoaderTypes
<1> QED BY <1>2, <1>6, <1>7 DEF Rest

(* So do its later steps.                                                     *)
LEMMA PushesKeepsRest ==
  ASSUME Types, Rest, NEW t \in Textures, Pushes(t) \/ Finishes(t)
  PROVE  Rest'
<1>1. LoaderTypes /\ (PushStaged(t) \/ FinishJob(t)) /\ UNCHANGED <<gpu, pc, mainPc>>
  BY DEF Pushes, Finishes, Elsewhere, Types, paceVars, syncs
<1>2. DataInv' /\ CountInv'
  BY <1>1, PushKeepsData, FinishJobKeepsData, StageCounts, FinishJobCounts DEF Rest
<1>3. t \in Jobs(Counted)
  BY <1>1 DEF Jobs, Counted, PushStaged, FinishJob, JobReaches
<1>4. mainPc \in {"loop", "spin"}
  BY <1>3 DEF Rest, PhaseInv
<1>5. UNCHANGED <<image, textures, deferred>>
  BY <1>1 DEF PushStaged, FinishJob, memory
<1>6. PhaseInv' /\ LiveInv' /\ FramesInv'
  BY <1>1, <1>4, <1>5 DEF Rest, PhaseInv, LiveInv, FramesInv
<1> QED BY <1>2, <1>6 DEF Rest

(* A frame less in flight.                                                    *)
LEMMA GpuKeepsRest == Types /\ Rest /\ Gpu => Rest'
<1> SUFFICES ASSUME Types, Rest, Gpu PROVE Rest'
  OBVIOUS
<1>1. PaceTypes /\ GpuFinish /\ UNCHANGED <<loaderVars, pc, mainPc>>
  BY DEF Gpu, Elsewhere, Types
<1>2. DataInv' /\ CountInv'
  BY <1>1, QuietKeepsData DEF Rest, LoaderQuiet, loaderVars, jobVars, ring, memory
<1>3. PhaseInv' /\ LiveInv'
  BY <1>1 DEF Rest, PhaseInv, LiveInv, Jobs, loaderVars, jobVars, ring, memory
<1>4. gpu \in Seq(Submissions) /\ gpu # <<>> /\ gpu' = Tail(gpu)
  BY <1>1, GpuTypes DEF PaceTypes, GpuFinish
<1>5. \A k \in DOMAIN gpu' : k + 1 \in DOMAIN gpu /\ gpu'[k] = gpu[k + 1]
  BY <1>4
<1>6. FramesInv'
  BY <1>1, <1>5 DEF Rest, FramesInv, loaderVars, memory
<1> QED BY <1>2, <1>3, <1>6 DEF Rest

(* Shutdown: nothing outstanding, so nothing that discarding could miss. *)
LEMMA SpinKeepsRest == Types /\ Rest /\ Spin => Rest'
<1> SUFFICES ASSUME Types, Rest, Spin PROVE Rest'
  OBVIOUS
<1>1. Jobs(Counted) = {} /\ mainPc = "spin" /\ mainPc' = "discard"
  BY NoneOutstanding DEF Rest, Spin, MainGo
<1>2. LoaderQuiet /\ UNCHANGED <<gpu, pc, loaderVars>>
  BY DEF Spin, MainGo, paceVars, syncs, LoaderQuiet, loaderVars, ring
<1>3. DataInv' /\ CountInv'
  BY <1>2, QuietKeepsData DEF Rest
<1>4. PhaseInv'
  BY <1>1, <1>2 DEF Rest, PhaseInv, Jobs, loaderVars, jobVars
<1>5. LiveInv' /\ FramesInv'
  BY <1>1, <1>2 DEF Rest, LiveInv, FramesInv, loaderVars, memory
<1> QED BY <1>3, <1>4, <1>5 DEF Rest

(* No job is left, so the ring stays empty.                                   *)
LEMMA DiscardKeepsRest == Types /\ Rest /\ Discard => Rest'
<1> SUFFICES ASSUME Types, Rest, Discard PROVE Rest'
  OBVIOUS
<1> DEFINE left == {assetsReady[k] : k \in DOMAIN assetsReady}
<1>1. LoaderTypes /\ DiscardAll /\ mainPc = "discard" /\ mainPc' = "textures" /\ UNCHANGED <<pc, gpu>>
  BY DEF Discard, MainGo, Types, paceVars, syncs
<1>2. DataInv'
  BY <1>1, DiscardKeepsData DEF Rest
<1>3. UNCHANGED <<job, outstanding, textures, deferred>> /\ assetsReady' = <<>>
  BY <1>1 DEF DiscardAll, jobVars
<1>4. \A t \in Textures : image'[t] = IF t \in left THEN "destroyed" ELSE image[t]
  BY <1>1, DestroyKeepsData DEF DiscardAll
<1>5. \A t \in left : t \in staging
  BY DEF Rest, DataInv, RingIsStaged
<1> HIDE DEF left
<1>6. CountInv' /\ PhaseInv'
  BY <1>1, <1>3 DEF Rest, CountInv, PhaseInv, Jobs
<1>7. LiveInv'
  BY <1>1, <1>3, <1>4, <1>5 DEF Rest, DataInv, Named, LiveInv, LoaderTypes
<1>8. FramesInv'
  BY <1>1, <1>3 DEF Rest, FramesInv
<1> QED BY <1>2, <1>6, <1>7, <1>8 DEF Rest

(* All that has names is destroyed.                                           *)
LEMMA DestroyRegisteredKeepsRest == Types /\ Rest /\ DestroyRegistered => Rest'
<1> SUFFICES ASSUME Types, Rest, DestroyRegistered PROVE Rest'
  OBVIOUS
<1>1. /\ LoaderTypes /\ DestroyTextures /\ mainPc = "textures" /\ mainPc' = "device"
      /\ UNCHANGED <<pc, gpu>>
  BY DEF DestroyRegistered, MainGo, Types, paceVars, syncs
<1>2. DataInv'
  BY <1>1, DestroyTexturesKeepsData DEF Rest
<1>3. UNCHANGED <<job, outstanding, textures, deferred, assetsReady>>
  BY <1>1 DEF DestroyTextures, jobVars, ring
<1>4. \A t \in Textures : image'[t] = IF t \in {textures[n] : n \in Names} THEN "destroyed" ELSE image[t]
  BY <1>1, DestroyKeepsData DEF DestroyTextures
<1>5. CountInv' /\ PhaseInv'
  BY <1>1, <1>3 DEF Rest, CountInv, PhaseInv, Jobs
<1>6. LiveInv'
  BY <1>1, <1>3, <1>4 DEF LiveInv, LoaderTypes
<1>7. FramesInv'
  BY <1>1, <1>3 DEF Rest, FramesInv
<1> QED BY <1>2, <1>5, <1>6, <1>7 DEF Rest

(* What is left of shutdown moves the main thread only. *)
LEMMA MainThreadKeepsRest == Types /\ Rest /\ MainThread => Rest'
<1> SUFFICES ASSUME Types, Rest, MainThread PROVE Rest'
  OBVIOUS
<1>1. CASE Spin \/ Discard \/ DestroyRegistered
  BY <1>1, SpinKeepsRest, DiscardKeepsRest, DestroyRegisteredKeepsRest
<1>2. CASE ExitConfirmed \/ DestroyDevice \/ DestroyLoaders
  <2>1. /\ LoaderQuiet /\ UNCHANGED <<gpu, pc, loaderVars>>
        /\ \/ pc = "exited" /\ mainPc = "loop" /\ mainPc' = "spin"
           \/ mainPc = "device" /\ mainPc' = "loaders"
           \/ mainPc = "loaders" /\ mainPc' = "done"
    BY <1>2
    DEF ExitConfirmed, DestroyDevice, DestroyLoaders, MainGo, paceVars, syncs, LoaderQuiet, loaderVars, ring
  <2>2. DataInv' /\ CountInv'
    BY <2>1, QuietKeepsData DEF Rest
  <2>3. PhaseInv'
    BY <2>1 DEF Rest, PhaseInv, Jobs, loaderVars, jobVars, ring
  <2>4. LiveInv' /\ FramesInv'
    BY <2>1 DEF Rest, LiveInv, FramesInv, loaderVars, memory
  <2> QED BY <2>2, <2>3, <2>4 DEF Rest
<1> QED BY <1>1, <1>2 DEF MainThread

(* No image is unmade, and an object keeps only the set of a texture that has *)
(* its name.                                                                  *)
LEMMA KeptKept == Types /\ KeptInv /\ Rest /\ [Next]_vars => KeptInv'
<1> SUFFICES ASSUME Types, KeptInv, Rest, [Next]_vars PROVE KeptInv'
  OBVIOUS
<1>1. \A t \in Textures : image[t] # "none" => image'[t] # "none"
  <2>1. CASE SystemsThread
    <3>1. UNCHANGED image \/ DestroyDeferred
      BY <2>1
      DEF SystemsThread, ProcessEvents, NothingReady, Upload, Drained, Ticked, Acquire, AcquireFails,
          Record, Finish, Recreate, DestroyUnused, SkipDraw, Restore, NextTick, LockReady, InstallReady,
          UnlockReady, loaderVars, memory
    <3> QED BY <3>1 DEF DestroyDeferred, Destroy, Types, LoaderTypes
  <2>2. CASE Game
    <3>1. ASSUME NEW n \in Names, UpdateTexture(n) PROVE \A t \in Textures : image[t] # "none" => image'[t] # "none"
      BY <3>1 DEF UpdateTexture, Types, LoaderTypes
    <3> QED
      BY <2>2, <3>1
      DEF Game, GameLoads, GameUpdates, GameNamesUnloaded, GameBinds, LoadTexture, NotLoaded,
          loaderVars, memory
  <2>3. CASE MainThread
    <3>1. UNCHANGED image \/ DiscardAll \/ DestroyTextures
      BY <2>3
      DEF MainThread, ExitConfirmed, Spin, Discard, DestroyRegistered, DestroyDevice, DestroyLoaders,
          loaderVars, memory
    <3> QED BY <3>1 DEF DiscardAll, DestroyTextures, Destroy
  <2>4. CASE Takes
    BY <2>4 DEF Takes, Stages, StageImage, Types, LoaderTypes
  <2>5. CASE Works \/ Gpu \/ User \/ UNCHANGED vars
    BY <2>5 DEF Works, Pushes, Finishes, PushStaged, FinishJob, Gpu, User, vars, loaderVars, memory
  <2> QED BY <2>1, <2>2, <2>3, <2>4, <2>5 DEF Next
<1>2. UNCHANGED bound \/ \E o \in Objects, n \in Names : GameBinds(o, n)
  BY DEF Next, SystemsThread, ProcessEvents, NothingReady, Upload, Drained, Ticked, Acquire, AcquireFails,
         Record, Finish, Recreate, DestroyUnused, SkipDraw, Restore, NextTick, Go, Game, GameLoads,
         GameUpdates, GameNamesUnloaded, MainThread, ExitConfirmed, Spin, Discard, DestroyRegistered,
         DestroyDevice, DestroyLoaders, MainGo, Takes, Works, Stages, Pushes, Finishes, Gpu, Elsewhere,
         User, vars
<1>3. CASE UNCHANGED bound
  BY <1>1, <1>3 DEF KeptInv, Types, ControlTypes
<1>4. ASSUME NEW o \in Objects, NEW n \in Names, GameBinds(o, n) PROVE KeptInv'
  <2>1. textures[n] # None /\ image[textures[n]] # "none" /\ image' = image
    BY <1>4 DEF GameBinds, Rest, DataInv, Named, loaderVars, memory
  <2>2. bound' = [bound EXCEPT ![o] = textures[n]] /\ bound \in [Objects -> Textures \cup {None}]
    BY <1>4 DEF GameBinds, Types, ControlTypes
  <2> QED BY <2>1, <2>2 DEF KeptInv
<1> QED BY <1>2, <1>3, <1>4

(* Every step keeps what is said of textures, jobs and shutdown.              *)
LEMMA RestKept == Types /\ KeptInv /\ Rest /\ [Next]_vars => Rest'
<1> SUFFICES ASSUME Types, KeptInv, Rest, [Next]_vars PROVE Rest'
  OBVIOUS
<1>1. CASE ProcessEvents \/ Drained
  <2>1. LoaderQuiet /\ gpu' = gpu /\ mainPc = "loop" /\ mainPc' = mainPc
    BY <1>1, TickingInLoop
    DEF ProcessEvents, Drained, LockReady, UnlockReady, LoaderQuiet, paceVars, syncs, Rest
  <2> QED BY <2>1, QuietKeepsRest
<1>2. CASE NothingReady \/ Ticked \/ Acquire \/ AcquireFails \/ Record
  <2>1. LoaderQuiet /\ gpu' = gpu /\ mainPc = "loop" /\ mainPc' = mainPc
    BY <1>2, TickingInLoop
    DEF NothingReady, Ticked, Acquire, AcquireFails, Record, GetNextSwapImage, AcquireOutOfDate,
        WaitForFence, LoaderQuiet, loaderVars, ring, paceVars, syncs, Rest
  <2> QED BY <2>1, QuietKeepsRest
<1>3. CASE Recreate \/ SkipDraw \/ Restore \/ NextTick
  <2>1. LoaderQuiet /\ gpu' = gpu /\ mainPc = "loop" /\ mainPc' = mainPc
    BY <1>3, TickingInLoop
    DEF Recreate, SkipDraw, Restore, NextTick, RecreateSwapchain, DrawMinimized, LoaderQuiet,
        loaderVars, ring, paceVars, syncs, Rest
  <2> QED BY <2>1, QuietKeepsRest
<1>4. CASE Upload \/ Finish \/ DestroyUnused
  BY <1>4, UploadKeepsRest, FinishKeepsRest, DestroyUnusedKeepsRest
<1>5. CASE Game
  <2>1. ASSUME NEW n \in Names, GameNamesUnloaded(n) PROVE Rest'
    <3>1. LoaderQuiet /\ gpu' = gpu /\ mainPc = "loop" /\ mainPc' = mainPc
      BY <2>1, TickingInLoop
      DEF GameNamesUnloaded, NotLoaded, LoaderQuiet, loaderVars, ring, paceVars, syncs, Rest
    <3> QED BY <3>1, QuietKeepsRest
  <2>2. ASSUME NEW n \in Names, NEW o \in Objects, GameBinds(o, n) PROVE Rest'
    <3>1. LoaderQuiet /\ UNCHANGED <<gpu, mainPc, pc>>
      BY <2>2 DEF GameBinds, StepTo, LoaderQuiet, loaderVars, ring, paceVars, syncs
    <3> QED BY <3>1, QuietKeepsRest
  <2> QED BY <1>5, <2>1, <2>2, LoadKeepsRest, UpdateKeepsRest DEF Game
<1>6. CASE Takes \/ Works
  BY <1>6, StagesKeepsRest, PushesKeepsRest DEF Takes, Works
<1>7. CASE MainThread \/ Gpu
  BY <1>7, MainThreadKeepsRest, GpuKeepsRest
<1>8. CASE User
  <2>1. LoaderQuiet /\ UNCHANGED <<gpu, mainPc, pc>>
    BY <1>8 DEF User, WindowResized, LoaderQuiet, loaderVars, ring, paceVars, syncs
  <2> QED BY <2>1, QuietKeepsRest
<1>9. CASE UNCHANGED vars
  <2>1. LoaderQuiet /\ UNCHANGED <<gpu, mainPc, pc>>
    BY <1>9 DEF vars, LoaderQuiet, loaderVars, ring, paceVars, syncs
  <2> QED BY <2>1, QuietKeepsRest
<1> QED
  BY <1>1, <1>2, <1>3, <1>4, <1>5, <1>6, <1>7, <1>8, <1>9 DEF Next, SystemsThread
-----------------------------------------------------------------------------
(* The theorems *)

(* The invariant, in parts that are kept one by one given the types.          *)
LEMMA Inductive == Spec => [](Types /\ SyncInv /\ KeptInv /\ Rest)
<1>1. Init => Types /\ SyncInv /\ KeptInv /\ Rest
  BY InitTypes, InitSync, InitRest DEF Init, KeptInv
<1>2. (Types /\ SyncInv /\ KeptInv /\ Rest) /\ [Next]_vars => (Types /\ SyncInv /\ KeptInv /\ Rest)'
  BY TypesKept, SyncKept, KeptKept, RestKept
<1> QED BY <1>1, <1>2, PTL DEF Spec

(* Every variable of the renderer has its type, and outstandingJobsCount is   *)
(* never below zero.                                                          *)
THEOREM TypeCorrect == Spec => []TypeOK
<1>1. Types /\ Rest => TypeOK
  <2> SUFFICES ASSUME Types, Rest PROVE TypeOK
    OBVIOUS
  <2>1. outstanding \in Nat
    BY NoneOutstanding DEF Rest
  <2>2. \A k \in DOMAIN gpu :
          gpu[k] \in [image : Images, semaphore : Semaphores, reads : SUBSET Textures, dangling : SUBSET Textures]
    <3>1. \A k \in DOMAIN gpu : gpu[k] \in Submissions
      BY DEF Types, PaceTypes
    <3> QED BY <3>1 DEF Submissions
  <2> QED BY <2>1, <2>2 DEF Types, PaceTypes, LoaderTypes, ControlTypes, TypeOK
<1> QED BY <1>1, Inductive, PTL

(* For any number of swapchain images, and whatever order they come in, the   *)
(* semaphore getNextSwapImage uses is waited for by no earlier frame.         *)
THEOREM SemaphoresAreApart == Spec => []SpareSemaphoreIsIdle
<1>1. Types /\ SyncInv => SpareSemaphoreIsIdle
  BY SyncSuffices DEF Types
<1> QED BY <1>1, Inductive, PTL

(* The fence acquire_next_frame waits for is one somebody signals, and after  *)
(* the wait the command buffer is no earlier frame's.                         *)
THEOREM FramesAreApart == Spec => []FrameSlotIsFree
<1>1. Types /\ SyncInv => FrameSlotIsFree
  BY SyncSuffices DEF Types
<1> QED BY <1>1, Inductive, PTL

(* However many textures are loaded, replaced and kept by objects, none that  *)
(* a frame in flight reads has been destroyed, unless it dangled already when *)
(* the frame was recorded.                                                    *)
THEOREM TexturesLive == Spec => []FramesReadLiveTextures
<1>1. Rest => FramesReadLiveTextures
  BY DEF Rest, FramesInv, FramesReadLiveTextures
<1> QED BY <1>1, Inductive, PTL

(* What has a name in the registry of textures is alive.                      *)
THEOREM NamesLive == Spec => []RegistryIsLive
<1>1. Rest => RegistryIsLive
  BY DEF Rest, DataInv, Named, LiveInv, RegistryIsLive
<1> QED BY <1>1, Inductive, PTL

(* Once shutdown has waited for outstandingJobsCount and discarded, no        *)
(* loading job is left.                                                       *)
THEOREM JobsAreOver == Spec => []JobsEndBeforeDiscard
<1>1. Rest => JobsEndBeforeDiscard
  BY DEF Rest, PhaseInv, JobsEndBeforeDiscard, Jobs, Counted
<1> QED BY <1>1, Inductive, PTL

(* When the device goes, no staging buffer is left, nor any image but those   *)
(* that lost their name to a later texture.                                   *)
THEOREM ShutdownIsClean == Spec => []OnlyUnnamedImagesLeak
<1>1. Types /\ Rest => OnlyUnnamedImagesLeak
  <2> SUFFICES ASSUME Types, Rest, mainPc \in {"loaders", "done"}
               PROVE  /\ staging = {}
                      /\ \A t \in Textures :
                           image[t] = "allocated" => textures[name[t]] # t /\ textures[name[t]] # None
    BY DEF OnlyUnnamedImagesLeak
  <2>1. Jobs(Counted) = {} /\ assetsReady = <<>>
    BY DEF Rest, PhaseInv
  <2>2. staging = {}
    BY <2>1 DEF Rest, DataInv, Staged, InRing, Jobs, Counted, Types, LoaderTypes
  <2>3. ASSUME NEW t \in Textures, image[t] = "allocated"
        PROVE  textures[name[t]] # t /\ textures[name[t]] # None
    <3>1. t <= created \/ t > created
      BY DEF Types, LoaderTypes, Textures
    <3>2. name[t] \in Names
      BY <2>3, <3>1 DEF Rest, DataInv, Fresh
    <3>3. textures[name[t]] # None
      BY <2>2, <2>3 DEF Rest, DataInv, Reachable
    <3>4. image[textures[name[t]]] = "destroyed"
      BY <3>2, <3>3 DEF Rest, LiveInv
    <3> QED BY <2>3, <3>3, <3>4
  <2> QED BY <2>2, <2>3
<1> QED BY <1>1, Inductive, PTL
=============================================================================
