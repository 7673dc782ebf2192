---------------------------- MODULE TextureLoader ----------------------------
(***************************************************************************)
(* Loading textures: loadRef and loadAsset on the systems thread, the      *)
(* staging job on a worker, the ring queue with its mutex between them,    *)
(* processEvents, which uploads and installs, a texture replaced while it  *)
(* is in use, and what shutdown does with whatever is left.                *)
(*                                                                         *)
(* The handlers are actions here; Renderer says which thread takes them,   *)
(* and when.                                                               *)
(***************************************************************************)
EXTENDS Integers, Sequences, FiniteSets

CONSTANTS
  Names,        \* names of textures
  NumWorkers,   \* jobs that run at a time
  JobRoom,      \* jobs that wait for a worker before dispatchJob fails
  RingRoom,     \* staged descriptions assetsReady holds
  MaxTextures   \* bound on the textures loaded or made from pixels

ASSUME RoomsAssumption == JobRoom \in Nat \ {0} /\ RingRoom \in Nat \ {0}
ASSUME TexturesAssumption == MaxTextures \in Nat \ {0} /\ NumWorkers \in Nat \ {0}
ASSUME NamesAssumption == "none" \notin Names

VARIABLES
  created,        \* textures asked for so far
  name,           \* name[t]: what texture t is asked for as
  job,            \* job[t]: how far its loading job has come
  image,          \* image[t]: its GPU image
  staging,        \* textures whose staging buffer is allocated
  assetsReady,    \* the ring of staged descriptions
  mutex,          \* who holds the ring's mutex
  outstanding,    \* outstandingJobsCount
  discarding,
  textures,       \* the registry: the texture installed under each name
  deferred        \* deferredTextureDestroy

jobVars == <<created, name, job, outstanding>>
ring == <<assetsReady, mutex, discarding>>
memory == <<image, staging>>
loaderVars == <<jobVars, ring, memory, textures, deferred>>

Textures == 1 .. MaxTextures
None == 0
NoName == "none"

LoaderInit ==
  /\ created = 0
  /\ name = [t \in Textures |-> NoName]
  /\ job = [t \in Textures |-> "none"]
  /\ image = [t \in Textures |-> "none"]
  /\ staging = {}
  /\ assetsReady = <<>>
  /\ mutex = "free"
  /\ outstanding = 0
  /\ discarding = FALSE
  /\ textures = [n \in Names |-> None]
  /\ deferred = {}

Jobs(stages) == {t \in Textures : job[t] \in stages}
JobReaches(t, from, to) == job[t] = from /\ job' = [job EXCEPT ![t] = to]

(* A worker whose pushLocked fails unwraps the error, with the mutex held.  *)
RingJammed == Jobs({"jammed"}) # {}

-----------------------------------------------------------------------------
(* Mutant: the job is not counted. *)
LoadTextureUncounted(n) ==
  /\ created < MaxTextures /\ ~discarding
  /\ created' = created + 1
  /\ name' = [name EXCEPT ![created'] = n]
  /\ job' = [job EXCEPT ![created'] =
               IF Cardinality(Jobs({"queued"})) < JobRoom THEN "queued" ELSE "refused"]
  /\ UNCHANGED <<outstanding, ring, memory, textures, deferred>>

(* loadRef and loadAsset.  The job is counted before it is dispatched; when  *)
(* the dispatch fails the count is left as it is.                            *)
LoadTexture(n) ==
  /\ created < MaxTextures /\ ~discarding
  /\ created' = created + 1
  /\ name' = [name EXCEPT ![created'] = n]
  /\ outstanding' = outstanding + 1
  /\ job' = [job EXCEPT ![created'] =
               IF Cardinality(Jobs({"queued"})) < JobRoom THEN "queued" ELSE "refused"]
  /\ UNCHANGED <<ring, memory, textures, deferred>>

(* The job, on one of the workers: read and stage the image, push the        *)
(* description, lower the count.                                             *)
StageImage(t) ==
  /\ JobReaches(t, "queued", "staged")
  /\ \A u \in Jobs({"queued"}) : t <= u
  /\ Cardinality(Jobs({"staged", "pushed"})) < NumWorkers
  /\ image' = [image EXCEPT ![t] = "allocated"]
  /\ staging' = staging \cup {t}
  /\ UNCHANGED <<created, name, outstanding, ring, textures, deferred>>

(* Mutant: the count is lowered before the description is pushed. *)
PushStagedUncounted(t) ==
  \/ /\ JobReaches(t, "staged", "pushed")
     /\ outstanding' = outstanding - 1
     /\ UNCHANGED <<created, name, ring, memory, textures, deferred>>
  \/ /\ mutex = "free" /\ Len(assetsReady) < RingRoom
     /\ JobReaches(t, "pushed", "done")
     /\ assetsReady' = Append(assetsReady, t)
     /\ UNCHANGED <<created, name, outstanding, mutex, discarding, memory, textures, deferred>>

PushStaged(t) ==
  /\ mutex = "free"
  /\ IF Len(assetsReady) < RingRoom
     THEN /\ JobReaches(t, "staged", "pushed")
          /\ assetsReady' = Append(assetsReady, t)
          /\ UNCHANGED mutex
     ELSE /\ JobReaches(t, "staged", "jammed")
          /\ mutex' = "worker"
          /\ UNCHANGED assetsReady
  /\ UNCHANGED <<created, name, outstanding, discarding, memory, textures, deferred>>

(* Mutant: only a job that was installed already is taken off the count. *)
FinishInstalledJob(t) ==
  /\ JobReaches(t, "pushed", "done")
  /\ outstanding' = IF t \in staging THEN outstanding ELSE outstanding - 1
  /\ UNCHANGED <<created, name, ring, memory, textures, deferred>>

FinishJob(t) ==
  /\ JobReaches(t, "pushed", "done")
  /\ outstanding' = outstanding - 1
  /\ UNCHANGED <<created, name, ring, memory, textures, deferred>>

-----------------------------------------------------------------------------
(* processEventInner.  The count is read without the mutex, which is then    *)
(* held until the ring is empty.                                             *)

(* Mutant: an asset that waits alone is left in the ring. *)
LockSeveralReady ==
  /\ Len(assetsReady) > 1 /\ mutex = "free"
  /\ mutex' = "systems"
  /\ UNCHANGED <<jobVars, assetsReady, discarding, memory, textures, deferred>>

LockReady ==
  /\ assetsReady # <<>> /\ mutex = "free"
  /\ mutex' = "systems"
  /\ UNCHANGED <<jobVars, assetsReady, discarding, memory, textures, deferred>>

(* One turn of the loop: copy to the image and wait, free the staging        *)
(* buffer, put the texture under its name in place of any other.             *)
InstallReady ==
  /\ mutex = "systems" /\ assetsReady # <<>>
  /\ LET t == Head(assetsReady)
     IN  /\ textures' = [textures EXCEPT ![name[t]] = t]
         /\ staging' = staging \ {t}
  /\ assetsReady' = Tail(assetsReady)
  /\ UNCHANGED <<jobVars, mutex, discarding, image, deferred>>

UnlockReady ==
  /\ mutex = "systems" /\ assetsReady = <<>>
  /\ mutex' = "free"
  /\ UNCHANGED <<jobVars, assetsReady, discarding, memory, textures, deferred>>

-----------------------------------------------------------------------------
(* updateTextureFromPixelsSync: the texture in use is put aside and a new    *)
(* one, uploaded at once, takes its name.                                    *)

(* Mutant: the texture put aside keeps its name. *)
UpdateTextureInPlace(n) ==
  /\ textures[n] # None /\ created < MaxTextures
  /\ created' = created + 1
  /\ name' = [name EXCEPT ![created'] = n]
  /\ image' = [image EXCEPT ![created'] = "allocated"]
  /\ deferred' = deferred \cup {textures[n]}
  /\ UNCHANGED <<job, outstanding, ring, staging, textures>>

UpdateTexture(n) ==
  /\ textures[n] # None /\ created < MaxTextures
  /\ created' = created + 1
  /\ name' = [name EXCEPT ![created'] = n]
  /\ image' = [image EXCEPT ![created'] = "allocated"]
  /\ deferred' = deferred \cup {textures[n]}
  /\ textures' = [textures EXCEPT ![n] = created']
  /\ UNCHANGED <<job, outstanding, ring, staging>>

(* The name has no texture yet: what the registry answers is unwrapped.      *)
NotLoaded(n) == textures[n] = None /\ UNCHANGED loaderVars

Destroy(ts) == image' = [t \in Textures |-> IF t \in ts THEN "destroyed" ELSE image[t]]

(* destroyDeferredDestroyTextures *)
DestroyDeferred ==
  /\ Destroy(deferred)
  /\ deferred' = {}
  /\ UNCHANGED <<jobVars, ring, staging, textures>>

-----------------------------------------------------------------------------
(* Shutdown, on the main thread. *)

(* Mutant: what is left in the ring is forgotten. *)
DiscardNothing ==
  /\ mutex = "free"
  /\ discarding' = TRUE
  /\ assetsReady' = <<>>
  /\ UNCHANGED <<jobVars, mutex, memory, textures, deferred>>

DiscardAll ==
  /\ mutex = "free"
  /\ discarding' = TRUE
  /\ LET left == {assetsReady[k] : k \in DOMAIN assetsReady}
     IN  Destroy(left) /\ staging' = staging \ left
  /\ assetsReady' = <<>>
  /\ UNCHANGED <<jobVars, mutex, textures, deferred>>

(* destroy_textures.  The lists of textures put aside are freed later, the   *)
(* textures in them are not.                                                 *)
DestroyTextures ==
  /\ Destroy({textures[n] : n \in Names})
  /\ UNCHANGED <<jobVars, ring, staging, textures, deferred>>
=============================================================================
