# NeonWood in TLA+

A verification project for NeonWood, a game engine in Zig. It models the parts
of the engine's own code in which order matters: the queue and the job system
everything runs on, the sparse sets and the entity registry every object lives
in, the references scripts hold to components, the logger that every thread writes
to, the renderer with its frames, textures and shutdown, and the tree of the
user interface. TLC checks the models on small instances, and TLAPS proves
every safety invariant of theirs, and that the detailed models implement the
abstract ones, for every value of the constants.

Paths below are relative to the repository's root.

## The system

`engine/neonwood.zig` starts the modules of a program in order, runs the engine
and shuts the modules down in reverse. The engine's own code is about 29,000
lines of Zig. Practically all C and C++ in the tree is vendored (Tracy, Dear
ImGui, Lua, GLFW, miniaudio, Vulkan's headers and its memory allocator, file
dialogs); none of it is part of this project, and every definition here
translates Zig.

The main thread starts the engine, dispatches one job that never ends until the
program does (the *systems thread*), and from then on polls the window every
millisecond and *bumps* the job manager. The systems thread ticks the engine:
it drains the events the main thread queued, processes the events of engine
objects, and ticks and draws them. Everything else that runs concurrently is a
job on a worker: flushing the log, loading a texture, drawing a frame.

| Component | State | Operations | Interacts with |
|---|---|---|---|
| Concurrent queue, `lib/p2/src/structures/concurrent-queue.zig` | two arrays, `head`, `tail`, all atomic but the data | `push`, `pop`, `count` | carries jobs, window events, dialog callbacks |
| Job manager, `engine/core/src/jobs.zig` | the queue, the workers; per worker its job, `busy`, `shouldDie`, a futex | `newJob`, `bump`, `destroy`, the worker's loop | everybody dispatches; the main loop bumps |
| Engine lifecycle, `engine/core/src/engine.zig`, `core.zig`, `engine/neonwood.zig` | lists of engine objects, `exitSignal`, `exitConfirmed` | `createObject`, `tick`, `run`, `exit`, `deinit` | owns the job manager and all engine objects |
| Sparse sets, `lib/p2/src/structures/sparse-set.zig` | a sparse array of handles, dense arrays of objects | create, create under a handle, get, destroy | entities, scene, renderer |
| Entity registry, `engine/core/src/ecs.zig`, `scene.zig` | the set of entities, the registered containers | create entities; add, destroy components; listeners | containers call its listeners |
| Component references, `engine/core/src/script/ComponentRef.zig` | a handle, a pointer, a count of changes | `luaNew`, `resolve` | containers' `getHandleRef`, `getStateCount` |
| Logger, `engine/core/src/logging.zig` | two buffers, a lock, `flushing` | `print`, `flush`, the flush job, `processEvents`, `deinit` | the job manager runs its flushes |
| Ring queue, `lib/p2/src/structures/ring-queue.zig` | a ring and a mutex | `pushLocked`, `lock`, pops | texture loader; the optional mutex job queue |
| Texture loading, `engine/graphics/src/vk_assetLoaders.zig`, `engine/assets/src/asset_references.zig` | a ring of staged textures, a count of outstanding jobs, the registry of textures, the list of those put aside | `loadAsset`, staging jobs, `processEvents`, `updateTextureFromPixelsSync`, `discardAll` | jobs, frames that read textures, renderer shutdown |
| Frame pacing, `engine/graphics/src/vk_renderer.zig`, `RenderThread.zig` | acquire semaphores and a spare one, fences, command buffers, the surface's size | acquire, record, submit, recreate the swapchain, shut down | the systems thread, the GPU, the main thread at the end |
| Platform events, `engine/platform/src/windowing.zig` | the event queue, a work buffer, listeners | callbacks push, `pumpEvents` | main thread to systems thread |
| Papyrus UI, `engine/papyrus/src/` | node pool, links, event handlers, button states, layout of the last draw | add and remove nodes, key and mouse events, `makeDrawList` | platform events, the game's handlers |
| Index pool, `lib/p2/src/structures/index-pool.zig` | slots, generations, a stack of dead indices | `new`, `get`, `destroy`, `isValid` | Papyrus |
| Paged vector, names, string pool | pages, the name table, reference counts | append, intern | the registry of names |
| File dialogs, `lib/nfd/src/nfd.zig` | one request, a queue of callbacks | request, `processMessages`, `processCallbacks` | main thread and systems thread |
| Memory tracker, packer, audio, pipelines, text rendering | counters, files, GPU objects | construction, copying, input and output | no protocol of their own |

What is hard to test in them:

- **Interleavings.** The queue's claims and publications; a worker going to
  sleep while a job is queued; print, flush and flush job around one lock; frames
  that are on the GPU while the next ones are recorded.
- **Failure half way.** A push that is refused after it has written; a dispatch
  that fails under the logger's lock; an allocation that fails between two
  halves of an insertion.
- **Order over a long run.** Handles that outlive their objects, generations
  that wrap, swap-removals that move other objects; containers, registry and
  script references that must agree after any sequence of operations; swapchain
  images that come in any order; a tree of widgets changed by the handlers it calls.
- **Ends.** The exit signal crosses three threads, workers are joined, jobs left
  over are freed, buffers left over are written, textures still on their way are
  waited for and discarded.

`PROJECT.json` lists these hazards line by line with the properties that cover
them, and says which are not covered yet.

What makes each component correct:

- queue: one consumer and one producer never race on a slot and see a FIFO, and
  their calls end; with more, nothing is delivered twice in the first turn of the
  ring, and pushes end; what was refused is gone (it is not: see the findings);
- jobs: what the ring hands out is held or freed as often as it was handed out; each
  context has one owner and every accepted job is taken up, as long as pushes do not overlap
  (the ring keeps neither when they do); the window's exit ends the systems thread; destroying
  the manager ends the workers and frees what came out of the ring;
- sparse sets: sparse and dense arrays name each other; a handle leads to its own
  object or to none;
- registry: the count of containers is exact whoever made the entity, and a removal
  finds the record it counts down; a reference gives its entity;
- logger: every line once, in a buffer or in the file, until `deinit` frees what a
  dropped flush left; while the engine runs, in the file in the end;
- frames: no two share a semaphore or a command buffer, none waits for a fence
  nobody signals;
- textures: none is destroyed under a frame recorded before it was put aside, the
  registry names live ones, every load a worker took settles, nothing but images that
  lost their name is leaked;
- user interface: an ordered tree whatever is removed where, no index given out
  twice, only the node under the mouse looks hovered.

## The modules

| Module | Models | Composes |
|---|---|---|
| `ConcurrentQueue` | the lock-free queue, one action per atomic access | `RetainingFifo` (refinement) |
| `RetainingFifo` | abstract: what the queue promises to one producer and one consumer | |
| `ConcurrentQueueProofs` | theorems about `ConcurrentQueue` | |
| `JobSystem` | job manager, workers, main loop, exit and teardown | `ConcurrentQueue` |
| `MCJobSystem` | the states of `JobSystem` that TLC tells apart | |
| `JobSystemProofs` | theorems about `JobSystem` | |
| `SparseSetOps` | a sparse set as a value, its operations as operators | |
| `SparseSetOpsProofs` | lemmas about those operators | |
| `SparseSet` | `SparseMultiSet` and its users | `SparseSetOps`, `HandleMap` (refinement) |
| `HandleMap` | abstract: a finite map from handles to objects | |
| `MCSparseSet` | the constants of `SparseSet` for TLC | |
| `SparseSetProofs` | theorems about `SparseSet` and the refinement | |
| `EcsRegistry` | entities, containers, counts, script references | one `SparseSetOps` value per container |
| `EcsRegistryProofs` | theorems about `EcsRegistry` | |
| `Logger` | `LoggerSys` and the life of its flush job | |
| `LoggerProofs` | theorems about `Logger` | |
| `FramePacing` | semaphores, fences, submissions, the window's size | |
| `TextureLoader` | loads, the staging job, the ring and its mutex, updates, discarding | |
| `Renderer` | the engine's tick, the workers, the GPU, the shutdown | `FramePacing`, `TextureLoader` |
| `RendererProofs` | theorems about `Renderer` | |
| `Papyrus` | the pool and tree of nodes, their listeners, the mouse pick, drawing | `WidgetTree` (refinement) |
| `WidgetTree` | abstract: an ordered tree, drawn depth first | |
| `PapyrusProofs` | theorems about `Papyrus` | |

### ConcurrentQueue

`data`, `status`, `head` and `tail` are the fields of the Zig struct; `push` and
`pop` hold the locals of a call in progress and `pc` its next atomic access. All
atomics are sequentially consistent or acquire/release around the same words, so
interleaving the accesses is enough. `data` is plain memory, which is what
`NoDataRace` is about. A push splits into begin (load `tail`), claim
(`cmpxchg` on the status, or skip on), write, the comparison with `head`,
publish (`cmpxchg` on `tail`) and the resolution of a lost race; a pop likewise.
The resolution of a lost race reads the other index in the same action, which
loses nothing for one call: it is read once per decision.

A value is the number of the push that carried it, so `delivered` and
`rejected` can be compared with what was pushed.

`RetainingFifo` is weaker than a FIFO on purpose. The code writes the value and
claims the slot before it discovers that the ring is full, so a refused value
may stay behind and enter the queue ahead of the next accepted one. The mapping
counts a slot as accepted from just after `head` up to `tail`, and as retained
from `tail` up to `head`, each in the order of the ring (`Held`); a value whose push or
pop is under way is mapped by where its thread is (`InProgress`, `Taken`).

### JobSystem

Jobs travel in the real ring: `Q` is an instance of `ConcurrentQueue` whose producers and
consumers are the roles of one set of threads (`Pusher(t)`, `Popper(t)`), since the main thread
and every worker both push and pop. A job is known by the number of the push that carried its
context, and 0 is the context of a slot nobody has written. `NewJob` and `PushJob` are `newJob`
with its error path: a job that does not fit is forgotten by its caller, and its context may be
in the ring all the same. A bump is four kinds of steps (the two loads of `count`, a look at one
worker's `busy`, a wake) because other threads run in between. The worker's loop is `check`,
`wait`, `asleep`, `grab`, `pop`, `running`. `Futex.wake` moves a sleeping worker on and does
nothing to the others, as in the code, where the futex word is never written. `MainLoop`,
`TeardownEnds`, `KillWorker`, `RouseWorker`, `JoinWorker`, `ClearJobs` and `ClearPops` are
the main thread's life after `Engine.run`. What the main thread polls and destroys may log and
so dispatch a flush (`MainDispatches`), and the systems thread may dispatch until it has
confirmed the exit.

The ring does not keep what a job system needs, and the model shows what comes of it. With
pushes that overlap an accepted context can be overtaken and left behind for good, be handed
out twice, and a slot be handed out that was never written; a refused one can be handed out
after all. The
same unwritten slot is popped without any overlap once the pushes come round to slot 0, the
slot `head` began at. `fate` records where the program leaves what its source says:

- `undefined`: a context is freed twice or one is used that nobody has written. What such a
  program does is not followed.
- `panicked`: `count` has read `head`, and a `tail` that is the same, and asserts
  (`concurrent-queue.zig:129`).
- `dangling`: a job that runs while `destroy` is at work has dispatched another, and its bump
  looks at a worker that is freed.

`overlapped` is history: two pushes have been under way at a time. `Orderly` says that they
have not, and that the ring is in its first turn, and is the condition under which the code
does what its callers expect (`JobOwnership`, `JobsAreServed`). The engine does not meet this
condition in general: every thread logs and so dispatches. `HandedIsHeldOrFreed` and
`NothingOutlivesDestroy` need no such condition: they speak of what the ring hands out,
whatever that is.

### SparseSetOps, SparseSet, HandleMap

`Put` is `createObjectInternal`, `Removed` is `destroyObject` with its swap and
tombstone, `Exists` and `Get` are `sparseToDense` and `get`. Indices of the
sparse array and positions in the dense arrays are counted from 0. The random
index of `createObject` is any free one. `Foreign` are handles of other sets:
`createWithHandle` is called with an entity's handle. `issued` is history:
the generations `createObject` gave each index.

### EcsRegistry

The base set and every container are values of `SparseSetOps`; adding to a
container includes the call of its listener, which the code makes inside
`createObjectInternal` and `destroyObject`. An entity's record is the number of
containers. `addComponent` checks nothing, and `Scene.getParent` returns an entity with
the null handle for an object at a root, so components are added under the handles
of entities and under the null handle (`Entities`). The listener then makes an entity of
it (`ecs.zig:223`), or, when another entity has the index of the null handle, its
`catch unreachable` stops the program with the object already in the container. A script's reference is a record of the
container, the handle, the count it was made with, and whether its pointer
points at its own handle or at the container's sparse entry. A failed unwrap
or `@panic` stops the program (`panicked`). `SparseSet`, the type of the base
set, keeps pairs of a value and an index where `SparseMultiSet` keeps parallel
arrays; the operators cover both, since a dense pair's index and the sparse
entry's generation make up the handle. Containers that create objects of their
own are left out: the source calls that unsafe and nobody does it.

### Logger

A section under the lock is one action, what `print` reads after releasing it is
another. `flushJob` is where the flush job is: queued, done writing but not yet
done clearing `flushing`, or nowhere. `locked` says that `flush` returned an
error with the lock held. `phase` follows the shutdown: the logger is unplugged,
the job manager drops what is queued, the logger writes one buffer and frees both.
What was in the second one then is lost unwritten (`lost`; `logging.zig:263`), which
happens when the manager has dropped a queued flush (`dropped`). Both are history.
Lines are numbers. A failing disk is not modelled.

### FramePacing, TextureLoader, Renderer

The default build, in which the systems thread draws. `FramePacing` and
`TextureLoader` define the handlers on the state of `vk_renderer.zig` and of the
loader; `Renderer` gives each to the thread that runs it. `pc` is the systems
thread's place in `Engine.tick` (eventors, ticks, then the steps of `draw`) and
`mainPc` the main thread's in `NeonVkContext.shutdown`.

`GetNextSwapImage` acquires any image, in any order, since only the presentation
engine knows which; it signals the spare semaphore and swaps it with the image's.
`WaitForFence` waits for the fence of that image and resets it. `FinishFrame`
submits, presents and looks at the window; `GpuFinish` completes the oldest
submission: it unsignals the semaphore that was waited on and signals the fence. The
semaphores on which presentation waits are left out: they are signalled and
consumed in pairs by the queue. A window's size is a number, 0 when it is minimised.

A texture is the number of the request for it. `job` follows `loadAsset`'s job:
queued, staged (its buffer is allocated), pushed, done; or refused, when
`dispatchJob` failed after the count was raised; or jammed, when `pushLocked`
failed with the mutex held. The upload of `processEvents` and of
`updateTextureFromPixelsSync` waits for a fence on the graphics queue, hence for
all earlier frames (`GpuIdle`). A `catch unreachable` that is reached is
`panicked`, as are an acquisition that is out of date and the use of a name
that has no texture. `DestroyLoaders` changes nothing here and stands for the
moment after which a job would use freed memory.

A frame does not look textures up by name, except for images of the user interface
(`PapyrusIntegration.zig:478`). A render object keeps the set it was given
(`setRenderObjectTexture`, `bound` in the model), the user interface its default set
(`:234`), and nobody tells them when an update frees the set with its texture. A submission
therefore carries what it reads (`Drawn`), and which of it had been put aside or
destroyed before the frame was recorded (`dangling`). The model shows both: an object whose
texture is updated is drawn with a set that `destroyDeferredDestroyTextures` frees in the
same `draw`, while the frame is on the GPU, and with a freed set in every frame after it.
That is a defect of the code, which `FramesReadLiveTextures` excludes and therefore names:
nothing else may be destroyed under a frame.

### Papyrus, WidgetTree

`active`, `generations` and `dead` are the index pool's. A node holds the five
links of the code. The null handle is the root's, as in the code, so that
`removeFromParent`, which writes through the handles of missing neighbours,
writes into the root: `Unlink` does the same. `RemoveNode` is the whole of
`removeFromParent`: the kill list from before the unlinking, the links, the
destruction of every node, the removed node's own listeners. `Link` is
`setParent` for a node that has no parent yet; the program never moves one that
has. A frame is `OnKey` any number of times, `Pick` and `LeaveLast` (the two
events `MousePick.tick` may send), `TickDebug`, and `MakeDrawList` or none when
the window is minimised. The game's handlers act between these (`pc` in
`"over"`, `"off"`), which is where a callback could pull a node from under its
caller. Which node is under the mouse is left open among those of the last
layout.

The game may use any handle it has been given, also one whose node is gone (`Kept`). With
such a parent an add takes a node from the pool before `setParent` finds the parent missing
(`FailToAdd`; `papyrus.zig:536`, `:568`, `:645` before `:576`). The node stays in the pool for
ever, has the root as parent by default, is in no list of children, has no listeners if it is
a button, and nobody was told its handle: `lost` collects these. So the tree is `InTree`, the
live nodes that are not lost, and the properties of the tree speak of it: a link never leads to
a lost node. Generations count modulo `Generations` (`NextGeneration`, 256 in the code). After
a whole cycle at an index (`turns`, a history variable) a kept handle of the first node there
names the newest, and listeners that a removed node's child left behind are called for it:
`ListenersAreOwn` says exactly when that may begin. One thing is not followed: a handle kept for
a whole cycle may name a lost node, or the very node being added, which would then be linked
under itself. The model stops there (`GoAstray`), since the walks of the code need not end
on such links.

`WidgetTree` knows sequences of children and nothing of links: a new widget is
the last child, a removed one takes with it what it contains (`Within`, the
least set closed under children), an add may fail and lose a handle for good, no two widgets
have a handle at a time, and a draw shows the tree depth first. `DepthFirst` says so without a
walk: each widget drawn is followed
at once by all it contains, and a child comes before the next.

## The runs

| Run | Question | Bounds | States |
|---|---|---|---|
| `queue_spsc` | one producer, one consumer: races, FIFO, progress | ring of 4, 6 pushes | the ring turns more than once, fills, and refuses |
| `queue_contended` | two consumers or two producers: double delivery, retry loops | ring of 4, 4 pushes | 314,106; each kind of lost race occurs |
| `queue_two_producers` | finding: `tail` meets `head` | ring of 7, 3 pushes | |
| `queue_rejected` | finding: a refused value is delivered | ring of 4, 6 pushes | |
| `jobs` | ownership, wakeups, exit, teardown | 2 workers, 3 jobs, ring of 4 | 368,188 (seen through `LiveState`) |
| `jobs_shutdown` | finding: a lost wake hangs shutdown | 1 worker, 1 job | |
| `sparse_set` | links, stale handles, refinement | 3 indices, generations modulo 2, 2 values, 3 creations per index | 53,190 |
| `ecs` | counts and links over two containers | 3 indices and the null handle, 3 operations per container | 1,250,000 |
| `ecs_refs` | finding: a reference names another entity | 1 container, 4 operations | |
| `logger` | no line doubled, none lost but by a dropped flush, lines reach the file | 2 printers, 5 lines, overflow above 1 line | 4,887 |
| `renderer` | frames apart, nothing destroyed under a frame, loads settle, shutdown waits and ends | 2 images, a window shown or minimised, 1 name, 2 textures, 1 object, 2 workers, rooms of 1 | 349,032 |
| `papyrus` | the tree is whole and ordered, hover and listeners follow the nodes | 3 nodes, slots and buttons, generations modulo 2, 6 operations | 239,550 |

Why the bounds are enough to be interesting: in `queue_spsc` six pushes over four
slots wrap both indices and reach a full ring with a claimed slot in front of
it. In `jobs` two workers make the choice of the worker to wake matter, and three jobs in a
ring of four slots are the fewest that let the pushes of three threads overlap; one can be refused, and each of the
anomalies of overlapping pushes above occurs. So do orderly pushes, of which the conditional
properties speak. For pushes to come round to slot 0 this ring is one slot too long; in a ring of
three the same three jobs do, and an unwritten slot is handed out, but none is handed out
twice. TLC tells its states apart by
`LiveState`, which leaves out the locals of calls that have returned and the order of
`delivered`. That is sound: no step reads such locals before it has set them, a step reads of
`delivered` only what it appends, and the properties read how often each context is in it.
In `sparse_set` three creations at an index go past the wrap
of a generation counted modulo 2 (127 in the code), and two foreign handles of
one index differ by their generation. In `ecs` the last, the only and a middle
object can be the one destroyed. In `logger` an overflow can meet an empty and a
pending second buffer. In `renderer` two images, acquired in any order, already
use the spare semaphore in both places and let one frame be recorded while
another is in flight; two textures of one name are a load that is overtaken by a
load or an update; and with room for one in the ring and in the job queue both
can overflow. One window size beside the minimised one suffices, because a frame may be
found out of date at any size. In `papyrus` three nodes are a parent with two children or a chain
of three, so every position of a removed node occurs; six operations are enough for adds that
fail, for an index to go through both generations and for a button to inherit what a child
left behind. A panel is for the model a button without listeners, so slots and
buttons are enough. `CHECK_DEADLOCK` is off because each model ends: pushes,
jobs, operations and lines are bounded, and programs shut down or panic.

The bounds are named constants: `MaxPushes`, `MaxJobs`, `MaxCreates`, `MaxOps`,
`MaxLines`, `MaxTextures`, `NumNodes`. `JobRoom`
and `Capacity` (4096 in the code), `RingRoom` (1024), `NumWorkers`, `OpLimit` (2^32 in the code), `Generations`
(127 for the sparse sets, 256 for the pool of nodes) and `NumIndices`
(262,144) are parameters of the code, made small.

### Fairness

- Queue: a thread inside `push` or `pop` keeps running, and a consumer calls
  `pop` again and again, as `pumpEvents` does every frame. Nobody has to push.
- Jobs: threads run and a job's function returns; the systems thread returns
  only after the exit signal. Spurious returns of `Futex.wait` are possible and
  never assumed, and nobody has to dispatch or to close the window. `JobsAreServed` assumes
  in its statement that each call of `pop` returns, which fairness does not give (see below
  the findings), and speaks of orderly pushes: of others the ring may lose some.
- Logger: threads run, the systems thread calls `processEvents` every frame, and
  a job that was dispatched is run until the exit is confirmed. This is an assumption about
  the job system: `JobsAreServed` says it of orderly pushes only. If the ring loses the flush
  job, `flushing` stays set, no later flush does anything, and its lines are never written.

- Renderer: the systems thread, the main thread, the workers and the GPU each keep
  going while the program runs; workers with the job they have. That a queued job is
  taken is not assumed (`Takes` has no fairness): the job queue may lose it, and from
  the end of the main loop on nobody bumps, so a job whose wake was lost stays where it is.
  `LoadsSettle` therefore speaks of the loads that were taken, until the exit signal, and
  `ShutdownEnds` of a shutdown in which there comes a time without jobs that are refused or not
  taken. With one, shutdown spins on the count for ever (`vk_renderer.zig:2535`).
  The game owes no loads, and the user need not close the window. A program
  that stopped on an error owes nothing.

All of it is weak fairness of the steps of a thread. `Papyrus` claims no liveness.

## Findings

1. `queue_two_producers`: with two producers `tail` can be set back onto `head`,
   which `count` asserts never happens (`concurrent-queue.zig:129`).
2. `queue_rejected`: an event refused with `QueueIsFull` may be delivered later,
   where `windowing.zig:368` says it is dropped.
3. `jobs_shutdown`: a worker that has tested `shouldDie` and not yet reached the
   futex misses the one wake it is sent, and `destroy` joins it forever
   (`jobs.zig:159`, `:169`, `:198`).
4. `ecs_refs`: once its container has changed, a multi-set reference resolves to
   the container's sparse entry, whose index is a dense position, and the call
   works on another entity (`ComponentRef.zig:70`, against `scene.zig:239`).

What the runs do not show of the queue, because it fails beyond one turn of the
ring or beyond one consumer:

- `NoDoubleDelivery` needs its condition on the number of pushes. In a ring of 3 or 4
  slots with 8 pushes a pop that has been overtaken reads its slot after a push has
  come round and rewritten it, and the value is delivered twice.
- `CallsReturn` fails for two consumers and one producer, from a ring of 3 slots and 3
  pushes on. A pop that has found the queue not empty at `head` 0 is preempted;
  the other consumer moves `head` to 1, and a push that scans past the slots taken
  before claims slot 0. The first pop takes slot 0, fails to move
  `head` from 0 to 1, and finds that `head` is what it wanted it to be: of the tests at
  `concurrent-queue.zig:111` and `:116` neither allows for that, and it
  expects 0 forever, although nobody else is under way and the queue is called
  lock-free (`:25`). The workers of the job system all pop one queue.
  `RetriesEnd` says what is left: pushes return, and pops do while there is one
  consumer.

## Theorems

Every invariant and every refinement that a passing run checks, but `JobOwnership`, is also a
theorem, for every value of the constants that the assumptions allow. All but a few of these invariants
are not inductive as they stand; what is added to each is named below and
defined in its `...Proofs` module (in `ConcurrentQueue` and `SparseSet` for two
of them). In each module there is one lemma for the initial state, one per
action or family of actions, and one that puts them together.

`ConcurrentQueueProofs`

- `TypeCorrect`: every index a thread holds is an index of the arrays, for any
  threads, capacity and number of pushes. The arithmetic is in `SlotLemma` (the
  successor of a slot is a slot).
- `SingleUserSafe` and `TailStaysApart`: with one producer and one consumer,
  `NoDataRace` and `TailNeverHead`. `NoDataRace` is not inductive: a step that
  writes a slot knows nothing of the pop. The invariant says where each side works.
  Measured around the ring, a push's index is between `tail` and `head` and a
  pop's between `head` and `tail` (`PushInv`, `PopInv`), with the slot at `head`
  itself always free; a lost race cannot happen. The hypothesis that there is one
  of each is how the event and dialog queues are used, and the first finding shows
  that it is needed.
- `DeliveredOnce`: `NoDoubleDelivery`, for any producers and consumers; the
  property itself speaks of states in which no more values have been pushed than the
  ring has slots, by one thread. In that turn (`TurnInv`) the m-th claim is of the m-th
  slot, so none is claimed twice; each claimed slot is taken by one pop; pops keep
  behind `tail`, where everything claimed has been written. The slot `head` begins at is
  the last of the turn and the exception: a pop that started before the ring filled
  may take it before it is written, and then returns what `alloc` left there, once.
- `ImplementsFifo`: `Spec => RefinesFifo` with one producer and one consumer, for any
  capacity, any number of pushes and of turns of the ring. On top of `PushInv` and
  `PopInv`, `Ring` says which slots are claimed: of the free ones, from `tail` on, the
  first r, and of those in use all but the one being taken. So the retained values are
  those of a run of slots that ends just before the push's own, a publication
  (`PushPublishRing`) appends exactly them and the new value, a refusal after
  writing (`PushFullRing`) can only happen when the run has reached `head`, and
  a pop never skips a value (`PopSkipsRing`, `PopTakesRing`). r is not a variable of
  the code, so the invariant is that some r is right. All other steps leave the
  abstract queue alone (`Unseen`).

`JobSystemProofs`

- `TypeCorrect`: the types of the manager, the workers and the ring, for any number of workers
  and jobs and any room, with any interleaving of pushes and pops. What the ring carries is the
  number of a job, or 0 where nothing was written, which is what makes `released` and
  `current` well typed (`Typed`).
- `HandOutsAreKept`: `HandedIsHeldOrFreed`, until a context is freed twice or used unwritten,
  and however the ring hands contexts out. What is needed on top is where a worker has
  nothing in its hands, so that a pop overwrites none (`WorkerInv`). The counting is done once,
  in the lemmas on what appending to `delivered` and changing one worker's `current` do to the two
  cardinalities.
- `DestroyIsComplete`: `NothingOutlivesDestroy`. `MainInv` follows the loop of
  `destroy`: the workers before the one it has come to are joined and freed, and a freed
  worker is dead and holds nothing. So what was handed out is nobody's, and by the count it is
  freed. It says nothing of contexts that never left the ring: those can be lost.

`SparseSetOpsProofs` proves what `Put`, `Written` and `Removed` do to a linked set of
any values: it stays linked, which handles are found afterwards and with which
value. `SparseSetProofs` and `EcsRegistryProofs` rest on it.

`SparseSetProofs`

- `TypeCorrect` and `LinksKept`: the types and `CrossLinked`, whose conjunction is
  inductive. `CrossLinked` alone is not, since positions must be naturals for the
  swap to stay in range. The delicate case is the removal of a position that may
  or may not be the last.
- `Implements`: `Spec => RefinesHandleMap`, for any indices, generations, values
  and foreign handles. Each action is a step of `HandleMap`, with `LinksKept`
  supplying the hypothesis of the lemmas about handles.
- `StaleStayDead`: `StaleHandlesAreDead`. The generations issued at an index are
  consecutive modulo `Generations` and the entry has the last of them
  (`GenerationsCount`); two of them are equal only a whole cycle apart.

`EcsRegistryProofs`

- `TypeCorrect`, `LinksKept` and `CountsAreRight`: `TypeOK`, `SetsLinked` and
  `CountsMatch` for any finite set of containers, entities and script references. The three
  are inductive together: an unlinked set could give a component to two entities, a
  wrong count could destroy an entity a container still holds. A count is the
  cardinality of the set of containers that have the entity, which one step changes by one.
  Handles nobody created are not excluded: `AddKeeps` has a case for the entity the
  listener makes of one and one for the listener that fails.

`LoggerProofs`

- `TypeCorrect`, `EachLineIsSomewhere` and `BufferNotForgotten`: for any printing threads
  and buffer size, `EachLineOnce` and `PendingHasItsJob`. `LinesKept` counts the
  lines in the file, the two buffers and those freed separately, so that moving one
  buffer behind another changes neither the sum nor what is held. `PhaseInv` says
  that once the jobs are dropped nobody flushes, so that `deinit` finds lines in the
  second buffer only if a flush was dropped.

`RendererProofs`

- `TypeCorrect`: the types, with `outstanding` never negative. The type of a
  count that is only lowered by `FinishJob` is not inductive; that it is the
  number of jobs not yet finished (`CountInv`) is.
- `SemaphoresAreApart` and `FramesAreApart`: `SpareSemaphoreIsIdle` and
  `FrameSlotIsFree`, for any number of images. The invariant (`SyncInv`) says that
  the spare semaphore and those of the images are all different, that a frame in
  flight waits for the semaphore of its image, or for the spare one once its image
  has been acquired again, that a semaphore is pending only for a frame in flight
  or the one being recorded, and that a fence is reset only for such a frame. The
  delicate step is the acquisition of an image whose frame is still in flight.
- `TexturesLive` and `NamesLive`: `FramesReadLiveTextures` and `RegistryIsLive`,
  for any loads and updates. The invariant relates jobs, staging buffers, ring and
  registry (`DataInv`); of what a frame in flight reads only what dangled when it was
  recorded is put aside (`FramesInv`), since a texture is put aside only when no frame is
  in flight; the set an object keeps is that of a texture that was made (`KeptInv`).
- `JobsAreOver` and `ShutdownIsClean`: `JobsEndBeforeDiscard` and
  `OnlyUnnamedImagesLeak`, from the count being exact and from what each phase of
  the shutdown has reached (`CountInv`, `PhaseInv`, `LiveInv`).

`PapyrusProofs`

- `TypeCorrect`, `DeadAreHoles`, `ChildrenStayLinked`, `OwnListeners`,
  `OneNodeShows`: the five invariants of the user interface, for any number of nodes and
  generations. That links agree with their neighbours is not inductive: in a
  cycle of links that agree, the walk that collects what `removeFromParent` destroys
  would not end, and it destroys a node met twice twice. The invariant is that
  the links of the nodes of the tree are a *forest*: some function to the naturals falls along
  every child and next link (`LinkInv`). From it follow that the walk exists, that it
  meets exactly what is below and behind a node, and each node once
  (`WalkExists`, `WalkVisits`, `WalkInjective`); that destroying what it met leaves the
  free indices in the dead stack once each (`RemoveFacts`); and that the links written
  by a removal or an insertion, also those written into the root through null
  handles, leave a forest (`ForestWithout`, `ForestWith`). A node made by an add that fails
  changes no link of the tree (`FailFacts`). `EventInv` adds that a
  button that is not normal is the selected one or the one just left, and that a handle whose
  turn has not come in the first cycle of its index has no listeners yet (`NoListenersYet`).
- `ImplementsTree`: `Spec => RefinesTree`. The children of a widget are the one
  sequence that follows the next links from its node's child (`ChainUnique`); it holds
  exactly the nodes with that parent and ends at the node's end link (`ChildrenFacts`), so
  an insertion appends to it (`ChildrenWith`) and a removal takes one element out
  (`ChildrenWithout`). What the abstract removal takes away, the least set closed under
  children, is what the walk of `removeFromParent` collects (`FamilyIs`), which is why no
  node is left behind without a parent. A draw visits the nodes depth first since
  on a walk each node is followed by all that is below it (`WalkEncloses`) and comes
  before its next sibling (`WalkFollows`).

The walk is a recursive function over handles, and what it computes is
proved by induction. The library's induction theorems take an operator as their
parameter, which the installed provers cannot instantiate; `Induction` and
`Iteration` in `PapyrusProofs` state induction over the naturals and the existence of a
repeated step for sets and functions instead, from the well-foundedness of the order.

The assumptions on constants are in the modules that declare them and TLC
evaluates them in the runs. Numbers of slots, images, window sizes, textures, indices
and workers are positive, and there is more than one generation; producers and
consumers are different threads; the registry has finitely many containers
(`ContainersAssumption`). Of the bounds that are there for TLC (`MaxPushes`,
`MaxLines`, `MaxOps`...) it is assumed that they are natural numbers.

Only model-checked are `JobOwnership`, which needs an invariant of the whole ring under lone
pushes of different threads, and liveness, which is out of the prover's reach: `CallsReturn`, `RetriesEnd`,
`AcceptedIsDelivered`, `JobsAreServed`, `ExitIsConfirmed`, `LinesReachTheFile`,
`LoadsSettle`, `ShutdownEnds`.

## Not modelled

- Vulkan, OpenGL, audio, text and layout: construction of data for libraries.
- The vendored C and C++ libraries, which outweigh the engine's code many times.
- The renderer's `use_renderthread` build, off by default, with its draw jobs,
  `framesInFlight` and second ring of textures; meshes, which load synchronously.
- The GPU at shutdown: the two `deviceWaitIdle` calls there are commented out
  (`vk_renderer.zig:2547`, `:2576`), so nothing is promised about what the last
  frames read, and `FramesReadLiveTextures` ends with the discard.
- A fence that times out: the result of the wait is ignored (`:1253`), and the
  model takes the GPU to be faster than the timeout.
- A surface recreated with another number of images: the code sizes everything by
  `NumFrames` and checks nothing.
- Papyrus' text entries, `setParent` for a node that has a parent (nobody calls
  it so), disabled buttons, hidden nodes and z-order, which nothing sets.
- The memory order of single atomics below sequential consistency, and
  allocation failures, which most of the code turns into `unreachable`.
- The `mutex_job_queue` build, off by default.
- `SparseMap`, the registration and eviction of containers, the systems' list.
- The components `PROJECT.json` marks as not modelled, with their reasons.

## Plan

In this order, the behaviour that matters most first.

1. `ConcurrentQueue`, refinement to `RetainingFifo`, theorems. Done.
2. `JobSystem`, with the engine's main loop and teardown, theorems. Done.
3. `SparseSetOps`, `SparseSet`, refinement to `HandleMap`, theorems. Done.
4. `EcsRegistry` and `Logger`, theorems. Done.
5. `FramePacing`, `TextureLoader` and their composition `Renderer`, theorems.
   Done.
6. `Papyrus`, refinement to `WidgetTree`, theorems. Done.
7. Not begun: registration of engine objects with its partial failures and the
   order of their destruction; the event pump's listeners; `SparseMap`; paged
   vectors, names and the string pool as values with reference definitions.
