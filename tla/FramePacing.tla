----------------------------- MODULE FramePacing -----------------------------
(***************************************************************************)
(* How one frame after another is given to the GPU in the default build:   *)
(* the acquire semaphores and the spare one they are swapped with, one     *)
(* command buffer and one fence per swapchain image, and a window that is  *)
(* resized, minimised and restored meanwhile.                              *)
(*                                                                         *)
(* The steps of draw are actions here; Renderer says in which order the    *)
(* systems thread takes them.                                              *)
(***************************************************************************)
EXTENDS Integers, Sequences, FiniteSets

CONSTANTS
  NumFrames,  \* swapchain images, command buffers, fences
  MaxSize     \* sizes a window can have; 0 stands for a minimised window

ASSUME NumFramesAssumption == NumFrames \in Nat \ {0}
ASSUME MaxSizeAssumption == MaxSize \in Nat \ {0}

VARIABLES
  extraSemaphore,     \* the semaphore the next acquisition signals
  acquireSemaphores,  \* the one the last acquisition of each image signals
  pending,            \* semaphores signalled, or to be, and not yet waited on
  fences,             \* fences that are signalled
  gpu,                \* submissions the GPU has not finished, in order
  nextFrameIndex,     \* the image acquired last
  window,             \* what glfwGetWindowSize would say
  extent,             \* the size the renderer works with
  isMinimized

syncs == <<extraSemaphore, acquireSemaphores, pending, fences, gpu, nextFrameIndex>>
surface == <<extent, isMinimized>>
paceVars == <<syncs, window, surface>>

Images == 0 .. NumFrames - 1
Semaphores == 0 .. NumFrames
Sizes == 0 .. MaxSize

PaceInit ==
  /\ acquireSemaphores = [i \in Images |-> i]
  /\ extraSemaphore = NumFrames
  /\ pending = {}
  /\ fences = Images
  /\ gpu = <<>>
  /\ nextFrameIndex = 0
  /\ window = 1 /\ extent = 1
  /\ isMinimized = FALSE

GpuIdle == gpu = <<>>

InFlight(i) == \E k \in DOMAIN gpu : gpu[k].image = i

-----------------------------------------------------------------------------
(* acquire_next_frame *)

(* Mutant: the semaphores are not swapped. *)
GetNextSwapImageKeepingSpare(i) ==
  /\ nextFrameIndex' = i
  /\ pending' = pending \cup {extraSemaphore}
  /\ UNCHANGED <<extraSemaphore, acquireSemaphores, fences, gpu, window, surface>>

(* The presentation engine may hand out any image, still showing or being   *)
(* drawn, as long as the semaphore tells when it is free.                   *)
GetNextSwapImage(i) ==
  /\ nextFrameIndex' = i
  /\ pending' = pending \cup {extraSemaphore}
  /\ extraSemaphore' = acquireSemaphores[i]
  /\ acquireSemaphores' = [acquireSemaphores EXCEPT ![i] = extraSemaphore]
  /\ UNCHANGED <<fences, gpu, window, surface>>

(* Only a surface that is no longer the swapchain's can be out of date.     *)
AcquireOutOfDate == window # extent /\ UNCHANGED paceVars

(* Mutant: the fence is reset without having been waited for. *)
ResetFence ==
  /\ fences' = fences \ {nextFrameIndex}
  /\ UNCHANGED <<extraSemaphore, acquireSemaphores, pending, gpu, nextFrameIndex, window, surface>>

WaitForFence ==
  /\ nextFrameIndex \in fences
  /\ fences' = fences \ {nextFrameIndex}
  /\ UNCHANGED <<extraSemaphore, acquireSemaphores, pending, gpu, nextFrameIndex, window, surface>>

-----------------------------------------------------------------------------
(* finish_frame, and the branch of draw for a minimised window *)

Submission(reads, dangling) ==
  [image |-> nextFrameIndex, semaphore |-> acquireSemaphores[nextFrameIndex],
   reads |-> reads, dangling |-> dangling]

(* Submits what was recorded, presents, and looks at the window: a swapchain *)
(* that no longer fits is to be made anew, a minimised window is noted.      *)
MustRecreate(outOfDate) == (outOfDate \/ extent # window) /\ window # 0

FinishFrame(reads, dangling, outOfDate) ==
  /\ gpu' = Append(gpu, Submission(reads, dangling))
  /\ extent' = IF MustRecreate(outOfDate) THEN window ELSE extent
  /\ isMinimized' = IF window = 0 THEN TRUE ELSE IF MustRecreate(outOfDate) THEN FALSE ELSE isMinimized
  /\ UNCHANGED <<extraSemaphore, acquireSemaphores, pending, fences, nextFrameIndex, window>>

DrawMinimized ==
  /\ isMinimized
  /\ extent' = window
  /\ isMinimized' = (window = 0 \/ extent = window)
  /\ UNCHANGED <<syncs, window>>

(* deviceWaitIdle, then a new swapchain with as many images.  Semaphores     *)
(* and fences stay.                                                          *)
RecreateSwapchain == GpuIdle /\ UNCHANGED paceVars

-----------------------------------------------------------------------------
(* The GPU executes submissions in order; the window system does as it likes. *)

GpuFinish ==
  /\ ~GpuIdle
  /\ gpu' = Tail(gpu)
  /\ fences' = fences \cup {Head(gpu).image}
  /\ pending' = pending \ {Head(gpu).semaphore}
  /\ UNCHANGED <<extraSemaphore, acquireSemaphores, nextFrameIndex, window, surface>>

WindowResized(size) ==
  /\ window' = size
  /\ size # window
  /\ UNCHANGED <<syncs, surface>>
=============================================================================
