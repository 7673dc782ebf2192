-------------------------------- MODULE Logger --------------------------------
(***************************************************************************)
(* LoggerSys: threads append lines to one buffer under a lock; the buffer  *)
(* is swapped with a second one that a job writes to the file, or written  *)
(* out on the spot when it overflows while a swap is pending.  A section   *)
(* under the lock is one action; what is read outside it is another.       *)
(***************************************************************************)
EXTENDS Integers, Sequences

CONSTANTS
  Printers,        \* threads that print; each runs in a job
  SystemsThread,   \* the one among them that ticks the frames
  LogBufferSize,   \* lines the buffer may hold before print flushes it
  MaxLines         \* bound on the lines printed

ASSUME ThreadAssumption == SystemsThread \in Printers
ASSUME SizeAssumption == LogBufferSize \in Nat /\ MaxLines \in Nat

VARIABLES
  writeOutBuffer, flushBuffer,
  file,        \* the lines written to the log file, in order
  printed,     \* lines printed so far; a line is its number
  flushing,
  flushJob,    \* the job dispatched by flush: "none", "queued" or "written"
  locked,      \* the lock was left held by a call that returned an error
  pc,          \* what each printer does next
  phase,       \* of the engine's life, as far as the logger can tell
  dropped,     \* history: the job manager has dropped a flush job
  lost         \* history: the lines in the buffers deinit freed

buffers == <<writeOutBuffer, flushBuffer, file, printed>>
ends == <<phase, dropped, lost>>
vars == <<buffers, flushing, flushJob, locked, pc, ends>>

Init ==
  /\ writeOutBuffer = <<>> /\ flushBuffer = <<>> /\ file = <<>>
  /\ printed = 0
  /\ flushing = FALSE
  /\ flushJob = "none"
  /\ locked = FALSE
  /\ pc = [t \in Printers |-> "idle"]
  /\ phase = "running" /\ dropped = FALSE /\ lost = <<>>

Goto(t, from, to) == pc[t] = from /\ pc' = [pc EXCEPT ![t] = to]

-----------------------------------------------------------------------------
(* The three sections under the lock. *)

(* Mutant: a pending flush is not waited for. *)
FlushOverwrites ==
  /\ ~locked
  /\ flushing' = TRUE
  /\ flushJob' = "queued"
  /\ flushBuffer' = writeOutBuffer
  /\ writeOutBuffer' = <<>>
  /\ UNCHANGED <<file, printed, locked>>

(* Swap and dispatch, unless a flush is under way.  When the job cannot be  *)
(* dispatched, flush returns the error with the lock held.                  *)
Flush ==
  /\ ~locked
  /\ \/ flushing /\ UNCHANGED <<buffers, flushing, flushJob, locked>>
     \/ /\ ~flushing
        /\ flushing' = TRUE
        /\ writeOutBuffer' = flushBuffer
        /\ flushBuffer' = writeOutBuffer
        /\ \/ flushJob' = "queued" /\ UNCHANGED locked
           \/ locked' = TRUE /\ UNCHANGED flushJob
        /\ UNCHANGED <<file, printed>>

FlushWriteBuffer ==
  /\ ~locked
  /\ file' = file \o writeOutBuffer
  /\ writeOutBuffer' = <<>>
  /\ UNCHANGED <<printed, flushing, flushJob, locked>>

(* Mutant: the buffer is written and not cleared. *)
FlushFromJobKeeps ==
  /\ ~locked /\ flushJob = "queued"
  /\ flushJob' = "written"
  /\ file' = file \o flushBuffer
  /\ UNCHANGED <<writeOutBuffer, flushBuffer, printed, flushing, locked, pc, ends>>

FlushFromJob ==
  /\ ~locked /\ flushJob = "queued"
  /\ flushJob' = "written"
  /\ file' = file \o flushBuffer
  /\ flushBuffer' = <<>>
  /\ UNCHANGED <<writeOutBuffer, printed, flushing, locked, pc, ends>>

(* Mutant: the job does not say that it is done. *)
FlushJobForgets ==
  /\ flushJob = "written"
  /\ flushJob' = "none"
  /\ UNCHANGED <<buffers, flushing, locked, pc, ends>>

FlushJobEnds ==
  /\ flushJob = "written"
  /\ flushJob' = "none"
  /\ flushing' = FALSE
  /\ UNCHANGED <<buffers, locked, pc, ends>>

-----------------------------------------------------------------------------
(* print: append, then two looks at the buffers without the lock. *)

PrintAppends(t) ==
  /\ phase = "running" /\ ~locked
  /\ printed < MaxLines
  /\ Goto(t, "idle", "printed")
  /\ printed' = printed + 1
  /\ writeOutBuffer' = Append(writeOutBuffer, printed')
  /\ UNCHANGED <<flushBuffer, file, flushing, flushJob, locked, ends>>

LookAtWriteOut(t) ==
  /\ Goto(t, "printed", IF Len(writeOutBuffer) > LogBufferSize THEN "overflow" ELSE "idle")
  /\ UNCHANGED <<buffers, flushing, flushJob, locked, ends>>

LookAtFlush(t) ==
  /\ Goto(t, "overflow", IF flushBuffer = <<>> THEN "flush" ELSE "write")
  /\ UNCHANGED <<buffers, flushing, flushJob, locked, ends>>

Overflow(t) ==
  \/ Goto(t, "flush", "idle") /\ Flush /\ UNCHANGED ends
  \/ Goto(t, "write", "idle") /\ FlushWriteBuffer /\ UNCHANGED <<flushBuffer, ends>>

(* processEvents, once a frame, looks at the buffer without the lock. *)
ProcessEvents ==
  /\ phase = "running"
  /\ writeOutBuffer # <<>>
  /\ Goto(SystemsThread, "idle", "flush")
  /\ UNCHANGED <<buffers, flushing, flushJob, locked, ends>>

-----------------------------------------------------------------------------
(* Shutdown: the logger is unplugged, the job manager joins its workers and *)
(* drops the jobs left, and the logger writes one buffer and frees both.    *)

ShutdownLogging ==
  /\ phase = "running"
  /\ phase' = "unplugged"
  /\ UNCHANGED <<buffers, flushing, flushJob, locked, pc, dropped, lost>>

JobsDestroyed ==
  /\ phase = "unplugged"
  /\ \A t \in Printers : pc[t] = "idle"
  /\ flushJob \in {"none", "queued"}
  /\ phase' = "jobless"
  /\ flushJob' = "none"
  /\ dropped' = (flushJob = "queued")
  /\ UNCHANGED <<buffers, flushing, locked, pc, lost>>

(* What is in the second buffer is freed with it, unwritten. *)
Deinit ==
  /\ phase = "jobless"
  /\ phase' = "closed"
  /\ FlushWriteBuffer
  /\ flushBuffer' = <<>>
  /\ lost' = flushBuffer
  /\ UNCHANGED <<pc, dropped>>

-----------------------------------------------------------------------------

PrinterStep(t) == LookAtWriteOut(t) \/ LookAtFlush(t) \/ Overflow(t)
JobStep == FlushFromJob \/ FlushJobEnds

Next ==
  \/ \E t \in Printers : PrintAppends(t) \/ PrinterStep(t)
  \/ ProcessEvents \/ JobStep
  \/ ShutdownLogging \/ JobsDestroyed \/ Deinit

Spec == Init /\ [][Next]_vars

(* Threads run, frames are ticked, and a worker takes the job dispatched.   *)
FairSpec ==
  /\ Spec /\ WF_vars(ProcessEvents) /\ WF_vars(JobStep)
  /\ \A t \in Printers : WF_vars(PrinterStep(t))

-----------------------------------------------------------------------------

Lines == 1 .. MaxLines

(* Types of the logger's fields. *)
TypeOK ==
  /\ writeOutBuffer \in Seq(Lines)
  /\ flushBuffer \in Seq(Lines)
  /\ file \in Seq(Lines)
  /\ printed \in 0 .. MaxLines
  /\ flushing \in BOOLEAN
  /\ flushJob \in {"none", "queued", "written"}
  /\ locked \in BOOLEAN
  /\ pc \in [Printers -> {"idle", "printed", "overflow", "flush", "write"}]
  /\ phase \in {"running", "unplugged", "jobless", "closed"}
  /\ dropped \in BOOLEAN
  /\ lost \in Seq(Lines)

(* Whatever overtakes whatever: from the print on a line is in one place,   *)
(* once: in the file, in a buffer, or among those deinit freed unwritten.   *)
(* It frees some only when the job manager has dropped a flush that was     *)
(* queued: at any other end the file has every line.                        *)
EachLineOnce ==
  LET everywhere == file \o flushBuffer \o writeOutBuffer \o lost
  IN /\ Len(everywhere) = printed
     /\ \A l \in 1 .. printed : \E k \in 1 .. Len(everywhere) : everywhere[k] = l
     /\ lost # <<>> => dropped
     /\ phase = "closed" /\ ~dropped => Len(file) = printed

(* The second buffer holds lines only while a job is on its way to write    *)
(* them, until shutdown drops that job or a dispatch fails.                 *)
PendingHasItsJob ==
  flushBuffer # <<>> => flushJob = "queued" \/ locked \/ dropped

(* While the engine runs, every line reaches the file, unless the lock was  *)
(* left held.                                                               *)
LinesReachTheFile ==
  \A l \in Lines :
    printed >= l ~> ((\E k \in 1 .. Len(file) : file[k] = l) \/ locked \/ phase # "running")

=============================================================================
