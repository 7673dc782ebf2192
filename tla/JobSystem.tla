------------------------------ MODULE JobSystem ------------------------------
(***************************************************************************)
(* The job manager and its worker threads, driven by the main thread: the  *)
(* engine dispatches the systems thread as the first job, bumps the        *)
(* workers from its polling loop until the systems thread confirms the     *)
(* exit, tears down, and destroys the manager.                             *)
(*                                                                         *)
(* Jobs travel in the ring of ConcurrentQueue, step by step: every thread  *)
(* may push to it and pop from it, so that contexts can overtake, hide and *)
(* double there.  A job is known by the number of the push that carried    *)
(* its context.                                                            *)
(***************************************************************************)
EXTENDS Integers, Sequences, FiniteSets, SequencesExt

CONSTANTS
  NumWorkers,   \* workers.len; bump and destroy visit them in this order
  Capacity,     \* of jobQueueConcurrent
  MaxJobs       \* bound on the jobs created, the systems thread included

ASSUME WorkerAssumption == NumWorkers \in Nat \ {0}
ASSUME RoomAssumption == Capacity \in Nat \ {0}
ASSUME JobAssumption == MaxJobs \in Nat \ {0}

VARIABLES
  data, status, head, tail,       \* jobQueueConcurrent
  at, push, pop,                  \* the threads in its push and pop
  pushes, rejected, delivered,    \* and its history: job number 1 is the systems thread
  overlapped,     \* history: two pushes have been under way at a time
  released,       \* jobs whose capture was freed
  fate,           \* whether the program still does what its source says
  pc,             \* what each thread does next
  counted,        \* the head a thread's count has read
  scan,           \* the worker a bump, or destroy, has come to
  current,        \* currentJobContext of each worker
  busy,
  shouldDie,
  freed,          \* workers destroyed by the manager
  exitSignal,
  exitConfirmed

ring == <<data, status, head, tail, at, push, pop, pushes, rejected, delivered>>
jobs == <<overlapped, released, fate>>
locals == <<counted, scan>>
workers == <<current, busy, shouldDie, freed>>
signals == <<exitSignal, exitConfirmed>>
vars == <<ring, jobs, pc, locals, workers, signals>>

Main == 0
Workers == 1 .. NumWorkers
Threads == {Main} \cup Workers
Jobs == 1 .. MaxJobs
SystemsThread == 1
NoJob == -1       \* an optional context that is null

(* A thread as a user of the queue: it may push as well as pop. *)
Pusher(t) == <<"push", t>>
Popper(t) == <<"pop", t>>
Pushers == {Pusher(t) : t \in Threads}
Poppers == {Popper(t) : t \in Threads}

Q == INSTANCE ConcurrentQueue WITH
  Producers <- Pushers, Consumers <- Poppers, Deployments <- {Pushers \cup Poppers},
  MaxPushes <- MaxJobs, pc <- at

Init ==
  /\ Q!Init
  /\ overlapped = FALSE /\ released = {} /\ fate = "well"
  /\ pc = [t \in Threads |-> IF t = Main THEN "run" ELSE "check"]
  /\ counted = [t \in Threads |-> 0]
  /\ scan = [t \in Threads |-> 1]
  /\ current = [w \in Workers |-> NoJob]
  /\ busy = [w \in Workers |-> FALSE]
  /\ shouldDie = [w \in Workers |-> FALSE]
  /\ freed = {}
  /\ exitSignal = FALSE /\ exitConfirmed = FALSE

Goto(t, from, to) == pc[t] = from /\ pc' = [pc EXCEPT ![t] = to]

(* Where a bump returns to: the main thread bumps from its loop, and while  *)
(* tearing down; a worker from the job it runs.                             *)
Resume(t) == IF t # Main THEN "running" ELSE IF exitConfirmed THEN "teardown" ELSE "loop"

(* A context can be used that a push has written and nobody has freed. *)
Usable(j) == j \in Jobs \ released

(* ctx.deinit.  What becomes of a program that frees a context twice, or    *)
(* one that was never written, is not followed.                             *)
Release(j) ==
  IF Usable(j)
  THEN released' = released \cup {j} /\ UNCHANGED fate
  ELSE fate' = "undefined" /\ UNCHANGED released

-----------------------------------------------------------------------------
(* JobManager.newJob and bump, on the thread t that dispatches. *)

NewJob(t) ==
  /\ Q!PushBegin(Pusher(t))
  /\ pc' = [pc EXCEPT ![t] = "push"]
  /\ overlapped' = (overlapped \/ \E u \in Threads : pc[u] = "push")
  /\ UNCHANGED <<released, fate, locals, workers, signals>>

(* A job that does not fit: newJob returns the error and forgets the        *)
(* context, which may be in the ring all the same.                          *)
PushJob(t) ==
  /\ pc[t] = "push"
  /\ Q!PushStep(Pusher(t))
  /\ pc' = [pc EXCEPT ![t] =
       IF at'[Pusher(t)] # "idle" THEN "push"
       ELSE IF push[Pusher(t)].value \in rejected' THEN Resume(t) ELSE "bump"]
  /\ UNCHANGED <<jobs, locals, workers, signals>>

(* count reads head... *)
BumpCount(t) ==
  /\ Goto(t, "bump", "count")
  /\ counted' = [counted EXCEPT ![t] = head]
  /\ UNCHANGED <<ring, jobs, scan, workers, signals>>

(* Mutant: the count is one short. *)
BumpTestsShort(t) ==
  /\ Goto(t, "count", IF tail \in counted[t] + 1 .. counted[t] + 2 THEN Resume(t) ELSE "scan")
  /\ fate' = IF tail = counted[t] THEN "panicked" ELSE fate
  /\ counted' = [counted EXCEPT ![t] = 0]
  /\ scan' = [scan EXCEPT ![t] = 1]
  /\ UNCHANGED <<ring, overlapped, released, workers, signals>>

(* ... and then tail, which it asserts to be another.                       *)
BumpTests(t) ==
  /\ Goto(t, "count", IF tail = counted[t] + 1 THEN Resume(t) ELSE "scan")
  /\ fate' = IF tail = counted[t] THEN "panicked" ELSE fate
  /\ counted' = [counted EXCEPT ![t] = 0]
  /\ scan' = [scan EXCEPT ![t] = 1]
  /\ UNCHANGED <<ring, overlapped, released, workers, signals>>

(* isBusy of the worker the scan has come to; the first idle one is woken.  *)
(* A job that runs while destroy is at work may dispatch another, and find  *)
(* a worker here that destroy has freed.                                    *)
BumpScan(t) ==
  /\ IF scan[t] > NumWorkers
     THEN Goto(t, "scan", Resume(t)) /\ scan' = [scan EXCEPT ![t] = 1]
     ELSE IF busy[scan[t]]
          THEN Goto(t, "scan", "scan") /\ scan' = [scan EXCEPT ![t] = @ + 1]
          ELSE Goto(t, "scan", "wake") /\ UNCHANGED scan
  /\ fate' = IF scan[t] \in freed THEN "dangling" ELSE fate
  /\ UNCHANGED <<ring, overlapped, released, counted, workers, signals>>

(* Futex.wake reaches a thread that is asleep; nothing remembers it for one *)
(* that is about to sleep, since the futex word is never written.           *)
Wake(t, w, next) ==
  pc' = [pc EXCEPT ![t] = next, ![w] = IF @ = "asleep" THEN "grab" ELSE @]

(* It is its address that the system is given: nothing of the worker is     *)
(* read.                                                                    *)
BumpWake(t) ==
  /\ pc[t] = "wake"
  /\ Wake(t, scan[t], Resume(t))
  /\ scan' = [scan EXCEPT ![t] = 1]
  /\ UNCHANGED <<ring, jobs, counted, workers, signals>>

-----------------------------------------------------------------------------
(* workerThreadFunc *)

(* Mutant: a worker that dies does not free the job it has grabbed. *)
WorkerDiesHolding(w) ==
  \/ /\ shouldDie[w]
     /\ Goto(w, "check", "dead")
     /\ current' = [current EXCEPT ![w] = NoJob]
     /\ UNCHANGED <<ring, jobs, locals, busy, shouldDie, freed, signals>>
  \/ /\ ~shouldDie[w] /\ current[w] # NoJob
     /\ Goto(w, "check", "running")
     /\ busy' = [busy EXCEPT ![w] = TRUE]
     /\ UNCHANGED <<ring, jobs, locals, current, shouldDie, freed, signals>>
  \/ /\ ~shouldDie[w] /\ current[w] = NoJob
     /\ Goto(w, "check", "wait")
     /\ UNCHANGED <<ring, jobs, locals, workers, signals>>

(* The loop's test, then the job at hand or the futex.  A job grabbed just  *)
(* before shouldDie was seen is freed without having run.                   *)
WorkerCheck(w) ==
  \/ /\ shouldDie[w]
     /\ Goto(w, "check", "dead")
     /\ IF current[w] = NoJob THEN UNCHANGED <<released, fate>> ELSE Release(current[w])
     /\ current' = [current EXCEPT ![w] = NoJob]
     /\ UNCHANGED <<ring, overlapped, locals, busy, shouldDie, freed, signals>>
  \/ /\ ~shouldDie[w] /\ current[w] # NoJob
     /\ Goto(w, "check", "running")
     /\ busy' = [busy EXCEPT ![w] = TRUE]
     /\ fate' = IF Usable(current[w]) THEN fate ELSE "undefined"
     /\ UNCHANGED <<ring, overlapped, released, locals, current, shouldDie, freed, signals>>
  \/ /\ ~shouldDie[w] /\ current[w] = NoJob
     /\ Goto(w, "check", "wait")
     /\ UNCHANGED <<ring, jobs, locals, workers, signals>>

WorkerSleep(w) == Goto(w, "wait", "asleep") /\ UNCHANGED <<ring, jobs, locals, workers, signals>>

(* Futex.wait may return for no reason. *)
SpuriousWakeup(w) == Goto(w, "asleep", "grab") /\ UNCHANGED <<ring, jobs, locals, workers, signals>>

WorkerGrab(w) ==
  /\ Goto(w, "grab", "pop")
  /\ Q!PopBegin(Popper(w))
  /\ UNCHANGED <<jobs, locals, workers, signals>>

(* What a step of pop returns when it is the last. *)
Popped == IF delivered' = delivered THEN NoJob ELSE Last(delivered')

WorkerPops(w) ==
  /\ pc[w] = "pop"
  /\ Q!PopStep(Popper(w))
  /\ IF at'[Popper(w)] = "idle"
     THEN /\ pc' = [pc EXCEPT ![w] = "check"]
          /\ current' = [current EXCEPT ![w] = Popped]
     ELSE UNCHANGED <<pc, current>>
  /\ UNCHANGED <<jobs, locals, busy, shouldDie, freed, signals>>

(* A job may dispatch others, the systems thread until it has confirmed the *)
(* exit.                                                                    *)
JobDispatches(w) ==
  /\ pc[w] = "running"
  /\ current[w] = SystemsThread => ~exitConfirmed
  /\ NewJob(w)

(* The systems thread ends its loop once it has seen the exit signal. *)
ConfirmExit(w) ==
  /\ Goto(w, "running", "running")
  /\ current[w] = SystemsThread /\ exitSignal /\ ~exitConfirmed
  /\ exitConfirmed' = TRUE
  /\ UNCHANGED <<ring, jobs, locals, workers, exitSignal>>

(* Mutant: the worker forgets to clear the job it has finished. *)
JobReturnsKept(w) ==
  /\ Goto(w, "running", "grab")
  /\ current[w] = SystemsThread => exitConfirmed
  /\ busy' = [busy EXCEPT ![w] = FALSE]
  /\ Release(current[w])
  /\ UNCHANGED <<ring, overlapped, locals, current, shouldDie, freed, signals>>

(* The job's function returns, and its context is freed. *)
JobReturns(w) ==
  /\ Goto(w, "running", "grab")
  /\ current[w] = SystemsThread => exitConfirmed
  /\ busy' = [busy EXCEPT ![w] = FALSE]
  /\ current' = [current EXCEPT ![w] = NoJob]
  /\ Release(current[w])
  /\ UNCHANGED <<ring, overlapped, locals, shouldDie, freed, signals>>

-----------------------------------------------------------------------------
(* The main thread: Engine.run, mainLoop, and JobManager.destroy. *)

Run == pc[Main] = "run" /\ NewJob(Main)

(* Mutant: the polling loop does not bump the workers. *)
MainLoopOnlyPolls ==
  \/ /\ ~exitConfirmed
     /\ Goto(Main, "loop", "loop")
     /\ exitSignal' \in {exitSignal, TRUE}
     /\ UNCHANGED <<ring, jobs, locals, workers, exitConfirmed>>
  \/ /\ exitConfirmed
     /\ Goto(Main, "loop", "teardown")
     /\ UNCHANGED <<ring, jobs, locals, workers, signals>>

(* Polling the window may raise the exit signal; then a bump. *)
MainLoop ==
  \/ /\ ~exitConfirmed
     /\ Goto(Main, "loop", "bump")
     /\ exitSignal' \in {exitSignal, TRUE}
     /\ UNCHANGED <<ring, jobs, locals, workers, exitConfirmed>>
  \/ /\ exitConfirmed
     /\ Goto(Main, "loop", "teardown")
     /\ UNCHANGED <<ring, jobs, locals, workers, signals>>

(* What is polled, and later what is destroyed, may log, and so dispatch a  *)
(* flush.                                                                   *)
MainDispatches == pc[Main] \in {"loop", "teardown"} /\ NewJob(Main)

TeardownEnds ==
  /\ Goto(Main, "teardown", "kill")
  /\ scan' = [scan EXCEPT ![Main] = 1]
  /\ UNCHANGED <<ring, jobs, counted, workers, signals>>

(* JobWorker.deinit, one worker after the other: shouldDie, wake, join,     *)
(* destroy.                                                                 *)
KillWorker ==
  /\ Goto(Main, "kill", "rouse")
  /\ shouldDie' = [shouldDie EXCEPT ![scan[Main]] = TRUE]
  /\ UNCHANGED <<ring, jobs, locals, current, busy, freed, signals>>

RouseWorker ==
  /\ pc[Main] = "rouse"
  /\ Wake(Main, scan[Main], "join")
  /\ UNCHANGED <<ring, jobs, locals, workers, signals>>

JoinWorker ==
  /\ Goto(Main, "join", IF scan[Main] = NumWorkers THEN "clear" ELSE "kill")
  /\ pc[scan[Main]] = "dead"
  /\ freed' = freed \cup {scan[Main]}
  /\ scan' = [scan EXCEPT ![Main] = @ + 1]
  /\ UNCHANGED <<ring, jobs, counted, current, busy, shouldDie, signals>>

(* Mutant: the contexts left in the queue are not freed. *)
ClearJobsForgets ==
  /\ Goto(Main, "clear", "destroyed")
  /\ UNCHANGED <<ring, jobs, locals, workers, signals>>

(* clearJobs pops and frees until the queue is empty. *)
ClearJobs ==
  /\ Goto(Main, "clear", "pop")
  /\ Q!PopBegin(Popper(Main))
  /\ UNCHANGED <<jobs, locals, workers, signals>>

ClearPops ==
  /\ pc[Main] = "pop"
  /\ Q!PopStep(Popper(Main))
  /\ IF at'[Popper(Main)] # "idle" THEN UNCHANGED <<pc, released, fate>>
     ELSE IF Popped = NoJob THEN pc' = [pc EXCEPT ![Main] = "destroyed"] /\ UNCHANGED <<released, fate>>
     ELSE pc' = [pc EXCEPT ![Main] = "clear"] /\ Release(Popped)
  /\ UNCHANGED <<overlapped, locals, workers, signals>>

-----------------------------------------------------------------------------

DispatchStep(t) == PushJob(t) \/ BumpCount(t) \/ BumpTests(t) \/ BumpScan(t) \/ BumpWake(t)

WorkerStep(w) ==
  /\ fate = "well"
  /\ \/ DispatchStep(w) \/ WorkerCheck(w) \/ WorkerSleep(w) \/ WorkerGrab(w) \/ WorkerPops(w)
     \/ ConfirmExit(w) \/ JobReturns(w)

MainStep ==
  /\ fate = "well"
  /\ \/ DispatchStep(Main) \/ Run \/ MainLoop \/ TeardownEnds
     \/ KillWorker \/ RouseWorker \/ JoinWorker \/ ClearJobs \/ ClearPops

(* What nobody owes. *)
Liberty ==
  /\ fate = "well"
  /\ MainDispatches \/ \E w \in Workers : JobDispatches(w) \/ SpuriousWakeup(w)

Next == MainStep \/ Liberty \/ \E w \in Workers : WorkerStep(w)

Spec == Init /\ [][Next]_vars

(* Threads run and jobs return; nobody need dispatch, and no wakeup that is *)
(* not sent by wake can be relied upon.                                     *)
FairSpec == Spec /\ WF_vars(MainStep) /\ \A w \in Workers : WF_vars(WorkerStep(w))

-----------------------------------------------------------------------------

WorkerLabels ==
  {"check", "wait", "asleep", "grab", "pop", "running", "push", "bump", "count", "scan", "wake", "dead"}
MainLabels ==
  {"run", "loop", "push", "bump", "count", "scan", "wake", "teardown", "kill", "rouse", "join",
   "clear", "pop", "destroyed"}

(* Types of the manager's and the workers' fields, and of the ring. *)
TypeOK ==
  /\ Q!TypeOK
  /\ overlapped \in BOOLEAN
  /\ released \in SUBSET Jobs
  /\ fate \in {"well", "panicked", "dangling", "undefined"}
  /\ pc \in [Threads -> WorkerLabels \cup MainLabels]
  /\ counted \in [Threads -> Q!Slots]
  /\ scan \in [Threads -> 1 .. NumWorkers + 1]
  /\ current \in [Workers -> Jobs \cup {Q!Undefined, NoJob}]
  /\ busy \in [Workers -> BOOLEAN]
  /\ shouldDie \in [Workers -> BOOLEAN]
  /\ freed \in SUBSET Workers
  /\ exitSignal \in BOOLEAN /\ exitConfirmed \in BOOLEAN

HeldBy(j) == {w \in Workers : current[w] = j}

(* How often the queue has handed a context out. *)
Handed(j) == Cardinality({k \in DOMAIN delivered : delivered[k] = j})

(* However often the queue hands a context out, and whatever thread it      *)
(* hands it to (a worker, one that is about to die, destroy): it is in      *)
(* somebody's hands or freed as often.                                      *)
HandedIsHeldOrFreed ==
  fate = "well" => \A j \in Jobs :
    Handed(j) = Cardinality(HeldBy(j)) + (IF j \in released THEN 1 ELSE 0)

(* Pushes one at a time, that have not come round to the slot they began at. *)
Orderly == ~overlapped /\ pushes < Q!NumSlots

Accepted(j) == j <= pushes /\ j \notin rejected /\ \A t \in Threads : pc[t] = "push" => push[Pusher(t)].value # j

(* As long as pushes are orderly a context has one owner, however many      *)
(* workers grab: it is handed out once, one that is undefined never, and    *)
(* at the end no accepted one is left behind.                               *)
JobOwnership ==
  Orderly =>
    /\ fate # "undefined"
    /\ \A j \in Jobs : Handed(j) <= 1
    /\ pc[Main] = "destroyed" => \A j \in Jobs : Accepted(j) => j \in released

(* When the manager is gone every worker is gone, and every context that    *)
(* left the queue is freed.                                                 *)
NothingOutlivesDestroy ==
  pc[Main] = "destroyed" =>
    /\ freed = Workers
    /\ \A j \in Jobs : Handed(j) > 0 => j \in released

(* An accepted job is in the queue, while pushes are orderly and the main   *)
(* thread polls.                                                            *)
JobsWait ==
  /\ Orderly /\ fate = "well" /\ ~exitConfirmed
  /\ \E j \in Jobs : Accepted(j) /\ Handed(j) = 0

(* Jobs do not wait for ever: a wakeup lost between newJob and a worker     *)
(* going to sleep is made up for by a bump; unless a worker never returns   *)
(* from pop.                                                                *)
JobsAreServed ==
  (\A w \in Workers : []<>(pc[w] # "pop")) => (JobsWait ~> ~JobsWait)

(* Closing the window ends the systems thread, wherever it was then.        *)
ExitIsConfirmed == exitSignal ~> (exitConfirmed \/ fate # "well")

(* "a 1-2ms worst case wake time": wake is meant to reach its worker, so    *)
(* destroy joins them all.                                                  *)
ShutdownCompletes == exitConfirmed ~> pc[Main] = "destroyed"

=============================================================================
