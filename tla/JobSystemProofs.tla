--------------------------- MODULE JobSystemProofs ---------------------------
(***************************************************************************)
(* Theorems about JobSystem, for any number of workers and jobs and any    *)
(* capacity of the ring, however pushes and pops interleave in it: every   *)
(* context that is handed out is held or freed as often, and none that was *)
(* handed out outlives the manager.                                        *)
(***************************************************************************)
EXTENDS JobSystem, FiniteSetTheorems, TLAPS

(* What the ring may carry: a job, or a slot that was never written. *)
Contexts == 0 .. MaxJobs

(* The ring's types, with the values it carries. *)
RingTyped ==
  /\ data \in [Q!Slots -> Contexts]
  /\ status \in [Q!Slots -> BOOLEAN]
  /\ head \in Q!Slots /\ tail \in Q!Slots
  /\ at \in [Pushers \cup Poppers -> Q!PushLabels \cup Q!PopLabels]
  /\ push \in [Pushers -> [value : Contexts, expected : Q!Slots, write : Q!Slots, seen : Q!Slots]]
  /\ pop \in [Poppers -> [expected : Q!Slots, index : Q!Slots, newHead : Q!Slots, seen : Q!Slots]]
  /\ pushes \in Contexts
  /\ rejected \in SUBSET Nat
  /\ delivered \in Seq(Contexts)

(* The types of the manager and its workers. *)
Typed ==
  /\ RingTyped
  /\ overlapped \in BOOLEAN
  /\ released \in SUBSET Jobs
  /\ fate \in {"well", "panicked", "dangling", "undefined"}
  /\ pc \in [Threads -> WorkerLabels \cup MainLabels]
  /\ counted \in [Threads -> Q!Slots]
  /\ scan \in [Threads -> 1 .. NumWorkers + 1]
  /\ current \in [Workers -> Contexts \cup {NoJob}]
  /\ busy \in [Workers -> BOOLEAN]
  /\ shouldDie \in [Workers -> BOOLEAN]
  /\ freed \in SUBSET Workers
  /\ exitSignal \in BOOLEAN /\ exitConfirmed \in BOOLEAN

(* A worker has no job in its hands when it goes to grab one, and is dead  *)
(* once it was joined.                                                     *)
WorkerInv(w) ==
  /\ pc[w] \in WorkerLabels
  /\ pc[w] \in {"wait", "asleep", "grab", "pop", "dead"} => current[w] = NoJob
  /\ pc[w] = "wake" => scan[w] \in Workers
  /\ w \in freed => pc[w] = "dead"

(* How far destroy has come. *)
MainInv ==
  /\ pc[Main] \in MainLabels
  /\ pc[Main] \in {"wake", "kill", "rouse", "join"} => scan[Main] \in Workers
  /\ pc[Main] \in {"kill", "rouse", "join"} => freed = 1 .. scan[Main] - 1
  /\ pc[Main] \in {"clear", "pop", "destroyed"} => freed = Workers
  /\ pc[Main] \in {"run", "loop", "push", "bump", "count", "scan", "wake", "teardown"} => freed = {}
  /\ pc[Main] = "destroyed" => fate = "well"

Places == MainInv /\ \A w \in Workers : WorkerInv(w)

IInv == Typed /\ Places /\ HandedIsHeldOrFreed

-----------------------------------------------------------------------------
(* What the provers need to know of the threads and of the ring.           *)

USE DEF Goto, ring, jobs, locals, workers, signals

LEMMA ThreadFacts ==
  /\ Main \in Threads /\ Main \notin Workers /\ Workers \subseteq Threads
  /\ Threads \subseteq Workers \cup {Main}
  /\ Workers \subseteq Int /\ Workers = 1 .. NumWorkers /\ NumWorkers \in Nat \ {0}
BY WorkerAssumption DEF Main, Workers, Threads

LEMMA ContextFacts ==
  /\ Jobs \subseteq Contexts /\ Contexts \subseteq Nat /\ Contexts = Jobs \cup {0}
  /\ NoJob \notin Contexts /\ 0 \in Contexts /\ Q!Undefined = 0
BY JobAssumption DEF Jobs, Contexts, NoJob, Q!Undefined

LEMMA RoleFacts ==
  \A t \in Threads : Pusher(t) \in Pushers /\ Popper(t) \in Poppers
BY DEF Pushers, Poppers

LEMMA SlotFacts ==
  /\ 0 \in Q!Slots /\ 1 \in Q!Slots
  /\ \A i \in Q!Slots : Q!NextSlot(i) \in Q!Slots
BY RoomAssumption DEF Q!NextSlot, Q!Slots, Q!NumSlots

(* Where a bump returns to. *)
LEMMA ResumeFacts ==
  /\ Resume(Main) \in {"loop", "teardown"}
  /\ \A w \in Workers : Resume(w) = "running"
BY ThreadFacts DEF Resume

LEMMA SeqWiden ==
  ASSUME NEW S, NEW T, S \subseteq T, NEW s \in Seq(S)
  PROVE  s \in Seq(T)
<1>1. Len(s) \in Nat /\ s \in [1 .. Len(s) -> S]
  OBVIOUS
<1>2. s \in [1 .. Len(s) -> T]
  BY <1>1
<1> QED BY <1>1, <1>2

LEMMA TypesAgree == Typed => TypeOK
<1> SUFFICES ASSUME Typed PROVE TypeOK
  OBVIOUS
<1> USE ContextFacts DEF Typed, RingTyped
<1>1. data \in [Q!Slots -> Nat]
  OBVIOUS
<1>2. push \in [Pushers -> [value : Nat, expected : Q!Slots, write : Q!Slots, seen : Q!Slots]]
  OBVIOUS
<1>3. pushes \in Nat /\ delivered \in Seq(Nat)
  <2>1. Contexts \subseteq Nat /\ pushes \in Contexts /\ delivered \in Seq(Contexts)
    OBVIOUS
  <2> QED BY <2>1, SeqWiden
<1>4. Q!TypeOK
  BY <1>1, <1>2, <1>3 DEF Q!TypeOK, Q!Threads
<1>5. current \in [Workers -> Jobs \cup {Q!Undefined, NoJob}]
  OBVIOUS
<1> QED BY <1>4, <1>5 DEF TypeOK

-----------------------------------------------------------------------------
(* The ring's operations keep its types; only the last step of a pop hands *)
(* a context out.                                                          *)

LEMMA PushBeginKeeps ==
  ASSUME RingTyped, NEW p \in Pushers, Q!PushBegin(p)
  PROVE  RingTyped' /\ delivered' = delivered
<1> USE SlotFacts, ContextFacts DEF RingTyped, Q!queue, Q!history, Q!Goto
<1>1. pushes' \in Contexts
  BY JobAssumption DEF Q!PushBegin, Contexts
<1>2. at' \in [Pushers \cup Poppers -> Q!PushLabels \cup Q!PopLabels]
  BY DEF Q!PushBegin, Q!PushLabels, Q!PopLabels
<1>3. push' \in [Pushers -> [value : Contexts, expected : Q!Slots, write : Q!Slots, seen : Q!Slots]]
  BY <1>1 DEF Q!PushBegin
<1> QED BY <1>1, <1>2, <1>3 DEF Q!PushBegin

LEMMA PushStepKeeps ==
  ASSUME RingTyped, NEW p \in Pushers, Q!PushStep(p)
  PROVE  RingTyped' /\ delivered' = delivered
<1> USE SlotFacts, ContextFacts DEF RingTyped, Q!queue, Q!history, Q!Goto
<1>1. at' \in [Pushers \cup Poppers -> Q!PushLabels \cup Q!PopLabels]
  BY DEF Q!PushStep, Q!PushClaimed, Q!PushSkips, Q!PushWrite, Q!PushFull, Q!PushHasRoom, Q!PushPublish,
         Q!PushResolve, Q!PushLabels, Q!PopLabels
<1> DEFINE Locals == [value : Contexts, expected : Q!Slots, write : Q!Slots, seen : Q!Slots]
<1>2. push[p] \in Locals
  OBVIOUS
<1>3. CASE Q!PushClaimed(p)
  BY <1>1, <1>3 DEF Q!PushClaimed
<1>4. CASE Q!PushSkips(p)
  <2>1. push' = [push EXCEPT ![p].write = Q!NextSlot(push[p].write)]
    BY <1>4 DEF Q!PushSkips
  <2>2. push' \in [Pushers -> Locals]
    BY <1>2, <2>1
  <2> QED BY <1>1, <1>4, <2>2 DEF Q!PushSkips
<1>5. CASE Q!PushWrite(p)
  <2>1. /\ push' = [push EXCEPT ![p].write = Q!NextSlot(push[p].write)]
        /\ data' = [data EXCEPT ![push[p].write] = push[p].value]
    BY <1>5 DEF Q!PushWrite
  <2>2. push' \in [Pushers -> Locals] /\ data' \in [Q!Slots -> Contexts]
    BY <1>2, <2>1
  <2> QED BY <1>1, <1>5, <2>2 DEF Q!PushWrite
<1>6. CASE Q!PushFull(p)
  <2>1. rejected' = rejected \cup {push[p].value} /\ push[p].value \in Nat /\ rejected \in SUBSET Nat
    BY <1>2, <1>6 DEF Q!PushFull
  <2>2. rejected' \in SUBSET Nat
    BY Zenon, <2>1
  <2>3. UNCHANGED <<data, status, head, tail, push, pop, pushes, delivered>>
    BY <1>6 DEF Q!PushFull
  <2> QED BY <1>1, <2>2, <2>3
<1>7. CASE Q!PushHasRoom(p)
  <2>1. UNCHANGED <<data, status, head, tail, push, pop, pushes, rejected, delivered>>
    BY <1>7 DEF Q!PushHasRoom
  <2> QED BY <1>1, <2>1
<1>8. CASE Q!PushPublish(p)
  <2>1. /\ tail' = tail \/ tail' = push[p].write
        /\ push' = push \/ push' = [push EXCEPT ![p].seen = tail]
        /\ UNCHANGED <<data, status, head, pop, pushes, rejected, delivered>>
    BY <1>8 DEF Q!PushPublish
  <2>2. [push EXCEPT ![p].seen = tail] \in [Pushers -> Locals]
    BY <1>2
  <2> QED BY <1>1, <1>2, <2>1, <2>2
<1>9. CASE Q!PushResolve(p)
  <2>1. /\ push' = push \/ push' = [push EXCEPT ![p].expected = push[p].seen]
        /\ UNCHANGED <<data, status, head, tail, pop, pushes, rejected, delivered>>
    BY <1>9 DEF Q!PushResolve
  <2>2. [push EXCEPT ![p].expected = push[p].seen] \in [Pushers -> Locals]
    BY <1>2
  <2> QED BY <1>1, <2>1, <2>2
<1> QED BY <1>3, <1>4, <1>5, <1>6, <1>7, <1>8, <1>9 DEF Q!PushStep

LEMMA PopBeginKeeps ==
  ASSUME RingTyped, NEW c \in Poppers, Q!PopBegin(c)
  PROVE  RingTyped' /\ delivered' = delivered
<1> USE SlotFacts DEF RingTyped, Q!queue, Q!history, Q!Goto
<1>1. at' \in [Pushers \cup Poppers -> Q!PushLabels \cup Q!PopLabels]
  BY DEF Q!PopBegin, Q!PushLabels, Q!PopLabels
<1>2. pop' \in [Poppers -> [expected : Q!Slots, index : Q!Slots, newHead : Q!Slots, seen : Q!Slots]]
  BY DEF Q!PopBegin
<1> QED BY <1>1, <1>2 DEF Q!PopBegin

LEMMA PopStepKeeps ==
  ASSUME RingTyped, NEW c \in Poppers, Q!PopStep(c)
  PROVE  /\ RingTyped'
         /\ \/ delivered' = delivered
            \/ at'[c] = "idle" /\ \E j \in Contexts : delivered' = Append(delivered, j)
<1> USE SlotFacts DEF RingTyped, Q!queue, Q!history, Q!Goto
<1>1. at' \in [Pushers \cup Poppers -> Q!PushLabels \cup Q!PopLabels]
  BY DEF Q!PopStep, Q!PopEmpty, Q!PopTakes, Q!PopSkips, Q!PopAdvance, Q!PopResolve, Q!PopRead,
         Q!PushLabels, Q!PopLabels
<1> DEFINE Locals == [expected : Q!Slots, index : Q!Slots, newHead : Q!Slots, seen : Q!Slots]
<1>2. pop[c] \in Locals
  OBVIOUS
<1>3. CASE Q!PopEmpty(c)
  BY <1>1, <1>3 DEF Q!PopEmpty
<1>4. CASE Q!PopTakes(c)
  BY <1>1, <1>4 DEF Q!PopTakes
<1>5. CASE Q!PopSkips(c)
  <2>1. /\ pop' = [pop EXCEPT ![c].index = Q!NextSlot(pop[c].index), ![c].newHead = Q!NextSlot(pop[c].index)]
        /\ UNCHANGED <<data, status, head, tail, push, pushes, rejected, delivered>>
    BY <1>5 DEF Q!PopSkips
  <2>2. pop' \in [Poppers -> Locals]
    BY <1>2, <2>1
  <2> QED BY <1>1, <2>1, <2>2
<1>6. CASE Q!PopAdvance(c)
  <2>1. /\ head' = head \/ head' = pop[c].newHead
        /\ pop' = pop \/ pop' = [pop EXCEPT ![c].seen = head]
        /\ UNCHANGED <<data, status, tail, push, pushes, rejected, delivered>>
    BY <1>6 DEF Q!PopAdvance
  <2>2. [pop EXCEPT ![c].seen = head] \in [Poppers -> Locals]
    BY <1>2
  <2> QED BY <1>1, <1>2, <2>1, <2>2
<1>7. CASE Q!PopResolve(c)
  <2>1. /\ pop' = pop \/ pop' = [pop EXCEPT ![c].expected = pop[c].seen]
        /\ UNCHANGED <<data, status, head, tail, push, pushes, rejected, delivered>>
    BY <1>7 DEF Q!PopResolve
  <2>2. [pop EXCEPT ![c].expected = pop[c].seen] \in [Poppers -> Locals]
    BY <1>2
  <2> QED BY <1>1, <2>1, <2>2
<1>8. CASE Q!PopRead(c)
  <2>1. /\ delivered' = Append(delivered, data[pop[c].index]) /\ at'[c] = "idle"
        /\ UNCHANGED <<data, status, head, tail, push, pop, pushes, rejected>>
    BY <1>8 DEF Q!PopRead
  <2>2. data[pop[c].index] \in Contexts
    BY <1>2
  <2>3. delivered' \in Seq(Contexts)
    BY <2>1, <2>2
  <2> QED BY <1>1, <2>1, <2>2, <2>3
<1> QED BY <1>3, <1>4, <1>5, <1>6, <1>7, <1>8 DEF Q!PopStep

-----------------------------------------------------------------------------
(* Counting: what was handed out, and who holds it.                        *)

LEMMA HandedAppend ==
  ASSUME delivered \in Seq(Contexts), NEW j, NEW v \in Contexts, delivered' = Append(delivered, v)
  PROVE  Handed(j) \in Nat /\ Handed(j)' = Handed(j) + (IF v = j THEN 1 ELSE 0)
<1> DEFINE S == {k \in DOMAIN delivered : delivered[k] = j}
           n == Len(delivered)
<1>1. /\ n \in Nat /\ DOMAIN delivered = 1 .. n /\ DOMAIN delivered' = 1 .. n + 1
      /\ \A k \in 1 .. n : delivered'[k] = delivered[k]
      /\ delivered'[n + 1] = v
  OBVIOUS
<1>2. IsFiniteSet(S)
  <2>1. IsFiniteSet(1 .. n)
    BY <1>1, FS_Interval
  <2> QED BY <1>1, <2>1, FS_Subset
<1>3. Cardinality(S) \in Nat
  BY <1>2, FS_CardinalityType
<1>4. {k \in DOMAIN delivered' : delivered'[k] = j} = IF v = j THEN S \cup {n + 1} ELSE S
  BY <1>1
<1>5. n + 1 \notin S
  BY <1>1
<1>6. Cardinality(S \cup {n + 1}) = Cardinality(S) + 1
  BY <1>2, <1>5, FS_AddElement
<1>7. Handed(j) = Cardinality(S) /\ Handed(j)' = Cardinality({k \in DOMAIN delivered' : delivered'[k] = j})
  BY DEF Handed
<1> HIDE DEF S
<1>8. CASE v = j
  <2>1. Handed(j)' = Cardinality(S \cup {n + 1})
    BY <1>4, <1>7, <1>8
  <2>2. Handed(j)' = Handed(j) + 1
    BY <1>6, <1>7, <2>1
  <2> QED BY <1>3, <1>7, <1>8, <2>2
<1>9. CASE v # j
  <2>1. Handed(j)' = Cardinality(S)
    BY <1>4, <1>7, <1>9
  <2>2. Handed(j)' = Handed(j) /\ Handed(j) \in Nat
    BY <1>3, <1>7, <2>1
  <2> HIDE DEF Handed
  <2> QED BY <1>9, <2>2
<1> QED BY <1>8, <1>9

LEMMA HeldFinite ==
  \A j : IsFiniteSet(HeldBy(j)) /\ Cardinality(HeldBy(j)) \in Nat
<1> SUFFICES ASSUME NEW j
             PROVE  IsFiniteSet(HeldBy(j)) /\ Cardinality(HeldBy(j)) \in Nat
  OBVIOUS
<1>1. IsFiniteSet(Workers)
  BY ThreadFacts, FS_Interval
<1>2. HeldBy(j) \in SUBSET Workers
  BY DEF HeldBy
<1> QED BY <1>1, <1>2, FS_Subset, FS_CardinalityType

LEMMA HeldTake ==
  ASSUME current \in [Workers -> Contexts \cup {NoJob}], NEW w \in Workers, NEW v, current[w] = NoJob,
         current' = [current EXCEPT ![w] = v], NEW j \in Jobs
  PROVE  Cardinality(HeldBy(j)') = Cardinality(HeldBy(j)) + (IF v = j THEN 1 ELSE 0)
<1>1. w \notin HeldBy(j)
  BY ContextFacts DEF HeldBy
<1>2. HeldBy(j)' = IF v = j THEN HeldBy(j) \cup {w} ELSE HeldBy(j)
  BY <1>1 DEF HeldBy
<1>3. Cardinality(HeldBy(j) \cup {w}) = Cardinality(HeldBy(j)) + 1
  BY <1>1, HeldFinite, FS_AddElement
<1> QED BY <1>2, <1>3, HeldFinite

LEMMA HeldDrop ==
  ASSUME current \in [Workers -> Contexts \cup {NoJob}], NEW w \in Workers,
         current' = [current EXCEPT ![w] = NoJob], NEW j \in Jobs
  PROVE  Cardinality(HeldBy(j)') = Cardinality(HeldBy(j)) - (IF current[w] = j THEN 1 ELSE 0)
<1>1. HeldBy(j)' = HeldBy(j) \ {w}
  BY ContextFacts DEF HeldBy
<1>2. w \in HeldBy(j) <=> current[w] = j
  BY DEF HeldBy
<1>3. Cardinality(HeldBy(j) \ {w}) = Cardinality(HeldBy(j)) - (IF current[w] = j THEN 1 ELSE 0)
  <2>1. IsFiniteSet(HeldBy(j)) /\ Cardinality(HeldBy(j)) \in Nat
    BY HeldFinite
  <2>2. Cardinality(HeldBy(j) \ {w}) =
          IF w \in HeldBy(j) THEN Cardinality(HeldBy(j)) - 1 ELSE Cardinality(HeldBy(j))
    BY <2>1, FS_RemoveElement
  <2> QED BY <1>2, <2>1, <2>2
<1> QED BY <1>1, <1>3

(* Steps that hand nothing out and free nothing. *)
LEMMA StillKeeps ==
  ASSUME HandedIsHeldOrFreed, fate = "well", UNCHANGED <<delivered, released, current>>
  PROVE  HandedIsHeldOrFreed'
BY DEF HandedIsHeldOrFreed, Handed, HeldBy

LEMMA ReleaseTypes ==
  ASSUME Typed, NEW j, Release(j)
  PROVE  released' \in SUBSET Jobs /\ fate' \in {"well", "panicked", "dangling", "undefined"}
BY DEF Typed, Release, Usable

(* A worker frees the context in its hands: nobody has freed it before, or *)
(* the program is no longer what it says.                                  *)
LEMMA Relinquish ==
  ASSUME Typed, HandedIsHeldOrFreed, fate = "well", NEW w \in Workers, Release(current[w]),
         current' = [current EXCEPT ![w] = NoJob], delivered' = delivered
  PROVE  HandedIsHeldOrFreed'
<1> SUFFICES ASSUME fate' = "well", NEW j \in Jobs
             PROVE  Handed(j)' = Cardinality(HeldBy(j)') + (IF j \in released' THEN 1 ELSE 0)
  BY DEF HandedIsHeldOrFreed
<1>1. current[w] \in Jobs \ released /\ released' = released \cup {current[w]}
  BY DEF Release, Usable
<1>2. Handed(j) = Cardinality(HeldBy(j)) + (IF j \in released THEN 1 ELSE 0)
  BY DEF HandedIsHeldOrFreed
<1>3. Handed(j)' = Handed(j)
  BY DEF Handed
<1>4. Cardinality(HeldBy(j)') = Cardinality(HeldBy(j)) - (IF current[w] = j THEN 1 ELSE 0)
  BY HeldDrop DEF Typed
<1>5. Cardinality(HeldBy(j)) \in Nat
  BY HeldFinite
<1>6. CASE current[w] = j
  <2>1. j \notin released /\ j \in released'
    BY <1>1, <1>6
  <2> QED BY <1>2, <1>3, <1>4, <1>5, <1>6, <2>1
<1>7. CASE current[w] # j
  <2>1. j \in released' <=> j \in released
    BY <1>1, <1>7
  <2> QED BY <1>2, <1>3, <1>4, <1>5, <1>7, <2>1
<1> QED BY <1>6, <1>7

(* What a pop returns. *)
LEMMA PoppedIs ==
  ASSUME delivered \in Seq(Contexts)
  PROVE  /\ delivered' = delivered => Popped = NoJob
         /\ \A v \in Contexts : delivered' = Append(delivered, v) => Popped = v
<1> SUFFICES ASSUME NEW v \in Contexts, delivered' = Append(delivered, v)
             PROVE  Popped = v
  BY DEF Popped
<1>1. Len(delivered') = Len(delivered) + 1 /\ Len(delivered) \in Nat /\ delivered'[Len(delivered) + 1] = v
  OBVIOUS
<1>2. delivered' # delivered
  BY <1>1
<1> QED BY <1>1, <1>2 DEF Popped, Last

-----------------------------------------------------------------------------
(* A step of one thread leaves the others where they are, but for one that *)
(* it wakes.                                                               *)

Stays(u) ==
  /\ pc'[u] = pc[u] \/ (u \in Workers /\ pc[u] = "asleep" /\ pc'[u] = "grab")
  /\ scan'[u] = scan[u]
  /\ u \in Workers => current'[u] = current[u]

LEMMA WorkerStays ==
  ASSUME NEW v \in Workers, WorkerInv(v), Stays(v), freed' = freed
  PROVE  WorkerInv(v)'
BY DEF WorkerInv, Stays, WorkerLabels

LEMMA WorkerMoves ==
  ASSUME IInv, NEW w \in Workers, pc[w] # "dead", pc'[w] \in WorkerLabels,
         \A u \in Threads \ {w} : Stays(u), freed' = freed,
         pc'[w] \in {"wait", "asleep", "grab", "pop", "dead"} => current'[w] = NoJob,
         pc'[w] = "wake" => scan'[w] \in Workers
  PROVE  Places'
<1> USE ThreadFacts DEF IInv, Places
<1>1. w \notin freed /\ w \notin freed'
  BY DEF WorkerInv
<1>2. WorkerInv(w)'
  BY <1>1 DEF WorkerInv
<1>3. \A v \in Workers \ {w} : WorkerInv(v)'
  BY WorkerStays
<1>4. Stays(Main) /\ pc'[Main] = pc[Main] /\ scan'[Main] = scan[Main]
  BY DEF Stays
<1>5. pc[Main] # "destroyed"
  BY <1>1 DEF MainInv
<1>6. MainInv'
  BY <1>4, <1>5 DEF MainInv
<1> QED BY <1>2, <1>3, <1>6

LEMMA MainMoves ==
  ASSUME IInv, \A w \in Workers : Stays(w), freed' = freed, MainInv'
  PROVE  Places'
BY WorkerStays DEF IInv, Places

LEMMA JustMoves ==
  ASSUME Typed, NEW t \in Threads, NEW next, pc' = [pc EXCEPT ![t] = next],
         next \in WorkerLabels \cup MainLabels
  PROVE  /\ pc' \in [Threads -> WorkerLabels \cup MainLabels] /\ pc'[t] = next
         /\ \A u \in Threads \ {t} : pc'[u] = pc[u]
BY DEF Typed

-----------------------------------------------------------------------------
(* newJob and bump, on any thread. *)

Dispatching == {"push", "bump", "count", "scan", "wake"}

LEMMA DispatchMoves ==
  ASSUME IInv, fate = "well", NEW t \in Threads, Typed',
         t = Main => pc[t] \in Dispatching \cup {"run", "loop", "teardown"},
         t # Main => pc[t] \in Dispatching \cup {"running"},
         pc'[t] \in Dispatching \cup {Resume(t)},
         pc'[t] = "wake" => scan'[t] \in Workers,
         \A u \in Threads \ {t} : Stays(u),
         UNCHANGED <<delivered, released, current, freed>>
  PROVE  IInv'
<1> USE ThreadFacts, ResumeFacts DEF IInv
<1>1. HandedIsHeldOrFreed'
  BY StillKeeps
<1>2. CASE t = Main
  <2>1. MainInv'
    BY <1>2 DEF MainInv, MainLabels, Dispatching, Places
  <2>2. Places'
    BY <1>2, <2>1, MainMoves
  <2> QED BY <1>1, <2>2
<1>3. CASE t # Main
  <2>1. t \in Workers /\ pc'[t] \in Dispatching \cup {"running"} /\ pc[t] # "dead"
    BY <1>3 DEF Dispatching
  <2>2. Places'
    BY <2>1, WorkerMoves DEF Dispatching, WorkerLabels
  <2> QED BY <1>1, <2>2
<1> QED BY <1>2, <1>3

LEMMA NewJobKeeps ==
  ASSUME IInv, fate = "well", NEW t \in Threads, NewJob(t),
         t = Main => pc[t] \in {"run", "loop", "teardown"}, t # Main => pc[t] = "running"
  PROVE  IInv'
<1> USE DEF IInv
<1>1. RingTyped' /\ delivered' = delivered
  BY RoleFacts, PushBeginKeeps DEF NewJob, Typed
<1>2. /\ pc' \in [Threads -> WorkerLabels \cup MainLabels] /\ pc'[t] = "push"
      /\ \A u \in Threads \ {t} : pc'[u] = pc[u]
  BY JustMoves DEF NewJob, WorkerLabels
<1>3. overlapped' \in BOOLEAN /\ UNCHANGED <<released, fate, locals, workers, signals>>
  BY DEF NewJob, Typed
<1>4. Typed'
  BY <1>1, <1>2, <1>3 DEF Typed
<1> QED BY <1>1, <1>2, <1>3, <1>4, DispatchMoves DEF Stays, Dispatching

LEMMA PushJobKeeps ==
  ASSUME IInv, fate = "well", NEW t \in Threads, PushJob(t)
  PROVE  IInv'
<1> USE DEF IInv
<1>1. RingTyped' /\ delivered' = delivered
  BY RoleFacts, PushStepKeeps DEF PushJob, Typed
<1>2. PICK next \in {"push", "bump", Resume(t)} : pc[t] = "push" /\ pc' = [pc EXCEPT ![t] = next]
  BY DEF PushJob
<1>3. next \in WorkerLabels \cup MainLabels
  BY <1>2, ThreadFacts, ResumeFacts DEF WorkerLabels, MainLabels
<1>4. /\ pc' \in [Threads -> WorkerLabels \cup MainLabels] /\ pc'[t] = next
      /\ \A u \in Threads \ {t} : pc'[u] = pc[u]
  BY <1>2, <1>3, JustMoves
<1>5. UNCHANGED <<jobs, locals, workers, signals>>
  BY DEF PushJob
<1>6. Typed'
  BY <1>1, <1>4, <1>5 DEF Typed
<1>7. next # "wake"
  BY <1>2, ThreadFacts, ResumeFacts
<1> QED BY <1>1, <1>2, <1>4, <1>5, <1>6, <1>7, DispatchMoves DEF Stays, Dispatching

LEMMA CountKeeps ==
  ASSUME IInv, fate = "well", NEW t \in Threads, BumpCount(t) \/ BumpTests(t)
  PROVE  IInv'
<1> USE DEF IInv
<1>1. PICK next \in {"count", "scan", Resume(t)} :
        pc[t] \in {"bump", "count"} /\ pc' = [pc EXCEPT ![t] = next]
  BY DEF BumpCount, BumpTests
<1>2. next \in WorkerLabels \cup MainLabels /\ next # "wake"
  BY <1>1, ThreadFacts, ResumeFacts DEF WorkerLabels, MainLabels
<1>3. /\ pc' \in [Threads -> WorkerLabels \cup MainLabels] /\ pc'[t] = next
      /\ \A u \in Threads \ {t} : pc'[u] = pc[u]
  BY <1>1, <1>2, JustMoves
<1>4. /\ counted' \in [Threads -> Q!Slots]
      /\ scan' \in [Threads -> 1 .. NumWorkers + 1]
      /\ \A u \in Threads \ {t} : scan'[u] = scan[u]
      /\ fate' \in {"well", "panicked"}
      /\ UNCHANGED <<ring, overlapped, released, workers, signals>>
  <2>1. CASE BumpCount(t)
    BY <2>1 DEF BumpCount, Typed, RingTyped
  <2>2. CASE BumpTests(t)
    <3>1. /\ counted' = [counted EXCEPT ![t] = 0] /\ scan' = [scan EXCEPT ![t] = 1]
          /\ fate' = "panicked" \/ fate' = fate
          /\ UNCHANGED <<ring, overlapped, released, workers, signals>>
      BY <2>2 DEF BumpTests
    <3>2. 1 \in 1 .. NumWorkers + 1 /\ 0 \in Q!Slots
      BY SlotFacts, WorkerAssumption
    <3> QED BY <3>1, <3>2 DEF Typed
  <2> QED BY <2>1, <2>2
<1>5. Typed'
  BY <1>3, <1>4 DEF Typed, RingTyped
<1> QED BY <1>1, <1>2, <1>3, <1>4, <1>5, DispatchMoves DEF Stays, Dispatching

LEMMA ScanKeeps ==
  ASSUME IInv, fate = "well", NEW t \in Threads, BumpScan(t)
  PROVE  IInv'
<1> USE DEF IInv
<1>1. /\ pc[t] = "scan" /\ scan[t] \in 1 .. NumWorkers + 1 /\ NumWorkers \in Nat \ {0}
      /\ fate' \in {fate, "dangling"}
      /\ UNCHANGED <<ring, overlapped, released, counted, workers, signals>>
      /\ \/ /\ pc' = [pc EXCEPT ![t] = Resume(t)] /\ scan' = [scan EXCEPT ![t] = 1]
         \/ /\ pc' = [pc EXCEPT ![t] = "scan"] /\ scan[t] <= NumWorkers
            /\ scan' = [scan EXCEPT ![t] = scan[t] + 1]
         \/ /\ pc' = [pc EXCEPT ![t] = "wake"] /\ scan[t] <= NumWorkers /\ scan' = scan
  BY WorkerAssumption DEF BumpScan, Typed
<1>2. PICK next \in {"scan", "wake", Resume(t)} : pc' = [pc EXCEPT ![t] = next]
  BY <1>1
<1>3. next \in WorkerLabels \cup MainLabels /\ Resume(t) # "wake" /\ Resume(t) # "scan"
  BY <1>2, ThreadFacts, ResumeFacts DEF WorkerLabels, MainLabels
<1>4. /\ pc' \in [Threads -> WorkerLabels \cup MainLabels] /\ pc'[t] = next
      /\ \A u \in Threads \ {t} : pc'[u] = pc[u]
  BY <1>2, <1>3, JustMoves
<1>5. scan \in [Threads -> 1 .. NumWorkers + 1]
  BY DEF Typed
<1>6. /\ scan' \in [Threads -> 1 .. NumWorkers + 1]
      /\ \A u \in Threads \ {t} : scan'[u] = scan[u]
  BY <1>1, <1>5
<1>7. pc'[t] = "wake" => scan'[t] \in Workers
  <2>1. pc \in [Threads -> WorkerLabels \cup MainLabels]
    BY DEF Typed
  <2>2. pc'[t] = "wake" => scan' = scan /\ scan[t] <= NumWorkers
    BY <1>1, <1>3, <2>1
  <2> QED BY <1>1, <2>2, ThreadFacts
<1>8. Typed'
  BY <1>1, <1>4, <1>6 DEF Typed, RingTyped
<1> QED BY <1>1, <1>4, <1>6, <1>7, <1>8, DispatchMoves DEF Stays, Dispatching

(* Waking a worker moves it on if it is asleep, and nobody else but the    *)
(* thread that wakes it.                                                   *)
LEMMA WakeMoves ==
  ASSUME Typed, NEW t \in Threads, NEW w \in Workers, NEW next \in WorkerLabels \cup MainLabels,
         Wake(t, w, next), pc[t] # "asleep", next # "asleep"
  PROVE  /\ pc' \in [Threads -> WorkerLabels \cup MainLabels]
         /\ pc'[t] = next
         /\ \A u \in Threads \ {t} : pc'[u] = pc[u] \/ (u \in Workers /\ pc[u] = "asleep" /\ pc'[u] = "grab")
<1>1. pc \in [Threads -> WorkerLabels \cup MainLabels] /\ "grab" \in WorkerLabels
  BY DEF Typed, WorkerLabels
<1> QED BY <1>1, ThreadFacts DEF Wake

LEMMA WakeKeeps ==
  ASSUME IInv, fate = "well", NEW t \in Threads, BumpWake(t)
  PROVE  IInv'
<1> USE DEF IInv
<1>1. /\ pc[t] = "wake" /\ Wake(t, scan[t], Resume(t)) /\ scan' = [scan EXCEPT ![t] = 1]
      /\ UNCHANGED <<ring, jobs, counted, workers, signals>>
  BY DEF BumpWake
<1>2. scan[t] \in Workers
  BY <1>1, ThreadFacts DEF Places, MainInv, WorkerInv
<1>3. Resume(t) \in WorkerLabels \cup MainLabels /\ Resume(t) # "asleep" /\ Resume(t) # "wake"
  BY ThreadFacts, ResumeFacts DEF WorkerLabels, MainLabels
<1>4. /\ pc' \in [Threads -> WorkerLabels \cup MainLabels] /\ pc'[t] = Resume(t)
      /\ \A u \in Threads \ {t} : pc'[u] = pc[u] \/ (u \in Workers /\ pc[u] = "asleep" /\ pc'[u] = "grab")
  BY <1>1, <1>2, <1>3, WakeMoves
<1>5. 1 \in 1 .. NumWorkers + 1 /\ scan \in [Threads -> 1 .. NumWorkers + 1]
  BY WorkerAssumption DEF Typed
<1>6. /\ scan' \in [Threads -> 1 .. NumWorkers + 1]
      /\ \A u \in Threads \ {t} : scan'[u] = scan[u]
  BY <1>1, <1>5
<1>7. Typed'
  BY <1>1, <1>4, <1>6 DEF Typed, RingTyped
<1> QED BY <1>1, <1>3, <1>4, <1>6, <1>7, DispatchMoves DEF Stays, Dispatching

LEMMA DispatchKeeps ==
  ASSUME IInv, fate = "well", NEW t \in Threads, DispatchStep(t)
  PROVE  IInv'
BY PushJobKeeps, CountKeeps, ScanKeeps, WakeKeeps DEF DispatchStep

-----------------------------------------------------------------------------
(* The worker's loop. *)

(* A step of a worker on itself alone. *)
LEMMA WorkerKeeps ==
  ASSUME IInv, fate = "well", NEW w \in Workers, NEW next \in WorkerLabels \ {"wake"},
         pc[w] # "dead", pc' = [pc EXCEPT ![w] = next],
         next \in {"wait", "asleep", "grab", "pop", "dead"} => current'[w] = NoJob,
         \A v \in Workers \ {w} : current'[v] = current[v],
         UNCHANGED <<locals, freed>>,
         HandedIsHeldOrFreed',
         RingTyped', released' \in SUBSET Jobs, fate' \in {"well", "panicked", "dangling", "undefined"},
         current' \in [Workers -> Contexts \cup {NoJob}],
         busy' \in [Workers -> BOOLEAN], exitConfirmed' \in BOOLEAN,
         UNCHANGED <<overlapped, shouldDie, exitSignal>>
  PROVE  IInv'
<1> USE ThreadFacts DEF IInv
<1>1. /\ pc' \in [Threads -> WorkerLabels \cup MainLabels] /\ pc'[w] = next
      /\ \A u \in Threads \ {w} : pc'[u] = pc[u]
  BY JustMoves
<1>2. Typed'
  BY <1>1 DEF Typed
<1>3. \A u \in Threads \ {w} : Stays(u)
  BY <1>1 DEF Stays
<1>4. Places'
  BY <1>1, <1>3, WorkerMoves
<1> QED BY <1>2, <1>4

LEMMA CheckKeeps ==
  ASSUME IInv, fate = "well", NEW w \in Workers, WorkerCheck(w)
  PROVE  IInv'
<1> USE DEF IInv
<1>1. pc[w] = "check"
  BY DEF WorkerCheck
<1>2. /\ {"dead", "running", "wait"} \subseteq WorkerLabels \ {"wake"}
      /\ current \in [Workers -> Contexts \cup {NoJob}] /\ busy \in [Workers -> BOOLEAN]
      /\ released \in SUBSET Jobs /\ exitConfirmed \in BOOLEAN /\ RingTyped
  BY DEF WorkerLabels, Typed
<1>3. CASE shouldDie[w]
  <2>1. /\ pc' = [pc EXCEPT ![w] = "dead"]
        /\ IF current[w] = NoJob THEN UNCHANGED <<released, fate>> ELSE Release(current[w])
        /\ current' = [current EXCEPT ![w] = NoJob]
        /\ UNCHANGED <<ring, overlapped, locals, busy, shouldDie, freed, signals>>
    BY <1>3 DEF WorkerCheck
  <2>2. /\ current' \in [Workers -> Contexts \cup {NoJob}] /\ current'[w] = NoJob
        /\ \A v \in Workers \ {w} : current'[v] = current[v]
    BY <1>2, <2>1
  <2>3. released' \in SUBSET Jobs /\ fate' \in {"well", "panicked", "dangling", "undefined"} /\ HandedIsHeldOrFreed'
    <3>1. CASE current[w] = NoJob
      <4>1. current' = current
        BY <1>2, <2>1, <3>1
      <4> QED BY <1>2, <2>1, <3>1, <4>1, StillKeeps
    <3>2. CASE current[w] # NoJob
      BY <2>1, <3>2, Relinquish, ReleaseTypes
    <3> QED BY <3>1, <3>2
  <2>4. RingTyped'
    BY <1>2, <2>1 DEF RingTyped
  <2> QED BY <1>1, <1>2, <2>1, <2>2, <2>3, <2>4, WorkerKeeps
<1>4. CASE ~shouldDie[w] /\ current[w] # NoJob
  <2>1. /\ pc' = [pc EXCEPT ![w] = "running"]
        /\ busy' = [busy EXCEPT ![w] = TRUE]
        /\ fate' \in {fate, "undefined"}
        /\ UNCHANGED <<ring, overlapped, released, locals, current, shouldDie, freed, signals>>
    BY <1>4 DEF WorkerCheck
  <2>2. HandedIsHeldOrFreed' /\ busy' \in [Workers -> BOOLEAN] /\ RingTyped'
    BY <1>2, <2>1, StillKeeps DEF RingTyped
  <2> QED BY <1>1, <1>2, <2>1, <2>2, WorkerKeeps
<1>5. CASE ~shouldDie[w] /\ current[w] = NoJob
  <2>1. /\ pc' = [pc EXCEPT ![w] = "wait"]
        /\ UNCHANGED <<ring, jobs, locals, workers, signals>>
    BY <1>5 DEF WorkerCheck
  <2>2. HandedIsHeldOrFreed' /\ RingTyped'
    BY <1>2, <2>1, StillKeeps DEF RingTyped
  <2> QED BY <1>1, <1>2, <1>5, <2>1, <2>2, WorkerKeeps
<1> QED BY <1>3, <1>4, <1>5

(* Going to sleep, waking up for no reason, and the systems thread that    *)
(* confirms the exit.                                                      *)
LEMMA DozeKeeps ==
  ASSUME IInv, fate = "well", NEW w \in Workers, WorkerSleep(w) \/ SpuriousWakeup(w) \/ ConfirmExit(w)
  PROVE  IInv'
<1> USE DEF IInv
<1>1. PICK next \in {"asleep", "grab", "running"} :
        /\ pc[w] \in {"wait", "asleep", "running"} /\ pc' = [pc EXCEPT ![w] = next]
        /\ next # "running" => pc[w] \in {"wait", "asleep"}
        /\ exitConfirmed' \in {exitConfirmed, TRUE}
        /\ UNCHANGED <<ring, jobs, locals, workers, exitSignal>>
  BY DEF WorkerSleep, SpuriousWakeup, ConfirmExit
<1>2. next \in WorkerLabels \ {"wake"}
  BY DEF WorkerLabels
<1>3. HandedIsHeldOrFreed'
  BY <1>1, StillKeeps
<1>4. /\ RingTyped' /\ exitConfirmed' \in BOOLEAN /\ released' \in SUBSET Jobs
      /\ current' \in [Workers -> Contexts \cup {NoJob}] /\ busy' \in [Workers -> BOOLEAN]
  BY <1>1 DEF Typed, RingTyped
<1>5. next # "running" => current[w] = NoJob
  BY <1>1 DEF Places, WorkerInv
<1> QED BY <1>1, <1>2, <1>3, <1>4, <1>5, WorkerKeeps

(* A pop begins, goes on, and puts what it returns into empty hands.       *)
LEMMA GrabKeeps ==
  ASSUME IInv, fate = "well", NEW w \in Workers, WorkerGrab(w) \/ WorkerPops(w)
  PROVE  IInv'
<1> USE DEF IInv
<1>1. /\ {"pop", "check"} \subseteq WorkerLabels \ {"wake"} /\ w \in Threads
      /\ current \in [Workers -> Contexts \cup {NoJob}] /\ busy \in [Workers -> BOOLEAN]
      /\ released \in SUBSET Jobs /\ exitConfirmed \in BOOLEAN /\ RingTyped
      /\ pc \in [Threads -> WorkerLabels \cup MainLabels]
  BY ThreadFacts DEF WorkerLabels, Typed
<1>2. pc[w] \in {"grab", "pop"} /\ current[w] = NoJob
  BY DEF WorkerGrab, WorkerPops, Places, WorkerInv
<1>3. CASE WorkerGrab(w)
  <2>1. /\ pc' = [pc EXCEPT ![w] = "pop"] /\ Q!PopBegin(Popper(w))
        /\ UNCHANGED <<jobs, locals, workers, signals>>
    BY <1>3 DEF WorkerGrab
  <2>2. RingTyped' /\ delivered' = delivered
    BY <1>1, <2>1, RoleFacts, PopBeginKeeps
  <2>3. HandedIsHeldOrFreed'
    BY <2>1, <2>2, StillKeeps
  <2> QED BY <1>1, <1>2, <2>1, <2>2, <2>3, WorkerKeeps
<1>4. CASE WorkerPops(w)
  <2>1. /\ Q!PopStep(Popper(w)) /\ pc[w] = "pop"
        /\ IF at'[Popper(w)] = "idle"
           THEN pc' = [pc EXCEPT ![w] = "check"] /\ current' = [current EXCEPT ![w] = Popped]
           ELSE UNCHANGED <<pc, current>>
        /\ UNCHANGED <<jobs, locals, busy, shouldDie, freed, signals>>
    BY <1>4 DEF WorkerPops
  <2>2. /\ RingTyped'
        /\ \/ delivered' = delivered
           \/ at'[Popper(w)] = "idle" /\ \E j \in Contexts : delivered' = Append(delivered, j)
    BY <1>1, <2>1, RoleFacts, PopStepKeeps
  <2>3. delivered \in Seq(Contexts)
    BY <1>1 DEF RingTyped
  <2>4. CASE delivered' = delivered
    <3>1. current' = current
      BY <1>1, <1>2, <2>1, <2>3, <2>4, PoppedIs
    <3>2. HandedIsHeldOrFreed'
      BY <2>1, <2>4, <3>1, StillKeeps
    <3>3. PICK next \in {"pop", "check"} : pc' = [pc EXCEPT ![w] = next]
      BY <1>1, <2>1
    <3> QED BY <1>1, <1>2, <2>1, <2>2, <3>1, <3>2, <3>3, WorkerKeeps
  <2>5. CASE at'[Popper(w)] = "idle" /\ \E j \in Contexts : delivered' = Append(delivered, j)
    <3>1. PICK v \in Contexts : delivered' = Append(delivered, v)
      BY <2>5
    <3>2. pc' = [pc EXCEPT ![w] = "check"] /\ current' = [current EXCEPT ![w] = v]
      BY <2>1, <2>3, <2>5, <3>1, PoppedIs
    <3>3. HandedIsHeldOrFreed'
      <4> SUFFICES ASSUME NEW j \in Jobs
                   PROVE  Handed(j)' = Cardinality(HeldBy(j)') + (IF j \in released' THEN 1 ELSE 0)
        BY DEF HandedIsHeldOrFreed
      <4>1. Handed(j) = Cardinality(HeldBy(j)) + (IF j \in released THEN 1 ELSE 0)
        BY DEF HandedIsHeldOrFreed
      <4>2. Handed(j)' = Handed(j) + (IF v = j THEN 1 ELSE 0)
        BY <2>3, <3>1, HandedAppend
      <4>3. Cardinality(HeldBy(j)') = Cardinality(HeldBy(j)) + (IF v = j THEN 1 ELSE 0)
        BY <1>1, <1>2, <3>2, HeldTake
      <4>4. Cardinality(HeldBy(j)) \in Nat /\ released' = released
        BY <2>1, HeldFinite
      <4> HIDE DEF HandedIsHeldOrFreed
      <4> QED BY <4>1, <4>2, <4>3, <4>4
    <3>4. /\ current' \in [Workers -> Contexts \cup {NoJob}]
          /\ \A u \in Workers \ {w} : current'[u] = current[u]
      BY <1>1, <3>2
    <3> QED BY <1>1, <1>2, <2>1, <2>2, <3>2, <3>3, <3>4, WorkerKeeps
  <2> QED BY <2>2, <2>4, <2>5
<1> QED BY <1>3, <1>4

LEMMA ReturnKeeps ==
  ASSUME IInv, fate = "well", NEW w \in Workers, JobReturns(w)
  PROVE  IInv'
<1> USE DEF IInv
<1>1. /\ pc[w] = "running" /\ pc' = [pc EXCEPT ![w] = "grab"]
      /\ busy' = [busy EXCEPT ![w] = FALSE]
      /\ current' = [current EXCEPT ![w] = NoJob]
      /\ Release(current[w])
      /\ UNCHANGED <<ring, overlapped, locals, shouldDie, freed, signals>>
  BY DEF JobReturns
<1>2. /\ "grab" \in WorkerLabels \ {"wake"}
      /\ current \in [Workers -> Contexts \cup {NoJob}] /\ busy' \in [Workers -> BOOLEAN]
      /\ exitConfirmed \in BOOLEAN /\ RingTyped'
  BY <1>1 DEF WorkerLabels, Typed, RingTyped
<1>3. /\ current' \in [Workers -> Contexts \cup {NoJob}] /\ current'[w] = NoJob
      /\ \A v \in Workers \ {w} : current'[v] = current[v]
  BY <1>1, <1>2
<1>4. HandedIsHeldOrFreed'
  BY <1>1, Relinquish
<1>5. released' \in SUBSET Jobs /\ fate' \in {"well", "panicked", "dangling", "undefined"}
  BY <1>1, ReleaseTypes
<1> QED BY <1>1, <1>2, <1>3, <1>4, <1>5, WorkerKeeps

-----------------------------------------------------------------------------
(* The main thread: its loop, and destroy. *)

LEMMA LoopKeeps ==
  ASSUME IInv, fate = "well", MainLoop \/ TeardownEnds
  PROVE  IInv'
<1> USE ThreadFacts DEF IInv
<1>1. PICK next \in {"bump", "teardown", "kill"} :
        /\ pc' = [pc EXCEPT ![Main] = next]
        /\ pc[Main] \in {"loop", "teardown"}
        /\ scan' = IF next = "kill" THEN [scan EXCEPT ![Main] = 1] ELSE scan
        /\ exitSignal' \in {exitSignal, TRUE}
        /\ UNCHANGED <<ring, jobs, counted, workers, exitConfirmed>>
  BY DEF MainLoop, TeardownEnds
<1>2. next \in MainLabels
  BY DEF MainLabels
<1>3. /\ pc' \in [Threads -> WorkerLabels \cup MainLabels] /\ pc'[Main] = next
      /\ \A w \in Workers : pc'[w] = pc[w]
  BY <1>1, <1>2, JustMoves
<1>4. /\ scan' \in [Threads -> 1 .. NumWorkers + 1] /\ \A w \in Workers : scan'[w] = scan[w]
      /\ next = "kill" => scan'[Main] = 1
  BY <1>1 DEF Typed
<1>5. exitSignal' \in BOOLEAN
  BY <1>1 DEF Typed
<1>6. Typed'
  BY <1>1, <1>3, <1>4, <1>5 DEF Typed, RingTyped
<1>7. MainInv'
  <2>1. freed = {} /\ freed' = freed
    BY <1>1 DEF Places, MainInv
  <2>2. next = "kill" => freed' = 1 .. scan'[Main] - 1 /\ scan'[Main] \in Workers
    BY <1>4, <2>1
  <2> QED BY <1>2, <1>3, <2>1, <2>2 DEF MainInv
<1>8. Places'
  BY <1>1, <1>3, <1>4, <1>7, MainMoves DEF Stays
<1>9. HandedIsHeldOrFreed'
  BY <1>1, StillKeeps
<1> QED BY <1>6, <1>8, <1>9

(* shouldDie, and the wake that goes with it. *)
LEMMA KillKeeps ==
  ASSUME IInv, fate = "well", KillWorker \/ RouseWorker
  PROVE  IInv'
<1> USE ThreadFacts DEF IInv
<1>1. HandedIsHeldOrFreed'
  BY StillKeeps DEF KillWorker, RouseWorker
<1>2. CASE KillWorker
  <2>1. /\ pc[Main] = "kill" /\ pc' = [pc EXCEPT ![Main] = "rouse"]
        /\ shouldDie' = [shouldDie EXCEPT ![scan[Main]] = TRUE]
        /\ UNCHANGED <<ring, jobs, locals, current, busy, freed, signals>>
    BY <1>2 DEF KillWorker
  <2>2. /\ pc' \in [Threads -> WorkerLabels \cup MainLabels] /\ pc'[Main] = "rouse"
        /\ \A w \in Workers : pc'[w] = pc[w]
    BY <2>1, JustMoves DEF MainLabels
  <2>3. shouldDie' \in [Workers -> BOOLEAN]
    BY <2>1 DEF Typed
  <2>4. Typed'
    BY <2>1, <2>2, <2>3 DEF Typed, RingTyped
  <2>5. MainInv'
    BY <2>1, <2>2 DEF Places, MainInv, MainLabels
  <2>6. Places'
    BY <2>1, <2>2, <2>5, MainMoves DEF Stays
  <2> QED BY <1>1, <2>4, <2>6
<1>3. CASE RouseWorker
  <2>1. /\ pc[Main] = "rouse" /\ Wake(Main, scan[Main], "join")
        /\ UNCHANGED <<ring, jobs, locals, workers, signals>>
    BY <1>3 DEF RouseWorker
  <2>2. scan[Main] \in Workers /\ "join" \in MainLabels
    BY <2>1 DEF Places, MainInv, MainLabels
  <2>3. /\ pc' \in [Threads -> WorkerLabels \cup MainLabels] /\ pc'[Main] = "join"
        /\ \A w \in Workers : pc'[w] = pc[w] \/ (pc[w] = "asleep" /\ pc'[w] = "grab")
    BY <2>1, <2>2, WakeMoves
  <2>4. Typed'
    BY <2>1, <2>3 DEF Typed, RingTyped
  <2>5. MainInv'
    BY <2>1, <2>2, <2>3 DEF Places, MainInv
  <2>6. Places'
    BY <2>1, <2>3, <2>5, MainMoves DEF Stays
  <2> QED BY <1>1, <2>4, <2>6
<1> QED BY <1>2, <1>3

(* join returns when the worker is dead, and destroy comes to the next. *)
LEMMA JoinKeeps ==
  ASSUME IInv, fate = "well", JoinWorker
  PROVE  IInv'
<1> USE ThreadFacts DEF IInv
<1> DEFINE next == IF scan[Main] = NumWorkers THEN "clear" ELSE "kill"
<1>1. /\ pc[Main] = "join" /\ pc' = [pc EXCEPT ![Main] = next]
      /\ pc[scan[Main]] = "dead"
      /\ freed' = freed \cup {scan[Main]}
      /\ scan' = [scan EXCEPT ![Main] = scan[Main] + 1]
      /\ UNCHANGED <<ring, jobs, counted, current, busy, shouldDie, signals>>
  BY DEF JoinWorker
<1>2. next \in MainLabels /\ next \in {"clear", "kill"}
  BY DEF MainLabels
<1>3. /\ scan[Main] \in 1 .. NumWorkers /\ freed = 1 .. scan[Main] - 1
      /\ scan \in [Threads -> 1 .. NumWorkers + 1]
  BY <1>1 DEF Places, MainInv, Typed
<1>4. /\ pc' \in [Threads -> WorkerLabels \cup MainLabels] /\ pc'[Main] = next
      /\ \A w \in Workers : pc'[w] = pc[w]
  BY <1>1, <1>2, JustMoves
<1>5. /\ scan' \in [Threads -> 1 .. NumWorkers + 1] /\ scan'[Main] = scan[Main] + 1
      /\ \A w \in Workers : scan'[w] = scan[w]
  BY <1>1, <1>3
<1>6. /\ freed' = 1 .. scan'[Main] - 1 /\ freed' \subseteq Workers
      /\ next = "clear" => freed' = Workers
      /\ next = "kill" => scan'[Main] \in Workers
  BY <1>1, <1>3, <1>5
<1>7. \A w \in freed' : pc'[w] = "dead"
  BY <1>1, <1>3, <1>4, <1>6 DEF Places, WorkerInv
<1>8. Typed'
  BY <1>1, <1>4, <1>5, <1>6 DEF Typed, RingTyped
<1>9. MainInv'
  BY <1>2, <1>4, <1>6 DEF MainInv
<1>10. \A w \in Workers : WorkerInv(w)'
  BY <1>1, <1>4, <1>5, <1>7 DEF Places, WorkerInv
<1>11. HandedIsHeldOrFreed'
  BY <1>1, StillKeeps
<1> QED BY <1>8, <1>9, <1>10, <1>11 DEF Places

(* clearJobs pops one context after the other and frees it. *)
LEMMA ClearKeeps ==
  ASSUME IInv, fate = "well", ClearJobs \/ ClearPops
  PROVE  IInv'
<1> USE ThreadFacts DEF IInv
<1>1. PICK next \in {"clear", "pop", "destroyed"} :
        pc[Main] \in {"clear", "pop"} /\ pc' = [pc EXCEPT ![Main] = next]
  <2>1. CASE ClearJobs
    BY <2>1 DEF ClearJobs
  <2>2. CASE ClearPops
    <3>1. pc \in [Threads -> WorkerLabels \cup MainLabels]
      BY DEF Typed
    <3>2. pc[Main] = "pop" /\ (pc' = pc \/ \E l \in {"clear", "destroyed"} : pc' = [pc EXCEPT ![Main] = l])
      BY <2>2 DEF ClearPops
    <3> QED BY <3>1, <3>2
  <2> QED BY <2>1, <2>2
<1>2. /\ pc' \in [Threads -> WorkerLabels \cup MainLabels] /\ pc'[Main] = next
      /\ \A w \in Workers : pc'[w] = pc[w]
  BY <1>1, JustMoves DEF MainLabels
<1>3. /\ UNCHANGED <<overlapped, locals, workers, signals>>
      /\ freed = Workers /\ pc[Main] # "destroyed"
  BY <1>1 DEF ClearJobs, ClearPops, Places, MainInv
<1>4. /\ RingTyped'
      /\ released' \in SUBSET Jobs /\ fate' \in {"well", "panicked", "dangling", "undefined"}
      /\ HandedIsHeldOrFreed'
      /\ pc'[Main] = "destroyed" => fate' = "well"
  <2>1. CASE ClearJobs
    <3>1. /\ Q!PopBegin(Popper(Main)) /\ pc' = [pc EXCEPT ![Main] = "pop"]
          /\ UNCHANGED <<jobs, locals, workers, signals>>
      BY <2>1 DEF ClearJobs
    <3>2. RingTyped' /\ delivered' = delivered
      BY <3>1, RoleFacts, PopBeginKeeps DEF Typed
    <3>3. HandedIsHeldOrFreed'
      BY <3>1, <3>2, StillKeeps
    <3> QED BY <3>1, <3>2, <3>3 DEF Typed
  <2>2. CASE ClearPops
    <3>1. /\ Q!PopStep(Popper(Main))
          /\ IF at'[Popper(Main)] # "idle" THEN UNCHANGED <<pc, released, fate>>
             ELSE IF Popped = NoJob
             THEN pc' = [pc EXCEPT ![Main] = "destroyed"] /\ UNCHANGED <<released, fate>>
             ELSE pc' = [pc EXCEPT ![Main] = "clear"] /\ Release(Popped)
      BY <2>2 DEF ClearPops
    <3>2. /\ RingTyped'
          /\ \/ delivered' = delivered
             \/ at'[Popper(Main)] = "idle" /\ \E j \in Contexts : delivered' = Append(delivered, j)
      BY <3>1, RoleFacts, PopStepKeeps DEF Typed
    <3>3. delivered \in Seq(Contexts) /\ released \in SUBSET Jobs
      BY DEF Typed, RingTyped
    <3>4. CASE delivered' = delivered
      <4>1. UNCHANGED <<released, fate>>
        BY <3>1, <3>3, <3>4, PoppedIs
      <4>2. HandedIsHeldOrFreed'
        BY <1>3, <3>4, <4>1, StillKeeps
      <4> QED BY <3>2, <3>3, <4>1, <4>2
    <3>5. CASE at'[Popper(Main)] = "idle" /\ \E j \in Contexts : delivered' = Append(delivered, j)
      <4>1. PICK v \in Contexts : delivered' = Append(delivered, v)
        BY <3>5
      <4>2. Release(v) /\ pc' = [pc EXCEPT ![Main] = "clear"]
        BY <3>1, <3>3, <3>5, <4>1, PoppedIs, ContextFacts
      <4>3. pc'[Main] # "destroyed"
        BY <4>2 DEF Typed
      <4>4. HandedIsHeldOrFreed'
        <5> SUFFICES ASSUME fate' = "well", NEW j \in Jobs
                     PROVE  Handed(j)' = Cardinality(HeldBy(j)') + (IF j \in released' THEN 1 ELSE 0)
          BY DEF HandedIsHeldOrFreed
        <5>1. v \in Jobs \ released /\ released' = released \cup {v}
          BY <4>2 DEF Release, Usable
        <5>2. Handed(j) = Cardinality(HeldBy(j)) + (IF j \in released THEN 1 ELSE 0)
          BY DEF HandedIsHeldOrFreed
        <5>3. Handed(j)' = Handed(j) + (IF v = j THEN 1 ELSE 0)
          BY <3>3, <4>1, HandedAppend
        <5>4. HeldBy(j)' = HeldBy(j) /\ Cardinality(HeldBy(j)) \in Nat
          BY <1>3, HeldFinite DEF HeldBy
        <5> HIDE DEF HandedIsHeldOrFreed
        <5>5. CASE v = j
          <6>1. j \notin released /\ j \in released'
            BY <5>1, <5>5
          <6> QED BY <5>2, <5>3, <5>4, <5>5, <6>1
        <5>6. CASE v # j
          <6>1. j \in released' <=> j \in released
            BY <5>1, <5>6
          <6> QED BY <5>2, <5>3, <5>4, <5>6, <6>1
        <5> QED BY <5>5, <5>6
      <4>5. released' \in SUBSET Jobs /\ fate' \in {"well", "panicked", "dangling", "undefined"}
        BY <4>2, ReleaseTypes
      <4> QED BY <3>2, <4>3, <4>4, <4>5
    <3> QED BY <3>2, <3>4, <3>5
  <2> QED BY <2>1, <2>2
<1>5. Typed'
  BY <1>2, <1>3, <1>4 DEF Typed
<1>6. MainInv'
  BY <1>2, <1>3, <1>4 DEF MainInv, MainLabels
<1>7. Places'
  BY <1>2, <1>3, <1>6, MainMoves DEF Stays
<1> QED BY <1>4, <1>5, <1>7

-----------------------------------------------------------------------------

LEMMA InitHolds == Init => IInv
<1> SUFFICES ASSUME Init PROVE IInv
  OBVIOUS
<1> USE ThreadFacts, SlotFacts, ContextFacts DEF Init
<1>1. RingTyped
  <2>1. at \in [Pushers \cup Poppers -> Q!PushLabels \cup Q!PopLabels]
    BY DEF Q!Init, Q!Threads, Q!PushLabels, Q!PopLabels
  <2> QED BY <2>1 DEF Q!Init, RingTyped
<1>2. /\ pc \in [Threads -> WorkerLabels \cup MainLabels]
      /\ pc[Main] = "run" /\ \A w \in Workers : pc[w] = "check"
  BY DEF WorkerLabels, MainLabels
<1>3. /\ current \in [Workers -> Contexts \cup {NoJob}]
      /\ scan \in [Threads -> 1 .. NumWorkers + 1]
  OBVIOUS
<1>4. Typed
  BY <1>1, <1>2, <1>3 DEF Typed
<1>5. Places
  BY <1>2 DEF Places, MainInv, WorkerInv, MainLabels, WorkerLabels
<1>6. ASSUME NEW j \in Jobs
      PROVE  Handed(j) = Cardinality(HeldBy(j)) + (IF j \in released THEN 1 ELSE 0)
  <2>1. HeldBy(j) = {}
    BY DEF HeldBy
  <2>2. {k \in DOMAIN delivered : delivered[k] = j} = {}
    BY DEF Q!Init
  <2>3. Cardinality(HeldBy(j)) = 0 /\ Handed(j) = 0 /\ j \notin released
    BY <2>1, <2>2, FS_EmptySet DEF Handed
  <2> QED BY <2>3
<1> QED BY <1>4, <1>5, <1>6 DEF IInv, HandedIsHeldOrFreed

LEMMA Inductive == IInv /\ [Next]_vars => IInv'
<1> SUFFICES ASSUME IInv, [Next]_vars
             PROVE  IInv'
  OBVIOUS
<1>1. CASE MainStep
  <2>1. fate = "well"
    BY <1>1 DEF MainStep
  <2>2. CASE Run
    <3>1. NewJob(Main) /\ pc[Main] = "run"
      BY <2>2 DEF Run
    <3> QED BY <2>1, <3>1, ThreadFacts, NewJobKeeps
  <2> QED BY <1>1, <2>1, <2>2, ThreadFacts, DispatchKeeps, LoopKeeps, KillKeeps, JoinKeeps, ClearKeeps DEF MainStep
<1>2. CASE Liberty
  <2>1. fate = "well"
    BY <1>2 DEF Liberty
  <2>2. CASE MainDispatches
    <3>1. NewJob(Main) /\ pc[Main] \in {"loop", "teardown"}
      BY <2>2 DEF MainDispatches
    <3> QED BY <2>1, <3>1, ThreadFacts, NewJobKeeps
  <2>3. ASSUME NEW w \in Workers, JobDispatches(w)
        PROVE  IInv'
    <3>1. NewJob(w) /\ pc[w] = "running" /\ w \in Threads /\ w # Main
      BY <2>3, ThreadFacts DEF JobDispatches
    <3> QED BY <2>1, <3>1, NewJobKeeps
  <2> QED BY <1>2, <2>1, <2>2, <2>3, DozeKeeps DEF Liberty
<1>3. ASSUME NEW w \in Workers, WorkerStep(w)
      PROVE  IInv'
  <2>1. fate = "well"
    BY <1>3 DEF WorkerStep
  <2> QED BY <1>3, <2>1, ThreadFacts, DispatchKeeps, CheckKeeps, DozeKeeps, GrabKeeps, ReturnKeeps DEF WorkerStep
<1>4. CASE UNCHANGED vars
  <2>1. UNCHANGED <<ring, jobs, pc, locals, workers, signals>>
    BY <1>4 DEF vars
  <2>2. HandedIsHeldOrFreed'
    BY <2>1 DEF IInv, HandedIsHeldOrFreed, Handed, HeldBy
  <2>3. Typed' /\ Places'
    BY <2>1 DEF IInv, Typed, RingTyped, Places, MainInv, WorkerInv
  <2> QED BY <2>2, <2>3 DEF IInv
<1> QED BY <1>1, <1>2, <1>3, <1>4 DEF Next

THEOREM Invariance == Spec => []IInv
BY InitHolds, Inductive, PTL DEF Spec

(* The fields of the manager, of its workers and of the ring keep their    *)
(* types, however many threads push and pop at once.                       *)
THEOREM TypeCorrect == Spec => []TypeOK
<1>1. IInv => TypeOK
  BY TypesAgree DEF IInv
<1> QED BY <1>1, Invariance, PTL

(* Whatever the ring does with a context (it may hand out one twice, or    *)
(* one that newJob reported as refused), the threads lose none that it     *)
(* hands out: each time it is in a worker's hands or freed by one of the   *)
(* three calls of deinit.                                                  *)
THEOREM HandOutsAreKept == Spec => []HandedIsHeldOrFreed
<1>1. IInv => HandedIsHeldOrFreed
  BY DEF IInv
<1> QED BY <1>1, Invariance, PTL

(* destroy joins every worker before it empties the ring, and when it is   *)
(* done every context that ever left the ring is freed.                    *)
THEOREM DestroyIsComplete == Spec => []NothingOutlivesDestroy
<1>1. ASSUME IInv, pc[Main] = "destroyed", NEW j \in Jobs, Handed(j) > 0
      PROVE  j \in released
  <2>1. fate = "well" /\ freed = Workers
    BY <1>1 DEF IInv, Places, MainInv
  <2>2. \A w \in Workers : current[w] = NoJob
    BY <1>1, <2>1 DEF IInv, Places, WorkerInv
  <2>3. HeldBy(j) = {}
    BY <1>1, <2>2, ContextFacts DEF HeldBy
  <2>4. Cardinality(HeldBy(j)) = 0 /\ (j \notin released => Handed(j) = 0)
    BY <1>1, <2>1, <2>3, FS_EmptySet DEF IInv, HandedIsHeldOrFreed
  <2> QED BY <1>1, <2>4
<1>2. IInv /\ pc[Main] = "destroyed" => freed = Workers
  BY DEF IInv, Places, MainInv
<1>3. IInv => NothingOutlivesDestroy
  BY <1>1, <1>2 DEF NothingOutlivesDestroy
<1> QED BY <1>3, Invariance, PTL

=============================================================================
