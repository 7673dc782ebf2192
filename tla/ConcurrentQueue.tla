--------------------------- MODULE ConcurrentQueue ---------------------------
(***************************************************************************)
(* The fixed-capacity lock-free queue of lib/p2 (ConcurrentQueueU).  It    *)
(* carries the job queue (many producers, many consumers), the platform's  *)
(* input events and the file dialog's callbacks (one of each).             *)
(*                                                                         *)
(* One action per atomic access: a thread may be preempted between any two *)
(* of them.  A value is the number of the push that carried it, so what is *)
(* delivered can be compared with what was pushed.                         *)
(***************************************************************************)
EXTENDS Integers, Sequences, FiniteSets

CONSTANTS
  Producers,    \* threads that may call push
  Consumers,    \* threads that may call pop
  Deployments,  \* the sets of threads that share one queue
  Capacity,     \* the argument of initCapacity
  MaxPushes     \* bound on the calls of push, in all threads together

ASSUME ThreadAssumption ==
  /\ Producers \cap Consumers = {}
  /\ Deployments \subseteq SUBSET (Producers \cup Consumers)
ASSUME CapacityAssumption == Capacity \in Nat \ {0}
ASSUME BoundAssumption == MaxPushes \in Nat

VARIABLES
  data,       \* data[i]: the value last written to slot i
  status,     \* status[i]: slot i is claimed by a push and not yet by a pop
  head,       \* index the next pop starts from
  tail,       \* index the next push starts from
  pc,         \* pc[t]: the next atomic access of thread t
  push,       \* push[p]: the locals of p's call of push
  pop,        \* pop[c]: the locals of c's call of pop
  pushes,     \* history: calls of push begun so far
  rejected,   \* history: pushes that returned QueueIsFull
  delivered   \* history: values returned by pop, in order

queue == <<data, status, head, tail>>
history == <<pushes, rejected, delivered>>
vars == <<queue, pc, push, pop, history>>

Threads == Producers \cup Consumers
NumSlots == Capacity + 1
Slots == 0 .. NumSlots - 1

(* Mutant: the index is not taken modulo the number of slots. *)
NextSlotUnwrapped(i) == i + 1

(* (i + 1) % data.len for an index of the array. *)
NextSlot(i) == IF i = NumSlots - 1 THEN 0 ELSE i + 1

(* alloc leaves the slots undefined; no push has the number 0. *)
Undefined == 0

Init ==
  /\ data = [i \in Slots |-> Undefined]
  /\ status = [i \in Slots |-> FALSE]
  /\ head = 0
  /\ tail = 1
  /\ \E d \in Deployments : pc = [t \in Threads |-> IF t \in d THEN "idle" ELSE "absent"]
  /\ push = [p \in Producers |-> [value |-> Undefined, expected |-> 0, write |-> 0, seen |-> 0]]
  /\ pop = [c \in Consumers |-> [expected |-> 0, index |-> 0, newHead |-> 0, seen |-> 0]]
  /\ pushes = 0
  /\ rejected = {}
  /\ delivered = <<>>

Goto(t, from, to) == pc[t] = from /\ pc' = [pc EXCEPT ![t] = to]

-----------------------------------------------------------------------------
(* push *)

PushBegin(p) ==
  /\ Goto(p, "idle", "claim")
  /\ pushes < MaxPushes
  /\ pushes' = pushes + 1
  /\ push' = [push EXCEPT ![p] = [value |-> pushes', expected |-> tail, write |-> tail, seen |-> tail]]
  /\ UNCHANGED <<queue, pop, rejected, delivered>>

(* cmpxchg on the slot's status; a slot that is taken sends the scan on. *)
PushClaimed(p) ==
  /\ Goto(p, "claim", "write")
  /\ ~status[push[p].write]
  /\ status' = [status EXCEPT ![push[p].write] = TRUE]
  /\ UNCHANGED <<data, head, tail, push, pop, history>>

(* Mutant: the scan retries the slot it found taken. *)
PushSkipsInPlace(p) ==
  /\ Goto(p, "claim", "skipped")
  /\ status[push[p].write]
  /\ UNCHANGED <<queue, push, pop, history>>

PushSkips(p) ==
  /\ Goto(p, "claim", "skipped")
  /\ status[push[p].write]
  /\ push' = [push EXCEPT ![p].write = NextSlot(@)]
  /\ UNCHANGED <<queue, pop, history>>

PushWrite(p) ==
  /\ Goto(p, "write", "written")
  /\ data' = [data EXCEPT ![push[p].write] = push[p].value]
  /\ push' = [push EXCEPT ![p].write = NextSlot(@)]
  /\ UNCHANGED <<status, head, tail, pop, history>>

(* The index moved on, past a taken slot or past the slot just written, is  *)
(* compared with head.  A push that is refused after writing leaves its     *)
(* value and its status behind.                                             *)
PushFull(p) ==
  /\ Goto(p, "skipped", "idle") \/ Goto(p, "written", "idle")
  /\ push[p].write = head
  /\ rejected' = rejected \cup {push[p].value}
  /\ UNCHANGED <<queue, push, pop, pushes, delivered>>

(* Mutant: the index is not compared with head. *)
PushHasRoomUnchecked(p) ==
  /\ Goto(p, "skipped", "claim") \/ Goto(p, "written", "publish")
  /\ UNCHANGED <<queue, push, pop, history>>

PushHasRoom(p) ==
  /\ Goto(p, "skipped", "claim") \/ Goto(p, "written", "publish")
  /\ push[p].write # head
  /\ UNCHANGED <<queue, push, pop, history>>

(* Mutant: tail advances by one slot, not past the slot that was claimed. *)
PushPublishNext(p) ==
  /\ Goto(p, "publish", "idle")
  /\ tail' = NextSlot(push[p].expected)
  /\ UNCHANGED <<data, status, head, push, pop, history>>

PushPublish(p) ==
  \/ /\ Goto(p, "publish", "idle")
     /\ tail = push[p].expected
     /\ tail' = push[p].write
     /\ UNCHANGED <<data, status, head, push, pop, history>>
  \/ /\ Goto(p, "publish", "lost")
     /\ tail # push[p].expected
     /\ push' = [push EXCEPT ![p].seen = tail]
     /\ UNCHANGED <<queue, pop, history>>

(* Mutant: the race on tail is retried without adopting the value seen. *)
PushResolveBlindly(p) ==
  /\ Goto(p, "lost", "publish")
  /\ UNCHANGED <<queue, push, pop, history>>

(* A lost race on tail: try again from the value seen, or leave the tail to *)
(* the thread that has moved it past this slot.                             *)
PushResolve(p) ==
  LET again == push[p].expected > push[p].seen \/ push[p].expected < head IN
  /\ Goto(p, "lost", IF again THEN "publish" ELSE "idle")
  /\ push' = IF again THEN [push EXCEPT ![p].expected = push[p].seen] ELSE push
  /\ UNCHANGED <<queue, pop, history>>

-----------------------------------------------------------------------------
(* pop *)

PopBegin(c) ==
  /\ Goto(c, "idle", "empty")
  /\ pop' = [pop EXCEPT ![c] =
       [expected |-> head, index |-> head, newHead |-> NextSlot(head), seen |-> head]]
  /\ UNCHANGED <<queue, push, history>>

PopEmpty(c) ==
  /\ Goto(c, "empty", IF pop[c].newHead = tail THEN "idle" ELSE "take")
  /\ UNCHANGED <<queue, push, pop, history>>

(* Mutant: the slot is tested but not claimed. *)
PopPeeks(c) ==
  /\ Goto(c, "take", "advance")
  /\ status[pop[c].index]
  /\ UNCHANGED <<queue, push, pop, history>>

(* cmpxchg on the slot's status; an empty slot sends the scan on. *)
PopTakes(c) ==
  /\ Goto(c, "take", "advance")
  /\ status[pop[c].index]
  /\ status' = [status EXCEPT ![pop[c].index] = FALSE]
  /\ UNCHANGED <<data, head, tail, push, pop, history>>

PopSkips(c) ==
  /\ Goto(c, "take", "empty")
  /\ ~status[pop[c].index]
  /\ LET next == NextSlot(pop[c].index)
     IN pop' = [pop EXCEPT ![c].index = next, ![c].newHead = next]
  /\ UNCHANGED <<queue, push, history>>

PopAdvance(c) ==
  \/ /\ Goto(c, "advance", "read")
     /\ head = pop[c].expected
     /\ head' = pop[c].newHead
     /\ UNCHANGED <<data, status, tail, push, pop, history>>
  \/ /\ Goto(c, "advance", "lost")
     /\ head # pop[c].expected
     /\ pop' = [pop EXCEPT ![c].seen = head]
     /\ UNCHANGED <<queue, push, history>>

(* A lost race on head: done if another pop moved it past this slot, else   *)
(* try again.                                                               *)
PopResolve(c) ==
  LET seen == pop[c].seen
      new == pop[c].newHead
      passed == seen > new \/ (seen < new /\ seen < tail)
      behind == seen < new \/ (new < seen /\ new < tail)
  IN /\ Goto(c, "lost", IF passed THEN "read" ELSE "advance")
     /\ pop' = IF ~passed /\ behind THEN [pop EXCEPT ![c].expected = seen] ELSE pop
     /\ UNCHANGED <<queue, push, history>>

(* Mutant: the slot read is the one the scan began with. *)
PopReadFirst(c) ==
  /\ Goto(c, "read", "idle")
  /\ delivered' = Append(delivered, data[pop[c].expected])
  /\ UNCHANGED <<queue, push, pop, pushes, rejected>>

PopRead(c) ==
  /\ Goto(c, "read", "idle")
  /\ delivered' = Append(delivered, data[pop[c].index])
  /\ UNCHANGED <<queue, push, pop, pushes, rejected>>

-----------------------------------------------------------------------------

PushStep(p) ==
  \/ PushClaimed(p) \/ PushSkips(p) \/ PushWrite(p)
  \/ PushFull(p) \/ PushHasRoom(p) \/ PushPublish(p) \/ PushResolve(p)

PopStep(c) ==
  \/ PopEmpty(c) \/ PopTakes(c) \/ PopSkips(c)
  \/ PopAdvance(c) \/ PopResolve(c) \/ PopRead(c)

Next ==
  \/ \E p \in Producers : PushBegin(p) \/ PushStep(p)
  \/ \E c \in Consumers : PopBegin(c) \/ PopStep(c)

Spec == Init /\ [][Next]_vars

(* A thread inside a call keeps running, and a consumer keeps polling (the  *)
(* systems thread pumps events every frame); nobody is obliged to push.     *)
FairSpec ==
  /\ Spec
  /\ \A p \in Producers : WF_vars(PushStep(p))
  /\ \A c \in Consumers : WF_vars(PopStep(c)) /\ WF_vars(PopBegin(c))

-----------------------------------------------------------------------------

PushLabels == {"idle", "absent", "claim", "skipped", "write", "written", "publish", "lost"}
PopLabels == {"idle", "absent", "empty", "take", "advance", "lost", "read"}

(* Types: every index a thread holds is an index of the two arrays. *)
TypeOK ==
  /\ data \in [Slots -> Nat]
  /\ status \in [Slots -> BOOLEAN]
  /\ head \in Slots
  /\ tail \in Slots
  /\ pc \in [Threads -> PushLabels \cup PopLabels]
  /\ push \in [Producers -> [value : Nat, expected : Slots, write : Slots, seen : Slots]]
  /\ pop \in [Consumers -> [expected : Slots, index : Slots, newHead : Slots, seen : Slots]]
  /\ pushes \in Nat
  /\ rejected \in SUBSET Nat
  /\ delivered \in Seq(Nat)

(* data[i] is plain memory: a push writes it and a pop reads it outside any *)
(* lock, and no two threads may be at the same slot at once.                *)
NoDataRace ==
  /\ \A p \in Producers, c \in Consumers :
       pc[p] = "write" /\ pc[c] = "read" => push[p].write # pop[c].index
  /\ \A p, q \in Producers :
       p # q /\ pc[p] = "write" /\ pc[q] = "write" => push[p].write # push[q].write

(* count() asserts it: "tail == head in concurrent queue, this shouldnt     *)
(* ever happen".                                                            *)
TailNeverHead == tail # head

(* pushEventSafe: "Excessive events shall be dropped."  A push refused with *)
(* QueueIsFull is never delivered.                                          *)
RejectedIsDropped == \A i \in 1 .. Len(delivered) : delivered[i] \notin rejected

(* While one thread pushes, and for the first turn of the ring, two pops    *)
(* never return the same value, however many threads pop.  Later a push may *)
(* come round to a slot that a pop took, and rewrite it before that pop     *)
(* reads it.                                                                *)
NoDoubleDelivery ==
  (pushes <= NumSlots /\ \A p, q \in Producers : p = q \/ "absent" \in {pc[p], pc[q]}) =>
    \A i, j \in 1 .. Len(delivered) : i # j => delivered[i] # delivered[j]

(* "lock-free": a call of push or pop returns, whatever the others do.      *)
(* Threads that share a side of the queue are not always so lucky: see      *)
(* RetriesEnd.                                                              *)
CallsReturn == \A t \in Threads : pc[t] \notin {"idle", "absent"} ~> pc[t] = "idle"

(* The retry loops end: a push returns however many threads push and pop,   *)
(* and so does a pop while no other thread pops.  Of two pops, one that     *)
(* comes late may take the slot before head: head is then its newHead, for  *)
(* which neither test of its loop allows, and it retries forever.           *)
RetriesEnd ==
  /\ \A p \in Producers : pc[p] \notin {"idle", "absent"} ~> pc[p] = "idle"
  /\ \A c \in Consumers :
       (pc[c] \notin {"idle", "absent"} /\ \A d \in Consumers \ {c} : pc[d] = "absent")
         ~> pc[c] = "idle"

(* A push that was not refused is delivered, as long as somebody polls.     *)
AcceptedIsDelivered ==
  \A v \in 1 .. MaxPushes :
    (pushes >= v /\ \A p \in Producers : push[p].value = v => pc[p] = "idle")
      ~> (v \in rejected \/ \E i \in 1 .. Len(delivered) : delivered[i] = v)

-----------------------------------------------------------------------------
(* Why one producer and one consumer are safe. *)

(* How far b is ahead of a, around the ring. *)
Gap(a, b) == IF a <= b THEN b - a ELSE b - a + NumSlots

(* A push works in the free slots, from tail up to and excluding head...    *)
PushInv(p) ==
  LET w == push[p].write IN
  /\ pc[p] # "lost"
  /\ pc[p] \notin {"idle", "absent"} => push[p].expected = tail
  /\ pc[p] \in {"claim", "write", "publish"} => Gap(tail, w) < Gap(tail, head)
  /\ pc[p] \in {"skipped", "written"} => Gap(tail, w) <= Gap(tail, head)
  /\ pc[p] \in {"skipped", "written", "publish"} => w # tail

(* ... and a pop in the others, never taking the slot at head itself.       *)
PopInv(c) ==
  LET i == pop[c].index
      n == pop[c].newHead
  IN
  /\ pc[c] # "lost"
  /\ pc[c] \in {"empty", "take", "advance"} =>
       /\ pop[c].expected = head
       /\ i = n \/ (i = head /\ n = NextSlot(head))
       /\ n # head
  /\ pc[c] = "empty" => Gap(head, n) <= Gap(head, tail)
  /\ pc[c] \in {"take", "advance"} => Gap(head, n) < Gap(head, tail)
  /\ pc[c] = "advance" => i = n /\ ~status[n]
  /\ pc[c] = "read" => i = head

SingleUserInv ==
  /\ TypeOK
  /\ head # tail /\ ~status[head]
  /\ \A p \in Producers : PushInv(p)
  /\ \A c \in Consumers : PopInv(c)

-----------------------------------------------------------------------------
(* The refinement mapping, for one producer and one consumer. *)

(* The k-th slot after a, around the ring. *)
Ahead(a, k) == IF a + k < NumSlots THEN a + k ELSE a + k - NumSlots

(* The value of a push that has claimed a slot and not yet returned. *)
InProgress(i) ==
  \E p \in Producers :
    \/ pc[p] = "write" /\ push[p].write = i
    \/ pc[p] \in {"written", "publish"} /\ push[p].write = NextSlot(i)

(* The j-th smallest of a set of numbers. *)
Nth(S, j) == CHOOSE k \in S : Cardinality({l \in S : l < k}) = j - 1

(* The values of the claimed slots from first up to end, in their order.    *)
Held(first, end) ==
  LET held == {k \in 0 .. Gap(first, end) - 1 :
                 status[Ahead(first, k)] /\ ~InProgress(Ahead(first, k))}
  IN [j \in 1 .. Cardinality(held) |-> data[Ahead(first, Nth(held, j))]]

Accepted == Held(NextSlot(head), tail)

Retained == Held(tail, head)

Taken ==
  LET taking == {c \in Consumers : pc[c] \in {"advance", "read"}}
  IN IF taking = {} THEN <<>> ELSE <<data[pop[CHOOSE c \in taking : TRUE].index]>>

Delivered == delivered \o Taken

Fifo == INSTANCE RetainingFifo WITH
  Values <- 1 .. MaxPushes,
  Room <- Capacity - 1,
  accepted <- Accepted,
  retained <- Retained,
  delivered <- Delivered

(* One producer and one consumer see a FIFO: nothing accepted is lost,      *)
(* doubled or reordered, and a refused value can only return as the         *)
(* abstract queue's retained values do.                                     *)
RefinesFifo == Fifo!Spec

=============================================================================
