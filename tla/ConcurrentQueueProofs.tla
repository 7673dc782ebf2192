------------------------ MODULE ConcurrentQueueProofs ------------------------
(***************************************************************************)
(* Whatever its capacity and however long it runs, the concurrent queue    *)
(* keeps its indices in range whoever uses it, delivers no value of the    *)
(* ring's first turn twice while one thread pushes, and is, for one        *)
(* producer and one consumer, a bounded FIFO free of data races.           *)
(***************************************************************************)
EXTENDS ConcurrentQueue, FiniteSetTheorems, TLAPS

USE DEF Goto, queue, history

LEMMA SlotLemma ==
  /\ 0 \in Slots /\ 1 \in Slots
  /\ \A i \in Slots : NextSlot(i) \in Slots
BY CapacityAssumption DEF NextSlot, Slots, NumSlots

LEMMA TypeStep == TypeOK /\ [Next]_vars => TypeOK'
<1> SUFFICES ASSUME TypeOK, [Next]_vars PROVE TypeOK'
  OBVIOUS
<1> USE SlotLemma DEF TypeOK, PushLabels, PopLabels
<1>a. Producers \subseteq Threads /\ Consumers \subseteq Threads
  BY DEF Threads
<1> USE <1>a
<1>1. CASE UNCHANGED vars
  BY <1>1 DEF vars
<1>2. ASSUME NEW p \in Producers, PushBegin(p) PROVE TypeOK'
  <2>1. pushes' \in Nat
    BY <1>2 DEF PushBegin
  <2>2. push' \in [Producers -> [value : Nat, expected : Slots, write : Slots, seen : Slots]]
    BY <1>2, <2>1 DEF PushBegin
  <2>3. QED
    BY <1>2, <2>1, <2>2 DEF PushBegin
<1>3. ASSUME NEW p \in Producers, PushStep(p) PROVE TypeOK'
  <2>1. CASE PushClaimed(p)
    BY <2>1 DEF PushClaimed
  <2>2. CASE PushSkips(p)
    BY <2>2 DEF PushSkips
  <2>3. CASE PushWrite(p)
    BY <2>3 DEF PushWrite
  <2>4. CASE PushFull(p)
    <3>1. pc' \in [Threads -> PushLabels \cup PopLabels]
      BY <2>4 DEF PushFull
    <3>2. rejected' \in SUBSET Nat
      <4>1. rejected' = rejected \cup {push[p].value}
        BY <2>4 DEF PushFull
      <4>2. push[p].value \in Nat /\ rejected \in SUBSET Nat
        OBVIOUS
      <4>3. QED
        BY Zenon, <4>1, <4>2
    <3>3. UNCHANGED <<queue, push, pop, pushes, delivered>>
      BY <2>4 DEF PushFull
    <3>4. QED
      BY <3>1, <3>2, <3>3
  <2>5. CASE PushHasRoom(p)
    <3>1. pc' \in [Threads -> PushLabels \cup PopLabels]
      BY <2>5 DEF PushHasRoom
    <3>2. UNCHANGED <<queue, push, pop, history>>
      BY <2>5 DEF PushHasRoom
    <3>3. QED
      BY <3>1, <3>2
  <2>6. CASE PushPublish(p)
    <3>1. pc' \in [Threads -> PushLabels \cup PopLabels]
      BY <2>6 DEF PushPublish
    <3>2. tail' \in Slots
      BY <2>6 DEF PushPublish
    <3>3. push' \in [Producers -> [value : Nat, expected : Slots, write : Slots, seen : Slots]]
      <4>1. push' = push \/ push' = [push EXCEPT ![p].seen = tail]
        BY <2>6 DEF PushPublish
      <4>2. [push EXCEPT ![p].seen = tail] \in [Producers -> [value : Nat, expected : Slots, write : Slots, seen : Slots]]
        OBVIOUS
      <4>3. QED
        BY <4>1, <4>2
    <3>4. UNCHANGED <<data, status, head, pop, history>>
      BY <2>6 DEF PushPublish
    <3>5. QED
      BY <3>1, <3>2, <3>3, <3>4
  <2>7. CASE PushResolve(p)
    BY <2>7 DEF PushResolve
  <2>8. QED
    BY <1>3, <2>1, <2>2, <2>3, <2>4, <2>5, <2>6, <2>7 DEF PushStep
<1>4. ASSUME NEW c \in Consumers, PopBegin(c) PROVE TypeOK'
  BY <1>4 DEF PopBegin
<1>5. ASSUME NEW c \in Consumers, PopStep(c) PROVE TypeOK'
  <2>1. CASE PopEmpty(c)
    BY <2>1 DEF PopEmpty
  <2>2. CASE PopTakes(c)
    BY <2>2 DEF PopTakes
  <2>3. CASE PopSkips(c)
    BY <2>3 DEF PopSkips
  <2>4. CASE PopAdvance(c)
    <3>1. pc' \in [Threads -> PushLabels \cup PopLabels]
      BY <2>4 DEF PopAdvance
    <3>2. head' \in Slots
      BY <2>4 DEF PopAdvance
    <3>3. pop' \in [Consumers -> [expected : Slots, index : Slots, newHead : Slots, seen : Slots]]
      <4>1. pop' = pop \/ pop' = [pop EXCEPT ![c].seen = head]
        BY <2>4 DEF PopAdvance
      <4>2. [pop EXCEPT ![c].seen = head] \in [Consumers -> [expected : Slots, index : Slots, newHead : Slots, seen : Slots]]
        OBVIOUS
      <4>3. QED
        BY <4>1, <4>2
    <3>4. UNCHANGED <<data, status, tail, push, history>>
      BY <2>4 DEF PopAdvance
    <3>5. QED
      BY <3>1, <3>2, <3>3, <3>4
  <2>5. CASE PopResolve(c)
    BY <2>5 DEF PopResolve
  <2>6. CASE PopRead(c)
    <3>1. data[pop[c].index] \in Nat
      OBVIOUS
    <3>2. delivered' \in Seq(Nat)
      BY <2>6, <3>1 DEF PopRead
    <3>3. QED
      BY <2>6, <3>2 DEF PopRead
  <2>7. QED
    BY <1>5, <2>1, <2>2, <2>3, <2>4, <2>5, <2>6 DEF PopStep
<1>6. QED
  BY <1>1, <1>2, <1>3, <1>4, <1>5 DEF Next

(* TypeOK holds for every set of threads: no index leaves the arrays.       *)
THEOREM TypeCorrect == Spec => []TypeOK
<1>1. Init => TypeOK
  BY SlotLemma DEF Init, TypeOK, PushLabels, PopLabels, Undefined
<1>2. QED
  BY <1>1, TypeStep, PTL DEF Spec

-----------------------------------------------------------------------------
(* Distances around the ring. *)

LEMMA GapNat == \A a, b \in Slots : Gap(a, b) \in Nat
BY CapacityAssumption DEF Gap, Slots, NumSlots

LEMMA GapAdvance ==
  ASSUME NEW a \in Slots, NEW b \in Slots, NEW w \in Slots, Gap(a, w) < Gap(a, b)
  PROVE  Gap(a, NextSlot(w)) <= Gap(a, b) /\ NextSlot(w) # a /\ w # b /\ a # b
BY CapacityAssumption DEF Gap, NextSlot, Slots, NumSlots

LEMMA GapStrict ==
  ASSUME NEW a \in Slots, NEW b \in Slots, NEW w \in Slots,
         Gap(a, w) <= Gap(a, b), w # b
  PROVE  Gap(a, w) < Gap(a, b)
BY CapacityAssumption DEF Gap, Slots, NumSlots

LEMMA GapStart ==
  ASSUME NEW a \in Slots, NEW b \in Slots, a # b
  PROVE  Gap(a, a) < Gap(a, b) /\ Gap(a, NextSlot(a)) <= Gap(a, b) /\ NextSlot(a) # a
BY CapacityAssumption DEF Gap, NextSlot, Slots, NumSlots

(* When b moves on to n without reaching a, what was between a and b still is. *)
LEMMA GapRebase ==
  ASSUME NEW a \in Slots, NEW b \in Slots, NEW w \in Slots, NEW n \in Slots,
         n # b, Gap(b, n) < Gap(b, a)
  PROVE  /\ Gap(a, w) <= Gap(a, b) => Gap(a, w) < Gap(a, n)
         /\ n # a
BY CapacityAssumption DEF Gap, Slots, NumSlots

-----------------------------------------------------------------------------

(* With one producer and one consumer, a push works in the free slots and a *)
(* pop in the others.                                                       *)
LEMMA SingleUserInductive ==
  ASSUME NEW p0, NEW c0, Producers = {p0}, Consumers = {c0}
  PROVE  Spec => []SingleUserInv
<1> DEFINE IInv == /\ head # tail /\ ~status[head]
                   /\ PushInv(p0) /\ PopInv(c0)
<1>t. p0 \in Threads /\ c0 \in Threads /\ p0 # c0
  BY ThreadAssumption DEF Threads
<1>1. Init => IInv
  BY <1>t, SlotLemma DEF Init, PushInv, PopInv
<1>2. TypeOK /\ TypeOK' /\ IInv /\ [Next]_vars => IInv'
  <2> SUFFICES ASSUME TypeOK, TypeOK', IInv, [Next]_vars PROVE IInv'
    OBVIOUS
  <2> USE <1>t
  <2> DEFINE w == push[p0].write
             i == pop[c0].index
             n == pop[c0].newHead
  <2>t. /\ head \in Slots /\ tail \in Slots /\ w \in Slots /\ i \in Slots /\ n \in Slots
        /\ w' \in Slots /\ i' \in Slots /\ n' \in Slots
        /\ pc \in [Threads -> PushLabels \cup PopLabels]
        /\ status \in [Slots -> BOOLEAN]
    BY DEF TypeOK
  <2>u. /\ p0 \in DOMAIN pc /\ c0 \in DOMAIN pc
        /\ p0 \in DOMAIN push /\ DOMAIN push[p0] = {"value", "expected", "write", "seen"}
        /\ c0 \in DOMAIN pop /\ DOMAIN pop[c0] = {"expected", "index", "newHead", "seen"}
    BY DEF TypeOK
  <2>1. CASE UNCHANGED vars
    BY <2>1 DEF vars, PushInv, PopInv, Gap, NextSlot
  <2>2. CASE PushBegin(p0)
    <3>1. /\ pc'[p0] = "claim" /\ pc'[c0] = pc[c0]
          /\ w' = tail /\ push'[p0].expected = tail
          /\ UNCHANGED <<status, head, tail, pop>>
      BY <2>2, <2>t, <2>u DEF PushBegin
    <3>2. QED
      BY <3>1, <2>t, GapStart DEF PushInv, PopInv
  <2>3. CASE PushClaimed(p0)
    <3>1. /\ pc[p0] = "claim" /\ pc'[p0] = "write" /\ pc'[c0] = pc[c0]
          /\ status' = [status EXCEPT ![w] = TRUE]
          /\ UNCHANGED <<head, tail, push, pop>>
      BY <2>3, <2>t, <2>u DEF PushClaimed
    <3>2. w # head
      BY <3>1, <2>t, GapAdvance DEF PushInv
    <3>3. pc[c0] = "advance" => w # n
      <4>1. pc[c0] = "advance" => n # head /\ Gap(head, n) < Gap(head, tail)
        BY <2>t DEF PopInv
      <4>2. Gap(tail, w) < Gap(tail, head)
        BY <3>1 DEF PushInv
      <4>3. QED
        BY <4>1, <4>2, <2>t, GapRebase, GapNat
    <3>4. QED
      BY <3>1, <3>2, <3>3, <2>t DEF PushInv, PopInv
  <2>4. CASE PushSkips(p0)
    <3>1. /\ pc[p0] = "claim" /\ pc'[p0] = "skipped" /\ pc'[c0] = pc[c0]
          /\ w' = NextSlot(w) /\ push'[p0].expected = push[p0].expected
          /\ UNCHANGED <<status, head, tail, pop>>
      BY <2>4, <2>t, <2>u DEF PushSkips
    <3>2. QED
      BY <3>1, <2>t, GapAdvance DEF PushInv, PopInv
  <2>5. CASE PushWrite(p0)
    <3>1. /\ pc[p0] = "write" /\ pc'[p0] = "written" /\ pc'[c0] = pc[c0]
          /\ w' = NextSlot(w) /\ push'[p0].expected = push[p0].expected
          /\ UNCHANGED <<status, head, tail, pop>>
      BY <2>5, <2>t, <2>u DEF PushWrite
    <3>2. QED
      BY <3>1, <2>t, GapAdvance DEF PushInv, PopInv
  <2>6. CASE PushFull(p0)
    <3>1. pc'[p0] = "idle" /\ pc'[c0] = pc[c0] /\ UNCHANGED <<status, head, tail, push, pop>>
      BY <2>6, <2>t, <2>u DEF PushFull
    <3>2. QED
      BY <3>1 DEF PushInv, PopInv
  <2>7. CASE PushHasRoom(p0)
    <3>1. /\ pc[p0] \in {"skipped", "written"} /\ pc'[p0] \in {"claim", "publish"}
          /\ w # head /\ pc'[c0] = pc[c0]
          /\ UNCHANGED <<status, head, tail, push, pop>>
      BY <2>7, <2>t, <2>u DEF PushHasRoom
    <3>2. QED
      BY <3>1, <2>t, GapStrict DEF PushInv, PopInv
  <2>8. CASE PushPublish(p0)
    <3>1. /\ pc[p0] = "publish" /\ pc'[p0] = "idle" /\ pc'[c0] = pc[c0]
          /\ tail' = w /\ UNCHANGED <<status, head, push, pop>>
      BY <2>8, <2>t, <2>u DEF PushPublish, PushInv
    <3>2. w # tail /\ Gap(tail, w) < Gap(tail, head) /\ w # head
      BY <3>1, <2>t, GapRebase DEF PushInv
    <3>3. Gap(head, n) <= Gap(head, tail) => Gap(head, n) < Gap(head, w)
      BY <3>2, <2>t, GapRebase
    <3>4. PushInv(p0)'
      BY <3>1 DEF PushInv
    <3>5. PopInv(c0)'
      BY <3>1, <3>3, <2>t, GapNat DEF PopInv
    <3>6. QED
      BY <3>1, <3>2, <3>4, <3>5
  <2>9. CASE PushResolve(p0)
    BY <2>9 DEF PushResolve, PushInv
  <2>10. CASE PopBegin(c0)
    <3>1. /\ pc'[c0] = "empty" /\ pc'[p0] = pc[p0]
          /\ i' = head /\ n' = NextSlot(head) /\ pop'[c0].expected = head
          /\ UNCHANGED <<status, head, tail, push>>
      BY <2>10, <2>t, <2>u DEF PopBegin
    <3>2. QED
      BY <3>1, <2>t, GapStart DEF PushInv, PopInv
  <2>11. CASE PopEmpty(c0)
    <3>1. /\ pc[c0] = "empty" /\ pc'[p0] = pc[p0]
          /\ pc'[c0] = IF n = tail THEN "idle" ELSE "take"
          /\ UNCHANGED <<status, head, tail, push, pop>>
      BY <2>11, <2>t, <2>u DEF PopEmpty
    <3>2. QED
      BY <3>1, <2>t, GapStrict DEF PushInv, PopInv
  <2>12. CASE PopTakes(c0)
    <3>1. /\ pc[c0] = "take" /\ pc'[c0] = "advance" /\ pc'[p0] = pc[p0]
          /\ status[i] /\ status' = [status EXCEPT ![i] = FALSE]
          /\ UNCHANGED <<head, tail, push, pop>>
      BY <2>12, <2>t, <2>u DEF PopTakes
    <3>2. QED
      BY <3>1, <2>t DEF PushInv, PopInv
  <2>13. CASE PopSkips(c0)
    <3>1. /\ pc[c0] = "take" /\ pc'[c0] = "empty" /\ pc'[p0] = pc[p0]
          /\ i' = NextSlot(i) /\ n' = NextSlot(i) /\ pop'[c0].expected = pop[c0].expected
          /\ UNCHANGED <<status, head, tail, push>>
      BY <2>13, <2>t, <2>u DEF PopSkips
    <3>2. QED
      BY <3>1, <2>t, GapStart, GapAdvance DEF PushInv, PopInv
  <2>14. CASE PopAdvance(c0)
    <3>1. /\ pc[c0] = "advance" /\ pc'[c0] = "read" /\ pc'[p0] = pc[p0]
          /\ head' = n /\ UNCHANGED <<status, tail, push, pop>>
      BY <2>14, <2>t, <2>u DEF PopAdvance, PopInv
    <3>2. /\ n # head /\ Gap(head, n) < Gap(head, tail) /\ n # tail
          /\ i = n /\ ~status[n]
      BY <3>1, <2>t, GapRebase DEF PopInv
    <3>3. Gap(tail, w) <= Gap(tail, head) => Gap(tail, w) < Gap(tail, n)
      BY <3>2, <2>t, GapRebase
    <3>4. PushInv(p0)'
      BY <3>1, <3>3, <2>t, GapNat DEF PushInv
    <3>5. PopInv(c0)'
      BY <3>1, <3>2 DEF PopInv
    <3>6. QED
      BY <3>1, <3>2, <3>4, <3>5
  <2>15. CASE PopResolve(c0)
    BY <2>15 DEF PopResolve, PopInv
  <2>16. CASE PopRead(c0)
    <3>1. pc'[c0] = "idle" /\ pc'[p0] = pc[p0] /\ UNCHANGED <<status, head, tail, push, pop>>
      BY <2>16, <2>t, <2>u DEF PopRead
    <3>2. QED
      BY <3>1 DEF PushInv, PopInv
  <2>17. QED
    BY <2>1, <2>2, <2>3, <2>4, <2>5, <2>6, <2>7, <2>8, <2>9, <2>10, <2>11, <2>12,
       <2>13, <2>14, <2>15, <2>16 DEF Next, PushStep, PopStep
<1>3. TypeOK /\ IInv => SingleUserInv
  BY DEF SingleUserInv
<1>4. QED
  BY <1>1, <1>2, <1>3, TypeCorrect, PTL DEF Spec

(* One producer and one consumer never meet in a slot, whatever the         *)
(* capacity and however often the ring turns: the platform's input queue,   *)
(* pushed by the main thread and popped by the systems thread.              *)
THEOREM SingleUserSafe ==
  ASSUME NEW p0, NEW c0, Producers = {p0}, Consumers = {c0}
  PROVE  Spec => []NoDataRace
<1>1. SingleUserInv => NoDataRace
  <2> SUFFICES ASSUME SingleUserInv, pc[p0] = "write", pc[c0] = "read"
               PROVE  push[p0].write # pop[c0].index
    BY DEF NoDataRace
  <2>1. head \in Slots /\ tail \in Slots /\ push[p0].write \in Slots
    BY DEF SingleUserInv, TypeOK
  <2>2. QED
    BY <2>1, GapAdvance DEF SingleUserInv, PushInv, PopInv
<1>2. QED
  BY <1>1, SingleUserInductive, PTL

(* With one producer and one consumer tail never runs into head, which      *)
(* count asserts; two producers can bring it there.                         *)
THEOREM TailStaysApart ==
  ASSUME NEW p0, NEW c0, Producers = {p0}, Consumers = {c0}
  PROVE  Spec => []TailNeverHead
<1>1. SingleUserInv => TailNeverHead
  BY DEF SingleUserInv, TailNeverHead
<1>2. QED
  BY <1>1, SingleUserInductive, PTL

-----------------------------------------------------------------------------
(* Why no value of the first turn is delivered twice, however many threads pop. *)
(* The one that pushes claims the slots in their order, so the m-th claim is of  *)
(* the m-th slot and no slot is claimed twice; a claimed slot is taken by one    *)
(* pop, and pops stay behind tail, where every claimed slot has been written.    *)
(* The slot at index 0, where head begins, is the last of the turn: it alone may *)
(* be taken before it is written.                                                *)

(* Slots in the order in which the first turn of the ring claims them. *)
Pos(i) == IF i = 0 THEN NumSlots ELSE i

Alone == \A p, q \in Producers : p = q \/ "absent" \in {pc[p], pc[q]}

Claimed ==
  {i \in Slots : data[i] # Undefined \/ \E p \in Producers : pc[p] = "write" /\ push[p].write = i}

Has(c) == pc[c] \in {"advance", "lost", "read"}

PushTurn(p, m) ==
  /\ pc[p] \in {"claim", "skipped"} => m < pushes
  /\ pc[p] \in {"claim", "skipped", "write"} => push[p].value = pushes /\ \A i \in Slots : data[i] # pushes
  /\ pc[p] = "write" => Pos(push[p].write) = m /\ data[push[p].write] = Undefined
  /\ m < NumSlots =>
       /\ pc[p] # "lost"
       /\ pc[p] \notin {"idle", "absent"} => push[p].expected = tail
       /\ pc[p] \in {"claim", "skipped", "write"} => Pos(tail) <= Pos(push[p].write) /\ Pos(push[p].write) <= m + 1
       /\ pc[p] \in {"written", "publish"} => Pos(push[p].write) = m + 1

PopTurn(c) ==
  /\ pc[c] = "empty" =>
       /\ Pos(pop[c].newHead) <= Pos(tail)
       /\ pop[c].newHead \in {pop[c].index, NextSlot(pop[c].index)}
  /\ pc[c] = "take" => pop[c].index < Pos(tail)
  /\ pc[c] \in {"take", "advance", "lost"} => pop[c].newHead # 0 /\ pop[c].newHead < Pos(tail)

FirstTurn(m) ==
  /\ Claimed = {i \in Slots : Pos(i) <= m}
  /\ m <= pushes
  /\ \A p \in Producers : PushTurn(p, m)
  /\ m < NumSlots =>
       /\ Pos(tail) <= m + 1
       /\ head < Pos(tail)
       /\ \A i \in Slots : Pos(tail) <= i /\ i <= m => status[i]
       /\ \A c \in Consumers : PopTurn(c)

Taking ==
  /\ \A i \in Slots : status[i] => i \in Claimed
  /\ \A i, j \in Slots : i # j /\ data[i] # Undefined => data[i] # data[j]
  /\ \A i \in Slots : data[i] <= pushes
  /\ \A c \in Consumers : Has(c) =>
       /\ pop[c].index \in Claimed /\ ~status[pop[c].index]
       /\ data[pop[c].index] = Undefined => pop[c].index = 0
  /\ \A c, d \in Consumers : c # d /\ Has(c) /\ Has(d) => pop[c].index # pop[d].index

Gone(i) == i \in Claimed /\ ~status[i] /\ \A c \in Consumers : Has(c) => pop[c].index # i

Delivering ==
  /\ \A k \in DOMAIN delivered : \E i \in Slots :
       /\ Gone(i)
       /\ (data[i] # Undefined /\ delivered[k] = data[i]) \/ (delivered[k] = Undefined /\ i = 0)
  /\ \A j, k \in DOMAIN delivered : j # k => delivered[j] # delivered[k]

Turn(m) == m \in 0 .. NumSlots /\ Taking /\ Delivering /\ FirstTurn(m)

TurnInv == pushes <= NumSlots /\ Alone => \E m \in Nat : Turn(m)

(* The order of the slots. *)
LEMMA PosFacts ==
  /\ NumSlots \in Nat /\ NumSlots >= 2 /\ 0 \in Slots /\ 1 \in Slots
  /\ \A i \in Slots : i \in Nat /\ i < NumSlots /\ Pos(i) \in Nat /\ 1 <= Pos(i) /\ Pos(i) <= NumSlots
                      /\ NextSlot(i) \in Slots
  /\ \A i \in Slots : Pos(i) < NumSlots => i = Pos(i) /\ Pos(NextSlot(i)) = Pos(i) + 1
  /\ \A i \in Slots, k \in Nat : i < k /\ k <= NumSlots => Pos(NextSlot(i)) <= k
  /\ \A i, j \in Slots : Pos(i) = Pos(j) => i = j
BY CapacityAssumption DEF Pos, Slots, NumSlots, NextSlot

(* If a thread that pushes is alone, the others are absent. *)
LEMMA AloneIs ==
  ASSUME Alone, NEW p \in Producers, pc[p] # "absent"
  PROVE  \A q \in Producers : q # p => pc[q] = "absent"
BY DEF Alone

(* A step of a pop that neither takes a slot nor reads it. *)
LEMMA PopFrame ==
  ASSUME TypeOK, NEW m \in Nat, Turn(m), NEW c \in Consumers, NEW new \in {"idle", "empty", "take", "advance", "lost", "read"},
         pc' = [pc EXCEPT ![c] = new],
         UNCHANGED <<data, status, tail, push, pushes, delivered>>,
         Has(c)' <=> Has(c), Has(c) => pop'[c].index = pop[c].index,
         \A d \in Consumers : d # c => pop'[d] = pop[d],
         m < NumSlots => head' < Pos(tail) /\ PopTurn(c)'
  PROVE  Turn(m)'
<1>1. /\ \A d \in Consumers : d # c => pc'[d] = pc[d]
      /\ \A p \in Producers : pc'[p] = pc[p]
  BY ThreadAssumption DEF TypeOK, Threads
<1>2. Claimed' = Claimed
  BY <1>1 DEF Claimed
<1>3. \A d \in Consumers : (Has(d)' <=> Has(d)) /\ (Has(d) => pop'[d].index = pop[d].index)
  BY <1>1 DEF Has
<1>4. Taking'
  BY <1>2, <1>3 DEF Turn, Taking
<1>5. Delivering'
  <2>1. \A i \in Slots : Gone(i)' <=> Gone(i)
    BY <1>2, <1>3 DEF Gone
  <2> QED BY <2>1 DEF Turn, Delivering
<1>6. \A p \in Producers : PushTurn(p, m)'
  BY <1>1 DEF Turn, FirstTurn, PushTurn, Pos
<1>7. m < NumSlots => \A d \in Consumers : PopTurn(d)'
  <2> SUFFICES ASSUME m < NumSlots, NEW d \in Consumers, d # c PROVE PopTurn(d)'
    OBVIOUS
  <2>1. PopTurn(d)
    BY DEF Turn, FirstTurn
  <2> QED BY <1>1, <2>1 DEF PopTurn, Pos
<1>8. FirstTurn(m)'
  BY <1>2, <1>6, <1>7 DEF Turn, FirstTurn, Pos
<1> QED BY <1>4, <1>5, <1>8 DEF Turn

(* A step of a push that neither claims a slot nor writes it. *)
LEMMA PushFrame ==
  ASSUME TypeOK, Alone, NEW m \in Nat, Turn(m), NEW p \in Producers,
         NEW new \in {"idle", "claim", "skipped", "publish", "lost"},
         pc[p] \notin {"absent", "write"},
         pc' = [pc EXCEPT ![p] = new],
         UNCHANGED <<data, status, head, pop, delivered>>,
         pushes' \in Nat, pushes <= pushes',
         \A q \in Producers : q # p => push'[q] = push[q],
         PushTurn(p, m)',
         tail' \in Slots, m < NumSlots => tail' = tail \/ Pos(tail') = m + 1
  PROVE  Turn(m)'
<1>1. /\ \A q \in Producers : q # p => pc'[q] = pc[q] /\ pc[q] = "absent"
      /\ \A c \in Consumers : pc'[c] = pc[c]
      /\ pc'[p] = new
  BY ThreadAssumption, AloneIs DEF TypeOK, Threads
<1>2. Claimed' = Claimed
  BY <1>1 DEF Claimed
<1>3. \A c \in Consumers : (Has(c)' <=> Has(c)) /\ pop'[c] = pop[c]
  BY <1>1 DEF Has
<1>4. Taking'
  <2>1. \A i \in Slots : data'[i] <= pushes'
    BY DEF TypeOK, Turn, Taking
  <2> QED BY <1>2, <1>3, <2>1 DEF Turn, Taking
<1>5. Delivering'
  <2>1. \A i \in Slots : Gone(i)' <=> Gone(i)
    BY <1>2, <1>3 DEF Gone
  <2> QED BY <2>1 DEF Turn, Delivering
<1>6. \A q \in Producers : PushTurn(q, m)'
  BY <1>1 DEF PushTurn
<1>7. m < NumSlots =>
        /\ Pos(tail)' <= m + 1
        /\ head' < Pos(tail)'
        /\ \A i \in Slots : Pos(tail)' <= i /\ i <= m => status'[i]
        /\ \A c \in Consumers : PopTurn(c)'
  <2> SUFFICES ASSUME m < NumSlots
               PROVE  /\ Pos(tail') <= m + 1
                      /\ head < Pos(tail')
                      /\ \A i \in Slots : Pos(tail') <= i /\ i <= m => status[i]
                      /\ \A c \in Consumers : PopTurn(c)'
    BY DEF Pos
  <2>1. /\ Pos(tail) <= m + 1 /\ head < Pos(tail)
        /\ \A i \in Slots : Pos(tail) <= i /\ i <= m => status[i]
        /\ \A c \in Consumers : PopTurn(c)
    BY DEF Turn, FirstTurn
  <2>2. tail \in Slots /\ head \in Slots /\ Pos(tail) \in Nat /\ Pos(tail') \in Nat /\ Pos(tail) <= Pos(tail')
        /\ Pos(tail') <= m + 1 /\ (tail' = tail \/ Pos(tail') = m + 1)
    <3>1. tail \in Slots /\ head \in Slots
      BY DEF TypeOK
    <3>2. Pos(tail) \in Nat /\ Pos(tail') \in Nat
      BY <3>1, PosFacts
    <3>3. CASE tail' = tail
      <4>1. Pos(tail') = Pos(tail)
        BY <3>3
      <4> QED BY <2>1, <3>1, <3>2, <3>3, <4>1
    <3>4. CASE Pos(tail') = m + 1
      BY <2>1, <3>1, <3>2, <3>4
    <3> QED BY <3>3, <3>4
  <2>3. ASSUME NEW c \in Consumers PROVE PopTurn(c)'
    <3>1. PopTurn(c) /\ pc'[c] = pc[c] /\ pop'[c] = pop[c]
      BY <1>1, <2>1
    <3>2. pop[c].index \in Slots /\ pop[c].newHead \in Slots
      BY DEF TypeOK
    <3>3. Pos(pop[c].newHead) \in Nat /\ pop[c].index \in Nat /\ pop[c].newHead \in Nat
      BY <3>2, PosFacts
    <3>4. /\ pc'[c] = "empty" => /\ Pos(pop'[c].newHead) <= Pos(tail')
                                /\ pop'[c].newHead \in {pop'[c].index, NextSlot(pop'[c].index)}
          /\ pc'[c] = "take" => pop'[c].index < Pos(tail')
          /\ pc'[c] \in {"take", "advance", "lost"} => pop'[c].newHead # 0 /\ pop'[c].newHead < Pos(tail')
      BY <2>2, <3>1, <3>3 DEF PopTurn
    <3> QED BY <3>4 DEF PopTurn, Pos
  <2>4. head \in Nat /\ \A i \in Slots : i \in Nat
    BY <2>2, PosFacts
  <2> QED BY <2>1, <2>2, <2>3, <2>4
<1>8. m <= pushes'
  BY DEF Turn, FirstTurn, TypeOK
<1>9. FirstTurn(m)'
  <2>1. {i \in Slots : Pos(i) <= m}' = {i \in Slots : Pos(i) <= m}
    BY DEF Pos
  <2> QED BY <1>2, <1>6, <1>7, <1>8, <2>1 DEF Turn, FirstTurn
<1> QED BY <1>4, <1>5, <1>9 DEF Turn

(* One lemma for each step that touches a slot. *)
LEMMA InitTurn == Init => Turn(0)
<1> SUFFICES ASSUME Init PROVE Turn(0)
  OBVIOUS
<1>1. /\ data = [i \in Slots |-> 0] /\ status = [i \in Slots |-> FALSE] /\ head = 0 /\ tail = 1
      /\ \A t \in Threads : pc[t] \in {"idle", "absent"}
      /\ pushes = 0 /\ delivered = <<>>
  BY DEF Init, Undefined
<1>2. (\A p \in Producers : pc[p] \in {"idle", "absent"}) /\ (\A c \in Consumers : pc[c] \in {"idle", "absent"})
  BY <1>1 DEF Threads
<1>3. Claimed = {}
  BY <1>1, <1>2 DEF Claimed, Undefined
<1>4. Taking
  BY <1>1, <1>2 DEF Taking, Has, Undefined
<1>5. Delivering
  BY <1>1 DEF Delivering
<1>6. \A p \in Producers : PushTurn(p, 0)
  BY <1>2 DEF PushTurn
<1>7. \A c \in Consumers : PopTurn(c)
  BY <1>2 DEF PopTurn
<1>8. \A i \in Slots : 1 <= Pos(i)
  BY PosFacts
<1>9. FirstTurn(0)
  <2>1. {i \in Slots : Pos(i) <= 0} = {}
    BY <1>8, PosFacts
  <2>2. Pos(tail) = 1
    BY <1>1, PosFacts DEF Pos
  <2>3. \A i \in Slots : ~(1 <= i /\ i <= 0)
    BY PosFacts
  <2> QED BY <1>1, <1>3, <1>6, <1>7, <2>1, <2>2, <2>3 DEF FirstTurn
<1> QED BY <1>4, <1>5, <1>9, PosFacts DEF Turn

LEMMA PushBeginTurn ==
  ASSUME TypeOK, Alone, NEW m \in Nat, Turn(m), NEW p \in Producers, PushBegin(p)
  PROVE  Turn(m)'
<1>1. /\ pc[p] = "idle" /\ pc' = [pc EXCEPT ![p] = "claim"] /\ pushes' = pushes + 1
      /\ push' = [push EXCEPT ![p] = [value |-> pushes + 1, expected |-> tail, write |-> tail, seen |-> tail]]
      /\ UNCHANGED <<data, status, head, tail, pop, delivered>>
  BY DEF PushBegin
<1>2. /\ push'[p].value = pushes + 1 /\ push'[p].expected = tail /\ push'[p].write = tail
      /\ \A q \in Producers : q # p => push'[q] = push[q]
      /\ pc'[p] = "claim"
  BY <1>1 DEF TypeOK, Threads
<1>3. pushes \in Nat /\ tail \in Slots /\ Pos(tail) \in Nat
  BY PosFacts DEF TypeOK
<1>4. PushTurn(p, m)'
  <2>1. \A i \in Slots : data[i] <= pushes /\ data[i] \in Nat
    BY DEF Turn, Taking, TypeOK
  <2>2. m <= pushes /\ (m < NumSlots => Pos(tail) <= m + 1)
    BY DEF Turn, FirstTurn
  <2>3. m < pushes + 1 /\ \A i \in Slots : data[i] # pushes + 1
    BY <1>3, <2>1, <2>2
  <2>4. m < NumSlots => Pos(tail) <= Pos(push'[p].write) /\ Pos(push'[p].write) <= m + 1
    BY <1>2, <1>3, <2>2
  <2>5. /\ m < pushes' /\ push'[p].value = pushes' /\ \A i \in Slots : data'[i] # pushes'
        /\ m < NumSlots => push'[p].expected = tail' /\ Pos(tail') <= Pos(push'[p].write) /\ Pos(push'[p].write) <= m + 1
    BY <1>1, <1>2, <2>3, <2>4
  <2>6. m < NumSlots => Pos(tail)' <= Pos(push[p].write)' /\ Pos(push[p].write)' <= m + 1
    BY <2>5 DEF Pos
  <2> QED BY <1>2, <2>5, <2>6 DEF PushTurn
<1>5. /\ "claim" \in {"idle", "claim", "skipped", "publish", "lost"} /\ pc[p] \notin {"absent", "write"}
      /\ pc' = [pc EXCEPT ![p] = "claim"]
      /\ UNCHANGED <<data, status, head, pop, delivered>>
      /\ pushes' \in Nat /\ pushes <= pushes'
      /\ tail' \in Slots /\ (m < NumSlots => tail' = tail \/ Pos(tail') = m + 1)
  BY <1>1, <1>3
<1> QED BY <1>2, <1>4, <1>5, PushFrame

LEMMA PushClaimedTurn ==
  ASSUME TypeOK, Alone, pushes <= NumSlots, NEW m \in Nat, Turn(m), NEW p \in Producers, PushClaimed(p)
  PROVE  Turn(m + 1)'
<1> DEFINE w == push[p].write
<1>1. /\ pc[p] = "claim" /\ pc' = [pc EXCEPT ![p] = "write"] /\ ~status[w]
      /\ status' = [status EXCEPT ![w] = TRUE]
      /\ UNCHANGED <<data, head, tail, push, pop, pushes, delivered>>
  BY DEF PushClaimed
<1>2. /\ \A q \in Producers : q # p => pc'[q] = pc[q] /\ pc[q] = "absent"
      /\ \A c \in Consumers : pc'[c] = pc[c]
      /\ pc'[p] = "write"
  BY <1>1, ThreadAssumption, AloneIs DEF TypeOK, Threads
<1>3. w \in Slots /\ tail \in Slots /\ pushes \in Nat
  BY DEF TypeOK
<1> HIDE DEF w
<1>4. PushTurn(p, m)
  BY DEF Turn, FirstTurn
<1>5. m < pushes /\ m < NumSlots /\ push[p].value = pushes /\ \A i \in Slots : data[i] # pushes
  BY <1>1, <1>3, <1>4, PosFacts DEF PushTurn
<1>6. /\ Pos(tail) <= Pos(w) /\ Pos(w) <= m + 1
      /\ push[p].expected = tail
      /\ Pos(tail) <= m + 1 /\ head < Pos(tail)
      /\ \A i \in Slots : Pos(tail) <= i /\ i <= m => status[i]
      /\ \A c \in Consumers : PopTurn(c)
  BY <1>1, <1>4, <1>5 DEF PushTurn, Turn, FirstTurn, w
<1>7. Pos(w) = m + 1
  <2>1. Pos(w) \in Nat /\ (Pos(w) < NumSlots => w = Pos(w))
    BY <1>3, PosFacts
  <2>2. ~(Pos(w) <= m)
    BY <1>1, <1>3, <1>5, <1>6, <2>1, PosFacts
  <2> QED BY <1>6, <2>1, <2>2
<1>8. Claimed = {i \in Slots : Pos(i) <= m} /\ w \notin Claimed
  BY <1>7 DEF Turn, FirstTurn
<1>9. data[w] = Undefined
  BY <1>3, <1>8 DEF Claimed
<1>10. Claimed' = Claimed \cup {w}
  <2>1. Claimed = {i \in Slots : data[i] # Undefined}
    BY <1>1, <1>2 DEF Claimed
  <2>2. Claimed' = {i \in Slots : data[i] # Undefined \/ i = w}
    BY <1>1, <1>2 DEF Claimed, w
  <2> QED BY <1>3, <2>1, <2>2
<1>11. Claimed' = {i \in Slots : Pos(i) <= m + 1}
  <2>1. \A i \in Slots : Pos(i) <= m + 1 <=> (Pos(i) <= m \/ i = w)
    BY <1>3, <1>7, PosFacts
  <2> QED BY <1>3, <1>8, <1>10, <2>1
<1>12. status'[w] /\ \A i \in Slots : i # w => status'[i] = status[i]
  BY <1>1, <1>3 DEF TypeOK
<1>13. \A c \in Consumers : (Has(c)' <=> Has(c)) /\ pop'[c] = pop[c] /\ (Has(c) => pop[c].index # w /\ pop[c].index \in Slots)
  BY <1>1, <1>2, <1>8 DEF Has, Turn, Taking, Claimed
<1>14. Taking'
  BY <1>1, <1>10, <1>12, <1>13 DEF Turn, Taking
<1>15. Delivering'
  <2>1. \A i \in Slots : Gone(i) => Gone(i)'
    BY <1>8, <1>10, <1>12, <1>13 DEF Gone
  <2> QED BY <1>1, <2>1 DEF Turn, Delivering
<1>16. \A q \in Producers : PushTurn(q, m + 1)'
  <2>1. PushTurn(p, m + 1)'
    BY <1>1, <1>2, <1>5, <1>6, <1>7, <1>9 DEF PushTurn, Pos, w
  <2> QED BY <1>2, <2>1 DEF PushTurn
<1>17. \A c \in Consumers : PopTurn(c)'
  BY <1>1, <1>2, <1>6 DEF PopTurn, Pos
<1>18. m + 1 < NumSlots => \A i \in Slots : Pos(tail) <= i /\ i <= m + 1 => status'[i]
  <2> SUFFICES ASSUME m + 1 < NumSlots, NEW i \in Slots, Pos(tail) <= i, i <= m + 1, i # w PROVE status[i]
    BY <1>12
  <2>1. i \in Nat /\ w = m + 1
    BY <1>3, <1>7, PosFacts
  <2> QED BY <1>6, <2>1
<1>19. FirstTurn(m + 1)'
  <2>1. Pos(tail)' = Pos(tail) /\ head' = head
    BY <1>1 DEF Pos
  <2>3. {i \in Slots : Pos(i) <= m + 1}' = {i \in Slots : Pos(i) <= m + 1}
    BY DEF Pos
  <2>2. Pos(tail)' <= (m + 1) + 1 /\ head' < Pos(tail)' /\ m + 1 <= pushes'
    BY <1>1, <1>3, <1>5, <1>6, <2>1, PosFacts
  <2>4. \A i \in Slots : Pos(tail)' <= i /\ i <= m + 1 /\ m + 1 < NumSlots => status'[i]
    BY <1>18, <2>1
  <2> QED BY <1>11, <1>16, <1>17, <2>2, <2>3, <2>4 DEF FirstTurn
<1>20. m + 1 \in 0 .. NumSlots
  BY <1>5, PosFacts
<1> QED BY <1>14, <1>15, <1>19, <1>20 DEF Turn

LEMMA PushWriteTurn ==
  ASSUME TypeOK, Alone, NEW m \in Nat, Turn(m), NEW p \in Producers, PushWrite(p)
  PROVE  Turn(m)'
<1> DEFINE w == push[p].write
<1>1. /\ pc[p] = "write" /\ pc' = [pc EXCEPT ![p] = "written"]
      /\ data' = [data EXCEPT ![w] = push[p].value]
      /\ push' = [push EXCEPT ![p].write = NextSlot(w)]
      /\ UNCHANGED <<status, head, tail, pop, pushes, delivered>>
  BY DEF PushWrite
<1>2. /\ \A q \in Producers : q # p => pc'[q] = pc[q] /\ pc[q] = "absent"
      /\ \A c \in Consumers : pc'[c] = pc[c]
      /\ pc'[p] = "written"
  BY <1>1, ThreadAssumption, AloneIs DEF TypeOK, Threads
<1>3. w \in Slots /\ tail \in Slots /\ pushes \in Nat /\ push'[p].write = NextSlot(w) /\ push'[p].expected = push[p].expected
  BY <1>1 DEF TypeOK
<1>4. /\ push[p].value = pushes /\ \A i \in Slots : data[i] # pushes
      /\ Pos(w) = m /\ data[w] = Undefined
      /\ m < NumSlots => push[p].expected = tail
  BY <1>1 DEF PushTurn, Turn, FirstTurn
<1> HIDE DEF w
<1>5. data'[w] = pushes /\ (\A i \in Slots : i # w => data'[i] = data[i])
  BY <1>1, <1>3, <1>4 DEF TypeOK
<1>6. pushes # Undefined
  BY <1>3, <1>4, PosFacts DEF Turn, FirstTurn, Undefined
<1>7. w \in Claimed
  BY <1>1, <1>3 DEF Claimed, w
<1>8. Claimed' = Claimed
  <2>1. Claimed = {i \in Slots : data[i] # Undefined \/ i = w}
    BY <1>1, <1>2 DEF Claimed, w
  <2>2. Claimed' = {i \in Slots : data'[i] # Undefined}
    BY <1>1, <1>2 DEF Claimed
  <2> QED BY <1>3, <1>5, <1>6, <2>1, <2>2
<1>9. \A c \in Consumers : (Has(c)' <=> Has(c)) /\ pop'[c] = pop[c] /\ pop[c].index \in Slots
  BY <1>1, <1>2 DEF Has, TypeOK
<1>10. Taking'
  <2>1. \A i, j \in Slots : i # j /\ data'[i] # Undefined => data'[i] # data'[j]
    BY <1>4, <1>5 DEF Turn, Taking
  <2>2. \A i \in Slots : data'[i] <= pushes'
    BY <1>1, <1>3, <1>5 DEF Turn, Taking
  <2>3. \A c \in Consumers : Has(c)' /\ data'[pop'[c].index] = Undefined => pop'[c].index = 0
    BY <1>5, <1>6, <1>9 DEF Turn, Taking
  <2> QED BY <1>1, <1>8, <1>9, <2>1, <2>2, <2>3 DEF Turn, Taking
<1>11. Delivering'
  <2>1. \A i \in Slots : Gone(i)' <=> Gone(i)
    BY <1>1, <1>8, <1>9 DEF Gone
  <2>2. \A i \in Slots : data[i] # Undefined => data'[i] = data[i]
    BY <1>4, <1>5
  <2> QED BY <1>1, <2>1, <2>2 DEF Turn, Delivering
<1>12. \A q \in Producers : PushTurn(q, m)'
  <2>1. m < NumSlots => Pos(NextSlot(w)) = m + 1
    BY <1>3, <1>4, PosFacts
  <2>2. PushTurn(p, m)'
    BY <1>1, <1>2, <1>3, <1>4, <2>1 DEF PushTurn, Pos
  <2> QED BY <1>2, <2>2 DEF PushTurn
<1>13. m < NumSlots => \A c \in Consumers : PopTurn(c)'
  BY <1>1, <1>2 DEF Turn, FirstTurn, PopTurn, Pos
<1>14. FirstTurn(m)'
  <2>1. Pos(tail)' = Pos(tail) /\ {i \in Slots : Pos(i) <= m}' = {i \in Slots : Pos(i) <= m}
    BY <1>1 DEF Pos
  <2> QED BY <1>1, <1>8, <1>12, <1>13, <2>1 DEF Turn, FirstTurn
<1> QED BY <1>10, <1>11, <1>14 DEF Turn

(* The other steps of a push: none of them touches a slot. *)
LEMMA PushOtherTurn ==
  ASSUME TypeOK, Alone, pushes <= NumSlots, NEW m \in Nat, Turn(m), NEW p \in Producers,
         PushSkips(p) \/ PushFull(p) \/ PushHasRoom(p) \/ PushPublish(p) \/ PushResolve(p)
  PROVE  Turn(m)'
<1> DEFINE w == push[p].write
           News == {"idle", "claim", "skipped", "publish", "lost"}
<1>1. w \in Slots /\ tail \in Slots /\ pushes \in Nat /\ Pos(w) \in Nat /\ Pos(tail) \in Nat
  BY PosFacts DEF TypeOK
<1>2. PushTurn(p, m) /\ (m < NumSlots => Pos(tail) <= m + 1) /\ m <= NumSlots
  BY PosFacts DEF Turn, FirstTurn
<1>3. ASSUME NEW new \in News, pc[p] \notin {"absent", "write"}, pc' = [pc EXCEPT ![p] = new],
             UNCHANGED <<data, status, head, pop, delivered, pushes>>,
             \A q \in Producers : q # p => push'[q] = push[q],
             PushTurn(p, m)',
             tail' \in Slots, m < NumSlots => tail' = tail \/ Pos(tail') = m + 1
      PROVE  Turn(m)'
  <2>1. pushes' \in Nat /\ pushes <= pushes'
    BY <1>1, <1>3
  <2> QED BY <1>3, <2>1, PushFrame
<1>4. CASE PushSkips(p)
  <2>1. /\ pc[p] = "claim" /\ pc' = [pc EXCEPT ![p] = "skipped"] /\ status[w]
        /\ push' = [push EXCEPT ![p].write = NextSlot(w)]
        /\ UNCHANGED <<data, status, head, tail, pop, delivered, pushes>>
    BY <1>4 DEF PushSkips
  <2>2. /\ pc'[p] = "skipped" /\ push'[p].write = NextSlot(w) /\ push'[p].expected = push[p].expected
        /\ push'[p].value = push[p].value
        /\ \A q \in Producers : q # p => push'[q] = push[q]
    BY <2>1 DEF TypeOK, Threads
  <2>3. m < NumSlots
    BY <1>1, <1>2, <2>1, PosFacts DEF PushTurn
  <2>4. Pos(w) <= m
    <3>1. w \in Claimed
      BY <1>1, <2>1 DEF Turn, Taking
    <3> QED BY <3>1 DEF Turn, FirstTurn
  <2>5. Pos(NextSlot(w)) = Pos(w) + 1
    BY <1>1, <2>3, <2>4, PosFacts
  <2>6. Pos(tail)' = Pos(tail) /\ Pos(push[p].write)' = Pos(w) + 1
    BY <2>1, <2>2, <2>5 DEF Pos
  <2>7. PushTurn(p, m)'
    BY <1>1, <1>2, <2>1, <2>2, <2>4, <2>6 DEF PushTurn
  <2> QED BY <1>1, <1>3, <2>1, <2>2, <2>7
<1>5. CASE PushFull(p)
  <2>1. /\ pc[p] \in {"skipped", "written"} /\ pc' = [pc EXCEPT ![p] = "idle"]
        /\ UNCHANGED <<data, status, head, tail, push, pop, delivered, pushes>>
    BY <1>5 DEF PushFull
  <2>2. PushTurn(p, m)'
    BY <2>1 DEF PushTurn, TypeOK, Threads
  <2> QED BY <1>1, <1>3, <2>1, <2>2
<1>6. CASE PushHasRoom(p)
  <2>1. /\ \/ pc[p] = "skipped" /\ pc' = [pc EXCEPT ![p] = "claim"]
           \/ pc[p] = "written" /\ pc' = [pc EXCEPT ![p] = "publish"]
        /\ UNCHANGED <<data, status, head, tail, push, pop, delivered, pushes>>
    BY <1>6 DEF PushHasRoom
  <2>2. Pos(tail)' = Pos(tail) /\ Pos(push[p].write)' = Pos(w)
    BY <2>1 DEF Pos
  <2>3. pc'[p] = IF pc[p] = "skipped" THEN "claim" ELSE "publish"
    BY <2>1 DEF TypeOK, Threads
  <2>4. PushTurn(p, m)'
    BY <1>2, <2>1, <2>2, <2>3 DEF PushTurn
  <2>5. CASE pc' = [pc EXCEPT ![p] = "claim"]
    BY <1>1, <1>3, <2>1, <2>4, <2>5
  <2>6. CASE pc' = [pc EXCEPT ![p] = "publish"]
    BY <1>1, <1>3, <2>1, <2>4, <2>6
  <2> QED BY <2>1, <2>5, <2>6
<1>7. CASE PushPublish(p)
  <2>1. CASE tail = push[p].expected /\ pc' = [pc EXCEPT ![p] = "idle"]
    <3>1. /\ pc[p] = "publish" /\ tail' = w
          /\ UNCHANGED <<data, status, head, push, pop, delivered, pushes>>
      BY <1>7, <2>1 DEF PushPublish
    <3>2. PushTurn(p, m)'
      BY <2>1 DEF PushTurn, TypeOK, Threads
    <3>3. m < NumSlots => Pos(tail') = m + 1
      BY <1>2, <3>1 DEF PushTurn
    <3> QED BY <1>1, <1>3, <2>1, <3>1, <3>2, <3>3
  <2>2. CASE tail # push[p].expected
    <3>1. /\ pc[p] = "publish" /\ pc' = [pc EXCEPT ![p] = "lost"]
          /\ push' = [push EXCEPT ![p].seen = tail]
          /\ UNCHANGED <<data, status, head, tail, pop, delivered, pushes>>
      BY <1>7, <2>2 DEF PushPublish
    <3>2. ~(m < NumSlots)
      BY <1>2, <2>2, <3>1 DEF PushTurn
    <3>3. pc'[p] = "lost" /\ \A q \in Producers : q # p => push'[q] = push[q]
      BY <3>1 DEF TypeOK, Threads
    <3>4. PushTurn(p, m)'
      BY <3>2, <3>3 DEF PushTurn
    <3> QED BY <1>1, <1>3, <3>1, <3>3, <3>4
  <2> QED BY <1>7, <2>1, <2>2 DEF PushPublish
<1>8. CASE PushResolve(p)
  <2>1. /\ pc[p] = "lost"
        /\ pc' = [pc EXCEPT ![p] = "publish"] \/ pc' = [pc EXCEPT ![p] = "idle"]
        /\ push' = [push EXCEPT ![p].expected = push[p].seen] \/ push' = push
        /\ UNCHANGED <<data, status, head, tail, pop, delivered, pushes>>
    BY <1>8 DEF PushResolve
  <2>2. ~(m < NumSlots)
    BY <1>2, <2>1 DEF PushTurn
  <2>3. pc'[p] \in {"publish", "idle"} /\ \A q \in Producers : q # p => push'[q] = push[q]
    BY <2>1 DEF TypeOK, Threads
  <2>4. PushTurn(p, m)'
    BY <2>2, <2>3 DEF PushTurn
  <2>5. CASE pc' = [pc EXCEPT ![p] = "publish"]
    BY <1>1, <1>3, <2>1, <2>3, <2>4, <2>5
  <2>6. CASE pc' = [pc EXCEPT ![p] = "idle"]
    BY <1>1, <1>3, <2>1, <2>3, <2>4, <2>6
  <2> QED BY <2>1, <2>5, <2>6
<1> QED BY <1>4, <1>5, <1>6, <1>7, <1>8

(* cmpxchg of a pop: only a slot that was claimed, and each once. *)
LEMMA PopTakesTurn ==
  ASSUME TypeOK, Alone, NEW m \in Nat, Turn(m), NEW c \in Consumers, PopTakes(c)
  PROVE  Turn(m)'
<1> DEFINE i0 == pop[c].index
<1>1. /\ pc[c] = "take" /\ pc' = [pc EXCEPT ![c] = "advance"] /\ status[i0]
      /\ status' = [status EXCEPT ![i0] = FALSE]
      /\ UNCHANGED <<data, head, tail, push, pop, pushes, delivered>>
  BY DEF PopTakes
<1>2. /\ \A d \in Consumers : d # c => pc'[d] = pc[d]
      /\ \A p \in Producers : pc'[p] = pc[p]
      /\ pc'[c] = "advance"
  BY <1>1, ThreadAssumption DEF TypeOK, Threads
<1>3. /\ i0 \in Slots /\ i0 \in Nat /\ tail \in Slots /\ Pos(tail) \in Nat
      /\ i0 \in Claimed /\ m <= NumSlots
      /\ m < NumSlots => i0 < Pos(tail) /\ Pos(tail) <= m + 1
  <2>1. i0 \in Slots /\ tail \in Slots
    BY DEF TypeOK
  <2>2. i0 \in Nat /\ Pos(tail) \in Nat /\ NumSlots \in Nat
    BY <2>1, PosFacts
  <2>3. i0 \in Claimed /\ m <= NumSlots
    BY <1>1, <2>1, <2>2 DEF Turn, Taking
  <2>4. m < NumSlots => PopTurn(c) /\ Pos(tail) <= m + 1
    BY DEF Turn, FirstTurn
  <2> QED BY <1>1, <2>1, <2>2, <2>3, <2>4 DEF PopTurn
<1> HIDE DEF i0
<1>4. /\ ~status'[i0] /\ \A i \in Slots : i # i0 => status'[i] = status[i]
  BY <1>1, <1>3 DEF TypeOK
<1>5. Claimed' = Claimed
  BY <1>1, <1>2 DEF Claimed
<1>6. data[i0] = Undefined => i0 = 0
  <2> SUFFICES ASSUME data[i0] = Undefined, i0 # 0 PROVE FALSE
    OBVIOUS
  <2>1. PICK p \in Producers : pc[p] = "write" /\ push[p].write = i0
    BY <1>3 DEF Claimed
  <2>2. PushTurn(p, m)
    BY DEF Turn, FirstTurn
  <2>3. Pos(i0) = m /\ Pos(i0) = i0 /\ i0 < NumSlots
    BY <1>3, <2>1, <2>2, PosFacts DEF PushTurn, Pos
  <2>4. i0 < Pos(tail)
    BY <1>3, <2>3
  <2>5. Pos(tail) <= Pos(i0)
    BY <1>3, <2>1, <2>2, <2>3 DEF PushTurn
  <2> QED BY <1>3, <2>3, <2>4, <2>5
<1>7. /\ Has(c)' /\ ~Has(c) /\ pop[c].index = i0
      /\ \A d \in Consumers : d # c => (Has(d)' <=> Has(d))
      /\ \A d \in Consumers : Has(d) => pop[d].index \in Slots /\ pop[d].index # i0
  <2>1. \A d \in Consumers : Has(d) => ~status[pop[d].index]
    BY DEF Turn, Taking
  <2> QED BY <1>1, <1>2, <2>1 DEF Has, i0, TypeOK
<1>8. Taking'
  BY <1>1, <1>3, <1>4, <1>5, <1>6, <1>7 DEF Turn, Taking
<1>9. Delivering'
  <2>1. \A i \in Slots : Gone(i) => Gone(i)'
    BY <1>1, <1>4, <1>5, <1>7 DEF Gone
  <2> QED BY <1>1, <2>1 DEF Turn, Delivering
<1>10. \A p \in Producers : PushTurn(p, m)'
  BY <1>1, <1>2 DEF Turn, FirstTurn, PushTurn, Pos
<1>11. m < NumSlots => \A d \in Consumers : PopTurn(d)'
  BY <1>1, <1>2 DEF Turn, FirstTurn, PopTurn, Pos
<1>12. m < NumSlots => \A i \in Slots : Pos(tail) <= i /\ i <= m => status'[i]
  BY <1>3, <1>4, PosFacts DEF Turn, FirstTurn
<1>13. FirstTurn(m)'
  <2>1. Pos(tail)' = Pos(tail) /\ {i \in Slots : Pos(i) <= m}' = {i \in Slots : Pos(i) <= m}
    BY <1>1 DEF Pos
  <2> QED BY <1>1, <1>5, <1>10, <1>11, <1>12, <2>1 DEF Turn, FirstTurn
<1> QED BY <1>8, <1>9, <1>13 DEF Turn

LEMMA PopReadTurn ==
  ASSUME TypeOK, Alone, NEW m \in Nat, Turn(m), NEW c \in Consumers, PopRead(c)
  PROVE  Turn(m)'
<1>0. PICK i0 : i0 = pop[c].index
  OBVIOUS
<1>1. /\ pc[c] = "read" /\ pc' = [pc EXCEPT ![c] = "idle"]
      /\ delivered' = Append(delivered, data[i0])
      /\ UNCHANGED <<data, status, head, tail, push, pop, pushes>>
  BY <1>0 DEF PopRead
<1>2. /\ \A d \in Consumers : d # c => pc'[d] = pc[d]
      /\ \A p \in Producers : pc'[p] = pc[p]
      /\ pc'[c] = "idle"
  BY <1>1, ThreadAssumption DEF TypeOK, Threads
<1>3. /\ i0 \in Slots /\ i0 \in Claimed /\ ~status[i0]
      /\ data[i0] = Undefined => i0 = 0
      /\ \A d \in Consumers : d # c /\ Has(d) => pop[d].index # i0
  BY <1>0, <1>1 DEF Has, Turn, Taking, TypeOK
<1>4. Has(c) /\ ~Has(c)' /\ \A d \in Consumers : d # c => (Has(d)' <=> Has(d))
  BY <1>1, <1>2 DEF Has
<1>5. Claimed' = Claimed
  BY <1>1, <1>2 DEF Claimed
<1>6. Taking'
  BY <1>1, <1>4, <1>5 DEF Turn, Taking
<1>7. Gone(i0)' /\ ~Gone(i0) /\ \A i \in Slots : Gone(i) => Gone(i)'
  BY <1>0, <1>1, <1>3, <1>4, <1>5 DEF Gone
<1>8. /\ delivered \in Seq(Nat) /\ data[i0] \in Nat
      /\ \A i, j \in Slots : i # j /\ data[i] # Undefined => data[i] # data[j]
      /\ \A k \in DOMAIN delivered : \E i \in Slots :
           /\ Gone(i)
           /\ (data[i] # Undefined /\ delivered[k] = data[i]) \/ (delivered[k] = Undefined /\ i = 0)
      /\ \A j, k \in DOMAIN delivered : j # k => delivered[j] # delivered[k]
  BY <1>3 DEF Turn, Taking, Delivering, TypeOK
<1>9. \A k \in DOMAIN delivered : delivered[k] # data[i0]
  BY <1>3, <1>7, <1>8
<1>10. /\ DOMAIN delivered' = DOMAIN delivered \cup {Len(delivered) + 1}
       /\ Len(delivered) + 1 \notin DOMAIN delivered
       /\ delivered'[Len(delivered) + 1] = data[i0]
       /\ \A k \in DOMAIN delivered : delivered'[k] = delivered[k]
  BY <1>1, <1>8
<1>11. Delivering'
  <2> DEFINE n == Len(delivered) + 1
  <2> HIDE DEF n
  <2>1. /\ DOMAIN delivered' = DOMAIN delivered \cup {n} /\ n \notin DOMAIN delivered
        /\ delivered'[n] = data[i0]
        /\ \A k \in DOMAIN delivered : delivered'[k] = delivered[k]
    BY <1>10 DEF n
  <2>2. \A k \in DOMAIN delivered' : \E i \in Slots :
           /\ Gone(i)'
           /\ (data'[i] # Undefined /\ delivered'[k] = data'[i]) \/ (delivered'[k] = Undefined /\ i = 0)
    <3>1. ASSUME NEW k \in DOMAIN delivered
          PROVE  \E i \in Slots :
                   /\ Gone(i)'
                   /\ (data'[i] # Undefined /\ delivered'[k] = data'[i]) \/ (delivered'[k] = Undefined /\ i = 0)
      <4>1. PICK i \in Slots :
              /\ Gone(i)
              /\ (data[i] # Undefined /\ delivered[k] = data[i]) \/ (delivered[k] = Undefined /\ i = 0)
        BY <1>8
      <4>2. Gone(i)' /\ delivered'[k] = delivered[k] /\ data'[i] = data[i]
        BY <1>1, <1>7, <2>1, <4>1
      <4> QED BY <4>1, <4>2
    <3>2. /\ Gone(i0)'
          /\ (data'[i0] # Undefined /\ delivered'[n] = data'[i0]) \/ (delivered'[n] = Undefined /\ i0 = 0)
      BY <1>1, <1>3, <1>7, <2>1
    <3> QED BY <1>3, <2>1, <3>1, <3>2
  <2>3. \A j, k \in DOMAIN delivered' : j # k => delivered'[j] # delivered'[k]
    BY <1>8, <1>9, <2>1
  <2> QED BY <2>2, <2>3 DEF Delivering
<1>12. \A p \in Producers : PushTurn(p, m)'
  BY <1>1, <1>2 DEF Turn, FirstTurn, PushTurn, Pos
<1>13. m < NumSlots => \A d \in Consumers : PopTurn(d)'
  BY <1>1, <1>2 DEF Turn, FirstTurn, PopTurn, Pos
<1>14. FirstTurn(m)'
  <2>1. Pos(tail)' = Pos(tail) /\ {i \in Slots : Pos(i) <= m}' = {i \in Slots : Pos(i) <= m}
    BY <1>1 DEF Pos
  <2> QED BY <1>1, <1>5, <1>12, <1>13, <2>1 DEF Turn, FirstTurn
<1> QED BY <1>6, <1>11, <1>14 DEF Turn

(* The other steps of a pop: none of them touches a slot. *)
LEMMA PopOtherTurn ==
  ASSUME TypeOK, NEW m \in Nat, Turn(m), NEW c \in Consumers,
         PopBegin(c) \/ PopEmpty(c) \/ PopSkips(c) \/ PopAdvance(c) \/ PopResolve(c)
  PROVE  Turn(m)'
<1> DEFINE r == pop[c]
           News == {"idle", "empty", "take", "advance", "lost", "read"}
<1>1. /\ head \in Slots /\ tail \in Slots /\ head \in Nat /\ Pos(tail) \in Nat /\ Pos(tail) <= NumSlots
      /\ r.index \in Slots /\ r.newHead \in Slots /\ r.newHead \in Nat /\ r.index \in Nat
      /\ r \in [expected : Slots, index : Slots, newHead : Slots, seen : Slots]
      /\ c \in Threads
  <2>1. head \in Slots /\ tail \in Slots /\ r \in [expected : Slots, index : Slots, newHead : Slots, seen : Slots]
    BY DEF TypeOK
  <2> QED BY <2>1, PosFacts DEF Threads
<1>2. m < NumSlots => head < Pos(tail) /\ PopTurn(c)
  BY DEF Turn, FirstTurn
<1>3. ASSUME NEW new \in News, pc' = [pc EXCEPT ![c] = new],
             UNCHANGED <<data, status, tail, push, pushes, delivered>>,
             pc[c] \in {"advance", "lost", "read"} <=> new \in {"advance", "lost", "read"},
             pc[c] \in {"advance", "lost", "read"} => pop'[c].index = r.index,
             \A d \in Consumers : d # c => pop'[d] = pop[d],
             m < NumSlots => head' < Pos(tail) /\ PopTurn(c)'
      PROVE  Turn(m)'
  <2>1. pc'[c] = new
    BY <1>1, <1>3 DEF TypeOK
  <2>2. (Has(c)' <=> Has(c)) /\ (Has(c) => pop'[c].index = pop[c].index)
    BY <1>3, <2>1 DEF Has
  <2> QED BY <1>3, <2>2, PopFrame
<1>4. \A new : pc' = [pc EXCEPT ![c] = new] => pc'[c] = new
  BY <1>1 DEF TypeOK
<1> HIDE DEF r
<1>5. CASE PopBegin(c)
  <2>1. /\ pc[c] = "idle" /\ pc' = [pc EXCEPT ![c] = "empty"]
        /\ pop' = [pop EXCEPT ![c] = [expected |-> head, index |-> head, newHead |-> NextSlot(head), seen |-> head]]
        /\ UNCHANGED <<data, status, head, tail, push, pushes, delivered>>
    BY <1>5 DEF PopBegin
  <2>2. /\ pop'[c].index = head /\ pop'[c].newHead = NextSlot(head)
        /\ \A d \in Consumers : d # c => pop'[d] = pop[d]
    BY <2>1 DEF TypeOK
  <2>3. m < NumSlots => Pos(NextSlot(head)) <= Pos(tail)
    BY <1>1, <1>2, PosFacts
  <2>4. Pos(tail)' = Pos(tail) /\ Pos(pop[c].newHead)' = Pos(NextSlot(head)) /\ NextSlot(pop[c].index)' = NextSlot(head)
    BY <2>1, <2>2 DEF Pos, NextSlot
  <2>5. pc'[c] = "empty"
    BY <1>4, <2>1
  <2>6. m < NumSlots => PopTurn(c)'
    BY <2>2, <2>3, <2>4, <2>5 DEF PopTurn
  <2> QED BY <1>2, <1>3, <2>1, <2>2, <2>6
<1>6. CASE PopEmpty(c)
  <2>1. /\ pc[c] = "empty"
        /\ UNCHANGED <<data, status, head, tail, push, pop, pushes, delivered>>
        /\ \/ pc' = [pc EXCEPT ![c] = "idle"]
           \/ r.newHead # tail /\ pc' = [pc EXCEPT ![c] = "take"]
    BY <1>6 DEF PopEmpty, r
  <2>2. CASE pc' = [pc EXCEPT ![c] = "idle"]
    <3>1. PopTurn(c)'
      BY <1>4, <2>2 DEF PopTurn
    <3> QED BY <1>2, <1>3, <2>1, <2>2, <3>1
  <2>3. CASE r.newHead # tail /\ pc' = [pc EXCEPT ![c] = "take"]
    <3>1. pc'[c] = "take" /\ Pos(tail)' = Pos(tail) /\ pop'[c] = r
      BY <1>4, <2>1, <2>3 DEF Pos, r
    <3>2. ASSUME m < NumSlots
          PROVE  r.newHead # 0 /\ r.newHead < Pos(tail) /\ r.index < Pos(tail)
      <4>1. Pos(r.newHead) <= Pos(tail) /\ r.newHead \in {r.index, NextSlot(r.index)}
        BY <1>2, <2>1, <3>2 DEF PopTurn, r
      <4>2. Pos(r.newHead) # Pos(tail) /\ Pos(r.newHead) \in Nat
        BY <1>1, <2>3, PosFacts
      <4>3. Pos(r.newHead) < Pos(tail) /\ Pos(r.newHead) < NumSlots
        BY <1>1, <4>1, <4>2, PosFacts
      <4>4. r.newHead = Pos(r.newHead) /\ 1 <= Pos(r.newHead)
        BY <1>1, <4>3, PosFacts
      <4>5. r.newHead = NextSlot(r.index) => r.index < r.newHead
        BY <1>1, <4>4 DEF NextSlot
      <4> QED BY <1>1, <4>1, <4>3, <4>4, <4>5
    <3>3. m < NumSlots => PopTurn(c)'
      BY <3>1, <3>2 DEF PopTurn
    <3> QED BY <1>2, <1>3, <2>1, <2>3, <3>3
  <2> QED BY <2>1, <2>2, <2>3
<1>7. CASE PopSkips(c)
  <2>1. /\ pc[c] = "take" /\ pc' = [pc EXCEPT ![c] = "empty"]
        /\ pop' = [pop EXCEPT ![c].index = NextSlot(r.index), ![c].newHead = NextSlot(r.index)]
        /\ UNCHANGED <<data, status, head, tail, push, pushes, delivered>>
    BY <1>7 DEF PopSkips, r
  <2>2. /\ pop'[c].index = NextSlot(r.index) /\ pop'[c].newHead = NextSlot(r.index)
        /\ \A d \in Consumers : d # c => pop'[d] = pop[d]
    BY <2>1 DEF TypeOK
  <2>3. m < NumSlots => Pos(NextSlot(r.index)) <= Pos(tail)
    <3>1. m < NumSlots => r.index < Pos(tail)
      BY <1>2, <2>1 DEF PopTurn, r
    <3> QED BY <1>1, <3>1, PosFacts
  <2>4. Pos(tail)' = Pos(tail) /\ Pos(pop[c].newHead)' = Pos(NextSlot(r.index))
    BY <2>1, <2>2 DEF Pos
  <2>5. pc'[c] = "empty"
    BY <1>4, <2>1
  <2>6. m < NumSlots => PopTurn(c)'
    BY <2>2, <2>3, <2>4, <2>5 DEF PopTurn
  <2> QED BY <1>2, <1>3, <2>1, <2>2, <2>6
<1>8. CASE PopAdvance(c)
  <2>0. pc[c] = "advance"
    BY <1>8 DEF PopAdvance
  <2>1. m < NumSlots => r.newHead # 0 /\ r.newHead < Pos(tail)
    BY <1>2, <2>0 DEF PopTurn, r
  <2>2. CASE head = pop[c].expected
    <3>1. /\ pc' = [pc EXCEPT ![c] = "read"] /\ head' = r.newHead
          /\ UNCHANGED <<data, status, tail, push, pop, pushes, delivered>>
      BY <1>8, <2>2 DEF PopAdvance, r
    <3>2. PopTurn(c)'
      BY <1>4, <3>1 DEF PopTurn
    <3> QED BY <1>3, <2>0, <2>1, <3>1, <3>2 DEF r
  <2>3. CASE head # pop[c].expected
    <3>1. /\ pc' = [pc EXCEPT ![c] = "lost"] /\ pop' = [pop EXCEPT ![c].seen = head]
          /\ UNCHANGED <<data, status, head, tail, push, pushes, delivered>>
      BY <1>8, <2>3 DEF PopAdvance
    <3>2. /\ pop'[c].index = r.index /\ pop'[c].newHead = r.newHead
          /\ \A d \in Consumers : d # c => pop'[d] = pop[d]
      BY <3>1 DEF TypeOK, r
    <3>3. pc'[c] = "lost" /\ Pos(tail)' = Pos(tail)
      BY <1>4, <3>1 DEF Pos
    <3>4. m < NumSlots => PopTurn(c)'
      BY <2>1, <3>2, <3>3 DEF PopTurn
    <3> QED BY <1>2, <1>3, <2>0, <3>1, <3>2, <3>4
  <2> QED BY <2>2, <2>3
<1>9. CASE PopResolve(c)
  <2>1. /\ pc[c] = "lost"
        /\ pc' = [pc EXCEPT ![c] = "read"] \/ pc' = [pc EXCEPT ![c] = "advance"]
        /\ pop' = [pop EXCEPT ![c].expected = r.seen] \/ pop' = pop
        /\ UNCHANGED <<data, status, head, tail, push, pushes, delivered>>
    BY <1>9 DEF PopResolve, r
  <2>2. /\ pop'[c].index = r.index /\ pop'[c].newHead = r.newHead
        /\ \A d \in Consumers : d # c => pop'[d] = pop[d]
    BY <2>1 DEF TypeOK, r
  <2>3. m < NumSlots => r.newHead # 0 /\ r.newHead < Pos(tail)
    BY <1>2, <2>1 DEF PopTurn, r
  <2>4. pc'[c] \in {"read", "advance"} /\ Pos(tail)' = Pos(tail)
    BY <1>4, <2>1 DEF Pos
  <2>5. m < NumSlots => PopTurn(c)'
    BY <2>2, <2>3, <2>4 DEF PopTurn
  <2>6. CASE pc' = [pc EXCEPT ![c] = "read"]
    BY <1>2, <1>3, <2>1, <2>2, <2>5, <2>6
  <2>7. CASE pc' = [pc EXCEPT ![c] = "advance"]
    BY <1>2, <1>3, <2>1, <2>2, <2>5, <2>7
  <2> QED BY <2>1, <2>6, <2>7
<1> QED BY <1>5, <1>6, <1>7, <1>8, <1>9

(* Who is absent stays absent, and nobody leaves. *)
LEMMA AloneBefore ==
  ASSUME TypeOK, [Next]_vars, Alone'
  PROVE  Alone
<1>1. \A p \in Producers : pc'[p] = "absent" => pc[p] = "absent"
  <2> SUFFICES ASSUME NEW p \in Producers, pc'[p] # pc[p] PROVE pc'[p] # "absent"
    OBVIOUS
  <2> DEFINE Moves == \E t \in Threads : \E new \in (PushLabels \cup PopLabels) \ {"absent"} :
                        pc' = [pc EXCEPT ![t] = new]
  <2>1. Moves
    <3>1. CASE UNCHANGED vars
      BY <3>1 DEF vars
    <3>2. ASSUME NEW q \in Producers, PushBegin(q) \/ PushStep(q) PROVE Moves
      BY <3>2 DEF Threads, PushLabels, PopLabels, PushBegin, PushStep, PushClaimed, PushSkips, PushWrite,
                  PushFull, PushHasRoom, PushPublish, PushResolve
    <3>3. ASSUME NEW c \in Consumers, PopBegin(c) \/ PopStep(c) PROVE Moves
      BY <3>3 DEF Threads, PushLabels, PopLabels, PopBegin, PopStep, PopEmpty, PopTakes, PopSkips,
                  PopAdvance, PopResolve, PopRead
    <3> QED BY <3>1, <3>2, <3>3 DEF Next
  <2> QED BY <2>1 DEF TypeOK
<1> QED BY <1>1 DEF Alone

(* Some number of claims explains the state before every step and after it. *)
LEMMA TurnStep == TypeOK /\ TurnInv /\ [Next]_vars => TurnInv'
<1> SUFFICES ASSUME TypeOK, TurnInv, [Next]_vars, pushes' <= NumSlots, Alone' PROVE \E m \in Nat : Turn(m)'
  BY DEF TurnInv
<1>1. Alone
  BY AloneBefore
<1>2. pushes <= NumSlots
  <2>1. pushes' = pushes \/ pushes' = pushes + 1
    BY DEF vars, Next, PushBegin, PushStep, PushClaimed, PushSkips, PushWrite, PushFull, PushHasRoom,
           PushPublish, PushResolve, PopBegin, PopStep, PopEmpty, PopTakes, PopSkips, PopAdvance, PopResolve, PopRead
  <2> QED BY <2>1, PosFacts DEF TypeOK
<1>3. PICK m \in Nat : Turn(m)
  BY <1>1, <1>2 DEF TurnInv
<1>4. CASE UNCHANGED vars
  <2>1. UNCHANGED <<data, status, head, tail, pc, push, pop, pushes, delivered>>
    BY <1>4 DEF vars
  <2>2. Turn(m)'
    BY <1>3, <2>1 DEF Turn, Taking, Delivering, FirstTurn, PushTurn, PopTurn, Gone, Claimed, Has, Pos
  <2> QED BY <2>2
<1>5. ASSUME NEW p \in Producers, PushBegin(p) \/ PushStep(p) PROVE \E k \in Nat : Turn(k)'
  <2>1. CASE PushBegin(p)
    BY <1>1, <1>3, <2>1, PushBeginTurn
  <2>2. CASE PushClaimed(p)
    <3>1. Turn(m + 1)'
      BY <1>1, <1>2, <1>3, <2>2, PushClaimedTurn
    <3> QED BY <3>1
  <2>3. CASE PushWrite(p)
    BY <1>1, <1>3, <2>3, PushWriteTurn
  <2>4. CASE PushSkips(p) \/ PushFull(p) \/ PushHasRoom(p) \/ PushPublish(p) \/ PushResolve(p)
    BY <1>1, <1>2, <1>3, <2>4, PushOtherTurn
  <2> QED BY <1>5, <2>1, <2>2, <2>3, <2>4 DEF PushStep
<1>6. ASSUME NEW c \in Consumers, PopBegin(c) \/ PopStep(c) PROVE \E k \in Nat : Turn(k)'
  <2>1. CASE PopTakes(c)
    BY <1>1, <1>3, <2>1, PopTakesTurn
  <2>2. CASE PopRead(c)
    BY <1>1, <1>3, <2>2, PopReadTurn
  <2>3. CASE PopBegin(c) \/ PopEmpty(c) \/ PopSkips(c) \/ PopAdvance(c) \/ PopResolve(c)
    BY <1>3, <2>3, PopOtherTurn
  <2> QED BY <1>6, <2>1, <2>2, <2>3 DEF PopStep
<1> QED BY <1>4, <1>5, <1>6 DEF Next

(* While one thread pushes, however many pop, no value of the ring's first    *)
(* turn is delivered twice.                                                   *)
THEOREM DeliveredOnce == Spec => []NoDoubleDelivery
<1>1. Init => TypeOK /\ TurnInv
  <2>1. Init => TypeOK
    BY SlotLemma DEF Init, TypeOK, PushLabels, PopLabels, Undefined
  <2>2. Init => TurnInv
    BY InitTurn DEF TurnInv
  <2> QED BY <2>1, <2>2
<1>2. TurnInv => NoDoubleDelivery
  <2> SUFFICES ASSUME TurnInv, pushes <= NumSlots, Alone
               PROVE  \A i, j \in 1 .. Len(delivered) : i # j => delivered[i] # delivered[j]
    BY DEF NoDoubleDelivery, Alone
  <2>1. Delivering
    BY DEF TurnInv, Turn
  <2> QED BY <2>1 DEF Delivering
<1>3. TypeOK /\ TurnInv /\ [Next]_vars => TypeOK' /\ TurnInv'
  BY TypeStep, TurnStep
<1> QED BY <1>1, <1>2, <1>3, PTL DEF Spec

-----------------------------------------------------------------------------
(* Positions around the ring. *)

LEMMA AheadFacts ==
  ASSUME NEW a \in Slots, NEW k \in 0 .. NumSlots - 1
  PROVE  Ahead(a, k) \in Slots /\ Gap(a, Ahead(a, k)) = k
BY CapacityAssumption DEF Ahead, Gap, Slots, NumSlots

LEMMA GapFacts ==
  ASSUME NEW a \in Slots, NEW b \in Slots
  PROVE  /\ Gap(a, b) \in 0 .. NumSlots - 1 /\ Ahead(a, Gap(a, b)) = b
         /\ a # b => Gap(a, b) # 0 /\ Gap(b, a) = NumSlots - Gap(a, b)
BY CapacityAssumption DEF Ahead, Gap, Slots, NumSlots

LEMMA AheadNext ==
  ASSUME NEW a \in Slots, NEW k \in 0 .. NumSlots - 2
  PROVE  Ahead(a, 0) = a /\ Ahead(NextSlot(a), k) = Ahead(a, k + 1) /\ NextSlot(Ahead(a, k)) = Ahead(a, k + 1)
BY CapacityAssumption DEF Ahead, NextSlot, Slots, NumSlots

LEMMA AheadAhead ==
  ASSUME NEW a \in Slots, NEW j \in Nat, NEW k \in Nat, j + k < NumSlots
  PROVE  Ahead(Ahead(a, j), k) = Ahead(a, j + k)
BY CapacityAssumption DEF Ahead, Slots, NumSlots

LEMMA NextInjective ==
  ASSUME NEW a \in Slots, NEW b \in Slots, NextSlot(a) = NextSlot(b)
  PROVE  a = b
BY CapacityAssumption DEF NextSlot, Slots, NumSlots

(* What lies from a up to b and what lies from b up to a. *)
LEMMA Arcs ==
  ASSUME NEW a \in Slots, NEW b \in Slots, NEW j \in 0 .. Gap(a, b) - 1, NEW k \in 0 .. Gap(b, a) - 1
  PROVE  Ahead(a, j) # Ahead(b, k)
BY CapacityAssumption DEF Ahead, Gap, Slots, NumSlots

(* The numbers from a up to b, counted. *)
LEMMA NthOfInterval ==
  ASSUME NEW a \in Nat, NEW b \in Nat, a <= b, NEW S, S = a .. b - 1
  PROVE  Cardinality(S) = b - a /\ \A j \in 1 .. b - a : Nth(S, j) = a + j - 1
<1>1. Cardinality(S) = b - a
  <2>1. Cardinality(a .. b - 1) = IF a > b - 1 THEN 0 ELSE (b - 1) - a + 1
    BY FS_Interval
  <2> QED BY <2>1
<1>2. ASSUME NEW k \in S PROVE Cardinality({l \in S : l < k}) = k - a
  <2>1. {l \in S : l < k} = a .. k - 1
    OBVIOUS
  <2>2. Cardinality(a .. k - 1) = IF a > k - 1 THEN 0 ELSE (k - 1) - a + 1
    BY FS_Interval
  <2>3. k \in Int /\ a <= k /\ a \in Int
    OBVIOUS
  <2> DEFINE c == Cardinality(a .. k - 1)
  <2>4. c = k - a
    <3>1. c = IF a > k - 1 THEN 0 ELSE (k - 1) - a + 1
      BY <2>2
    <3> HIDE DEF c
    <3> QED BY <2>3, <3>1
  <2> QED BY <2>1, <2>4, Zenon
<1>3. ASSUME NEW j \in 1 .. b - a PROVE Nth(S, j) = a + j - 1
  <2>1. a + j - 1 \in S /\ Cardinality({l \in S : l < a + j - 1}) = j - 1
    BY <1>2
  <2>2. \A k \in S : Cardinality({l \in S : l < k}) = j - 1 => k = a + j - 1
    <3> SUFFICES ASSUME NEW k \in S, Cardinality({l \in S : l < k}) = j - 1 PROVE k = a + j - 1
      OBVIOUS
    <3>1. k - a = j - 1
      BY <1>2
    <3> QED BY <3>1
  <2> QED BY <2>1, <2>2 DEF Nth
<1> QED BY <1>1, <1>3

-----------------------------------------------------------------------------
(* The ring of one producer and one consumer *)

Pushing(p) == pc[p] \in {"write", "written", "publish"}

PushRing(p, r) ==
  LET g == Gap(tail, push[p].write) IN
  /\ pc[p] \in {"claim", "skipped"} => g <= r
  /\ pc[p] = "write" => g = r - 1
  /\ pc[p] \in {"written", "publish"} => g = r /\ data[Ahead(tail, r - 1)] = push[p].value
  /\ pc[p] \notin {"idle", "absent"} => push[p].value \in 1 .. MaxPushes

PopRing(c) == pc[c] \in {"empty", "take", "advance"} => pop[c].newHead = NextSlot(head)

(* The first r free slots are claimed, by pushes that were refused and by the *)
(* one going on, and all slots in use but the one being taken.                *)
Ring(p, c, r) ==
  /\ r \in 0 .. Gap(tail, head)
  /\ \A k \in 0 .. Gap(tail, head) - 1 : status[Ahead(tail, k)] <=> k < r
  /\ \A k \in 1 .. Gap(head, tail) - 1 : status[Ahead(head, k)] <=> ~(k = 1 /\ pc[c] = "advance")
  /\ PushRing(p, r) /\ PopRing(c)
  /\ pushes <= MaxPushes

(* What the mapping is then. *)
Mapped(p, c, r) ==
  LET a == IF pc[c] = "advance" THEN 1 ELSE 0
      q == IF Pushing(p) THEN 1 ELSE 0
  IN
  /\ q <= r /\ a <= Gap(head, tail) - 1
  /\ Accepted = [j \in 1 .. Gap(head, tail) - 1 - a |-> data[Ahead(head, a + j)]]
  /\ Retained = [j \in 1 .. r - q |-> data[Ahead(tail, j - 1)]]
  /\ Taken = IF pc[c] \in {"advance", "read"} THEN <<data[pop[c].index]>> ELSE <<>>

(* The slot of the push going on is the last claimed. *)
LEMMA InProgressIs ==
  ASSUME NEW p0, NEW c0, Producers = {p0}, Consumers = {c0}, SingleUserInv, NEW r \in Nat, Ring(p0, c0, r)
  PROVE  /\ Pushing(p0) => r >= 1
         /\ \A i \in Slots : InProgress(i) <=> Pushing(p0) /\ i = Ahead(tail, r - 1)
<1> DEFINE w == push[p0].write
           g == Gap(tail, w)
<1>1. head \in Slots /\ tail \in Slots /\ w \in Slots /\ head # tail
  BY DEF SingleUserInv, TypeOK
<1>2. g \in 0 .. NumSlots - 1 /\ Ahead(tail, g) = w /\ (w # tail => g # 0)
  BY <1>1, GapFacts
<1>3. Gap(tail, head) \in 0 .. NumSlots - 1
  BY <1>1, GapFacts
<1>4. /\ pc[p0] = "write" => g = r - 1
      /\ pc[p0] \in {"written", "publish"} => g = r
      /\ r \in 0 .. Gap(tail, head)
  BY DEF Ring, PushRing
<1>5. pc[p0] = "publish" => w # tail
  BY DEF SingleUserInv, PushInv
<1>6. pc[p0] = "written" => w # tail
  BY DEF SingleUserInv, PushInv
<1>7. NumSlots \in Nat
  BY CapacityAssumption DEF NumSlots
<1> HIDE DEF w, g
<1>8. pc[p0] \in {"written", "publish"} => r >= 1
  BY <1>2, <1>4, <1>5, <1>6
<1>9. Pushing(p0) => r >= 1
  BY <1>2, <1>4, <1>8 DEF Pushing
<1>10. ASSUME NEW i \in Slots PROVE InProgress(i) <=> Pushing(p0) /\ i = Ahead(tail, r - 1)
  <2>1. InProgress(i) <=> (pc[p0] = "write" /\ w = i) \/ (pc[p0] \in {"written", "publish"} /\ w = NextSlot(i))
    BY DEF InProgress, w
  <2>2. CASE pc[p0] = "write"
    BY <1>2, <1>4, <2>1, <2>2 DEF Pushing
  <2>3. CASE pc[p0] \in {"written", "publish"}
    <3> DEFINE k == r - 1
    <3>1. k \in 0 .. NumSlots - 2 /\ k + 1 = g
      BY <1>2, <1>3, <1>4, <1>7, <1>8, <2>3
    <3> HIDE DEF k
    <3>2. NextSlot(Ahead(tail, k)) = w
      BY <1>1, <1>2, <3>1, AheadNext
    <3>3. Ahead(tail, k) \in Slots
      <4>1. k \in 0 .. NumSlots - 1
        BY <1>7, <3>1
      <4> QED BY <1>1, <4>1, AheadFacts
    <3>4. w = NextSlot(i) <=> i = Ahead(tail, k)
      BY <3>2, <3>3, NextInjective
    <3>5. Pushing(p0) /\ pc[p0] # "write"
      BY <2>3 DEF Pushing
    <3> QED BY <2>1, <2>3, <3>4, <3>5 DEF k
  <2>4. CASE ~Pushing(p0)
    BY <2>1, <2>4 DEF Pushing
  <2> QED BY <2>2, <2>3, <2>4 DEF Pushing
<1> QED BY <1>9, <1>10

LEMMA MappedIs ==
  ASSUME NEW p0, NEW c0, Producers = {p0}, Consumers = {c0}, NEW r \in Nat
  PROVE  SingleUserInv /\ Ring(p0, c0, r) => Mapped(p0, c0, r)
<1> SUFFICES ASSUME SingleUserInv, Ring(p0, c0, r) PROVE Mapped(p0, c0, r)
  OBVIOUS
<1> DEFINE a == IF pc[c0] = "advance" THEN 1 ELSE 0
           q == IF Pushing(p0) THEN 1 ELSE 0
           G == Gap(head, tail)
           H == Gap(tail, head)
           next == NextSlot(head)
<1>0. head \in Slots /\ tail \in Slots /\ head # tail /\ NumSlots \in Nat /\ next \in Slots
  BY CapacityAssumption, SlotLemma DEF SingleUserInv, TypeOK, NumSlots
<1>1. G \in 1 .. NumSlots - 1 /\ H \in 1 .. NumSlots - 1 /\ r \in 0 .. H
  BY <1>0, GapFacts DEF Ring
<1>2. /\ Pushing(p0) => r >= 1
      /\ \A i \in Slots : InProgress(i) <=> Pushing(p0) /\ i = Ahead(tail, r - 1)
  BY InProgressIs
<1>3. q \in Nat /\ q <= r /\ (q = 1 <=> Pushing(p0)) /\ (q = 0 <=> ~Pushing(p0))
  BY <1>2
<1>4. pc[c0] = "advance" => G >= 2
  <2>1. pc[c0] = "advance" => pop[c0].newHead = next /\ Gap(head, pop[c0].newHead) < G
    BY DEF SingleUserInv, PopInv, Ring, PopRing
  <2>2. Gap(head, next) = 1
    BY <1>0, <1>1, CapacityAssumption DEF Gap, NextSlot, Slots, NumSlots
  <2> QED BY <1>1, <2>1, <2>2
<1>5. a \in Nat /\ a <= G - 1 /\ (a = 1 <=> pc[c0] = "advance") /\ a \in 0 .. 1
  BY <1>1, <1>4
<1>6. /\ \A k \in 0 .. H - 1 : status[Ahead(tail, k)] <=> k < r
      /\ \A k \in 1 .. G - 1 : status[Ahead(head, k)] <=> ~(k = 1 /\ pc[c0] = "advance")
  BY DEF Ring
<1> DEFINE g == Gap(next, tail)
<1>7. g = G - 1
  BY <1>0, <1>1, CapacityAssumption DEF Gap, NextSlot, Slots, NumSlots
<1>8. Accepted = [j \in 1 .. G - 1 - a |-> data[Ahead(head, a + j)]]
  <2> DEFINE held == {k \in 0 .. g - 1 : status[Ahead(next, k)] /\ ~InProgress(Ahead(next, k))}
  <2>1. Accepted = [j \in 1 .. Cardinality(held) |-> data[Ahead(next, Nth(held, j))]]
    BY DEF Accepted, Held
  <2>2. ASSUME NEW k \in 0 .. g - 1
        PROVE  status[Ahead(next, k)] /\ ~InProgress(Ahead(next, k)) <=> a <= k
    <3> HIDE DEF a, q, G, H, next, g
    <3>1. k \in 0 .. NumSlots - 2 /\ k + 1 \in 1 .. G - 1 /\ k + 1 \in 0 .. NumSlots - 1
      BY <1>0, <1>1, <1>7
    <3>2. Ahead(next, k) = Ahead(head, k + 1)
      BY <1>0, <3>1, AheadNext DEF next
    <3>3. Ahead(head, k + 1) \in Slots
      BY <1>0, <3>1, AheadFacts
    <3>4. ~InProgress(Ahead(head, k + 1))
      <4>1. CASE Pushing(p0)
        <5>1. r - 1 \in 0 .. H - 1 /\ k + 1 \in 0 .. G - 1
          BY <1>1, <1>2, <3>1, <4>1
        <5>2. Ahead(head, k + 1) # Ahead(tail, r - 1)
          BY <1>0, <5>1, Arcs DEF G, H
        <5> QED BY <1>2, <3>3, <5>2
      <4>2. CASE ~Pushing(p0)
        BY <1>2, <3>3, <4>2
      <4> QED BY <4>1, <4>2
    <3>5. status[Ahead(head, k + 1)] <=> ~(k + 1 = 1 /\ pc[c0] = "advance")
      BY <1>6, <3>1
    <3> QED BY <1>5, <3>1, <3>2, <3>4, <3>5
  <2>3. held = a .. g - 1
    <3> HIDE DEF g
    <3> QED BY <1>1, <1>5, <1>7, <2>2
  <2> HIDE DEF held, g, a, G
  <2>4. a <= g /\ g \in Nat
    BY <1>1, <1>5, <1>7
  <2>5. Cardinality(held) = g - a /\ \A j \in 1 .. g - a : Nth(held, j) = a + j - 1
    BY <1>5, <2>3, <2>4, NthOfInterval
  <2>6. ASSUME NEW j \in 1 .. g - a PROVE data[Ahead(next, Nth(held, j))] = data[Ahead(head, a + j)]
    <3>1. a + j - 1 \in 0 .. NumSlots - 2 /\ (a + j - 1) + 1 = a + j
      BY <1>0, <1>1, <1>5, <1>7
    <3>2. Ahead(next, a + j - 1) = Ahead(head, a + j)
      BY <1>0, <3>1, AheadNext
    <3> QED BY <2>5, <3>2
  <2>7. Cardinality(held) = G - 1 - a
    BY <1>1, <1>5, <1>7, <2>5
  <2> QED BY <2>1, <2>5, <2>6, <2>7
<1>9. Retained = [j \in 1 .. r - q |-> data[Ahead(tail, j - 1)]]
  <2> DEFINE held == {k \in 0 .. H - 1 : status[Ahead(tail, k)] /\ ~InProgress(Ahead(tail, k))}
  <2>1. Retained = [j \in 1 .. Cardinality(held) |-> data[Ahead(tail, Nth(held, j))]]
    BY DEF Retained, Held
  <2>2. ASSUME NEW k \in 0 .. H - 1
        PROVE  status[Ahead(tail, k)] /\ ~InProgress(Ahead(tail, k)) <=> k < r - q
    <3> HIDE DEF H, q
    <3>1. k \in 0 .. NumSlots - 1
      BY <1>0, <1>1
    <3>2. Ahead(tail, k) \in Slots /\ Gap(tail, Ahead(tail, k)) = k
      BY <1>0, <3>1, AheadFacts
    <3>3. CASE Pushing(p0)
      <4>1. r - 1 \in 0 .. NumSlots - 1
        BY <1>0, <1>1, <1>2, <3>3
      <4>2. Gap(tail, Ahead(tail, r - 1)) = r - 1
        BY <1>0, <4>1, AheadFacts
      <4>3. InProgress(Ahead(tail, k)) <=> k = r - 1
        BY <1>2, <3>2, <3>3, <4>2
      <4> QED BY <1>1, <1>3, <1>6, <3>3, <4>3
    <3>4. CASE ~Pushing(p0)
      BY <1>1, <1>2, <1>3, <1>6, <3>2, <3>4
    <3> QED BY <3>3, <3>4
  <2>3. held = 0 .. (r - q) - 1
    <3> HIDE DEF q, H
    <3> QED BY <1>1, <1>3, <2>2
  <2> HIDE DEF held, q
  <2>4. 0 <= r - q /\ r - q \in Nat
    BY <1>3
  <2>5. Cardinality(held) = (r - q) - 0 /\ \A j \in 1 .. (r - q) - 0 : Nth(held, j) = 0 + j - 1
    BY <2>3, <2>4, NthOfInterval
  <2>6. Cardinality(held) = r - q /\ \A j \in 1 .. r - q : Nth(held, j) = j - 1
    BY <1>3, <2>5
  <2> QED BY <2>1, <2>6
<1>10. Taken = IF pc[c0] \in {"advance", "read"} THEN <<data[pop[c0].index]>> ELSE <<>>
  <2> DEFINE taking == {c \in Consumers : pc[c] \in {"advance", "read"}}
  <2>1. CASE pc[c0] \in {"advance", "read"}
    <3>1. taking = {c0}
      BY <2>1
    <3>2. Taken = <<data[pop[CHOOSE c \in taking : TRUE].index]>>
      BY <3>1 DEF Taken
    <3>3. (CHOOSE c \in taking : TRUE) = c0
      BY <3>1
    <3> QED BY <2>1, <3>2, <3>3
  <2>2. CASE ~(pc[c0] \in {"advance", "read"})
    <3>1. taking = {}
      BY <2>2
    <3> QED BY <2>2, <3>1 DEF Taken
  <2> QED BY <2>1, <2>2
<1> QED BY <1>3, <1>5, <1>8, <1>9, <1>10 DEF Mapped

LEMMA MappedNext ==
  ASSUME NEW p0, NEW c0, Producers = {p0}, Consumers = {c0}, NEW r \in Nat
  PROVE  (SingleUserInv /\ Ring(p0, c0, r))' => Mapped(p0, c0, r)'
<1>1. SingleUserInv /\ Ring(p0, c0, r) => Mapped(p0, c0, r)
  BY MappedIs
<1> QED BY <1>1, PTL

(* Steps the abstract queue does not see: no index moves, nothing is taken or *)
(* retained, and only the slot of the push going on may be written.           *)
LEMMA Unseen ==
  ASSUME NEW p0, NEW c0, Producers = {p0}, Consumers = {c0}, SingleUserInv, SingleUserInv',
         NEW r \in Nat, NEW s \in Nat, Ring(p0, c0, r), Ring(p0, c0, s)',
         UNCHANGED <<head, tail, delivered>>,
         pc'[c0] = "advance" <=> pc[c0] = "advance", pc'[c0] = "read" <=> pc[c0] = "read",
         pc[c0] \in {"advance", "read"} => pop'[c0].index = pop[c0].index,
         \/ (Pushing(p0)' <=> Pushing(p0)) /\ s = r
         \/ ~Pushing(p0) /\ Pushing(p0)' /\ s = r + 1,
         data' = data \/ (Pushing(p0) /\ \A i \in Slots : i # Ahead(tail, r - 1) => data'[i] = data[i])
  PROVE  UNCHANGED <<Accepted, Retained, Delivered>>
<1> DEFINE a == IF pc[c0] = "advance" THEN 1 ELSE 0
           q == IF Pushing(p0) THEN 1 ELSE 0
           G == Gap(head, tail)
           H == Gap(tail, head)
<1>0. head \in Slots /\ tail \in Slots /\ head # tail /\ NumSlots \in Nat /\ pop[c0].index \in Slots
  BY CapacityAssumption DEF SingleUserInv, TypeOK, NumSlots
<1>1. G \in 1 .. NumSlots - 1 /\ H \in 1 .. NumSlots - 1 /\ r \in 0 .. H
  BY <1>0, GapFacts DEF Ring
<1>2. Mapped(p0, c0, r) /\ Mapped(p0, c0, s)'
  BY MappedIs, MappedNext
<1>3. /\ q <= r /\ a <= G - 1
      /\ Accepted = [j \in 1 .. G - 1 - a |-> data[Ahead(head, a + j)]]
      /\ Retained = [j \in 1 .. r - q |-> data[Ahead(tail, j - 1)]]
      /\ Taken = IF pc[c0] \in {"advance", "read"} THEN <<data[pop[c0].index]>> ELSE <<>>
  BY <1>2 DEF Mapped
<1>4. /\ a' = a /\ G' = G /\ s - q' = r - q
  OBVIOUS
<1>5. /\ Accepted' = [j \in 1 .. G - 1 - a |-> data'[Ahead(head, a + j)]]
      /\ Retained' = [j \in 1 .. r - q |-> data'[Ahead(tail, j - 1)]]
      /\ Taken' = IF pc[c0] \in {"advance", "read"} THEN <<data'[pop[c0].index]>> ELSE <<>>
  <2>1. /\ Accepted' = [j \in 1 .. G' - 1 - a' |-> data'[Ahead(head', a' + j)]]
        /\ Retained' = [j \in 1 .. s - q' |-> data'[Ahead(tail', j - 1)]]
        /\ Taken' = IF pc'[c0] \in {"advance", "read"} THEN <<data'[pop'[c0].index]>> ELSE <<>>
    BY <1>2 DEF Mapped
  <2>2. Taken' = IF pc[c0] \in {"advance", "read"} THEN <<data'[pop[c0].index]>> ELSE <<>>
    BY <2>1
  <2> HIDE DEF a, q, G
  <2>3. Accepted' = [j \in 1 .. G - 1 - a |-> data'[Ahead(head, a + j)]]
    BY <1>4, <2>1
  <2>4. Retained' = [j \in 1 .. r - q |-> data'[Ahead(tail, j - 1)]]
    BY <1>4, <2>1
  <2> QED BY <2>2, <2>3, <2>4
<1>6. a \in 0 .. 1 /\ q \in 0 .. 1 /\ (Pushing(p0) => q = 1)
  OBVIOUS
<1>7. pc[c0] \in {"advance", "read"} => pop[c0].index = Ahead(head, a)
  <2>1. pc[c0] = "advance" => pop[c0].index = NextSlot(head)
    BY DEF SingleUserInv, PopInv, Ring, PopRing
  <2>2. pc[c0] = "read" => pop[c0].index = head
    BY DEF SingleUserInv, PopInv
  <2>3. Ahead(head, 0) = head /\ NextSlot(Ahead(head, 0)) = Ahead(head, 1)
    BY <1>0, <1>1, AheadNext
  <2> QED BY <2>1, <2>2, <2>3
<1> HIDE DEF a, q, G, H
<1>8. ASSUME NEW i \in Slots, data' = data \/ i # Ahead(tail, r - 1) PROVE data'[i] = data[i]
  BY <1>8
<1>9. ASSUME NEW k \in 0 .. G - 1
      PROVE  data'[Ahead(head, k)] = data[Ahead(head, k)]
  <2>1. k \in 0 .. NumSlots - 1
    BY <1>0, <1>1
  <2>2. Ahead(head, k) \in Slots
    BY <1>0, <2>1, AheadFacts
  <2>3. CASE Pushing(p0)
    <3>1. r - 1 \in 0 .. H - 1
      BY <1>1, <1>3, <1>6, <2>3
    <3>2. Ahead(head, k) # Ahead(tail, r - 1)
      BY <1>0, <3>1, Arcs DEF G, H
    <3> QED BY <1>8, <2>2, <3>2
  <2>4. CASE ~Pushing(p0)
    BY <1>8, <2>2, <2>4
  <2> QED BY <2>3, <2>4
<1>10. Accepted' = Accepted
  <2>1. \A j \in 1 .. G - 1 - a : data'[Ahead(head, a + j)] = data[Ahead(head, a + j)]
    <3> SUFFICES ASSUME NEW j \in 1 .. G - 1 - a PROVE data'[Ahead(head, a + j)] = data[Ahead(head, a + j)]
      OBVIOUS
    <3>1. a + j \in 0 .. G - 1
      BY <1>1, <1>6
    <3> QED BY <1>9, <3>1
  <2> QED BY <1>3, <1>5, <2>1
<1>11. Retained' = Retained
  <2>1. \A j \in 1 .. r - q : data'[Ahead(tail, j - 1)] = data[Ahead(tail, j - 1)]
    <3> SUFFICES ASSUME NEW j \in 1 .. r - q PROVE data'[Ahead(tail, j - 1)] = data[Ahead(tail, j - 1)]
      OBVIOUS
    <3>1. j - 1 \in 0 .. NumSlots - 1 /\ r \in 0 .. NumSlots - 1
      BY <1>0, <1>1, <1>3, <1>6
    <3>2. Ahead(tail, j - 1) \in Slots /\ Gap(tail, Ahead(tail, j - 1)) = j - 1
      BY <1>0, <3>1, AheadFacts
    <3>3. CASE Pushing(p0)
      <4>1. r - 1 \in 0 .. NumSlots - 1 /\ j - 1 # r - 1
        BY <1>0, <1>1, <1>3, <1>6, <3>1, <3>3
      <4>2. Ahead(tail, j - 1) # Ahead(tail, r - 1)
        BY <1>0, <3>2, <4>1, AheadFacts
      <4> QED BY <1>8, <3>2, <4>2
    <3>4. CASE ~Pushing(p0)
      BY <1>8, <3>2, <3>4
    <3> QED BY <3>3, <3>4
  <2> QED BY <1>3, <1>5, <2>1
<1>12. Taken' = Taken
  <2>1. a \in 0 .. G - 1
    BY <1>1, <1>3, <1>6
  <2>2. data'[Ahead(head, a)] = data[Ahead(head, a)]
    BY <1>9, <2>1
  <2> QED BY <1>3, <1>5, <1>7, <2>2
<1>13. Delivered' = Delivered
  <2>1. delivered' = delivered
    OBVIOUS
  <2> QED BY <1>12, <2>1 DEF Delivered
<1> QED BY <1>10, <1>11, <1>13

LEMMA GapNext ==
  ASSUME NEW a \in Slots, NEW w \in Slots, Gap(a, w) < NumSlots - 1
  PROVE  Gap(a, NextSlot(w)) = Gap(a, w) + 1
BY CapacityAssumption DEF Gap, NextSlot, Slots, NumSlots

(* What the steps below have in common. *)
LEMMA RingFacts ==
  ASSUME NEW p0, NEW c0, Producers = {p0}, Consumers = {c0}, SingleUserInv, NEW r \in Nat, Ring(p0, c0, r)
  PROVE  /\ p0 \in Threads /\ c0 \in Threads /\ p0 # c0
         /\ head \in Slots /\ tail \in Slots /\ head # tail /\ ~status[head]
         /\ push[p0].write \in Slots /\ pop[c0].index \in Slots /\ pop[c0].newHead \in Slots
         /\ NumSlots \in Nat /\ NumSlots = Capacity + 1 /\ Capacity \in Nat
         /\ Gap(head, tail) \in 1 .. NumSlots - 1 /\ Gap(tail, head) \in 1 .. NumSlots - 1
         /\ Gap(head, tail) + Gap(tail, head) = NumSlots
         /\ Gap(tail, push[p0].write) \in Nat
         /\ Ahead(tail, Gap(tail, push[p0].write)) = push[p0].write
         /\ r \in 0 .. Gap(tail, head)
         /\ Ahead(head, 0) = head /\ NextSlot(head) = Ahead(head, 1) /\ Gap(head, NextSlot(head)) = 1
         /\ NextSlot(head) \in Slots
<1>1. /\ head \in Slots /\ tail \in Slots /\ head # tail /\ ~status[head]
      /\ push[p0].write \in Slots /\ pop[c0].index \in Slots /\ pop[c0].newHead \in Slots
  BY DEF SingleUserInv, TypeOK
<1>2. NumSlots \in Nat /\ NumSlots = Capacity + 1 /\ Capacity \in Nat /\ NumSlots > 1
  BY CapacityAssumption DEF NumSlots
<1>3. p0 \in Threads /\ c0 \in Threads /\ p0 # c0
  BY ThreadAssumption DEF Threads
<1>4. /\ Gap(head, tail) \in 1 .. NumSlots - 1 /\ Gap(tail, head) \in 1 .. NumSlots - 1
      /\ Gap(head, tail) + Gap(tail, head) = NumSlots
  <2>1. Gap(head, tail) \in 0 .. NumSlots - 1 /\ Gap(head, tail) # 0 /\ Gap(tail, head) = NumSlots - Gap(head, tail)
    BY <1>1, GapFacts
  <2> QED BY <1>2, <2>1
<1>5. Gap(tail, push[p0].write) \in Nat /\ Ahead(tail, Gap(tail, push[p0].write)) = push[p0].write
  BY <1>1, <1>2, GapFacts
<1>6. Ahead(head, 0) = head /\ NextSlot(head) = Ahead(head, 1)
  BY <1>1, <1>2, AheadNext
<1>7. NextSlot(head) \in Slots /\ Gap(head, NextSlot(head)) = 1
  BY <1>1, <1>2, <1>6, AheadFacts
<1> QED BY <1>1, <1>2, <1>3, <1>4, <1>5, <1>6, <1>7 DEF Ring

(* Where the two threads' locals are. *)
Located(p, c) ==
  /\ p # c /\ p \in DOMAIN pc /\ c \in DOMAIN pc
  /\ p \in DOMAIN push /\ DOMAIN push[p] = {"value", "expected", "write", "seen"}
  /\ c \in DOMAIN pop /\ DOMAIN pop[c] = {"expected", "index", "newHead", "seen"}

LEMMA LocatedIs ==
  ASSUME NEW p0, NEW c0, Producers = {p0}, Consumers = {c0}, TypeOK
  PROVE  Located(p0, c0)
<1>1. p0 # c0 /\ p0 \in Threads /\ c0 \in Threads
  BY ThreadAssumption DEF Threads
<1>2. p0 \in DOMAIN pc /\ c0 \in DOMAIN pc
  BY <1>1 DEF TypeOK
<1>3. p0 \in DOMAIN push /\ push[p0] \in [value : Nat, expected : Slots, write : Slots, seen : Slots]
  BY DEF TypeOK
<1>4. c0 \in DOMAIN pop /\ pop[c0] \in [expected : Slots, index : Slots, newHead : Slots, seen : Slots]
  BY DEF TypeOK
<1> QED BY <1>1, <1>2, <1>3, <1>4 DEF Located

(* The steps of a push that claim no slot and publish none. *)
LEMMA PushRingFrame ==
  ASSUME NEW p0, NEW c0, NEW r \in Nat, Ring(p0, c0, r),
         UNCHANGED <<status, head, tail, pop>>, pc'[c0] = pc[c0], PushRing(p0, r)', pushes' <= MaxPushes
  PROVE  Ring(p0, c0, r)'
BY DEF Ring, PopRing

(* The steps of a pop that take no slot and move no index. *)
LEMMA PopRingFrame ==
  ASSUME NEW p0, NEW c0, NEW r \in Nat, Ring(p0, c0, r),
         UNCHANGED <<status, head, tail, push, data, pushes>>, pc'[p0] = pc[p0],
         pc'[c0] = "advance" <=> pc[c0] = "advance", PopRing(c0)'
  PROVE  Ring(p0, c0, r)'
BY DEF Ring, PushRing

LEMMA PushBeginRing ==
  ASSUME NEW p0, NEW c0, Producers = {p0}, Consumers = {c0}, SingleUserInv, SingleUserInv',
         NEW r \in Nat, Ring(p0, c0, r), PushBegin(p0)
  PROVE  Ring(p0, c0, r)' /\ UNCHANGED <<Accepted, Retained, Delivered>>
<1>0. Located(p0, c0)
  BY LocatedIs DEF SingleUserInv
<1>1. /\ pc[p0] = "idle" /\ pc'[p0] = "claim" /\ pc'[c0] = pc[c0]
      /\ pushes' = pushes + 1 /\ pushes < MaxPushes
      /\ push'[p0].write = tail /\ push'[p0].value = pushes'
      /\ UNCHANGED <<data, status, head, tail, pop, delivered>>
  BY <1>0 DEF PushBegin, Located
<1>2. pushes \in Nat /\ MaxPushes \in Nat
  BY BoundAssumption DEF SingleUserInv, TypeOK
<1>3. Gap(tail, tail) = 0
  BY RingFacts DEF Gap, Slots
<1>4. PushRing(p0, r)'
  BY <1>1, <1>2, <1>3 DEF PushRing
<1>5. Ring(p0, c0, r)'
  BY <1>1, <1>2, <1>4, PushRingFrame
<1>6. ~Pushing(p0) /\ ~Pushing(p0)'
  BY <1>1 DEF Pushing
<1> QED BY <1>1, <1>5, <1>6, Unseen

LEMMA PushClaimedRing ==
  ASSUME NEW p0, NEW c0, Producers = {p0}, Consumers = {c0}, SingleUserInv, SingleUserInv',
         NEW r \in Nat, Ring(p0, c0, r), PushClaimed(p0)
  PROVE  Ring(p0, c0, r + 1)' /\ UNCHANGED <<Accepted, Retained, Delivered>>
<1> DEFINE w == push[p0].write
           g == Gap(tail, w)
           G == Gap(head, tail)
           H == Gap(tail, head)
<1>0. Located(p0, c0)
  BY LocatedIs DEF SingleUserInv
<1>1. /\ pc[p0] = "claim" /\ pc'[p0] = "write" /\ pc'[c0] = pc[c0]
      /\ ~status[w] /\ status' = [status EXCEPT ![w] = TRUE]
      /\ UNCHANGED <<data, head, tail, push, pop, pushes, delivered>>
  BY <1>0 DEF PushClaimed, Located
<1>2. /\ g \in Nat /\ g <= r /\ g < H /\ H \in 1 .. NumSlots - 1 /\ G \in 1 .. NumSlots - 1 /\ NumSlots \in Nat
      /\ Ahead(tail, g) = w /\ w \in Slots /\ tail \in Slots /\ head \in Slots
      /\ r \in 0 .. H
  BY <1>1, RingFacts DEF Ring, PushRing, SingleUserInv, PushInv
<1>3. /\ \A k \in 0 .. H - 1 : status[Ahead(tail, k)] <=> k < r
      /\ \A k \in 1 .. G - 1 : status[Ahead(head, k)] <=> ~(k = 1 /\ pc[c0] = "advance")
      /\ status \in [Slots -> BOOLEAN]
  BY DEF Ring, SingleUserInv, TypeOK
<1>4. pushes <= MaxPushes /\ (pc[p0] \notin {"idle", "absent"} => push[p0].value \in 1 .. MaxPushes) /\ PopRing(c0)
  BY DEF Ring, PushRing
<1>u. UNCHANGED <<G, H>>
  BY <1>1
<1> HIDE DEF w, g, G, H
<1>5. g = r
  BY <1>1, <1>2, <1>3
<1>6. ASSUME NEW k \in 0 .. H - 1 PROVE status'[Ahead(tail, k)] <=> k < r + 1
  <2>1. k \in 0 .. NumSlots - 1
    BY <1>2
  <2>2. Ahead(tail, k) \in Slots /\ (Ahead(tail, k) = w => k = g)
    <3>1. Gap(tail, Ahead(tail, k)) = k /\ Ahead(tail, k) \in Slots
      BY <1>2, <2>1, AheadFacts
    <3> QED BY <3>1 DEF g
  <2>3. CASE k = r
    BY <1>1, <1>2, <1>3, <1>5, <2>3
  <2>4. CASE k # r
    <3>1. status'[Ahead(tail, k)] = status[Ahead(tail, k)]
      BY <1>1, <1>3, <1>5, <2>2, <2>4
    <3> QED BY <1>2, <1>3, <2>4, <3>1
  <2> QED BY <2>3, <2>4
<1>7. ASSUME NEW k \in 1 .. G - 1 PROVE status'[Ahead(head, k)] <=> ~(k = 1 /\ pc[c0] = "advance")
  <2>1. k \in 0 .. NumSlots - 1 /\ k \in 0 .. G - 1 /\ g \in 0 .. H - 1
    BY <1>2
  <2>2. Ahead(head, k) \in Slots /\ Ahead(head, k) # w
    <3>1. Ahead(head, k) # Ahead(tail, g)
      BY <1>2, <2>1, Arcs DEF G, H
    <3> QED BY <1>2, <2>1, <3>1, AheadFacts
  <2>3. status'[Ahead(head, k)] = status[Ahead(head, k)]
    BY <1>1, <1>3, <2>2
  <2> QED BY <1>3, <2>3
<1>8. PushRing(p0, r + 1)'
  <2>1. Gap(tail, push[p0].write)' = g
    BY <1>1 DEF g, w
  <2> QED BY <1>1, <1>2, <1>4, <1>5, <2>1 DEF PushRing
<1>9. PopRing(c0)'
  BY <1>1, <1>4 DEF PopRing
<1>10. Ring(p0, c0, r + 1)'
  <2>1. r + 1 \in 0 .. H
    BY <1>2, <1>5
  <2>2. Gap(tail', head') = H /\ Gap(head', tail') = G
    BY <1>1 DEF G, H
  <2> QED BY <1>1, <1>4, <1>6, <1>7, <1>8, <1>9, <2>1, <2>2 DEF Ring
<1>11. ~Pushing(p0) /\ Pushing(p0)'
  BY <1>1 DEF Pushing
<1>12. r + 1 \in Nat
  OBVIOUS
<1>13. UNCHANGED <<Accepted, Retained, Delivered>>
  BY <1>1, <1>10, <1>11, <1>12, Unseen
<1> QED BY <1>10, <1>13

LEMMA PushSkipsRing ==
  ASSUME NEW p0, NEW c0, Producers = {p0}, Consumers = {c0}, SingleUserInv, SingleUserInv',
         NEW r \in Nat, Ring(p0, c0, r), PushSkips(p0)
  PROVE  Ring(p0, c0, r)' /\ UNCHANGED <<Accepted, Retained, Delivered>>
<1> DEFINE w == push[p0].write
           g == Gap(tail, w)
           H == Gap(tail, head)
<1>0. Located(p0, c0)
  BY LocatedIs DEF SingleUserInv
<1>1. /\ pc[p0] = "claim" /\ pc'[p0] = "skipped" /\ pc'[c0] = pc[c0]
      /\ status[w] /\ push'[p0].write = NextSlot(w) /\ push'[p0].value = push[p0].value
      /\ UNCHANGED <<data, status, head, tail, pop, pushes, delivered>>
  BY <1>0 DEF PushSkips, Located
<1>2. /\ g \in Nat /\ g <= r /\ g < H /\ H \in 1 .. NumSlots - 1 /\ NumSlots \in Nat
      /\ Ahead(tail, g) = w /\ w \in Slots /\ tail \in Slots
      /\ r \in 0 .. H
      /\ push[p0].value \in 1 .. MaxPushes /\ pushes <= MaxPushes
  BY <1>1, RingFacts DEF Ring, PushRing, SingleUserInv, PushInv
<1>3. g < r
  <2>1. \A k \in 0 .. H - 1 : status[Ahead(tail, k)] <=> k < r
    BY DEF Ring
  <2> QED BY <1>1, <1>2, <2>1
<1>4. Gap(tail, NextSlot(w)) = g + 1
  <2>1. g < NumSlots - 1
    BY <1>2
  <2> QED BY <1>2, <2>1, GapNext
<1> HIDE DEF w, g, H
<1>5. PushRing(p0, r)'
  <2>1. Gap(tail', push'[p0].write) = g + 1
    BY <1>1, <1>4
  <2> QED BY <1>1, <1>2, <1>3, <2>1 DEF PushRing
<1>6. Ring(p0, c0, r)'
  BY <1>1, <1>2, <1>5, PushRingFrame
<1>7. ~Pushing(p0) /\ ~Pushing(p0)'
  BY <1>1 DEF Pushing
<1> QED BY <1>1, <1>6, <1>7, Unseen

LEMMA PushWriteRing ==
  ASSUME NEW p0, NEW c0, Producers = {p0}, Consumers = {c0}, SingleUserInv, SingleUserInv',
         NEW r \in Nat, Ring(p0, c0, r), PushWrite(p0)
  PROVE  Ring(p0, c0, r)' /\ UNCHANGED <<Accepted, Retained, Delivered>>
<1> DEFINE w == push[p0].write
           g == Gap(tail, w)
           H == Gap(tail, head)
<1>0. Located(p0, c0)
  BY LocatedIs DEF SingleUserInv
<1>1. /\ pc[p0] = "write" /\ pc'[p0] = "written" /\ pc'[c0] = pc[c0]
      /\ data' = [data EXCEPT ![w] = push[p0].value]
      /\ push'[p0].write = NextSlot(w) /\ push'[p0].value = push[p0].value
      /\ UNCHANGED <<status, head, tail, pop, pushes, delivered>>
  BY <1>0 DEF PushWrite, Located
<1>2. /\ g \in Nat /\ g = r - 1 /\ g < H /\ H \in 1 .. NumSlots - 1 /\ NumSlots \in Nat
      /\ Ahead(tail, g) = w /\ w \in Slots /\ tail \in Slots
      /\ r \in 0 .. H
      /\ push[p0].value \in 1 .. MaxPushes /\ pushes <= MaxPushes
  BY <1>1, RingFacts DEF Ring, PushRing, SingleUserInv, PushInv
<1>3. Gap(tail, NextSlot(w)) = g + 1
  <2>1. g < NumSlots - 1
    BY <1>2
  <2> QED BY <1>2, <2>1, GapNext
<1>4. data \in [Slots -> Nat]
  BY DEF SingleUserInv, TypeOK
<1> HIDE DEF w, g, H
<1>5. PushRing(p0, r)'
  <2>1. Gap(tail', push'[p0].write) = r
    BY <1>1, <1>2, <1>3
  <2>2. data'[Ahead(tail', r - 1)] = push'[p0].value
    BY <1>1, <1>2, <1>4
  <2> QED BY <1>1, <1>2, <2>1, <2>2 DEF PushRing
<1>6. Ring(p0, c0, r)'
  BY <1>1, <1>2, <1>5, PushRingFrame
<1>7. Pushing(p0) /\ Pushing(p0)'
  BY <1>1 DEF Pushing
<1>8. \A i \in Slots : i # Ahead(tail, r - 1) => data'[i] = data[i]
  BY <1>1, <1>2, <1>4
<1> QED BY <1>1, <1>6, <1>7, <1>8, Unseen

LEMMA PushHasRoomRing ==
  ASSUME NEW p0, NEW c0, Producers = {p0}, Consumers = {c0}, SingleUserInv, SingleUserInv',
         NEW r \in Nat, Ring(p0, c0, r), PushHasRoom(p0)
  PROVE  Ring(p0, c0, r)' /\ UNCHANGED <<Accepted, Retained, Delivered>>
<1>0. Located(p0, c0)
  BY LocatedIs DEF SingleUserInv
<1>1. /\ \/ pc[p0] = "skipped" /\ pc'[p0] = "claim"
         \/ pc[p0] = "written" /\ pc'[p0] = "publish"
      /\ pc'[c0] = pc[c0]
      /\ UNCHANGED <<data, status, head, tail, push, pop, pushes, delivered>>
  BY <1>0 DEF PushHasRoom, Located
<1>2. PushRing(p0, r) /\ pushes <= MaxPushes
  BY DEF Ring
<1>3. PushRing(p0, r)'
  BY <1>1, <1>2 DEF PushRing
<1>4. Ring(p0, c0, r)'
  BY <1>1, <1>2, <1>3, PushRingFrame
<1>5. Pushing(p0) <=> Pushing(p0)'
  BY <1>1 DEF Pushing
<1> QED BY <1>1, <1>4, <1>5, Unseen

LEMMA PopBeginRing ==
  ASSUME NEW p0, NEW c0, Producers = {p0}, Consumers = {c0}, SingleUserInv, SingleUserInv',
         NEW r \in Nat, Ring(p0, c0, r), PopBegin(c0)
  PROVE  Ring(p0, c0, r)' /\ UNCHANGED <<Accepted, Retained, Delivered>>
<1>0. Located(p0, c0)
  BY LocatedIs DEF SingleUserInv
<1>1. /\ pc[c0] = "idle" /\ pc'[c0] = "empty" /\ pc'[p0] = pc[p0]
      /\ pop'[c0].newHead = NextSlot(head)
      /\ UNCHANGED <<data, status, head, tail, push, pushes, delivered>>
  BY <1>0 DEF PopBegin, Located
<1>2. PopRing(c0)'
  BY <1>1 DEF PopRing
<1>3. Ring(p0, c0, r)'
  BY <1>1, <1>2, PopRingFrame
<1>4. Pushing(p0) <=> Pushing(p0)'
  BY <1>1 DEF Pushing
<1> QED BY <1>1, <1>3, <1>4, Unseen

LEMMA PopEmptyRing ==
  ASSUME NEW p0, NEW c0, Producers = {p0}, Consumers = {c0}, SingleUserInv, SingleUserInv',
         NEW r \in Nat, Ring(p0, c0, r), PopEmpty(c0)
  PROVE  Ring(p0, c0, r)' /\ UNCHANGED <<Accepted, Retained, Delivered>>
<1>0. Located(p0, c0)
  BY LocatedIs DEF SingleUserInv
<1>1. /\ pc[c0] = "empty" /\ pc'[c0] \in {"idle", "take"} /\ pc'[p0] = pc[p0]
      /\ UNCHANGED <<data, status, head, tail, push, pop, pushes, delivered>>
  BY <1>0 DEF PopEmpty, Located
<1>2. PopRing(c0)'
  BY <1>1 DEF Ring, PopRing
<1>3. Ring(p0, c0, r)'
  BY <1>1, <1>2, PopRingFrame
<1>4. Pushing(p0) <=> Pushing(p0)'
  BY <1>1 DEF Pushing
<1> QED BY <1>1, <1>3, <1>4, Unseen

(* The slot after head is full but for the one being taken: a scan skips at   *)
(* most the slot at head.                                                     *)
LEMMA PopSkipsRing ==
  ASSUME NEW p0, NEW c0, Producers = {p0}, Consumers = {c0}, SingleUserInv, SingleUserInv',
         NEW r \in Nat, Ring(p0, c0, r), PopSkips(c0)
  PROVE  Ring(p0, c0, r)' /\ UNCHANGED <<Accepted, Retained, Delivered>>
<1> DEFINE i == pop[c0].index
           n == pop[c0].newHead
           G == Gap(head, tail)
<1>0. Located(p0, c0)
  BY LocatedIs DEF SingleUserInv
<1>1. /\ pc[c0] = "take" /\ pc'[c0] = "empty" /\ pc'[p0] = pc[p0]
      /\ ~status[i] /\ pop'[c0].newHead = NextSlot(i)
      /\ UNCHANGED <<data, status, head, tail, push, pushes, delivered>>
  BY <1>0 DEF PopSkips, Located
<1>2. \A k \in 1 .. G - 1 : status[Ahead(head, k)] <=> ~(k = 1 /\ pc[c0] = "advance")
  BY DEF Ring
<1>3. i = head
  <2>1. n = NextSlot(head) /\ Gap(head, n) < G /\ (i = n \/ i = head)
    BY <1>1 DEF SingleUserInv, PopInv, Ring, PopRing
  <2>2. 1 \in 1 .. G - 1 /\ NextSlot(head) = Ahead(head, 1)
    <3>1. Gap(head, NextSlot(head)) = 1 /\ NextSlot(head) = Ahead(head, 1) /\ G \in 1 .. NumSlots - 1 /\ NumSlots \in Nat
      BY RingFacts
    <3> QED BY <2>1, <3>1
  <2>3. status[NextSlot(head)]
    BY <1>1, <1>2, <2>2
  <2> QED BY <1>1, <2>1, <2>3
<1>4. PopRing(c0)'
  BY <1>1, <1>3 DEF PopRing
<1>5. Ring(p0, c0, r)'
  BY <1>1, <1>4, PopRingFrame
<1>6. Pushing(p0) <=> Pushing(p0)'
  BY <1>1 DEF Pushing
<1> QED BY <1>1, <1>5, <1>6, Unseen

(* The value was taken when its slot was: returning it changes nothing.       *)
LEMMA PopReadRing ==
  ASSUME NEW p0, NEW c0, Producers = {p0}, Consumers = {c0}, SingleUserInv, SingleUserInv',
         NEW r \in Nat, Ring(p0, c0, r), PopRead(c0)
  PROVE  Ring(p0, c0, r)' /\ UNCHANGED <<Accepted, Retained, Delivered>>
<1>0. Located(p0, c0)
  BY LocatedIs DEF SingleUserInv
<1>1. /\ pc[c0] = "read" /\ pc'[c0] = "idle" /\ pc'[p0] = pc[p0]
      /\ delivered' = Append(delivered, data[pop[c0].index])
      /\ UNCHANGED <<data, status, head, tail, push, pop, pushes>>
  BY <1>0 DEF PopRead, Located
<1>2. PopRing(c0)'
  BY <1>1 DEF PopRing
<1>3. Ring(p0, c0, r)'
  BY <1>1, <1>2, PopRingFrame
<1>4. Mapped(p0, c0, r) /\ Mapped(p0, c0, r)'
  BY <1>3, MappedIs, MappedNext
<1>5. Accepted' = Accepted /\ Retained' = Retained
  BY <1>1, <1>4 DEF Mapped, Pushing
<1>6. Delivered' = Delivered
  <2>1. Taken = <<data[pop[c0].index]>> /\ Taken' = <<>>
    BY <1>1, <1>4 DEF Mapped
  <2>2. delivered \in Seq(Nat) /\ data[pop[c0].index] \in Nat
    BY RingFacts DEF SingleUserInv, TypeOK
  <2>3. delivered' \in Seq(Nat)
    BY DEF SingleUserInv, TypeOK
  <2>4. delivered' \o <<>> = delivered'
    BY <2>3
  <2>5. delivered \o <<data[pop[c0].index]>> = Append(delivered, data[pop[c0].index])
    BY <2>2
  <2> QED BY <1>1, <2>1, <2>4, <2>5 DEF Delivered
<1> QED BY <1>3, <1>5, <1>6

(* A push that finds the queue full after writing leaves its value behind.    *)
LEMMA PushFullRing ==
  ASSUME NEW p0, NEW c0, Producers = {p0}, Consumers = {c0}, SingleUserInv, SingleUserInv',
         NEW r \in Nat, Ring(p0, c0, r), PushFull(p0)
  PROVE  /\ Ring(p0, c0, r)'
         /\ Fifo!Next \/ UNCHANGED <<Accepted, Retained, Delivered>>
<1> DEFINE v == push[p0].value
           G == Gap(head, tail)
           H == Gap(tail, head)
           a == IF pc[c0] = "advance" THEN 1 ELSE 0
<1>0. Located(p0, c0)
  BY LocatedIs DEF SingleUserInv
<1>1. /\ pc[p0] \in {"skipped", "written"} /\ pc'[p0] = "idle" /\ pc'[c0] = pc[c0]
      /\ push[p0].write = head
      /\ UNCHANGED <<data, status, head, tail, push, pop, pushes, delivered>>
  BY <1>0 DEF PushFull, Located
<1>2. PushRing(p0, r)'
  BY <1>1 DEF PushRing
<1>3. Ring(p0, c0, r)'
  <2>1. pushes <= MaxPushes
    BY DEF Ring
  <2> QED BY <1>1, <1>2, <2>1, PushRingFrame
<1>4. CASE pc[p0] = "skipped"
  <2>1. ~Pushing(p0) /\ ~Pushing(p0)'
    BY <1>1, <1>4 DEF Pushing
  <2>2. UNCHANGED <<Accepted, Retained, Delivered>>
    BY <1>1, <1>3, <2>1, Unseen
  <2> QED BY <1>3, <2>2
<1>5. CASE pc[p0] = "written"
  <2>1. Pushing(p0) /\ ~Pushing(p0)'
    BY <1>1, <1>5 DEF Pushing
  <2>2. /\ r = H /\ H \in 1 .. NumSlots - 1 /\ G \in 1 .. NumSlots - 1 /\ G + H = NumSlots
        /\ NumSlots = Capacity + 1 /\ Capacity \in Nat /\ head \in Slots /\ tail \in Slots
        /\ data[Ahead(tail, r - 1)] = v /\ v \in 1 .. MaxPushes
    BY <1>1, <1>5, RingFacts DEF Ring, PushRing
  <2>3. /\ a \in 0 .. 1 /\ a <= G - 1
        /\ Accepted = [j \in 1 .. G - 1 - a |-> data[Ahead(head, a + j)]]
        /\ Retained = [j \in 1 .. r - 1 |-> data[Ahead(tail, j - 1)]]
    BY <2>1, MappedIs DEF Mapped
  <2>4. /\ Accepted' = [j \in 1 .. G - 1 - a |-> data[Ahead(head, a + j)]]
        /\ Retained' = [j \in 1 .. r |-> data[Ahead(tail, j - 1)]]
    <3>1. Mapped(p0, c0, r)'
      BY <1>3, MappedNext
    <3>2. Accepted' = [j \in 1 .. G - 1 - a |-> data[Ahead(head, a + j)]]
      BY <1>1, <3>1 DEF Mapped
    <3>3. Retained' = [j \in 1 .. r - 0 |-> data[Ahead(tail, j - 1)]]
      BY <1>1, <2>1, <3>1 DEF Mapped
    <3> QED BY <3>2, <3>3
  <2>5. Delivered' = Delivered
    <3>1. Mapped(p0, c0, r) /\ Mapped(p0, c0, r)'
      BY <1>3, MappedIs, MappedNext
    <3>2. Taken' = Taken
      BY <1>1, <3>1 DEF Mapped
    <3>3. delivered' = delivered
      BY <1>1
    <3> QED BY <3>2, <3>3 DEF Delivered
  <2> HIDE DEF v, G, H, a
  <2>6. Len(Accepted) = G - 1 - a /\ Len(Retained) = r - 1
    BY <2>2, <2>3
  <2>7. Len(Accepted) + Len(Retained) + 1 >= Capacity - 1
    BY <2>2, <2>3, <2>6
  <2>8. Retained' = Append(Retained, v)
    <3>1. r - 1 \in Nat /\ r \in Nat
      BY <2>2
    <3>2. \A k \in 1 .. r : (k # r => k \in 1 .. r - 1) /\ r - 1 + 1 = r
      BY <3>1
    <3>3. Append(Retained, v) = [k \in 1 .. r |-> IF k = r THEN v ELSE Retained[k]]
      BY <2>3, <2>6, <3>1, <3>2
    <3>4. \A k \in 1 .. r : data[Ahead(tail, k - 1)] = IF k = r THEN v ELSE Retained[k]
      BY <2>2, <2>3, <3>2
    <3> QED BY <2>4, <3>3, <3>4
  <2>9. Fifo!Refuse(v)
    BY <2>3, <2>4, <2>5, <2>7, <2>8 DEF Fifo!Refuse
  <2> QED BY <1>3, <2>2, <2>9 DEF Fifo!Next
<1> QED BY <1>1, <1>4, <1>5

(* A pop takes the first value accepted. *)
LEMMA PopTakesRing ==
  ASSUME NEW p0, NEW c0, Producers = {p0}, Consumers = {c0}, SingleUserInv, SingleUserInv',
         NEW r \in Nat, Ring(p0, c0, r), PopTakes(c0)
  PROVE  Ring(p0, c0, r)' /\ Fifo!Next
<1> DEFINE i == pop[c0].index
           n == pop[c0].newHead
           G == Gap(head, tail)
           H == Gap(tail, head)
           q == IF Pushing(p0) THEN 1 ELSE 0
<1>0. Located(p0, c0)
  BY LocatedIs DEF SingleUserInv
<1>1. /\ pc[c0] = "take" /\ pc'[c0] = "advance" /\ pc'[p0] = pc[p0]
      /\ status[i] /\ status' = [status EXCEPT ![i] = FALSE]
      /\ UNCHANGED <<data, head, tail, push, pop, pushes, delivered>>
  BY <1>0 DEF PopTakes, Located
<1>2. /\ H \in 1 .. NumSlots - 1 /\ G \in 1 .. NumSlots - 1 /\ NumSlots \in Nat
      /\ head \in Slots /\ tail \in Slots /\ ~status[head] /\ r \in 0 .. H
      /\ Gap(head, NextSlot(head)) = 1 /\ NextSlot(head) = Ahead(head, 1)
  BY RingFacts
<1>3. /\ i = Ahead(head, 1) /\ 1 < G
  <2>1. n = NextSlot(head) /\ Gap(head, n) < G /\ (i = n \/ i = head)
    BY <1>1 DEF SingleUserInv, PopInv, Ring, PopRing
  <2> QED BY <1>1, <1>2, <2>1
<1>4. /\ \A k \in 0 .. H - 1 : status[Ahead(tail, k)] <=> k < r
      /\ \A k \in 1 .. G - 1 : status[Ahead(head, k)] <=> ~(k = 1 /\ pc[c0] = "advance")
      /\ status \in [Slots -> BOOLEAN]
  BY DEF Ring, SingleUserInv, TypeOK
<1>5. Mapped(p0, c0, r)
  BY MappedIs
<1>6. /\ Accepted = [j \in 1 .. G - 1 |-> data[Ahead(head, j)]]
      /\ Retained = [j \in 1 .. r - q |-> data[Ahead(tail, j - 1)]]
      /\ Taken = <<>>
  <2>1. /\ Accepted = [j \in 1 .. G - 1 - 0 |-> data[Ahead(head, 0 + j)]]
        /\ Retained = [j \in 1 .. r - q |-> data[Ahead(tail, j - 1)]]
        /\ Taken = <<>>
    BY <1>1, <1>5 DEF Mapped
  <2>2. G - 1 - 0 = G - 1 /\ \A j \in 1 .. G - 1 : 0 + j = j
    BY <1>2
  <2> QED BY <2>1, <2>2
<1>7. PushRing(p0, r) /\ pushes <= MaxPushes /\ PopRing(c0)
  BY DEF Ring
<1>8. PushRing(p0, r)' /\ PopRing(c0)'
  BY <1>1, <1>7 DEF PushRing, PopRing
<1>9. (Pushing(p0) <=> Pushing(p0)') /\ q' = q
  BY <1>1 DEF Pushing
<1>10. Gap(head', tail') = G /\ Gap(tail', head') = H
  BY <1>1
<1> HIDE DEF i, n, G, H, q
<1>11. ASSUME NEW k \in 0 .. H - 1 PROVE status'[Ahead(tail, k)] <=> k < r
  <2>1. k \in 0 .. NumSlots - 1 /\ 1 \in 0 .. G - 1
    BY <1>2, <1>3
  <2>2. Ahead(tail, k) \in Slots /\ Ahead(tail, k) # i
    <3>1. Ahead(head, 1) # Ahead(tail, k)
      BY <1>2, <2>1, Arcs DEF G, H
    <3> QED BY <1>2, <1>3, <2>1, <3>1, AheadFacts
  <2> QED BY <1>1, <1>4, <2>2
<1>12. ASSUME NEW k \in 1 .. G - 1 PROVE status'[Ahead(head, k)] <=> k # 1
  <2>1. k \in 0 .. NumSlots - 1 /\ 1 \in 0 .. NumSlots - 1
    BY <1>2, <1>3
  <2>2. Ahead(head, k) \in Slots /\ Gap(head, Ahead(head, k)) = k /\ Gap(head, Ahead(head, 1)) = 1
    BY <1>2, <2>1, AheadFacts
  <2>3. CASE k = 1
    BY <1>1, <1>3, <1>4, <2>2, <2>3
  <2>4. CASE k # 1
    <3>1. Ahead(head, k) # i
      BY <1>3, <2>2, <2>4
    <3> QED BY <1>1, <1>4, <2>2, <2>4, <3>1
  <2> QED BY <2>3, <2>4
<1>13. Ring(p0, c0, r)'
  BY <1>1, <1>2, <1>7, <1>8, <1>10, <1>11, <1>12 DEF Ring
<1>14. Mapped(p0, c0, r)'
  BY <1>13, MappedNext
<1>15. /\ Accepted' = [j \in 1 .. G - 2 |-> data[Ahead(head, 1 + j)]]
       /\ Retained' = Retained
       /\ Taken' = <<data[i]>>
  <2>1. /\ Accepted' = [j \in 1 .. Gap(head', tail') - 1 - 1 |-> data'[Ahead(head', 1 + j)]]
        /\ Retained' = [j \in 1 .. r - q' |-> data'[Ahead(tail', j - 1)]]
        /\ Taken' = <<data'[pop'[c0].index]>>
    BY <1>1, <1>14 DEF Mapped, q
  <2>2. G - 1 - 1 = G - 2
    BY <1>2
  <2>3. Accepted' = [j \in 1 .. G - 2 |-> data[Ahead(head, 1 + j)]]
    BY <1>1, <1>10, <2>1, <2>2
  <2>4. Retained' = Retained
    BY <1>1, <1>6, <1>9, <2>1
  <2>5. Taken' = <<data[i]>>
    BY <1>1, <2>1 DEF i
  <2> QED BY <2>3, <2>4, <2>5
<1>16. Accepted # <<>> /\ Head(Accepted) = data[i] /\ Len(Accepted) = G - 1
  <2>1. Len(Accepted) = G - 1 /\ Accepted[1] = data[Ahead(head, 1)]
    BY <1>2, <1>3, <1>6
  <2>2. Accepted # <<>>
    BY <1>2, <1>3, <2>1
  <2>3. Head(Accepted) = Accepted[1]
    BY <2>2
  <2> QED BY <1>3, <2>1, <2>2, <2>3
<1>17. Accepted' = Tail(Accepted)
  <2>1. Tail(Accepted) = [j \in 1 .. G - 1 - 1 |-> Accepted[j + 1]]
    <3>1. \A j \in 1 .. G - 1 : Ahead(head, j) \in Slots
      <4> SUFFICES ASSUME NEW j \in 1 .. G - 1 PROVE Ahead(head, j) \in Slots
        OBVIOUS
      <4>1. j \in 0 .. NumSlots - 1
        BY <1>2
      <4> QED BY <1>2, <4>1, AheadFacts
    <3>2. data \in [Slots -> Nat]
      BY DEF SingleUserInv, TypeOK
    <3>3. Accepted \in [1 .. G - 1 -> Nat] /\ G - 1 \in Nat
      BY <1>2, <1>6, <3>1, <3>2
    <3>4. Accepted \in Seq(Nat)
      BY <3>3
    <3>5. Accepted # <<>> /\ Len(Accepted) = G - 1
      BY <1>16
    <3> HIDE <1>6
    <3>6. Tail(Accepted) \in Seq(Nat)
      BY <3>4, <3>5
    <3>7. Len(Tail(Accepted)) = G - 1 - 1
      BY <3>4, <3>5, <3>3
    <3>8. \A j \in 1 .. G - 1 - 1 : Tail(Accepted)[j] = Accepted[j + 1]
      BY <3>4, <3>5, <3>3
    <3>9. DOMAIN Tail(Accepted) = 1 .. G - 1 - 1
      BY <3>6, <3>7
    <3>10. Tail(Accepted) = [j \in 1 .. G - 1 - 1 |-> Tail(Accepted)[j]]
      <4> DEFINE T == Tail(Accepted)
      <4>1. T = [j \in DOMAIN T |-> T[j]]
        <5> HIDE DEF T
        <5>1. T \in Seq(Nat)
          BY <3>6 DEF T
        <5> QED BY <5>1
      <4> QED BY <3>9, <4>1
    <3> QED BY <3>8, <3>10
  <2>2. G - 1 - 1 = G - 2 /\ \A j \in 1 .. G - 2 : Accepted[j + 1] = data[Ahead(head, 1 + j)]
    <3>1. \A j \in 1 .. G - 2 : j + 1 \in 1 .. G - 1 /\ j + 1 = 1 + j
      BY <1>2
    <3> QED BY <1>2, <1>6, <3>1
  <2> QED BY <1>15, <2>1, <2>2
<1>18. Delivered' = Append(Delivered, Head(Accepted))
  <2>1. delivered \in Seq(Nat) /\ data[i] \in Nat
    BY RingFacts DEF SingleUserInv, TypeOK, i
  <2>2. Delivered = delivered
    BY <1>6, <2>1 DEF Delivered
  <2>3. Delivered' = delivered \o <<data[i]>>
    BY <1>1, <1>15 DEF Delivered
  <2> QED BY <1>16, <2>1, <2>2, <2>3
<1>19. Fifo!Deliver
  BY <1>15, <1>16, <1>17, <1>18 DEF Fifo!Deliver
<1> QED BY <1>13, <1>19 DEF Fifo!Next

(* Head moves to the slot taken. *)
LEMMA PopAdvanceRing ==
  ASSUME NEW p0, NEW c0, Producers = {p0}, Consumers = {c0}, SingleUserInv, SingleUserInv',
         NEW r \in Nat, Ring(p0, c0, r), PopAdvance(c0)
  PROVE  Ring(p0, c0, r)' /\ UNCHANGED <<Accepted, Retained, Delivered>>
<1> DEFINE i == pop[c0].index
           n == NextSlot(head)
           G == Gap(head, tail)
           H == Gap(tail, head)
           q == IF Pushing(p0) THEN 1 ELSE 0
<1>0. Located(p0, c0)
  BY LocatedIs DEF SingleUserInv
<1>1. /\ pc[c0] = "advance" /\ pc'[c0] = "read" /\ pc'[p0] = pc[p0]
      /\ pop[c0].newHead = n /\ i = n /\ head' = n /\ Gap(head, n) < G
      /\ UNCHANGED <<data, status, tail, push, pop, pushes, delivered>>
  <2>1. /\ pc[c0] = "advance" /\ pc'[c0] \in {"read", "lost"} /\ pc'[p0] = pc[p0]
        /\ head = pop[c0].expected => pc'[c0] = "read" /\ head' = pop[c0].newHead /\ UNCHANGED pop
        /\ UNCHANGED <<data, status, tail, push, pushes, delivered>>
    BY <1>0 DEF PopAdvance, Located
  <2>2. pop[c0].newHead = n /\ i = pop[c0].newHead /\ head = pop[c0].expected /\ Gap(head, pop[c0].newHead) < G
    BY <2>1 DEF SingleUserInv, PopInv, Ring, PopRing
  <2> QED BY <2>1, <2>2
<1>2. /\ H \in 1 .. NumSlots - 1 /\ G \in 1 .. NumSlots - 1 /\ NumSlots \in Nat /\ G + H = NumSlots
      /\ head \in Slots /\ tail \in Slots /\ ~status[head] /\ r \in 0 .. H
      /\ n \in Slots /\ Gap(head, n) = 1
  BY RingFacts
<1>3. 1 < G
  BY <1>1, <1>2
<1>4. /\ \A k \in 0 .. H - 1 : status[Ahead(tail, k)] <=> k < r
      /\ \A k \in 1 .. G - 1 : status[Ahead(head, k)] <=> ~(k = 1 /\ pc[c0] = "advance")
      /\ PushRing(p0, r) /\ pushes <= MaxPushes
  BY DEF Ring
<1>5. Gap(n, tail) = G - 1 /\ Gap(tail, n) = H + 1
  BY <1>2, <1>3, CapacityAssumption DEF Gap, NextSlot, Slots, NumSlots
<1>6. Mapped(p0, c0, r)
  BY MappedIs
<1>7. /\ Accepted = [j \in 1 .. G - 1 - 1 |-> data[Ahead(head, 1 + j)]]
      /\ Retained = [j \in 1 .. r - q |-> data[Ahead(tail, j - 1)]]
      /\ Taken = <<data[i]>>
  BY <1>1, <1>6 DEF Mapped
<1>8. (Pushing(p0) <=> Pushing(p0)') /\ q' = q
  BY <1>1 DEF Pushing
<1>9. PushRing(p0, r)'
  BY <1>1, <1>4 DEF PushRing
<1>10. PopRing(c0)'
  BY <1>1 DEF PopRing
<1>u. Gap(head', tail') = G - 1 /\ Gap(tail', head') = H + 1
  BY <1>1, <1>5
<1>a. Ahead(tail, H) = head
  BY <1>2, GapFacts
<1> HIDE DEF i, n, G, H, q
<1>11. ASSUME NEW k \in 0 .. H PROVE status[Ahead(tail, k)] <=> k < r
  <2>1. CASE k = H
    BY <1>2, <1>a, <2>1
  <2>2. CASE k # H
    <3>1. k \in 0 .. H - 1
      BY <1>2, <2>2
    <3> QED BY <1>4, <3>1
  <2> QED BY <2>1, <2>2
<1>12. ASSUME NEW k \in 0 .. G - 2 PROVE Ahead(n, k) = Ahead(head, k + 1)
  <2>1. k \in 0 .. NumSlots - 2
    BY <1>2
  <2> QED BY <1>2, <2>1, AheadNext DEF n
<1>13. ASSUME NEW k \in 1 .. G - 2 PROVE status[Ahead(n, k)]
  <2>1. k \in 0 .. G - 2 /\ k + 1 \in 1 .. G - 1 /\ k + 1 # 1
    BY <1>2
  <2> QED BY <1>4, <1>12, <2>1
<1>14. Ring(p0, c0, r)'
  <2>1. r \in 0 .. H + 1 /\ H + 1 - 1 = H /\ G - 1 - 1 = G - 2
    BY <1>2
  <2>2. \A k \in 0 .. Gap(tail', head') - 1 : status'[Ahead(tail', k)] <=> k < r
    BY <1>1, <1>2, <1>u, <1>11, <2>1
  <2>3. \A k \in 1 .. Gap(head', tail') - 1 : status'[Ahead(head', k)] <=> ~(k = 1 /\ pc'[c0] = "advance")
    <3> SUFFICES ASSUME NEW k \in 1 .. Gap(head', tail') - 1 PROVE status'[Ahead(head', k)] /\ pc'[c0] # "advance"
      OBVIOUS
    <3>1. k \in 1 .. G - 2
      BY <1>u, <2>1
    <3> QED BY <1>1, <1>13, <3>1
  <2>4. r \in 0 .. Gap(tail', head') /\ pushes' <= MaxPushes
    BY <1>1, <1>4, <1>u, <2>1
  <2> QED BY <1>9, <1>10, <2>2, <2>3, <2>4 DEF Ring
<1>15. Mapped(p0, c0, r)'
  BY <1>14, MappedNext
<1>16. /\ Accepted' = [j \in 1 .. Gap(head', tail') - 1 - 0 |-> data'[Ahead(head', 0 + j)]]
       /\ Retained' = [j \in 1 .. r - q' |-> data'[Ahead(tail', j - 1)]]
       /\ Taken' = <<data'[pop'[c0].index]>>
  BY <1>1, <1>15 DEF Mapped, q
<1>17. Accepted' = Accepted
  <2>1. G - 1 - 1 - 0 = G - 1 - 1 /\ G - 1 - 1 = G - 2
    BY <1>2
  <2>2. Accepted' = [j \in 1 .. G - 2 |-> data[Ahead(n, 0 + j)]]
    BY <1>1, <1>u, <1>16, <2>1
  <2>3. \A j \in 1 .. G - 2 : data[Ahead(n, 0 + j)] = data[Ahead(head, 1 + j)]
    <3> SUFFICES ASSUME NEW j \in 1 .. G - 2 PROVE data[Ahead(n, 0 + j)] = data[Ahead(head, 1 + j)]
      OBVIOUS
    <3>1. j \in 0 .. G - 2 /\ 0 + j = j /\ 1 + j = j + 1
      BY <1>2
    <3> QED BY <1>12, <3>1
  <2> QED BY <1>7, <2>1, <2>2, <2>3
<1>18. Retained' = Retained
  BY <1>1, <1>7, <1>8, <1>16
<1>19. Delivered' = Delivered
  <2>1. Taken' = Taken /\ delivered' = delivered
    BY <1>1, <1>7, <1>16 DEF i
  <2> QED BY <2>1 DEF Delivered
<1> QED BY <1>14, <1>17, <1>18, <1>19

(* Publishing moves tail past the retained slots and the one just written.    *)
LEMMA PushPublishRing ==
  ASSUME NEW p0, NEW c0, Producers = {p0}, Consumers = {c0}, SingleUserInv, SingleUserInv',
         NEW r \in Nat, Ring(p0, c0, r), PushPublish(p0)
  PROVE  Ring(p0, c0, 0)' /\ Fifo!Next
<1> DEFINE w == push[p0].write
           v == push[p0].value
           G == Gap(head, tail)
           H == Gap(tail, head)
           a == IF pc[c0] = "advance" THEN 1 ELSE 0
<1>0. Located(p0, c0)
  BY LocatedIs DEF SingleUserInv
<1>1. /\ pc[p0] = "publish" /\ pc'[p0] = "idle" /\ pc'[c0] = pc[c0] /\ tail' = w
      /\ UNCHANGED <<data, status, head, push, pop, pushes, delivered>>
  BY <1>0 DEF PushPublish, Located, SingleUserInv, PushInv
<1>2. /\ H \in 1 .. NumSlots - 1 /\ G \in 1 .. NumSlots - 1 /\ NumSlots \in Nat /\ G + H = NumSlots
      /\ head \in Slots /\ tail \in Slots /\ w \in Slots
      /\ Gap(tail, w) = r /\ Ahead(tail, r) = w /\ r < H /\ w # tail /\ 1 <= r
      /\ data[Ahead(tail, r - 1)] = v /\ v \in 1 .. MaxPushes
  <2>1. Gap(tail, w) = r /\ r < H /\ w # tail /\ data[Ahead(tail, r - 1)] = v /\ v \in 1 .. MaxPushes
    BY <1>1 DEF Ring, PushRing, SingleUserInv, PushInv
  <2>2. /\ H \in 1 .. NumSlots - 1 /\ G \in 1 .. NumSlots - 1 /\ NumSlots \in Nat /\ G + H = NumSlots
        /\ head \in Slots /\ tail \in Slots /\ w \in Slots /\ Ahead(tail, Gap(tail, w)) = w
    BY RingFacts
  <2>3. Gap(tail, w) # 0
    BY <2>1, <2>2, GapFacts
  <2> QED BY <2>1, <2>2, <2>3
<1>3. Gap(w, head) = H - r /\ Gap(head, w) = G + r
  BY <1>2, CapacityAssumption DEF Gap, Slots, NumSlots
<1>4. /\ \A k \in 0 .. H - 1 : status[Ahead(tail, k)] <=> k < r
      /\ \A k \in 1 .. G - 1 : status[Ahead(head, k)] <=> ~(k = 1 /\ pc[c0] = "advance")
      /\ PopRing(c0) /\ pushes <= MaxPushes
  BY DEF Ring
<1>5. Mapped(p0, c0, r)
  BY MappedIs
<1>6. /\ a \in 0 .. 1 /\ a <= G - 1
      /\ Accepted = [j \in 1 .. G - 1 - a |-> data[Ahead(head, a + j)]]
      /\ Retained = [j \in 1 .. r - 1 |-> data[Ahead(tail, j - 1)]]
  BY <1>1, <1>5 DEF Mapped, Pushing
<1>7. a' = a /\ (pc[c0] = "advance" => a = 1)
  BY <1>1
<1>8. PushRing(p0, 0)' /\ ~Pushing(p0)'
  BY <1>1 DEF PushRing, Pushing
<1>9. PopRing(c0)'
  BY <1>1, <1>4 DEF PopRing
<1>u. Gap(head', tail') = G + r /\ Gap(tail', head') = H - r
  BY <1>1, <1>3
<1>a. Ahead(head, G) = tail
  BY <1>2, GapFacts
<1> HIDE DEF w, v, G, H, a
<1>10. ASSUME NEW k \in 0 .. H - r - 1 PROVE ~status[Ahead(w, k)]
  <2>1. r + k \in 0 .. H - 1 /\ ~(r + k < r) /\ r + k < NumSlots /\ k \in Nat
    BY <1>2
  <2>2. Ahead(w, k) = Ahead(tail, r + k)
    BY <1>2, <2>1, AheadAhead
  <2> QED BY <1>4, <2>1, <2>2
<1>11. ASSUME NEW k \in 0 .. r - 1 PROVE Ahead(head, G + k) = Ahead(tail, k)
  <2>1. G + k < NumSlots /\ G \in Nat /\ k \in Nat
    BY <1>2
  <2> QED BY <1>2, <1>a, <2>1, AheadAhead
<1>12. ASSUME NEW k \in 1 .. G + r - 1 PROVE status[Ahead(head, k)] <=> ~(k = 1 /\ pc[c0] = "advance")
  <2>1. CASE k < G
    <3>1. k \in 1 .. G - 1
      BY <1>2, <2>1
    <3> QED BY <1>4, <3>1
  <2>2. CASE k >= G
    <3>1. k - G \in 0 .. r - 1 /\ k - G \in 0 .. H - 1 /\ G + (k - G) = k /\ k - G < r
      BY <1>2, <2>2
    <3>2. status[Ahead(head, k)]
      BY <1>4, <1>11, <3>1
    <3>3. ~(k = 1 /\ pc[c0] = "advance")
      BY <1>2, <1>6, <1>7, <2>2
    <3> QED BY <3>2, <3>3
  <2> QED BY <1>2, <2>1, <2>2
<1>13. Ring(p0, c0, 0)'
  <2>1. 0 \in 0 .. H - r /\ \A k \in 0 .. H - r - 1 : ~(k < 0)
    BY <1>2
  <2>2. \A k \in 0 .. Gap(tail', head') - 1 : status'[Ahead(tail', k)] <=> k < 0
    BY <1>1, <1>u, <1>10, <2>1
  <2>3. \A k \in 1 .. Gap(head', tail') - 1 : status'[Ahead(head', k)] <=> ~(k = 1 /\ pc'[c0] = "advance")
    <3> SUFFICES ASSUME NEW k \in 1 .. Gap(head', tail') - 1
                 PROVE  status'[Ahead(head', k)] <=> ~(k = 1 /\ pc'[c0] = "advance")
      OBVIOUS
    <3>1. k \in 1 .. G + r - 1
      BY <1>2, <1>u
    <3> QED BY <1>1, <1>12, <3>1
  <2>4. 0 \in 0 .. Gap(tail', head') /\ pushes' <= MaxPushes
    BY <1>1, <1>4, <1>u, <2>1
  <2> QED BY <1>8, <1>9, <2>2, <2>3, <2>4 DEF Ring
<1>14. Mapped(p0, c0, 0)'
  BY <1>13, MappedNext
<1>15. /\ Accepted' = [j \in 1 .. G + r - 1 - a |-> data[Ahead(head, a + j)]]
       /\ Retained' = <<>>
  <2>1. /\ Accepted' = [j \in 1 .. Gap(head', tail') - 1 - a' |-> data'[Ahead(head', a' + j)]]
        /\ Retained' = [j \in 1 .. 0 - 0 |-> data'[Ahead(tail', j - 1)]]
    BY <1>8, <1>14 DEF Mapped, a
  <2>2. Retained' = <<>>
    BY <2>1
  <2>3. data' = data /\ a' = a /\ head' = head /\ Gap(head', tail') = G + r
    BY <1>1, <1>7, <1>u
  <2>4. Accepted' = [j \in 1 .. G + r - 1 - a |-> data[Ahead(head, a + j)]]
    BY <1>2, <1>6, <2>1, <2>3
  <2> QED BY <2>2, <2>4
<1>16. Delivered' = Delivered
  <2>1. Taken' = Taken
    BY <1>1, <1>5, <1>14 DEF Mapped
  <2> QED BY <1>1, <2>1 DEF Delivered
<1>17. Accepted' = Accepted \o Append(Retained, v)
  <2> DEFINE n == G - 1 - a
  <2>1. n \in Nat /\ r - 1 \in Nat /\ n + r = G + r - 1 - a /\ r \in Nat
    BY <1>2, <1>6
  <2>2. Len(Accepted) = n /\ Len(Retained) = r - 1
    BY <1>6, <2>1
  <2>3. Append(Retained, v) = [k \in 1 .. r |-> data[Ahead(tail, k - 1)]]
    <3>1. \A k \in 1 .. r : (k # r => k \in 1 .. r - 1) /\ r - 1 + 1 = r
      BY <2>1
    <3>2. Append(Retained, v) = [k \in 1 .. r |-> IF k = r THEN v ELSE Retained[k]]
      BY <1>6, <2>1, <2>2, <3>1
    <3>3. \A k \in 1 .. r : data[Ahead(tail, k - 1)] = IF k = r THEN v ELSE Retained[k]
      BY <1>2, <1>6, <3>1
    <3> QED BY <3>2, <3>3
  <2> DEFINE R == Append(Retained, v)
  <2>4. Len(R) = r /\ \A k \in 1 .. r : R[k] = data[Ahead(tail, k - 1)]
    <3> HIDE DEF R
    <3>1. R = [k \in 1 .. r |-> data[Ahead(tail, k - 1)]]
      BY <2>3 DEF R
    <3> QED BY <2>1, <3>1
  <2> HIDE DEF R, n
  <2>5. Accepted \o R = [j \in 1 .. n + r |-> IF j <= n THEN Accepted[j] ELSE R[j - n]]
    <3>1. Accepted = [j \in 1 .. n |-> data[Ahead(head, a + j)]]
      BY <1>6 DEF n
    <3>2. R = [k \in 1 .. r |-> data[Ahead(tail, k - 1)]]
      BY <2>3 DEF R
    <3> HIDE <2>3
    <3> QED BY <2>1, <2>2, <2>4, <3>1, <3>2
  <2>6. ASSUME NEW j \in 1 .. n + r
        PROVE  data[Ahead(head, a + j)] = IF j <= n THEN Accepted[j] ELSE R[j - n]
    <3>1. CASE j <= n
      <4>1. j \in 1 .. G - 1 - a
        BY <2>1, <3>1 DEF n
      <4> QED BY <1>6, <3>1, <4>1
    <3>2. CASE ~(j <= n)
      <4>1. j - n \in 1 .. r /\ j - n - 1 \in 0 .. r - 1 /\ G + (j - n - 1) = a + j
        BY <1>2, <1>6, <2>1, <3>2 DEF n
      <4>2. R[j - n] = data[Ahead(tail, j - n - 1)]
        BY <2>4, <4>1
      <4>3. Ahead(head, a + j) = Ahead(tail, j - n - 1)
        BY <1>11, <4>1
      <4> QED BY <3>2, <4>2, <4>3
    <3> QED BY <3>1, <3>2
  <2>7. Accepted' = [j \in 1 .. n + r |-> data[Ahead(head, a + j)]]
    BY <1>15, <2>1
  <2>8. Accepted' = Accepted \o R
    BY <2>5, <2>6, <2>7
  <2> QED BY <2>8 DEF R
<1>18. Fifo!Accept(v)
  BY <1>15, <1>16, <1>17 DEF Fifo!Accept
<1> QED BY <1>2, <1>13, <1>18 DEF Fifo!Next

LEMMA RingInit ==
  ASSUME NEW p0, NEW c0, Producers = {p0}, Consumers = {c0}, SingleUserInv, Init
  PROVE  Ring(p0, c0, 0) /\ Fifo!Init
<1>1. /\ head = 0 /\ tail = 1 /\ status = [i \in Slots |-> FALSE] /\ pushes = 0 /\ delivered = <<>>
      /\ pc[p0] \in {"idle", "absent"} /\ pc[c0] \in {"idle", "absent"}
  BY DEF Init, Threads
<1>2. NumSlots \in Nat /\ NumSlots > 1 /\ head \in Slots /\ tail \in Slots
  BY CapacityAssumption DEF NumSlots, SingleUserInv, TypeOK
<1>3. Gap(head, tail) = 1 /\ Gap(tail, head) = NumSlots - 1
  BY <1>1, <1>2 DEF Gap
<1>4. \A k \in 0 .. NumSlots - 2 : Ahead(tail, k) \in Slots
  <2> SUFFICES ASSUME NEW k \in 0 .. NumSlots - 2 PROVE Ahead(tail, k) \in Slots
    OBVIOUS
  <2>1. k \in 0 .. NumSlots - 1
    BY <1>2
  <2> QED BY <1>2, <2>1, AheadFacts
<1>5. Ring(p0, c0, 0)
  <2>1. \A k \in 0 .. Gap(tail, head) - 1 : status[Ahead(tail, k)] <=> k < 0
    <3> SUFFICES ASSUME NEW k \in 0 .. Gap(tail, head) - 1 PROVE ~status[Ahead(tail, k)] /\ ~(k < 0)
      OBVIOUS
    <3>1. k \in 0 .. NumSlots - 2
      BY <1>2, <1>3
    <3> QED BY <1>1, <1>4, <3>1
  <2>2. \A k \in 1 .. Gap(head, tail) - 1 : status[Ahead(head, k)] <=> ~(k = 1 /\ pc[c0] = "advance")
    BY <1>3
  <2>3. PushRing(p0, 0) /\ PopRing(c0)
    BY <1>1 DEF PushRing, PopRing
  <2>4. pushes <= MaxPushes
    BY <1>1, BoundAssumption
  <2>5. 0 \in 0 .. Gap(tail, head)
    BY <1>2, <1>3
  <2> QED BY <2>1, <2>2, <2>3, <2>4, <2>5 DEF Ring
<1>6. Fifo!Init
  <2>1. Mapped(p0, c0, 0)
    BY <1>5, MappedIs
  <2>2. pc[c0] # "advance" /\ pc[c0] # "read" /\ ~Pushing(p0)
    BY <1>1 DEF Pushing
  <2>3. /\ Accepted = [j \in 1 .. 1 - 1 - 0 |-> data[Ahead(head, 0 + j)]]
        /\ Retained = [j \in 1 .. 0 - 0 |-> data[Ahead(tail, j - 1)]]
        /\ Taken = <<>>
    BY <1>3, <2>1, <2>2 DEF Mapped
  <2>4. Accepted = <<>> /\ Retained = <<>>
    BY <2>3
  <2>5. Delivered = <<>>
    BY <1>1, <2>3 DEF Delivered
  <2> QED BY <2>4, <2>5 DEF Fifo!Init
<1> QED BY <1>5, <1>6

RingInv(p, c) == \E r \in Nat : Ring(p, c, r)

(* Every step is a step of the abstract queue or leaves what it sees alone.   *)
LEMMA RingStep ==
  ASSUME NEW p0, NEW c0, Producers = {p0}, Consumers = {c0}
  PROVE  SingleUserInv /\ SingleUserInv' /\ RingInv(p0, c0) /\ [Next]_vars
           => RingInv(p0, c0)' /\ [Fifo!Next]_<<Accepted, Retained, Delivered>>
<1> SUFFICES ASSUME SingleUserInv, SingleUserInv', RingInv(p0, c0), [Next]_vars
             PROVE  RingInv(p0, c0)' /\ (Fifo!Next \/ UNCHANGED <<Accepted, Retained, Delivered>>)
  OBVIOUS
<1> SUFFICES \E s \in Nat : Ring(p0, c0, s)' /\ (Fifo!Next \/ UNCHANGED <<Accepted, Retained, Delivered>>)
  BY DEF RingInv
<1>1. PICK r \in Nat : Ring(p0, c0, r)
  BY DEF RingInv
<1>2. CASE UNCHANGED vars
  <2>1. UNCHANGED <<data, status, head, tail, pc, push, pop, pushes, delivered>>
    BY <1>2 DEF vars
  <2>2. Ring(p0, c0, r)'
    BY <1>1, <2>1 DEF Ring, PushRing, PopRing
  <2>3. Pushing(p0) <=> Pushing(p0)'
    BY <2>1 DEF Pushing
  <2>4. UNCHANGED <<Accepted, Retained, Delivered>>
    BY <1>1, <2>1, <2>2, <2>3, Unseen
  <2> QED BY <2>2, <2>4
<1>3. CASE PushBegin(p0) \/ PushStep(p0)
  <2>1. CASE PushBegin(p0)
    BY <1>1, <2>1, PushBeginRing
  <2>2. CASE PushClaimed(p0)
    <3>1. Ring(p0, c0, r + 1)' /\ UNCHANGED <<Accepted, Retained, Delivered>>
      BY <1>1, <2>2, PushClaimedRing
    <3>2. r + 1 \in Nat
      OBVIOUS
    <3> QED BY <3>1, <3>2
  <2>3. CASE PushSkips(p0)
    BY <1>1, <2>3, PushSkipsRing
  <2>4. CASE PushWrite(p0)
    BY <1>1, <2>4, PushWriteRing
  <2>5. CASE PushFull(p0)
    BY <1>1, <2>5, PushFullRing
  <2>6. CASE PushHasRoom(p0)
    BY <1>1, <2>6, PushHasRoomRing
  <2>7. CASE PushPublish(p0)
    BY <1>1, <2>7, PushPublishRing
  <2>8. CASE PushResolve(p0)
    BY <2>8 DEF PushResolve, SingleUserInv, PushInv
  <2> QED BY <1>3, <2>1, <2>2, <2>3, <2>4, <2>5, <2>6, <2>7, <2>8 DEF PushStep
<1>4. CASE PopBegin(c0) \/ PopStep(c0)
  <2>1. CASE PopBegin(c0)
    BY <1>1, <2>1, PopBeginRing
  <2>2. CASE PopEmpty(c0)
    BY <1>1, <2>2, PopEmptyRing
  <2>3. CASE PopTakes(c0)
    BY <1>1, <2>3, PopTakesRing
  <2>4. CASE PopSkips(c0)
    BY <1>1, <2>4, PopSkipsRing
  <2>5. CASE PopAdvance(c0)
    BY <1>1, <2>5, PopAdvanceRing
  <2>6. CASE PopResolve(c0)
    BY <2>6 DEF PopResolve, SingleUserInv, PopInv
  <2>7. CASE PopRead(c0)
    BY <1>1, <2>7, PopReadRing
  <2> QED BY <1>4, <2>1, <2>2, <2>3, <2>4, <2>5, <2>6, <2>7 DEF PopStep
<1> QED BY <1>2, <1>3, <1>4 DEF Next

(* One producer and one consumer see a bounded FIFO, whatever the capacity:   *)
(* nothing accepted is lost, doubled or reordered, and what a refused push    *)
(* leaves behind comes out just before the next value accepted.               *)
THEOREM ImplementsFifo ==
  ASSUME NEW p0, NEW c0, Producers = {p0}, Consumers = {c0}
  PROVE  Spec => RefinesFifo
<1>1. Spec => []SingleUserInv
  BY SingleUserInductive
<1>2. Init /\ SingleUserInv => RingInv(p0, c0) /\ Fifo!Init
  BY RingInit DEF RingInv
<1>3. SingleUserInv /\ SingleUserInv' /\ RingInv(p0, c0) /\ [Next]_vars
        => RingInv(p0, c0)' /\ [Fifo!Next]_<<Accepted, Retained, Delivered>>
  BY RingStep
<1> QED BY <1>1, <1>2, <1>3, PTL DEF Spec, RefinesFifo, Fifo!Spec

=============================================================================
