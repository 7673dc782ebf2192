--------------------------- MODULE SparseSetProofs ---------------------------
(***************************************************************************)
(* The sparse set keeps its arrays linked and implements the handle map,   *)
(* for every size, number of generations, set of values, set of foreign    *)
(* handles and bound on the creations.                                     *)
(***************************************************************************)
EXTENDS SparseSet, SparseSetOpsProofs

USE DEF Sets

(* The types and the links together are inductive. *)
Inv == TypeOK /\ CrossLinked

LEMMA InvInit == Init => Inv
<1>1. [i \in Indices |-> <<>>] \in [Indices -> Seq(GenerationType)]
  OBVIOUS
<1> QED BY <1>1, EmptyLinked DEF Init, Inv, TypeOK, CrossLinked

LEMMA InvStep == Inv /\ [Next]_vars => Inv'
<1> SUFFICES ASSUME Inv, [Next]_vars PROVE Inv'
  OBVIOUS
<1> USE DEF Inv, TypeOK, CrossLinked
<1>1. ASSUME NEW i \in Indices, NEW v \in Values, CreateObject(i, v) PROVE Inv'
  <2>1. NextHandle(set, i) \in Handles /\ NextHandle(set, i).index = i
    BY NextHandleLemma
  <2>2. set' \in Sets /\ Linked(set')
    BY <1>1, <2>1, PutLinked DEF CreateObject
  <2>3. NextHandle(set, i).generation \in GenerationType
    BY <2>1 DEF Handles
  <2>4. Append(issued[i], NextHandle(set, i).generation) \in Seq(GenerationType)
    BY <2>3
  <2>5. issued' \in [Indices -> Seq(GenerationType)]
    BY <1>1, <2>4 DEF CreateObject
  <2> QED BY <2>2, <2>5
<1>2. ASSUME NEW h \in Foreign, NEW v \in Values, CreateWithHandle(h, v) PROVE Inv'
  BY <1>2, PutLinked, ForeignAssumption DEF CreateWithHandle
<1>3. ASSUME NEW h \in Handles, DestroyObject(h) PROVE Inv'
  BY <1>3, RemovedLinked DEF DestroyObject
<1>4. ASSUME NEW h \in Handles, NEW v \in Values, WriteObject(h, v) PROVE Inv'
  BY <1>4, WrittenLinked DEF WriteObject
<1>5. CASE UNCHANGED vars
  BY <1>5 DEF vars
<1> QED BY <1>1, <1>2, <1>3, <1>4, <1>5 DEF Next

(* Every value a set's fields hold is of its type, however the operations   *)
(* of sparse-set.zig follow each other.                                     *)
THEOREM TypeCorrect == Spec => []TypeOK
<1>1. Inv => TypeOK
  BY DEF Inv
<1> QED BY <1>1, InvInit, InvStep, PTL DEF Spec

(* The two directions of a sparse set agree in every reachable state: no    *)
(* sequence of creations, forced handles, writes and swap-removals leaves   *)
(* an entry pointing at another object's slot.                              *)
THEOREM LinksKept == Spec => []CrossLinked
<1>1. Inv => CrossLinked
  BY DEF Inv
<1> QED BY <1>1, InvInit, InvStep, PTL DEF Spec

-----------------------------------------------------------------------------
(* The handle map: what can be found in a set, as a function. *)

LEMMA PutObjects ==
  ASSUME NEW s \in Sets, Linked(s), NEW h \in Handles, NEW v \in Values,
         IsFree(s, h.index)
  PROVE  /\ \A g \in DOMAIN Objects(s) : g.index # h.index
         /\ Objects(Put(s, h, v)) =
              [g \in DOMAIN Objects(s) \cup {h} |-> IF g = h THEN v ELSE Objects(s)[g]]
<1> DEFINE t == Put(s, h, v)
<1>1. \A g \in Handles :
        /\ Exists(s, g) => g.index # h.index
        /\ Exists(t, g) <=> Exists(s, g) \/ g = h
        /\ Exists(t, g) => Get(t, g) = IF g = h THEN v ELSE Get(s, g)
  BY PutFinds
<1> HIDE DEF t
<1>2. DOMAIN Objects(t) = DOMAIN Objects(s) \cup {h}
  BY <1>1 DEF Objects
<1>3. \A g \in DOMAIN Objects(t) : Objects(t)[g] = IF g = h THEN v ELSE Objects(s)[g]
  BY <1>1 DEF Objects
<1>4. Objects(t) = [g \in DOMAIN Objects(s) \cup {h} |-> IF g = h THEN v ELSE Objects(s)[g]]
  BY <1>2, <1>3 DEF Objects
<1>5. \A g \in DOMAIN Objects(s) : g.index # h.index
  BY <1>1 DEF Objects
<1> QED BY <1>4, <1>5 DEF t

LEMMA WrittenObjects ==
  ASSUME NEW s \in Sets, Linked(s), NEW h \in Handles, NEW v \in Values, Exists(s, h)
  PROVE  /\ h \in DOMAIN Objects(s)
         /\ Objects(Written(s, h, v)) = [Objects(s) EXCEPT ![h] = v]
<1> DEFINE t == Written(s, h, v)
<1>1. \A g \in Handles :
        /\ Exists(t, g) <=> Exists(s, g)
        /\ Exists(s, g) => Get(t, g) = IF g = h THEN v ELSE Get(s, g)
  BY WrittenFinds
<1> HIDE DEF t
<1>2. DOMAIN Objects(t) = DOMAIN Objects(s)
  BY <1>1 DEF Objects
<1>3. \A g \in DOMAIN Objects(s) : Objects(t)[g] = IF g = h THEN v ELSE Objects(s)[g]
  BY <1>1 DEF Objects
<1>4. Objects(t) = [Objects(s) EXCEPT ![h] = v]
  BY <1>2, <1>3 DEF Objects
<1>5. h \in DOMAIN Objects(s)
  BY DEF Objects
<1> QED BY <1>4, <1>5 DEF t

LEMMA RemovedObjects ==
  ASSUME NEW s \in Sets, Linked(s), NEW h \in Handles, Exists(s, h)
  PROVE  /\ h \in DOMAIN Objects(s)
         /\ Objects(Removed(s, h)) = [g \in DOMAIN Objects(s) \ {h} |-> Objects(s)[g]]
<1> DEFINE t == Removed(s, h)
<1>1. \A g \in Handles :
        /\ Exists(t, g) <=> Exists(s, g) /\ g # h
        /\ Exists(t, g) => Get(t, g) = Get(s, g)
  BY RemovedFinds
<1> HIDE DEF t
<1>2. DOMAIN Objects(t) = DOMAIN Objects(s) \ {h}
  BY <1>1 DEF Objects
<1>3. \A g \in DOMAIN Objects(t) : Objects(t)[g] = Objects(s)[g]
  BY <1>1 DEF Objects
<1>4. Objects(t) = [g \in DOMAIN Objects(s) \ {h} |-> Objects(s)[g]]
  BY <1>2, <1>3 DEF Objects
<1>5. h \in DOMAIN Objects(s)
  BY DEF Objects
<1> QED BY <1>4, <1>5 DEF t

-----------------------------------------------------------------------------

(* The sparse set implements the handle map: every operation of the code    *)
(* does to the map what its name says, wherever the dense arrays move the   *)
(* objects.                                                                 *)
THEOREM Implements == Spec => RefinesHandleMap
<1>1. Init => Map!Init
  <2>1. ASSUME NEW g \in Handles PROVE ~Exists(EmptySet, g)
    <3>1. g.index \in Indices
      BY DEF Handles
    <3> QED BY <3>1 DEF Exists, EmptySet, Entry
  <2>2. Objects(EmptySet) = [h \in {} |-> {}]
    BY <2>1 DEF Objects
  <2> QED BY <2>2 DEF Init, Map!Init
<1>2. Inv /\ [Next]_vars => [Map!Next]_(Objects(set))
  <2> SUFFICES ASSUME Inv, [Next]_vars
               PROVE  Map!Next \/ UNCHANGED Objects(set)
    OBVIOUS
  <2> USE DEF Inv, TypeOK, CrossLinked
  <2>1. ASSUME NEW i \in Indices, NEW v \in Values, CreateObject(i, v) PROVE Map!Next
    <3> DEFINE h == NextHandle(set, i)
    <3>1. h \in Handles /\ h.index = i
      BY NextHandleLemma
    <3>2. IsFree(set, h.index) /\ set' = Put(set, h, v)
      BY <2>1, <3>1 DEF CreateObject
    <3> HIDE DEF h
    <3>3. Map!Create(h, v)
      BY <3>1, <3>2, PutObjects DEF Map!Create
    <3> QED BY <3>1, <3>3 DEF Map!Next
  <2>2. ASSUME NEW h \in Foreign, NEW v \in Values, CreateWithHandle(h, v) PROVE Map!Next
    <3>1. h \in Handles
      BY ForeignAssumption
    <3>2. Map!Create(h, v)
      BY <2>2, <3>1, PutObjects DEF CreateWithHandle, Map!Create
    <3> QED BY <3>1, <3>2 DEF Map!Next
  <2>3. ASSUME NEW h \in Handles, DestroyObject(h) PROVE Map!Next
    <3>1. Map!Destroy(h)
      BY <2>3, RemovedObjects DEF DestroyObject, Map!Destroy
    <3> QED BY <3>1 DEF Map!Next
  <2>4. ASSUME NEW h \in Handles, NEW v \in Values, WriteObject(h, v) PROVE Map!Next
    <3>1. Map!Write(h, v)
      BY <2>4, WrittenObjects DEF WriteObject, Map!Write
    <3> QED BY <3>1 DEF Map!Next
  <2>5. CASE UNCHANGED vars
    BY <2>5 DEF vars, Objects, Exists, Get
  <2> QED BY <2>1, <2>2, <2>3, <2>4, <2>5 DEF Next
<1>3. RefinesHandleMap <=> Map!Init /\ [][Map!Next]_(Objects(set))
  BY DEF RefinesHandleMap, Map!Spec
<1> QED BY <1>1, <1>2, <1>3, InvInit, InvStep, PTL DEF Spec

-----------------------------------------------------------------------------
(* Generations.  They grow by one with every creation at an index, modulo  *)
(* their number: `cycles` whole turns and the remainder make the count.    *)

Counts(n, g) == \E cycles \in Nat : n = cycles * Generations + g

(* At an index nobody forces a handle on, the entry's generation counts the *)
(* creations, and the k-th generation issued counts k.                      *)
GenerationsCount ==
  \A i \in Indices : (\A h \in Foreign : h.index # i) =>
    /\ Counts(Len(issued[i]), set.sparse[i].generation)
    /\ \A k \in 1 .. Len(issued[i]) : Counts(k, issued[i][k])

LEMMA CountsNext ==
  ASSUME NEW n \in Nat, NEW g \in GenerationType, Counts(n, g)
  PROVE  Counts(n + 1, (g + 1) % Generations)
<1>1. g \in 0 .. Generations - 1 /\ Generations \in Nat \ {0}
  BY GenerationAssumption DEF GenerationType
<1>2. (g + 1) % Generations = IF g + 1 = Generations THEN 0 ELSE g + 1
  BY <1>1
<1>3. PICK cycles \in Nat : n = cycles * Generations + g
  BY DEF Counts
<1>4. CASE g + 1 = Generations
  <2>1. n + 1 = (cycles + 1) * Generations + 0
    BY <1>1, <1>3, <1>4
  <2>2. cycles + 1 \in Nat
    OBVIOUS
  <2> QED BY <1>2, <1>4, <2>1, <2>2 DEF Counts
<1>5. CASE g + 1 # Generations
  <2>1. n + 1 = cycles * Generations + (g + 1)
    BY <1>1, <1>3
  <2> QED BY <1>2, <1>5, <2>1 DEF Counts
<1> QED BY <1>4, <1>5

(* Equal generations are whole cycles apart. *)
LEMMA CountsApart ==
  ASSUME NEW n \in Nat, NEW k \in Nat, NEW g \in GenerationType, Counts(n, g), Counts(k, g)
  PROVE  (n - k) % Generations = 0
<1>1. g \in Int /\ Generations \in Nat \ {0}
  BY GenerationAssumption DEF GenerationType
<1>2. PICK a \in Nat : n = a * Generations + g
  BY DEF Counts
<1>3. PICK b \in Nat : k = b * Generations + g
  BY DEF Counts
<1>4. a * Generations \in Int /\ b * Generations \in Int
  BY <1>1
<1>5. n - k = a * Generations - b * Generations
  BY <1>1, <1>2, <1>3, <1>4
<1>6. a * Generations - b * Generations = (a - b) * Generations
  BY <1>1
<1>7. \A q \in Int : (q * Generations) % Generations = 0
  BY <1>1
<1>8. a - b \in Int
  OBVIOUS
<1> QED BY <1>5, <1>6, <1>7, <1>8

(* The generation of an entry changes only when a handle is put there. *)
LEMMA GenerationKept ==
  ASSUME NEW s \in Sets, Linked(s), NEW i \in Indices
  PROVE  /\ \A h \in Handles, v \in Values :
              Put(s, h, v).sparse[i].generation =
                IF i = h.index THEN h.generation ELSE s.sparse[i].generation
         /\ \A h \in Handles : Exists(s, h) =>
              /\ Removed(s, h).sparse[i].generation = s.sparse[i].generation
              /\ \A v \in Values : Written(s, h, v).sparse[i].generation = s.sparse[i].generation
<1>1. s.sparse \in [Indices -> [index : Nat, generation : GenerationType, alive : BOOLEAN]]
  BY DEF SetsOf
<1>2. ASSUME NEW h \in Handles, NEW v \in Values
      PROVE  Put(s, h, v).sparse[i].generation =
               IF i = h.index THEN h.generation ELSE s.sparse[i].generation
  BY <1>1 DEF Put, Entry, Handles
<1>3. ASSUME NEW h \in Handles, Exists(s, h)
      PROVE  Removed(s, h).sparse[i].generation = s.sparse[i].generation
  <2>1. Len(s.values) = Len(s.handles) /\ Len(s.handles) \in Nat /\ Len(s.handles) > 0
    BY <1>3, ExistsLemma DEF Linked, SetsOf
  <2>2. s.handles[Len(s.values)].index \in Indices /\ h.index \in Indices
    BY <2>1, DenseLemma DEF Handles
  <2> QED BY <1>1, <2>2 DEF Removed
<1>4. ASSUME NEW h \in Handles, NEW v \in Values
      PROVE  Written(s, h, v).sparse[i].generation = s.sparse[i].generation
  BY DEF Written, SetsOf
<1> QED BY <1>2, <1>3, <1>4

LEMMA CountInit == Init => GenerationsCount
<1>1. Counts(0, 0)
  <2>1. 0 = 0 * Generations + 0
    BY GenerationAssumption
  <2> QED BY <2>1 DEF Counts
<1> QED BY <1>1 DEF Init, GenerationsCount, EmptySet, Entry

LEMMA CountStep == Inv /\ GenerationsCount /\ [Next]_vars => GenerationsCount'
<1> SUFFICES ASSUME Inv, GenerationsCount, [Next]_vars,
                    NEW i \in Indices, \A h \in Foreign : h.index # i
             PROVE  /\ Counts(Len(issued'[i]), set'.sparse[i].generation)
                    /\ \A k \in 1 .. Len(issued'[i]) : Counts(k, issued'[i][k])
  BY DEF GenerationsCount, Counts
<1> USE DEF Inv, TypeOK, CrossLinked
<1>1. /\ Counts(Len(issued[i]), set.sparse[i].generation)
      /\ \A k \in 1 .. Len(issued[i]) : Counts(k, issued[i][k])
      /\ issued \in [Indices -> Seq(GenerationType)]
      /\ set.sparse[i].generation \in GenerationType
  BY DEF GenerationsCount, SetsOf
<1>2. ASSUME NEW j \in Indices, NEW v \in Values, CreateObject(j, v)
      PROVE  /\ Counts(Len(issued'[i]), set'.sparse[i].generation)
             /\ \A k \in 1 .. Len(issued'[i]) : Counts(k, issued'[i][k])
  <2> DEFINE h == NextHandle(set, j)
  <2>1. /\ h \in Handles /\ h.index = j
        /\ h.generation = (set.sparse[j].generation + 1) % Generations
    BY NextHandleLemma DEF NextHandle, Handle
  <2>2. /\ set' = Put(set, h, v)
        /\ issued' = [issued EXCEPT ![j] = Append(@, h.generation)]
    BY <1>2 DEF CreateObject
  <2> HIDE DEF h
  <2>3. set'.sparse[i].generation = IF i = j THEN h.generation ELSE set.sparse[i].generation
    BY <2>1, <2>2, GenerationKept
  <2>4. CASE i = j
    <3>1. issued'[i] = Append(issued[i], h.generation)
      BY <1>1, <2>2, <2>4
    <3>2. Counts(Len(issued[i]) + 1, h.generation)
      BY <1>1, <2>1, <2>4, CountsNext
    <3>3. /\ Len(issued'[i]) = Len(issued[i]) + 1 /\ Len(issued[i]) \in Nat
          /\ \A k \in 1 .. Len(issued'[i]) :
               issued'[i][k] = IF k = Len(issued[i]) + 1 THEN h.generation ELSE issued[i][k]
      <4>1. issued[i] \in Seq(GenerationType) /\ h.generation \in GenerationType
        BY <1>1, <2>1 DEF Handles
      <4> QED BY <3>1, <4>1
    <3> QED BY <1>1, <2>3, <2>4, <3>2, <3>3
  <2>5. CASE i # j
    BY <1>1, <2>2, <2>3, <2>5
  <2> QED BY <2>4, <2>5
<1>3. ASSUME NEW h \in Foreign, NEW v \in Values, CreateWithHandle(h, v)
      PROVE  set'.sparse[i].generation = set.sparse[i].generation /\ issued' = issued
  BY <1>3, GenerationKept, ForeignAssumption DEF CreateWithHandle
<1>4. ASSUME NEW h \in Handles, DestroyObject(h)
      PROVE  set'.sparse[i].generation = set.sparse[i].generation /\ issued' = issued
  BY <1>4, GenerationKept DEF DestroyObject
<1>5. ASSUME NEW h \in Handles, NEW v \in Values, WriteObject(h, v)
      PROVE  set'.sparse[i].generation = set.sparse[i].generation /\ issued' = issued
  BY <1>5, GenerationKept DEF WriteObject
<1>6. CASE UNCHANGED vars
  BY <1>1, <1>6 DEF vars
<1> QED BY <1>1, <1>2, <1>3, <1>4, <1>5, <1>6 DEF Next

(* A handle that createObject issued does not come alive again when its    *)
(* index is reused, until the generations have gone round: for any number  *)
(* of them, and at any index no other set forces a handle on.              *)
THEOREM StaleStayDead == Spec => []StaleHandlesAreDead
<1>1. ASSUME Inv, GenerationsCount
      PROVE  StaleHandlesAreDead
  <2> SUFFICES ASSUME NEW i \in Indices, \A h \in Foreign : h.index # i,
                      NEW k \in 1 .. Len(issued[i]),
                      Exists(set, Handle(i, issued[i][k]))
               PROVE  (Len(issued[i]) - k) % Generations = 0
    BY DEF StaleHandlesAreDead
  <2>1. set.sparse[i].generation = issued[i][k]
    BY DEF Exists, Handle
  <2>2. Counts(Len(issued[i]), issued[i][k]) /\ Counts(k, issued[i][k])
    BY <1>1, <2>1 DEF GenerationsCount
  <2>3. issued[i] \in Seq(GenerationType)
    BY <1>1 DEF Inv, TypeOK
  <2>4. Len(issued[i]) \in Nat /\ k \in Nat /\ issued[i][k] \in GenerationType
    BY <2>3
  <2> QED BY <2>2, <2>4, CountsApart
<1> QED BY <1>1, InvInit, InvStep, CountInit, CountStep, PTL DEF Spec

=============================================================================
