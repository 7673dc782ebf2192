-------------------------- MODULE EcsRegistryProofs --------------------------
(***************************************************************************)
(* Theorems about EcsRegistry, for any finite set of containers and any    *)
(* size of the sets: the base set knows how many containers hold each      *)
(* entity, and no container holds one it does not know.                    *)
(***************************************************************************)
EXTENDS EcsRegistry, SparseSetOpsProofs, FiniteSetTheorems

(* The number an entity may be counted in, and what the sets are made of.  *)
CountType == 0 .. Cardinality(Containers)

SetsTyped ==
  /\ baseSet \in SetsOf(CountType)
  /\ store \in [Containers -> SetsOf(Handles)]

IInv == TypeOK /\ SetsTyped /\ SetsLinked /\ CountsMatch

Holders(h) == {c \in Containers : Exists(store[c], h)}

LEMMA ContainersFacts ==
  /\ Cardinality(Containers) \in Nat
  /\ \A S \in SUBSET Containers :
       /\ IsFiniteSet(S) /\ Cardinality(S) \in CountType
       /\ \A c \in Containers \ S : Cardinality(S \cup {c}) = Cardinality(S) + 1
       /\ \A c \in S : Cardinality(S \ {c}) = Cardinality(S) - 1
<1>1. Cardinality(Containers) \in Nat
  BY ContainersAssumption, FS_CardinalityType
<1>2. ASSUME NEW S \in SUBSET Containers
      PROVE  /\ IsFiniteSet(S) /\ Cardinality(S) \in CountType
             /\ \A c \in Containers \ S : Cardinality(S \cup {c}) = Cardinality(S) + 1
             /\ \A c \in S : Cardinality(S \ {c}) = Cardinality(S) - 1
  <2>1. IsFiniteSet(S) /\ Cardinality(S) <= Cardinality(Containers)
    BY ContainersAssumption, FS_Subset
  <2>2. Cardinality(S) \in Nat
    BY <2>1, FS_CardinalityType
  <2>3. Cardinality(S) \in CountType
    BY <1>1, <2>1, <2>2 DEF CountType
  <2>4. \A c \in Containers \ S : Cardinality(S \cup {c}) = Cardinality(S) + 1
    BY <2>1, FS_AddElement
  <2>5. \A c \in S : Cardinality(S \ {c}) = Cardinality(S) - 1
    BY <2>1, FS_RemoveElement
  <2> QED BY <2>1, <2>3, <2>4, <2>5
<1> QED BY <1>1, <1>2

LEMMA InitHolds == Init => IInv
<1> SUFFICES ASSUME Init PROVE IInv
  OBVIOUS
<1> USE DEF Init
<1>1. SetsTyped
  <2>1. EmptySet \in SetsOf(CountType) /\ EmptySet \in SetsOf(Handles)
    BY EmptyLinked
  <2> QED BY <2>1 DEF SetsTyped
<1>2. SetsLinked
  BY EmptyLinked DEF SetsLinked, EmptySet
<1>3. \A h \in Handles : ~Exists(EmptySet, h)
  <2> SUFFICES ASSUME NEW h \in Handles PROVE ~Exists(EmptySet, h)
    OBVIOUS
  <2>1. h.index \in Indices
    BY DEF Handles
  <2> QED BY <2>1 DEF Exists, EmptySet, Entry
<1>4. CountsMatch
  BY <1>3 DEF CountsMatch
<1>5. TypeOK
  <2>1. baseSet.values = <<>> /\ \A c \in Containers : store[c].values = <<>>
    BY DEF EmptySet
  <2>2. ops \in [Containers -> 0 .. MaxOps]
    BY LimitAssumption
  <2>3. <<>> \in Seq(CountType) /\ <<>> \in Seq(Handles)
    OBVIOUS
  <2>4. refs = {} /\ panicked = FALSE
    OBVIOUS
  <2> HIDE DEF Init
  <2> QED BY <2>1, <2>2, <2>3, <2>4 DEF TypeOK, CountType
<1> QED BY <1>1, <1>2, <1>4, <1>5 DEF IInv

-----------------------------------------------------------------------------
(* Creating an entity, and what a container reports.                       *)

LEMMA CreateEntityKeeps ==
  ASSUME IInv, ~panicked, NEW i \in Indices, CreateEntity(i)
  PROVE  IInv'
<1> USE DEF IInv
<1> DEFINE h == NextHandle(baseSet, i)
<1>1. /\ baseSet \in SetsOf(CountType) /\ Linked(baseSet)
      /\ IsFree(baseSet, i) /\ baseSet' = Put(baseSet, h, 0)
      /\ UNCHANGED <<store, ops, refs, panicked>>
  BY DEF SetsTyped, SetsLinked, CreateEntity
<1>2. h \in Handles /\ h.index = i
  BY <1>1, NextHandleLemma
<1>3. 0 \in CountType
  BY ContainersFacts DEF CountType
<1> HIDE DEF h
<1>4. baseSet' \in SetsOf(CountType) /\ Linked(baseSet')
  BY <1>1, <1>2, <1>3, PutLinked
<1>5. \A g \in Handles :
        /\ Exists(baseSet, g) => g # h
        /\ Exists(baseSet', g) <=> Exists(baseSet, g) \/ g = h
        /\ Exists(baseSet', g) => Get(baseSet', g) = IF g = h THEN 0 ELSE Get(baseSet, g)
  BY <1>1, <1>2, <1>3, PutFinds
<1>6. Holders(h) = {}
  BY <1>2, <1>5 DEF Holders, CountsMatch
<1>7. CountsMatch'
  <2>1. ASSUME NEW g \in Handles, Exists(baseSet', g)
        PROVE  Get(baseSet', g) = Cardinality({c \in Containers : Exists(store'[c], g)})
    <3>1. CASE g = h
      <4>1. {c \in Containers : Exists(store'[c], g)} = {}
        BY <1>1, <1>6, <3>1 DEF Holders
      <4> QED BY <1>5, <2>1, <3>1, <4>1, FS_EmptySet
    <3>2. CASE g # h
      BY <1>1, <1>5, <2>1, <3>2 DEF CountsMatch
    <3> QED BY <3>1, <3>2
  <2>2. \A g \in Handles, c \in Containers : Exists(store'[c], g) => Exists(baseSet', g)
    BY <1>1, <1>5 DEF CountsMatch
  <2> QED BY <2>1, <2>2 DEF CountsMatch
<1>8. SetsTyped' /\ SetsLinked'
  BY <1>1, <1>4 DEF SetsTyped, SetsLinked
<1>9. TypeOK'
  BY <1>1, <1>4 DEF TypeOK, SetsOf, CountType
<1> QED BY <1>7, <1>8, <1>9

(* A container gains h, and the base set counts it, or makes a record of it *)
(* for a handle it does not know.                                           *)
LEMMA AddKeeps ==
  ASSUME IInv, ~panicked, NEW h \in Entities, NEW c \in Containers, Add(h, c)
  PROVE  /\ SetsTyped' /\ SetsLinked' /\ CountsMatch'
         /\ baseSet'.values \in Seq(CountType)
         /\ \A d \in Containers : store'[d].values \in Seq(Handles)
         /\ ops' \in [Containers -> 0 .. MaxOps]
         /\ panicked' \in BOOLEAN
<1> USE DEF IInv
<1>0. h \in Handles /\ (~Exists(baseSet, h) => h = NullHandle)
  BY EmptyLinked, GenerationAssumption, SizeAssumption
     DEF Entities, NullHandle, Handle, Handles, Indices, GenerationType
<1>1. /\ baseSet \in SetsOf(CountType) /\ Linked(baseSet)
      /\ store \in [Containers -> SetsOf(Handles)]
      /\ store[c] \in SetsOf(Handles) /\ Linked(store[c]) /\ store[c].values = store[c].handles
      /\ IsFree(store[c], h.index) /\ ops[c] < MaxOps
      /\ store' = [store EXCEPT ![c] = Put(store[c], h, h)]
      /\ ops' = [ops EXCEPT ![c] = ops[c] + 1]
      /\ HandleAdded(h)
  BY DEF SetsTyped, SetsLinked, Add
<1>2. \A g \in Handles :
        /\ Exists(store[c], g) => g.index # h.index
        /\ Exists(store'[c], g) <=> Exists(store[c], g) \/ g = h
  BY <1>0, <1>1, PutFinds
<1>3. /\ store'[c] \in SetsOf(Handles) /\ Linked(store'[c])
      /\ store'[c].values = store'[c].handles
      /\ \A d \in Containers \ {c} : store'[d] = store[d]
  <2>1. store'[c] = Put(store[c], h, h) /\ \A d \in Containers \ {c} : store'[d] = store[d]
    BY <1>1
  <2> QED BY <1>0, <1>1, <2>1, PutLinked DEF Put
<1>4. /\ Holders(h) \in SUBSET Containers /\ c \notin Holders(h)
      /\ Exists(baseSet, h) => Get(baseSet, h) = Cardinality(Holders(h))
      /\ ~Exists(baseSet, h) => Holders(h) = {}
  BY <1>0, <1>2 DEF Holders, CountsMatch
<1>5. /\ Holders(h)' = Holders(h) \cup {c}
      /\ \A g \in Handles \ {h} : Holders(g)' = Holders(g)
  <2>1. \A g \in Handles, d \in Containers :
          Exists(store'[d], g) <=> Exists(store[d], g) \/ (g = h /\ d = c)
    BY <1>2, <1>3
  <2> QED BY <1>0, <2>1 DEF Holders
<1>6. /\ Cardinality(Holders(h)') \in CountType
      /\ Cardinality(Holders(h)') = Cardinality(Holders(h)) + 1
  BY <1>4, <1>5, ContainersFacts
<1>7. /\ baseSet' \in SetsOf(CountType) /\ Linked(baseSet')
      /\ \A g \in Handles :
           /\ Exists(baseSet, g) => Exists(baseSet', g)
           /\ Exists(baseSet', g) => Get(baseSet', g) = Cardinality(Holders(g)')
      /\ Exists(baseSet', h) \/ (panicked' /\ h = NullHandle)
  <2>1. CASE Exists(baseSet, h)
    <3>1. baseSet' = Written(baseSet, h, Get(baseSet, h) + 1)
      BY <1>1, <2>1 DEF HandleAdded
    <3>2. Get(baseSet, h) + 1 \in CountType /\ Get(baseSet, h) + 1 = Cardinality(Holders(h)')
      BY <1>4, <1>6, <2>1
    <3>3. /\ baseSet' \in SetsOf(CountType) /\ Linked(baseSet')
          /\ \A g \in Handles :
               /\ Exists(baseSet', g) <=> Exists(baseSet, g)
               /\ Exists(baseSet, g) =>
                    Get(baseSet', g) = IF g = h THEN Get(baseSet, h) + 1 ELSE Get(baseSet, g)
      BY <1>0, <1>1, <2>1, <3>1, <3>2, WrittenLinked, WrittenFinds
    <3>4. \A g \in Handles \ {h} :
            Exists(baseSet, g) => Get(baseSet, g) = Cardinality(Holders(g)')
      BY <1>5 DEF CountsMatch, Holders
    <3> QED BY <1>0, <2>1, <3>2, <3>3, <3>4
  <2>2. CASE ~Exists(baseSet, h) /\ IsFree(baseSet, h.index)
    <3>1. baseSet' = Put(baseSet, h, 1)
      BY <1>1, <2>2 DEF HandleAdded
    <3>2. 1 \in CountType /\ 1 = Cardinality(Holders(h)')
      BY <1>4, <1>6, <2>2, FS_EmptySet
    <3>3. /\ baseSet' \in SetsOf(CountType) /\ Linked(baseSet')
          /\ \A g \in Handles :
               /\ Exists(baseSet', g) <=> Exists(baseSet, g) \/ g = h
               /\ Exists(baseSet', g) =>
                    Get(baseSet', g) = IF g = h THEN 1 ELSE Get(baseSet, g)
      BY <1>0, <1>1, <2>2, <3>1, <3>2, PutLinked, PutFinds
    <3>4. \A g \in Handles \ {h} :
            Exists(baseSet, g) => Get(baseSet, g) = Cardinality(Holders(g)')
      BY <1>5 DEF CountsMatch, Holders
    <3> QED BY <1>0, <3>2, <3>3, <3>4
  <2>3. CASE ~Exists(baseSet, h) /\ ~IsFree(baseSet, h.index)
    <3>1. panicked' = TRUE /\ baseSet' = baseSet /\ h = NullHandle
      BY <1>0, <1>1, <2>3 DEF HandleAdded
    <3>2. \A g \in Handles : Exists(baseSet, g) =>
            g # h /\ Get(baseSet, g) = Cardinality(Holders(g)')
      BY <1>5, <2>3 DEF CountsMatch, Holders
    <3> QED BY <1>1, <3>1, <3>2
  <2> QED BY <2>1, <2>2, <2>3
<1>8. CountsMatch'
  <2>1. \A g \in Handles, d \in Containers :
          Exists(store'[d], g) => Exists(baseSet', g) \/ (panicked' /\ g = NullHandle)
    BY <1>2, <1>3, <1>7 DEF CountsMatch
  <2>2. \A g \in Handles : NullHandle' = NullHandle
    BY DEF NullHandle
  <2> QED BY <1>7, <2>1, <2>2 DEF CountsMatch, Holders
<1>9. SetsTyped'
  <2>1. Put(store[c], h, h) \in SetsOf(Handles)
    BY <1>0, <1>1, PutLinked
  <2> QED BY <1>1, <1>7, <2>1 DEF SetsTyped
<1>10. SetsLinked'
  BY <1>3, <1>7 DEF SetsLinked
<1>11. ops' \in [Containers -> 0 .. MaxOps]
  <2>1. ops \in [Containers -> 0 .. MaxOps]
    BY DEF TypeOK
  <2>2. ops[c] + 1 \in 0 .. MaxOps
    BY <1>1, <2>1, LimitAssumption
  <2> QED BY <1>1, <2>1, <2>2
<1>12. /\ baseSet'.values \in Seq(CountType)
       /\ \A d \in Containers : store'[d].values \in Seq(Handles)
  BY <1>7, <1>9 DEF SetsTyped, SetsOf
<1>13. panicked' \in BOOLEAN
  BY <1>1 DEF HandleAdded
<1> QED BY <1>8, <1>9, <1>10, <1>11, <1>12, <1>13

(* A container loses h, and the base set counts it down. *)
LEMMA DestroyKeeps ==
  ASSUME IInv, ~panicked, NEW h \in Handles, NEW c \in Containers, DestroyObject(h, c)
  PROVE  IInv'
<1> USE DEF IInv
<1>1. /\ baseSet \in SetsOf(CountType) /\ Linked(baseSet)
      /\ store \in [Containers -> SetsOf(Handles)]
      /\ store[c] \in SetsOf(Handles) /\ Linked(store[c]) /\ store[c].values = store[c].handles
      /\ Exists(store[c], h) /\ Exists(baseSet, h) /\ ops[c] < MaxOps
      /\ store' = [store EXCEPT ![c] = Removed(store[c], h)]
      /\ ops' = [ops EXCEPT ![c] = ops[c] + 1]
      /\ baseSet' = Written(baseSet, h, Get(baseSet, h) - 1)
      /\ panicked' = FALSE /\ UNCHANGED refs
  BY DEF SetsTyped, SetsLinked, DestroyObject, HandleRemoved, CountsMatch
<1>2. \A g \in Handles : Exists(store'[c], g) <=> Exists(store[c], g) /\ g # h
  BY <1>1, RemovedFinds
<1>3. /\ store'[c] \in SetsOf(Handles) /\ Linked(store'[c])
      /\ store'[c].values = store'[c].handles
      /\ \A d \in Containers \ {c} : store'[d] = store[d]
  <2>1. store'[c] = Removed(store[c], h) /\ \A d \in Containers \ {c} : store'[d] = store[d]
    BY <1>1
  <2>2. Removed(store[c], h).values = Removed(store[c], h).handles
    BY <1>1 DEF Removed
  <2> QED BY <1>1, <2>1, <2>2, RemovedLinked
<1>4. /\ Holders(h) \in SUBSET Containers /\ c \in Holders(h)
      /\ Get(baseSet, h) = Cardinality(Holders(h))
  BY <1>1 DEF Holders, CountsMatch
<1>5. /\ Holders(h)' = Holders(h) \ {c}
      /\ \A g \in Handles \ {h} : Holders(g)' = Holders(g)
  <2>1. \A g \in Handles, d \in Containers :
          Exists(store'[d], g) <=> Exists(store[d], g) /\ ~(g = h /\ d = c)
    BY <1>2, <1>3
  <2> QED BY <2>1 DEF Holders
<1>6. /\ Get(baseSet, h) - 1 \in CountType
      /\ Cardinality(Holders(h)') = Get(baseSet, h) - 1
  <2>1. Holders(h)' \in SUBSET Containers
    BY <1>4, <1>5
  <2>2. Cardinality(Holders(h)') \in CountType
    BY <2>1, ContainersFacts
  <2>3. Cardinality(Holders(h) \ {c}) = Cardinality(Holders(h)) - 1
    BY <1>4, ContainersFacts
  <2> QED BY <1>4, <1>5, <2>2, <2>3
<1>7. /\ baseSet' \in SetsOf(CountType) /\ Linked(baseSet')
      /\ \A g \in Handles :
           /\ Exists(baseSet', g) <=> Exists(baseSet, g)
           /\ Exists(baseSet, g) =>
                Get(baseSet', g) = IF g = h THEN Get(baseSet, h) - 1 ELSE Get(baseSet, g)
  BY <1>1, <1>6, WrittenLinked, WrittenFinds
<1>8. CountsMatch'
  <2>1. ASSUME NEW g \in Handles, Exists(baseSet', g)
        PROVE  Get(baseSet', g) = Cardinality(Holders(g)')
    <3>1. CASE g = h
      BY <1>6, <1>7, <2>1, <3>1
    <3>2. CASE g # h
      BY <1>5, <1>7, <2>1, <3>2 DEF CountsMatch, Holders
    <3> QED BY <3>1, <3>2
  <2>2. \A g \in Handles, d \in Containers : Exists(store'[d], g) => Exists(baseSet', g)
    BY <1>2, <1>3, <1>7 DEF CountsMatch
  <2> QED BY <2>1, <2>2 DEF CountsMatch, Holders
<1>9. SetsTyped'
  <2>1. Removed(store[c], h) \in SetsOf(Handles)
    BY <1>1, RemovedLinked
  <2> QED BY <1>1, <1>7, <2>1 DEF SetsTyped
<1>10. SetsLinked'
  BY <1>3, <1>7 DEF SetsLinked
<1>11. ops' \in [Containers -> 0 .. MaxOps]
  <2>1. ops \in [Containers -> 0 .. MaxOps]
    BY DEF TypeOK
  <2>2. ops[c] + 1 \in 0 .. MaxOps
    BY <1>1, <2>1, LimitAssumption
  <2> QED BY <1>1, <2>1, <2>2
<1>12. /\ baseSet'.values \in Seq(CountType)
       /\ \A d \in Containers : store'[d].values \in Seq(Handles)
  BY <1>7, <1>9 DEF SetsTyped, SetsOf
<1>13. TypeOK'
  BY <1>1, <1>11, <1>12 DEF TypeOK, CountType
<1> QED BY <1>8, <1>9, <1>10, <1>13

-----------------------------------------------------------------------------

LEMMA Inductive == IInv /\ [Next]_vars => IInv'
<1> SUFFICES ASSUME IInv, [Next]_vars
             PROVE  IInv'
  OBVIOUS
<1>1. ASSUME ~panicked, NEW h \in Entities, NEW c \in Containers, AddComponent(h, c)
      PROVE  IInv'
  <2>1. Add(h, c) /\ refs' = refs
    BY <1>1 DEF AddComponent
  <2> QED BY <1>1, <2>1, AddKeeps DEF IInv, TypeOK, CountType
<1>2. ASSUME ~panicked, NEW h \in Entities, NEW c \in Containers, LuaAddComponent(h, c)
      PROVE  IInv'
  <2>0. h \in Handles
    BY GenerationAssumption, SizeAssumption
       DEF Entities, NullHandle, Handle, Handles, Indices, GenerationType
  <2>1. CASE IsFree(store[c], h.index)
    <3>1. /\ Add(h, c)
          /\ \/ refs' = refs
             \/ refs' = refs \cup
               {[container |-> c, handle |-> h, stateCount |-> ops'[c] % OpLimit, ptr |-> "handle"]}
      BY <1>2, <2>1 DEF LuaAddComponent
    <3>2. ops'[c] \in 0 .. MaxOps
      BY <1>2, <3>1, AddKeeps
    <3>3. ops'[c] % OpLimit \in 0 .. OpLimit - 1
      BY <3>2, LimitAssumption
    <3>4. refs' \in SUBSET References
      BY <2>0, <3>1, <3>3 DEF IInv, TypeOK, References
    <3> QED BY <1>2, <3>1, <3>4, AddKeeps DEF IInv, TypeOK, CountType
  <2>2. CASE ~IsFree(store[c], h.index)
    <3>1. panicked' = TRUE /\ UNCHANGED <<baseSet, store, ops, refs>>
      BY <1>2, <2>2 DEF LuaAddComponent, Add
    <3> QED BY <1>2, <3>1 DEF IInv, TypeOK, SetsTyped, SetsLinked, CountsMatch
  <2> QED BY <2>1, <2>2
<1>3. ASSUME ~panicked, NEW r \in refs, UseRef(r)
      PROVE  IInv'
  <2> DEFINE dead == \/ Stale(r) /\ ~Exists(store[r.container], r.handle)
                     \/ ~Exists(store[r.container], Resolved(r))
  <2>0. /\ UNCHANGED <<baseSet, store, ops>> /\ panicked' = dead
        /\ refs' = IF Stale(r) /\ ~dead THEN (refs \ {r}) \cup {[r EXCEPT !.ptr = "entry"]} ELSE refs
    BY <1>3 DEF UseRef
  <2>1. /\ UNCHANGED <<baseSet, store, ops>> /\ panicked' \in BOOLEAN
        /\ refs' = refs \/ refs' = (refs \ {r}) \cup {[r EXCEPT !.ptr = "entry"]}
    <3>1. dead \in BOOLEAN
      OBVIOUS
    <3> HIDE DEF dead
    <3> QED BY <2>0, <3>1
  <2>2. refs' \in SUBSET References
    <3>1. refs \in SUBSET References
      BY DEF IInv, TypeOK
    <3>2. [r EXCEPT !.ptr = "entry"] \in References
      BY <3>1 DEF References
    <3> QED BY <2>1, <3>1, <3>2
  <2> QED BY <1>3, <2>1, <2>2 DEF IInv, TypeOK, SetsTyped, SetsLinked, CountsMatch
<1>4. CASE UNCHANGED vars
  BY <1>4 DEF vars, IInv, TypeOK, SetsTyped, SetsLinked, CountsMatch
<1> QED BY <1>1, <1>2, <1>3, <1>4, CreateEntityKeeps, DestroyKeeps DEF Next

THEOREM Invariance == Spec => []IInv
BY InitHolds, Inductive, PTL DEF Spec

(* The counts, the operations and the references keep their types: a count *)
(* is never negative and never above the number of containers.             *)
THEOREM TypeCorrect == Spec => []TypeOK
BY Invariance, PTL DEF IInv

(* Registered containers and the base set stay linked through each other's *)
(* reports, and each object lies under its owner's handle.                 *)
THEOREM LinksKept == Spec => []SetsLinked
BY Invariance, PTL DEF IInv

(* containersCount is right whatever is created, added and destroyed, also  *)
(* under a handle that was never created, so onHandleRemoved always finds   *)
(* the record it counts down; only the null handle can stop the listener.   *)
THEOREM CountsAreRight == Spec => []CountsMatch
BY Invariance, PTL DEF IInv

=============================================================================
