----------------------------- MODULE EcsRegistry -----------------------------
(***************************************************************************)
(* Entities, the containers their components live in, and the references   *)
(* scripts hold to components.  The registry's base set holds, for each    *)
(* entity, the number of containers it has been added to; every registered *)
(* container reports what it adds and removes.  The containers modelled    *)
(* are SparseMultiSets, like the scene's.                                  *)
(***************************************************************************)
EXTENDS SparseSetOps, FiniteSets

CONSTANTS
  Containers,   \* the registered containers
  OpLimit,      \* opCount is counted modulo this: 2^32
  MaxOps        \* bound on the operations on one container

ASSUME ContainersAssumption == IsFiniteSet(Containers)
ASSUME LimitAssumption == OpLimit \in Nat \ {0} /\ MaxOps \in Nat

VARIABLES
  baseSet,      \* the entities, each with its containersCount
  store,        \* store[c]: the set behind container c; an object is its owner's handle
  ops,          \* operations on c so far; its opCount is this modulo OpLimit
  refs,         \* the component references scripts hold
  panicked      \* the program has stopped at a failed unwrap

vars == <<baseSet, store, ops, refs, panicked>>

opCount(c) == ops[c] % OpLimit

Init ==
  /\ baseSet = EmptySet
  /\ store = [c \in Containers |-> EmptySet]
  /\ ops = [c \in Containers |-> 0]
  /\ refs = {}
  /\ panicked = FALSE

CreateEntity(i) ==
  /\ IsFree(baseSet, i)
  /\ baseSet' = Put(baseSet, NextHandle(baseSet, i), 0)
  /\ UNCHANGED <<store, ops, refs, panicked>>

(* The handles the program adds components under: those of its entities,   *)
(* and the null handle that getParent returns for an object at a root.      *)
NullHandle == Handle(0, 0)
Entities == {h \in Handles : Exists(baseSet, h)} \cup {NullHandle}

(* Mutant: a handle the registry does not know is not counted. *)
HandleAddedUncounted(h) ==
  /\ panicked' = (~Exists(baseSet, h) /\ ~IsFree(baseSet, h.index))
  /\ baseSet' = IF Exists(baseSet, h) THEN Written(baseSet, h, Get(baseSet, h) + 1)
                ELSE IF panicked' THEN baseSet
                ELSE Put(baseSet, h, 0)

(* onHandleAdded: an entity is counted once more; a handle the registry     *)
(* does not know becomes an entity, unless its index is another entity's:   *)
(* createWithHandle then fails, which the listener takes to be unreachable. *)
HandleAdded(h) ==
  /\ panicked' = (~Exists(baseSet, h) /\ ~IsFree(baseSet, h.index))
  /\ baseSet' = IF Exists(baseSet, h) THEN Written(baseSet, h, Get(baseSet, h) + 1)
                ELSE IF panicked' THEN baseSet
                ELSE Put(baseSet, h, 1)

(* onHandleRemoved unwraps the entity's record. *)
HandleRemoved(h) ==
  /\ panicked' = ~Exists(baseSet, h)
  /\ baseSet' = IF panicked' THEN baseSet ELSE Written(baseSet, h, Get(baseSet, h) - 1)

(* Mutant: an entity is reported as added before it is known to be new. *)
AddReportsFirst(h, c) ==
  /\ HandleAdded(h)
  /\ \/ /\ IsFree(store[c], h.index)
        /\ ops[c] < MaxOps
        /\ store' = [store EXCEPT ![c] = Put(@, h, h)]
        /\ ops' = [ops EXCEPT ![c] = @ + 1]
     \/ /\ ~IsFree(store[c], h.index)
        /\ UNCHANGED <<store, ops>>

(* createWithHandle on a container: error.ObjectAlreadyExists, and so null, *)
(* for an index that is taken there.                                        *)
Add(h, c) ==
  /\ IsFree(store[c], h.index)
  /\ ops[c] < MaxOps
  /\ store' = [store EXCEPT ![c] = Put(@, h, h)]
  /\ ops' = [ops EXCEPT ![c] = @ + 1]
  /\ HandleAdded(h)

AddComponent(h, c) == Add(h, c) /\ UNCHANGED refs

(* From a script: adding twice panics, else a reference is made that holds  *)
(* a handle of its own and points at it.                                    *)
LuaAddComponent(h, c) ==
  \/ /\ Add(h, c)
     /\ refs' = IF panicked' THEN refs ELSE refs \cup
          {[container |-> c, handle |-> h, stateCount |-> ops'[c] % OpLimit, ptr |-> "handle"]}
  \/ /\ ~IsFree(store[c], h.index)
     /\ panicked' = TRUE
     /\ UNCHANGED <<baseSet, store, ops, refs>>

DestroyObject(h, c) ==
  /\ Exists(store[c], h)
  /\ ops[c] < MaxOps
  /\ store' = [store EXCEPT ![c] = Removed(@, h)]
  /\ ops' = [ops EXCEPT ![c] = @ + 1]
  /\ HandleRemoved(h)
  /\ UNCHANGED refs

(* getHandleRef of a multi-set: the sparse entry itself, whose index is a   *)
(* dense position.                                                          *)
EntryOf(h, c) == LET e == store[c].sparse[h.index] IN Handle(e.index, e.generation)

(* The handle a script's call gets to work with: resolve looks it up again  *)
(* whenever the container has changed since the reference was made, and     *)
(* never again holds the count it was made with.                            *)
Stale(r) == r.stateCount # opCount(r.container)
Resolved(r) ==
  IF Stale(r) \/ r.ptr = "entry" THEN EntryOf(r.handle, r.container) ELSE r.handle

(* A call through a reference; its unwraps fail for a handle that is dead.  *)
UseRef(r) ==
  LET dead == \/ Stale(r) /\ ~Exists(store[r.container], r.handle)
              \/ ~Exists(store[r.container], Resolved(r))
  IN /\ panicked' = dead
     /\ refs' = IF Stale(r) /\ ~dead THEN (refs \ {r}) \cup {[r EXCEPT !.ptr = "entry"]} ELSE refs
     /\ UNCHANGED <<baseSet, store, ops>>

Next ==
  /\ ~panicked
  /\ \/ \E i \in Indices : CreateEntity(i)
     \/ \E h \in Entities, c \in Containers : AddComponent(h, c) \/ LuaAddComponent(h, c)
     \/ \E h \in Handles, c \in Containers : DestroyObject(h, c)
     \/ \E r \in refs : UseRef(r)

Spec == Init /\ [][Next]_vars

-----------------------------------------------------------------------------

References ==
  [container : Containers, handle : Handles, stateCount : 0 .. OpLimit - 1, ptr : {"handle", "entry"}]

(* Types of the registry's and the containers' state. *)
TypeOK ==
  /\ baseSet.values \in Seq(0 .. Cardinality(Containers))
  /\ \A c \in Containers : store[c].values \in Seq(Handles)
  /\ ops \in [Containers -> 0 .. MaxOps]
  /\ refs \in SUBSET References
  /\ panicked \in BOOLEAN

(* The containers and the base set keep their arrays linked, and an object  *)
(* lies under its owner's handle.                                           *)
SetsLinked ==
  /\ Linked(baseSet)
  /\ \A c \in Containers : Linked(store[c]) /\ store[c].values = store[c].handles

(* containersCount of an entity is the number of containers that hold it,   *)
(* whoever made the entity: createEntity, or the listener for a handle that *)
(* was never created.  And no container holds what the registry does not    *)
(* know, so onHandleRemoved always finds the record it counts down; all     *)
(* that can be held unknown is the null handle, when the listener stopped   *)
(* the program because an entity of its index was there before it.          *)
CountsMatch ==
  /\ \A h \in Handles : Exists(baseSet, h) =>
       Get(baseSet, h) = Cardinality({c \in Containers : Exists(store[c], h)})
  /\ \A h \in Handles, c \in Containers :
       Exists(store[c], h) => Exists(baseSet, h) \/ (panicked /\ h = NullHandle)

(* "the pointer type shall be a pointer to the set handle": while a         *)
(* component exists, a call through a reference to it gets its entity's     *)
(* handle.                                                                  *)
RefsNameTheirEntity ==
  \A r \in refs : Exists(store[r.container], r.handle) => Resolved(r) = r.handle

=============================================================================
