------------------------------ MODULE SparseSet ------------------------------
(***************************************************************************)
(* SparseMultiSet: the container behind the scene and the renderer.  Its   *)
(* users create objects at indices it picks, or under a handle another set *)
(* has issued, write through handles that may be stale, and destroy.       *)
(***************************************************************************)
EXTENDS SparseSetOps

CONSTANTS
  Values,       \* what an object holds
  Foreign,      \* handles other sets have issued (entities)
  MaxCreates    \* bound on the calls of createObject that pick one index

ASSUME ForeignAssumption == Foreign \subseteq Handles
ASSUME BoundAssumption == MaxCreates \in Nat

VARIABLES
  set,
  issued    \* history: issued[i] lists the generations createObject gave index i

vars == <<set, issued>>

Init ==
  /\ set = EmptySet
  /\ issued = [i \in Indices |-> <<>>]

(* newRandomIndex is drawn until it falls on a free index. *)
CreateObject(i, v) ==
  /\ Len(issued[i]) < MaxCreates
  /\ IsFree(set, i)
  /\ set' = Put(set, NextHandle(set, i), v)
  /\ issued' = [issued EXCEPT ![i] = Append(@, NextHandle(set, i).generation)]

(* Mutant: an index that is alive is not refused. *)
CreateOver(h, v) ==
  /\ Len(set.handles) < NumIndices
  /\ set' = Put(set, h, v)
  /\ UNCHANGED issued

(* error.ObjectAlreadyExists when the index is alive, and nothing changes. *)
CreateWithHandle(h, v) ==
  /\ IsFree(set, h.index)
  /\ set' = Put(set, h, v)
  /\ UNCHANGED issued

(* get returns a pointer to write through, or null for a dead handle. *)
WriteObject(h, v) ==
  /\ Exists(set, h)
  /\ set' = Written(set, h, v)
  /\ UNCHANGED issued

DestroyObject(h) ==
  /\ Exists(set, h)
  /\ set' = Removed(set, h)
  /\ UNCHANGED issued

Next ==
  \/ \E i \in Indices, v \in Values : CreateObject(i, v)
  \/ \E h \in Foreign, v \in Values : CreateWithHandle(h, v)
  \/ \E h \in Handles : DestroyObject(h) \/ \E v \in Values : WriteObject(h, v)

Spec == Init /\ [][Next]_vars

-----------------------------------------------------------------------------

Sets == SetsOf(Values)

(* Types of the arrays, and of the generations issued. *)
TypeOK ==
  /\ set \in Sets
  /\ issued \in [Indices -> Seq(GenerationType)]

(* The arrays of the set name each other: an entry that is alive points at  *)
(* the dense position that bears its own handle, every dense position is    *)
(* pointed at, and both dense arrays are equally long.                      *)
CrossLinked == Linked(set)

(* "Generation mismatch, this handle is totally dead": a handle createObject *)
(* issued is dead once its index has been given out again, save after a      *)
(* whole cycle of generations, provided nobody forces a handle on the index. *)
StaleHandlesAreDead ==
  \A i \in Indices : (\A h \in Foreign : h.index # i) =>
    \A k \in 1 .. Len(issued[i]) :
      Exists(set, Handle(i, issued[i][k])) => (Len(issued[i]) - k) % Generations = 0

(* What can be found in a set: the value under each handle that is alive. *)
Objects(s) == [h \in {g \in Handles : Exists(s, g)} |-> Get(s, h)]

Map == INSTANCE HandleMap WITH objects <- Objects(set)

(* "Constant time random access to a range of objects through stable        *)
(* handles": whatever is swapped underneath, a handle keeps leading to its  *)
(* own object until that object is destroyed.                               *)
RefinesHandleMap == Map!Spec

=============================================================================
