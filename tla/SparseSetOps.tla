---------------------------- MODULE SparseSetOps ----------------------------
(***************************************************************************)
(* The sparse sets of lib/p2 as a value: `sparse` says where the object of *)
(* each index lies, `handles` and `values` are the dense arrays            *)
(* (denseIndices and dense of SparseMultiSet; the dense pairs of           *)
(* SparseSet).  Dense positions are counted from 0, as in the code.        *)
(***************************************************************************)
EXTENDS Integers, Sequences

CONSTANTS
  NumIndices,   \* SparseSize
  Generations   \* maxInt(GenerationType), 127

ASSUME SizeAssumption == NumIndices \in Nat \ {0}
ASSUME GenerationAssumption == Generations \in Nat \ {0, 1}

Indices == 0 .. NumIndices - 1
GenerationType == 0 .. Generations - 1

(* A handle somebody holds; the alive bit of such a handle is never read. *)
Handles == [index : Indices, generation : GenerationType]

Handle(i, g) == [index |-> i, generation |-> g]

(* An entry of the sparse array: its index is a dense position. *)
Entry(d, g, a) == [index |-> d, generation |-> g, alive |-> a]

EmptySet ==
  [sparse |-> [i \in Indices |-> Entry(0, 0, FALSE)], handles |-> <<>>, values |-> <<>>]

(* sparseToDense finds a position. *)
Exists(set, h) ==
  LET e == set.sparse[h.index]
  IN e.generation = h.generation /\ e.alive /\ e.index < Len(set.handles)

Get(set, h) == set.values[set.sparse[h.index].index + 1]

IsFree(set, i) == ~set.sparse[i].alive

(* Mutant: the generation of a reused index stays what it was. *)
SameGeneration(set, i) == Handle(i, set.sparse[i].generation)

(* Mutant: the generation is not taken modulo the number of generations. *)
NextHandleUnwrapped(set, i) == Handle(i, set.sparse[i].generation + 1)

(* The handle createObject makes for the free index i. *)
NextHandle(set, i) == Handle(i, (set.sparse[i].generation + 1) % Generations)

Put(set, h, v) ==
  [sparse |-> [set.sparse EXCEPT ![h.index] = Entry(Len(set.handles), h.generation, TRUE)],
   handles |-> Append(set.handles, h),
   values |-> Append(set.values, v)]

Written(set, h, v) ==
  LET position == set.sparse[h.index].index + 1
  IN [set EXCEPT !.values = [@ EXCEPT ![position] = v]]

(* swapRemove of the position d: the last item takes its place. *)
SwapRemoved(s, d) == [n \in 1 .. Len(s) - 1 |-> IF n = d + 1 THEN s[Len(s)] ELSE s[n]]

(* Mutant: the swapped object's sparse entry is not redirected. *)
RemovedUnredirected(set, h) ==
  LET d == set.sparse[h.index].index
  IN [sparse |-> [set.sparse EXCEPT ![h.index].alive = FALSE],
      handles |-> SwapRemoved(set.handles, d),
      values |-> SwapRemoved(set.values, d)]

(* Swap and remove: the last object moves to the freed position, its sparse *)
(* entry follows it, and the entry of the removed index becomes a tombstone.*)
Removed(set, h) ==
  LET d == set.sparse[h.index].index
      last == set.handles[Len(set.values)]
  IN [sparse |-> [set.sparse EXCEPT ![last.index].index = d, ![h.index].alive = FALSE],
      handles |-> SwapRemoved(set.handles, d),
      values |-> SwapRemoved(set.values, d)]

-----------------------------------------------------------------------------

(* The sets whose objects are in V. *)
SetsOf(V) ==
  [sparse : [Indices -> [index : Nat, generation : GenerationType, alive : BOOLEAN]],
   handles : Seq(Handles),
   values : Seq(V)]

(* What every operation relies on and keeps: see CrossLinked in SparseSet. *)
Linked(set) ==
  /\ Len(set.handles) = Len(set.values)
  /\ \A i \in Indices : set.sparse[i].alive =>
       /\ set.sparse[i].index < Len(set.handles)
       /\ set.handles[set.sparse[i].index + 1] = Handle(i, set.sparse[i].generation)
  /\ \A k \in 1 .. Len(set.handles) :
       LET e == set.sparse[set.handles[k].index]
       IN e.alive /\ e.index + 1 = k

=============================================================================
