-------------------------- MODULE SparseSetOpsProofs --------------------------
(***************************************************************************)
(* What the operations of a sparse set keep and do, for every size, number *)
(* of generations and set V of values.                                     *)
(***************************************************************************)
EXTENDS SparseSetOps, TLAPS

(* Swap and remove shortens a sequence by one, and moves its last item to   *)
(* the position it frees.                                                   *)
LEMMA SwapRemovedLemma ==
  ASSUME NEW X, NEW s \in Seq(X), NEW d \in Nat, d < Len(s)
  PROVE  /\ SwapRemoved(s, d) \in Seq(X)
         /\ Len(SwapRemoved(s, d)) = Len(s) - 1
         /\ \A n \in 1 .. Len(s) - 1 :
              SwapRemoved(s, d)[n] = IF n = d + 1 THEN s[Len(s)] ELSE s[n]
<1>1. Len(s) - 1 \in Nat /\ Len(s) \in 1 .. Len(s)
  OBVIOUS
<1>2. \A n \in 1 .. Len(s) - 1 : (IF n = d + 1 THEN s[Len(s)] ELSE s[n]) \in X
  BY <1>1
<1>3. SwapRemoved(s, d) \in [1 .. Len(s) - 1 -> X]
  BY <1>2 DEF SwapRemoved
<1>4. SwapRemoved(s, d) \in Seq(X) /\ Len(SwapRemoved(s, d)) = Len(s) - 1
  BY <1>1, <1>3
<1> QED BY <1>4 DEF SwapRemoved

(* A dense position bears a handle. *)
LEMMA DenseLemma ==
  ASSUME NEW V, NEW s \in SetsOf(V), NEW k \in 1 .. Len(s.handles)
  PROVE  s.handles[k] \in Handles /\ s.handles[k].index \in Indices
<1>1. s.handles[k] \in Handles
  BY DEF SetsOf
<1> QED BY <1>1 DEF Handles

(* The entry that a handle in use leads to, and the handle that lies there. *)
LEMMA ExistsLemma ==
  ASSUME NEW V, NEW s \in SetsOf(V), Linked(s), NEW h \in Handles, Exists(s, h)
  PROVE  /\ s.sparse[h.index].index \in Nat
         /\ s.sparse[h.index].index < Len(s.handles)
         /\ s.sparse[h.index].alive
         /\ s.handles[s.sparse[h.index].index + 1] = h
<1>1. h = Handle(h.index, h.generation) /\ h.index \in Indices
  BY DEF Handles, Handle
<1> QED BY <1>1 DEF Exists, Linked, SetsOf

-----------------------------------------------------------------------------
(* Types and links, operation by operation. *)

(* An empty set is linked. *)
LEMMA EmptyLinked ==
  ASSUME NEW V
  PROVE  EmptySet \in SetsOf(V) /\ Linked(EmptySet)
<1>1. 0 \in GenerationType
  BY GenerationAssumption DEF GenerationType
<1> QED BY <1>1 DEF EmptySet, Entry, SetsOf, Linked

(* Put describes the set after an object is created at a free index. *)
LEMMA PutLinked ==
  ASSUME NEW V, NEW s \in SetsOf(V), Linked(s), NEW h \in Handles, NEW v \in V,
         IsFree(s, h.index)
  PROVE  Put(s, h, v) \in SetsOf(V) /\ Linked(Put(s, h, v))
<1> DEFINE t == Put(s, h, v)
<1>1. /\ h.index \in Indices /\ h.generation \in GenerationType
      /\ h = Handle(h.index, h.generation)
  BY DEF Handles, Handle
<1>2. /\ t.sparse = [s.sparse EXCEPT ![h.index] = Entry(Len(s.handles), h.generation, TRUE)]
      /\ t.handles = Append(s.handles, h)
      /\ t.values = Append(s.values, v)
  BY DEF Put
<1>3. t \in SetsOf(V)
  <2>1. [s.sparse EXCEPT ![h.index] = Entry(Len(s.handles), h.generation, TRUE)]
          \in [Indices -> [index : Nat, generation : GenerationType, alive : BOOLEAN]]
    BY <1>1 DEF SetsOf, Entry
  <2>2. Append(s.handles, h) \in Seq(Handles) /\ Append(s.values, v) \in Seq(V)
    BY DEF SetsOf
  <2> QED BY <2>1, <2>2 DEF Put, SetsOf
<1>4. Len(t.handles) = Len(s.handles) + 1 /\ Len(t.handles) = Len(t.values)
  BY <1>2 DEF Linked, SetsOf
<1>5. ASSUME NEW i \in Indices, t.sparse[i].alive
      PROVE  /\ t.sparse[i].index < Len(t.handles)
             /\ t.handles[t.sparse[i].index + 1] = Handle(i, t.sparse[i].generation)
  <2>1. CASE i = h.index
    BY <2>1, <1>1, <1>2, <1>4 DEF SetsOf, Entry
  <2>2. CASE i # h.index
    <3>1. t.sparse[i] = s.sparse[i] /\ s.sparse[i].index \in Nat
      BY <2>2, <1>1, <1>2 DEF SetsOf
    <3>2. s.sparse[i].index < Len(s.handles)
      BY <3>1, <1>5 DEF Linked
    <3>3. t.handles[s.sparse[i].index + 1] = s.handles[s.sparse[i].index + 1]
      BY <3>1, <3>2, <1>2 DEF SetsOf
    <3> QED BY <3>1, <3>2, <3>3, <1>4, <1>5 DEF Linked, SetsOf
  <2> QED BY <2>1, <2>2
<1>6. ASSUME NEW k \in 1 .. Len(t.handles)
      PROVE  /\ t.sparse[t.handles[k].index].alive
             /\ t.sparse[t.handles[k].index].index + 1 = k
  <2>1. CASE k = Len(s.handles) + 1
    BY <2>1, <1>1, <1>2, <1>4 DEF SetsOf, Entry
  <2>2. CASE k # Len(s.handles) + 1
    <3>1. k \in 1 .. Len(s.handles) /\ t.handles[k] = s.handles[k]
      BY <2>2, <1>2, <1>4 DEF SetsOf
    <3>2. s.handles[k].index \in Indices /\ s.handles[k].index # h.index
      <4>1. s.handles[k] \in Handles
        BY <3>1 DEF SetsOf
      <4>2. s.sparse[s.handles[k].index].alive
        BY <3>1 DEF Linked
      <4> QED BY <4>1, <4>2 DEF Handles, IsFree
    <3>3. t.sparse[t.handles[k].index] = s.sparse[s.handles[k].index]
      BY <3>1, <3>2, <1>2 DEF SetsOf
    <3> QED BY <3>1, <3>3 DEF Linked
  <2> QED BY <2>1, <2>2
<1> QED BY <1>3, <1>4, <1>5, <1>6 DEF Linked

(* Writing to an object moves nothing. *)
LEMMA WrittenLinked ==
  ASSUME NEW V, NEW s \in SetsOf(V), Linked(s), NEW h \in Handles, NEW v \in V, Exists(s, h)
  PROVE  Written(s, h, v) \in SetsOf(V) /\ Linked(Written(s, h, v))
<1> DEFINE t == Written(s, h, v)
           n == s.sparse[h.index].index + 1
<1>1. n \in 1 .. Len(s.values)
  BY ExistsLemma DEF Linked, SetsOf
<1>2. /\ t.sparse = s.sparse /\ t.handles = s.handles
      /\ t.values = [s.values EXCEPT ![n] = v]
      /\ t = [s EXCEPT !.values = t.values]
  BY DEF Written, SetsOf
<1>3. t.values \in Seq(V) /\ Len(t.values) = Len(s.values)
  BY <1>1, <1>2 DEF SetsOf
<1> HIDE DEF t
<1>4. t \in SetsOf(V)
  BY <1>2, <1>3 DEF SetsOf
<1>5. Linked(t)
  BY <1>2, <1>3 DEF Linked
<1> QED BY <1>4, <1>5 DEF t

(* Swap and remove keeps the links: of the object removed and of the one    *)
(* that takes its place, which may be the same.                             *)
LEMMA RemovedLinked ==
  ASSUME NEW V, NEW s \in SetsOf(V), Linked(s), NEW h \in Handles, Exists(s, h)
  PROVE  Removed(s, h) \in SetsOf(V) /\ Linked(Removed(s, h))
<1> DEFINE t == Removed(s, h)
           d == s.sparse[h.index].index
           n == Len(s.handles)
           last == s.handles[n]
<1>1. /\ d \in Nat /\ d < n /\ n \in Nat /\ n \in 1 .. n
      /\ s.sparse[h.index].alive
      /\ s.handles[d + 1] = h
      /\ Len(s.values) = n
  <2>1. n \in Nat /\ Len(s.values) = n
    BY DEF Linked, SetsOf
  <2>2. d \in Nat /\ d < n /\ s.sparse[h.index].alive /\ s.handles[d + 1] = h
    BY ExistsLemma
  <2> QED BY <2>1, <2>2
<1>2. h.index \in Indices /\ last \in Handles /\ last.index \in Indices
  <2>1. h.index \in Indices
    BY DEF Handles
  <2> QED BY <1>1, <2>1, DenseLemma
<1>3. s.sparse[last.index].alive /\ s.sparse[last.index].index + 1 = n
  BY <1>1 DEF Linked
<1>4. last = Handle(last.index, s.sparse[last.index].generation)
  BY <1>1, <1>2, <1>3 DEF Linked, SetsOf
<1>5. /\ t.sparse = [s.sparse EXCEPT ![last.index].index = d, ![h.index].alive = FALSE]
      /\ t.handles = SwapRemoved(s.handles, d)
      /\ t.values = SwapRemoved(s.values, d)
      /\ t = [sparse |-> t.sparse, handles |-> t.handles, values |-> t.values]
  BY <1>1 DEF Removed
<1> HIDE DEF t, d, n, last
<1>6. /\ t.handles \in Seq(Handles) /\ Len(t.handles) = n - 1
      /\ \A k \in 1 .. n - 1 : t.handles[k] = IF k = d + 1 THEN last ELSE s.handles[k]
  BY <1>1, <1>5, SwapRemovedLemma DEF SetsOf, n, last
<1>7. t.values \in Seq(V) /\ Len(t.values) = n - 1
  BY <1>1, <1>5, SwapRemovedLemma DEF SetsOf
<1>8. \A i \in Indices :
        /\ t.sparse[i].alive <=> s.sparse[i].alive /\ i # h.index
        /\ t.sparse[i].generation = s.sparse[i].generation
        /\ t.sparse[i].index = IF i = last.index THEN d ELSE s.sparse[i].index
  BY <1>2, <1>5 DEF SetsOf
<1>9. t.sparse \in [Indices -> [index : Nat, generation : GenerationType, alive : BOOLEAN]]
  <2> DEFINE Entries == [index : Nat, generation : GenerationType, alive : BOOLEAN]
             moved == [s.sparse EXCEPT ![last.index].index = d]
  <2>1. s.sparse \in [Indices -> Entries]
    BY DEF SetsOf
  <2>2. \A i \in Indices : [s.sparse[i] EXCEPT !.index = d] \in Entries
    BY <1>1, <2>1
  <2>3. moved \in [Indices -> Entries]
    BY <1>2, <2>1, <2>2
  <2>4. t.sparse = [moved EXCEPT ![h.index].alive = FALSE]
    BY <1>5
  <2>5. \A i \in Indices : [moved[i] EXCEPT !.alive = FALSE] \in Entries
    BY <2>3
  <2> HIDE DEF moved
  <2> QED BY <1>2, <2>3, <2>4, <2>5
<1>10. t \in SetsOf(V)
  <2>1. [sparse |-> t.sparse, handles |-> t.handles, values |-> t.values] \in SetsOf(V)
    BY <1>6, <1>7, <1>9 DEF SetsOf
  <2> QED BY <2>1, <1>5
<1>11. last.index = h.index <=> d = n - 1
  <2>1. last.index = h.index => d = n - 1
    BY <1>1, <1>3 DEF d
  <2>2. d = n - 1 => last = h
    BY <1>1 DEF last
  <2> QED BY <2>1, <2>2
<1>12. ASSUME NEW i \in Indices, t.sparse[i].alive
       PROVE  /\ t.sparse[i].index < Len(t.handles)
              /\ t.handles[t.sparse[i].index + 1] = Handle(i, t.sparse[i].generation)
  <2>1. s.sparse[i].alive /\ i # h.index
    BY <1>8, <1>12
  <2>2. CASE i = last.index
    <3>1. d < n - 1 /\ t.sparse[i].index = d
      BY <1>1, <1>8, <1>11, <2>1, <2>2
    <3>2. t.handles[d + 1] = last
      BY <1>1, <1>6, <3>1
    <3> QED BY <1>4, <1>6, <1>8, <2>2, <3>1, <3>2
  <2>3. CASE i # last.index
    <3> DEFINE e == s.sparse[i].index
    <3>1. /\ e \in Nat /\ e < n /\ t.sparse[i].index = e
          /\ s.handles[e + 1] = Handle(i, s.sparse[i].generation)
      BY <1>8, <2>1, <2>3 DEF Linked, SetsOf, n
    <3> HIDE DEF e
    <3>2. Handle(i, s.sparse[i].generation).index = i
      BY DEF Handle
    <3>3. e # d /\ e # n - 1
      BY <1>1, <2>1, <2>3, <3>1, <3>2 DEF last
    <3>4. t.handles[e + 1] = s.handles[e + 1] /\ e < n - 1
      BY <1>1, <1>6, <3>1, <3>3
    <3> QED BY <1>6, <1>8, <3>1, <3>4
  <2> QED BY <2>2, <2>3
<1>13. ASSUME NEW k \in 1 .. Len(t.handles)
       PROVE  /\ t.sparse[t.handles[k].index].alive
              /\ t.sparse[t.handles[k].index].index + 1 = k
  <2>1. k \in 1 .. n /\ k # n
    BY <1>1, <1>6
  <2>2. CASE k = d + 1
    <3>1. t.handles[k] = last /\ last.index # h.index
      BY <1>1, <1>6, <1>11, <2>1, <2>2
    <3> QED BY <1>2, <1>3, <1>8, <2>2, <3>1
  <2>3. CASE k # d + 1
    <3> DEFINE g == s.handles[k]
    <3>1. g \in Handles /\ g.index \in Indices
      BY <2>1, DenseLemma DEF n
    <3>2. s.sparse[g.index].alive /\ s.sparse[g.index].index + 1 = k
      BY <2>1 DEF Linked, n
    <3>3. t.handles[k] = g
      BY <1>1, <1>6, <2>1, <2>3
    <3> HIDE DEF g
    <3>4. g.index # h.index /\ g.index # last.index
      BY <1>1, <1>3, <2>1, <2>3, <3>2 DEF d
    <3> QED BY <1>8, <3>1, <3>2, <3>3, <3>4
  <2> QED BY <2>2, <2>3
<1>14. Linked(t)
  BY <1>6, <1>7, <1>12, <1>13 DEF Linked
<1> QED BY <1>10, <1>14 DEF t

(* The next generation is a generation. *)
LEMMA NextHandleLemma ==
  ASSUME NEW V, NEW s \in SetsOf(V), NEW i \in Indices
  PROVE  NextHandle(s, i) \in Handles /\ NextHandle(s, i).index = i
<1>1. s.sparse[i].generation \in 0 .. Generations - 1
  BY DEF SetsOf, GenerationType
<1>2. (s.sparse[i].generation + 1) % Generations \in 0 .. Generations - 1
  BY <1>1, GenerationAssumption
<1> QED BY <1>2 DEF NextHandle, Handle, Handles, GenerationType

-----------------------------------------------------------------------------
(* What each operation does to what can be found. *)

(* Two handles of one index that are both alive are the same handle. *)
LEMMA SameHandle ==
  ASSUME NEW V, NEW s \in SetsOf(V), NEW g \in Handles, NEW h \in Handles,
         Exists(s, g), Exists(s, h), g.index = h.index
  PROVE  g = h
BY DEF Exists, Handles

(* Creating an object makes its handle lead to it, and no other handle      *)
(* lead elsewhere.                                                          *)
LEMMA PutFinds ==
  ASSUME NEW V, NEW s \in SetsOf(V), Linked(s), NEW h \in Handles, NEW v \in V,
         IsFree(s, h.index)
  PROVE  \A g \in Handles :
           /\ Exists(s, g) => g.index # h.index
           /\ Exists(Put(s, h, v), g) <=> Exists(s, g) \/ g = h
           /\ Exists(Put(s, h, v), g) =>
                Get(Put(s, h, v), g) = IF g = h THEN v ELSE Get(s, g)
<1> DEFINE t == Put(s, h, v)
<1>1. /\ t.sparse = [s.sparse EXCEPT ![h.index] = Entry(Len(s.handles), h.generation, TRUE)]
      /\ t.handles = Append(s.handles, h)
      /\ t.values = Append(s.values, v)
  BY DEF Put
<1>2. h.index \in Indices /\ Len(s.values) = Len(s.handles) /\ Len(s.handles) \in Nat
  BY DEF Handles, Linked, SetsOf
<1>3. \A g \in Handles : Exists(s, g) => g.index # h.index
  BY DEF Exists, IsFree
<1> HIDE DEF t
<1>4. Exists(t, h) /\ Get(t, h) = v
  <2>1. t.sparse[h.index] = Entry(Len(s.handles), h.generation, TRUE)
    BY <1>1, <1>2 DEF SetsOf
  <2>2. Len(t.handles) = Len(s.handles) + 1 /\ t.values[Len(s.handles) + 1] = v
    BY <1>1, <1>2 DEF SetsOf
  <2> QED BY <1>2, <2>1, <2>2 DEF Exists, Get, Entry
<1>5. ASSUME NEW g \in Handles, g.index # h.index
      PROVE  /\ Exists(t, g) <=> Exists(s, g)
             /\ Exists(s, g) => Get(t, g) = Get(s, g)
  <2>1. g.index \in Indices
    BY DEF Handles
  <2>2. t.sparse[g.index] = s.sparse[g.index] /\ s.sparse[g.index].index \in Nat
    BY <1>1, <1>2, <1>5, <2>1 DEF SetsOf
  <2>3. s.sparse[g.index].alive => s.sparse[g.index].index < Len(s.handles)
    BY <2>1 DEF Linked
  <2>4. Len(t.handles) = Len(s.handles) + 1
    BY <1>1 DEF SetsOf
  <2>5. Exists(t, g) <=> Exists(s, g)
    BY <1>2, <2>2, <2>3, <2>4 DEF Exists
  <2>6. \A k \in 1 .. Len(s.values) : t.values[k] = s.values[k]
    BY <1>1 DEF SetsOf
  <2>7. Exists(s, g) => s.sparse[g.index].index + 1 \in 1 .. Len(s.values)
    BY <1>2, <2>2 DEF Exists
  <2> QED BY <2>2, <2>5, <2>6, <2>7 DEF Get
<1>6. ASSUME NEW g \in Handles, g.index = h.index, g # h PROVE ~Exists(t, g)
  <2>1. t.sparse[h.index].generation = h.generation
    BY <1>1, <1>2 DEF SetsOf, Entry
  <2>2. g.generation # h.generation
    BY <1>6 DEF Handles
  <2> QED BY <1>6, <2>1, <2>2 DEF Exists
<1>7. \A g \in Handles : Exists(t, g) <=> Exists(s, g) \/ g = h
  BY <1>3, <1>4, <1>5, <1>6
<1> QED BY <1>3, <1>4, <1>5, <1>7 DEF t

(* Writing through a handle changes what that handle leads to, and nothing  *)
(* else: no two handles in use share a dense position.                      *)
LEMMA WrittenFinds ==
  ASSUME NEW V, NEW s \in SetsOf(V), Linked(s), NEW h \in Handles, NEW v \in V, Exists(s, h)
  PROVE  \A g \in Handles :
           /\ Exists(Written(s, h, v), g) <=> Exists(s, g)
           /\ Exists(s, g) => Get(Written(s, h, v), g) = IF g = h THEN v ELSE Get(s, g)
<1> DEFINE t == Written(s, h, v)
           n == s.sparse[h.index].index + 1
<1>1. n \in 1 .. Len(s.values) /\ s.handles[n] = h
  <2> DEFINE e == s.sparse[h.index].index
  <2>1. e \in Nat /\ e < Len(s.handles) /\ s.handles[e + 1] = h
    BY ExistsLemma
  <2>2. Len(s.handles) = Len(s.values) /\ Len(s.handles) \in Nat
    BY DEF Linked, SetsOf
  <2> HIDE DEF e
  <2>3. e + 1 \in 1 .. Len(s.values)
    BY <2>1, <2>2
  <2> QED BY <2>1, <2>3 DEF e
<1>2. /\ t.sparse = s.sparse /\ t.handles = s.handles
      /\ t.values = [s.values EXCEPT ![n] = v]
  BY DEF Written, SetsOf
<1> HIDE DEF t
<1>3. ASSUME NEW g \in Handles
      PROVE  /\ Exists(t, g) <=> Exists(s, g)
             /\ Exists(s, g) => Get(t, g) = IF g = h THEN v ELSE Get(s, g)
  <2>1. Exists(t, g) <=> Exists(s, g)
    BY <1>2 DEF Exists
  <2>2. ASSUME Exists(s, g) PROVE Get(t, g) = IF g = h THEN v ELSE Get(s, g)
    <3> DEFINE e == s.sparse[g.index].index
               k == e + 1
    <3>1. k \in 1 .. Len(s.values) /\ s.handles[k] = g
      <4>1. e \in Nat /\ e < Len(s.handles) /\ s.handles[e + 1] = g
        BY <2>2, ExistsLemma
      <4>2. Len(s.handles) = Len(s.values) /\ Len(s.handles) \in Nat
        BY DEF Linked, SetsOf
      <4> HIDE DEF e
      <4> QED BY <4>1, <4>2
    <3>2. k = n <=> g = h
      BY <1>1, <3>1
    <3>3. t.values[k] = IF k = n THEN v ELSE s.values[k]
      BY <1>1, <1>2, <3>1 DEF SetsOf
    <3> QED BY <1>2, <3>2, <3>3 DEF Get
  <2> QED BY <2>1, <2>2
<1> QED BY <1>3 DEF t

(* Destroying an object takes its handle away, and every other handle still *)
(* leads to its own object, the one that was moved included.                *)
LEMMA RemovedFinds ==
  ASSUME NEW V, NEW s \in SetsOf(V), Linked(s), NEW h \in Handles, Exists(s, h)
  PROVE  \A g \in Handles :
           /\ Exists(Removed(s, h), g) <=> Exists(s, g) /\ g # h
           /\ Exists(Removed(s, h), g) => Get(Removed(s, h), g) = Get(s, g)
<1> DEFINE t == Removed(s, h)
           d == s.sparse[h.index].index
           n == Len(s.handles)
           last == s.handles[n]
<1>1. /\ d \in Nat /\ d < n /\ n \in Nat /\ n \in 1 .. n
      /\ s.handles[d + 1] = h
      /\ Len(s.values) = n
  <2>1. n \in Nat /\ Len(s.values) = n
    BY DEF Linked, SetsOf
  <2>2. d \in Nat /\ d < n /\ s.handles[d + 1] = h
    BY ExistsLemma
  <2> QED BY <2>1, <2>2
<1>2. h.index \in Indices /\ last \in Handles /\ last.index \in Indices
  <2>1. h.index \in Indices
    BY DEF Handles
  <2> QED BY <1>1, <2>1, DenseLemma
<1>3. s.sparse[last.index].alive /\ s.sparse[last.index].index + 1 = n
  BY <1>1 DEF Linked
<1>4. last = Handle(last.index, s.sparse[last.index].generation)
  BY <1>1, <1>2, <1>3 DEF Linked, SetsOf
<1>5. /\ t.sparse = [s.sparse EXCEPT ![last.index].index = d, ![h.index].alive = FALSE]
      /\ t.handles = SwapRemoved(s.handles, d)
      /\ t.values = SwapRemoved(s.values, d)
  BY <1>1 DEF Removed
<1> HIDE DEF t, d, n, last
<1>6. Len(t.handles) = n - 1
  BY <1>1, <1>5, SwapRemovedLemma DEF SetsOf, n
<1>7. \A k \in 1 .. n - 1 : t.values[k] = IF k = d + 1 THEN s.values[n] ELSE s.values[k]
  <2>1. s.values \in Seq(V)
    BY DEF SetsOf
  <2>2. \A k \in 1 .. Len(s.values) - 1 :
          t.values[k] = IF k = d + 1 THEN s.values[Len(s.values)] ELSE s.values[k]
    BY <1>1, <1>5, <2>1, SwapRemovedLemma
  <2> QED BY <1>1, <2>2
<1>8. \A i \in Indices :
        /\ t.sparse[i].alive <=> s.sparse[i].alive /\ i # h.index
        /\ t.sparse[i].generation = s.sparse[i].generation
        /\ t.sparse[i].index = IF i = last.index THEN d ELSE s.sparse[i].index
  BY <1>2, <1>5 DEF SetsOf
<1>9. ASSUME NEW g \in Handles, Exists(t, g) PROVE Exists(s, g) /\ g # h
  <2>1. g.index \in Indices
    BY DEF Handles
  <2>2. /\ s.sparse[g.index].alive /\ g.index # h.index
        /\ s.sparse[g.index].generation = g.generation
    BY <1>8, <1>9, <2>1 DEF Exists
  <2>3. s.sparse[g.index].index < Len(s.handles)
    BY <2>1, <2>2 DEF Linked
  <2> QED BY <2>2, <2>3 DEF Exists
<1>10. ASSUME NEW g \in Handles, Exists(s, g), g # h
       PROVE  Exists(t, g) /\ Get(t, g) = Get(s, g)
  <2> DEFINE e == s.sparse[g.index].index
  <2>1. /\ g.index \in Indices /\ e \in Nat /\ e < n /\ s.handles[e + 1] = g
        /\ s.sparse[g.index].alive /\ s.sparse[g.index].generation = g.generation
    <3>1. g.index \in Indices
      BY DEF Handles
    <3> QED BY <1>10, <3>1, ExistsLemma DEF Exists, n
  <2>2. g.index # h.index
    BY <1>10, SameHandle
  <2>3. t.sparse[g.index].alive /\ t.sparse[g.index].generation = g.generation
    BY <1>8, <2>1, <2>2
  <2>4. CASE g.index = last.index
    <3>1. e = n - 1
      BY <1>1, <1>3, <2>1, <2>4
    <3>2. e # d
      BY <1>1, <1>10, <2>1
    <3>3. t.sparse[g.index].index = d /\ d < n - 1
      BY <1>1, <1>8, <2>1, <2>4, <3>1, <3>2
    <3>4. t.values[d + 1] = s.values[n] /\ e + 1 = n
      BY <1>1, <1>7, <3>1, <3>3
    <3> QED BY <1>6, <2>3, <3>3, <3>4 DEF Exists, Get
  <2>5. CASE g.index # last.index
    <3>1. t.sparse[g.index].index = e
      BY <1>8, <2>1, <2>5
    <3>2. e # n - 1
      BY <1>1, <2>1, <2>5 DEF last
    <3>3. e # d
      BY <1>1, <1>10, <2>1
    <3> HIDE DEF e
    <3>4. e + 1 \in 1 .. n - 1 /\ e + 1 # d + 1
      BY <1>1, <2>1, <3>2, <3>3
    <3>5. t.values[e + 1] = s.values[e + 1]
      BY <1>7, <3>4
    <3>6. e < Len(t.handles)
      BY <1>1, <1>6, <2>1, <3>2
    <3> QED BY <2>3, <3>1, <3>5, <3>6 DEF Exists, Get, e
  <2> QED BY <2>4, <2>5
<1> QED BY <1>9, <1>10 DEF t

=============================================================================
