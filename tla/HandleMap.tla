------------------------------ MODULE HandleMap ------------------------------
(***************************************************************************)
(* What a sparse set promises: a finite map from handles to objects, at    *)
(* most one of whose handles bears a given index.  Where the objects lie   *)
(* in memory is nowhere to be seen.                                        *)
(***************************************************************************)
CONSTANTS Handles, Values
VARIABLE objects

Init == objects = [h \in {} |-> {}]

Create(h, v) ==
  /\ \A g \in DOMAIN objects : g.index # h.index
  /\ objects' = [g \in DOMAIN objects \cup {h} |-> IF g = h THEN v ELSE objects[g]]

Write(h, v) ==
  /\ h \in DOMAIN objects
  /\ objects' = [objects EXCEPT ![h] = v]

Destroy(h) ==
  /\ h \in DOMAIN objects
  /\ objects' = [g \in DOMAIN objects \ {h} |-> objects[g]]

Next ==
  \E h \in Handles : Destroy(h) \/ \E v \in Values : Create(h, v) \/ Write(h, v)

Spec == Init /\ [][Next]_objects
=============================================================================
