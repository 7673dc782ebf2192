---------------------------- MODULE RetainingFifo ----------------------------
(***************************************************************************)
(* What the concurrent queue promises to one producer and one consumer: a  *)
(* bounded FIFO, with one surprise.  A value refused for want of room may  *)
(* be retained, and then enters the FIFO ahead of the next accepted value. *)
(***************************************************************************)
EXTENDS Naturals, Sequences

CONSTANTS Values, Room
VARIABLES accepted, retained, delivered

Init == accepted = <<>> /\ retained = <<>> /\ delivered = <<>>

Accept(v) ==
  /\ accepted' = accepted \o Append(retained, v)
  /\ retained' = <<>>
  /\ UNCHANGED delivered

(* Refusal needs a queue that is full but for the value being taken. *)
Refuse(v) ==
  /\ Len(accepted) + Len(retained) + 1 >= Room
  /\ retained' \in {retained, Append(retained, v)}
  /\ UNCHANGED <<accepted, delivered>>

Deliver ==
  /\ accepted # <<>>
  /\ delivered' = Append(delivered, Head(accepted))
  /\ accepted' = Tail(accepted)
  /\ UNCHANGED retained

Next == Deliver \/ \E v \in Values : Accept(v) \/ Refuse(v)

Spec == Init /\ [][Next]_<<accepted, retained, delivered>>
=============================================================================
