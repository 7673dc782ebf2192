------------------------------ MODULE WidgetTree ------------------------------
(***************************************************************************)
(* What Papyrus promises whoever builds an interface with it: an ordered   *)
(* tree.  A new widget is the last child of its parent, a removed one goes *)
(* with all it contains, nothing else moves, no two widgets have a handle, *)
(* and what is drawn is the tree in depth-first order.  An add may fail    *)
(* and lose a handle, which then names no widget ever again.               *)
(***************************************************************************)
EXTENDS Integers, Sequences, FiniteSets, SequencesExt

CONSTANTS
  Handles,
  Root      \* one of them

VARIABLES
  kids,     \* the children of each widget there is, in order
  lost,     \* handles no widget will have
  order     \* what the last draw has shown, in order

treeVars == <<kids, lost, order>>

TreeInit ==
  /\ kids = [h \in {Root} |-> <<>>]
  /\ lost = {}
  /\ order = <<>>

Widgets == DOMAIN kids

(* h and all it contains: whatever no set can leave out that has h in it and *)
(* the children of all it has in it.                                         *)
Within(h) ==
  {x \in Widgets : \A S \in SUBSET Widgets :
                     h \in S /\ (\A y \in S : ToSet(kids[y]) \subseteq S) => x \in S}

Without(seq, h) ==
  IF h \in ToSet(seq) THEN RemoveAt(seq, CHOOSE i \in DOMAIN seq : seq[i] = h) ELSE seq

AddWidget(h, parent) ==
  /\ parent \in Widgets
  /\ h \in Handles \ (Widgets \cup lost)
  /\ kids' = [x \in Widgets \cup {h} |->
                IF x = h THEN <<>> ELSE IF x = parent THEN Append(kids[x], h) ELSE kids[x]]
  /\ UNCHANGED <<lost, order>>

FailToAdd(h) ==
  /\ h \in Handles \ (Widgets \cup lost)
  /\ lost' = lost \cup {h}
  /\ UNCHANGED <<kids, order>>

RemoveWidget(h) ==
  /\ h \in Widgets \ {Root}
  /\ kids' = [x \in Widgets \ Within(h) |-> Without(kids[x], h)]
  /\ UNCHANGED <<lost, order>>

(* A sequence of the widgets below the root is in depth-first order when each *)
(* is followed at once by all it contains, and its children by one another.   *)
DepthFirst(seq) ==
  /\ ToSet(seq) = Widgets \ {Root} /\ IsInjective(seq)
  /\ \A i \in DOMAIN seq : \E j \in i .. Len(seq) : {seq[k] : k \in i .. j} = Within(seq[i])
  /\ \A h \in Widgets : \A k \in 1 .. Len(kids[h]) - 1 : \A i, j \in DOMAIN seq :
       seq[i] = kids[h][k] /\ seq[j] = kids[h][k + 1] => i < j

Draw ==
  /\ DepthFirst(order')
  /\ UNCHANGED <<kids, lost>>

(* A step of the implementation that the tree does not see is told first: TLC *)
(* then need not look for an operation that it might be.                      *)
TreeNext ==
  \/ UNCHANGED treeVars
  \/ \E h, parent \in Handles : AddWidget(h, parent)
  \/ \E h \in Handles : FailToAdd(h) \/ RemoveWidget(h)
  \/ Draw

TreeSpec == TreeInit /\ [][TreeNext]_treeVars
=============================================================================
