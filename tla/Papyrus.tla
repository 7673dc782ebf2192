------------------------------- MODULE Papyrus -------------------------------
(***************************************************************************)
(* Papyrus, the user interface: nodes in an index pool, linked into a tree *)
(* by handles, the listeners a node is born with, and the frame: key and   *)
(* mouse events go to the node last picked, the mouse picks a node from    *)
(* the layout of the last draw, handlers of the game add and remove nodes  *)
(* from wherever they are called, and a draw lays the tree out again.      *)
(***************************************************************************)
EXTENDS Integers, Sequences, FiniteSets, SequencesExt

CONSTANTS
  NumNodes,       \* bound on the pool, the root aside
  Generations,    \* how many an index counts before it starts again
  MaxOps,         \* bound on the nodes added and removed
  Kinds           \* kinds of node the game makes

ASSUME NodesAssumption == NumNodes \in Nat \ {0} /\ Generations \in Nat \ {0} /\ MaxOps \in Nat
ASSUME KindsAssumption == Kinds \subseteq {"Slot", "Panel", "Button"}

VARIABLES
  active,         \* the pool: a node, or Hole, for each index given out
  generations,
  dead,           \* stack of the indices to give out again
  lost,           \* nodes an add has made and then failed to link
  turns,          \* history: the nodes destroyed at each index so far
  listeners,      \* how often each handle's own listeners are installed
  buttonState,    \* what each button looks like
  layoutNodes,    \* nodes the mouse can pick, from the last draw
  drawOrder,      \* _drawOrder of the last draw
  selected,       \* selected_node of the mouse pick
  lastSelected,   \* last_selected, while its tick runs
  ops,            \* nodes added and removed so far
  pc              \* where in the frame the systems thread is

pool == <<active, generations, dead, lost, turns>>
events == <<listeners, buttonState>>
layout == <<layoutNodes, drawOrder>>
pick == <<selected, lastSelected>>
vars == <<pool, events, layout, pick, ops, pc>>

Indices == 0 .. NumNodes
Handles == [index : Indices, generation : 0 .. Generations - 1]
Null == [index |-> 0, generation |-> 0]  \* the default handle, which names the root
Root == Null
Nobody == [index |-> -1, generation |-> 0]  \* an optional handle that is null
Hole == [kind |-> "hole"]

NewNode(kind) ==
  [kind |-> kind, parent |-> Null, child |-> Null, end |-> Null, next |-> Null, prev |-> Null]

Init ==
  /\ active = [i \in {0} |-> NewNode("Slot")]
  /\ generations = [i \in {0} |-> 0]
  /\ dead = <<>> /\ lost = {}
  /\ turns = [i \in {0} |-> 0]
  /\ listeners = [h \in Handles |-> 0]
  /\ buttonState = [h \in Handles |-> "Normal"]
  /\ layoutNodes = {} /\ drawOrder = <<>>
  /\ selected = Nobody /\ lastSelected = Nobody
  /\ ops = 0
  /\ pc = "pump"

-----------------------------------------------------------------------------
(* IndexPool *)

IsValid(h) ==
  /\ h.index \in DOMAIN active
  /\ active[h.index] # Hole
  /\ generations[h.index] = h.generation

Live == {h \in Handles : IsValid(h)}

Node(h) == active[h.index]

(* The nodes of the tree, which the game knows by their handles. *)
InTree == Live \ lost

(* What the game may have kept: the handles of those and of earlier nodes.    *)
Kept ==
  InTree \cup {h \in Handles :
                 h.index \in DOMAIN active
                   /\ (h.generation < turns[h.index] \/ turns[h.index] >= Generations)}

(* The index new gives out: the last one destroyed, or one more. *)
FreshIndex == IF dead # <<>> THEN Last(dead) ELSE Cardinality(DOMAIN active)
FreshHandle ==
  [index |-> FreshIndex, generation |-> IF dead # <<>> THEN generations[FreshIndex] ELSE 0]

With(f, x, v) == [y \in DOMAIN f \cup {x} |-> IF y = x THEN v ELSE f[y]]

(* Mutant: the generation stays. *)
DestroySameGeneration(nodes, killed) ==
  LET gone == {killed[k].index : k \in DOMAIN killed}
  IN  /\ active' = [i \in DOMAIN nodes |-> IF i \in gone THEN Hole ELSE nodes[i]]
      /\ dead' = dead \o [k \in DOMAIN killed |-> killed[k].index]
      /\ turns' = [i \in DOMAIN nodes |-> IF i \in gone THEN turns[i] + 1 ELSE turns[i]]
      /\ UNCHANGED generations

(* Mutant: the generation does not come round. *)
NextGenerationUnbounded(g) == g + 1

(* It is a byte: '+%= 1'. *)
NextGeneration(g) == IF g + 1 = Generations THEN 0 ELSE g + 1

(* destroy, for each of the handles in turn.  It asks of none whether it is  *)
(* valid.                                                                    *)
Destroy(nodes, killed) ==
  LET gone == {killed[k].index : k \in DOMAIN killed}
  IN  /\ active' = [i \in DOMAIN nodes |-> IF i \in gone THEN Hole ELSE nodes[i]]
      /\ dead' = dead \o [k \in DOMAIN killed |-> killed[k].index]
      /\ turns' = [i \in DOMAIN nodes |-> IF i \in gone THEN turns[i] + 1 ELSE turns[i]]
      /\ generations' = [i \in DOMAIN nodes |->
                           IF i \in gone THEN NextGeneration(generations[i]) ELSE generations[i]]

-----------------------------------------------------------------------------
(* The tree *)

(* Mutant: a new child comes first. *)
LinkFirst(nodes, h, parent) ==
  LET p == nodes[parent.index]
      adopted == [nodes EXCEPT ![h.index].parent = parent, ![parent.index].child = h]
  IN  IF p.child.index = 0
      THEN [adopted EXCEPT ![parent.index].end = h]
      ELSE [adopted EXCEPT ![p.child.index].prev = h, ![h.index].next = p.child]

(* setParent of a node that has none yet, as every node the program gives it. *)
Link(nodes, h, parent) ==
  LET p == nodes[parent.index]
      adopted == [nodes EXCEPT ![h.index].parent = parent, ![parent.index].end = h]
  IN  IF p.child.index = 0
      THEN [adopted EXCEPT ![parent.index].child = h]
      ELSE [adopted EXCEPT ![p.end.index].next = h, ![h.index].prev = p.end]

(* Mutant: the index given out again stays on the stack. *)
NewKeepingDead ==
  LET h == FreshHandle
  IN  /\ h.index \in Indices
      /\ generations' = With(generations, h.index, h.generation)
      /\ turns' = With(turns, h.index, IF dead # <<>> THEN turns[h.index] ELSE 0)
      /\ UNCHANGED dead

(* new *)
New ==
  LET h == FreshHandle
  IN  /\ h.index \in Indices
      /\ generations' = With(generations, h.index, h.generation)
      /\ turns' = With(turns, h.index, IF dead # <<>> THEN turns[h.index] ELSE 0)
      /\ dead' = IF dead # <<>> THEN Front(dead) ELSE dead

(* addSlot, addPanel, addButton: the node, its place under the parent, and a  *)
(* button's own listeners.                                                    *)
AddNode(kind, parent) ==
  LET h == FreshHandle
  IN  /\ New
      /\ parent \in InTree
      /\ active' = Link(With(active, h.index, NewNode(kind)), h, parent)
      /\ listeners' = [listeners EXCEPT ![h] = IF kind = "Button" THEN @ + 1 ELSE @]
      /\ buttonState' = [buttonState EXCEPT ![h] = "Normal"]
      /\ UNCHANGED <<lost, layout, pick, pc>>

(* The same with a parent that is no more: setParent fails, the node that was *)
(* made is nobody's child, and nobody is told its handle.                     *)
FailToAdd(kind, parent) ==
  LET h == FreshHandle
  IN  /\ New
      /\ parent \in Kept \ Live /\ parent # h
      /\ active' = With(active, h.index, NewNode(kind))
      /\ lost' = lost \cup {h}
      /\ buttonState' = [buttonState EXCEPT ![h] = "Normal"]
      /\ UNCHANGED <<listeners, layout, pick, pc>>

(* h, what it contains, and the siblings after it, depth first: the order in  *)
(* which walkNodesToRemove and assembleDrawOrderListForNode append nodes.     *)
Walk[h \in InTree] ==
  IF h.index = 0 THEN <<>> ELSE <<h>> \o Walk[Node(h).child] \o Walk[Node(h).next]

KillList(h) == <<h>> \o Walk[Node(h).child]

(* Mutant: the last child of the parent is not corrected. *)
UnlinkKeepingEnd(h) ==
  LET this == Node(h)
      around == [[active EXCEPT ![this.next.index].prev = this.prev]
                        EXCEPT ![this.prev.index].next = this.next]
  IN  IF around[this.parent.index].child = h
      THEN [around EXCEPT ![this.parent.index].child = this.next]
      ELSE around

(* The links around h.  A neighbour that is missing is the null handle, which *)
(* is the root's: what is written there the root never uses.                  *)
Unlink(h) ==
  LET this == Node(h)
      around == [[active EXCEPT ![this.next.index].prev = this.prev]
                        EXCEPT ![this.prev.index].next = this.next]
      parent == around[this.parent.index]
  IN  [around EXCEPT
         ![this.parent.index].child = IF parent.child = h THEN this.next ELSE @,
         ![this.parent.index].end = IF parent.end = h THEN this.prev ELSE @]

(* removeFromParent.  The listeners of the nodes below h stay installed.      *)
RemoveNode(h) ==
  /\ h \in InTree /\ h.index # 0
  /\ Destroy(Unlink(h), KillList(h))
  /\ listeners' = [listeners EXCEPT ![h] = 0]
  /\ buttonState' = [x \in Handles |-> IF x \in ToSet(KillList(h)) THEN "Normal" ELSE buttonState[x]]
  /\ UNCHANGED <<lost, layout, pick, pc>>

(* Once its generation has come round a kept handle may name a lost node, or  *)
(* the very node to be added, which becomes its own child.  What the code     *)
(* makes of that (its walks need not end) is not followed further.            *)
GoAstray ==
  /\ \E h \in Kept : h \in lost \/ h = FreshHandle
  /\ pc' = "astray"
  /\ UNCHANGED <<pool, events, layout, pick>>

(* What the game does between events, in its tick and in its handlers. *)
Game ==
  /\ pc \in {"pump", "over", "off"}
  /\ ops < MaxOps /\ ops' = ops + 1
  /\ \/ \E kind \in Kinds, parent \in Kept : AddNode(kind, parent) \/ FailToAdd(kind, parent)
     \/ \E h \in Kept : RemoveNode(h)
     \/ GoAstray

-----------------------------------------------------------------------------
(* Events *)

(* The listeners a button was born with set how it looks.  Called for a node  *)
(* that is gone they unwrap nothing, for one of another kind they reach into  *)
(* a field it has not.                                                        *)
Hears(h) == h # Nobody /\ listeners[h] > 0
Misdirected(h) == Hears(h) /\ (~IsValid(h) \/ Node(h).kind # "Button")
Shows(h, state) ==
  IF Hears(h) /\ ~Misdirected(h) THEN [buttonState EXCEPT ![h] = state] ELSE buttonState

(* onKey: pressed and released go to the node last picked, valid or not.      *)
OnKey(state) ==
  /\ pc = "pump" /\ selected # Nobody
  /\ pc' = IF Misdirected(selected) THEN "panicked" ELSE pc
  /\ buttonState' = Shows(selected, state)
  /\ UNCHANGED <<pool, listeners, layout, pick, ops>>

Valid(target) == IF target # Nobody /\ IsValid(target) THEN target ELSE Nobody

(* The node a tick first tells: the one left when none is picked any more,    *)
(* else the one newly picked.                                                 *)
FirstTold(now) == IF now = selected THEN Nobody ELSE IF now = Nobody THEN Valid(selected) ELSE now

AfterFirst(now) == IF now = selected THEN "same" ELSE IF now = Nobody THEN "off" ELSE "over"

(* Mutant: a node left for another is not told. *)
PickForgetting(target) ==
  LET now == Valid(target)
  IN  /\ pc = "pump"
      /\ selected' = now
      /\ lastSelected' = Nobody
      /\ buttonState' = Shows(FirstTold(now), IF now = Nobody THEN "Normal" ELSE "Hovered")
      /\ pc' = IF Misdirected(FirstTold(now)) THEN "panicked" ELSE AfterFirst(now)
      /\ UNCHANGED <<pool, listeners, layout, ops>>

(* MousePick.tick, up to the first event it sends: mouseOff when no node is   *)
(* picked any more, mouseOver for a newly picked one.                         *)
Pick(target) ==
  LET now == Valid(target)
  IN  /\ pc = "pump"
      /\ selected' = now
      /\ lastSelected' = IF now \in {selected, Nobody} THEN Nobody ELSE selected
      /\ buttonState' = Shows(FirstTold(now), IF now = Nobody THEN "Normal" ELSE "Hovered")
      /\ pc' = IF Misdirected(FirstTold(now)) THEN "panicked" ELSE AfterFirst(now)
      /\ UNCHANGED <<pool, listeners, layout, ops>>

(* And the second: the handlers of mouseOver have run, the node left before   *)
(* is told, if it is still there.                                             *)
LeaveLast ==
  /\ pc = "over"
  /\ pc' = IF Misdirected(Valid(lastSelected)) THEN "panicked" ELSE "off"
  /\ buttonState' = Shows(Valid(lastSelected), "Normal")
  /\ lastSelected' = Nobody
  /\ UNCHANGED <<pool, listeners, layout, selected, ops>>

(* tickDebug reads the node picked, which handlers may have removed.          *)
TickDebug ==
  /\ pc \in {"same", "off"}
  /\ pc' = IF selected # Nobody /\ ~IsValid(selected) THEN "panicked" ELSE "draw"
  /\ UNCHANGED <<pool, events, layout, pick, ops>>

-----------------------------------------------------------------------------
(* makeDrawList: every node in depth-first order, slots without a rectangle   *)
(* for the mouse.  A minimised window is not drawn.                           *)
MakeDrawList ==
  /\ pc = "draw"
  /\ drawOrder' = Walk[Node(Root).child]
  /\ layoutNodes' = {h \in ToSet(drawOrder') : Node(h).kind # "Slot"}
  /\ pc' = "pump"
  /\ UNCHANGED <<pool, events, pick, ops>>

SkipDraw ==
  /\ pc = "draw"
  /\ pc' = "pump"
  /\ UNCHANGED <<pool, events, layout, pick, ops>>

Next ==
  \/ Game
  \/ \E state \in {"Pressed", "Hovered"} : OnKey(state)
  \/ \E target \in layoutNodes \cup {Nobody} : Pick(target)
  \/ LeaveLast \/ TickDebug
  \/ MakeDrawList \/ SkipDraw

Spec == Init /\ [][Next]_vars

-----------------------------------------------------------------------------
Links(n) == {n.parent, n.child, n.end, n.next, n.prev}

TypeOK ==
  /\ DOMAIN active \subseteq Indices /\ DOMAIN generations = DOMAIN active
  /\ \A i \in DOMAIN active :
       active[i] # Hole => active[i].kind \in Kinds \cup {"Slot"} /\ Links(active[i]) \subseteq Handles
  /\ \A i \in DOMAIN generations : generations[i] \in 0 .. Generations - 1
  /\ dead \in Seq(Indices) /\ lost \subseteq Live
  /\ turns \in [DOMAIN active -> Nat]
  /\ listeners \in [Handles -> Nat]
  /\ buttonState \in [Handles -> {"Normal", "Hovered", "Pressed"}]
  /\ layoutNodes \subseteq Handles /\ drawOrder \in Seq(Handles)
  /\ selected \in Handles \cup {Nobody} /\ lastSelected \in Handles \cup {Nobody}
  /\ ops \in 0 .. MaxOps
  /\ pc \in {"pump", "same", "over", "off", "draw", "panicked", "astray"}

(* The stack of dead indices holds every hole of the pool once, so that no    *)
(* index is ever given out twice at a time, although destroy checks nothing.  *)
DeadAreTheHoles ==
  /\ IsInjective(dead)
  /\ ToSet(dead) = {i \in DOMAIN active : active[i] = Hole}

(* The children of every node of the tree are a doubly linked list from child *)
(* to end, and no link leads to a node that was removed or lost, whatever was *)
(* added, removed or failed to be added where, and however often generations  *)
(* have come round.  The root's own next and prev, where removeFromParent     *)
(* writes for want of a neighbour, are the exception.                         *)
ChildrenAreLinked ==
  \A h \in InTree :
    LET n == Node(h)
    IN  /\ {n.parent, n.child, n.end} \subseteq InTree
        /\ (n.child = Null) <=> (n.end = Null)
        /\ n.child # Null => Node(n.child).prev = Null
        /\ n.end # Null => Node(n.end).next = Null
        /\ h # Root =>
             /\ {n.next, n.prev} \subseteq InTree
             /\ n.next # Null => Node(n.next).prev = h /\ Node(n.next).parent = n.parent
             /\ n.next = Null => Node(n.parent).end = h
             /\ n.prev = Null => Node(n.parent).child = h

(* A button of the tree has its own listeners installed, and until the        *)
(* generations of its index have come round no node has any other, although   *)
(* those of a removed node's children are left behind: a handle to an index   *)
(* given out again is a new one.                                              *)
Own(h) == IF h \in InTree /\ Node(h).kind = "Button" THEN 1 ELSE 0

ListenersAreOwn ==
  \A h \in Live :
    /\ listeners[h] >= Own(h)
    /\ turns[h.index] < Generations => listeners[h] = Own(h)

(* Once the mouse events of a tick are delivered only the node under the      *)
(* mouse looks hovered or pressed, whatever handlers removed or added between *)
(* mouseOver and mouseOff and however old the layout is.                      *)
OnlySelectedShows ==
  pc \notin {"over", "panicked", "astray"} => \A h \in Live : buttonState[h] # "Normal" => h = selected

(* The widgets the game sees: an ordered tree. *)
Siblings[h \in InTree] == IF h.index = 0 THEN <<>> ELSE <<h>> \o Siblings[Node(h).next]

Children == [h \in InTree |-> Siblings[Node(h).child]]

Tree == INSTANCE WidgetTree WITH kids <- Children, order <- drawOrder

(* The linked nodes behave as WidgetTree's ordered tree: addPanel and the     *)
(* others append, or lose a handle for good, removeFromParent takes a node    *)
(* away with all below it and nothing else, a draw shows the whole tree depth *)
(* first.                                                                     *)
RefinesTree == Tree!TreeSpec
=============================================================================
