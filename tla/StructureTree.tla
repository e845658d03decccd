---------------------------- MODULE StructureTree ----------------------------
(***************************************************************************)
(* pdf_structure: the elements of a tagged document in reading order. The  *)
(* structure tree is a graph of indirect objects that may share nodes and  *)
(* run in circles; two walks with stacks of their own flatten it.          *)
(*                                                                         *)
(* doc.objects maps an object to its kind: an "array", an "element" (a     *)
(* dictionary with /S), content with an MCID, a reference ("objr") or      *)
(* "null"; kids is the array, or the /K of the element. Strings of an      *)
(* element are left out.                                                   *)
(***************************************************************************)
EXTENDS Integers, Sequences, SequencesExt, FiniteSetsExt

CONSTANTS
  DepthCap,        (* STRUCTURE_DEPTH_CAP                       *)
  StepsPerLevel,   (* the walks take DepthCap * StepsPerLevel   *)
  Standard         (* the roles of the PDF standard             *)

ASSUME StructureAssumption == DepthCap \in Nat \ {0} /\ StepsPerLevel \in Nat

StepCap == DepthCap * StepsPerLevel
NoRole == "none"

\* A tag is mapped until it is standard, unmapped, or was seen before.
RoleTurn(roleMap, walk) ==
  IF walk.role \in Standard \cup walk.seen \/ roleMap[walk.role] = NoRole
    THEN walk
    ELSE [role |-> roleMap[walk.role], seen |-> walk.seen \cup {walk.role}]

\* Each turn that does not stop sees one more of the tags of the map.
RoleWalk(roleMap, tag) ==
  LET walk[n \in 0..Cardinality(DOMAIN roleMap)] ==
        IF n = 0 THEN [role |-> tag, seen |-> {}] ELSE RoleTurn(roleMap, walk[n - 1])
  IN walk
StructureRole(roleMap, tag) == RoleWalk(roleMap, tag)[Cardinality(DOMAIN roleMap)].role

\* Pending items are pushed in reverse, so the first child is popped first.
Pushed(pending, items) == pending \o Reverse(items)

\* Nested arrays are flattened: walk is [pending, seen, children, mcids].
FlattenTurn(doc, walk) ==
  LET item == Last(walk.pending)
      o == doc.objects[item.object]
      popped == [walk EXCEPT !.pending = Front(@)]
      pushes == [i \in DOMAIN o.kids |-> [object |-> o.kids[i], depth |-> item.depth + 1]]
  IN IF walk.pending = <<>> THEN walk
     ELSE IF item.depth > DepthCap \/ o.is \in {"null", "objr"} \/ (o.is = "array" /\ item.object \in walk.seen)
            THEN popped
     ELSE CASE o.is = "array" ->
                 [popped EXCEPT !.seen = @ \cup {item.object}, !.pending = Pushed(@, pushes)]
            [] o.is = "content" -> [popped EXCEPT !.mcids = Append(@, item.object)]
            [] o.is = "element" -> [popped EXCEPT !.children = Append(@, item.object)]

\* /K is one object, or an array of several; such an array counts as a level.
FlattenStart(keys) ==
  LET level == IF Len(keys) = 1 THEN 0 ELSE 1
  IN [pending |-> Pushed(<<>>, [i \in DOMAIN keys |-> [object |-> keys[i], depth |-> level]]),
      seen |-> {}, children |-> <<>>, mcids |-> <<>>]
Flatten(doc, keys) ==
  LET walk[n \in 0..StepCap] == IF n = 0 THEN FlattenStart(keys) ELSE FlattenTurn(doc, walk[n - 1])
  IN walk

CollectStructureChildren(doc, keys) == Flatten(doc, keys)[StepCap]

\* The walk over the elements is [pending, visited, rows].
ElementTurn(doc, walk) ==
  LET item == Last(walk.pending)
      o == doc.objects[item.object]
      page == IF o.page > 0 THEN o.page ELSE item.page
      inner == CollectStructureChildren(doc, o.kids)
      row == [object |-> item.object, depth |-> item.depth, parent |-> item.parent, page |-> page,
              role |-> StructureRole(doc.roleMap, o.tag), mcids |-> inner.mcids]
      pushes == [i \in DOMAIN inner.children |->
                   [object |-> inner.children[i], depth |-> item.depth + 1,
                    parent |-> Len(walk.rows) + 1, page |-> page]]
      rest == Front(walk.pending)
  IN IF walk.pending = <<>> THEN walk
     ELSE IF item.depth > DepthCap \/ item.object \in walk.visited THEN [walk EXCEPT !.pending = rest]
     ELSE [pending |-> IF item.depth >= DepthCap THEN rest ELSE Pushed(rest, pushes),
           visited |-> walk.visited \cup {item.object},
           rows |-> Append(walk.rows, row)]

WalkElements(doc, pending) ==
  LET walk[n \in 0..StepCap] ==
        IF n = 0 THEN [pending |-> pending, visited |-> {}, rows |-> <<>>] ELSE ElementTurn(doc, walk[n - 1])
  IN walk

Roots(doc) ==
  LET roots == CollectStructureChildren(doc, doc.key).children
  IN [i \in DOMAIN roots |-> [object |-> roots[i], depth |-> 0, parent |-> 0, page |-> 0]]

\* Mutant: the roots are pushed as they come.
ReadForward(doc) == WalkElements(doc, Roots(doc))[StepCap].rows

ReadStructure(doc) == WalkElements(doc, Pushed(<<>>, Roots(doc)))[StepCap].rows

-----------------------------------------------------------------------------
(* The reference: what an element contains, through arrays however nested, *)
(* is what is in every set that the arrays in it do not lead out of.       *)
Arrays(doc) == {o \in DOMAIN doc.objects : doc.objects[o].is = "array"}
Inside(doc, S) == UNION {ToSet(doc.objects[o].kids) : o \in S \cap Arrays(doc)}
Contained(doc, keys) ==
  {o \in DOMAIN doc.objects :
     \A S \in SUBSET DOMAIN doc.objects : ToSet(keys) \subseteq S /\ Inside(doc, S) \subseteq S => o \in S}
ElementsIn(doc, keys) == {o \in Contained(doc, keys) : doc.objects[o].is = "element"}
ContentIn(doc, keys) == {o \in Contained(doc, keys) : doc.objects[o].is = "content"}

\* The cap on nesting can be reached only with more arrays than that; the cap on steps
\* leaves something pending.
Shallow(doc) == Cardinality(Arrays(doc)) < DepthCap
Uncut(doc) ==
  /\ CollectStructureChildren(doc, doc.key).pending = <<>>
  /\ \A o \in DOMAIN doc.objects : CollectStructureChildren(doc, doc.objects[o].kids).pending = <<>>
  /\ WalkElements(doc, Pushed(<<>>, Roots(doc)))[StepCap].pending = <<>>
Whole(doc) == Shallow(doc) /\ Uncut(doc)

\* Row i is the parent of row j, or an ancestor.
Above(rows, i, j) ==
  \A S \in SUBSET (0..Len(rows)) :
    rows[j].parent \in S /\ (\A k \in S \ {0} : rows[k].parent \in S) => i \in S

\* Its index in a /K without arrays; 0 where the order is that of a nested one.
KeyIndex(doc, keys, object) ==
  IF ToSet(keys) \cap Arrays(doc) = {} THEN SelectInSeq(keys, LAMBDA o : o = object) ELSE 0

\* Each element is listed once, under an element that contains it, with the page
\* it names or inherits; rows come in the order of a depth-first walk, siblings in
\* the order of /K; and unless a cap was reached nothing contained in a listed element
\* is missing.
ListsTree(doc, rows) ==
  /\ \A i, j \in DOMAIN rows : rows[i].object = rows[j].object => i = j
  /\ \A i \in DOMAIN rows :
       LET row == rows[i]
           o == doc.objects[row.object]
           root == row.parent = 0
           keys == IF root THEN doc.key ELSE doc.objects[rows[row.parent].object].kids
       IN /\ row.parent < i
          /\ row.depth = IF root THEN 0 ELSE rows[row.parent].depth + 1
          /\ row.object \in ElementsIn(doc, keys)
          /\ \A j \in 1..(i - 1) :
               rows[j].parent = row.parent =>
                 KeyIndex(doc, keys, rows[j].object) <= KeyIndex(doc, keys, row.object)
          /\ row.page = IF o.page > 0 \/ root THEN o.page ELSE rows[row.parent].page
          /\ i > 1 /\ row.parent # i - 1 => root \/ Above(rows, row.parent, i - 1)
          /\ Whole(doc) => ToSet(row.mcids) = ContentIn(doc, o.kids)
          /\ Whole(doc) /\ row.depth < DepthCap =>
               \A e \in ElementsIn(doc, o.kids) : \E j \in DOMAIN rows : rows[j].object = e
  /\ Whole(doc) => \A e \in ElementsIn(doc, doc.key) : \E j \in DOMAIN rows : rows[j].object = e

\* What a tag is mapped to, through any number of links.
Mapped(roleMap, tag) ==
  {r \in DOMAIN roleMap \cup Standard \cup {NoRole} :
     \A S \in SUBSET (DOMAIN roleMap \cup Standard \cup {NoRole}) :
       tag \in S /\ (\A x \in (S \cap DOMAIN roleMap) \ Standard : roleMap[x] \in S) => r \in S}

\* A tag whose mapping leads to a standard role gets it; one whose mapping ends or runs
\* in a circle gets a tag of that mapping.
MapsRoles(doc, rows) ==
  \A i \in DOMAIN rows :
    LET mapped == Mapped(doc.roleMap, doc.objects[rows[i].object].tag)
    IN IF mapped \cap Standard # {} THEN mapped \cap Standard = {rows[i].role}
       ELSE rows[i].role \in mapped \ {NoRole}
=============================================================================
