----------------------------- MODULE Reconcile -----------------------------
(***************************************************************************)
(* The reconciler (client/transpile/diff.js, the port of the core's) and   *)
(* the renderer that applies what it emits (client/dom.js).  A node is     *)
(* [type, key, props, kids]; an element is written as the node it shows.   *)
(* A path is the list of steps from the root, a batch a list of patches.   *)
(* A patch is applied in one step, as the batch's order prescribes.        *)
(***************************************************************************)
EXTENDS Integers, Sequences, SequencesExt, FiniteSets

CONSTANTS
    Nodes,            \* every node the application may build
    Height,           \* of a node, above the deepest leaf below it
    Befores, Afters,  \* the lists of children a root may have, first and later
    MaxRebuilds,      \* bounds the rebuilds
    NoKey

VARIABLES
    scene,    \* the tree the application built last
    dom,      \* the elements on the page
    patches,  \* what is left of the batch
    earlier   \* the trees before it; the batch was computed from the last of them

treeVars == <<scene, dom, patches, earlier>>

Root(kids) == [type |-> "Column", key |-> NoKey, props |-> 0, kids |-> kids]

\* The trees are finite: a child is lower than its parent.
ASSUME NodesAssumption ==
    /\ \A kids \in Befores \cup Afters : Root(kids) \in Nodes
    /\ \A n \in Nodes :
         /\ n = [type |-> n.type, key |-> n.key, props |-> n.props, kids |-> n.kids]
         /\ n.kids \in Seq(Nodes)
         /\ Height[n] \in Nat
         /\ \A i \in 1..Len(n.kids) : Height[n.kids[i]] < Height[n]

-----------------------------------------------------------------------------
(* Lists of children.                                                      *)

KeysOf(list) == {list[i].key : i \in 1..Len(list)}
At(list, k) == CHOOSE i \in 1..Len(list) : list[i].key = k

\* The n-th smallest of the numbers in S, and what a list holds at those places.
Nth(S, n) == CHOOSE i \in S : Cardinality({j \in S : j < i}) = n - 1
Picked(list, S) == [n \in 1..Cardinality(S) |-> list[Nth(S, n)]]

\* Where a list has the keys of another one, and where it has not.
Shared(list, other) == {i \in 1..Len(list) : list[i].key \in KeysOf(other)}
Alone(list, other) == 1..Len(list) \ Shared(list, other)

\* fullyKeyed: every child has a key, and no two the same.
FullyKeyed(list) == NoKey \notin KeysOf(list) /\ Cardinality(KeysOf(list)) = Len(list)

-----------------------------------------------------------------------------
(* diff: every index counts from zero.  A path begins at the node at hand. *)

AllHere(edits) == [n \in 1..Len(edits) |-> [path |-> <<>>, edit |-> edits[n]]]
Here(edit) == AllHere(<<edit>>)
SetProps(props) == [op |-> "update", props |-> props]
Replacing(n) == [op |-> "replace", node |-> n]
Inserting(i, n) == [op |-> "insert", at |-> i, node |-> n]
Removing(i) == [op |-> "remove", at |-> i]
Reordered(order) == [op |-> "reorder", order |-> order]

\* The batch of a node's i-th child, as a batch of the node.
Under(i, batch) == [n \in 1..Len(batch) |->
    [path |-> <<i - 1>> \o batch[n].path, edit |-> batch[n].edit]]

\* Where each survivor stood among the survivors.
Order(old, new) ==
    LET was == Picked(old, Shared(old, new)) now == Picked(new, Shared(new, old))
    IN [i \in 1..Len(now) |-> At(was, now[i].key) - 1]

Realign(old, new) ==
    LET order == Order(old, new)
    IN IF \A i \in 1..Len(order) : order[i] = i - 1 THEN <<>> ELSE Here(Reordered(order))

\* In the order they stand in, where they will stand.
Inserts(new, places) ==
    AllHere([n \in 1..Cardinality(places) |-> Inserting(Nth(places, n) - 1, new[Nth(places, n)])])

\* Mutant of Removes: from the head on.
RemovesInOrder(places) == AllHere([n \in 1..Cardinality(places) |-> Removing(Nth(places, n) - 1)])
\* From the tail, so that no index moves before it is used.
Removes(places) ==
    AllHere([n \in 1..Cardinality(places) |->
                Removing(Nth(places, Cardinality(places) + 1 - n) - 1)])

\* reconcileKeyed: removes from the tail, one reorder, inserts, then the matched,
\* by the batches that d has for two nodes.
DiffKeyed(d, old, new) ==
    Removes(Alone(old, new)) \o Realign(old, new) \o Inserts(new, Alone(new, old))
    \o FlattenSeq([i \in 1..Len(new) |->
          IF i \in Shared(new, old) THEN Under(i, d[<<old[At(old, new[i].key)], new[i]>>]) ELSE <<>>])

\* reconcileChildren without keys: by position, then the tail.
DiffPositional(d, old, new) ==
    LET common == IF Len(old) < Len(new) THEN Len(old) ELSE Len(new) IN
    FlattenSeq([i \in 1..common |-> Under(i, d[<<old[i], new[i]>>])])
    \o Removes((common + 1)..Len(old))
    \o Inserts(new, (common + 1)..Len(new))

\* reconcileChildren: by key where every child on both sides has its own.
DiffChildren(d, old, new) ==
    IF old /= <<>> /\ new /= <<>> /\ FullyKeyed(old) /\ FullyKeyed(new)
    THEN DiffKeyed(d, old, new) ELSE DiffPositional(d, old, new)

\* reconcile.
Reconciled(d, a, b) ==
    IF a.type /= b.type \/ a.key /= b.key THEN Here(Replacing(b))
    ELSE (IF a.props /= b.props THEN Here(SetProps(b.props)) ELSE <<>>)
         \o DiffChildren(d, a.kids, b.kids)

Diff[pair \in Nodes \X Nodes] == Reconciled(Diff, pair[1], pair[2])

-----------------------------------------------------------------------------
(* The renderer.                                                           *)

\* resolvePath: the elements a path leads through, from the root on, and whether
\* each of its steps leads anywhere.
Along(e, p) ==
    LET el[n \in 0..Len(p)] == IF n = 0 THEN e ELSE el[n - 1].kids[p[n] + 1] IN el
Resolves(e, p) == \A n \in 1..Len(p) : p[n] < Len(Along(e, p)[n - 1].kids)
Resolved(e, p) == Along(e, p)[Len(p)]

\* applyUpdate, applyReplace, applyInsert, applyRemove, applyReorder: what becomes
\* of the element they resolved.  Out of range, an insert appends, a remove does
\* nothing and a reorder moves the others, behind those it does not name.
Changed(e, edit) ==
    LET count == Len(e.kids) IN
    CASE edit.op = "update"  -> [e EXCEPT !.props = edit.props]
      [] edit.op = "replace" -> edit.node
      [] edit.op = "insert"  ->
           LET i == IF edit.at > count THEN count ELSE edit.at
           IN [e EXCEPT !.kids = InsertAt(e.kids, i + 1, edit.node)]
      [] edit.op = "remove"  ->
           IF edit.at < count THEN [e EXCEPT !.kids = RemoveAt(e.kids, edit.at + 1)] ELSE e
      [] edit.op = "reorder" ->
           LET moved == Picked(edit.order, {n \in 1..Len(edit.order) : edit.order[n] < count})
               stay == {i \in 1..count : i - 1 \notin Range(moved)}
           IN [e EXCEPT !.kids = Picked(e.kids, stay) \o [n \in 1..Len(moved) |-> e.kids[moved[n] + 1]]]

\* applyPatch: the tree with that element changed, from where it is up to the root.
Patched(e, patch) ==
    LET p == patch.path
        up[n \in 0..Len(p)] ==
            IF n = 0 THEN Changed(Resolved(e, p), patch.edit)
            ELSE LET at == Len(p) - n
                 IN [Along(e, p)[at] EXCEPT !.kids[p[at + 1] + 1] = up[n - 1]]
    IN up[Len(p)]

-----------------------------------------------------------------------------
\* mountApp: the first build, then rebuilds, each of which delivers its batch, and
\* the renderer applies it before the next.
TreeInit ==
    /\ \E kids \in Befores : scene = Root(kids)
    /\ dom = scene /\ earlier = <<>> /\ patches = <<>>

Rerender ==
    /\ patches = <<>> /\ Len(earlier) < MaxRebuilds
    /\ \E kids \in Afters :
         /\ patches' = Diff[<<scene, Root(kids)>>]
         /\ scene' = Root(kids)
    /\ earlier' = Append(earlier, scene) /\ UNCHANGED dom

\* A patch that cannot be applied ends its batch.
Apply == LET patch == Head(patches) IN
    /\ patches /= <<>>
    /\ IF Resolves(dom, patch.path)
       THEN dom' = Patched(dom, patch) /\ patches' = Tail(patches)
       ELSE patches' = <<>> /\ UNCHANGED dom
    /\ UNCHANGED <<scene, earlier>>

TreeNext == Rerender \/ Apply
TreeSpec == TreeInit /\ [][TreeNext]_treeVars

-----------------------------------------------------------------------------
(* Properties.                                                             *)

\* applyPatches of diff: when the batch is through, the page is the tree.
PageIsTheTree == patches = <<>> => dom = scene

\* "Every index is valid against the live child list at the moment its patch
\* applies": the patch does not fall back on the renderer's lenience.
Valid(e, patch) ==
    /\ Resolves(e, patch.path)
    /\ LET edit == patch.edit count == Len(Resolved(e, patch.path).kids) IN
       /\ edit.op = "insert" => edit.at <= count
       /\ edit.op = "remove" => edit.at < count
       /\ edit.op = "reorder" => Len(edit.order) = count /\ Range(edit.order) = 0..(count - 1)
IndicesAreValid == patches /= <<>> => Valid(dom, Head(patches))

\* The keys of the children that keep their type, in two keyed lists.
Staying(old, new) ==
    {k \in KeysOf(old) \cap KeysOf(new) :
        /\ FullyKeyed(old) /\ FullyKeyed(new)
        /\ old[At(old, k)].type = new[At(new, k)].type}

\* Which child of e the patch takes away or builds again, if any.
Lost(e, patch) ==
    {e.kids[i].key : i \in {j \in 1..Len(e.kids) :
        \/ patch.edit.op = "remove" /\ patch.path = <<>> /\ patch.edit.at = j - 1
        \/ patch.edit.op = "replace" /\ patch.path \in {<<>>, <<j - 1>>}}}

\* reconcileKeyed: a keyed child that stays, with its type, keeps its element, and
\* so its focus, caret and scroll position.
KeyedElementsStay == patches /= <<>> =>
    Lost(dom, Head(patches)) \cap Staying(Last(earlier).kids, scene.kids) = {}

\* The reconciler and the renderer, on any two trees: by indices that are valid,
\* the page becomes the tree, and keyed elements stay.
PatchesFit == PageIsTheTree /\ IndicesAreValid /\ KeyedElementsStay
=============================================================================
