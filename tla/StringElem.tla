----------------------------- MODULE StringElem -----------------------------
(***************************************************************************)
(* The tree of a text and its placeables (translate/storage/placeables/    *)
(* strelem.py and parse.py), and the edits an editor makes in it.  A node  *)
(* is [cls, sub, id]: cls is "S" for StringElem itself and otherwise stands*)
(* for the sub-classes of one behaviour; sub holds nodes and strings       *)
(* [str |-> characters]; id is the object, here the path to it in the tree *)
(* before the operation.                                                   *)
(***************************************************************************)
EXTENDS Integers, Sequences, FiniteSets

LOCAL INSTANCE SequencesExt   \* FlattenSeq, SelectInSeq, Last, RemoveAt, ...
LOCAL INSTANCE FiniteSetsExt  \* Min, Max

CONSTANTS
  Inputs,      \* the texts that are parsed
  Parsers,     \* the parsers in their order: [cls, chars, runs]
  Inserted,    \* the elements an editor puts in
  MaxEdits     \* bound on the edits

VARIABLES
  tree,     \* the root element
  previous, \* the root element before the last operation
  last,     \* the last operation, its arguments and what it returned
  edits

vars == <<tree, previous, last, edits>>

Editable == {"S", "G", "Number"}   \* G and its like, NumberPlaceable
Fragile  == {"Newline"}            \* X, NewlinePlaceable
Opaque   == {"Format"}             \* neither, as QtFormattingPlaceable
Classes  == Editable \cup Fragile \cup Opaque
Translatable == {"S", "G"}

None == <<0>>   \* no object: what a node has for id before it is labelled

Str(chars) == [str |-> chars]
IsStr(item) == DOMAIN item = {"str"}
Node(cls, sub) == [cls |-> cls, sub |-> sub, id |-> None]
Plain(chars) == Node("S", <<Str(chars)>>)

(* f of every item; a sub-sequence, so that TLC evaluates it only once.    *)
ForEach(items, f(_)) ==
  SubSeq([i \in DOMAIN items |-> f(items[i])], 1, Len(items))

IsEditable(n) == n.cls \in Editable
IsFragile(n) == n.cls \in Fragile

-----------------------------------------------------------------------------
(* Walking through the tree.                                               *)

AllStr(sub) == \A i \in DOMAIN sub : IsStr(sub[i])

IsLeaf(n) == AllStr(n.sub)

(* __str__ *)
RECURSIVE Text(_)
Text(item) ==
  IF IsStr(item) THEN item.str
  ELSE FlattenSeq(ForEach(item.sub, Text))

Length(item) == Len(Text(item))

RECURSIVE DepthFirst(_)
DepthFirst(n) ==
  LET below(item) == IF IsStr(item) THEN << >> ELSE DepthFirst(item)
  IN <<n>> \o FlattenSeq(ForEach(n.sub, below))

Flatten(n) == SelectSeq(DepthFirst(n), IsLeaf)

(* Each node gets its path as its identity.                                *)
RECURSIVE Labelled(_, _)
Labelled(n, path) ==
  LET child(i) == IF IsStr(n.sub[i]) THEN n.sub[i]
                  ELSE Labelled(n.sub[i], Append(path, i))
  IN [n EXCEPT !.id = path, !.sub = ForEach([i \in DOMAIN @ |-> i], child)]

Parent(id) == SubSeq(id, 1, Len(id) - 1)   \* get_parent_elem, but for the root

RECURSIVE At(_, _)
At(n, path) == IF path = << >> THEN n ELSE At(n.sub[Head(path)], Tail(path))

RECURSIVE Put(_, _, _)
Put(n, path, new) ==
  IF path = << >> THEN new
  ELSE [n EXCEPT !.sub[Head(path)] = Put(@, Tail(path), new)]

(* delete_elem of all these nodes: those already gone are skipped.         *)
RECURSIVE WithoutNodes(_, _)
WithoutNodes(n, ids) ==
  LET stays(item) == IsStr(item) \/ item.id \notin ids
      below(item) == IF IsStr(item) THEN item ELSE WithoutNodes(item, ids)
  IN [n EXCEPT !.sub = ForEach(SelectSeq(@, stays), below)]

(* The node of this identity, with other content.                          *)
RECURSIVE WithSub(_, _, _)
WithSub(n, id, sub) ==
  LET below(item) == IF IsStr(item) THEN item ELSE WithSub(item, id, sub)
  IN [n EXCEPT !.sub = IF n.id = id THEN sub ELSE ForEach(@, below)]

(* The length of the leaves before the k-th of a sequence.                 *)
LengthBefore(leaves, k) ==
  Len(FlattenSeq([i \in 1..(k - 1) |-> Text(leaves[i])]))

(* The place of a node in the order of the walk.                           *)
IndexIn(nodes, id) == SelectInSeq(nodes, LAMBDA n : n.id = id)

LeafText(n) == IF IsLeaf(n) THEN Text(n) ELSE << >>

(* elem_offset of a node of the tree.                                      *)
OffsetAmong(nodes, id) ==
  Len(FlattenSeq(ForEach(SubSeq(nodes, 1, IndexIn(nodes, id) - 1), LeafText)))

ElemOffset(t, id) == OffsetAmong(DepthFirst(t), id)

(* Mutant: the offset of the end of the node.                              *)
OffsetAfter(t, parent, id) ==
  ElemOffset(t, id) - ElemOffset(t, parent) + Length(At(t, id))

(* elem_offset in a node of the tree.                                      *)
OffsetIn(t, parent, id) == ElemOffset(t, id) - ElemOffset(t, parent)

(* elem_at_offset: the last leaf when no leaf covers the offset.           *)
LeafAt(leaves, offset) ==
  leaves[Min({k \in DOMAIN leaves : offset < LengthBefore(leaves, k + 1)}
               \cup {Len(leaves)})]

ElemAtOffset(t, offset) == LeafAt(Flatten(t), offset)

(* get_index_data: an index between two leaves belongs to both.            *)
Between(t, index) ==
  index > 0 /\ ElemAtOffset(t, index - 1).id # ElemAtOffset(t, index).id
RightOf(t, index) == ElemAtOffset(t, index)
(* Mutant: an index between two leaves belongs to the right one.           *)
LeftAsRight(t, index) == ElemAtOffset(t, index)

LeftOf(t, index) == ElemAtOffset(t, Max({0, index - 1}))

-----------------------------------------------------------------------------
(* prune.                                                                  *)

(* Empty strings and empty plain nodes go, from the right to the left; a   *)
(* string next to a node becomes a node.                                   *)
Emptied(item) == Length(item) = 0 /\ (IsStr(item) \/ item.cls = "S")

AsNode(item) == IF IsStr(item) THEN Node("S", <<item>>) ELSE item

RECURSIVE Cleaned(_, _)
Cleaned(sub, i) ==
  IF i = 0 THEN sub
  ELSE Cleaned(IF Emptied(sub[i]) THEN RemoveAt(sub, i)
               ELSE IF AllStr(sub) THEN sub
               ELSE [sub EXCEPT ![i] = AsNode(@)], i - 1)

IsPlain(item) == ~IsStr(item) /\ item.cls = "S"

(* Neighbours that are both plain nodes become one.                        *)
Mergeable(sub) == {i \in 1..(Len(sub) - 1) : IsPlain(sub[i]) /\ IsPlain(sub[i + 1])}

MergeAt(sub, i) ==
  SubSeq(sub, 1, i - 1) \o <<[sub[i] EXCEPT !.sub = @ \o sub[i + 1].sub]>>
    \o SubSeq(sub, i + 2, Len(sub))

RECURSIVE Merged(_)
Merged(sub) ==
  IF Mergeable(sub) = {} THEN sub ELSE Merged(MergeAt(sub, Min(Mergeable(sub))))

(* The only child of a node: a plain leaf is unwrapped, as is a plain node *)
(* in a plain one; another one takes the place of its plain parent.        *)
HasOnly(n) == Len(n.sub) = 1 /\ ~IsStr(n.sub[1])
Nested(n) == HasOnly(n) /\ IsPlain(n) /\ IsPlain(n.sub[1])
Lifted(n) == HasOnly(n) /\ IsPlain(n) /\ ~IsPlain(n.sub[1])

Opened(n) ==
  IF HasOnly(n) /\ IsPlain(n.sub[1]) /\ (Nested(n) \/ IsLeaf(n.sub[1]))
  THEN [n EXCEPT !.sub = n.sub[1].sub] ELSE n

Joined(n) == IF IsPlain(n) /\ IsLeaf(n) THEN [n EXCEPT !.sub = <<Str(Text(n))>>] ELSE n

(* Of a node whose content has been opened, cleaned and merged.            *)
MergedNode(n, joined, clean, merged, isRoot) ==
  [node |-> [n EXCEPT !.sub = merged],
   lift |-> Lifted(n) /\ ~isRoot,
   changed |-> \/ Nested(n) \/ (Lifted(n) /\ ~isRoot) \/ merged # clean
               \/ /\ ~AllStr(clean)
                  /\ \E i \in DOMAIN joined : IsStr(joined[i]) /\ Length(joined[i]) > 0]

CleanedNode(n, joined, clean, isRoot) ==
  MergedNode(n, joined, clean, IF AllStr(clean) THEN clean ELSE Merged(clean), isRoot)

JoinedNode(n, joined, isRoot) ==
  CleanedNode(n, joined, Cleaned(joined, Len(joined)), isRoot)

PruneNode(n, isRoot) == JoinedNode(n, Joined(Opened(n)).sub, isRoot)

(* One pass over the tree, parents first; a node that is lifted gives its  *)
(* only child.  own is the node after its own pruning, below its items.    *)
Passed(own, below) ==
  [node |-> IF own.lift THEN below[1].node
            ELSE [own.node EXCEPT !.sub = ForEach(below, LAMBDA b : b.node)],
   changed |-> own.changed \/ \E i \in DOMAIN below : below[i].changed]

RECURSIVE PrunePass(_)
PrunePass(own) ==
  Passed(own, ForEach(own.node.sub,
                LAMBDA item : IF IsStr(item) THEN [node |-> item, changed |-> FALSE]
                              ELSE PrunePass(PruneNode(item, FALSE))))

(* Passes are made until one changes nothing.                              *)
RECURSIVE PruneMore(_)
PruneMore(pass) ==
  IF pass.changed THEN PruneMore(PrunePass(PruneNode(pass.node, TRUE))) ELSE pass.node

Prune(n) == PruneMore([node |-> n, changed |-> TRUE])

-----------------------------------------------------------------------------
(* parse: each parser splits the leaves that the earlier ones left.        *)

Slice(chars, from, to) == SubSeq(chars, from + 1, Min({to, Len(chars)}))

(* RegexParseMixin.parse: a node for every run of the parser's characters, *)
(* plain nodes for what is between them.                                   *)
Matches(parser, c) == c \in parser.chars

PieceLength(chars, parser) ==
  IF Matches(parser, chars[1]) /\ ~parser.runs THEN 1
  ELSE Max({k \in DOMAIN chars :
              \A i \in 1..k : Matches(parser, chars[i]) = Matches(parser, chars[1])})

PieceOf(chars, parser) ==
  Node(IF Matches(parser, chars[1]) THEN parser.cls ELSE "S", <<Str(chars)>>)

RECURSIVE Pieces(_, _)
Pieces(chars, parser) ==
  IF chars = << >> THEN << >>
  ELSE <<PieceOf(SubSeq(chars, 1, PieceLength(chars, parser)), parser)>>
         \o Pieces(SubSeq(chars, PieceLength(chars, parser) + 1, Len(chars)), parser)

(* Mutant: a leaf that is a single piece stays as it is.                   *)
TakesSeveral(leaf, pieces) == Len(pieces) > 1

(* __eq__ does not look at the class: a leaf that is a match as a whole    *)
(* stays what it is when the placeable behaves like StringElem.            *)
TakesPieces(leaf, pieces) ==
  /\ \E i \in DOMAIN pieces : pieces[i].cls # "S"
  /\ Len(pieces) = 1 => pieces[1].cls # "G"

SplitBy(n, pieces) == IF TakesPieces(n, pieces) THEN [n EXCEPT !.sub = pieces] ELSE n

RECURSIVE Parse(_, _)
Parse(n, parsers) ==
  IF parsers = << >> THEN n
  ELSE IF ~IsLeaf(n)
  THEN [n EXCEPT !.sub = ForEach(@, LAMBDA item : IF IsStr(item) THEN item
                                                  ELSE Parse(item, parsers))]
  ELSE IF n.cls \notin Translatable \/ Text(n) = << >> THEN n
  ELSE Prune(Parse(SplitBy(n, Pieces(Text(n), Head(parsers))), Tail(parsers)))

-----------------------------------------------------------------------------
(* delete_range, for an element whose nodes are labelled.                  *)

Returned(removed, parent, offset) ==
  [removed |-> removed, parent |-> parent, offset |-> offset]

(* Mutant: the ancestors of the second leaf are marked as well.            *)
MarkedAll(nodes, start, end) ==
  {nodes[i].id : i \in (IndexIn(nodes, start.id) + 1)..(IndexIn(nodes, end.id) - 1)}

(* Nodes strictly between the two leaves, with all that is below them, but *)
(* for the ancestors of the second.                                        *)
MarkedNodes(nodes, start, end) ==
  {nodes[i].id : i \in {j \in (IndexIn(nodes, start.id) + 1)..(IndexIn(nodes, end.id) - 1) :
                          ~IsPrefix(nodes[j].id, end.id)}}

Doomed(n) == ~IsEditable(n) /\ IsFragile(n)

DeleteAll(t) == [tree |-> [t EXCEPT !.sub = << >>], ret |-> Returned(t, None, 0)]

(* A whole element, or a fragile one of which a part is deleted.           *)
DeleteElem(t, leaf) ==
  IF leaf.id = << >> THEN DeleteAll(t)
  ELSE [tree |-> WithoutNodes(t, {leaf.id}),
        ret  |-> Returned(leaf, Parent(leaf.id), OffsetIn(t, Parent(leaf.id), leaf.id))]

(* Within an editable leaf.                                                *)
DeletePart(t, leaf, start, end) ==
  [tree |-> Prune(WithSub(t, leaf.id, <<Str(Slice(Text(leaf), 0, start) \o
                    Slice(Text(leaf), end, Length(leaf)))>>)),
   ret  |-> Returned(Plain(Slice(Text(leaf), start, end)), leaf.id, start)]

KeepOf(t, leaf, from, to) ==
  IF IsEditable(leaf) THEN WithSub(t, leaf.id, <<Str(Slice(Text(leaf), from, to))>>)
  ELSE t

(* From one leaf to another.                                               *)
DeleteAcross(t, start, startOffset, end, endOffset) ==
  [tree |-> Prune(WithoutNodes(
              KeepOf(KeepOf(t, start, 0, startOffset), end, endOffset, Length(end)),
              MarkedNodes(DepthFirst(t), start, end)
                \cup {n.id : n \in {m \in {start} : startOffset = 0 \/ Doomed(m)}}
                \cup {n.id : n \in {m \in {end} : endOffset = Length(m) \/ Doomed(m)}})),
   ret  |-> Returned(t, None, 0)]

(* Cases 1 to 4: all of the text, all of an element or a fragile one, part *)
(* of an editable element, several elements.                               *)
DeleteLeaves(t, start, startOffset, end, endOffset) ==
  IF Doomed(start) \/ (start.id = end.id /\ startOffset = 0 /\ endOffset = Length(end))
  THEN DeleteElem(t, start)
  ELSE IF start.id # end.id THEN DeleteAcross(t, start, startOffset, end, endOffset)
  ELSE IF IsEditable(start) THEN DeletePart(t, start, startOffset, endOffset)
  ELSE [tree |-> Prune(t), ret |-> Returned(t, None, 0)]

DeleteBetween(t, from, start, to, end) ==
  DeleteLeaves(t, start, from - ElemOffset(t, start.id), end, to - ElemOffset(t, end.id))

DeleteRange(t, from, to) ==
  IF from = 0 /\ to = Length(t) THEN DeleteAll(t)
  ELSE DeleteBetween(t, from, RightOf(t, from), to, LeftOf(t, to))

-----------------------------------------------------------------------------
(* insert.                                                                 *)

(* Mutant: a node is put in also where a string would do.                  *)
NeverLeaf(n, x) == x

CheckLeaf(n, x) ==
  IF IsLeaf(n) /\ IsPlain(x) /\ IsLeaf(x) THEN Str(Text(x)) ELSE x

(* The nearest editable ancestor of a node, the root when there is none.   *)
RECURSIVE EditableAncestor(_, _)
EditableAncestor(t, id) ==
  IF id = << >> \/ IsEditable(At(t, Parent(id))) THEN Parent(id)
  ELSE EditableAncestor(t, Parent(id))

InsertChild(t, path, i, x) ==
  Put(t, path, [At(t, path) EXCEPT !.sub = InsertAt(@, i, x)])

Refused(t)  == [tree |-> t, done |-> FALSE]
Accepted(t) == [tree |-> t, done |-> TRUE]

(* At the start of the tree: in its first leaf or before it.               *)
InsertIn(t, path, x) == InsertChild(t, path, 1, CheckLeaf(At(t, path), x))

InsertAtLeaf(t, leaf, x) ==
  Accepted(IF IsEditable(leaf) THEN Put(t, leaf.id, Prune(At(InsertIn(t, leaf.id, x), leaf.id)))
           ELSE InsertIn(t, EditableAncestor(t, leaf.id), x))

InsertFirst(t, x) == InsertAtLeaf(t, ElemAtOffset(t, 0), x)

(* In a leaf itself, as if it were the tree.                               *)
InsertInLeaf(t, leaf, x) ==
  Accepted(Put(t, leaf.id, InsertFirst([leaf EXCEPT !.id = << >>], x).tree))

InsertEnd(t, path, n, x) ==
  Accepted(InsertChild(t, path, Len(n.sub) + 1, CheckLeaf(n, x)))

(* At the end: in the last leaf when the caller prefers it, else after it. *)
InsertPast(t, leaf, path, x) ==
  IF path = leaf.id /\ Text(leaf) = << >> /\ leaf.id # << >>
  THEN InsertInLeaf(t, leaf, x)
  ELSE InsertEnd(t, path, At(t, path), x)

InsertAfter(t, leaf, preferred, x) ==
  InsertPast(t, leaf, IF preferred.id = leaf.id \/ preferred.cls = leaf.cls
                      THEN leaf.id ELSE EditableAncestor(t, leaf.id), x)

InsertLast(t, preferred, x) == InsertAfter(t, Last(Flatten(t)), preferred, x)

SplitAround(head, x, tail) ==
  IF IsPlain(x) /\ IsLeaf(x) THEN <<Str(head \o Text(x) \o tail)>>
  ELSE <<Plain(head), x, Plain(tail)>>

(* Inside a leaf: only an editable one is split.                           *)
InsertWithin(t, leaf, offset, x) ==
  IF ~IsEditable(leaf) THEN Refused(t)
  ELSE Accepted(WithSub(t, leaf.id, SplitAround(Slice(Text(leaf), 0, offset), x,
                                      Slice(Text(leaf), offset, Length(leaf)))))

(* Between two leaves: in the one that is editable, in the one of the      *)
(* preferred type when both are, and else right of the left one.           *)
GoesAfter(before, after, preferred) ==
  /\ IsEditable(after)
  /\ IsEditable(before) => \/ preferred.id = after.id
                           \/ preferred.cls = after.cls /\ preferred.cls # before.cls

GoesBefore(before, after, preferred) ==
  /\ IsEditable(before)
  /\ IsEditable(after) => preferred.cls \in {before.cls, after.cls}

InsertBetween(t, before, after, preferred, x) ==
  IF GoesAfter(before, after, preferred) THEN InsertInLeaf(t, after, x)
  ELSE IF GoesBefore(before, after, preferred) THEN InsertEnd(t, before.id, before, x)
  ELSE Accepted(InsertChild(t, Parent(before.id), Last(before.id) + 1, x))

InsertInside(t, leaf, offset, x) ==
  InsertWithin(t, leaf, offset - ElemOffset(t, leaf.id), x)

Insert(t, offset, preferred, x) ==
  IF offset = 0 THEN InsertFirst(t, x)
  ELSE IF offset = Length(t) THEN InsertLast(t, preferred, x)
  ELSE IF ~Between(t, offset)
  THEN InsertInside(t, RightOf(t, offset), offset, x)
  ELSE InsertBetween(t, LeftOf(t, offset), RightOf(t, offset), preferred, x)

-----------------------------------------------------------------------------
(* The editor.                                                             *)

NoOne == [cls |-> "none", sub |-> << >>, id |-> None]   \* preferred_parent = None

(* The object that was returned, in the tree as it is labelled now: None   *)
(* when it is no longer a part of it.                                      *)
Found(t, id) ==
  IF id \in {n.id : n \in ToSet(DepthFirst(t))}
  THEN DepthFirst(Labelled(t, << >>))[IndexIn(DepthFirst(t), id)].id
  ELSE None

Init ==
  /\ tree \in {Labelled(Plain(chars), << >>) : chars \in Inputs}
  /\ previous = tree
  /\ last = [op |-> "none"]
  /\ edits = 0

(* parse(tree, parsers)                                                    *)
ParseText ==
  /\ last.op = "none"
  /\ tree' = Labelled(Parse(tree, Parsers), << >>)
  /\ previous' = tree
  /\ last' = [op |-> "parse"]
  /\ UNCHANGED edits

CanEdit == last.op # "none" /\ edits < MaxEdits

Edit(new) ==
  /\ edits' = edits + 1
  /\ previous' = tree
  /\ tree' = Labelled(new, << >>)

(* tree.delete_range(from, to)                                             *)
Delete(from, to) ==
  /\ CanEdit
  /\ \E r \in {DeleteRange(tree, from, to)} :
       /\ Edit(r.tree)
       /\ last' = [op |-> "delete", from |-> from, to |-> to, removed |-> r.ret.removed,
                   parent |-> IF r.ret.parent = None THEN None
                              ELSE Found(r.tree, r.ret.parent),
                   detached |-> r.ret.parent # None /\ Found(r.tree, r.ret.parent) = None,
                   offset |-> r.ret.offset]

(* tree.insert(offset, x, preferred)                                       *)
Type(offset, preferred, x) ==
  /\ CanEdit
  /\ \E r \in {Insert(tree, offset, preferred, x)} :
       /\ Edit(r.tree)
       /\ last' = [op |-> "insert", offset |-> offset, x |-> x, preferred |-> preferred.id,
                   done |-> r.done]

(* parent.insert(offset, deleted), after a deletion that returned a parent *)
Undo ==
  /\ CanEdit
  /\ last.op = "delete" /\ last.parent # None
  /\ \E r \in {Insert(Labelled(At(tree, last.parent), << >>), last.offset, NoOne,
                        last.removed)} :
       /\ Edit(Put(tree, last.parent, r.tree))
       /\ last' = [op |-> "undo", of |-> previous, deleted |-> last.removed, done |-> r.done]

Leaves == {Flatten(tree)[i] : i \in DOMAIN Flatten(tree)}

Next ==
  \/ ParseText
  \/ \E from, to \in 0..Length(tree) : from < to /\ Delete(from, to)
  \/ \E offset \in 0..Length(tree), preferred \in Leaves \cup {NoOne}, x \in Inserted :
       Type(offset, preferred, x)
  \/ Undo

Spec == Init /\ [][Next]_vars

-----------------------------------------------------------------------------
(* Properties.                                                             *)

(* The characters as they are rendered, each with the placeables around it.*)
RECURSIVE Inside(_, _)
Inside(item, around) ==
  IF IsStr(item) THEN ForEach(item.str, LAMBDA c : <<c, around>>)
  ELSE LET inner(i) == Inside(i, around \cup ({item.cls} \ {"S"}))
       IN FlattenSeq(ForEach(item.sub, inner))

Rendered(t) == Inside(t, {})

(* Every string is in a leaf.  A string beside a node is rendered, but the *)
(* offsets of the leaves do not count it.                                  *)
Addressable(t) ==
  \A i \in DOMAIN DepthFirst(t) :
    LET n == DepthFirst(t)[i]
    IN IsLeaf(n) \/ \A k \in DOMAIN n.sub : ~IsStr(n.sub[k])

(* Parsing, typing and deleting keep every character within the reach of   *)
(* the offsets: only undoing the deletion of a placeable can put it beside *)
(* the string of a leaf.                                                   *)
EditsKeepOffsets ==
  Addressable(previous) /\ ~Addressable(tree) =>
    last.op = "undo" /\ ~IsPlain(last.deleted)

(* parse changes nothing of the text, puts every match that is not itself  *)
(* translatable into a placeable of its parser, those inside another match *)
(* as well, and leaves a tree in which prune finds nothing to do.          *)
ParseFindsPlaceables ==
  last.op = "parse" =>
    /\ Text(tree) = Text(previous)
    /\ Text(tree) # << >> => Labelled(Prune(tree), << >>) = tree
    /\ \A i \in DOMAIN Rendered(tree), p \in DOMAIN Parsers :
         Rendered(tree)[i][1] \in Parsers[p].chars /\ Parsers[p].cls \notin Translatable
           => Parsers[p].cls \in Rendered(tree)[i][2]

(* The range starts in a fragile leaf and goes on after it.                *)
EndsAfter(leaf, to) == to > ElemOffset(previous, leaf.id) + Length(leaf)

StartsFragile ==
  /\ IsFragile(RightOf(previous, last.from))
  /\ EndsAfter(RightOf(previous, last.from), last.to)

(* The k-th character of a text goes when it is in the range, unless the   *)
(* range has a part only of a leaf that is not editable: that leaf goes or *)
(* stays as a whole.                                                       *)
InRange(k) == last.from < k /\ k <= last.to

InLeaf(t, leaf) == {k \in 1..Length(t) : ElemAtOffset(t, k - 1).id = leaf.id}

Survives(k, leaf, own) ==
  IF IsEditable(leaf) \/ \A j \in own : InRange(j) THEN ~InRange(k)
  ELSE IsFragile(leaf) => \A j \in own : ~InRange(j)

StaysIn(t, k, leaf) == Survives(k, leaf, InLeaf(t, leaf))

KeptOf(t) ==
  SelectSeq([k \in 1..Length(t) |-> k], LAMBDA k : StaysIn(t, k, ElemAtOffset(t, k - 1)))

(* delete_range deletes the text of the range and nothing else, and every  *)
(* other character stays in its placeable: only a leaf that is not editable*)
(* goes or stays as a whole.  A range that starts in a fragile leaf is left *)
(* out: the code deletes that leaf and leaves the rest of the range.       *)
DeleteRemovesTheRange ==
  last.op = "delete" /\ Addressable(previous) /\ ~StartsFragile =>
    Rendered(tree) = ForEach(KeptOf(previous), LAMBDA k : Rendered(previous)[k])

(* insert puts the text at the offset and says so, or says that it did not *)
(* and changes nothing; no character changes its placeable.                *)
InsertAddsTheText ==
  last.op = "insert" /\ Addressable(previous) =>
    IF last.done
    THEN /\ Text(tree) = Slice(Text(previous), 0, last.offset) \o Text(last.x)
                           \o Slice(Text(previous), last.offset, Length(previous))
         /\ Rendered(previous) =
              SubSeq(Rendered(tree), 1, last.offset) \o
              SubSeq(Rendered(tree), last.offset + Length(last.x) + 1, Length(tree))
    ELSE tree = previous

IsPruned(t) == Addressable(t) /\ Labelled(Prune(t), << >>) = t

(* Where a deletion returns its parent, that is a node of the tree, and    *)
(* inserting there what was deleted gives the text back: for a tree that   *)
(* prune has nothing to do in.                                             *)
UndoRestores ==
  /\ last.op = "undo" /\ IsPruned(last.of) => last.done /\ Text(tree) = Text(last.of)
  /\ last.op = "delete" /\ IsPruned(previous) => ~last.detached
=============================================================================
