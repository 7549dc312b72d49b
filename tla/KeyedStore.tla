----------------------------- MODULE KeyedStore -----------------------------
(***************************************************************************)
(* The stores whose files are trees of maps and lists: DictUnit, DictStore *)
(* and UnitId of translate/storage/base.py with the JSON store, which      *)
(* writes a new tree from its units (jsonl10n.py), and the YAML and TOML   *)
(* stores, which write their units over the tree they have read (yaml.py,  *)
(* toml.py).  A unit is a leaf with its path.  The order of the keys of a  *)
(* map, comments and layout are left out; for plurals see PluralForms.     *)
(***************************************************************************)
EXTENDS Integers, Sequences, FiniteSets, TLC

LOCAL INSTANCE SequencesExt   \* SetToSeq, RemoveAt
LOCAL INSTANCE Functions      \* Restrict

CONSTANTS
  Files,      \* the files to start from: [kind, root]
  Additions,  \* the ids that units may be added with
  Texts,      \* the translations that are entered
  MaxEdits    \* bound on the edits

VARIABLES
  kind,      \* "json" rebuilds its file, "yaml" keeps what it has read
  disk,      \* the file: a tree, or Truncated
  original,  \* the tree read, which a "yaml" store keeps (_original)
  units,     \* sequence of [parts, type, target]
  open,      \* the file has been read
  shifted,   \* a "yaml" store has removed something from a list
  last,      \* the last operation and whether it raised an exception
  edits

vars == <<kind, disk, original, units, open, shifted, last, edits>>

(* Trees: a part of a path is <<"key", k>> or <<"index", i>>, from zero.   *)
Leaf(type, text) == [type |-> type, text |-> text]
Map(f)  == [map |-> f]
List(s) == [list |-> s]
EmptyMap  == Map(<< >>)
EmptyList == List(<< >>)
Null == Leaf("null", "None")
Truncated == [nothing |-> TRUE]

IsMap(n)  == DOMAIN n = {"map"}
IsList(n) == DOMAIN n = {"list"}
IsText(n) == DOMAIN n = {"type", "text"} /\ n.type = "str"
IsKey(part) == part[1] = "key"

(* The child of a container and the container with another child.          *)
HasChild(n, part) ==
  \/ IsMap(n) /\ part \in DOMAIN n.map
  \/ IsList(n) /\ ~IsKey(part) /\ part[2] < Len(n.list)

Child(n, part) == IF IsMap(n) THEN n.map[part] ELSE n.list[part[2] + 1]

WithChild(n, part, child) ==
  IF IsMap(n) THEN Map((part :> child) @@ n.map)
  ELSE List([n.list EXCEPT ![part[2] + 1] = child])

WithoutChild(n, part) ==
  IF IsMap(n) THEN Map(Restrict(n.map, DOMAIN n.map \ {part}))
  ELSE List(RemoveAt(n.list, part[2] + 1))

(* All leaves below a node with their paths.                               *)
RECURSIVE Leaves(_, _)
Leaves(n, path) ==
  IF IsMap(n) THEN UNION {Leaves(n.map[p], Append(path, p)) : p \in DOMAIN n.map}
  ELSE IF IsList(n)
  THEN UNION {Leaves(n.list[i], Append(path, <<"index", i - 1>>)) : i \in DOMAIN n.list}
  ELSE {<<path, n>>}

-----------------------------------------------------------------------------
(* storevalue.                                                             *)

Done(n)   == [node |-> n, failed |-> FALSE]
Raised(n) == [node |-> n, failed |-> TRUE]    \* KeyError, IndexError, ...

RECURSIVE Padded(_, _, _)
Padded(s, n, item) == IF Len(s) < n THEN Padded(Append(s, item), n, item) ELSE s

(* Mutant: what the child held is given up.                                *)
PreparedAnew(child, useList) == IF useList THEN EmptyList ELSE EmptyMap

(* What becomes of a child that is to hold a list or a map.                *)
Prepared(child, useList) ==
  IF ~useList /\ IsList(child)
  THEN Map([p \in {<<"index", i - 1>> : i \in DOMAIN child.list} |->
              child.list[p[2] + 1]])
  ELSE IF (useList /\ IsMap(child)) \/ (useList /\ child = Null) THEN EmptyList
  ELSE IF child = Null THEN EmptyMap ELSE child

(* The container made ready for the next part of the path: missing children*)
(* are made, in a list all up to this one, and a text under a key gives way*)
Entered(n, part, useList, unset) ==
  LET default == IF useList THEN EmptyList ELSE EmptyMap
      grown == IF IsKey(part)
               THEN IF IsMap(n) /\ (HasChild(n, part) => IsText(Child(n, part)))
                    THEN WithChild(n, part, default) ELSE n
               ELSE IF IsList(n) /\ ~unset
               THEN List(Padded(n.list, part[2] + 1, default)) ELSE n
      fits == /\ HasChild(grown, part)
              /\ IsMap(n) /\ ~IsKey(part) =>
                   unset \/ Cardinality(DOMAIN n.map) > part[2]
  IN IF ~fits THEN Raised(n)
     ELSE Done(WithChild(grown, part, Prepared(Child(grown, part), useList)))

StoreLast(n, part, value) ==
  IF IsKey(part) THEN IF IsMap(n) THEN Done(WithChild(n, part, value)) ELSE Raised(n)
  ELSE IF IsList(n)
  THEN IF HasChild(n, part) THEN Done(WithChild(n, part, value))
       ELSE Done(List(Append(Padded(n.list, part[2], Null), value)))
  ELSE IF IsMap(n) /\ Cardinality(DOMAIN n.map) > part[2]
  THEN Done(WithChild(n, part, value)) ELSE Raised(n)

(* The length that an index is compared with.                              *)
Size(n) ==
  IF IsMap(n) THEN Cardinality(DOMAIN n.map)
  ELSE IF IsList(n) THEN Len(n.list) ELSE IF IsText(n) THEN Len(n.text) ELSE 0

(* Mutant: the leaf stays.                                                 *)
UnsetNothing(n, part) == Done(n)

UnsetLast(n, part) ==
  IF HasChild(n, part) THEN Done(WithoutChild(n, part))
  ELSE IF ~IsKey(part) /\ (IsMap(n) \/ IsList(n) \/ IsText(n)) /\ Size(n) <= part[2]
  THEN Done(n) ELSE Raised(n)

(* storevalue without unset.                                               *)
RECURSIVE Stored(_, _, _)
Stored(n, parts, value) ==
  IF Len(parts) = 1 THEN StoreLast(n, parts[1], value)
  ELSE LET e == Entered(n, parts[1], ~IsKey(parts[2]), FALSE)
           below == Stored(Child(e.node, parts[1]), Tail(parts), value)
       IN IF e.failed THEN e
          ELSE [below EXCEPT !.node = WithChild(e.node, parts[1], @)]

(* Mutant: the map goes with the first of its keys.                        *)
GoesWithAny(parts, below) ==
  Len(parts) = 2 /\ IsKey(parts[2]) /\ ~below.failed /\ parts[1] # <<"index", 0>>

(* A map left empty goes as well, unless it is the first item of a list;   *)
(* what held it stays, even when that is now empty.                        *)
Goes(parts, below) ==
  /\ Len(parts) = 2 /\ IsKey(parts[2]) /\ ~below.failed
  /\ below.node = EmptyMap /\ parts[1] # <<"index", 0>>

(* storevalue with unset.                                                  *)
RECURSIVE Unset(_, _)
Unset(n, parts) ==
  IF Len(parts) = 1 THEN UnsetLast(n, parts[1])
  ELSE LET e == Entered(n, parts[1], ~IsKey(parts[2]), TRUE)
           below == Unset(Child(e.node, parts[1]), Tail(parts))
       IN IF e.failed THEN e
          ELSE IF Goes(parts, below) THEN Done(WithoutChild(e.node, parts[1]))
          ELSE [below EXCEPT !.node = WithChild(e.node, parts[1], @)]

-----------------------------------------------------------------------------
(* Reading and writing.                                                    *)

(* converttarget: a bool of any text but the empty one is true.            *)
Converted(unit) ==
  IF unit.type = "bool" /\ IsText(unit.target) THEN Leaf("bool", "True") ELSE unit.target

(* _extract_units and _flatten.                                            *)
Unit(path, leaf) ==
  IF kind = "json" THEN [parts |-> path, type |-> leaf.type, target |-> leaf]
  ELSE [parts |-> path, type |-> "str", target |-> Leaf("str", leaf.text)]

ParsedUnits(root) ==
  LET leaves == {l \in Leaves(root, << >>) : kind = "yaml" => l[2] # Null}
  IN SetToSeq({Unit(l[1], l[2]) : l \in leaves})

(* serialize_units: the units one after the other, until one raises.       *)
RECURSIVE StoredAll(_, _)
StoredAll(n, us) ==
  IF us = << >> THEN Done(n)
  ELSE LET one == Stored(n, Head(us).parts, Converted(Head(us)))
       IN IF one.failed THEN one ELSE StoredAll(one.node, Tail(us))

(* get_root_node; the YAML store's is a map.                               *)
RootNode ==
  IF kind = "json" /\ units # << >> /\ \A i \in DOMAIN units : ~IsKey(units[i].parts[1])
  THEN EmptyList ELSE EmptyMap

(* What a reader of the file finds: the integer keys of a map are strings. *)
RECURSIVE Dumped(_)
Dumped(n) ==
  LET name(p) == IF IsKey(p) THEN p ELSE <<"key", ToString(p[2])>>
  IN IF IsMap(n)
     THEN Map([q \in {name(p) : p \in DOMAIN n.map} |->
                 Dumped(n.map[CHOOSE p \in DOMAIN n.map : name(p) = q])])
     ELSE IF IsList(n) THEN List([i \in DOMAIN n.list |-> Dumped(n.list[i])])
     ELSE n

-----------------------------------------------------------------------------
(* The operations.                                                         *)

Init ==
  /\ \E f \in Files : kind = f.kind /\ disk = f.root /\ original = EmptyMap
  /\ units = << >> /\ open = FALSE /\ shifted = FALSE
  /\ last = [op |-> "none", failed |-> FALSE]
  /\ edits = 0

(* parse: an empty file is an error for JSON and no units for YAML.        *)
Load ==
  /\ ~open
  /\ open' = (disk = Truncated => kind = "yaml")
  /\ LET root == IF disk = Truncated THEN EmptyMap ELSE disk
     IN /\ original' = IF kind = "yaml" THEN root ELSE original
        /\ units' = ParsedUnits(root)
  /\ last' = [op |-> "load", failed |-> ~open']
  /\ UNCHANGED <<kind, disk, shifted, edits>>

Edit == open /\ edits < MaxEdits /\ edits' = edits + 1

(* unit.target = text                                                      *)
SetTarget(i, text) ==
  /\ Edit
  /\ units' = [units EXCEPT ![i].target = Leaf("str", text)]
  /\ last' = [op |-> "edit", failed |-> FALSE]
  /\ UNCHANGED <<kind, disk, original, open, shifted>>

(* addunit of a new unit with this id                                      *)
AddUnit(parts, text) ==
  /\ Edit
  /\ units' = Append(units, [parts |-> parts, type |-> "str", target |-> Leaf("str", text)])
  /\ last' = [op |-> "add", failed |-> FALSE]
  /\ UNCHANGED <<kind, disk, original, open, shifted>>

(* removeunit: a YAML store first takes the leaf out of the tree it keeps. *)
RemoveUnit(i) ==
  /\ Edit
  /\ \E r \in {IF kind = "yaml" THEN Unset(original, units[i].parts) ELSE Done(original)} :
       /\ original' = r.node
       /\ units' = IF r.failed THEN units ELSE RemoveAt(units, i)
       /\ shifted' = (shifted \/ (kind = "yaml" /\
                        \E k \in DOMAIN units[i].parts : ~IsKey(units[i].parts[k])))
       /\ last' = [op |-> "remove", failed |-> r.failed, unit |-> units[i]]
  /\ UNCHANGED <<kind, disk, open>>

(* savefile: the file is opened, and emptied, before it is written.        *)
Save ==
  /\ open
  /\ \E r \in {StoredAll(IF kind = "yaml" THEN original ELSE RootNode, units)} :
       /\ disk' = IF r.failed THEN Truncated ELSE Dumped(r.node)
       /\ original' = IF kind = "yaml" THEN r.node ELSE original
       /\ last' = [op |-> "save", failed |-> r.failed]
  /\ UNCHANGED <<kind, units, open, shifted, edits>>

(* The store is given up; the file is what is left.                        *)
Close ==
  /\ open
  /\ open' = FALSE /\ shifted' = FALSE /\ units' = << >> /\ original' = EmptyMap
  /\ last' = [op |-> "close", failed |-> FALSE]
  /\ UNCHANGED <<kind, disk, edits>>

Next ==
  \/ Load \/ Save \/ Close
  \/ \E i \in DOMAIN units, text \in Texts : SetTarget(i, text)
  \/ \E parts \in Additions, text \in Texts : AddUnit(parts, text)
  \/ \E i \in DOMAIN units : RemoveUnit(i)

Spec == Init /\ [][Next]_vars

-----------------------------------------------------------------------------
(* Properties.                                                             *)

RECURSIVE HasOnlyStringKeys(_)
HasOnlyStringKeys(n) ==
  /\ IsMap(n) => \A p \in DOMAIN n.map : IsKey(p) /\ HasOnlyStringKeys(n.map[p])
  /\ IsList(n) => \A i \in DOMAIN n.list : HasOnlyStringKeys(n.list[i])

(* Two paths can be in one tree: neither goes through the other, and where *)
(* they part they do so in one map or in one list.                         *)
Agree(p, q) ==
  \E k \in DOMAIN p \cap DOMAIN q :
    /\ SubSeq(p, 1, k - 1) = SubSeq(q, 1, k - 1)
    /\ p[k] # q[k] /\ p[k][1] = q[k][1]

Consistent ==
  \A i, j \in DOMAIN units : i # j => Agree(units[i].parts, units[j].parts)

(* The unit fits into the tree that a YAML store keeps.                    *)
FitsTree(unit) ==
  kind = "yaml" =>
    /\ IsMap(original) <=> IsKey(unit.parts[1])
    /\ \A l \in Leaves(original, << >>) :
         l[1] = unit.parts \/ l[2] = Null \/ Agree(l[1], unit.parts)

FitsOriginal == \A i \in DOMAIN units : FitsTree(units[i])

Content == {<<units[i].parts, Converted(units[i])>> : i \in DOMAIN units}
Kept(leaves) == {l \in leaves : l[2] # Null}

(* What is saved is what is read again: the file has the leaf of every unit*)
(* at its path and, placeholders in lists aside, no other.  (For removals  *)
(* from the lists of a YAML store see RemovedIsGone.)                      *)
SavedIsRead ==
  last = [op |-> "save", failed |-> FALSE] /\ Consistent /\ FitsOriginal /\ ~shifted =>
    Kept(Leaves(disk, << >>)) = Kept(Content)

(* Nothing else claims the unit's place, no other unit and no leaf of the  *)
(* tree that a YAML store keeps.                                           *)
IsUncontested(i) ==
  /\ FitsTree(units[i])
  /\ \A j \in DOMAIN units \ {i} : Agree(units[i].parts, units[j].parts)

(* Where units claim one place as different things a save may raise an     *)
(* exception or, in silence, replace what one of them has written: a text  *)
(* or a map gives way to what the next unit needs there.  But it raises    *)
(* only then, and whatever becomes of the units in conflict, a save that   *)
(* succeeds has written every unit whose place is uncontested.             *)
ConflictsStayLocal ==
  [][Save =>
       IF last'.failed THEN ~Consistent \/ ~FitsOriginal
       ELSE \A i \in DOMAIN units : IsUncontested(i) =>
              <<units[i].parts, Converted(units[i])>> \in Leaves(disk', << >>)]_vars

(* A YAML store removes one leaf of the tree it keeps and no other, the    *)
(* null placeholders of lists aside; only after a removal from a list or a *)
(* conflict that made a list into a map, or for a unit that is not in the  *)
(* tree, may the removal raise an exception.                               *)
RemovalTakesOneLeaf ==
  [][last'.op = "remove" /\ kind = "yaml" /\ ~shifted
     /\ Consistent /\ HasOnlyStringKeys(original) =>
       LET parts == last'.unit.parts
           before == Kept(Leaves(original, << >>))
           after == Kept(Leaves(original', << >>))
           gone == {l \in before : l[1] = parts}
           inLists == \E k \in DOMAIN parts : ~IsKey(parts[k])
       IN /\ gone # {} => ~last'.failed
          /\ Cardinality(after) = Cardinality(before \ gone)
          /\ ~inLists => after = before \ gone]_vars

(* "Remove the given unit": the file that is saved afterwards has no leaf  *)
(* without a unit.                                                         *)
RemovedIsGone ==
  last = [op |-> "save", failed |-> FALSE] /\ Consistent =>
    Kept(Leaves(disk, << >>)) \subseteq Content
=============================================================================
