----------------------------- MODULE UnitStore -----------------------------
(***************************************************************************)
(* TranslationStore (translate/storage/base.py): a list of units and the   *)
(* three indexes built over it when something is first looked up.  Units   *)
(* are objects: two of them can be equal (same source, target and id), and *)
(* the code compares units with ==, never by identity.                     *)
(***************************************************************************)
EXTENDS Selection, SequencesExt

CONSTANTS
  Units,          \* the unit objects
  NoUnit,         \* None
  Attributes,     \* the source, id and set of locations of each unit
  Texts,          \* the targets a unit may be given
  NoTarget,         \* no target
  AddAfterLookup  \* whether clients add units once they have looked one up

VARIABLES
  units,          \* self.units
  target,         \* the target of each unit object
  id_index, sourceindex, locationindex,  \* partial functions
  answer,         \* what the last findunit returned
  failed          \* the last call raised ValueError

vars == <<units, target, id_index, sourceindex, locationindex, answer, failed>>
indexes == <<id_index, sourceindex, locationindex>>

Source(u)    == Attributes[u].source
Id(u)        == Attributes[u].id
Locations(u) == Attributes[u].locations

(* The promises of the store rest on the ids of its units: two equal units *)
(* cannot be told apart by a removal.                                      *)
IdsAreDistinct == \A u, v \in Units : Id(u) = Id(v) => u = v

(* Mutant: units of the same text are equal, whatever their ids. *)
EqualTexts(u, v) == Source(u) = Source(v) /\ target[u] = target[v]

(* TranslationUnit.__eq__ *)
Equal(u, v) == Source(u) = Source(v) /\ target[u] = target[v] /\ Id(u) = Id(v)

Empty == [key \in {} |-> NoUnit]
Without(index, key) == [k \in DOMAIN index \ {key} |-> index[k]]
Members == Range(units)

-----------------------------------------------------------------------------
Init ==
  /\ units = << >> /\ target = [u \in Units |-> NoTarget]
  /\ id_index = Empty /\ sourceindex = Empty /\ locationindex = Empty
  /\ answer = NoUnit /\ failed = FALSE

Sharing(source) == Select(units, {u \in Members : Source(u) = source})

(* makeindex, as add_unit_to_index fills the indexes in the order of the   *)
(* units: of an id the last unit is kept, of a source all, of a location   *)
(* the first.                                                              *)
MakeIndex ==
  LET last(id) == units[Max({k \in DOMAIN units : Id(units[k]) = id})]
      first(l) == units[Min({k \in DOMAIN units : l \in Locations(units[k])})]
  IN /\ id_index' = [id \in {Id(u) : u \in Members} |-> last(id)]
     /\ sourceindex' = [s \in {Source(u) : u \in Members} |-> Sharing(s)]
     /\ locationindex' = [l \in UNION {Locations(u) : u \in Members} |-> first(l)]

(* require_index: an index once built is never checked against the units.  *)
RequireIndex ==
  IF DOMAIN id_index = {} THEN MakeIndex ELSE UNCHANGED indexes

(* addunit does not tell the indexes. *)
AddUnit(u) ==
  /\ u \notin Members
  /\ AddAfterLookup \/ DOMAIN id_index = {}
  /\ units' = Append(units, u)
  /\ failed' = FALSE
  /\ UNCHANGED <<target, indexes, answer>>

ChangeTarget(u, text) ==
  /\ u \in Members
  /\ target' = [target EXCEPT ![u] = text]
  /\ failed' = FALSE
  /\ UNCHANGED <<units, indexes, answer>>

(* list.remove, which compares with ==. *)
ListRemove(list, u) == RemoveFirstMatch(list, LAMBDA v : Equal(v, u))

IsIndexed(u) == Source(u) \in DOMAIN sourceindex
Listed(u)  == ListRemove(sourceindex[Source(u)], u)

(* Mutant: nothing is taken out of the source index. *)
SourceIndexKept(u) == sourceindex

(* remove_source and the loop over locations in remove_unit_from_index. *)
SourceIndexWithout(u) ==
  IF ~IsIndexed(u) THEN sourceindex
  ELSE IF Listed(u) = << >> THEN Without(sourceindex, Source(u))
  ELSE [sourceindex EXCEPT ![Source(u)] = Listed(u)]

LocationIndexWithout(u) ==
  LET stale == {l \in Locations(u) \cap DOMAIN locationindex : Equal(locationindex[l], u)}
  IN [l \in DOMAIN locationindex \ stale |-> locationindex[l]]

(* removeunit: the first unit that is equal to u leaves the list, then u   *)
(* leaves the source and location indexes.  list.remove raises if nothing  *)
(* in the source index is equal to u: the list has lost its unit by then,  *)
(* the location index keeps it.  The id index is left alone.               *)
RemoveUnit(u) ==
  LET raises == IsIndexed(u) /\ \A v \in Range(sourceindex[Source(u)]) : ~Equal(v, u)
  IN /\ u \in Members
     /\ units' = ListRemove(units, u)
     /\ failed' = raises
     /\ sourceindex' = IF raises THEN sourceindex ELSE SourceIndexWithout(u)
     /\ locationindex' = IF raises THEN locationindex ELSE LocationIndexWithout(u)
     /\ UNCHANGED <<target, id_index, answer>>

(* Mutant: the newest unit wins, as it does in the id index. *)
NewestFound(source, index) ==
  IF source \in DOMAIN index THEN index[source][Len(index[source])] ELSE NoUnit

Found(source, index) == IF source \in DOMAIN index THEN Head(index[source]) ELSE NoUnit

Find(source) ==
  /\ RequireIndex
  /\ answer' = Found(source, sourceindex')
  /\ failed' = FALSE
  /\ UNCHANGED <<units, target>>

(* A client that calls makeindex itself, as the converters do. *)
Reindex == MakeIndex /\ failed' = FALSE /\ UNCHANGED <<units, target, answer>>

Next ==
  \/ \E u \in Units : AddUnit(u) \/ RemoveUnit(u)
  \/ \E u \in Units, text \in Texts : ChangeTarget(u, text)
  \/ \E u \in Units : Find(Source(u))
  \/ Reindex

Spec == Init /\ [][Next]_vars

-----------------------------------------------------------------------------
(* As long as clients look nothing up before the last addition, findunit   *)
(* answers as if it searched the list: removals, edits that make units     *)
(* equal and rebuilt indexes never make the source index wrong.            *)
Lookup == INSTANCE SourceLookup WITH
            Units <- Units, NoUnit <- NoUnit, Source <- Source,
            units <- units, answer <- answer
LookupSpec == Lookup!Spec

(* Under the same rule an index that is in place lists, for each source,   *)
(* exactly the units of the store with that source, in their order, and no *)
(* location leads to a unit that has been removed.                         *)
InOrder(list) ==
  \A i, j \in DOMAIN list :
    i < j => \E k, l \in DOMAIN units : k < l /\ units[k] = list[i] /\ units[l] = list[j]

IndexesAreExact ==
  DOMAIN id_index # {} /\ ~AddAfterLookup =>
    /\ DOMAIN sourceindex = {Source(u) : u \in Members}
    /\ \A source \in DOMAIN sourceindex :
         /\ Range(sourceindex[source]) = {u \in Members : Source(u) = source}
         /\ InOrder(sourceindex[source])
    /\ Range(locationindex) \subseteq Members

(* "Remove the given unit": it never raises half way, and afterwards the   *)
(* store does not have the unit.  The list is searched by equality, so     *)
(* this rests on the ids being distinct.                                   *)
RemoveRemoves ==
  [][\A u \in Units : RemoveUnit(u) => u \notin Range(units') /\ ~failed']_vars
=============================================================================
