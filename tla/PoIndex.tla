------------------------------- MODULE PoIndex -------------------------------
(***************************************************************************)
(* The indexes makeindex builds over a Gettext file that is not changed    *)
(* while it is looked at (translate/storage/base.py): positions in the     *)
(* sequence of its units, 0 for no unit.                                   *)
(***************************************************************************)
EXTENDS PoUnit, FiniteSetsExt

(* A file as a sequence of units. *)
IsStore(store) == store \in Seq(Range(store)) /\ \A k \in DOMAIN store : IsUnit(store[k])

UniqueIds(store) ==
  \A i, j \in DOMAIN store : GetId(store[i]) = GetId(store[j]) => i = j

Indexed(store) == {k \in DOMAIN store : ~IsHeader(store[k]) /\ ~IsBlank(store[k])}

FirstOf(positions) == IF positions = {} THEN 0 ELSE Min(positions)
LastOf(positions)  == IF positions = {} THEN 0 ELSE Max(positions)

HasId(store, id)           == \E k \in Indexed(store) : GetId(store[k]) = id
FindId(store, id)          == LastOf({k \in Indexed(store) : GetId(store[k]) = id})
FindUnit(store, source)    == FirstOf({k \in Indexed(store) : store[k].source = source})
FindLocation(store, place) == FirstOf({k \in Indexed(store) : place \in Range(store[k].locations)})
=============================================================================
