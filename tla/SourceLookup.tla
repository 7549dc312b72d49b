---------------------------- MODULE SourceLookup ----------------------------
(***************************************************************************)
(* What a store promises its clients (the docstrings of TranslationStore   *)
(* in translate/storage/base.py), without any index: units are added and   *)
(* removed, and findunit finds the first unit with a source.               *)
(***************************************************************************)
EXTENDS Sequences, Naturals

CONSTANTS Units,        \* the unit objects
          NoUnit,       \* None
          Source(_)     \* the source of a unit

VARIABLES units,        \* the units of the store
          answer        \* what the last findunit returned

FirstWith(source) ==
  LET found == {k \in DOMAIN units : Source(units[k]) = source}
  IN IF found = {} THEN NoUnit ELSE units[CHOOSE k \in found : \A l \in found : k <= l]

Init == units = << >> /\ answer = NoUnit

Add(unit) ==
  /\ unit \notin {units[k] : k \in DOMAIN units}
  /\ units' = Append(units, unit) /\ UNCHANGED answer

Remove(unit) ==
  \E k \in DOMAIN units :
    /\ units[k] = unit
    /\ units' = SubSeq(units, 1, k - 1) \o SubSeq(units, k + 1, Len(units))
    /\ UNCHANGED answer

Find(source) == answer' = FirstWith(source) /\ UNCHANGED units

Next ==
  \/ \E unit \in Units : Add(unit) \/ Remove(unit)
  \/ \E unit \in Units : Find(Source(unit))

Spec == Init /\ [][Next]_<<units, answer>>
=============================================================================
