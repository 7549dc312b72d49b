--------------------------- MODULE MCPoDuplicates ---------------------------
(* Up to three units of one source, with and without a context, and units  *)
(* with an empty source.                                                   *)
EXTENDS PoDuplicates

CONSTANTS Title, A, B, Context, Place1, Place2

MCNoContext == << >>

Unit(source, context, target, fuzzy, locations) ==
  Parse([NewUnit(source, context) EXCEPT
           !.target = target, !.locations = locations,
           !.typecomments = IF fuzzy THEN OneLine([f \in Flags |-> 1]) ELSE NoFlags])

Triples(set) == {<<u, v, w>> : u \in set, v \in set, w \in set}

(* Places may be shared, and are missing from a CSV file without them. *)
SomePlaces == {<<Place1>>, <<Place2>>, << >>}

(* Translations that differ, fuzzy or not, at shared places. *)
MergeInputs ==
  Triples({Unit(Title, << >>, t, f, l) : t \in {NoText, A, B}, f \in BOOLEAN,
                                         l \in {<<Place1>>, <<Place2>>, <<Place1, Place2>>}})

(* Any source, context and place; the context may be the text of a place.  *)
(* An empty msgid with a translation and no place or context is the        *)
(* header, one without a translation is not.                               *)
PlacedInputs ==
  LET contexts == {<< >>, <<Context>>, <<<<Place1>>>>}
  IN Triples({Unit(Title, c, t, FALSE, l) : c \in contexts, t \in {A, B}, l \in SomePlaces}
             \cup {Unit(NoText, c, t, FALSE, l) : c \in contexts \ {<<<<Place1>>>>},
                                                  t \in {NoText, A}, l \in SomePlaces})

MCInputs == [merge |-> MergeInputs \cup PlacedInputs, msgctxt |-> PlacedInputs]

ASSUME ConvertedFiles
=============================================================================
