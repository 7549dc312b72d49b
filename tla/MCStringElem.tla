---------------------------- MODULE MCStringElem ----------------------------
(***************************************************************************)
(* Texts over plain characters "a", newlines "n", matches "f" of a         *)
(* formatting placeable, "1" of NumberPlaceable and "g" of a translatable  *)
(* one, which takes numbers in: all of at most two characters, and longer  *)
(* ones that parse to several leaves and to nodes in nodes.                *)
(***************************************************************************)
EXTENDS StringElem

Alphabet == {"a", "n", "f", "1", "g"}

Texts ==
  UNION {[1..n -> Alphabet] : n \in 0..2} \cup
  { <<"a", "n", "a">>, <<"a", "n", "g">>, <<"a", "1", "g">>, <<"g", "a", "n">>,
    <<"a", "f", "n">>, <<"n", "f", "a">>, <<"a", "a", "n">>, <<"f", "a", "f">>,
    <<"1", "g", "1", "a">>, <<"a", "n", "a", "g">>, <<"n", "a", "n", "a">> }

PlaceableParsers ==
  << [cls |-> "G",       chars |-> {"g", "1"}, runs |-> TRUE],
     [cls |-> "Newline", chars |-> {"n"},      runs |-> FALSE],
     [cls |-> "Number",  chars |-> {"1"},      runs |-> TRUE],
     [cls |-> "Format",  chars |-> {"f"},      runs |-> TRUE] >>

TypedText == {Plain(<<"b">>)}
=============================================================================
