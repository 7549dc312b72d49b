----------------------------- MODULE MCMatcher ------------------------------
(***************************************************************************)
(* Memories that keep one, two or three candidates of up to four           *)
(* characters, and a terminology with terms that have other spellings,     *)
(* overlap or are as long as the text.                                     *)
(***************************************************************************)
EXTENDS Matcher, TLC

CONSTANTS Length, Halves

Memory(n, similarity) ==
  [kind |-> "memory", candidates |-> n, similarity |-> similarity, length |-> Length,
   usefuzzy |-> n = 3]
Terms == [kind |-> "terms", candidates |-> 1, similarity |-> Whole \div 10, length |-> 9,
          usefuzzy |-> FALSE]
MCMatchers == {Memory(1, Halves), Memory(2, Halves), Memory(3, Halves), Memory(2, 0), Terms}

U(source, target, fuzzy) == [source |-> source, target |-> <<target>>, fuzzy |-> fuzzy]
ab == <<"a", "b">>     aab == <<"a", "a", "b">>     abab == <<"a", "b", "a", "b">>
bb == <<"b", "b">>     aabb == <<"a", "a", "b", "b">>   long == <<"a", "a", "b", "b", "a">>
bay == <<"b", "a", "y">>    a_bay == <<"a", " ", "b", "a", "y">>    bab == <<"b", "a", "b">>

MCUnits ==
  [memory |-> {U(ab, "t", FALSE), U(ab, "u", FALSE), U(bb, "t", TRUE), U(aab, "t", FALSE),
               U(abab, "t", FALSE), U(aabb, "t", FALSE), U(long, "t", FALSE)},
   terms |-> {U(bay, "t", FALSE), U(bay, "u", FALSE), U(a_bay, "t", FALSE), U(bab, "t", FALSE),
              U(bab, "t", TRUE), U(ab, "t", FALSE)}]
MCTexts ==
  [memory |-> {ab, aab, abab, long, <<"a">>},
   terms |-> {bab, bay, ab, a_bay, <<"a", "b", "a", "y">> \o <<"b", "a", "b">>,
              <<"b", "a", "b", "a", "y">>, <<"a", "-", "b", "a", "i", "e">>}]
=============================================================================
