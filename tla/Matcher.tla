------------------------------ MODULE Matcher -------------------------------
(***************************************************************************)
(* The translation memory and the terminology matcher of                   *)
(* translate/search/match.py: units are remembered, sorted by length; a    *)
(* text is matched by a binary search for the first candidate of a fitting *)
(* length and a loop over those that follow.  The memory keeps the best    *)
(* candidates in a heap and, as they get better, looks at fewer lengths.   *)
(* Terms are looked for in the text, and those that overlap with an        *)
(* earlier one are dropped.                                                *)
(*                                                                         *)
(* Texts are sequences of lower case characters; contexts in brackets,     *)
(* notes and plural forms are left out.                                    *)
(***************************************************************************)
EXTENDS Levenshtein, Selection

CONSTANTS
  Characters,  \* what texts are made of
  Matchers,   \* [kind, candidates, similarity, length, usefuzzy]
  Units,      \* what each kind may remember: [source, target, fuzzy]
  Texts,      \* what each kind may be asked
  MaxUnits    \* bound on the units that are offered

Text == Seq(Characters)
Unit == [source : Text, target : Text, fuzzy : BOOLEAN]
Kinds == {"memory", "terms"}

(* A memory asks for scores it can count: its texts, cut to its length,    *)
(* divide the whole.                                                       *)
IsMatcher(m) ==
  /\ m.kind \in Kinds /\ m.candidates \in Nat \ {0}
  /\ m.similarity \in 0 .. Whole /\ m.length \in Nat
  /\ m.kind = "memory" => \A n \in 1 .. m.length : \E k \in 1 .. Whole : Whole = k * n

ASSUME MatcherAssumption ==
  /\ {"i", "e", " ", "-"} \subseteq Characters
  /\ \A m \in Matchers : IsMatcher(m)
  /\ \A kind \in Kinds : Units[kind] \subseteq Unit /\ Texts[kind] \subseteq Text

VARIABLES
  matcher,     \* one of Matchers
  existing,    \* existingunits: <<source, target>> of each source's last unit
  candidates,  \* what is remembered: [source, target, fuzzy]
  offered,     \* how many units have been offered
  pc,          \* where the matcher is
  text,        \* the text to match
  startindex, endindex,   \* of the binary search, from 0
  next,        \* the candidate in turn
  best,        \* bestcandidates, a heap of [score, unit]: 0 is no unit
  found,       \* the candidates that are terms of the text
  result       \* the answer: numbers of candidates

vars == <<matcher, existing, candidates, offered, pc, text, startindex, endindex,
          next, best, found, result>>

IsTerms == matcher.kind = "terms"

-----------------------------------------------------------------------------
(* Remembering.                                                            *)

(* usable, for translations and for terms.                                 *)
Usable(u) ==
  IF IsTerms THEN u.target # << >> /\ ~u.fuzzy /\ Len(u.source) \in 3 .. matcher.length
  ELSE /\ u.target # << >> /\ Len(u.source) >= 2
       /\ matcher.usefuzzy \/ ~u.fuzzy
       /\ <<u.source, u.target>> \notin existing

(* list.sort, a stable sort: the numbers of the items in their new order,  *)
(* where key[i] is the key of the i-th.                                    *)
Order(key) ==
  LET before(i) == {j \in DOMAIN key : key[j] < key[i] \/ (key[j] = key[i] /\ j < i)}
  IN [k \in DOMAIN key |-> CHOOSE i \in DOMAIN key : Cardinality(before(i)) = k - 1]

SortedBy(list, key) == [k \in DOMAIN list |-> list[Order(key)[k]]]

(* By length, the longest first for terms.                                 *)
Sorted(units) ==
  SortedBy(units, [i \in DOMAIN units |-> IF IsTerms THEN -Len(units[i].source)
                                          ELSE Len(units[i].source)])

(* extendtm of one unit, which sorts what there is in any case.            *)
Remember(u) ==
  /\ existing' = IF IsTerms \/ ~Usable(u) THEN existing
                 ELSE {e \in existing : e[1] # u.source} \cup {<<u.source, u.target>>}
  /\ candidates' = Sorted(IF Usable(u) THEN Append(candidates, u) ELSE candidates)

(* The other spellings of a term: y at the end becomes ie, one gap or      *)
(* hyphen goes, a hyphen becomes a gap, a gap a hyphen.                    *)
Gaps(source) == {i \in DOMAIN source : source[i] = " "}
Hyphens(source) == {i \in DOMAIN source : source[i] = "-"}

Replaced(source, i, new) ==
  SubSeq(source, 1, i - 1) \o new \o SubSeq(source, i + 1, Len(source))

Alternatives(source) ==
  LET one(places, new) ==
        IF Cardinality(places) # 1 THEN << >>
        ELSE << Replaced(source, CHOOSE i \in places : TRUE, new) >>
      last == {i \in DOMAIN source : i = Len(source) /\ source[i] = "y"}
  IN one(last, <<"i", "e">>) \o one(Gaps(source) \cup Hyphens(source), << >>)
       \o one(Hyphens(source), <<" ">>) \o one(Gaps(source), <<"-">>)

Respelled(u) ==
  LET spellings == Alternatives(u.source)
  IN [k \in DOMAIN spellings |-> [u EXCEPT !.source = spellings[k]]]

Extras(units) ==
  LET extras[k \in 0 .. Len(units)] ==
        IF k = 0 THEN << >> ELSE extras[k - 1] \o Respelled(units[k])
  IN Select(extras[Len(units)], {u \in Unit : Usable(u)})

-----------------------------------------------------------------------------
(* heapreplace.  Comparing two different units of the same score raises    *)
(* TypeError.                                                              *)

NoUnit == [score |-> 0, unit |-> 0]

Content(item) ==
  IF item.unit = 0 THEN << >>
  ELSE <<candidates[item.unit].source, candidates[item.unit].target>>

Comparable(x, y) == x.score # y.score \/ Content(x) = Content(y)

(* The child that moves up: the right one unless the left one is less.     *)
SmallerChild(heap, p) ==
  IF 2 * p + 1 <= Len(heap) /\ ~(heap[2 * p].score < heap[2 * p + 1].score)
  THEN 2 * p + 1 ELSE 2 * p

(* The places from the root to a leaf that the smaller children leave.     *)
Path(heap) ==
  LET downward(places) ==
        1 \in places /\ \A p \in places :
          2 * p <= Len(heap) => SmallerChild(heap, p) \in places
  IN {p \in DOMAIN heap : \A places \in SUBSET DOMAIN heap : downward(places) => p \in places}

(* Where the new item comes to rest on its way up from that leaf.          *)
Rest(heap, item) == Max({1} \cup {p \in Path(heap) : ~(item.score < heap[p].score)})

HeapReplace(heap, item) ==
  [p \in DOMAIN heap |->
     IF p = Rest(heap, item) THEN item
     ELSE IF p \in Path(heap) /\ p < Rest(heap, item) THEN heap[SmallerChild(heap, p)]
     ELSE heap[p]]

HeapRaises(heap, item) ==
  \/ \E p \in Path(heap) :
       2 * p + 1 <= Len(heap) /\ ~Comparable(heap[2 * p], heap[2 * p + 1])
  \/ \E p \in Path(heap) \ {1} :
       p >= Rest(heap, item) /\ ~Comparable(item, heap[p])

-----------------------------------------------------------------------------
(* Matching.                                                               *)

LowestScore == best[1].score
MinSimilarity == Max({matcher.similarity, LowestScore})

(* Mutant: a term as long as the text is too long.                         *)
BeforeOrAsLong(c) ==
  IF IsTerms THEN Len(c.source) >= Len(text)
  ELSE Len(c.source) * Whole < Len(text) * matcher.similarity \/ Len(c.source) < 1

(* The candidate is too short to be looked at, or, for terms, too long.    *)
Before(c) ==
  IF IsTerms THEN Len(c.source) > Len(text)
  ELSE Len(c.source) * Whole < Len(text) * matcher.similarity \/ Len(c.source) < 1

(* Mutant: a candidate of just that length is too long.                    *)
TooLongByOne(c) ==
  ~IsTerms /\ (\/ Len(c.source) * MinSimilarity >= Len(text) * Whole
               \/ Len(c.source) > matcher.length)

(* It is too long, and so are all that follow.                             *)
TooLong(c) ==
  ~IsTerms /\ (\/ Len(c.source) * MinSimilarity > Len(text) * Whole
               \/ Len(c.source) > matcher.length)

(* find: where a term begins, 0 if it is not in the text.                  *)
Place(term) ==
  LET cut == SubSeq(text, 1, Min({Len(text), matcher.length}))
      places == {i \in 1 .. Len(cut) - Len(term) + 1 :
                   SubSeq(cut, i, i + Len(term) - 1) = term}
  IN IF places = {} THEN 0 ELSE Min(places)

(* The units of the heap in the answer, best first.                        *)
BestFirst ==
  LET filled == Select(best, {item \in Range(best) : item.score # 0})
      ordered == SortedBy(filled, [i \in DOMAIN filled |-> -filled[i].score])
  IN [k \in DOMAIN ordered |-> ordered[k].unit]

(* _sort_matches: by length, the longest first, and then by place.         *)
InOrder ==
  LET length(list) == [i \in DOMAIN list |-> -Len(candidates[list[i]].source)]
      place(list) == [i \in DOMAIN list |-> Place(candidates[list[i]].source)]
      ordered == SortedBy(found, length(found))
  IN SortedBy(ordered, place(ordered))

Start(c) == Place(candidates[c].source)
End(c) == Start(c) + Len(candidates[c].source)

(* The others of the same place and end.                                   *)
Same(c, terms) ==
  Select(terms, {d \in Range(terms) : d # c /\ Start(d) = Start(c) /\ End(d) = End(c)})

(* Mutant: a term may begin within the one before it.                      *)
PickedFromStart(terms) ==
  LET picked[k \in 0 .. Len(terms)] ==
        IF k = 0 THEN [list |-> << >>, lastend |-> 0]
        ELSE IF Start(terms[k]) <= picked[k - 1].lastend THEN picked[k - 1]
        ELSE [list |-> picked[k - 1].list \o <<terms[k]>> \o Same(terms[k], terms),
              lastend |-> Start(terms[k])]
  IN picked[Len(terms)].list

(* final_matches: the first term, the others of the same place and end,    *)
(* then the first that begins after that end, and so on.                   *)
Picked(terms) ==
  LET picked[k \in 0 .. Len(terms)] ==
        IF k = 0 THEN [list |-> << >>, lastend |-> 0]
        ELSE IF Start(terms[k]) < picked[k - 1].lastend THEN picked[k - 1]
        ELSE [list |-> picked[k - 1].list \o <<terms[k]>> \o Same(terms[k], terms),
              lastend |-> End(terms[k])]
  IN picked[Len(terms)].list

-----------------------------------------------------------------------------
Idle == pc \in {"filling", "idle", "answered", "raised"}

Init ==
  /\ matcher \in Matchers
  /\ existing = {} /\ candidates = << >> /\ offered = 0
  /\ pc = "filling" /\ text = << >> /\ startindex = 0 /\ endindex = 0 /\ next = 0
  /\ best = << >> /\ found = << >> /\ result = << >>

(* A unit of the stores that the matcher is made of or of a later call of  *)
(* extendtm.                                                               *)
Extend(u) ==
  /\ Idle /\ offered < MaxUnits
  /\ Remember(u)
  /\ offered' = offered + 1
  /\ pc' = IF pc = "filling" THEN pc ELSE "idle"
  /\ text' = << >> /\ result' = << >> /\ best' = << >> /\ found' = << >>
  /\ UNCHANGED <<matcher, startindex, endindex, next>>

(* The end of inittm; the other spellings come after all the terms.        *)
Fill ==
  /\ pc = "filling" /\ candidates # << >>
  /\ candidates' = IF IsTerms THEN candidates \o Extras(candidates) ELSE candidates
  /\ pc' = "idle"
  /\ UNCHANGED <<matcher, existing, offered, text, startindex, endindex, next, best, found, result>>

Matches(t) ==
  /\ Idle /\ pc # "filling"
  /\ text' = t /\ found' = << >> /\ result' = << >>
  /\ best' = [i \in 1 .. matcher.candidates |-> NoUnit]
  /\ startindex' = 0 /\ endindex' = Len(candidates) /\ next' = 0
  /\ pc' = IF IsTerms /\ Len(t) < 3 THEN "answered" ELSE "searching"
  /\ UNCHANGED <<matcher, existing, candidates, offered>>

(* One turn of the binary search.                                          *)
Search ==
  /\ pc = "searching" /\ startindex < endindex
  /\ LET mid == (startindex + endindex) \div 2
     IN IF Before(candidates[mid + 1])
        THEN startindex' = mid + 1 /\ UNCHANGED endindex
        ELSE endindex' = mid /\ UNCHANGED startindex
  /\ UNCHANGED <<matcher, existing, candidates, offered, pc, text, next, best, found, result>>

(* The longest length is a division by the similarity.                     *)
Searched ==
  /\ pc = "searching" /\ startindex = endindex
  /\ pc' = IF ~IsTerms /\ matcher.similarity = 0 THEN "raised" ELSE "comparing"
  /\ next' = startindex + 1
  /\ UNCHANGED <<matcher, existing, candidates, offered, text, startindex, endindex,
                 best, found, result>>

(* One turn of the memory's loop.                                          *)
Compare ==
  /\ pc = "comparing" /\ ~IsTerms
  /\ next <= Len(candidates) /\ ~TooLong(candidates[next])
  /\ \E score \in {Similarity(text, candidates[next].source, MinSimilarity, matcher.length)} :
       LET item == [score |-> score, unit |-> next]
       IN IF score < MinSimilarity \/ score <= LowestScore
          THEN next' = next + 1 /\ UNCHANGED <<best, pc>>
          ELSE IF HeapRaises(best, item)
          THEN pc' = "raised" /\ UNCHANGED <<best, next>>
          ELSE /\ best' = HeapReplace(best, item)
               /\ next' = IF best'[1].score >= Whole THEN Len(candidates) + 1 ELSE next + 1
               /\ UNCHANGED pc
  /\ UNCHANGED <<matcher, existing, candidates, offered, text, startindex, endindex, found, result>>

(* One turn of the loop over the terms; the same term with the same        *)
(* translation counts once.                                                *)
Look ==
  /\ pc = "comparing" /\ IsTerms /\ next <= Len(candidates)
  /\ LET c == candidates[next]
         known == \E i \in DOMAIN found :
                    candidates[found[i]].source = c.source /\ candidates[found[i]].target = c.target
     IN found' = IF ~known /\ Place(c.source) # 0 THEN Append(found, next) ELSE found
  /\ next' = next + 1
  /\ UNCHANGED <<matcher, existing, candidates, offered, pc, text, startindex, endindex,
                 best, result>>

Answer ==
  /\ pc = "comparing"
  /\ next <= Len(candidates) => TooLong(candidates[next])
  /\ result' = IF IsTerms THEN Picked(InOrder) ELSE BestFirst
  /\ pc' = "answered"
  /\ UNCHANGED <<matcher, existing, candidates, offered, text, startindex, endindex,
                 next, best, found>>

Next ==
  \/ \E u \in Units[matcher.kind] : Extend(u)
  \/ Fill
  \/ \E t \in Texts[matcher.kind] : Matches(t)
  \/ Search \/ Searched \/ Compare \/ Look \/ Answer

Spec == Init /\ [][Next]_vars

-----------------------------------------------------------------------------
(* Properties.                                                             *)

(* What a memory should look at: candidates that are not too long and are  *)
(* similar enough.                                                         *)
Score(c) == Similarity(text, candidates[c].source, matcher.similarity, matcher.length)

Eligible ==
  {c \in DOMAIN candidates :
     Len(candidates[c].source) <= matcher.length /\ Score(c) >= matcher.similarity}

Tie ==
  \E c, d \in Eligible :
    /\ Score(c) = Score(d)
    /\ <<candidates[c].source, candidates[c].target>> # <<candidates[d].source, candidates[d].target>>

(* The answer of a memory to a text of any length it remembers is as many  *)
(* of the similar candidates as were asked for, none better is left out,   *)
(* and the best comes first, although the binary search, the shrinking     *)
(* window of lengths and the similarity that is asked for rise while the   *)
(* loop runs.  It raises an exception only when the similarity is zero or  *)
(* when several candidates are kept and two are equally similar.           *)
BestAreFound ==
  /\ pc = "answered" /\ ~IsTerms /\ Len(text) <= matcher.length =>
       /\ Len(result) = Min({matcher.candidates, Cardinality(Eligible)})
       /\ \A k \in DOMAIN result :
            /\ result[k] \in Eligible
            /\ \A j \in 1 .. k - 1 : result[j] # result[k] /\ Score(result[j]) >= Score(result[k])
            /\ \A c \in Eligible :
                 Score(c) > Score(result[k]) => \E j \in 1 .. k - 1 : result[j] = c
  /\ pc = "raised" => matcher.similarity = 0 \/ (matcher.candidates > 1 /\ Tie)

Overlap(c, d) == Start(c) < End(d) /\ Start(d) < End(c)

(* The comparer gives up only what is not similar enough.                  *)
ComparerIsExact ==
  pc = "comparing" /\ ~IsTerms /\ Len(text) <= matcher.length /\ next <= Len(candidates) =>
    LET c == candidates[next].source
    IN Len(c) <= matcher.length => IsExact(text, c, MinSimilarity, matcher.length)

(* Terms of an answer do not overlap unless they are the same words.       *)
TermsAreApart ==
  pc = "answered" /\ IsTerms =>
    \A j, k \in DOMAIN result :
      Overlap(result[j], result[k]) => /\ Start(result[j]) = Start(result[k])
                                       /\ End(result[j]) = End(result[k])

(* "Normal matching": a term that occurs in the text is in the answer, or  *)
(* the answer has one that overlaps it.  This holds where the candidates   *)
(* are still in order with their other spellings: those are appended, and  *)
(* a search that assumes the order then looks in the wrong place.          *)
TermsInOrderAreFound ==
  pc = "answered" /\ IsTerms /\ candidates = Sorted(candidates) =>
    \A c \in DOMAIN candidates :
      Start(c) # 0 => \E k \in DOMAIN result : Overlap(c, result[k])
=============================================================================
