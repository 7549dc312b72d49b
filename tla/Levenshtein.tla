---------------------------- MODULE Levenshtein -----------------------------
(***************************************************************************)
(* The comparer of the translation memory (translate/search/lshtein.py):   *)
(* the edit distance of two texts, given up as soon as it is too large,    *)
(* and the similarity made of it.  Texts are sequences of characters.      *)
(* Similarities are counted so that Whole is one hundred percent.          *)
(***************************************************************************)
EXTENDS Integers, Sequences, FiniteSetsExt

CONSTANT
  Whole   \* one hundred percent: divisible by 100 and by the lengths of texts

ASSUME WholeAssumption == Whole \in Nat /\ Whole >= 100

Cut(text, max_len) == SubSeq(text, 1, Min({Len(text), max_len}))

(* The row below: distances of each beginning of a, from the empty one to  *)
(* all of it, to the first i characters of b.                              *)
NextRow(previous, a, b, i) ==
  LET row[j \in 0 .. Len(a)] ==
        IF j = 0 THEN i
        ELSE Min({ previous[j] + 1, row[j - 1] + 1,
                   previous[j - 1] + (IF a[j] = b[i] THEN 0 ELSE 1) })
  IN row

(* Mutant: the distance of the whole of a, which may still go down.        *)
LastCell(row, b) == row[Max(DOMAIN row)]

(* The best that can still be attained.                                    *)
Least(row, b) == Min({Len(b)} \cup {row[j] : j \in DOMAIN row \ {0}})

(* All the rows, if none is the last.                                      *)
Rows(a, b) ==
  LET rows[i \in 0 .. Len(b)] ==
        IF i = 0 THEN [j \in 0 .. Len(a) |-> j] ELSE NextRow(rows[i - 1], a, b, i)
  IN rows

(* python_distance: goes on from row to row until all of a row exceeds     *)
(* stopvalue.                                                              *)
Distance(a, b, stopvalue) ==
  LET rows == Rows(a, b)
      hopeless == {i \in 1 .. Len(b) : Least(rows[i], b) > stopvalue}
  IN IF hopeless = {} THEN rows[Len(b)][Len(a)] ELSE Least(rows[Min(hopeless)], b)

(* The least whole number that is not below x / y.                         *)
Ceiling(x, y) == -((-x) \div y)

(* How many edits of a text of this length are too many.                   *)
StopValue(length, stop) == Ceiling((Whole - stop) * length, Whole)

(* The shorter text comes first. *)
Shorter(text, other) == IF Len(text) > Len(other) THEN other ELSE text
Longer(text, other) == IF Len(text) > Len(other) THEN text ELSE other

(* What the lengths allow.                                                 *)
Attainable(a, b) == Whole - (Whole * (Len(b) - Len(a))) \div Len(b)

(* For texts that are cut to the same.                                     *)
Penalty(a, b, max_len) ==
  ((7 * Whole) \div 100) * (IF Len(a) > max_len THEN 2 ELSE IF Len(b) > max_len THEN 1 ELSE 0)

(* similarity: both texts are cut to max_len, but the difference of their  *)
(* lengths is counted before.                                              *)
Similarity(text, other, stop, max_len) ==
  LET a == Shorter(text, other)
      b == Longer(text, other)
      length == Len(Cut(b, max_len))
      stopvalue == StopValue(length, stop)
      dist == Distance(Cut(a, max_len), Cut(b, max_len), stopvalue)
  IN IF a = << >> THEN 0
     ELSE IF Attainable(a, b) < stop THEN Attainable(a, b)
     ELSE IF dist > stopvalue THEN stop - Whole \div 100
     ELSE Whole - (dist * Whole) \div length - (IF dist = 0 THEN Penalty(a, b, max_len) ELSE 0)

-----------------------------------------------------------------------------
(* The distance as it is defined.                                          *)
EditDistance(a, b) ==
  LET d[p \in (0 .. Len(a)) \X (0 .. Len(b))] ==
        LET i == p[1]
            j == p[2]
        IN IF i = 0 THEN j ELSE IF j = 0 THEN i
           ELSE Min({ d[<<i - 1, j>>] + 1, d[<<i, j - 1>>] + 1,
                      d[<<i - 1, j - 1>>] + (IF a[i] = b[j] THEN 0 ELSE 1) })
  IN d[<<Len(a), Len(b)>>]

(* The share of the longer text that no edit touches.                      *)
Share(text, other) ==
  Whole - (EditDistance(text, other) * Whole) \div Len(Longer(text, other))

(* Giving up early changes no similarity that counts: of texts that are    *)
(* not cut it is the share of characters left alone, if that is at least   *)
(* stop, and less than stop otherwise.                                     *)
IsExact(text, other, stop, max_len) ==
  IF Share(text, other) >= stop
  THEN Similarity(text, other, stop, max_len) = Share(text, other)
  ELSE Similarity(text, other, stop, max_len) < stop
=============================================================================
