----------------------------- MODULE Selection ------------------------------
(***************************************************************************)
(* The loop that lists, in their order, the items of a list that are in a  *)
(* set: "[item for item in list if ...]".  It is SelectSeq for a set; what *)
(* SelectSeq returns cannot be reasoned about.                             *)
(***************************************************************************)
EXTENDS Integers, Sequences

Select(list, set) ==
  LET selected[k \in 0 .. Len(list)] ==
        IF k = 0 THEN << >>
        ELSE IF list[k] \in set THEN Append(selected[k - 1], list[k])
        ELSE selected[k - 1]
  IN selected[Len(list)]
=============================================================================
