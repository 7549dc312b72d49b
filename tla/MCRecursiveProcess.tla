------------------------- MODULE MCRecursiveProcess -------------------------
(* Two message lists: the new translation of the first is written over the *)
(* old one, which is its template; the second has a template and an output *)
(* of its own.                                                             *)
EXTENDS RecursiveProcess

CONSTANTS List1, List2, Po1, Old2, New2, Good, Better, Hollow, Bad, Old, Made, MadeBetter

MCInputs == <<List1, List2>>
MCOutputOf == [f \in {List1, List2} |-> IF f = List1 THEN Po1 ELSE New2]
MCTemplateOf == [f \in {List1, List2} |-> IF f = List1 THEN Po1 ELSE Old2]

MCEdits ==
  [p \in {List1, List2, Po1, Old2, New2} |->
     CASE p = List1 -> {Good, Hollow, Bad}
       [] p = List2 -> {Good, Better, Bad}
       [] p = New2 -> {}
       [] OTHER -> {Old}]

(* The template makes no difference here, but a file that is not what the  *)
(* converter expects cannot be read.                                       *)
MCConvert ==
  LET all == {Good, Better, Hollow, Bad, Old, Made, MadeBetter, Missing, Incomplete}
  IN [pair \in all \X all |->
        IF pair[2] \notin {Old, Made, MadeBetter, Missing} THEN Raises
        ELSE CASE pair[1] = Good   -> Made
               [] pair[1] = Better -> MadeBetter
               [] pair[1] = Hollow -> NoResult
               [] OTHER            -> Raises]
=============================================================================
