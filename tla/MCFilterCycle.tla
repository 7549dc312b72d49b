---------------------------- MODULE MCFilterCycle ----------------------------
(* Two checkers, and a file with two messages of one source.               *)
EXTENDS FilterCycle

CONSTANTS Open, Menu, Tip, A, B, C, Spaces, Hint, NoteUntranslated, NoteShort, NoteDouble, NoteLong,
          NoteFuzzy, NoteReview, More, Blank, CFormat

(* StandardChecker and StandardUnitChecker, with a few of their checks; an *)
(* untranslated unit is not worth other checks.                            *)
MCOrder == <<"untranslated", "unchanged", "doublewords", "short", "isfuzzy", "isreview">>
MCCheckers ==
  << [checks        |-> {"untranslated", "unchanged", "doublewords", "short"},
      preconditions |-> <<"untranslated", "unchanged">>,
      masks         |-> [check \in {"untranslated", "unchanged"} |->
                           IF check = "untranslated" THEN {"short", "isfuzzy", "isreview"}
                           ELSE {"doublewords"}],
      ignores       |-> {}],
     [checks |-> {"isfuzzy", "isreview"}, preconditions |-> << >>,
      masks  |-> [check \in {} |-> {}], ignores |-> {}] >>

MCFails ==
  [untranslated |-> {<<Open, NoText>>},
   unchanged    |-> {<<Open, B>>},
   doublewords  |-> {<<Open, B>>, <<Open, C>>},
   short        |-> {<<Open, A>>, <<Open, NoText>>}]

(* Messages of more than one line have empty lines in them. *)
MCMessage ==
  [untranslated |-> <<NoteUntranslated, Blank, More>>,
   unchanged    |-> <<NoteLong>>,
   doublewords  |-> <<NoteDouble>>,
   short        |-> <<NoteShort>>,
   isfuzzy      |-> <<NoteFuzzy>>,
   isreview     |-> <<NoteReview, Blank>>]
MCMarks == {NoteUntranslated, NoteLong, NoteDouble, NoteShort, NoteFuzzy, NoteReview}

MCCorrect == [texts \in {<<Open, A>>} |-> C]

Unit(context, target, comments, flags) ==
  Parse([NewUnit(Open, context) EXCEPT
           !.target = target, !.othercomments = comments, !.typecomments = flags])
Obsolete(u) == Parse(MakeObsolete(u))
Format == OneLine([f \in Flags |-> IF f = CFormat THEN 1 ELSE 0])

MCFiles ==
  { <<Unit(NoContext, A, <<Hint, Blank>>, Format), Unit(Menu, C, << >>, NoFlags)>>,
    <<Unit(NoContext, NoText, << >>, NoFlags), Obsolete(Unit(Menu, B, << >>, NoFlags)),
      Unit(Tip, Spaces, << >>, NoFlags)>> }

Option(selected, autocorrect, addnotes, comments) ==
  [ includefuzzy |-> TRUE, includereview |-> TRUE, addnotes |-> addnotes,
    autocorrect |-> autocorrect, selected |-> selected,
    mergeblanks |-> TRUE, mergefuzzy |-> TRUE, mergecomments |-> comments ]
MCOptions ==
  { Option(Checks, FALSE, TRUE, TRUE),
    Option(Checks, TRUE, TRUE, TRUE),
    Option({"short", "isreview"}, FALSE, TRUE, FALSE),
    [Option(Checks \ {"isreview"}, FALSE, FALSE, TRUE) EXCEPT
       !.includefuzzy = FALSE, !.mergeblanks = FALSE],
    [Option(Checks, FALSE, TRUE, TRUE) EXCEPT
       !.includereview = FALSE, !.mergefuzzy = FALSE] }

ASSUME DistinctIds
=============================================================================
