----------------------------- MODULE FilterCycle -----------------------------
(***************************************************************************)
(* Checking a translated file and merging the corrections back: pofilter   *)
(* (translate/filters/pofilter.py, over the checkers of checks.py) copies  *)
(* the units that fail a check to a snippet, with a note for each failure; *)
(* a translator corrects the snippet, and pomerge (translate/tools/        *)
(* pomerge.py) merges it into the file, which may have changed meanwhile.  *)
(*                                                                         *)
(* What a check says of two texts is a parameter, as is autocorrect; the   *)
(* checks of the unit itself, isfuzzy and isreview, are modelled.  Headers *)
(* are left out.  filterfile marks no unit as fuzzy: it asks whether the   *)
(* message, which is a string, is an exception.                            *)
(***************************************************************************)
EXTENDS PoIndex, SequencesExt

CONSTANTS
  Checkers,       \* the checkers of the TeeChecker, in order: the checks each
                  \* defines, its preconditions in order, what each of them
                  \* masks, and the checks its language ignores
  Order,          \* all the checks, in the order in which they are run
  Fails,          \* for each check of texts, the <<source, target>> that fail
  Message,        \* the lines of the note about each check
  Marks,          \* lines that begin with "(review)" or "(pofilter)"
  Correct,        \* autocorrect.correct, where it finds a correction
  SpaceTexts,     \* targets that are nothing but spaces
  Files,          \* the files to begin with
  Options,        \* the options that pofilter and pomerge may be run with
  Texts,          \* the translations a translator may enter
  MaxEdits        \* bound: the number of edits

Checks == Range(Order)

ASSUME CheckersAssumption ==
  \A i \in DOMAIN Checkers :
    LET c == Checkers[i] IN /\ c.checks \subseteq Checks
                            /\ c.preconditions \in Seq(DOMAIN c.masks)
                            /\ Range(c.preconditions) = DOMAIN c.masks

ASSUME FilesAssumption ==
  \A f \in Files : IsStore(f) /\ \A k \in DOMAIN f : HasFlagLines(f[k])

(* No file has two entries with one id, live or obsolete: pomerge would    *)
(* bring the text of one to the other without a doubt.                     *)
DistinctIds == \A f \in Files : UniqueIds(f)

VARIABLES
  file,       \* the units of the file
  snippet,    \* the units of pofilter's output, empty when there is none
  options,    \* of all the commands
  vouched,    \* history: <<id, text>> that somebody stood by
  edits,      \* how many edits there were
  untouched   \* history: the commands since the last edit, -1 after an edit;
              \* beyond two rounds of two commands it stays at 4 or 5

vars == <<file, snippet, options, vouched, edits, untouched>>

-----------------------------------------------------------------------------
(* The checks.                                                             *)

(* hasmarkedcomment for either mark. *)
IsReview(u) == \E line \in Range(u.othercomments) : line \in Marks

FailsCheck(u, check) ==
  CASE check = "isfuzzy"  -> IsFuzzy(u)
    [] check = "isreview" -> IsReview(u)
    [] OTHER -> <<u.source, u.target>> \in Fails[check]

(* Mutant: a precondition that is not selected is not tried. *)
PreconditionOfSelected(c, u, selected, state, check) ==
  IF check \in state.ignores \/ check \notin c.checks \cap selected \/ ~FailsCheck(u, check)
  THEN state
  ELSE [ignores  |-> state.ignores \cup c.masks[check],
        failures |-> state.failures \cup ({check} \cap selected)]

(* One turn of run_filters' loop: a precondition is tried, and masks the   *)
(* checks that depend on it, whether or not it is selected.                *)
Precondition(c, u, selected, state, check) ==
  IF check \in state.ignores \/ check \notin c.checks \/ ~FailsCheck(u, check)
  THEN state
  ELSE [ignores  |-> state.ignores \cup c.masks[check],
        failures |-> state.failures \cup ({check} \cap selected)]

(* UnitChecker.run_filters: the preconditions, then the other selected     *)
(* checks, which mask nothing.                                             *)
RunFilters(c, u, selected) ==
  LET tried[k \in 0 .. Len(c.preconditions)] ==
        IF k = 0 THEN [ignores |-> c.ignores, failures |-> {}]
        ELSE Precondition(c, u, selected, tried[k - 1], c.preconditions[k])
      last == tried[Len(c.preconditions)]
      others == (c.checks \cap selected) \ (DOMAIN c.masks \cup last.ignores)
  IN last.failures \cup {check \in others : FailsCheck(u, check)}

(* TeeChecker.run_filters: every checker has its own list of ignored checks. *)
Failures(u, selected) ==
  UNION {RunFilters(Checkers[i], u, selected) : i \in DOMAIN Checkers}

-----------------------------------------------------------------------------
(* pofilter.                                                               *)

HasLines(lines, text) ==
  \E k \in 0 .. Len(lines) - Len(text) : SubSeq(lines, k + 1, k + Len(text)) = text

(* Mutant: the note is written again. *)
AddErrorAgain(comments, check) == comments \o Message[check]

(* adderror: "Don't add the same error twice". *)
AddError(comments, check) ==
  IF HasLines(comments, Message[check]) THEN comments ELSE comments \o Message[check]

Annotated(u, failures) ==
  [u EXCEPT !.othercomments = FoldLeft(AddError, u.othercomments, Select(Order, failures))]

Passed(u) ==
  \/ IsHeader(u)
  \/ ~options.includefuzzy /\ IsFuzzy(u)
  \/ ~options.includereview /\ IsReview(u)

(* filterunit and filterfile for one unit: what the snippet gets of it. *)
Filtered(u) ==
  LET failures == Failures(u, options.selected)
      texts == <<u.source, u.target>>
  IN IF Passed(u) \/ failures = {} THEN << >>
     ELSE IF options.autocorrect
     THEN IF texts \in DOMAIN Correct THEN <<SetTarget(u, Correct[texts])>> ELSE << >>
     ELSE IF options.addnotes THEN <<Annotated(u, failures)>> ELSE <<u>>

(* Writing a store and reading it back: nothing is left of a store that    *)
(* isempty, having no unit that can be translated: both runfilter and      *)
(* mergestore report no result then, and the driver removes the output.    *)
Saved(store) ==
  IF \E k \in DOMAIN store : IsTranslatable(store[k])
  THEN [k \in DOMAIN store |-> Parse(store[k])] ELSE << >>

(* filterfile over all the units. *)
FilterFile(units) ==
  LET kept[k \in 0 .. Len(units)] ==
        IF k = 0 THEN << >> ELSE kept[k - 1] \o Filtered(units[k])
  IN Saved(kept[Len(units)])

-----------------------------------------------------------------------------
(* pomerge.                                                                *)

IsBlankTarget(u) == u.target \in {NoText} \cup SpaceTexts

(* Where mergestores looks for the unit of the file. *)
Place(store, u) ==
  IF HasId(store, GetId(u)) THEN FindId(store, GetId(u)) ELSE FindUnit(store, u.source)

(* The units the options let through. *)
IsMerged(u) ==
  /\ ~options.mergeblanks => ~IsBlankTarget(u)
  /\ ~options.mergefuzzy => ~IsFuzzy(u)

(* Mutant: what has a translation keeps it. *)
MergeUnitKeeping(store, u) ==
  LET k == Place(store, u)
  IN IF IsHeader(u) \/ k = 0 \/ ~IsMerged(u) THEN store
     ELSE [store EXCEPT ![k] = Merge(store[k], u, FALSE, options.mergecomments, FALSE)]

MergeUnit(store, u) ==
  LET k == Place(store, u)
  IN IF IsHeader(u) \/ k = 0 \/ ~IsMerged(u) THEN store
     ELSE [store EXCEPT ![k] = Merge(store[k], u, TRUE, options.mergecomments, FALSE)]

MergeStores(store, other) ==
  LET merged[k \in 0 .. Len(other)] ==
        IF k = 0 THEN store ELSE MergeUnit(merged[k - 1], other[k])
  IN merged[Len(other)]

-----------------------------------------------------------------------------
Init ==
  /\ file \in Files /\ snippet = << >> /\ options \in Options
  /\ vouched = {<<GetId(u), u.target>> : u \in {v \in Range(file) : IsTranslated(v)}}
  /\ edits = 0 /\ untouched = 0

Filter ==
  /\ snippet' = FilterFile(file)
  /\ vouched' = IF options.autocorrect
                THEN vouched \cup {<<GetId(u), u.target>> : u \in Range(snippet')}
                ELSE vouched
  /\ untouched' = IF untouched \in {0, 2, 4} THEN untouched + 1
                  ELSE IF untouched = -1 THEN 1 ELSE untouched
  /\ UNCHANGED <<file, options, edits>>

(* pomerge writes the file it has read as template.  Bound: a snippet is   *)
(* merged once, unless there was an edit in between.                       *)
PoMerge ==
  /\ snippet # << >> /\ untouched \in {-1, 1, 3, 5}
  /\ file' = Saved(MergeStores(file, snippet))
  /\ untouched' = IF untouched = 5 THEN 4 ELSE untouched + 1
  /\ UNCHANGED <<snippet, options, vouched, edits>>

(* What a translator may make of a unit, in the file or in the snippet:    *)
(* enter a translation, doubt the one that is there, delete the notes.     *)
Translated(u) == {MarkFuzzy(SetTarget(u, text), FALSE) : text \in Texts}
Doubted(u)    == {v \in {MarkFuzzy(u, TRUE)} : HasTarget(u)}
Cleaned(u)    == {[u EXCEPT !.othercomments = << >>]}

Touch == edits < MaxEdits /\ edits' = edits + 1 /\ untouched' = -1 /\ UNCHANGED options

Vouch(v) ==
  vouched' = vouched \cup {<<GetId(w), w.target>> : w \in {x \in {v} : IsTranslated(x)}}

EditFile(k) ==
  /\ ~file[k].obsolete /\ Touch
  /\ \E v \in Translated(file[k]) \cup Doubted(file[k]) \cup Cleaned(file[k]) :
       file' = [file EXCEPT ![k] = v] /\ Vouch(v)
  /\ UNCHANGED snippet

EditSnippet(k) ==
  /\ ~snippet[k].obsolete /\ Touch
  /\ \E v \in Translated(snippet[k]) \cup Doubted(snippet[k]) \cup Cleaned(snippet[k]) :
       snippet' = [snippet EXCEPT ![k] = v] /\ Vouch(v)
  /\ UNCHANGED file

(* The developers drop a message. *)
Drop(k) ==
  /\ Touch
  /\ file' = RemoveAt(file, k)
  /\ UNCHANGED <<snippet, vouched>>

Next ==
  \/ Filter
  \/ PoMerge
  \/ \E k \in DOMAIN file : EditFile(k) \/ Drop(k)
  \/ \E k \in DOMAIN snippet : EditSnippet(k)

Spec == Init /\ [][Next]_vars

-----------------------------------------------------------------------------
(* Selecting checks with --test or excluding them only hides failures: a   *)
(* check that is not asked for still masks what depends on it, so that no  *)
(* other check speaks up, or falls silent, because of the selection.       *)
SelectionOnlyHides ==
  \A u \in Range(file), check \in Checks, only \in BOOLEAN :
    LET selected == IF only THEN {check} ELSE Checks \ {check}
    IN Failures(u, selected) = Failures(u, Checks) \cap selected

(* Whatever is checked, corrected and merged in between, a finished        *)
(* translation is one that somebody entered for this very message, or that *)
(* autocorrect made of one: pomerge, which falls back on another entry of  *)
(* the same source, marks what it puts there as fuzzy.                     *)
FinishedIsVouched ==
  \A u \in Range(file) : IsTranslated(u) => <<GetId(u), u.target>> \in vouched

(* A merge brings every correction it is asked to bring to the entry of    *)
(* its id, with the doubt or without, and leaves alone the entries that    *)
(* the snippet does not name (mergestores).  Only a file that has nothing  *)
(* but obsolete entries is lost.                                           *)
Named(k) ==
  {i \in DOMAIN snippet : IsMerged(snippet[i]) /\ Place(file, snippet[i]) = k}

CorrectionsArrive ==
  [][PoMerge /\ (\E k \in DOMAIN file : IsTranslatable(file[k])) =>
       \A k \in DOMAIN file :
         /\ Named(k) = {} => file'[k] = file[k]
         /\ \A i \in Named(k) :
              GetId(snippet[i]) = GetId(file[k]) /\ Named(k) = {i}
                => /\ file'[k].target = snippet[i].target
                   /\ IsFuzzy(file'[k]) = IsFuzzy(snippet[i])]_vars

(* Checking and merging again and again without a change in between comes  *)
(* to an end: the third round changes nothing, so that neither notes nor   *)
(* flags nor empty comment lines pile up (adderror, mergelists).           *)
RoundsSettle == [][PoMerge /\ untouched = 5 => file' = file]_vars
=============================================================================
