------------------------------- MODULE PoUnit -------------------------------
(***************************************************************************)
(* One entry of a Gettext catalogue (translate/storage/pypo.py, class      *)
(* pounit, over pocommon.pounit and base.TranslationUnit), as a record and *)
(* the operators that change it.                                           *)
(*                                                                         *)
(* A text, a context or a location is an opaque value; a plural message    *)
(* has one value for all its forms, NoText when every form is empty (the   *)
(* code only asks whether some form is non-empty).  A flag line "#, a, b"  *)
(* is a bag of flags, as settypecomment writes the flags of a line sorted, *)
(* and the flag lines of a unit are a bag of lines, whose order no         *)
(* operation looks at.                                                     *)
(* Extracted "#." comments and KDE style msgid comments are left out.      *)
(***************************************************************************)
EXTENDS Selection, FiniteSets, Functions

LOCAL INSTANCE SequencesExt  \* FoldLeft

CONSTANTS
  NoText,       \* an empty msgid or msgstr
  NoContext,    \* no msgctxt
  NoPrevious,   \* no "#|" lines
  Fuzzy,        \* the flag "fuzzy"
  OtherFlags,   \* the flags besides Fuzzy, such as c-format
  ShortComments \* translator comment lines of fewer than five characters

ASSUME FuzzyAssumption == Fuzzy \notin OtherFlags

Flags == {Fuzzy} \cup OtherFlags

(* pocommon.pounit's states *)
S_FUZZY_OBSOLETE == -101
S_OBSOLETE       == -100
S_UNTRANSLATED   == 0
S_FUZZY          == 30
S_TRANSLATED     == 100
States == {S_FUZZY_OBSOLETE, S_OBSOLETE, S_UNTRANSLATED, S_FUZZY, S_TRANSLATED}

(* The flag lines of a unit, none and a single one: how often each occurs. *)
NoFlags == [line \in {} |-> 0]
OneLine(flags) == [line \in {flags} |-> 1]

(* The unit built by pounit(source) and setcontext. *)
NewUnit(source, context) ==
  [ source        |-> source,
    context       |-> context,
    target        |-> NoText,
    typecomments  |-> NoFlags,
    othercomments |-> << >>,
    locations     |-> << >>,
    previous      |-> NoPrevious,
    obsolete      |-> FALSE,
    state_n       |-> S_UNTRANSLATED ]

Fields == DOMAIN NewUnit(NoText, NoContext)
IsUnit(u) == Fields \subseteq DOMAIN u

(* Flag lines as they are read from a file. *)
HasFlagLines(u) ==
  /\ IsFiniteSet(DOMAIN u.typecomments)
  /\ \A line \in DOMAIN u.typecomments : line \in [Flags -> Nat] /\ u.typecomments[line] \in Nat

-----------------------------------------------------------------------------
(* What the code asks of a unit. *)

GetId(u) == <<u.context, u.source>>

HasTarget(u) == u.target # NoText

(* How often a flag occurs in the unit's "#," lines: each line counts its  *)
(* own occurrences, and merging can leave several lines.                   *)
FlagCount(u, flag) ==
  Cardinality(UNION { {line} \X (1 .. u.typecomments[line] * line[flag]) :
                      line \in DOMAIN u.typecomments })

HasTypeComment(u, flag) ==
  \E line \in DOMAIN u.typecomments : line[flag] > 0

IsFuzzy(u) == HasTypeComment(u, Fuzzy)

IsHeader(u) ==
  u.source = NoText /\ HasTarget(u) /\ u.context = NoContext

IsBlank(u) ==
  u.source = NoText /\ ~HasTarget(u) /\ u.context = NoContext

IsTranslated(u) ==
  HasTarget(u) /\ ~IsFuzzy(u) /\ ~u.obsolete /\ ~IsHeader(u)

IsTranslatable(u) == ~IsHeader(u) /\ ~IsBlank(u) /\ ~u.obsolete

(* get_state_n trusts the stored value only when it says obsolete. *)
GetState(u) ==
  IF u.state_n <= S_OBSOLETE THEN u.state_n
  ELSE IF ~HasTarget(u) THEN S_UNTRANSLATED
  ELSE IF IsFuzzy(u) THEN S_FUZZY ELSE S_TRANSLATED

-----------------------------------------------------------------------------
(* Flags and state. *)

(* A change of one flag rewrites all the "#," lines as a single line. *)
SetTypeComment(u, flag, present) ==
  LET change == IF present THEN 1 ELSE -1
      line == [f \in Flags |-> FlagCount(u, f) + IF f = flag THEN change ELSE 0]
  IN IF HasTypeComment(u, flag) = present THEN u
     ELSE [u EXCEPT !.typecomments =
             IF \A f \in Flags : line[f] = 0 THEN NoFlags ELSE OneLine(line)]

(* Mutant: the state of a fuzzy obsolete unit is taken for an obsolete one. *)
InFuzzyRangeOffByOne(value) ==
  \/ S_FUZZY <= value /\ value < S_TRANSLATED
  \/ S_FUZZY_OBSOLETE < value /\ value < S_OBSOLETE

InFuzzyRange(value) ==
  \/ S_FUZZY <= value /\ value < S_TRANSLATED
  \/ S_FUZZY_OBSOLETE <= value /\ value < S_OBSOLETE

SetState(u, value) ==
  IF HasTarget(u)
  THEN SetTypeComment([u EXCEPT !.state_n = value], Fuzzy, InFuzzyRange(value))
  ELSE SetTypeComment([u EXCEPT !.state_n = S_UNTRANSLATED], Fuzzy, FALSE)

MarkFuzzy(u, present) ==
  LET value == IF present THEN S_FUZZY
               ELSE IF HasTarget(u) THEN S_TRANSLATED ELSE S_UNTRANSLATED
  IN SetTypeComment(SetState(u, value), Fuzzy, present)

(* Mutant: the entry's doubt is forgotten. *)
MakeObsoleteFlat(u) ==
  [SetState(u, S_OBSOLETE) EXCEPT !.obsolete = TRUE, !.locations = << >>]

MakeObsolete(u) ==
  LET value == IF IsFuzzy(u) THEN S_FUZZY_OBSOLETE ELSE S_OBSOLETE
  IN [SetState(u, value) EXCEPT !.obsolete = TRUE, !.locations = << >>]

(* Mutant: the stored state goes on saying obsolete. *)
ResurrectFlagOnly(u) == [u EXCEPT !.obsolete = FALSE]

Resurrect(u) ==
  LET normal == SetState(u, S_TRANSLATED)
  IN [IF HasTarget(normal) THEN normal ELSE SetState(normal, S_UNTRANSLATED)
        EXCEPT !.obsolete = FALSE]

InferState(u) ==
  IF u.obsolete THEN MakeObsolete(u) ELSE MarkFuzzy(u, IsFuzzy(u))

SetTarget(u, text) == [u EXCEPT !.target = text]

(* Writing the unit and reading it back: the lines survive, the stored     *)
(* state does not and is inferred again.                                   *)
Parse(u) == InferState([u EXCEPT !.state_n = S_UNTRANSLATED])

-----------------------------------------------------------------------------
(* Merging another unit into this one. *)

(* mergelists: the lines of list2 are added in their order, each unless it *)
(* is there already; a short line is added every time.                     *)
MergeLists(list1, list2, short) ==
  LET add(list, line) == IF line \in Range(list) /\ line \notin short
                         THEN list ELSE Append(list, line)
  IN IF list1 = list2 THEN list1 ELSE FoldLeft(add, list1, list2)

(* mergelists for flag lines: those the unit lacks are added, once each.   *)
MergeFlagLines(lines1, lines2) ==
  [line \in DOMAIN lines1 \cup DOMAIN lines2 |->
     IF line \in DOMAIN lines1 THEN lines1[line] ELSE 1]

(* mergelists with split: locations of list2 that list1 does not name. *)
MergeLocations(list1, list2) ==
  list1 \o Select(list2, Range(list2) \ Range(list1))

MergeComments(u, other, authoritative) ==
  [u EXCEPT
     !.othercomments = MergeLists(u.othercomments, other.othercomments, ShortComments),
     !.typecomments  = MergeFlagLines(u.typecomments, other.typecomments),
     !.locations     = IF authoritative THEN u.locations
                       ELSE MergeLocations(u.locations, other.locations)]

(* Mutant: whose text it is does not matter, as long as it is not fuzzy. *)
MergeTargetAnyId(u, other, overwrite) ==
  IF ~IsTranslated(u) \/ overwrite
  THEN MarkFuzzy([u EXCEPT !.target = other.target, !.previous = other.previous],
                 IsFuzzy(other))
  ELSE u

(* Mutant: the other unit's text is always the newer one. *)
MergeTargetNewest(u, other, overwrite) ==
  MarkFuzzy([u EXCEPT !.target = other.target], IsFuzzy(other))

(* The second half of merge, once the comments are in place: whether the   *)
(* unit is translated is asked after other's flags have been added to it.  *)
MergeTarget(u, other, overwrite) ==
  IF ~IsTranslated(u) \/ overwrite
  THEN IF u.source # other.source \/ u.context # other.context
       THEN MarkFuzzy([u EXCEPT !.target = other.target,
                                !.previous = GetId(other)], TRUE)
       ELSE MarkFuzzy([u EXCEPT !.target = other.target,
                                !.previous = other.previous], IsFuzzy(other))
  ELSE IF \/ ~IsTranslated(other) /\ u.source # other.source
          \/ IsTranslated(other) /\ u.target # other.target
       THEN MarkFuzzy(u, TRUE)
       ELSE u

Merge(u, other, overwrite, comments, authoritative) ==
  MergeTarget(IF comments THEN MergeComments(u, other, authoritative) ELSE u,
              other, overwrite)
=============================================================================
