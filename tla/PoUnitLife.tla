----------------------------- MODULE PoUnitLife -----------------------------
(***************************************************************************)
(* The life of one catalogue entry: translators and tools set its target,  *)
(* mark it fuzzy, make it obsolete, resurrect it, save and reload it, and  *)
(* merge entries of other files into it, in any order.                     *)
(***************************************************************************)
EXTENDS PoUnit, TLC

CONSTANTS
  Source, Context,   \* of the entry
  Texts,             \* the translations a translator may enter
  Lines,             \* the "#," lines that other files hold
  OtherContexts,     \* contexts of the entries merged into this one
  MaxFlags           \* bound: merge while the entry has at most as many flags

ASSUME MaxFlagsAssumption == MaxFlags \in Nat
ASSUME LinesAssumption == Lines \subseteq [Flags -> Nat]

VARIABLES
  unit,     \* the entry
  vouched   \* history: the texts somebody entered, unmarked as fuzzy or
            \* resurrected here, or had unmarked for the same id elsewhere

vars == <<unit, vouched>>

(* The entries of other files: read from a file, so in an inferred state.  *)
Partner(c, t, l, o) ==
  Parse([NewUnit(Source, c) EXCEPT !.target = t, !.typecomments = l, !.obsolete = o])

Partners ==
  { Partner(c, t, l, o) :
      c \in OtherContexts \cup {Context}, t \in Texts \cup {NoText},
      l \in {NoFlags} \cup {OneLine(line) : line \in Lines}, o \in BOOLEAN }

(* How many flags the "#," lines hold, and a unit within the bound. *)
FlagTotal(u) == Cardinality(UNION {{f} \X (1 .. FlagCount(u, f)) : f \in Flags})

-----------------------------------------------------------------------------
Vouch(text) == vouched' = vouched \cup ({text} \ {NoText})

Init == unit = NewUnit(Source, Context) /\ vouched = {}

EnterTarget(text) ==
  /\ unit' = SetTarget(unit, text)
  /\ Vouch(text)

SetFuzzy(present) ==
  /\ unit' = MarkFuzzy(unit, present)
  /\ IF present THEN UNCHANGED vouched ELSE Vouch(unit.target)

Obsolete == unit' = MakeObsolete(unit) /\ UNCHANGED vouched

Restore ==
  /\ unit' = Resurrect(unit)
  /\ Vouch(unit.target)

Reload == unit' = Parse(unit) /\ UNCHANGED vouched

MergeOther(other, overwrite, comments) ==
  /\ FlagTotal(unit) <= MaxFlags
  /\ unit' = Merge(unit, other, overwrite, comments, FALSE)
  /\ IF GetId(other) = GetId(unit) /\ ~IsFuzzy(other)
     THEN Vouch(other.target) ELSE UNCHANGED vouched

Next ==
  \/ \E text \in Texts \cup {NoText} : EnterTarget(text)
  \/ \E present \in BOOLEAN : SetFuzzy(present)
  \/ Obsolete
  \/ Restore
  \/ Reload
  \/ \E other \in Partners, overwrite, comments \in BOOLEAN :
       MergeOther(other, overwrite, comments)

Spec == Init /\ [][Next]_vars

-----------------------------------------------------------------------------
(* Through edits, saves and merges in any order, a text that counts as a   *)
(* finished translation is one somebody stood by for this very message:    *)
(* a fuzzy text of another file, or the text of another context, never     *)
(* ends up translated by itself (pounit.merge, markfuzzy, infer_state).    *)
TranslatedIsVouched == IsTranslated(unit) => unit.target \in vouched

(* get_state_n never calls an entry obsolete that is written as a live one *)
(* (pocommon's get_state_n against pypo's obsolete flag).                  *)
ObsoleteStateIsObsolete == GetState(unit) <= S_OBSOLETE => unit.obsolete

(* Saving and reloading an entry that has a target changes nothing of what *)
(* a translator sees: neither its obsoleteness, nor its fuzziness, nor     *)
(* whether it counts as translated (infer_state after each operation).     *)
ReloadKeepsStatus ==
  LET again == Parse(unit)
  IN HasTarget(unit) => /\ again.obsolete = unit.obsolete
                        /\ IsFuzzy(again) = IsFuzzy(unit)
                        /\ IsTranslated(again) = IsTranslated(unit)
                        /\ FlagTotal(again) = FlagTotal(unit)
=============================================================================
