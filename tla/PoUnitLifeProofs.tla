-------------------------- MODULE PoUnitLifeProofs --------------------------
(***************************************************************************)
(* What holds of an entry through every sequence of operations, for all    *)
(* texts, flags, contexts and other entries.                               *)
(***************************************************************************)
EXTENDS PoUnitLife, Lemmas

(* The stored state says obsolete only of an obsolete entry; that the      *)
(* operators keep every field in place is what carries it along.           *)
StateInv ==
  /\ IsUnit(unit)
  /\ unit.state_n \in States
  /\ unit.obsolete \in BOOLEAN
  /\ unit.state_n <= S_OBSOLETE => unit.obsolete

LEMMA StatesAreNumbers ==
  /\ States \subseteq Int
  /\ S_OBSOLETE \in Int
  /\ \A n \in {S_FUZZY, S_TRANSLATED, S_UNTRANSLATED} : n \in States /\ ~(n <= S_OBSOLETE)
BY DEF States, S_FUZZY_OBSOLETE, S_OBSOLETE, S_UNTRANSLATED, S_FUZZY, S_TRANSLATED

LEMMA StateInvInit == Init => StateInv
BY StatesAreNumbers, FieldsOfAUnit DEF Init, StateInv, NewUnit, IsUnit

LEMMA StateInvStep == StateInv /\ [Next]_vars => StateInv'
<1> SUFFICES ASSUME StateInv, [Next]_vars PROVE StateInv'
  OBVIOUS
<1> USE FieldsOfAUnit, StatesAreNumbers
<1>1. IsUnit(unit)
  BY DEF StateInv
<1>2. ASSUME NEW text, EnterTarget(text) PROVE StateInv'
  BY <1>1, <1>2 DEF EnterTarget, SetTarget, StateInv, IsUnit
<1>3. ASSUME NEW present, SetFuzzy(present) PROVE StateInv'
  BY <1>1, <1>3, MarkFuzzyDiffers DEF SetFuzzy, StateInv, Differs
<1>4. CASE Obsolete
  BY <1>1, <1>4, MakeObsoleteDiffers DEF Obsolete, StateInv, Differs, States
<1>5. CASE Restore
  BY <1>1, <1>5, ResurrectDiffers DEF Restore, StateInv, Differs
<1>6. CASE Reload
  BY <1>1, <1>6, ParseDiffers DEF Reload, StateInv, Differs
<1>7. ASSUME NEW other, NEW overwrite, NEW comments, MergeOther(other, overwrite, comments)
      PROVE  StateInv'
  <2>1. /\ Differs(unit, unit', Mergeable)
        /\ unit'.state_n \in {unit.state_n, S_FUZZY, S_TRANSLATED, S_UNTRANSLATED}
    BY <1>1, <1>7, MergeDiffers DEF MergeOther
  <2>2. unit'.obsolete = unit.obsolete
    BY <2>1 DEF Differs, Mergeable
  <2>3. QED
    BY <2>1, <2>2 DEF StateInv, Differs
<1>8. CASE UNCHANGED vars
  BY <1>8 DEF vars, StateInv
<1>9. QED
  BY <1>2, <1>3, <1>4, <1>5, <1>6, <1>7, <1>8 DEF Next

LEMMA StateInvImplies == StateInv => ObsoleteStateIsObsolete
<1> SUFFICES ASSUME StateInv, ~(unit.state_n <= S_OBSOLETE)
             PROVE  ~(GetState(unit) <= S_OBSOLETE)
  BY DEF StateInv, ObsoleteStateIsObsolete, GetState
<1>1. GetState(unit) \in {S_UNTRANSLATED, S_FUZZY, S_TRANSLATED}
  BY DEF GetState
<1>2. QED
  BY <1>1, StatesAreNumbers

(* However an entry is edited, merged, made obsolete, resurrected, saved   *)
(* and reloaded, get_state_n calls it obsolete only when it is.            *)
THEOREM ObsoleteStates == Spec => []ObsoleteStateIsObsolete
<1>1. Spec => []StateInv
  BY StateInvInit, StateInvStep, PTL DEF Spec
<1>2. QED
  BY <1>1, StateInvImplies, PTL

-----------------------------------------------------------------------------
(* Finished translations.                                                  *)

(* A text that is not marked as fuzzy is vouched for, obsolete or not; a   *)
(* merge may have added a flag line of the other unit, never taken one.    *)
VouchedInv ==
  /\ IsUnit(unit)
  /\ Countable(unit.typecomments)
  /\ HasTarget(unit) /\ ~IsFuzzy(unit) => unit.target \in vouched

LEMMA VouchedInvInit == Init => VouchedInv
<1> SUFFICES ASSUME Init PROVE VouchedInv
  OBVIOUS
<1>1. IsUnit(unit) /\ unit.typecomments = NoFlags /\ unit.target = NoText
  BY FieldsOfAUnit DEF Init, NewUnit, IsUnit
<1>2. Countable(NoFlags)
  BY FS_EmptySet DEF Countable, NoFlags
<1>3. QED
  BY <1>1, <1>2 DEF VouchedInv, HasTarget

(* Another file's entry has the flags of one line, if any. *)
LEMMA PartnersAreCountable == \A other \in Partners : Countable(other.typecomments)
<1> SUFFICES ASSUME NEW other \in Partners PROVE Countable(other.typecomments)
  OBVIOUS
<1> DEFINE w(c, t, l, o) == [NewUnit(Source, c) EXCEPT !.target = t, !.typecomments = l,
                                                       !.obsolete = o]
<1>1. PICK c \in OtherContexts \cup {Context}, t \in Texts \cup {NoText},
           l \in {NoFlags} \cup {OneLine(line) : line \in Lines}, o \in BOOLEAN :
        other = Partner(c, t, l, o)
  BY DEF Partners
<1>2. Countable(NoFlags)
  BY FS_EmptySet DEF Countable, NoFlags
<1>3. ASSUME NEW line \in Lines PROVE Countable(OneLine(line))
  <2>1. line[Fuzzy] \in Int
    BY LinesAssumption DEF Flags
  <2>2. QED
    BY <2>1, FS_Singleton DEF Countable, OneLine
<1>4. IsUnit(w(c, t, l, o)) /\ w(c, t, l, o).typecomments = l
  BY FieldsOfAUnit DEF NewUnit, IsUnit
<1> HIDE DEF w
<1>5. Partner(c, t, l, o) = Parse(w(c, t, l, o))
  BY DEF Partner, w
<1>6. QED
  BY <1>1, <1>2, <1>3, <1>4, <1>5, OthersCountable

(* Taking over the other unit's text: either the result is fuzzy, or the   *)
(* text was this unit's, or it is the other's, finished, of the same id.   *)
LEMMA MergedIsVouched ==
  ASSUME NEW u, IsUnit(u), Countable(u.typecomments), NEW other, NEW overwrite
  PROVE  LET v == MergeTarget(u, other, overwrite)
         IN /\ Countable(v.typecomments)
            /\ \/ IsFuzzy(v)
               \/ v = u
               \/ /\ GetId(other) = GetId(u) /\ ~IsFuzzy(other)
                  /\ v.target = other.target
<1> DEFINE w(p) == [u EXCEPT !.target = other.target, !.previous = p]
<1> DEFINE v == MergeTarget(u, other, overwrite)
<1>1. ASSUME NEW p
      PROVE  IsUnit(w(p)) /\ w(p).typecomments = u.typecomments /\ w(p).target = other.target
  BY FieldsOfAUnit DEF IsUnit
<1>2. \/ v = u
      \/ v = MarkFuzzy(u, TRUE)
      \/ \E p : v = MarkFuzzy(w(p), TRUE)
      \/ \E p : /\ v = MarkFuzzy(w(p), IsFuzzy(other))
                /\ u.source = other.source /\ u.context = other.context
  BY Zenon DEF MergeTarget
<1> HIDE DEF w, v
<1>3. CASE v = MarkFuzzy(u, TRUE)
  BY <1>3, MarkFuzzyFlag DEF v
<1>4. ASSUME NEW p, v = MarkFuzzy(w(p), TRUE) PROVE Countable(v.typecomments) /\ IsFuzzy(v)
  BY <1>1, <1>4, MarkFuzzyFlag
<1>5. ASSUME NEW p, v = MarkFuzzy(w(p), IsFuzzy(other)),
             u.source = other.source, u.context = other.context
      PROVE  /\ Countable(v.typecomments)
             /\ \/ IsFuzzy(v)
                \/ /\ GetId(other) = GetId(u) /\ ~IsFuzzy(other)
                   /\ v.target = other.target
  <2>1. IsFuzzy(other) \in BOOLEAN
    BY DEF IsFuzzy, HasTypeComment
  <2>2. Countable(v.typecomments) /\ (IsFuzzy(other) => IsFuzzy(v))
    BY <1>1, <1>5, <2>1, MarkFuzzyFlag
  <2>3. v.target = other.target
    BY <1>1, <1>5, MarkFuzzyDiffers, FieldsOfAUnit DEF Differs
  <2>4. GetId(other) = GetId(u)
    BY <1>5 DEF GetId
  <2>5. QED
    BY <2>2, <2>3, <2>4
<1>6. QED
  BY <1>2, <1>3, <1>4, <1>5 DEF v

LEMMA VouchedInvStep == VouchedInv /\ [Next]_vars => VouchedInv'
<1> SUFFICES ASSUME VouchedInv, [Next]_vars PROVE VouchedInv'
  OBVIOUS
<1>1. IsUnit(unit) /\ Countable(unit.typecomments)
  BY DEF VouchedInv
<1>2. ASSUME NEW text, EnterTarget(text) PROVE VouchedInv'
  <2>1. IsUnit(unit') /\ unit'.typecomments = unit.typecomments /\ unit'.target = text
    BY <1>1, <1>2, FieldsOfAUnit DEF EnterTarget, SetTarget, IsUnit
  <2>2. text # NoText => text \in vouched'
    BY <1>2 DEF EnterTarget, Vouch
  <2>3. QED
    BY <1>1, <2>1, <2>2 DEF VouchedInv, HasTarget
<1>3. ASSUME NEW present \in BOOLEAN, SetFuzzy(present) PROVE VouchedInv'
  <2>1. IsUnit(unit') /\ unit'.target = unit.target
    BY <1>1, <1>3, MarkFuzzyDiffers, FieldsOfAUnit DEF SetFuzzy, Differs
  <2>2. Countable(unit'.typecomments) /\ (present => IsFuzzy(unit'))
    BY <1>1, <1>3, MarkFuzzyFlag DEF SetFuzzy
  <2>3. ~present /\ unit.target # NoText => unit.target \in vouched'
    BY <1>3 DEF SetFuzzy, Vouch
  <2>4. QED
    BY <2>1, <2>2, <2>3 DEF VouchedInv, HasTarget
<1>4. ASSUME Obsolete \/ Reload PROVE VouchedInv'
  <2>1. /\ IsUnit(unit') /\ unit'.target = unit.target
        /\ Countable(unit'.typecomments) /\ vouched' = vouched
    <3>1. ASSUME NEW v, Differs(unit, v, {"typecomments", "state_n", "obsolete", "locations"})
          PROVE  IsUnit(v) /\ v.target = unit.target
      BY <3>1, FieldsOfAUnit DEF Differs
    <3>2. IsUnit(unit') /\ unit'.target = unit.target
      BY <1>1, <1>4, <3>1, MakeObsoleteDiffers, ParseDiffers DEF Obsolete, Reload
    <3>3. QED
      BY <1>1, <1>4, <3>2, OthersCountable DEF Obsolete, Reload
  <2>2. HasTarget(unit) => unit'.typecomments = unit.typecomments
    BY <1>1, <1>4, ObsoleteKeepsFlags, ParseKeepsStatus DEF Obsolete, Reload
  <2>3. QED
    BY <2>1, <2>2 DEF VouchedInv, HasTarget, IsFuzzy, HasTypeComment
<1>5. CASE Restore
  <2>1. /\ IsUnit(unit') /\ unit'.target = unit.target
        /\ Countable(unit'.typecomments)
    BY <1>1, <1>5, ResurrectDiffers, OthersCountable, FieldsOfAUnit DEF Restore, Differs
  <2>2. unit.target # NoText => unit.target \in vouched'
    BY <1>5 DEF Restore, Vouch
  <2>3. QED
    BY <2>1, <2>2 DEF VouchedInv, HasTarget
<1>6. ASSUME NEW other \in Partners, NEW overwrite, NEW comments,
             MergeOther(other, overwrite, comments)
      PROVE  VouchedInv'
  <2> DEFINE u == IF comments THEN MergeComments(unit, other, FALSE) ELSE unit
  <2>1. unit' = MergeTarget(u, other, overwrite)
    BY <1>6 DEF MergeOther, Merge
  <2>2. /\ IsUnit(u) /\ u.target = unit.target /\ GetId(u) = GetId(unit)
        /\ Countable(u.typecomments) /\ (IsFuzzy(unit) => IsFuzzy(u))
    <3>1. CASE comments
      <4>1. u = MergeComments(unit, other, FALSE)
        BY <3>1
      <4>2. Countable(other.typecomments)
        BY PartnersAreCountable
      <4> HIDE DEF u
      <4>3. Differs(unit, u, {"othercomments", "typecomments", "locations"})
        BY <1>1, <4>1, MergeCommentsDiffers
      <4>4. Countable(u.typecomments) /\ (IsFuzzy(unit) => IsFuzzy(u))
        BY <1>1, <4>1, <4>2, MergedFlagLines
      <4>5. QED
        BY <4>3, <4>4, FieldsOfAUnit DEF Differs, GetId
    <3>2. CASE ~comments
      BY <1>1, <3>2
    <3>3. QED
      BY <3>1, <3>2
  <2>3. /\ vouched \subseteq vouched'
        /\ GetId(other) = GetId(unit) /\ ~IsFuzzy(other) /\ HasTarget(other)
             => other.target \in vouched'
    BY <1>6 DEF MergeOther, Vouch, HasTarget
  <2> HIDE DEF u
  <2>4. IsUnit(unit')
    BY <2>1, <2>2, MergeTargetDiffers DEF Differs
  <2>5. /\ Countable(unit'.typecomments)
        /\ \/ IsFuzzy(unit')
           \/ unit' = u
           \/ /\ GetId(other) = GetId(u) /\ ~IsFuzzy(other)
              /\ unit'.target = other.target
    BY <2>1, <2>2, MergedIsVouched
  <2>6. HasTarget(unit') /\ ~IsFuzzy(unit') => unit'.target \in vouched'
    BY <2>2, <2>3, <2>5 DEF VouchedInv, HasTarget
  <2>7. QED
    BY <2>4, <2>5, <2>6 DEF VouchedInv
<1>7. CASE UNCHANGED vars
  BY <1>7 DEF vars, VouchedInv, HasTarget, IsFuzzy, HasTypeComment
<1>8. QED
  BY <1>2, <1>3, <1>4, <1>5, <1>6, <1>7 DEF Next

(* Through any sequence of edits, doubts, merges, resurrections and        *)
(* reloads, a text that counts as a finished translation is one that       *)
(* somebody stood by for this very message (pounit.merge and markfuzzy).   *)
THEOREM TranslationsAreVouched == Spec => []TranslatedIsVouched
<1>1. Spec => []VouchedInv
  BY VouchedInvInit, VouchedInvStep, PTL DEF Spec
<1>2. VouchedInv => TranslatedIsVouched
  BY DEF VouchedInv, TranslatedIsVouched, IsTranslated
<1>3. QED
  BY <1>1, <1>2, PTL

LEMMA ReloadedIsTheSame == StateInv => ReloadKeepsStatus
<1> SUFFICES ASSUME StateInv, HasTarget(unit)
             PROVE  LET again == Parse(unit)
                    IN /\ again.obsolete = unit.obsolete
                       /\ IsFuzzy(again) = IsFuzzy(unit)
                       /\ IsTranslated(again) = IsTranslated(unit)
                       /\ FlagTotal(again) = FlagTotal(unit)
  BY DEF ReloadKeepsStatus
<1> DEFINE again == Parse(unit)
<1>1. IsUnit(unit) /\ unit.obsolete \in BOOLEAN
  BY DEF StateInv
<1>2. again.typecomments = unit.typecomments /\ again.obsolete = unit.obsolete
  BY <1>1, ParseKeepsStatus
<1>3. /\ again.source = unit.source /\ again.context = unit.context
      /\ again.target = unit.target
  BY <1>1, ParseDiffers, FieldsOfAUnit DEF Differs
<1> HIDE DEF again
<1>4. \A flag : FlagCount(again, flag) = FlagCount(unit, flag)
  BY <1>2 DEF FlagCount
<1>5. IsFuzzy(again) = IsFuzzy(unit)
  BY <1>2 DEF IsFuzzy, HasTypeComment
<1>6. IsTranslated(again) = IsTranslated(unit)
  BY <1>2, <1>3, <1>5 DEF IsTranslated, IsHeader, HasTarget
<1>7. FlagTotal(again) = FlagTotal(unit)
  BY <1>4 DEF FlagTotal
<1>8. QED
  BY <1>2, <1>5, <1>6, <1>7 DEF again

(* Saving and reloading an entry that has a target changes neither its     *)
(* flags nor its status, whatever has been done to it (infer_state).       *)
THEOREM ReloadsKeepStatus == Spec => []ReloadKeepsStatus
<1>1. Spec => []StateInv
  BY StateInvInit, StateInvStep, PTL DEF Spec
<1>2. QED
  BY <1>1, ReloadedIsTheSame, PTL
=============================================================================
