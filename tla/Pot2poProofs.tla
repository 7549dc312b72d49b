---------------------------- MODULE Pot2poProofs ----------------------------
(***************************************************************************)
(* What every file that pot2po writes has, and what a run does with the    *)
(* translations of the old file, for all message lists, translations,      *)
(* compendia, similarities and options.                                    *)
(***************************************************************************)
EXTENDS Pot2po, Lemmas

(* While entries are merged the new file has the ids of the list, in its   *)
(* order; what is added then is an entry of the old file, from before      *)
(* next, whose id the list does not have.                                  *)
FollowsPot ==
  pc = "merging" => /\ Len(out) = Len(pot)
                    /\ \A k \in 1 .. Len(pot) : GetId(out[k]) = GetId(pot[k])

AddedFromPo ==
  pc = "obsoleting" =>
    \A i \in DOMAIN out :
      \/ \E j \in DOMAIN pot : GetId(out[i]) = GetId(pot[j])
      \/ \E k \in DOMAIN po : k < next /\ GetId(out[i]) = GetId(po[k])

IdsInv ==
  /\ pot \in Pots
  /\ pc \in {"idle", "merging", "obsoleting"}
  /\ next \in Nat
  /\ IsStore(po) /\ UniqueIds(po)
  /\ IsStore(out) /\ UniqueIds(out)
  /\ FollowsPot
  /\ AddedFromPo

-----------------------------------------------------------------------------
(* The invariant. *)

LEMMA IdsInvInit == Init => IdsInv
<1> SUFFICES ASSUME Init PROVE IdsInv
  OBVIOUS
<1>1. QED
  BY EmptyStore DEF Init, IdsInv, FollowsPot, AddedFromPo

(* Each operator of a run or of a translator keeps the id of its unit.     *)
LEMMA IdsAreKept ==
  ASSUME NEW u, IsUnit(u), NEW other, NEW text, NEW present
  PROVE  \A v \in { Merge(u, other, FALSE, TRUE, TRUE), MakeObsolete(u), Parse(u),
                     MarkFuzzy(u, present), MarkFuzzy(SetTarget(u, text), present) } :
           IsUnit(v) /\ GetId(v) = GetId(u)
<1>1. Differs(u, SetTarget(u, text), {"target"})
  BY FieldsOfAUnit DEF SetTarget, Differs, IsUnit
<1>2. ASSUME NEW v, NEW changed, Differs(u, v, changed),
             "source" \notin changed, "context" \notin changed
      PROVE  IsUnit(v) /\ GetId(v) = GetId(u)
  BY <1>2, FieldsOfAUnit DEF Differs, GetId
<1>3. LET v == Merge(u, other, FALSE, TRUE, TRUE) IN IsUnit(v) /\ GetId(v) = GetId(u)
  BY <1>2, MergeDiffers DEF Mergeable
<1>4. IsUnit(MakeObsolete(u)) /\ GetId(MakeObsolete(u)) = GetId(u)
  BY <1>2, MakeObsoleteDiffers
<1>5. IsUnit(Parse(u)) /\ GetId(Parse(u)) = GetId(u)
  BY <1>2, ParseDiffers
<1>6. IsUnit(MarkFuzzy(u, present)) /\ GetId(MarkFuzzy(u, present)) = GetId(u)
  BY <1>2, MarkFuzzyDiffers
<1>7. LET v == MarkFuzzy(SetTarget(u, text), present) IN IsUnit(v) /\ GetId(v) = GetId(u)
  <2> DEFINE w == SetTarget(u, text)
  <2>1. IsUnit(w) /\ GetId(w) = GetId(u)
    BY <1>1, <1>2
  <2> HIDE DEF w
  <2>2. Differs(w, MarkFuzzy(w, present), {"typecomments", "state_n"})
    BY <2>1, MarkFuzzyDiffers
  <2>3. QED
    BY <2>1, <2>2, FieldsOfAUnit DEF Differs, GetId, w
<1>8. QED
  BY <1>3, <1>4, <1>5, <1>6, <1>7

LEMMA IdsInvStep == IdsInv /\ [Next]_vars => IdsInv'
<1> SUFFICES ASSUME IdsInv, [Next]_vars PROVE IdsInv'
  OBVIOUS
<1> USE DEF IdsInv
<1>1. CASE Extract
  BY <1>1, FollowingAssumption DEF Extract, FollowsPot, AddedFromPo
<1>2. ASSUME NEW k \in DOMAIN po, NEW u,
             pc = "idle", po' = [po EXCEPT ![k] = u],
             IsUnit(u), GetId(u) = GetId(po[k]),
             UNCHANGED <<pot, out, pc, next>>
      PROVE  IdsInv'
  <2>1. IsStore(po') /\ UniqueIds(po')
    BY <1>2, SameIdsStore DEF IsStore
  <2>2. QED
    BY <1>2, <2>1 DEF FollowsPot, AddedFromPo
<1>3. ASSUME NEW k \in DOMAIN po, Doubt(k) PROVE IdsInv'
  <2>1. IsUnit(po[k])
    BY DEF IsStore
  <2>2. QED
    BY <1>2, <1>3, <2>1, IdsAreKept DEF Doubt
<1>4. ASSUME NEW k \in DOMAIN po, NEW text, Translate(k, text) PROVE IdsInv'
  <2>1. IsUnit(po[k])
    BY DEF IsStore
  <2>2. QED
    BY <1>2, <1>4, <2>1, IdsAreKept DEF Translate
<1>5. CASE Start
  <2>1. \A k \in DOMAIN po : IsUnit(po'[k]) /\ GetId(po'[k]) = GetId(po[k])
    BY <1>5, IdsAreKept DEF Start, IsStore
  <2>2. IsStore(po') /\ UniqueIds(po')
    BY <1>5, <2>1, SameIdsStore DEF Start
  <2>3. IsStore(pot) /\ UniqueIds(pot) /\ DOMAIN pot = 1 .. Len(pot)
    BY PotsAssumption, StoreShape
  <2>4. QED
    BY <1>5, <2>2, <2>3 DEF Start, FollowsPot, AddedFromPo
<1>6. CASE PretranslateUnit
  <2> DEFINE u == out[next]
  <2> DEFINE merged(m) == IF HasTarget(m) THEN Merge(u, m, FALSE, TRUE, TRUE) ELSE u
  <2>1. UNCHANGED out \/ \E m : out' = [out EXCEPT ![next] = merged(m)]
    BY <1>6, Zenon DEF PretranslateUnit
  <2>2. \A k \in DOMAIN out : IsUnit(out[k])
    BY DEF IsStore
  <2>3. ASSUME NEW m, next \in DOMAIN out
        PROVE  IsUnit(merged(m)) /\ GetId(merged(m)) = GetId(u)
    <3>1. IsUnit(u)
      BY <2>2, <2>3
    <3>2. LET v == Merge(u, m, FALSE, TRUE, TRUE) IN IsUnit(v) /\ GetId(v) = GetId(u)
      BY <3>1, IdsAreKept
    <3>3. QED
      BY <3>1, <3>2
  <2> HIDE DEF merged
  <2>4. \/ UNCHANGED out
        \/ /\ out' = [k \in DOMAIN out |-> out'[k]]
           /\ \A k \in DOMAIN out : IsUnit(out'[k]) /\ GetId(out'[k]) = GetId(out[k])
    BY <2>1, <2>2, <2>3
  <2>5. /\ IsStore(out') /\ UniqueIds(out') /\ Len(out') = Len(out)
        /\ \A k \in DOMAIN out : GetId(out'[k]) = GetId(out[k])
    BY <2>4, SameIdsStore
  <2>6. FollowsPot'
    BY <1>6, <2>5, StoreShape DEF PretranslateUnit, FollowsPot
  <2>7. QED
    BY <1>6, <2>5, <2>6 DEF PretranslateUnit, AddedFromPo
<1>7. CASE AllMerged
  <2>1. DOMAIN out = 1 .. Len(out) /\ DOMAIN pot = 1 .. Len(pot)
    BY PotsAssumption, StoreShape
  <2>2. QED
    BY <1>7, <2>1 DEF AllMerged, FollowsPot, AddedFromPo
<1>8. CASE ObsoleteUnit
  <2>1. CASE UNCHANGED out
    BY <1>8, <2>1 DEF ObsoleteUnit, FollowsPot, AddedFromPo
  <2>2. CASE Obsoletes(next) /\ out' = Append(out, MakeObsolete(po[next]))
    <3> DEFINE u == MakeObsolete(po[next])
    <3>1. /\ next \in Indexed(po)
          /\ next \in DOMAIN po
          /\ \A j \in DOMAIN pot : GetId(pot[j]) # GetId(po[next])
      BY <2>2, NotFoundIsAbsent DEF Obsoletes, Indexed
    <3>2. IsUnit(u) /\ GetId(u) = GetId(po[next])
      BY <3>1, IdsAreKept DEF IsStore
    <3>3. /\ IsStore(out')
          /\ DOMAIN out' = 1 .. Len(out) + 1
          /\ DOMAIN out = 1 .. Len(out) /\ Len(out) \in Nat
          /\ \A k \in 1 .. Len(out) : out'[k] = out[k]
          /\ out'[Len(out) + 1] = u
      BY <2>2, <3>2, AppendStore, StoreShape
    <3> HIDE DEF u
    <3>4. \A i \in DOMAIN out : GetId(out[i]) # GetId(u)
      BY <1>8, <3>1, <3>2 DEF ObsoleteUnit, AddedFromPo, UniqueIds
    <3>5. UniqueIds(out')
      BY <3>3, <3>4 DEF UniqueIds
    <3>6. AddedFromPo'
      BY <1>8, <3>1, <3>2, <3>3 DEF ObsoleteUnit, AddedFromPo
    <3>7. QED
      BY <1>8, <3>3, <3>5, <3>6 DEF ObsoleteUnit, FollowsPot
  <2>3. QED
    BY <1>8, <2>1, <2>2 DEF ObsoleteUnit
<1>9. CASE Finish
  BY <1>9, EmptyStore DEF Finish, FollowsPot, AddedFromPo
<1>10. CASE Abort
  BY <1>10, EmptyStore DEF Abort, FollowsPot, AddedFromPo
<1>11. CASE UNCHANGED vars
  BY <1>11 DEF vars, FollowsPot, AddedFromPo
<1>12. QED
  BY <1>1, <1>3, <1>4, <1>5, <1>6, <1>7, <1>8, <1>9, <1>10, <1>11 DEF Next

(* No file that pot2po reads or writes ever has two entries with one id,   *)
(* for any sequence of extractions, edits and runs.                        *)
THEOREM UniqueIdsInFiles == Spec => []FilesHaveUniqueIds
<1>1. Spec => []IdsInv
  BY IdsInvInit, IdsInvStep, PTL DEF Spec
<1>2. IdsInv => FilesHaveUniqueIds
  BY DEF IdsInv, FilesHaveUniqueIds
<1>3. QED
  BY <1>1, <1>2, PTL

-----------------------------------------------------------------------------
(* Merging an old entry into a new one.                                    *)

(* An untranslated entry takes the other's text, fuzzy exactly when the    *)
(* other is, or when it is the text of another message.                    *)
LEMMA MergeUntranslated ==
  ASSUME NEW u, IsUnit(u), Countable(u.typecomments), ~HasTarget(u), ~IsFuzzy(u),
         NEW m, Countable(m.typecomments), HasTarget(m)
  PROVE  LET v == Merge(u, m, FALSE, TRUE, TRUE)
         IN /\ IsUnit(v) /\ Countable(v.typecomments)
            /\ GetId(v) = GetId(u) /\ v.target = m.target /\ v.obsolete = u.obsolete
            /\ IsFuzzy(v) = (IsFuzzy(m) \/ GetId(m) # GetId(u))
<1> DEFINE c == MergeComments(u, m, TRUE)
<1> DEFINE w(p) == [c EXCEPT !.target = m.target, !.previous = p]
<1> DEFINE v == Merge(u, m, FALSE, TRUE, TRUE)
<1>1. /\ IsUnit(c) /\ Countable(c.typecomments)
      /\ c.target = u.target /\ GetId(c) = GetId(u)
  <2>1. Countable(c.typecomments)
    BY MergedFlagLines
  <2>2. Differs(u, c, {"othercomments", "typecomments", "locations"})
    BY MergeCommentsDiffers
  <2> HIDE DEF c
  <2>3. QED
    BY <2>1, <2>2, FieldsOfAUnit DEF Differs, GetId
<1>2. ~IsFuzzy(m) => ~IsFuzzy(c)
  <2>1. c.typecomments = MergeFlagLines(u.typecomments, m.typecomments)
    BY FieldsOfAUnit DEF MergeComments, IsUnit
  <2>2. DOMAIN c.typecomments = DOMAIN u.typecomments \cup DOMAIN m.typecomments
    BY <2>1 DEF MergeFlagLines
  <2> HIDE DEF c
  <2>3. QED
    BY <2>2 DEF IsFuzzy, HasTypeComment
<1>3. v = MergeTarget(c, m, FALSE)
  BY DEF Merge
<1> HIDE DEF c
<1>4. ~IsTranslated(c)
  BY <1>1 DEF IsTranslated, HasTarget
<1>5. ASSUME NEW p
      PROVE  /\ IsUnit(w(p)) /\ Countable(w(p).typecomments) /\ HasTarget(w(p))
             /\ w(p).target = m.target
             /\ IsFuzzy(w(p)) = IsFuzzy(c)
  <2>1. /\ IsUnit(w(p)) /\ w(p).typecomments = c.typecomments /\ w(p).target = m.target
    BY <1>1, FieldsOfAUnit DEF IsUnit
  <2> HIDE DEF w
  <2>2. QED
    BY <1>1, <2>1 DEF HasTarget, IsFuzzy, HasTypeComment
<1>6. /\ GetId(m) # GetId(u) => v = MarkFuzzy(w(GetId(m)), TRUE)
      /\ GetId(m) = GetId(u) => v = MarkFuzzy(w(m.previous), IsFuzzy(m))
  BY <1>1, <1>3, <1>4 DEF MergeTarget, GetId
<1> HIDE DEF w
<1>7. IsFuzzy(m) \in BOOLEAN
  BY DEF IsFuzzy, HasTypeComment
<1> DEFINE present == IsFuzzy(m) \/ GetId(m) # GetId(u)
<1>8. present \in BOOLEAN /\ \E p : v = MarkFuzzy(w(p), present)
  BY <1>6, <1>7
<1> HIDE DEF v
<1>9. PICK p : v = MarkFuzzy(w(p), present)
  BY <1>8
<1>10. v.target = m.target
  BY <1>5, <1>9, MarkFuzzyDiffers, FieldsOfAUnit DEF Differs
<1>11. Countable(v.typecomments) /\ (present => IsFuzzy(v))
  BY <1>5, <1>8, <1>9, MarkFuzzyFlag
<1>12. ASSUME ~present PROVE ~IsFuzzy(v)
  <2>1. ~IsFuzzy(w(p))
    BY <1>2, <1>5, <1>12
  <2>2. v = MarkFuzzy(w(p), FALSE)
    BY <1>8, <1>9, <1>12
  <2>3. QED
    BY <1>5, <2>1, <2>2, NotMarkedFuzzy
<1>13. IsFuzzy(v) = present
  BY <1>11, <1>12 DEF IsFuzzy, HasTypeComment
<1>14. IsUnit(v) /\ GetId(v) = GetId(u) /\ v.obsolete = u.obsolete
  <2>1. Differs(u, v, Mergeable)
    BY MergeDiffers DEF v
  <2>2. QED
    BY <2>1, FieldsOfAUnit DEF Differs, Mergeable, GetId
<1>15. QED
  BY <1>10, <1>11, <1>13, <1>14 DEF v

-----------------------------------------------------------------------------
(* Flag lines can be counted in every file.                                *)

FlagsInv == CountableStore(po) /\ CountableStore(out)

LEMMA ListsAreCountable == \A p \in Pots : CountableStore(p)
<1> SUFFICES ASSUME NEW p \in Pots, NEW k \in DOMAIN p
             PROVE  Countable(p[k].typecomments)
  BY DEF CountableStore
<1>1. HasFlagLines(p[k])
  BY PotsAssumption
<1>2. QED
  BY <1>1 DEF HasFlagLines, Countable, Flags

(* What a matcher builds has at most one flag line. *)
LEMMA BuiltIsCountable == \A c : Countable(Built(c).typecomments)
<1> SUFFICES ASSUME NEW c PROVE Countable(Built(c).typecomments)
  OBVIOUS
<1> DEFINE w == [NewUnit(c.source, NoContext) EXCEPT
                   !.target = c.target, !.othercomments = c.othercomments]
<1>1. IsUnit(w) /\ w.typecomments = NoFlags
  BY FieldsOfAUnit DEF NewUnit, IsUnit
<1>2. Countable(NoFlags)
  BY FS_EmptySet DEF Countable, NoFlags
<1>3. IsFuzzy(c) \in BOOLEAN
  BY DEF IsFuzzy, HasTypeComment
<1>4. Built(c) = MarkFuzzy(w, IsFuzzy(c))
  BY DEF Built
<1> HIDE DEF w
<1>5. QED
  BY <1>1, <1>2, <1>3, <1>4, MarkFuzzyFlag

(* A match is an entry of the old file or built by a matcher.              *)
LEMMA MatchesAreKnown ==
  ASSUME IsStore(po), NEW u, NEW m \in MatchingUnits(u)
  PROVE  (\E k \in DOMAIN po : m = po[k]) \/ (FuzzyMatching[pot] /\ m \in MatchFuzzy(u))
<1> DEFINE Old(units) == \A x \in units : \E k \in DOMAIN po : x = po[k]
<1>1. \A id : Old(UnitAt(FindId(po, id)))
  BY FoundById DEF UnitAt
<1>2. \A source : Old(UnitAt(FindUnit(po, source)))
  BY FoundBySource DEF UnitAt
<1>3. \A place : Old(UnitAt(FindLocation(po, place)))
  BY FoundByLocation DEF UnitAt
<1>4. Old(MatchTemplateId(u)) /\ Old(MatchTemplateLocation(u)) /\ Old(MatchSource(u))
  BY <1>1, <1>2, <1>3 DEF MatchTemplateId, MatchTemplateLocation, MatchSource
<1> HIDE DEF Old
<1>5. (FuzzyMatching[pot] /\ m \in MatchFuzzy(u)) \/ Old({m})
  BY <1>4 DEF MatchingUnits, Old
<1>6. QED
  BY <1>5 DEF Old

LEMMA MatchesAreCountable ==
  ASSUME IsStore(po), CountableStore(po), NEW u, NEW m \in MatchingUnits(u)
  PROVE  Countable(m.typecomments)
<1>1. \A x \in MatchFuzzy(u) : \E c : x = Built(c)
  BY DEF MatchFuzzy, BestMatches
<1>2. QED
  BY <1>1, MatchesAreKnown, BuiltIsCountable DEF CountableStore

LEMMA FlagsInvInit == Init => FlagsInv
BY EmptyStore DEF Init, FlagsInv, CountableStore

LEMMA FlagsInvStep == IdsInv /\ FlagsInv /\ [Next]_vars => FlagsInv'
<1> SUFFICES ASSUME IdsInv, FlagsInv, [Next]_vars PROVE FlagsInv'
  OBVIOUS
<1> USE DEF FlagsInv
<1>1. /\ pot \in Pots /\ IsStore(po) /\ IsStore(out)
      /\ \A k \in DOMAIN po : IsUnit(po[k]) /\ Countable(po[k].typecomments)
      /\ \A k \in DOMAIN out : IsUnit(out[k]) /\ Countable(out[k].typecomments)
  BY DEF IdsInv, IsStore, CountableStore
<1>2. CASE Extract
  BY <1>2 DEF Extract, CountableStore
<1>3. ASSUME NEW k \in DOMAIN po, NEW u, Countable(u.typecomments),
             po' = [po EXCEPT ![k] = u], UNCHANGED out
      PROVE  FlagsInv'
  BY <1>1, <1>3 DEF CountableStore
<1>4. ASSUME NEW k \in DOMAIN po, Doubt(k) PROVE FlagsInv'
  BY <1>1, <1>3, <1>4, FlagsAreKept DEF Doubt
<1>5. ASSUME NEW k \in DOMAIN po, NEW text, Translate(k, text) PROVE FlagsInv'
  BY <1>1, <1>3, <1>5, FlagsAreKept DEF Translate
<1>6. CASE Start
  <2>1. CountableStore(po')
    BY <1>1, <1>6, OthersCountable DEF Start, CountableStore
  <2>2. CountableStore(out')
    BY <1>1, <1>6, ListsAreCountable DEF Start
  <2>3. QED
    BY <2>1, <2>2
<1>7. CASE PretranslateUnit
  <2> DEFINE u == out[next]
  <2> DEFINE merged(m) == IF HasTarget(m) THEN Merge(u, m, FALSE, TRUE, TRUE) ELSE u
  <2>1. UNCHANGED out \/ \E m \in MatchingUnits(u) : out' = [out EXCEPT ![next] = merged(m)]
    BY <1>7, Zenon DEF PretranslateUnit
  <2>2. ASSUME NEW m \in MatchingUnits(u), next \in DOMAIN out
        PROVE  Countable(merged(m).typecomments)
    <3>1. Countable(m.typecomments)
      BY <1>1, MatchesAreCountable DEF FlagsInv
    <3>2. IsUnit(u) /\ Countable(u.typecomments)
      BY <1>1, <2>2
    <3> HIDE DEF u
    <3>3. Countable(Merge(u, m, FALSE, TRUE, TRUE).typecomments)
      BY <3>1, <3>2, MergeIsCountable
    <3>4. QED
      BY <3>2, <3>3
  <2> HIDE DEF merged
  <2>3. CountableStore(out')
    BY <1>1, <2>1, <2>2 DEF CountableStore
  <2>4. QED
    BY <1>7, <2>3 DEF PretranslateUnit, CountableStore
<1>8. CASE AllMerged
  BY <1>8 DEF AllMerged, CountableStore
<1>9. CASE ObsoleteUnit
  <2>1. CASE UNCHANGED out
    BY <1>9, <2>1 DEF ObsoleteUnit, CountableStore
  <2>2. CASE Obsoletes(next) /\ out' = Append(out, MakeObsolete(po[next]))
    <3> DEFINE u == MakeObsolete(po[next])
    <3>1. next \in DOMAIN po
      BY <2>2 DEF Obsoletes, Indexed
    <3>2. IsUnit(u) /\ Countable(u.typecomments)
      BY <1>1, <3>1, IdsAreKept, OthersCountable
    <3> HIDE DEF u
    <3>3. /\ DOMAIN out' = 1 .. Len(out) + 1 /\ DOMAIN out = 1 .. Len(out) /\ Len(out) \in Nat
          /\ \A k \in 1 .. Len(out) : out'[k] = out[k]
          /\ out'[Len(out) + 1] = u
      BY <1>1, <2>2, <3>2, AppendStore, StoreShape DEF u
    <3>4. CountableStore(out')
      BY <1>1, <3>2, <3>3 DEF CountableStore
    <3>5. QED
      BY <1>9, <3>4 DEF ObsoleteUnit, CountableStore
  <2>3. QED
    BY <1>9, <2>1, <2>2 DEF ObsoleteUnit
<1>10. CASE Finish
  BY <1>10, EmptyStore DEF Finish, CountableStore
<1>11. CASE Abort
  BY <1>11, EmptyStore DEF Abort, CountableStore
<1>12. CASE UNCHANGED vars
  BY <1>12 DEF vars, CountableStore
<1>13. QED
  BY <1>2, <1>4, <1>5, <1>6, <1>7, <1>8, <1>9, <1>10, <1>11, <1>12 DEF Next

-----------------------------------------------------------------------------
(* Translations with the id of a new entry.                                *)

Carried(j) ==
  LET k == FindId(po, GetId(pot[j]))
  IN MergeOn[pot] = "id" /\ k # 0 /\ HasTarget(po[k]) =>
       /\ out[j].target = po[k].target
       /\ IsFuzzy(out[j]) = IsFuzzy(po[k])
       /\ ~out[j].obsolete

(* The entries that have had their turn are carried, those that have not   *)
(* are as the list has them; what is appended later changes neither.       *)
CarriedInv ==
  /\ next >= 1
  /\ pc = "merging" => \A j \in DOMAIN pot : IF j < next THEN Carried(j) ELSE out[j] = pot[j]
  /\ pc = "obsoleting" => \A j \in DOMAIN pot : j \in DOMAIN out /\ Carried(j)

(* The turn of an entry. *)
LEMMA TurnCarries ==
  ASSUME IdsInv, FlagsInv, CarriedInv, PretranslateUnit, NEW n, n = next
  PROVE  n \in DOMAIN pot /\ Carried(n)'
<1>1. /\ pot \in Pots /\ IsStore(po) /\ IsStore(pot) /\ CountableStore(po)
      /\ n \in DOMAIN out /\ DOMAIN out = DOMAIN pot
  <2>1. pot \in Pots /\ IsStore(po) /\ IsStore(out) /\ IsStore(pot) /\ CountableStore(po)
    BY PotsAssumption DEF IdsInv, FlagsInv
  <2>2. Len(out) = Len(pot) /\ next <= Len(out) /\ next \in Nat /\ 1 <= next
    BY DEF IdsInv, CarriedInv, FollowsPot, PretranslateUnit
  <2>3. QED
    BY <2>1, <2>2, StoreShape
<1> DEFINE u == out[n]
<1> DEFINE k == FindId(po, GetId(u))
<1>2. /\ u = pot[n] /\ IsUnit(u) /\ Countable(u.typecomments)
      /\ IsTranslatable(u) /\ ~HasTarget(u) /\ ~IsFuzzy(u)
  BY <1>1, PotsAssumption, ListsAreCountable DEF CarriedInv, PretranslateUnit, IsStore, CountableStore
<1> SUFFICES ASSUME MergeOn[pot] = "id", k # 0, HasTarget(po[k])
             PROVE  /\ out'[n].target = po[k].target
                    /\ IsFuzzy(out'[n]) = IsFuzzy(po[k])
                    /\ ~out'[n].obsolete
  BY <1>1, <1>2 DEF Carried, PretranslateUnit
<1>3. k \in DOMAIN po /\ GetId(po[k]) = GetId(u) /\ Countable(po[k].typecomments)
  BY <1>1, FoundById DEF CountableStore
<1>4. MatchingUnits(u) = {po[k]}
  BY DEF MatchingUnits, MatchTemplateId, UnitAt, Translated
<1>5. out' = [out EXCEPT ![n] = Merge(u, po[k], FALSE, TRUE, TRUE)]
  BY <1>2, <1>4 DEF PretranslateUnit
<1>6. out'[n] = Merge(u, po[k], FALSE, TRUE, TRUE)
  BY <1>1, <1>5
<1> HIDE DEF u, k
<1>7. LET v == Merge(u, po[k], FALSE, TRUE, TRUE)
      IN /\ v.target = po[k].target /\ v.obsolete = u.obsolete
         /\ IsFuzzy(v) = (IsFuzzy(po[k]) \/ GetId(po[k]) # GetId(u))
  BY <1>2, <1>3, MergeUntranslated
<1>8. IsFuzzy(po[k]) \in BOOLEAN
  BY DEF IsFuzzy, HasTypeComment
<1>9. QED
  BY <1>2, <1>3, <1>6, <1>7, <1>8 DEF IsTranslatable

(* The second loop leaves what is there and appends. *)
LEMMA ObsoleteUnitAppends ==
  ASSUME IdsInv, ObsoleteUnit
  PROVE  /\ \A i \in DOMAIN out : i \in DOMAIN out' /\ out'[i] = out[i]
         /\ Obsoletes(next) =>
              \E i \in DOMAIN out' : out'[i] = MakeObsolete(po[next])
<1>1. DOMAIN out = 1 .. Len(out) /\ Len(out) \in Nat /\ IsStore(out)
  BY StoreShape DEF IdsInv
<1>2. CASE ~Obsoletes(next)
  BY <1>2 DEF ObsoleteUnit
<1>3. CASE Obsoletes(next)
  <2>1. out' = Append(out, MakeObsolete(po[next]))
    BY <1>3 DEF ObsoleteUnit
  <2>2. IsUnit(MakeObsolete(po[next]))
    BY <1>3, IdsAreKept DEF IdsInv, IsStore, Obsoletes, Indexed
  <2>3. QED
    BY <1>1, <2>1, <2>2, AppendStore
<1>4. QED
  BY <1>2, <1>3

LEMMA CarriedInvStep == IdsInv /\ IdsInv' /\ FlagsInv /\ CarriedInv /\ [Next]_vars => CarriedInv'
<1> SUFFICES ASSUME IdsInv, IdsInv', FlagsInv, CarriedInv, [Next]_vars PROVE CarriedInv'
  OBVIOUS
<1>1. /\ IsStore(pot) /\ IsStore(out) /\ DOMAIN pot = 1 .. Len(pot) /\ Len(pot) \in Nat
      /\ DOMAIN out = 1 .. Len(out) /\ Len(out) \in Nat /\ next \in Nat
  BY PotsAssumption, StoreShape DEF IdsInv
<1>2. next' >= 1
  <2>1. next' \in {1, next, next + 1}
    <3>1. ASSUME NEW k, Doubt(k) \/ \E text : Translate(k, text) PROVE next' = next
      BY <3>1 DEF Doubt, Translate
    <3>2. Extract \/ UNCHANGED vars => next' = next
      BY DEF Extract, vars
    <3>3. Start \/ Abort \/ AllMerged \/ Finish => next' = 1
      BY DEF Start, Abort, AllMerged, Finish
    <3>4. PretranslateUnit \/ ObsoleteUnit => next' = next + 1
      BY DEF PretranslateUnit, ObsoleteUnit
    <3>5. QED
      BY <3>1, <3>2, <3>3, <3>4 DEF Next
  <2>2. QED
    BY <1>1, <2>1 DEF CarriedInv
<1>3. CASE pc' = "idle"
  BY <1>3, <1>2 DEF CarriedInv
<1>4. CASE Start
  <2>1. \A j \in DOMAIN pot' : ~(j < next') /\ out'[j] = pot'[j]
    BY <1>1, <1>4 DEF Start
  <2>2. QED
    BY <1>4, <2>1 DEF Start, CarriedInv
<1>5. CASE PretranslateUnit
  <2>1. PICK n : n = next
    OBVIOUS
  <2>5. n \in DOMAIN pot /\ Carried(n)'
    BY <1>5, <2>1, TurnCarries
  <2>2. /\ UNCHANGED <<pot, po, pc>> /\ next' = next + 1 /\ pc = "merging"
        /\ \A j \in DOMAIN out \ {next} : out'[j] = out[j]
    BY <1>5, Zenon DEF PretranslateUnit
  <2>3. DOMAIN out = DOMAIN pot
    BY <1>1, <2>2 DEF IdsInv, FollowsPot
  <2>4. ASSUME NEW j \in DOMAIN pot, j # n
        PROVE  IF j < next + 1 THEN Carried(j)' ELSE out'[j] = pot[j]
    <3>1. out'[j] = out[j]
      BY <2>1, <2>2, <2>3, <2>4
    <3>2. Carried(j)' = Carried(j)
      BY <2>2, <3>1 DEF Carried
    <3>3. QED
      BY <1>1, <2>1, <2>2, <2>4, <3>1, <3>2 DEF CarriedInv
  <2>6. \A j \in DOMAIN pot' : IF j < next' THEN Carried(j)' ELSE out'[j] = pot'[j]
    BY <1>1, <2>1, <2>2, <2>4, <2>5
  <2>7. QED
    BY <1>1, <2>2, <2>6 DEF CarriedInv
<1>6. CASE AllMerged
  <2>1. /\ UNCHANGED <<pot, po, out>> /\ pc = "merging" /\ pc' = "obsoleting"
        /\ next > Len(out) /\ Len(out) = Len(pot)
    BY <1>6 DEF AllMerged, IdsInv, FollowsPot
  <2>2. \A j \in DOMAIN pot : j < next /\ j \in DOMAIN out
    BY <1>1, <2>1
  <2>3. \A j \in DOMAIN pot : Carried(j)' = Carried(j)
    BY <2>1 DEF Carried
  <2>4. QED
    BY <1>2, <2>1, <2>2, <2>3 DEF CarriedInv
<1>7. CASE ObsoleteUnit
  <2>1. /\ UNCHANGED <<pot, po, pc>> /\ pc = "obsoleting"
        /\ \A j \in DOMAIN out : j \in DOMAIN out' /\ out'[j] = out[j]
    BY <1>7, ObsoleteUnitAppends DEF ObsoleteUnit
  <2>2. \A j \in DOMAIN out : Carried(j)' = Carried(j)
    BY <2>1 DEF Carried
  <2>3. QED
    BY <1>2, <2>1, <2>2 DEF CarriedInv
<1>8. CASE UNCHANGED vars
  <2>1. \A j : Carried(j)' = Carried(j)
    BY <1>8 DEF vars, Carried
  <2>2. QED
    BY <1>8, <2>1 DEF vars, CarriedInv
<1>9. pc' = "idle" \/ Start \/ PretranslateUnit \/ AllMerged \/ ObsoleteUnit \/ UNCHANGED vars
  BY DEF Next, Extract, Doubt, Translate, Abort, Finish
<1>10. QED
  BY <1>3, <1>4, <1>5, <1>6, <1>7, <1>8, <1>9

(* Once the entries of a list are merged on ids, each whose id has a       *)
(* translation in the old file has that translation, exactly as fuzzy      *)
(* (pretranslate_unit, match_template_id and pounit.merge).                *)
THEOREM MatchesCarried == Spec => []MatchesAreCarriedAcross
<1>1. Init => CarriedInv
  BY DEF Init, CarriedInv
<1>2. Spec => [](IdsInv /\ FlagsInv /\ CarriedInv)
  <2>1. Init => IdsInv /\ FlagsInv /\ CarriedInv
    BY <1>1, IdsInvInit, FlagsInvInit
  <2>2. IdsInv /\ FlagsInv /\ CarriedInv /\ [Next]_vars => IdsInv' /\ FlagsInv' /\ CarriedInv'
    BY IdsInvStep, FlagsInvStep, CarriedInvStep
  <2>3. QED
    BY <2>1, <2>2, PTL DEF Spec
<1>3. CarriedInv => MatchesAreCarriedAcross
  BY DEF CarriedInv, MatchesAreCarriedAcross, Carried
<1>4. QED
  BY <1>2, <1>3, PTL

-----------------------------------------------------------------------------
(* Sources and matches.                                                    *)

(* No file has a message that no list had.                                 *)
Known(u) == \E p \in Pots : \E j \in DOMAIN p : GetId(u) = GetId(p[j])

KnownInv == \A k \in DOMAIN po : Known(po[k])

LEMMA KnownInvInit == Init => KnownInv
BY EmptyStore DEF Init, KnownInv

LEMMA KnownInvStep == IdsInv /\ KnownInv /\ [Next]_vars => KnownInv'
<1> SUFFICES ASSUME IdsInv, KnownInv, [Next]_vars PROVE KnownInv'
  OBVIOUS
<1>1. /\ pot \in Pots /\ IsStore(po)
      /\ \A k \in DOMAIN po : IsUnit(po[k])
  BY DEF IdsInv, IsStore
<1>2. ASSUME NEW f, DOMAIN f = DOMAIN po, po' = f,
             \A k \in DOMAIN po : GetId(f[k]) = GetId(po[k])
      PROVE  KnownInv'
  BY <1>2 DEF KnownInv, Known
<1>10. ASSUME NEW k \in DOMAIN po, NEW u, po' = [po EXCEPT ![k] = u],
              IsUnit(u), GetId(u) = GetId(po[k])
       PROVE  KnownInv'
  BY <1>2, <1>10
<1>3. ASSUME NEW k \in DOMAIN po, Doubt(k) PROVE KnownInv'
  BY <1>1, <1>10, <1>3, IdsAreKept DEF Doubt
<1>4. ASSUME NEW k \in DOMAIN po, NEW text, Translate(k, text) PROVE KnownInv'
  <2>1. IsUnit(po[k])
    BY <1>1
  <2>2. QED
    BY <1>10, <1>4, <2>1, IdsAreKept DEF Translate
<1>5. CASE Start
  <2>1. \A j \in DOMAIN po : IsUnit(po'[j]) /\ GetId(po'[j]) = GetId(po[j])
    BY <1>5, IdsAreKept DEF Start, IdsInv, IsStore
  <2>2. QED
    BY <1>2, <1>5, <2>1 DEF Start
<1>6. CASE Finish
  <2>1. /\ po' = out
        /\ \A i \in DOMAIN out :
             \/ \E j \in DOMAIN pot : GetId(out[i]) = GetId(pot[j])
             \/ \E k \in DOMAIN po : GetId(out[i]) = GetId(po[k])
    BY <1>6 DEF Finish, IdsInv, AddedFromPo
  <2>2. \A i \in DOMAIN out : Known(out[i])
    BY <1>1, <2>1 DEF KnownInv, Known
  <2>3. QED
    BY <2>1, <2>2 DEF KnownInv, Known
<1>7. CASE Abort
  BY <1>7, EmptyStore DEF Abort, KnownInv
<1>8. CASE UNCHANGED po
  BY <1>8 DEF KnownInv, Known
<1>9. QED
  BY <1>3, <1>4, <1>5, <1>6, <1>7, <1>8
     DEF Next, Extract, PretranslateUnit, AllMerged, ObsoleteUnit, vars

LEMMA KnownUnits ==
  ASSUME NEW u, Known(u)
  PROVE  u.source \in Sources /\ ~IsHeader(u) /\ ~IsBlank(u)
<1>0. PICK p \in Pots : \E j \in DOMAIN p : GetId(u) = GetId(p[j])
  BY DEF Known
<1>1. PICK j \in DOMAIN p : GetId(u) = GetId(p[j])
  BY <1>0
<1>2. u.source = p[j].source /\ u.context = p[j].context
  BY <1>1 DEF GetId
<1>3. ~IsHeader(p[j]) /\ ~IsBlank(p[j])
  BY PotsAssumption DEF IsTranslatable
<1>4. u.source \in Sources
  BY <1>2 DEF Sources
<1>5. QED
  BY <1>2, <1>3, <1>4 DEF IsHeader, IsBlank

LEMMA BuiltFields == \A c : Built(c).source = c.source /\ Built(c).target = c.target
<1> SUFFICES ASSUME NEW c PROVE Built(c).source = c.source /\ Built(c).target = c.target
  OBVIOUS
<1> DEFINE w == [NewUnit(c.source, NoContext) EXCEPT
                   !.target = c.target, !.othercomments = c.othercomments]
<1>1. IsUnit(w) /\ w.source = c.source /\ w.target = c.target
  BY FieldsOfAUnit DEF NewUnit, IsUnit
<1>2. Built(c) = MarkFuzzy(w, IsFuzzy(c))
  BY DEF Built
<1> HIDE DEF w
<1>3. Differs(w, Built(c), {"typecomments", "state_n"})
  BY <1>1, <1>2, MarkFuzzyDiffers
<1>4. QED
  BY <1>1, <1>3, FieldsOfAUnit DEF Differs

(* A matcher that remembers a source near enough has a best match.         *)
LEMMA BestMatchExists ==
  ASSUME IsStore(po), KnownInv, NEW source \in Sources, Near(po, TRUE, source) # {}
  PROVE  BestMatches(po, TRUE, source) # {}
<1> DEFINE near == Near(po, TRUE, source)
<1> DEFINE score(k) == Similarity[source, po[k].source]
<1> DEFINE scores == {score(k) : k \in near}
<1>1. near \subseteq DOMAIN po
  BY DEF Near, Usable, Eligible
<1>10. near \subseteq Nat
  <2>1. DOMAIN po \subseteq Nat
    BY StoreShape
  <2>2. QED
    BY <1>1, <2>1
<1>2. scores \in SUBSET (0 .. 100) /\ scores # {}
  BY <1>1, KnownUnits, SimilarityAssumption DEF KnownInv
<1>3. PICK top \in near : \A k \in near : score(k) <= score(top)
  <2>1. 100 \in Nat
    OBVIOUS
  <2> HIDE DEF scores
  <2>2. PICK x \in scores : \A y \in scores : x >= y
    BY <1>2, <2>1, GreatestMember
  <2>3. PICK k \in near : x = score(k)
    BY DEF scores
  <2>4. \A j \in near : score(j) \in 0 .. 100 /\ x >= score(j)
    BY <1>2, <2>2 DEF scores
  <2> HIDE DEF near, score
  <2>5. QED
    BY <2>3, <2>4
<1> DEFINE same == {k \in near : po[k].source = po[top].source}
<1>4. PICK first \in same : \A k \in same : first <= k
  <2>1. same \in SUBSET Nat /\ same # {}
    BY <1>10
  <2> HIDE DEF same
  <2>2. QED
    BY <2>1, LeastMember
<1>5. \A k \in near : score(k) <= score(first)
  BY <1>3
<1>6. \A k \in near : k < first => po[k].source # po[first].source
  <2>1. \A k \in same : first <= k
    BY <1>4
  <2>2. \A k \in near : k \in Nat /\ first \in Nat
    BY <1>4, <1>10
  <2> HIDE DEF near
  <2>3. QED
    BY <1>4, <2>1, <2>2
<1>7. Built(po[first]) \in BestMatches(po, TRUE, source)
  BY <1>5, <1>6 DEF BestMatches
<1>8. QED
  BY <1>7

-----------------------------------------------------------------------------
(* What becomes of an entry that the list no longer names.                 *)

Lone(k) == \A j \in DOMAIN po \ {k} : po[j].source # po[k].source

(* Whatever lookup a match comes from, when it marks a lone entry as       *)
(* reused it has the text of that entry: the compendium is not asked for a *)
(* source the old file has, as the file's own matcher answers first.       *)
LEMMA MatchIsTheLoneEntry ==
  ASSUME IsStore(po), KnownInv, NEW u, u.source \in Sources, NEW m \in MatchingUnits(u),
         NEW k \in DOMAIN po, Lone(k), HasTarget(po[k]), FindUnit(po, m.source) = k, k # 0
  PROVE  m.target = po[k].target
<1>1. po[k].source = m.source
  BY FoundBySource
<1>2. ASSUME NEW j \in DOMAIN po, po[j].source = m.source PROVE j = k
  BY <1>1, <1>2 DEF Lone
<1>3. CASE \E j \in DOMAIN po : m = po[j]
  BY <1>2, <1>3
<1>4. CASE m \in BestMatches(po, TRUE, u.source)
  <2>1. PICK j \in DOMAIN po : m = Built(po[j])
    BY <1>4 DEF BestMatches, Near, Usable, Eligible
  <2>2. QED
    BY <1>2, <2>1, BuiltFields
<1>5. CASE BestMatches(po, TRUE, u.source) = {} /\ m \in BestMatches(TM, FALSE, u.source)
  <2>1. PICK j \in Near(TM, FALSE, u.source) : m = Built(TM[j])
    BY <1>5 DEF BestMatches
  <2>2. /\ m.source \notin ShortSources \cup {NoText}
        /\ Similarity[u.source, m.source] >= MinSimilarity
    BY <2>1, BuiltFields DEF Near, Usable, Eligible
  <2>3. k \in Eligible(po, TRUE)
    BY <1>1, <2>2 DEF Eligible
  <2>4. \A j2 \in Eligible(po, TRUE) : po[j2].source = po[k].source => j2 = k
    BY <1>1, <1>2 DEF Eligible
  <2>5. ~(k < k)
    <3>1. k \in Nat
      BY StoreShape
    <3>2. QED
      BY <3>1
  <2>6. {j2 \in Eligible(po, TRUE) : j2 < k /\ po[j2].source = po[k].source} = {}
    BY <2>4, <2>5, Zenon
  <2>7. k \in Near(po, TRUE, u.source)
    BY <1>1, <2>2, <2>3, <2>6 DEF Usable, Near
  <2>8. QED
    BY <1>5, <2>7, BestMatchExists
<1>6. m \in MatchFuzzy(u) \/ \E j \in DOMAIN po : m = po[j]
  BY MatchesAreKnown
<1>7. QED
  BY <1>3, <1>4, <1>5, <1>6 DEF MatchFuzzy

(* A lone entry that is marked as reused has its text in a live entry of   *)
(* the new file.                                                           *)
TakenOver(k) ==
  \E i \in DOMAIN pot : /\ pc = "merging" => i < next
                        /\ i \in DOMAIN out /\ out[i].target = po[k].target
                        /\ ~out[i].obsolete

UsedInv ==
  pc \in {"merging", "obsoleting"} =>
    \A k \in DOMAIN po \cap reused : Lone(k) /\ HasTarget(po[k]) => TakenOver(k)

(* A lone entry that has had its turn at the end of a run survives it.     *)
Kept(k) ==
  HasTarget(po[k]) /\ (\A i \in DOMAIN pot : GetId(pot[i]) # GetId(po[k])) =>
    \E i \in DOMAIN out : /\ out[i].target = po[k].target
                          /\ out[i].obsolete => GetId(out[i]) = GetId(po[k])

KeptInv ==
  pc = "obsoleting" => \A k \in DOMAIN po : k < next /\ Lone(k) => Kept(k)

(* What one turn of the first loop writes. *)
LEMMA TurnTakesOver ==
  ASSUME IdsInv, FlagsInv, CarriedInv, KnownInv, PretranslateUnit, NEW n, n = next,
         NEW k \in DOMAIN po, k \in reused', k \notin reused, Lone(k), HasTarget(po[k])
  PROVE  /\ n \in DOMAIN pot /\ n \in DOMAIN out'
         /\ out'[n].target = po[k].target /\ ~out'[n].obsolete
<1> DEFINE u == out[n]
<1>1. /\ pot \in Pots /\ IsStore(po) /\ IsStore(pot) /\ CountableStore(po)
      /\ n \in DOMAIN out /\ DOMAIN out = DOMAIN pot
  <2>1. pot \in Pots /\ IsStore(po) /\ IsStore(out) /\ IsStore(pot) /\ CountableStore(po)
    BY PotsAssumption DEF IdsInv, FlagsInv
  <2>2. Len(out) = Len(pot) /\ next <= Len(out) /\ next \in Nat /\ 1 <= next
    BY DEF IdsInv, CarriedInv, FollowsPot, PretranslateUnit
  <2>3. QED
    BY <2>1, <2>2, StoreShape
<1>2. u = pot[n]
  BY <1>1 DEF CarriedInv, PretranslateUnit, IdsInv
<1>3. /\ IsUnit(u) /\ Countable(u.typecomments)
      /\ IsTranslatable(u) /\ ~HasTarget(u) /\ ~IsFuzzy(u)
  BY <1>1, <1>2, PotsAssumption, ListsAreCountable DEF IsStore, CountableStore
<1>4. u.source \in Sources
  BY <1>1, <1>2 DEF Sources
<1>5. PICK m \in MatchingUnits(u) :
        /\ out' = [out EXCEPT ![n] = IF HasTarget(m) THEN Merge(u, m, FALSE, TRUE, TRUE) ELSE u]
        /\ reused' = MarkReused(m)
  BY <1>3, Zenon DEF PretranslateUnit
<1> HIDE DEF u
<1>6. FindUnit(po, m.source) = k /\ k # 0
  BY <1>5 DEF MarkReused
<1>7. m.target = po[k].target
  BY <1>1, <1>4, <1>6, MatchIsTheLoneEntry
<1>8. HasTarget(m) /\ Countable(m.typecomments)
  BY <1>1, <1>7, MatchesAreCountable DEF HasTarget
<1>9. out'[n] = Merge(u, m, FALSE, TRUE, TRUE) /\ DOMAIN out' = DOMAIN out
  BY <1>1, <1>5, <1>8
<1>10. LET v == Merge(u, m, FALSE, TRUE, TRUE) IN v.target = m.target /\ v.obsolete = u.obsolete
  BY <1>3, <1>8, MergeUntranslated
<1>11. QED
  BY <1>1, <1>3, <1>7, <1>9, <1>10 DEF IsTranslatable

LEMMA UsedInvStep ==
  IdsInv /\ IdsInv' /\ FlagsInv /\ CarriedInv /\ KnownInv /\ UsedInv /\ [Next]_vars => UsedInv'
<1> SUFFICES ASSUME IdsInv, IdsInv', FlagsInv, CarriedInv, KnownInv, UsedInv, [Next]_vars
             PROVE  UsedInv'
  OBVIOUS
<1>1. /\ IsStore(out) /\ IsStore(pot) /\ next \in Nat
      /\ DOMAIN pot = 1 .. Len(pot) /\ Len(pot) \in Nat
      /\ DOMAIN out = 1 .. Len(out) /\ Len(out) \in Nat
  BY PotsAssumption, StoreShape DEF IdsInv
<1>2. CASE pc' = "idle"
  BY <1>2 DEF UsedInv
<1>3. CASE Start
  BY <1>3 DEF Start, UsedInv
<1>4. CASE PretranslateUnit
  <2>1. /\ UNCHANGED <<pot, po, pc>> /\ next' = next + 1 /\ pc = "merging"
        /\ DOMAIN out' = DOMAIN out
        /\ \A j \in DOMAIN out \ {next} : out'[j] = out[j]
    BY <1>4, Zenon DEF PretranslateUnit
  <2>2. ASSUME NEW k \in DOMAIN po, k \in reused', Lone(k), HasTarget(po[k])
        PROVE  TakenOver(k)'
    <3>1. PICK n : n = next
      OBVIOUS
    <3>2. CASE k \in reused
      <4>1. PICK i \in DOMAIN pot : /\ i < next /\ i \in DOMAIN out
                                    /\ out[i].target = po[k].target /\ ~out[i].obsolete
        BY <2>1, <2>2, <3>2 DEF UsedInv, TakenOver
      <4>2. i \in DOMAIN out' /\ out'[i] = out[i] /\ i < next'
        BY <1>1, <2>1, <4>1
      <4>3. QED
        BY <2>1, <4>1, <4>2 DEF TakenOver
    <3>3. CASE k \notin reused
      <4>1. /\ n \in DOMAIN pot /\ n \in DOMAIN out'
            /\ out'[n].target = po[k].target /\ ~out'[n].obsolete
        BY <1>4, <2>2, <3>1, <3>3, TurnTakesOver
      <4>2. n < next'
        BY <1>1, <2>1, <3>1
      <4>3. QED
        BY <2>1, <4>1, <4>2 DEF TakenOver
    <3>4. QED
      BY <3>2, <3>3
  <2>3. \A k : Lone(k)' = Lone(k) /\ HasTarget(po[k])' = HasTarget(po[k])
    BY <2>1 DEF Lone, HasTarget
  <2>4. QED
    BY <2>1, <2>2, <2>3 DEF UsedInv
<1>5. ASSUME pc' = "obsoleting", UNCHANGED <<pot, po, reused>>, pc \in {"merging", "obsoleting"},
             \A i \in DOMAIN out : i \in DOMAIN out' /\ out'[i] = out[i]
      PROVE  UsedInv'
  <2>1. \A k : TakenOver(k) => TakenOver(k)'
    BY <1>5 DEF TakenOver
  <2>2. \A k : Lone(k)' = Lone(k) /\ HasTarget(po[k])' = HasTarget(po[k])
    BY <1>5 DEF Lone, HasTarget
  <2>3. QED
    BY <1>5, <2>1, <2>2 DEF UsedInv
<1>6. CASE AllMerged
  BY <1>5, <1>6 DEF AllMerged
<1>7. CASE ObsoleteUnit
  BY <1>5, <1>7, ObsoleteUnitAppends DEF ObsoleteUnit
<1>8. CASE UNCHANGED vars
  <2>1. \A k : /\ TakenOver(k)' = TakenOver(k) /\ Lone(k)' = Lone(k)
               /\ HasTarget(po[k])' = HasTarget(po[k])
    BY <1>8 DEF vars, TakenOver, Lone, HasTarget
  <2>2. QED
    BY <1>8, <2>1 DEF vars, UsedInv
<1>9. pc' = "idle" \/ Start \/ PretranslateUnit \/ AllMerged \/ ObsoleteUnit \/ UNCHANGED vars
  BY DEF Next, Extract, Doubt, Translate, Abort, Finish
<1>10. QED
  BY <1>2, <1>3, <1>4, <1>6, <1>7, <1>8, <1>9

(* The turn of an old entry: it is appended, or its text is in use.        *)
LEMMA TurnKeeps ==
  ASSUME IdsInv, KnownInv, UsedInv, ObsoleteUnit, NEW n \in DOMAIN po, n = next, Lone(n)
  PROVE  Kept(n)'
<1>1. UNCHANGED <<pot, po>> /\ pc = "obsoleting"
  BY DEF ObsoleteUnit
<1>2. SUFFICES ASSUME HasTarget(po[n]), \A i \in DOMAIN pot : GetId(pot[i]) # GetId(po[n])
               PROVE  \E i \in DOMAIN out' : /\ out'[i].target = po[n].target
                                             /\ out'[i].obsolete => GetId(out'[i]) = GetId(po[n])
  BY <1>1 DEF Kept, HasTarget
<1>3. CASE Obsoletes(n)
  <2>1. PICK i \in DOMAIN out' : out'[i] = MakeObsolete(po[n])
    BY <1>3, ObsoleteUnitAppends
  <2>2. IsUnit(po[n])
    BY DEF IdsInv, IsStore
  <2>3. out'[i].target = po[n].target /\ GetId(out'[i]) = GetId(po[n])
    <3>1. Differs(po[n], out'[i], {"typecomments", "state_n", "obsolete", "locations"})
      BY <2>1, <2>2, MakeObsoleteDiffers
    <3>2. QED
      BY <3>1, FieldsOfAUnit DEF Differs, GetId
  <2>4. QED
    BY <2>3
<1>4. CASE ~Obsoletes(n)
  <2>1. n \in Indexed(po)
    BY KnownUnits DEF KnownInv, Indexed
  <2>2. ~HasId(pot, GetId(po[n]))
    BY <1>2 DEF HasId, Indexed
  <2>3. n \in reused
    BY <1>2, <1>4, <2>1, <2>2 DEF Obsoletes
  <2>4. PICK i \in DOMAIN out : out[i].target = po[n].target /\ ~out[i].obsolete
    BY <1>1, <1>2, <2>3 DEF UsedInv, TakenOver
  <2>5. i \in DOMAIN out' /\ out'[i] = out[i]
    BY ObsoleteUnitAppends
  <2>6. QED
    BY <2>4, <2>5
<1>5. QED
  BY <1>3, <1>4

LEMMA KeptInvStep ==
  IdsInv /\ KnownInv /\ UsedInv /\ KeptInv /\ CarriedInv /\ [Next]_vars => KeptInv'
<1> SUFFICES ASSUME IdsInv, KnownInv, UsedInv, KeptInv, CarriedInv, [Next]_vars PROVE KeptInv'
  OBVIOUS
<1>1. DOMAIN po = 1 .. Len(po) /\ Len(po) \in Nat /\ next \in Nat
  BY StoreShape DEF IdsInv
<1>2. CASE pc' # "obsoleting"
  BY <1>2 DEF KeptInv
<1>3. CASE AllMerged
  <2>1. UNCHANGED po /\ next' = 1
    BY <1>3 DEF AllMerged
  <2>2. \A k \in DOMAIN po' : ~(k < next')
    BY <1>1, <2>1
  <2>3. QED
    BY <2>2 DEF KeptInv
<1>4. CASE ObsoleteUnit
  <2>1. UNCHANGED <<pot, po, pc>> /\ next' = next + 1 /\ pc = "obsoleting"
    BY <1>4 DEF ObsoleteUnit
  <2>2. \A k : Lone(k)' = Lone(k)
    BY <2>1 DEF Lone
  <2>3. ASSUME NEW k \in DOMAIN po, k < next + 1, Lone(k) PROVE Kept(k)'
    <3>1. CASE k = next
      BY <1>4, <2>3, <3>1, TurnKeeps
    <3>2. CASE k < next
      <4>1. Kept(k)
        BY <2>1, <2>3, <3>2 DEF KeptInv
      <4>2. \A i \in DOMAIN out : i \in DOMAIN out' /\ out'[i] = out[i]
        BY <1>4, ObsoleteUnitAppends
      <4>3. QED
        BY <2>1, <4>1, <4>2 DEF Kept, HasTarget
    <3>3. QED
      BY <1>1, <2>3, <3>1, <3>2
  <2>4. QED
    BY <2>1, <2>2, <2>3 DEF KeptInv
<1>5. CASE UNCHANGED vars
  <2>1. \A k : Lone(k)' = Lone(k) /\ Kept(k)' = Kept(k)
    BY <1>5 DEF vars, Lone, Kept, HasTarget
  <2>2. QED
    BY <1>5, <2>1 DEF vars, KeptInv
<1>6. pc' # "obsoleting" \/ AllMerged \/ ObsoleteUnit \/ UNCHANGED vars
  <2>1. IdsInv /\ (Extract \/ Start \/ PretranslateUnit \/ Abort \/ Finish) => pc' # "obsoleting"
    BY DEF Extract, Start, PretranslateUnit, Abort, Finish
  <2>2. ASSUME NEW k, Doubt(k) \/ \E text : Translate(k, text) PROVE pc' # "obsoleting"
    BY <2>2 DEF Doubt, Translate
  <2>3. QED
    BY <2>1, <2>2 DEF Next
<1>7. QED
  BY <1>2, <1>3, <1>4, <1>5, <1>6

(* When a run ends, the translation of every message that is gone and      *)
(* whose source no other entry has is still in the file, obsolete or in    *)
(* use for one of its messages (mark_reused, _store_post_merge_pofile).    *)
THEOREM LoneUnusedSurvive == Spec => LoneUnusedAreMadeObsolete
<1> DEFINE Inv == IdsInv /\ FlagsInv /\ CarriedInv /\ KnownInv /\ UsedInv /\ KeptInv
<1>1. Init => Inv
  <2>1. Init => CarriedInv /\ UsedInv /\ KeptInv
    BY DEF Init, CarriedInv, UsedInv, KeptInv
  <2>2. QED
    BY <2>1, IdsInvInit, FlagsInvInit, KnownInvInit
<1>2. Inv /\ [Next]_vars => Inv'
  BY IdsInvStep, FlagsInvStep, CarriedInvStep, KnownInvStep, UsedInvStep, KeptInvStep
<1>3. Inv /\ [Next]_vars =>
        [pc = "obsoleting" /\ pc' = "idle" =>
           \A k \in DOMAIN po :
             (\A j \in DOMAIN po \ {k} : po[j].source # po[k].source) => Survives(k)]_vars
  <2> SUFFICES ASSUME Inv, Next, pc = "obsoleting", pc' = "idle",
                      NEW k \in DOMAIN po, Lone(k)
               PROVE  Survives(k)
    BY DEF Lone
  <2>1. Finish
    BY DEF Next, Extract, Doubt, Translate, Start, Abort, PretranslateUnit, AllMerged, ObsoleteUnit
  <2>2. k < next /\ po' = out
    BY <2>1, StoreShape DEF Finish, IdsInv
  <2>3. Kept(k)
    BY <2>2 DEF KeptInv
  <2>4. QED
    BY <2>2, <2>3 DEF Kept, Survives, Range
<1> HIDE DEF Inv
<1>4. Spec => [][pc = "obsoleting" /\ pc' = "idle" =>
           \A k \in DOMAIN po :
             (\A j \in DOMAIN po \ {k} : po[j].source # po[k].source) => Survives(k)]_vars
  BY <1>1, <1>2, <1>3, PTL DEF Spec
<1>5. QED
  BY <1>4 DEF LoneUnusedAreMadeObsolete

-----------------------------------------------------------------------------
(* Whose translations pot2po presents as finished, where entries are       *)
(* matched fuzzily only in projects without contexts.                      *)

Approved(u) == HasTarget(u) /\ ~IsFuzzy(u) => <<GetId(u), u.target>> \in approved

ApprovedInv ==
  /\ \A k \in DOMAIN TM : <<GetId(TM[k]), TM[k].target>> \in approved
  /\ \A k \in DOMAIN po : Approved(po[k])
  /\ \A k \in DOMAIN out : Approved(out[k])

(* The ids of a project without contexts have none. *)
PlainInv == FuzzyMatching[pot] => \A k \in DOMAIN po : po[k].context = NoContext

LEMMA PlainInvStep ==
  ASSUME PlainProjects
  PROVE  IdsInv /\ PlainInv /\ [Next]_vars => PlainInv'
<1> SUFFICES ASSUME IdsInv, PlainInv, [Next]_vars PROVE PlainInv'
  OBVIOUS
<1>1. /\ pot \in Pots /\ IsStore(po)
      /\ \A k \in DOMAIN po : IsUnit(po[k])
  BY DEF IdsInv, IsStore
<1>2. ASSUME UNCHANGED pot, DOMAIN po' = DOMAIN po,
             \A k \in DOMAIN po : GetId(po'[k]) = GetId(po[k])
      PROVE  PlainInv'
  BY <1>2 DEF PlainInv, GetId
<1>3. ASSUME NEW k \in DOMAIN po, NEW u, po' = [po EXCEPT ![k] = u], UNCHANGED pot,
             IsUnit(u), GetId(u) = GetId(po[k])
      PROVE  PlainInv'
  BY <1>2, <1>3
<1>4. ASSUME NEW k \in DOMAIN po, Doubt(k) PROVE PlainInv'
  BY <1>1, <1>3, <1>4, IdsAreKept DEF Doubt
<1>5. ASSUME NEW k \in DOMAIN po, NEW text, Translate(k, text) PROVE PlainInv'
  <2>1. IsUnit(po[k])
    BY <1>1
  <2>2. QED
    BY <1>3, <1>5, <2>1, IdsAreKept DEF Translate
<1>6. CASE Start
  <2>1. \A k \in DOMAIN po : IsUnit(po'[k]) /\ GetId(po'[k]) = GetId(po[k])
    BY <1>6, IdsAreKept DEF Start, IdsInv, IsStore
  <2>2. QED
    BY <1>2, <1>6, <2>1 DEF Start
<1>7. CASE Extract
  <2>1. FuzzyMatching[pot'] => FuzzyMatching[pot]
    BY <1>1, <1>7 DEF Extract, PlainProjects
  <2>2. QED
    BY <1>7, <2>1 DEF Extract, PlainInv
<1>8. CASE Finish
  <2> SUFFICES ASSUME FuzzyMatching[pot], NEW i \in DOMAIN out
               PROVE  out[i].context = NoContext
    BY <1>8 DEF Finish, PlainInv
  <2>1. \/ \E j \in DOMAIN pot : GetId(out[i]) = GetId(pot[j])
        \/ \E k \in DOMAIN po : GetId(out[i]) = GetId(po[k])
    BY <1>8 DEF Finish, IdsInv, AddedFromPo
  <2>2. \A j \in DOMAIN pot : pot[j].context = NoContext
    BY <1>1 DEF PlainProjects
  <2>3. QED
    BY <2>1, <2>2 DEF PlainInv, GetId
<1>9. CASE Abort
  BY <1>9, EmptyStore DEF Abort, PlainInv
<1>10. CASE UNCHANGED <<pot, po>>
  BY <1>10 DEF PlainInv
<1>11. QED
  BY <1>4, <1>5, <1>6, <1>7, <1>8, <1>9, <1>10
     DEF Next, PretranslateUnit, AllMerged, ObsoleteUnit, vars

(* What a matcher builds from an entry without a context has its id, and   *)
(* is fuzzy if the entry is.                                               *)
LEMMA BuiltFromPlain ==
  ASSUME NEW c, c.context = NoContext
  PROVE  GetId(Built(c)) = GetId(c) /\ (~IsFuzzy(Built(c)) => ~IsFuzzy(c))
<1> DEFINE w == [NewUnit(c.source, NoContext) EXCEPT
                   !.target = c.target, !.othercomments = c.othercomments]
<1>1. IsUnit(w) /\ w.source = c.source /\ w.context = NoContext /\ w.typecomments = NoFlags
  BY FieldsOfAUnit DEF NewUnit, IsUnit
<1>2. Built(c) = MarkFuzzy(w, IsFuzzy(c))
  BY DEF Built
<1> HIDE DEF w
<1>3. Countable(NoFlags) /\ IsFuzzy(c) \in BOOLEAN
  BY FS_EmptySet DEF Countable, NoFlags, IsFuzzy, HasTypeComment
<1>4. IsFuzzy(c) => IsFuzzy(Built(c))
  BY <1>1, <1>2, <1>3, MarkFuzzyFlag
<1>5. Differs(w, Built(c), {"typecomments", "state_n"})
  BY <1>1, <1>2, MarkFuzzyDiffers
<1>6. QED
  BY <1>1, <1>4, <1>5, FieldsOfAUnit DEF Differs, GetId

(* An unmarked match with the id of the message has an approved text.      *)
LEMMA MatchIsApproved ==
  ASSUME PlainProjects, IsStore(po), PlainInv, ApprovedInv, NEW u, NEW m \in MatchingUnits(u)
  PROVE  Approved(m)
<1>1. CASE \E k \in DOMAIN po : m = po[k]
  BY <1>1 DEF ApprovedInv
<1>2. ASSUME NEW c, m = Built(c), c.context = NoContext, Approved(c) PROVE Approved(m)
  BY <1>2, BuiltFromPlain, BuiltFields DEF Approved, HasTarget
<1>3. CASE FuzzyMatching[pot] /\ m \in BestMatches(po, TRUE, u.source)
  <2>1. PICK k \in DOMAIN po : m = Built(po[k])
    BY <1>3 DEF BestMatches, Near, Usable, Eligible
  <2>2. QED
    BY <1>2, <1>3, <2>1 DEF PlainInv, ApprovedInv
<1>4. CASE FuzzyMatching[pot] /\ m \in BestMatches(TM, FALSE, u.source)
  <2>1. PICK k \in DOMAIN TM : m = Built(TM[k])
    BY <1>4 DEF BestMatches, Near, Usable, Eligible
  <2>2. QED
    BY <1>2, <2>1 DEF PlainProjects, ApprovedInv, Approved
<1>5. QED
  BY <1>1, <1>3, <1>4, MatchesAreKnown DEF MatchFuzzy

-----------------------------------------------------------------------------
(* Keeping an entry as it is, for whoever asks whether it is finished.     *)
LEMMA SameStatusIsApproved ==
  ASSUME NEW u, NEW v, Approved(u), GetId(v) = GetId(u), v.target = u.target,
         HasTarget(u) => v.typecomments = u.typecomments
  PROVE  Approved(v)
<1>1. HasTarget(v) = HasTarget(u)
  BY DEF HasTarget
<1>2. HasTarget(u) => IsFuzzy(v) = IsFuzzy(u)
  BY DEF IsFuzzy, HasTypeComment
<1>3. QED
  BY <1>1, <1>2 DEF Approved

LEMMA KeptStatus ==
  ASSUME NEW u, IsUnit(u), Approved(u)
  PROVE  Approved(MakeObsolete(u)) /\ Approved(Parse(u))
<1>1. ASSUME NEW v, Differs(u, v, {"typecomments", "state_n", "obsolete", "locations"})
      PROVE  GetId(v) = GetId(u) /\ v.target = u.target
  BY <1>1, FieldsOfAUnit DEF Differs, GetId
<1>2. Approved(MakeObsolete(u))
  BY <1>1, MakeObsoleteDiffers, ObsoleteKeepsFlags, SameStatusIsApproved
<1>3. Approved(Parse(u))
  BY <1>1, ParseDiffers, ParseKeepsStatus, SameStatusIsApproved
<1>4. QED
  BY <1>2, <1>3

(* One turn of the first loop. *)
LEMMA TurnIsApproved ==
  ASSUME PlainProjects, IdsInv, FlagsInv, CarriedInv, PlainInv, ApprovedInv,
         PretranslateUnit, NEW n, n = next
  PROVE  n \in DOMAIN out /\ Approved(out'[n])
<1> DEFINE u == out[n]
<1>1. /\ pot \in Pots /\ IsStore(po) /\ IsStore(pot) /\ CountableStore(po)
      /\ n \in DOMAIN out /\ DOMAIN out = DOMAIN pot
  <2>1. pot \in Pots /\ IsStore(po) /\ IsStore(out) /\ IsStore(pot) /\ CountableStore(po)
    BY PotsAssumption DEF IdsInv, FlagsInv
  <2>2. Len(out) = Len(pot) /\ next <= Len(out) /\ next \in Nat /\ 1 <= next
    BY DEF IdsInv, CarriedInv, FollowsPot, PretranslateUnit
  <2>3. QED
    BY <2>1, <2>2, StoreShape
<1>2. u = pot[n]
  BY <1>1 DEF CarriedInv, PretranslateUnit, IdsInv
<1>3. IsUnit(u) /\ Countable(u.typecomments) /\ ~HasTarget(u) /\ ~IsFuzzy(u)
  BY <1>1, <1>2, PotsAssumption, ListsAreCountable DEF IsStore, CountableStore
<1>4. \/ out'[n] = u
      \/ \E m \in MatchingUnits(u) : HasTarget(m) /\ out'[n] = Merge(u, m, FALSE, TRUE, TRUE)
  <2>1. \/ out' = out
        \/ \E m \in MatchingUnits(u) :
             out' = [out EXCEPT ![n] = IF HasTarget(m) THEN Merge(u, m, FALSE, TRUE, TRUE) ELSE u]
    BY Zenon DEF PretranslateUnit
  <2> HIDE DEF u
  <2>2. CASE out' = out
    BY <2>2 DEF u
  <2>3. ASSUME NEW m \in MatchingUnits(u),
               out' = [out EXCEPT ![n] = IF HasTarget(m) THEN Merge(u, m, FALSE, TRUE, TRUE) ELSE u]
        PROVE  out'[n] = u \/ (HasTarget(m) /\ out'[n] = Merge(u, m, FALSE, TRUE, TRUE))
    BY <1>1, <2>3
  <2>4. QED
    BY <2>1, <2>2, <2>3
<1> HIDE DEF u
<1>5. CASE out'[n] = u
  BY <1>1, <1>3, <1>5 DEF Approved
<1>6. ASSUME NEW m \in MatchingUnits(u), HasTarget(m), out'[n] = Merge(u, m, FALSE, TRUE, TRUE)
      PROVE  Approved(out'[n])
  <2>1. Countable(m.typecomments) /\ Approved(m)
    BY <1>1, MatchesAreCountable, MatchIsApproved
  <2>2. LET v == Merge(u, m, FALSE, TRUE, TRUE)
        IN /\ GetId(v) = GetId(u) /\ v.target = m.target
           /\ IsFuzzy(v) = (IsFuzzy(m) \/ GetId(m) # GetId(u))
    BY <1>3, <1>6, <2>1, MergeUntranslated
  <2>3. QED
    BY <1>6, <2>1, <2>2 DEF Approved
<1>7. QED
  BY <1>1, <1>4, <1>5, <1>6

LEMMA ApprovedInvStep ==
  ASSUME PlainProjects
  PROVE  IdsInv /\ FlagsInv /\ CarriedInv /\ PlainInv /\ ApprovedInv /\ [Next]_vars => ApprovedInv'
<1> SUFFICES ASSUME IdsInv, FlagsInv, CarriedInv, PlainInv, ApprovedInv, [Next]_vars
             PROVE  ApprovedInv'
  OBVIOUS
<1>1. /\ pot \in Pots /\ IsStore(po) /\ IsStore(out)
      /\ \A k \in DOMAIN po : IsUnit(po[k]) /\ Countable(po[k].typecomments)
  BY DEF IdsInv, IsStore, FlagsInv, CountableStore
<1>2. approved \subseteq approved'
  <2>1. ASSUME NEW k, Doubt(k) \/ \E text : Translate(k, text) PROVE approved \subseteq approved'
    BY <2>1 DEF Doubt, Translate
  <2>2. QED
    BY <2>1 DEF Next, Extract, Start, Abort, PretranslateUnit, AllMerged, ObsoleteUnit, Finish, vars
<1>3. ASSUME NEW f, NEW g, po' = f, out' = g,
             \A k \in DOMAIN f : HasTarget(f[k]) /\ ~IsFuzzy(f[k]) =>
                                   <<GetId(f[k]), f[k].target>> \in approved',
             \A k \in DOMAIN g : HasTarget(g[k]) /\ ~IsFuzzy(g[k]) =>
                                   <<GetId(g[k]), g[k].target>> \in approved'
      PROVE  ApprovedInv'
  BY <1>2, <1>3 DEF ApprovedInv, Approved, HasTarget
<1>4. /\ \A k \in DOMAIN po : HasTarget(po[k]) /\ ~IsFuzzy(po[k]) =>
                               <<GetId(po[k]), po[k].target>> \in approved'
      /\ \A k \in DOMAIN out : HasTarget(out[k]) /\ ~IsFuzzy(out[k]) =>
                               <<GetId(out[k]), out[k].target>> \in approved'
  BY <1>2 DEF ApprovedInv, Approved
<1>5. ASSUME NEW k \in DOMAIN po, NEW u, po' = [po EXCEPT ![k] = u], UNCHANGED out,
             HasTarget(u) /\ ~IsFuzzy(u) => <<GetId(u), u.target>> \in approved'
      PROVE  ApprovedInv'
  BY <1>3, <1>4, <1>5
<1>6. ASSUME NEW k \in DOMAIN po, Doubt(k) PROVE ApprovedInv'
  BY <1>1, <1>5, <1>6, MarkFuzzyFlag DEF Doubt
<1>7. ASSUME NEW k \in DOMAIN po, NEW text, Translate(k, text) PROVE ApprovedInv'
  <2> DEFINE w == SetTarget(po[k], text)
  <2> DEFINE u == MarkFuzzy(w, FALSE)
  <2>1. IsUnit(w) /\ GetId(w) = GetId(po[k]) /\ w.target = text
    BY <1>1, FieldsOfAUnit DEF SetTarget, IsUnit, GetId
  <2>2. po' = [po EXCEPT ![k] = u] /\ UNCHANGED out /\ <<GetId(po[k]), text>> \in approved'
    BY <1>7 DEF Translate
  <2> HIDE DEF w
  <2>3. Differs(w, u, {"typecomments", "state_n"})
    BY <2>1, MarkFuzzyDiffers
  <2> HIDE DEF u
  <2>4. GetId(u) = GetId(po[k]) /\ u.target = text
    BY <2>1, <2>3, FieldsOfAUnit DEF Differs, GetId
  <2>5. QED
    BY <1>5, <2>2, <2>4
<1>8. CASE Start
  <2>1. UNCHANGED approved /\ out' = pot /\ po' = [k \in DOMAIN po |-> Parse(po[k])]
    BY <1>8 DEF Start
  <2>2. \A k \in DOMAIN po : Approved(Parse(po[k]))
    BY <1>1, KeptStatus DEF ApprovedInv
  <2>3. \A k \in DOMAIN pot : ~HasTarget(pot[k])
    BY <1>1, PotsAssumption
  <2>4. QED
    BY <1>3, <2>1, <2>2, <2>3 DEF Approved
<1>9. CASE PretranslateUnit
  <2>1. PICK n : n = next
    OBVIOUS
  <2>2. n \in DOMAIN out /\ Approved(out'[n])
    BY <1>9, <2>1, TurnIsApproved
  <2>3. /\ UNCHANGED <<po, approved>> /\ DOMAIN out' = DOMAIN out
        /\ \A j \in DOMAIN out \ {n} : out'[j] = out[j]
    BY <1>9, <2>1, Zenon DEF PretranslateUnit
  <2>4. \A j \in DOMAIN out' : Approved(out'[j])
    BY <2>2, <2>3 DEF ApprovedInv
  <2>5. QED
    BY <1>3, <1>4, <2>3, <2>4 DEF Approved
<1>10. CASE ObsoleteUnit
  <2>1. UNCHANGED <<po, approved>>
    BY <1>10 DEF ObsoleteUnit
  <2>2. CASE UNCHANGED out
    BY <1>3, <1>4, <2>1, <2>2
  <2>3. CASE Obsoletes(next) /\ out' = Append(out, MakeObsolete(po[next]))
    <3> DEFINE u == MakeObsolete(po[next])
    <3>1. next \in DOMAIN po
      BY <2>3 DEF Obsoletes, Indexed
    <3>2. IsUnit(u) /\ Approved(u)
      BY <1>1, <3>1, IdsAreKept, KeptStatus DEF ApprovedInv
    <3> HIDE DEF u
    <3>3. /\ DOMAIN out' = 1 .. Len(out) + 1 /\ DOMAIN out = 1 .. Len(out) /\ Len(out) \in Nat
          /\ \A k \in 1 .. Len(out) : out'[k] = out[k]
          /\ out'[Len(out) + 1] = u
      BY <1>1, <2>3, <3>2, AppendStore, StoreShape DEF u
    <3>4. \A j \in DOMAIN out' : Approved(out'[j])
      BY <3>2, <3>3 DEF ApprovedInv
    <3>5. QED
      BY <1>3, <1>4, <2>1, <3>4 DEF Approved
  <2>4. QED
    BY <1>10, <2>2, <2>3 DEF ObsoleteUnit
<1>11. CASE Finish
  <2>1. po' = out /\ out' = << >>
    BY <1>11 DEF Finish
  <2>2. QED
    BY <1>3, <1>4, <2>1, EmptyStore
<1>12. CASE Abort
  <2>1. po' = << >> /\ out' = << >>
    BY <1>12 DEF Abort
  <2>2. QED
    BY <1>3, <2>1, EmptyStore
<1>13. CASE UNCHANGED <<po, out>>
  BY <1>3, <1>4, <1>13
<1>14. QED
  BY <1>6, <1>7, <1>8, <1>9, <1>10, <1>11, <1>12, <1>13 DEF Next, Extract, AllMerged, vars

(* Where no messages with contexts are matched fuzzily, no sequence of     *)
(* runs, extractions and edits presents a text as the finished translation *)
(* of a message for which nobody approved it (pretranslate_unit, merge).   *)
THEOREM FinishedAreApproved ==
  ASSUME PlainProjects
  PROVE  Spec => []TranslatedIsApproved
<1> DEFINE Inv == IdsInv /\ FlagsInv /\ CarriedInv /\ PlainInv /\ ApprovedInv
<1>1. Init => Inv
  <2>1. Init => CarriedInv /\ PlainInv /\ ApprovedInv
    BY EmptyStore DEF Init, CarriedInv, PlainInv, ApprovedInv
  <2>2. QED
    BY <2>1, IdsInvInit, FlagsInvInit
<1>2. Inv /\ [Next]_vars => Inv'
  BY IdsInvStep, FlagsInvStep, CarriedInvStep, PlainInvStep, ApprovedInvStep
<1>3. Inv => TranslatedIsApproved
  BY DEF ApprovedInv, Approved, TranslatedIsApproved, IsTranslated, Range
<1> HIDE DEF Inv
<1>4. QED
  BY <1>1, <1>2, <1>3, PTL DEF Spec
=============================================================================
