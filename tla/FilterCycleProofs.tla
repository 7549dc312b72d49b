-------------------------- MODULE FilterCycleProofs --------------------------
(***************************************************************************)
(* What checking and merging do, for all checkers, files and options: that *)
(* selecting checks hides failures and does nothing else, and whose work   *)
(* the finished translations of a file are.                                *)
(***************************************************************************)
EXTENDS FilterCycle, Lemmas

(* What run_filters keeps of a unit while it tries the preconditions.      *)
Ignorable(c) == c.ignores \cup UNION {c.masks[check] : check \in DOMAIN c.masks}
TriedStates(c, selected) == [ignores : SUBSET Ignorable(c), failures : SUBSET selected]

(* The loop of run_filters, turn by turn.                                  *)
Tries(c, u, selected, tried) ==
  /\ tried[0] = [ignores |-> c.ignores, failures |-> {}]
  /\ \A k \in 1 .. Len(c.preconditions) :
       tried[k] = Precondition(c, u, selected, tried[k - 1], c.preconditions[k])
  /\ \A k \in 0 .. Len(c.preconditions) : tried[k] \in TriedStates(c, selected)

LEMMA ChecksAreTried ==
  ASSUME NEW i \in DOMAIN Checkers, NEW u, NEW selected
  PROVE  LET c == Checkers[i]
         IN \E tried :
              /\ Tries(c, u, selected, tried)
              /\ LET last == tried[Len(c.preconditions)]
                     others == (c.checks \cap selected) \ (DOMAIN c.masks \cup last.ignores)
                 IN RunFilters(c, u, selected)
                      = last.failures \cup {check \in others : FailsCheck(u, check)}
<1> DEFINE c == Checkers[i]
           N == Len(c.preconditions)
           S == TriedStates(c, selected)
           base == [ignores |-> c.ignores, failures |-> {}]
           Turn(k, state) == Precondition(c, u, selected, state, c.preconditions[k])
           step == [k \in 1 .. N |-> [state \in S |-> Turn(k, state)]]
           Body(f) == [k \in 0 .. N |-> IF k = 0 THEN base ELSE Turn(k, f[k - 1])]
           tried == CHOOSE f : f = Body(f)
<1>1. N \in Nat /\ \A k \in 1 .. N : c.preconditions[k] \in DOMAIN c.masks
  BY CheckersAssumption
<1>2. base \in S
  BY DEF TriedStates, Ignorable
<1>3. ASSUME NEW k \in 1 .. N, NEW state \in S PROVE Turn(k, state) \in S
  <2> DEFINE check == c.preconditions[k]
  <2>1. check \in DOMAIN c.masks
    BY <1>1
  <2> HIDE DEF check, c
  <2>2. c.masks[check] \subseteq Ignorable(c)
    BY <2>1 DEF Ignorable
  <2>3. state.ignores \subseteq Ignorable(c) /\ state.failures \subseteq selected
    BY <1>3 DEF TriedStates
  <2>4. [ignores  |-> state.ignores \cup c.masks[check],
         failures |-> state.failures \cup ({check} \cap selected)] \in S
    BY <2>2, <2>3 DEF TriedStates
  <2>5. Precondition(c, u, selected, state, check) \in S
    BY <1>3, <2>4 DEF Precondition
  <2>6. QED
    BY <2>5 DEF check
<1> HIDE DEF c, S, base, Turn
<1>4. step \in Turns(N, S)
  BY <1>3 DEF Turns
<1>5. PICK f \in [0 .. N -> S] : f[0] = base /\ \A k \in 1 .. N : f[k] = step[k][f[k - 1]]
  <2> HIDE DEF step, N
  <2>1. Runs(N, S, base, step) # {}
    BY <1>1, <1>2, <1>4, TurnRecursion
  <2>2. QED
    BY <2>1 DEF Runs
<1>6. f = Body(f)
  <2>1. ASSUME NEW k \in 1 .. N PROVE f[k] = Turn(k, f[k - 1])
    <3>1. f[k - 1] \in S
      <4>1. k - 1 \in 0 .. N
        BY <1>1
      <4> HIDE DEF N
      <4>2. QED
        BY <1>5, <4>1
    <3>2. QED
      BY <1>5, <3>1
  <2> HIDE DEF N, step
  <2>2. QED
    BY <1>1, <1>5, <2>1
<1>7. tried = Body(tried)
  <2> HIDE DEF Body
  <2>1. QED
    BY <1>6
<1>8. tried[0] = base /\ \A k \in 1 .. N : tried[k] = Turn(k, tried[k - 1])
  <2> HIDE DEF tried, N
  <2>1. QED
    BY <1>1, <1>7
<1>9. LET last == tried[N]
          others == (c.checks \cap selected) \ (DOMAIN c.masks \cup last.ignores)
      IN RunFilters(c, u, selected) = last.failures \cup {check \in others : FailsCheck(u, check)}
  BY DEF RunFilters, base, Turn
<1> HIDE DEF tried
<1>10. \A k \in 0 .. N : tried[k] \in S
  <2> DEFINE Good == {n \in 0 .. N : tried[n] \in S}
  <2> HIDE DEF N
  <2>1. 0 \in Good
    BY <1>1, <1>2, <1>8
  <2>2. ASSUME NEW n \in 1 .. N, n - 1 \in Good PROVE n \in Good
    BY <1>3, <1>8, <2>2
  <2> HIDE DEF Good
  <2>3. 0 .. N \subseteq Good
    BY <1>1, <2>1, <2>2, TurnInduction
  <2>4. QED
    BY <2>3 DEF Good
<1>11. Tries(c, u, selected, tried)
  BY <1>8, <1>10 DEF Tries, N, S, base, Turn
<1>12. QED
  BY <1>9, <1>11 DEF N, c

(* A checker ignores the same checks, whatever is selected.                *)
LEMMA SelectionHides ==
  ASSUME NEW i \in DOMAIN Checkers, NEW u, NEW selected \in SUBSET Checks
  PROVE  RunFilters(Checkers[i], u, selected)
           = RunFilters(Checkers[i], u, Checks) \cap selected
<1> DEFINE c == Checkers[i]
           N == Len(c.preconditions)
           Found(only, last) ==
             LET others == (c.checks \cap only) \ (DOMAIN c.masks \cup last.ignores)
             IN last.failures \cup {check \in others : FailsCheck(u, check)}
<1>1. N \in Nat /\ c.checks \subseteq Checks
  BY CheckersAssumption
<1>2. PICK some : Tries(c, u, selected, some) /\ RunFilters(c, u, selected) = Found(selected, some[N])
  BY ChecksAreTried
<1>3. PICK all : Tries(c, u, Checks, all) /\ RunFilters(c, u, Checks) = Found(Checks, all[N])
  BY ChecksAreTried
<1> DEFINE Same(n) == /\ some[n].ignores = all[n].ignores
                      /\ some[n].failures = all[n].failures \cap selected
           Good == {n \in 0 .. N : Same(n)}
<1> HIDE DEF c, Found
<1>4. N \in Good
  <2>1. 0 \in Good
    BY <1>1, <1>2, <1>3 DEF Tries
  <2>2. ASSUME NEW n \in 1 .. N, n - 1 \in Good PROVE n \in Good
    <3> DEFINE check == c.preconditions[n]
               before == some[n - 1]
               above == all[n - 1]
               skipped == check \in before.ignores \/ check \notin c.checks \/ ~FailsCheck(u, check)
    <3>1. /\ some[n] = Precondition(c, u, selected, before, check)
          /\ all[n] = Precondition(c, u, Checks, above, check)
      BY <1>2, <1>3 DEF Tries
    <3>2. before.ignores = above.ignores /\ before.failures = above.failures \cap selected
      BY <2>2
    <3> HIDE DEF check, before, above
    <3>3. CASE skipped
      <4>1. some[n] = before /\ all[n] = above
        BY <3>1, <3>2, <3>3 DEF Precondition
      <4>2. QED
        BY <3>2, <4>1
    <3>4. CASE ~skipped
      <4>1. /\ some[n] = [ignores  |-> before.ignores \cup c.masks[check],
                           failures |-> before.failures \cup ({check} \cap selected)]
            /\ all[n] = [ignores  |-> above.ignores \cup c.masks[check],
                         failures |-> above.failures \cup ({check} \cap Checks)]
        BY <3>1, <3>2, <3>4 DEF Precondition
      <4>2. {check} \cap selected = ({check} \cap Checks) \cap selected
        OBVIOUS
      <4>3. Same(n)
        BY <3>2, <4>1, <4>2
      <4>4. QED
        BY <1>1, <4>3
    <3>5. QED
      BY <3>3, <3>4
  <2> HIDE DEF Good, N
  <2>3. 0 .. N \subseteq Good
    BY <1>1, <2>1, <2>2, TurnInduction
  <2>4. QED
    BY <1>1, <2>3
<1>5. Same(N)
  BY <1>4
<1>6. Found(selected, some[N]) = Found(Checks, all[N]) \cap selected
  BY <1>1, <1>5, Zenon DEF Found
<1>7. QED
  BY <1>2, <1>3, <1>6 DEF c

(* Selecting checks hides failures and has no other effect: whatever the   *)
(* checkers are, in every state.                                           *)
THEOREM SelectingHides == Spec => []SelectionOnlyHides
<1>1. ASSUME NEW u, NEW selected \in SUBSET Checks
      PROVE  Failures(u, selected) = Failures(u, Checks) \cap selected
  BY SelectionHides DEF Failures
<1>2. SelectionOnlyHides
  <2>1. ASSUME NEW u \in Range(file), NEW check \in Checks, NEW only \in BOOLEAN
        PROVE  LET selected == IF only THEN {check} ELSE Checks \ {check}
               IN Failures(u, selected) = Failures(u, Checks) \cap selected
    BY <1>1
  <2>2. QED
    BY <2>1 DEF SelectionOnlyHides
<1>3. QED
  BY <1>2, PTL

-----------------------------------------------------------------------------
(* One unit: what a command makes of it.                                   *)

(* A unit that reads as finished was so before it was written.             *)
LEMMA ReadAsFinished ==
  ASSUME NEW u, IsUnit(u)
  PROVE  /\ IsUnit(Parse(u)) /\ GetId(Parse(u)) = GetId(u) /\ Parse(u).target = u.target
         /\ Parse(u).obsolete <=> u.obsolete
         /\ IsTranslated(Parse(u)) => IsTranslated(u)
<1>1. Differs(u, Parse(u), {"typecomments", "state_n", "obsolete", "locations"})
  BY ParseDiffers
<1>2. /\ IsUnit(Parse(u)) /\ GetId(Parse(u)) = GetId(u) /\ Parse(u).target = u.target
      /\ Parse(u).source = u.source /\ Parse(u).context = u.context
  BY <1>1, FieldsOfAUnit DEF Differs, GetId
<1>3. Parse(u).obsolete <=> u.obsolete
  <2> DEFINE w == [u EXCEPT !.state_n = S_UNTRANSLATED]
  <2>1. IsUnit(w) /\ w.obsolete = u.obsolete
    BY FieldsOfAUnit DEF IsUnit
  <2>2. Parse(u) = IF w.obsolete THEN MakeObsolete(w) ELSE MarkFuzzy(w, IsFuzzy(w))
    BY DEF Parse, InferState
  <2> HIDE DEF w
  <2>3. MakeObsolete(w).obsolete = TRUE
    BY <2>1, MakeObsoleteDiffers
  <2>4. MarkFuzzy(w, IsFuzzy(w)).obsolete = w.obsolete
    BY <2>1, MarkFuzzyDiffers, FieldsOfAUnit DEF Differs
  <2>5. QED
    BY <2>1, <2>2, <2>3, <2>4
<1>4. ASSUME IsTranslated(Parse(u)) PROVE IsTranslated(u)
  <2>1. HasTarget(u)
    BY <1>2, <1>4 DEF IsTranslated, HasTarget
  <2>2. Parse(u).typecomments = u.typecomments
    BY <2>1, ParseKeepsStatus
  <2>3. QED
    BY <1>2, <1>3, <1>4, <2>1, <2>2
       DEF IsTranslated, IsFuzzy, HasTypeComment, IsHeader, HasTarget
<1>5. QED
  BY <1>2, <1>3, <1>4

(* merge with overwrite takes the other's text, fuzzy when the other is or *)
(* has another id.                                                         *)
LEMMA MergeOverwrites ==
  ASSUME NEW u, IsUnit(u), Countable(u.typecomments), NEW m, Countable(m.typecomments),
         NEW comments
  PROVE  LET v == Merge(u, m, TRUE, comments, FALSE)
         IN /\ IsUnit(v) /\ Countable(v.typecomments)
            /\ GetId(v) = GetId(u) /\ v.source = u.source /\ v.context = u.context
            /\ v.target = m.target /\ v.obsolete = u.obsolete
            /\ IsFuzzy(m) \/ GetId(m) # GetId(u) => IsFuzzy(v)
<1> DEFINE c == IF comments THEN MergeComments(u, m, FALSE) ELSE u
           w(p) == [c EXCEPT !.target = m.target, !.previous = p]
           v == Merge(u, m, TRUE, comments, FALSE)
<1>1. IsUnit(c) /\ Countable(c.typecomments) /\ GetId(c) = GetId(u)
  <2> DEFINE d == MergeComments(u, m, FALSE)
  <2>1. Differs(u, d, {"othercomments", "typecomments", "locations"}) /\ Countable(d.typecomments)
    BY MergeCommentsDiffers, MergedFlagLines
  <2> HIDE DEF d
  <2>2. IsUnit(d) /\ GetId(d) = GetId(u)
    BY <2>1, FieldsOfAUnit DEF Differs, GetId
  <2>3. c \in {d, u}
    BY DEF d
  <2>4. QED
    BY <2>1, <2>2, <2>3
<1>2. v = MergeTarget(c, m, TRUE)
  BY DEF Merge
<1> HIDE DEF c
<1>3. ASSUME NEW p
      PROVE  IsUnit(w(p)) /\ Countable(w(p).typecomments) /\ w(p).target = m.target
  BY <1>1, FieldsOfAUnit DEF IsUnit
<1>4. /\ GetId(m) # GetId(u) => v = MarkFuzzy(w(GetId(m)), TRUE)
      /\ GetId(m) = GetId(u) => v = MarkFuzzy(w(m.previous), IsFuzzy(m))
  BY <1>1, <1>2 DEF MergeTarget, GetId
<1> HIDE DEF w
<1>5. IsFuzzy(m) \in BOOLEAN
  BY DEF IsFuzzy, HasTypeComment
<1> DEFINE present == IsFuzzy(m) \/ GetId(m) # GetId(u)
<1>6. present \in BOOLEAN /\ \E p : v = MarkFuzzy(w(p), present)
  BY <1>4, <1>5
<1> HIDE DEF v
<1>7. PICK p : v = MarkFuzzy(w(p), present)
  BY <1>6
<1>8. v.target = m.target
  BY <1>3, <1>7, MarkFuzzyDiffers, FieldsOfAUnit DEF Differs
<1>9. Countable(v.typecomments) /\ (present => IsFuzzy(v))
  BY <1>3, <1>6, <1>7, MarkFuzzyFlag
<1>10. IsUnit(v) /\ v.source = u.source /\ v.context = u.context /\ v.obsolete = u.obsolete
  <2>1. Differs(u, v, Mergeable)
    BY MergeDiffers DEF v
  <2>2. QED
    BY <2>1, FieldsOfAUnit DEF Differs, Mergeable
<1>11. QED
  BY <1>8, <1>9, <1>10 DEF v, GetId

-----------------------------------------------------------------------------
(* A file whose entries can be told apart, live only where the entry of    *)
(* the snippet with the same id is, and finished with somebody's text.     *)

Vouched(u, who) == IsTranslated(u) => <<GetId(u), u.target>> \in who

AllVouched(store, who) == \A k \in DOMAIN store : Vouched(store[k], who)

LiveTogether(store, other) ==
  \A k \in DOMAIN store, i \in DOMAIN other :
    GetId(store[k]) = GetId(other[i]) /\ other[i].obsolete => store[k].obsolete

Sound(store, other, who) ==
  /\ IsStore(store) /\ UniqueIds(store) /\ CountableStore(store)
  /\ LiveTogether(store, other)
  /\ AllVouched(store, who)

FinishedInv ==
  /\ Sound(file, snippet, vouched)
  /\ IsStore(snippet) /\ CountableStore(snippet) /\ AllVouched(snippet, vouched)

(* Replacing one unit of a store.                                          *)
LEMMA ReplaceUnit ==
  ASSUME NEW store, IsStore(store), CountableStore(store), NEW k \in DOMAIN store,
         NEW v, IsUnit(v), Countable(v.typecomments), GetId(v) = GetId(store[k])
  PROVE  LET changed == [store EXCEPT ![k] = v]
         IN /\ IsStore(changed) /\ CountableStore(changed)
            /\ DOMAIN changed = DOMAIN store /\ Len(changed) = Len(store)
            /\ changed[k] = v
            /\ \A j \in DOMAIN store : GetId(changed[j]) = GetId(store[j])
            /\ \A j \in DOMAIN store \ {k} : changed[j] = store[j]
<1> DEFINE changed == [store EXCEPT ![k] = v]
<1>1. /\ DOMAIN changed = DOMAIN store /\ changed[k] = v
      /\ \A j \in DOMAIN store \ {k} : changed[j] = store[j]
      /\ changed = [j \in DOMAIN store |-> changed[j]]
  OBVIOUS
<1> HIDE DEF changed
<1>2. DOMAIN store = 1 .. Len(store) /\ Len(store) \in Nat
  BY StoreShape
<1>3. changed \in [1 .. Len(store) -> Range(changed)]
  BY <1>1, <1>2 DEF Range
<1>4. changed \in Seq(Range(changed)) /\ Len(changed) = Len(store)
  BY <1>2, <1>3
<1>5. \A j \in DOMAIN changed : /\ IsUnit(changed[j]) /\ Countable(changed[j].typecomments)
                                /\ GetId(changed[j]) = GetId(store[j])
  BY <1>1 DEF IsStore, CountableStore
<1>6. QED
  BY <1>1, <1>4, <1>5 DEF IsStore, CountableStore, changed

(* A sound file stays one when an entry gets a vouched text.               *)
LEMMA ReplaceSound ==
  ASSUME NEW other, NEW who, NEW store, Sound(store, other, who), NEW k \in DOMAIN store,
         NEW v, IsUnit(v), Countable(v.typecomments), GetId(v) = GetId(store[k]),
         v.obsolete = store[k].obsolete, Vouched(v, who)
  PROVE  Sound([store EXCEPT ![k] = v], other, who)
<1> DEFINE changed == [store EXCEPT ![k] = v]
<1>1. IsStore(store) /\ CountableStore(store) /\ UniqueIds(store)
  BY DEF Sound
<1>2. /\ IsStore(changed) /\ CountableStore(changed) /\ DOMAIN changed = DOMAIN store
      /\ changed[k] = v
      /\ \A j \in DOMAIN store : GetId(changed[j]) = GetId(store[j])
      /\ \A j \in DOMAIN store \ {k} : changed[j] = store[j]
  BY <1>1, ReplaceUnit
<1> HIDE DEF changed
<1>3. UniqueIds(changed)
  BY <1>1, <1>2 DEF UniqueIds
<1>4. \A j \in DOMAIN store : changed[j].obsolete = store[j].obsolete
  BY <1>2
<1>5. LiveTogether(changed, other)
  BY <1>2, <1>4 DEF Sound, LiveTogether
<1>6. AllVouched(changed, who)
  BY <1>2 DEF Sound, AllVouched
<1>7. QED
  BY <1>2, <1>3, <1>5, <1>6 DEF Sound, changed

(* One turn of mergestores.                                                *)
LEMMA MergeUnitSound ==
  ASSUME NEW other, IsStore(other), CountableStore(other), NEW who, AllVouched(other, who),
         NEW i \in DOMAIN other, NEW store, Sound(store, other, who)
  PROVE  Sound(MergeUnit(store, other[i]), other, who)
<1> DEFINE u == other[i]
           k == Place(store, u)
           v == Merge(store[k], u, TRUE, options.mergecomments, FALSE)
<1>1. CASE MergeUnit(store, u) = store
  BY <1>1
<1>2. CASE MergeUnit(store, u) # store
  <2>1. ~IsHeader(u) /\ k # 0 /\ MergeUnit(store, u) = [store EXCEPT ![k] = v]
    BY <1>2 DEF MergeUnit
  <2>2. IsStore(store) /\ CountableStore(store) /\ LiveTogether(store, other)
    BY DEF Sound
  <2>3. k \in DOMAIN store
    BY <2>1, <2>2, FoundById, FoundBySource DEF Place
  <2>4. /\ IsUnit(store[k]) /\ Countable(store[k].typecomments)
        /\ IsUnit(u) /\ Countable(u.typecomments) /\ Vouched(u, who)
    BY <2>2, <2>3 DEF IsStore, CountableStore, AllVouched
  <2> DEFINE w == store[k]
  <2>5. GetId(u) = GetId(w) /\ u.obsolete => w.obsolete
    BY <2>2, <2>3 DEF LiveTogether
  <2> HIDE DEF u, k, w
  <2>6. /\ IsUnit(v) /\ Countable(v.typecomments)
        /\ GetId(v) = GetId(w) /\ v.source = w.source /\ v.context = w.context
        /\ v.target = u.target /\ v.obsolete = w.obsolete
        /\ IsFuzzy(u) \/ GetId(u) # GetId(w) => IsFuzzy(v)
    BY <2>4, MergeOverwrites DEF w
  <2> HIDE DEF v
  <2>7. Vouched(v, who)
    <3> SUFFICES ASSUME IsTranslated(v) PROVE <<GetId(v), v.target>> \in who
      BY DEF Vouched
    <3>1. ~IsFuzzy(v) /\ HasTarget(v) /\ ~v.obsolete
      BY DEF IsTranslated
    <3>2. ~IsFuzzy(u) /\ GetId(u) = GetId(w)
      BY <2>6, <3>1
    <3>3. HasTarget(u) /\ ~u.obsolete
      BY <2>5, <2>6, <3>1, <3>2 DEF HasTarget
    <3>4. IsTranslated(u)
      BY <2>1, <3>2, <3>3 DEF IsTranslated, u
    <3>5. QED
      BY <2>4, <2>6, <3>2, <3>4 DEF Vouched
  <2>8. GetId(v) = GetId(store[k]) /\ v.obsolete = store[k].obsolete
    BY <2>6 DEF w
  <2>9. Sound([store EXCEPT ![k] = v], other, who)
    BY <2>3, <2>6, <2>7, <2>8, ReplaceSound
  <2>10. QED
    BY <2>1, <2>9 DEF u
<1>3. QED
  BY <1>1, <1>2 DEF u

(* The loop of mergestores, turn by turn.                                  *)
Merges(store, other, merged) ==
  /\ merged[0] = store
  /\ \A k \in 1 .. Len(other) : merged[k] = MergeUnit(merged[k - 1], other[k])

LEMMA UnitsAreMerged ==
  ASSUME NEW other, IsStore(other), NEW store
  PROVE  \E merged : Merges(store, other, merged) /\ MergeStores(store, other) = merged[Len(other)]
<1> DEFINE N == Len(other)
           Turn(k, s) == MergeUnit(s, other[k])
           First(m, f) == [k \in 0 .. m |-> IF k = 0 THEN store ELSE Turn(k, f[k - 1])]
           merged == CHOOSE f : f = First(N, f)
           Begun == {m \in 0 .. N : \E f : f = First(m, f)}
<1>1. N \in Nat
  BY StoreShape
<1>2. MergeStores(store, other) = merged[N]
  BY DEF MergeStores
<1> HIDE DEF Turn, N
<1>3. N \in Begun
  <2>1. 0 \in Begun
    <3> DEFINE f == [k \in 0 .. 0 |-> store]
    <3>1. f = First(0, f)
      OBVIOUS
    <3> HIDE DEF f
    <3>2. QED
      BY <1>1, <3>1
  <2>2. ASSUME NEW m \in 1 .. N, m - 1 \in Begun PROVE m \in Begun
    <3>1. PICK f : f = First(m - 1, f)
      BY <2>2
    <3>2. m \in Nat /\ m >= 1 /\ m \in 0 .. N
      BY <1>1
    <3> DEFINE g == [k \in 0 .. m |-> IF k = m THEN Turn(m, f[m - 1]) ELSE f[k]]
    <3>3. \A k \in 0 .. m - 1 : g[k] = f[k]
      BY <3>2
    <3>4. g[0] = store
      BY <3>1, <3>2, <3>3
    <3>5. ASSUME NEW k \in 1 .. m PROVE g[k] = Turn(k, g[k - 1])
      <4>1. g[k - 1] = f[k - 1]
        BY <3>2, <3>3
      <4>2. CASE k = m
        BY <4>1, <4>2
      <4>3. CASE k # m
        <5>1. k \in 0 .. m - 1 /\ k # 0
          BY <3>2, <4>3
        <5>2. f[k] = Turn(k, f[k - 1])
          BY <3>1, <5>1
        <5>3. QED
          BY <3>3, <4>1, <5>1, <5>2
      <4>4. QED
        BY <4>2, <4>3
    <3>6. g = [k \in 0 .. m |-> g[k]]
      OBVIOUS
    <3> HIDE DEF g
    <3>7. g = First(m, g)
      <4>1. \A k \in 0 .. m : g[k] = IF k = 0 THEN store ELSE Turn(k, g[k - 1])
        BY <3>2, <3>4, <3>5
      <4>2. QED
        BY <3>6, <4>1, Zenon
    <3> HIDE DEF First
    <3>8. QED
      BY <3>2, <3>7
  <2> HIDE DEF Begun
  <2>3. 0 .. N \subseteq Begun
    BY <1>1, <2>1, <2>2, TurnInduction
  <2>4. QED
    BY <1>1, <2>3
<1>4. PICK f : f = First(N, f)
  BY <1>3
<1>5. merged = First(N, merged)
  <2> HIDE DEF First
  <2>1. QED
    BY <1>4
<1>6. merged[0] = store /\ \A k \in 1 .. N : merged[k] = Turn(k, merged[k - 1])
  <2> HIDE DEF merged
  <2>1. QED
    BY <1>1, <1>5
<1> HIDE DEF merged
<1>7. Merges(store, other, merged)
  BY <1>6 DEF Merges, Turn, N
<1>8. QED
  BY <1>2, <1>7 DEF N

(* mergestores leaves a sound file sound.                                  *)
LEMMA MergeStoresSound ==
  ASSUME NEW other, IsStore(other), CountableStore(other), NEW who, AllVouched(other, who),
         NEW store, Sound(store, other, who)
  PROVE  Sound(MergeStores(store, other), other, who)
<1> DEFINE N == Len(other)
<1>1. N \in Nat /\ DOMAIN other = 1 .. N
  BY StoreShape
<1>2. PICK merged : Merges(store, other, merged) /\ MergeStores(store, other) = merged[N]
  BY UnitsAreMerged
<1> DEFINE Good == {m \in 0 .. N : Sound(merged[m], other, who)}
<1> HIDE DEF N
<1>3. 0 \in Good
  BY <1>1, <1>2 DEF Merges
<1>4. ASSUME NEW m \in 1 .. N, m - 1 \in Good PROVE m \in Good
  <2>1. merged[m] = MergeUnit(merged[m - 1], other[m]) /\ m \in DOMAIN other
    BY <1>1, <1>2 DEF Merges, N
  <2>2. Sound(MergeUnit(merged[m - 1], other[m]), other, who)
    BY <1>4, <2>1, MergeUnitSound
  <2>3. QED
    BY <1>1, <2>1, <2>2
<1>5. N \in Good
  <2> HIDE DEF Good
  <2>1. 0 .. N \subseteq Good
    BY <1>1, <1>3, <1>4, TurnInduction
  <2>2. QED
    BY <1>1, <2>1
<1>6. QED
  BY <1>2, <1>5

(* Writing a store and reading it back.                                    *)
LEMMA SavedStore ==
  ASSUME NEW store, IsStore(store), CountableStore(store)
  PROVE  LET saved == Saved(store)
         IN /\ IsStore(saved) /\ CountableStore(saved)
            /\ DOMAIN saved \subseteq DOMAIN store
            /\ \A k \in DOMAIN saved : saved[k] = Parse(store[k])
<1> DEFINE read == [k \in DOMAIN store |-> Parse(store[k])]
<1>1. DOMAIN store = 1 .. Len(store) /\ Len(store) \in Nat
  BY StoreShape
<1>2. /\ DOMAIN read = DOMAIN store
      /\ \A k \in DOMAIN store : /\ read[k] = Parse(store[k])
                                 /\ IsUnit(read[k]) /\ Countable(read[k].typecomments)
  BY ReadAsFinished, OthersCountable DEF IsStore, CountableStore
<1>3. read \in [1 .. Len(store) -> Range(read)]
  BY <1>1, <1>2 DEF Range
<1>4. IsStore(read) /\ CountableStore(read)
  <2> HIDE DEF read
  <2>1. read \in Seq(Range(read))
    BY <1>1, <1>3
  <2>2. QED
    BY <1>2, <2>1 DEF IsStore, CountableStore
<1>5. IsStore(<< >>) /\ CountableStore(<< >>) /\ DOMAIN << >> = {}
  BY EmptyStore DEF CountableStore
<1>6. Saved(store) \in {read, << >>}
  BY DEF Saved
<1> HIDE DEF read
<1>7. QED
  BY <1>2, <1>4, <1>5, <1>6

LEMMA SavedSound ==
  ASSUME NEW other, NEW who, NEW store, Sound(store, other, who)
  PROVE  Sound(Saved(store), other, who)
<1> DEFINE saved == Saved(store)
<1>1. IsStore(store) /\ CountableStore(store)
  BY DEF Sound
<1>2. /\ IsStore(saved) /\ CountableStore(saved) /\ DOMAIN saved \subseteq DOMAIN store
      /\ \A k \in DOMAIN saved : saved[k] = Parse(store[k])
  BY <1>1, SavedStore
<1> HIDE DEF saved
<1>3. \A k \in DOMAIN saved :
        /\ GetId(saved[k]) = GetId(store[k]) /\ saved[k].target = store[k].target
        /\ saved[k].obsolete <=> store[k].obsolete
        /\ IsTranslated(saved[k]) => IsTranslated(store[k])
  BY <1>1, <1>2, ReadAsFinished DEF IsStore
<1>4. UniqueIds(saved)
  BY <1>2, <1>3 DEF Sound, UniqueIds
<1>5. LiveTogether(saved, other)
  BY <1>2, <1>3 DEF Sound, LiveTogether
<1>6. AllVouched(saved, who)
  BY <1>2, <1>3 DEF Sound, AllVouched, Vouched
<1>7. QED
  BY <1>2, <1>4, <1>5, <1>6 DEF Sound, saved

-----------------------------------------------------------------------------
(* What pofilter writes.                                                   *)

(* v is what the snippet gets of u: autocorrect gives it another text.     *)
CopyOf(v, u) ==
  /\ IsUnit(v) /\ Countable(v.typecomments) /\ GetId(v) = GetId(u)
  /\ v.obsolete <=> u.obsolete
  /\ ~options.autocorrect /\ IsTranslated(v) => IsTranslated(u) /\ v.target = u.target

(* filterunit.                                                             *)
LEMMA FilteredUnit ==
  ASSUME NEW u, IsUnit(u), Countable(u.typecomments), Filtered(u) # << >>
  PROVE  \E v : CopyOf(v, u) /\ Filtered(u) = <<v>>
<1> DEFINE text(t) == SetTarget(u, t)
           notes(c) == [u EXCEPT !.othercomments = c]
<1>1. \/ options.autocorrect /\ \E t : Filtered(u) = <<text(t)>>
      \/ \E c : Filtered(u) = <<notes(c)>>
      \/ Filtered(u) = <<u>>
  BY DEF Filtered, Annotated
<1>2. ASSUME NEW t, options.autocorrect PROVE CopyOf(text(t), u)
  BY <1>2, FieldsOfAUnit DEF CopyOf, SetTarget, IsUnit, GetId
<1>3. ASSUME NEW c PROVE CopyOf(notes(c), u)
  <2>1. Differs(u, notes(c), {"othercomments"})
    BY FieldsOfAUnit DEF Differs, IsUnit
  <2> HIDE DEF notes
  <2>2. QED
    BY <2>1, FieldsOfAUnit DEF Differs, CopyOf, GetId, IsTranslated, IsFuzzy, HasTypeComment,
       IsHeader, HasTarget
<1>4. CopyOf(u, u)
  BY DEF CopyOf
<1> HIDE DEF text, notes
<1>5. QED
  BY <1>1, <1>2, <1>3, <1>4

(* filterfile: only copies of the units of the file are written.           *)
LEMMA FilteredStore ==
  ASSUME NEW units, IsStore(units), CountableStore(units)
  PROVE  LET written == FilterFile(units)
         IN /\ IsStore(written) /\ CountableStore(written)
            /\ \A i \in DOMAIN written : \E k \in DOMAIN units : CopyOf(written[i], units[k])
<1> DEFINE N == Len(units)
           none == << >>
           Kept == {k \in DOMAIN units : Filtered(units[k]) # << >>}
           T == {Filtered(units[k])[1] : k \in Kept}
           Turn(k, found) == found \o Filtered(units[k])
           step == [k \in 1 .. N |-> [found \in Seq(T) |-> Turn(k, found)]]
           Body(f) == [k \in 0 .. N |-> IF k = 0 THEN none ELSE Turn(k, f[k - 1])]
           kept == CHOOSE f : f = Body(f)
<1>1. N \in Nat /\ DOMAIN units = 1 .. N
  BY StoreShape
<1>2. \A k \in DOMAIN units : IsUnit(units[k]) /\ Countable(units[k].typecomments)
  BY DEF IsStore, CountableStore
<1>3. \A v \in T : \E k \in DOMAIN units : CopyOf(v, units[k])
  <2>1. ASSUME NEW k \in Kept PROVE CopyOf(Filtered(units[k])[1], units[k])
    <3>1. PICK v : CopyOf(v, units[k]) /\ Filtered(units[k]) = <<v>>
      BY <1>2, FilteredUnit
    <3>2. QED
      BY <3>1
  <2>2. QED
    BY <2>1
<1>4. \A k \in DOMAIN units : Filtered(units[k]) \in Seq(T)
  <2>1. ASSUME NEW k \in Kept PROVE Filtered(units[k]) \in Seq(T)
    <3>1. PICK v : CopyOf(v, units[k]) /\ Filtered(units[k]) = <<v>>
      BY <1>2, FilteredUnit
    <3>2. v = Filtered(units[k])[1]
      BY <3>1
    <3>3. v \in T
      BY <3>2
    <3> HIDE DEF T
    <3>4. QED
      BY <3>1, <3>3
  <2>2. << >> \in Seq(T)
    OBVIOUS
  <2> HIDE DEF T
  <2>3. QED
    BY <2>1, <2>2
<1> HIDE DEF T
<1>5. \A found \in Seq(T), k \in 1 .. N : Turn(k, found) \in Seq(T)
  BY <1>1, <1>4
<1>6. none \in Seq(T)
  OBVIOUS
<1>7. FilterFile(units) = Saved(kept[N])
  BY DEF FilterFile
<1> HIDE DEF none, Turn
<1>8. step \in Turns(N, Seq(T))
  BY <1>5 DEF Turns
<1>9. PICK f \in [0 .. N -> Seq(T)] : f[0] = none /\ \A k \in 1 .. N : f[k] = step[k][f[k - 1]]
  <2> HIDE DEF step, N
  <2>1. Runs(N, Seq(T), none, step) # {}
    BY <1>1, <1>6, <1>8, TurnRecursion
  <2>2. QED
    BY <2>1 DEF Runs
<1>10. f = Body(f)
  <2>1. ASSUME NEW k \in 1 .. N PROVE f[k] = Turn(k, f[k - 1])
    <3>1. f[k - 1] \in Seq(T)
      <4>1. k - 1 \in 0 .. N
        BY <1>1
      <4> HIDE DEF N
      <4>2. QED
        BY <1>9, <4>1
    <3>2. QED
      BY <1>9, <3>1
  <2> HIDE DEF N, step
  <2>2. QED
    BY <1>1, <1>9, <2>1
<1>11. kept = Body(kept)
  <2> HIDE DEF Body
  <2>1. QED
    BY <1>10
<1>12. kept[0] = none /\ \A k \in 1 .. N : kept[k] = Turn(k, kept[k - 1])
  <2> HIDE DEF kept, N
  <2>1. QED
    BY <1>1, <1>11
<1> HIDE DEF kept, N
<1>13. kept[N] \in Seq(T)
  <2> DEFINE Good == {n \in 0 .. N : kept[n] \in Seq(T)}
  <2>1. 0 \in Good
    BY <1>1, <1>6, <1>12
  <2>2. ASSUME NEW n \in 1 .. N, n - 1 \in Good PROVE n \in Good
    BY <1>5, <1>12, <2>2
  <2> HIDE DEF Good
  <2>3. 0 .. N \subseteq Good
    BY <1>1, <2>1, <2>2, TurnInduction
  <2>4. QED
    BY <1>1, <2>3 DEF Good
<1> DEFINE all == kept[N]
<1> HIDE DEF all
<1>14. /\ IsStore(all) /\ CountableStore(all)
       /\ \A i \in DOMAIN all : \E k \in DOMAIN units : CopyOf(all[i], units[k])
  <2>1. all \in Seq(T)
    BY <1>13 DEF all
  <2>2. DOMAIN all = 1 .. Len(all) /\ Len(all) \in Nat /\ \A i \in DOMAIN all : all[i] \in T
    BY <2>1
  <2>3. all \in [1 .. Len(all) -> Range(all)]
    BY <2>1, <2>2 DEF Range
  <2>4. all \in Seq(Range(all))
    BY <2>2, <2>3
  <2>5. \A i \in DOMAIN all : \E k \in DOMAIN units : CopyOf(all[i], units[k])
    BY <1>3, <2>2
  <2>6. QED
    BY <2>4, <2>5 DEF IsStore, CountableStore, CopyOf
<1> DEFINE written == Saved(all)
<1>15. /\ IsStore(written) /\ CountableStore(written)
       /\ DOMAIN written \subseteq DOMAIN all
       /\ \A i \in DOMAIN written : written[i] = Parse(all[i])
  BY <1>14, SavedStore
<1> HIDE DEF written
<1>16. \A i \in DOMAIN written : \E k \in DOMAIN units : CopyOf(written[i], units[k])
  <2> SUFFICES ASSUME NEW i \in DOMAIN written
               PROVE  \E k \in DOMAIN units : CopyOf(written[i], units[k])
    OBVIOUS
  <2>1. PICK k \in DOMAIN units : CopyOf(all[i], units[k])
    BY <1>14, <1>15
  <2>2. IsUnit(all[i]) /\ Countable(written[i].typecomments)
    BY <1>15, <2>1 DEF CopyOf, CountableStore
  <2>3. CopyOf(written[i], units[k])
    BY <1>15, <2>1, <2>2, ReadAsFinished DEF CopyOf
  <2>4. QED
    BY <2>3
<1>17. QED
  BY <1>7, <1>15, <1>16 DEF written, all

-----------------------------------------------------------------------------
(* The cycle.                                                              *)

(* Nobody takes back a text.                                               *)
LEMMA MoreVouched ==
  ASSUME NEW store, NEW who, NEW more, AllVouched(store, who), who \subseteq more
  PROVE  AllVouched(store, more)
BY DEF AllVouched, Vouched

LEMMA FinishedInvInit == DistinctIds /\ Init => FinishedInv
<1> SUFFICES ASSUME DistinctIds, Init PROVE FinishedInv
  OBVIOUS
<1>1. IsStore(file) /\ UniqueIds(file) /\ CountableStore(file)
  <2>1. IsStore(file) /\ UniqueIds(file) /\ \A k \in DOMAIN file : HasFlagLines(file[k])
    BY FilesAssumption DEF DistinctIds, Init
  <2>2. QED
    BY <2>1 DEF CountableStore, HasFlagLines, Countable, Flags
<1>2. AllVouched(file, vouched)
  BY DEF AllVouched, Vouched, Init, Range
<1>3. snippet = << >> /\ DOMAIN << >> = {}
  BY DEF Init
<1>4. /\ IsStore(snippet) /\ CountableStore(snippet) /\ AllVouched(snippet, vouched)
      /\ LiveTogether(file, snippet)
  BY <1>3, EmptyStore DEF CountableStore, AllVouched, LiveTogether
<1>5. QED
  BY <1>1, <1>2, <1>4 DEF FinishedInv, Sound

LEMMA FilterKeeps == FinishedInv /\ Filter => FinishedInv'
<1> SUFFICES ASSUME FinishedInv, Filter PROVE FinishedInv'
  OBVIOUS
<1> DEFINE written == FilterFile(file)
<1>1. /\ IsStore(file) /\ UniqueIds(file) /\ CountableStore(file) /\ AllVouched(file, vouched)
      /\ snippet' = written /\ file' = file /\ vouched \subseteq vouched'
  BY DEF FinishedInv, Sound, Filter
<1>2. /\ IsStore(written) /\ CountableStore(written)
      /\ \A i \in DOMAIN written : \E k \in DOMAIN file : CopyOf(written[i], file[k])
  BY <1>1, FilteredStore
<1>3. options.autocorrect => \A i \in DOMAIN written : <<GetId(written[i]), written[i].target>> \in vouched'
  BY <1>1 DEF Filter, Range
<1> HIDE DEF written
<1>4. LiveTogether(file, written)
  BY <1>1, <1>2 DEF LiveTogether, UniqueIds, CopyOf
<1>5. AllVouched(written, vouched')
  <2> SUFFICES ASSUME NEW i \in DOMAIN written, IsTranslated(written[i]), ~options.autocorrect
               PROVE  <<GetId(written[i]), written[i].target>> \in vouched'
    BY <1>3 DEF AllVouched, Vouched
  <2>1. PICK k \in DOMAIN file : CopyOf(written[i], file[k])
    BY <1>2
  <2>2. QED
    BY <1>1, <2>1 DEF CopyOf, AllVouched, Vouched
<1>6. AllVouched(file, vouched')
  BY <1>1, MoreVouched
<1>7. Sound(file, written, vouched')
  BY <1>1, <1>4, <1>6 DEF Sound
<1>8. QED
  BY <1>1, <1>2, <1>5, <1>7 DEF FinishedInv

LEMMA PoMergeKeeps == FinishedInv /\ PoMerge => FinishedInv'
<1> SUFFICES ASSUME FinishedInv, PoMerge PROVE FinishedInv'
  OBVIOUS
<1>1. Sound(Saved(MergeStores(file, snippet)), snippet, vouched)
  BY MergeStoresSound, SavedSound DEF FinishedInv
<1>2. QED
  BY <1>1 DEF FinishedInv, PoMerge

(* What a translator may make of a unit.                                   *)
LEMMA Edits ==
  ASSUME NEW u, IsUnit(u), Countable(u.typecomments),
         NEW v \in Translated(u) \cup Doubted(u) \cup Cleaned(u)
  PROVE  IsUnit(v) /\ Countable(v.typecomments) /\ GetId(v) = GetId(u) /\ v.obsolete = u.obsolete
<1>1. CASE v \in Translated(u)
  <2>1. PICK text \in Texts : v = MarkFuzzy(SetTarget(u, text), FALSE)
    BY <1>1 DEF Translated
  <2> DEFINE w == SetTarget(u, text)
  <2>2. /\ IsUnit(w) /\ w.typecomments = u.typecomments /\ w.obsolete = u.obsolete
        /\ GetId(w) = GetId(u)
    BY FieldsOfAUnit DEF SetTarget, IsUnit, GetId
  <2> HIDE DEF w
  <2>3. Differs(w, v, {"typecomments", "state_n"}) /\ Countable(v.typecomments)
    BY <2>1, <2>2, MarkFuzzyDiffers, MarkFuzzyFlag DEF w
  <2>4. QED
    BY <2>2, <2>3, FieldsOfAUnit DEF Differs, GetId
<1>2. CASE v \in Doubted(u)
  <2>1. v = MarkFuzzy(u, TRUE)
    BY <1>2 DEF Doubted
  <2>2. Differs(u, v, {"typecomments", "state_n"}) /\ Countable(v.typecomments)
    BY <2>1, MarkFuzzyDiffers, MarkFuzzyFlag
  <2>3. QED
    BY <2>2, FieldsOfAUnit DEF Differs, GetId
<1>3. CASE v \in Cleaned(u)
  BY <1>3, FieldsOfAUnit DEF Cleaned, IsUnit, GetId
<1>4. QED
  BY <1>1, <1>2, <1>3

(* Who enters a text stands by it.                                         *)
LEMMA EditVouches ==
  ASSUME NEW v, Vouch(v)
  PROVE  vouched \subseteq vouched' /\ Vouched(v, vouched')
BY DEF Vouch, Vouched

LEMMA EditFileKeeps ==
  ASSUME FinishedInv, NEW k \in DOMAIN file, EditFile(k)
  PROVE  FinishedInv'
<1>1. PICK v \in Translated(file[k]) \cup Doubted(file[k]) \cup Cleaned(file[k]) :
        file' = [file EXCEPT ![k] = v] /\ Vouch(v)
  BY DEF EditFile
<1>2. IsStore(file) /\ CountableStore(file)
  BY DEF FinishedInv, Sound
<1>3. /\ IsUnit(v) /\ Countable(v.typecomments)
      /\ GetId(v) = GetId(file[k]) /\ v.obsolete = file[k].obsolete
  BY <1>2, Edits DEF IsStore, CountableStore
<1>4. vouched \subseteq vouched' /\ Vouched(v, vouched')
  BY <1>1, EditVouches
<1>5. Sound(file, snippet, vouched') /\ AllVouched(snippet, vouched')
  BY <1>4, MoreVouched DEF FinishedInv, Sound
<1>6. Sound([file EXCEPT ![k] = v], snippet, vouched')
  BY <1>3, <1>4, <1>5, ReplaceSound
<1>7. QED
  BY <1>1, <1>5, <1>6 DEF FinishedInv, EditFile

LEMMA EditSnippetKeeps ==
  ASSUME FinishedInv, NEW k \in DOMAIN snippet, EditSnippet(k)
  PROVE  FinishedInv'
<1>1. PICK v \in Translated(snippet[k]) \cup Doubted(snippet[k]) \cup Cleaned(snippet[k]) :
        snippet' = [snippet EXCEPT ![k] = v] /\ Vouch(v)
  BY DEF EditSnippet
<1> DEFINE changed == [snippet EXCEPT ![k] = v]
<1>2. IsStore(snippet) /\ CountableStore(snippet)
  BY DEF FinishedInv
<1>3. /\ IsUnit(v) /\ Countable(v.typecomments)
      /\ GetId(v) = GetId(snippet[k]) /\ v.obsolete = snippet[k].obsolete
  BY <1>2, Edits DEF IsStore, CountableStore
<1>4. vouched \subseteq vouched' /\ Vouched(v, vouched')
  BY <1>1, EditVouches
<1>5. /\ IsStore(changed) /\ CountableStore(changed) /\ DOMAIN changed = DOMAIN snippet
      /\ changed[k] = v /\ \A j \in DOMAIN snippet \ {k} : changed[j] = snippet[j]
  BY <1>2, <1>3, ReplaceUnit
<1>6. snippet' = changed /\ file' = file
  BY <1>1 DEF EditSnippet
<1> HIDE DEF changed
<1>7. AllVouched(file, vouched') /\ AllVouched(snippet, vouched')
  BY <1>4, MoreVouched DEF FinishedInv, Sound
<1>8. AllVouched(changed, vouched')
  BY <1>4, <1>5, <1>7 DEF AllVouched
<1>9. LiveTogether(file, changed)
  <2>1. \A i \in DOMAIN changed : /\ GetId(changed[i]) = GetId(snippet[i])
                                  /\ changed[i].obsolete = snippet[i].obsolete
    BY <1>3, <1>5
  <2>2. QED
    BY <1>5, <2>1 DEF FinishedInv, Sound, LiveTogether
<1>10. Sound(file, changed, vouched')
  BY <1>7, <1>9 DEF FinishedInv, Sound
<1>11. QED
  BY <1>5, <1>6, <1>8, <1>10 DEF FinishedInv

(* Two lists one after the other.                                          *)
LEMMA Joined ==
  ASSUME NEW T, NEW s \in Seq(T), NEW t \in Seq(T)
  PROVE  /\ s \o t \in Seq(T) /\ Len(s \o t) = Len(s) + Len(t)
         /\ \A j \in 1 .. Len(s) : (s \o t)[j] = s[j]
         /\ \A j \in Len(s) + 1 .. Len(s) + Len(t) : (s \o t)[j] = t[j - Len(s)]
OBVIOUS

LEMMA DropKeeps ==
  ASSUME FinishedInv, NEW k \in DOMAIN file, Drop(k)
  PROVE  FinishedInv'
<1> DEFINE rest == RemoveAt(file, k)
           place(j) == IF j < k THEN j ELSE j + 1
<1>1. /\ IsStore(file) /\ DOMAIN file = 1 .. Len(file) /\ Len(file) \in Nat
      /\ file \in Seq(Range(file))
  BY StoreShape DEF FinishedInv, Sound, IsStore
<1>2. k \in 1 .. Len(file)
  BY <1>1
<1>3. /\ rest \in Seq(Range(file)) /\ Len(rest) = Len(file) - 1
      /\ \A j \in 1 .. Len(file) - 1 : rest[j] = file[place(j)]
  <2> DEFINE T == Range(file)
             N == Len(file)
             front == SubSeq(file, 1, k - 1)
             back == SubSeq(file, k + 1, N)
  <2>1. file \in Seq(T) /\ N \in Nat /\ k \in 1 .. N
    BY <1>1, <1>2
  <2>2. front \in Seq(T) /\ Len(front) = k - 1 /\ \A j \in 1 .. k - 1 : front[j] = file[j]
    <3> HIDE DEF T
    <3>1. QED
      BY <2>1
  <2>3. back \in Seq(T) /\ Len(back) = N - k /\ \A j \in 1 .. N - k : back[j] = file[k + j]
    <3> HIDE DEF T
    <3>1. QED
      BY <2>1
  <2>4. rest = front \o back
    BY DEF RemoveAt
  <2> HIDE DEF front, back, rest, T, N
  <2>5. /\ rest \in Seq(T) /\ Len(rest) = N - 1
        /\ \A j \in 1 .. k - 1 : rest[j] = front[j]
        /\ \A j \in k .. N - 1 : rest[j] = back[j - (k - 1)]
    <3>1. /\ rest \in Seq(T) /\ Len(rest) = Len(front) + Len(back)
          /\ \A j \in 1 .. Len(front) : rest[j] = front[j]
          /\ \A j \in Len(front) + 1 .. Len(front) + Len(back) : rest[j] = back[j - Len(front)]
      BY <2>2, <2>3, <2>4, Joined
    <3>2. Len(front) = k - 1 /\ Len(front) + 1 = k /\ Len(front) + Len(back) = N - 1
      BY <2>1, <2>2, <2>3
    <3>3. QED
      BY <3>1, <3>2
  <2>6. ASSUME NEW j \in 1 .. N - 1 PROVE rest[j] = file[place(j)]
    <3>1. CASE j < k
      BY <2>1, <2>2, <2>5, <3>1
    <3>2. CASE j >= k
      <4>1. rest[j] = back[j - (k - 1)] /\ j - (k - 1) \in 1 .. N - k
        BY <2>1, <2>5, <3>2
      <4>2. back[j - (k - 1)] = file[k + (j - (k - 1))] /\ k + (j - (k - 1)) = j + 1
        BY <2>1, <2>3, <4>1
      <4>3. QED
        BY <2>1, <3>2, <4>1, <4>2
    <3>3. QED
      BY <2>1, <3>1, <3>2
  <2>7. QED
    BY <2>5, <2>6 DEF T, N
<1> HIDE DEF rest
<1>4. /\ DOMAIN rest = 1 .. Len(rest) /\ Len(rest) \in Nat
      /\ \A j \in DOMAIN rest : place(j) \in DOMAIN file /\ rest[j] = file[place(j)]
      /\ \A i, j \in DOMAIN rest : place(i) = place(j) => i = j
  <2> DEFINE N == Len(file)
  <2>1. N \in Nat /\ k \in 1 .. N /\ DOMAIN file = 1 .. N
    BY <1>1, <1>2
  <2>2. DOMAIN rest = 1 .. N - 1 /\ Len(rest) = N - 1 /\ N - 1 \in Nat
    BY <1>3, <2>1
  <2>3. \A j \in 1 .. N - 1 : rest[j] = file[place(j)]
    BY <1>3
  <2> HIDE DEF N
  <2>4. \A j \in 1 .. N - 1 : place(j) \in 1 .. N
    BY <2>1
  <2>5. \A i, j \in 1 .. N - 1 : place(i) = place(j) => i = j
    BY <2>1
  <2>6. QED
    BY <2>1, <2>2, <2>3, <2>4, <2>5
<1> HIDE DEF place
<1>5. rest \in Seq(Range(rest))
  <2>1. rest \in [1 .. Len(rest) -> Range(rest)]
    BY <1>3, <1>4 DEF Range
  <2>2. QED
    BY <1>4, <2>1
<1>6. Sound(rest, snippet, vouched)
  BY <1>4, <1>5
     DEF FinishedInv, Sound, IsStore, UniqueIds, CountableStore, LiveTogether, AllVouched
<1>7. file' = rest /\ UNCHANGED <<snippet, vouched>>
  BY DEF Drop, rest
<1>8. QED
  BY <1>6, <1>7 DEF FinishedInv

LEMMA FinishedInvStep == FinishedInv /\ [Next]_vars => FinishedInv'
<1> SUFFICES ASSUME FinishedInv, [Next]_vars PROVE FinishedInv'
  OBVIOUS
<1>1. CASE UNCHANGED vars
  BY <1>1 DEF vars, FinishedInv
<1>2. CASE Next
  BY <1>2, FilterKeeps, PoMergeKeeps, EditFileKeeps, EditSnippetKeeps, DropKeeps DEF Next
<1>3. QED
  BY <1>1, <1>2

(* However often a file is checked, corrected, merged and edited, every    *)
(* finished translation in it is one that somebody entered for that very   *)
(* message, or that autocorrect made of one, if no two entries of the file *)
(* had one id to begin with.                                               *)
THEOREM FinishedAreVouched ==
  ASSUME DistinctIds
  PROVE  Spec => []FinishedIsVouched
<1>1. Init => FinishedInv
  BY FinishedInvInit
<1>2. FinishedInv /\ [Next]_vars => FinishedInv'
  BY FinishedInvStep
<1>3. FinishedInv => FinishedIsVouched
  BY DEF FinishedInv, Sound, AllVouched, Vouched, FinishedIsVouched, Range
<1>4. QED
  BY <1>1, <1>2, <1>3, PTL DEF Spec

-----------------------------------------------------------------------------
(* Where the corrections go.                                               *)

(* The entries of s are those of t, with other texts and comments.         *)
Alike(s, t) ==
  /\ DOMAIN s = DOMAIN t
  /\ \A j \in DOMAIN t : /\ s[j].source = t[j].source /\ s[j].context = t[j].context
                         /\ s[j].obsolete = t[j].obsolete

LEMMA SamePlaces ==
  ASSUME NEW s, NEW t, Alike(s, t), NEW u
  PROVE  Place(s, u) = Place(t, u)
<1>1. ASSUME NEW r PROVE Indexed(r) = {k \in DOMAIN r : r[k].source # NoText \/ r[k].context # NoContext}
  BY DEF Indexed, IsHeader, IsBlank, HasTarget
<1>2. Indexed(s) = Indexed(t) /\ Indexed(t) \subseteq DOMAIN t
  BY <1>1 DEF Alike
<1>3. \A k \in Indexed(t) : GetId(s[k]) = GetId(t[k]) /\ s[k].source = t[k].source
  BY <1>2 DEF Alike, GetId
<1>4. {k \in Indexed(s) : GetId(s[k]) = GetId(u)} = {k \in Indexed(t) : GetId(t[k]) = GetId(u)}
  BY <1>2, <1>3
<1>5. {k \in Indexed(s) : s[k].source = u.source} = {k \in Indexed(t) : t[k].source = u.source}
  BY <1>2, <1>3
<1>6. FindId(s, GetId(u)) = FindId(t, GetId(u)) /\ FindUnit(s, u.source) = FindUnit(t, u.source)
  BY <1>4, <1>5 DEF FindId, FindUnit
<1>7. HasId(s, GetId(u)) <=> HasId(t, GetId(u))
  BY <1>2, <1>3 DEF HasId
<1>8. QED
  BY <1>6, <1>7 DEF Place

(* u brings its text, and its doubt, to v. *)
Brings(u, v) == v.target = u.target /\ (IsFuzzy(u) => IsFuzzy(v))

(* One turn of mergestores writes to the place of its unit only.           *)
LEMMA MergeUnitArrives ==
  ASSUME NEW store, IsStore(store),
         NEW s, IsStore(s), CountableStore(s), Alike(s, store),
         NEW u, IsUnit(u), Countable(u.typecomments)
  PROVE  LET r == MergeUnit(s, u)
         IN /\ IsStore(r) /\ CountableStore(r) /\ Alike(r, store)
            /\ \A k \in DOMAIN store :
                 IF ~IsHeader(u) /\ IsMerged(u) /\ Place(store, u) = k
                 THEN Brings(u, r[k]) ELSE r[k] = s[k]
<1> DEFINE r == MergeUnit(s, u)
           k == Place(store, u)
           v == Merge(s[k], u, TRUE, options.mergecomments, FALSE)
<1>1. Place(s, u) = k
  BY SamePlaces
<1>2. CASE IsHeader(u) \/ k = 0 \/ ~IsMerged(u)
  <2>1. r = s
    BY <1>1, <1>2 DEF MergeUnit
  <2>2. 0 \notin DOMAIN store
    BY StoreShape
  <2>3. QED
    BY <1>2, <2>1, <2>2
<1>3. CASE ~(IsHeader(u) \/ k = 0 \/ ~IsMerged(u))
  <2>1. r = [s EXCEPT ![k] = v]
    BY <1>1, <1>3 DEF MergeUnit
  <2>2. k \in DOMAIN s /\ k \in DOMAIN store
    BY <1>3, FoundById, FoundBySource DEF Place, Alike
  <2>3. IsUnit(s[k]) /\ Countable(s[k].typecomments)
    BY <2>2 DEF IsStore, CountableStore
  <2> HIDE DEF k
  <2>4. /\ IsUnit(v) /\ Countable(v.typecomments)
        /\ GetId(v) = GetId(s[k]) /\ v.source = s[k].source /\ v.context = s[k].context
        /\ v.target = u.target /\ v.obsolete = s[k].obsolete
        /\ IsFuzzy(u) \/ GetId(u) # GetId(s[k]) => IsFuzzy(v)
    BY <2>3, MergeOverwrites
  <2> HIDE DEF v, r
  <2>5. /\ IsStore(r) /\ CountableStore(r) /\ DOMAIN r = DOMAIN s /\ r[k] = v
        /\ \A j \in DOMAIN s \ {k} : r[j] = s[j]
    <3>1. /\ IsStore([s EXCEPT ![k] = v]) /\ CountableStore([s EXCEPT ![k] = v])
      BY <2>2, <2>4, ReplaceUnit
    <3>2. QED
      BY <2>1, <2>2, <3>1
  <2>6. Alike(r, store)
    BY <2>4, <2>5 DEF Alike
  <2>7. Brings(u, r[k])
    BY <2>4, <2>5 DEF Brings
  <2>8. DOMAIN s = DOMAIN store
    BY DEF Alike
  <2>9. \A j \in DOMAIN store :
          IF ~IsHeader(u) /\ IsMerged(u) /\ k = j THEN Brings(u, r[j]) ELSE r[j] = s[j]
    BY <1>3, <2>5, <2>7, <2>8
  <2>10. QED
    BY <2>5, <2>6, <2>9 DEF r, k
<1>4. QED
  BY <1>2, <1>3

(* What mergestores has made of an entry after all the units.              *)
LEMMA MergedTexts ==
  ASSUME IsStore(file), CountableStore(file), IsStore(snippet), CountableStore(snippet),
         NEW k \in DOMAIN file
  PROVE  LET r == MergeStores(file, snippet)
         IN /\ IsStore(r) /\ CountableStore(r) /\ Alike(r, file)
            /\ Named(k) = {} => r[k] = file[k]
            /\ \A i \in Named(k) : GetId(snippet[i]) = GetId(file[k]) /\ Named(k) = {i}
                                     => Brings(snippet[i], r[k])
<1> DEFINE N == Len(snippet)
<1>1. N \in Nat /\ DOMAIN snippet = 1 .. N
  BY StoreShape
<1>2. PICK merged : Merges(file, snippet, merged) /\ MergeStores(file, snippet) = merged[N]
  BY UnitsAreMerged
<1> DEFINE Named1(m) == {i \in 1 .. m : i \in Named(k)}
           Only(i) == i \in Named(k) /\ GetId(snippet[i]) = GetId(file[k]) /\ Named(k) = {i}
           After(m) == /\ IsStore(merged[m]) /\ CountableStore(merged[m]) /\ Alike(merged[m], file)
                       /\ (\A i \in 1 .. m : i \notin Named(k)) => merged[m][k] = file[k]
                       /\ \A i \in 1 .. m : Only(i) => Brings(snippet[i], merged[m][k])
           Good == {m \in 0 .. N : After(m)}
<1> HIDE DEF N
<1>3. 0 \in Good
  BY <1>1, <1>2 DEF Merges, Alike
<1>4. ASSUME NEW m \in 1 .. N, m - 1 \in Good PROVE m \in Good
  <2> DEFINE u == snippet[m]
             s == merged[m - 1]
             r == merged[m]
             goes == ~IsHeader(u) /\ IsMerged(u) /\ Place(file, u) = k
  <2>1. r = MergeUnit(s, u) /\ m \in DOMAIN snippet /\ IsUnit(u) /\ Countable(u.typecomments)
    BY <1>1, <1>2 DEF Merges, N, IsStore, CountableStore
  <2>2. After(m - 1)
    BY <1>4
  <2>3. /\ IsStore(r) /\ CountableStore(r) /\ Alike(r, file)
        /\ IF goes THEN Brings(u, r[k]) ELSE r[k] = s[k]
    <3> DEFINE t == MergeUnit(s, u)
    <3> HIDE DEF u, s, r
    <3>1. IsStore(s) /\ CountableStore(s) /\ Alike(s, file)
      BY <2>2 DEF s
    <3>2. /\ IsStore(t) /\ CountableStore(t) /\ Alike(t, file)
          /\ \A j \in DOMAIN file :
               IF ~IsHeader(u) /\ IsMerged(u) /\ Place(file, u) = j
               THEN Brings(u, t[j]) ELSE t[j] = s[j]
      BY <2>1, <3>1, MergeUnitArrives
    <3> HIDE DEF t
    <3>3. t = r
      BY <2>1 DEF t
    <3>4. QED
      BY <3>2, <3>3
  <2>4. m \in Named(k) <=> IsMerged(u) /\ Place(file, u) = k
    BY <2>1 DEF Named
  <2>5. Only(m) => goes
    <3> SUFFICES ASSUME Only(m), IsHeader(u) PROVE FALSE
      BY <2>4
    <3>1. k # 0
      BY StoreShape
    <3>2. k \in Indexed(file)
      BY <2>4, <3>1, FoundById, FoundBySource DEF Place
    <3>3. GetId(file[k]) # <<NoContext, NoText>>
      BY <3>2 DEF Indexed, IsHeader, IsBlank, GetId
    <3>4. QED
      BY <3>3 DEF IsHeader, GetId
  <2> HIDE DEF u, s, r
  <2>6. (\A i \in 1 .. m : i \notin Named(k)) => r[k] = file[k]
    <3> SUFFICES ASSUME \A i \in 1 .. m : i \notin Named(k) PROVE r[k] = file[k]
      OBVIOUS
    <3>1. m \notin Named(k) /\ \A i \in 1 .. m - 1 : i \notin Named(k)
      BY <1>1
    <3>2. QED
      BY <2>2, <2>3, <2>4, <3>1 DEF s
  <2>7. ASSUME NEW i \in 1 .. m, Only(i) PROVE Brings(snippet[i], r[k])
    <3>1. CASE i = m
      BY <2>3, <2>5, <2>7, <3>1 DEF u
    <3>2. CASE i # m
      <4>1. i \in 1 .. m - 1 /\ m \notin Named(k)
        BY <1>1, <2>7, <3>2
      <4>2. r[k] = s[k]
        BY <2>3, <2>4, <4>1
      <4>3. QED
        BY <2>2, <2>7, <4>1, <4>2 DEF s
    <3>3. QED
      BY <3>1, <3>2
  <2>8. After(m)
    BY <2>3, <2>6, <2>7 DEF r
  <2>9. QED
    BY <1>1, <2>8
<1>5. After(N)
  <2> HIDE DEF Good
  <2>1. 0 .. N \subseteq Good
    BY <1>1, <1>3, <1>4, TurnInduction
  <2>2. QED
    BY <1>1, <2>1 DEF Good
<1>6. \A i \in Named(k) : i \in 1 .. N
  BY <1>1 DEF Named
<1>7. QED
  BY <1>2, <1>5, <1>6

(* A merge brings the text of a correction, and its doubt, to the entry of *)
(* its id, if nothing else in the snippet is merged there; an entry that   *)
(* no unit of the snippet is merged into keeps its text and is not         *)
(* finished by the merge.  It is CorrectionsArrive, but for the comments   *)
(* and for the doubt that a correction lifts: a mark that stands in three  *)
(* flag lines is not lifted at once.                                       *)
TextsArrive ==
  [][PoMerge /\ (\E k \in DOMAIN file : IsTranslatable(file[k])) =>
       \A k \in DOMAIN file :
         /\ k \in DOMAIN file' /\ GetId(file'[k]) = GetId(file[k])
         /\ Named(k) = {} => /\ file'[k].target = file[k].target
                             /\ IsTranslated(file'[k]) => IsTranslated(file[k])
         /\ \A i \in Named(k) :
              GetId(snippet[i]) = GetId(file[k]) /\ Named(k) = {i}
                => /\ file'[k].target = snippet[i].target
                   /\ IsFuzzy(snippet[i]) => ~IsTranslated(file'[k])]_vars

LEMMA TextsArriveStep ==
  ASSUME FinishedInv, PoMerge, NEW l \in DOMAIN file, IsTranslatable(file[l]), NEW k \in DOMAIN file
  PROVE  LET new == file'
         IN /\ k \in DOMAIN new /\ GetId(new[k]) = GetId(file[k])
            /\ Named(k) = {} => /\ new[k].target = file[k].target
                                /\ IsTranslated(new[k]) => IsTranslated(file[k])
            /\ \A i \in Named(k) :
                 GetId(snippet[i]) = GetId(file[k]) /\ Named(k) = {i}
                   => /\ new[k].target = snippet[i].target
                      /\ IsFuzzy(snippet[i]) => ~IsTranslated(new[k])
<1> DEFINE r == MergeStores(file, snippet)
           new == Saved(r)
<1>1. file' = new
  BY DEF PoMerge
<1>2. /\ IsStore(file) /\ CountableStore(file) /\ IsStore(snippet) /\ CountableStore(snippet)
  BY DEF FinishedInv, Sound
<1>3. /\ IsStore(r) /\ CountableStore(r) /\ Alike(r, file)
      /\ Named(k) = {} => r[k] = file[k]
      /\ \A i \in Named(k) : GetId(snippet[i]) = GetId(file[k]) /\ Named(k) = {i}
                               => Brings(snippet[i], r[k])
  BY <1>2, MergedTexts
<1> HIDE DEF r
<1>4. l \in DOMAIN r /\ IsTranslatable(r[l])
  BY <1>3 DEF Alike, IsTranslatable, IsHeader, IsBlank, HasTarget
<1>5. new = [j \in DOMAIN r |-> Parse(r[j])]
  BY <1>4 DEF Saved
<1>6. k \in DOMAIN r /\ k \in DOMAIN new /\ new[k] = Parse(r[k]) /\ IsUnit(r[k])
  BY <1>3, <1>5 DEF Alike, IsStore
<1> HIDE DEF new
<1>7. /\ GetId(new[k]) = GetId(r[k]) /\ new[k].target = r[k].target
      /\ IsTranslated(new[k]) => IsTranslated(r[k])
  BY <1>6, ReadAsFinished
<1>8. GetId(r[k]) = GetId(file[k])
  BY <1>3 DEF Alike, GetId
<1>9. Named(k) = {} => /\ new[k].target = file[k].target
                       /\ IsTranslated(new[k]) => IsTranslated(file[k])
  BY <1>3, <1>7
<1>10. ASSUME NEW i \in Named(k), GetId(snippet[i]) = GetId(file[k]), Named(k) = {i}
       PROVE  /\ new[k].target = snippet[i].target
              /\ IsFuzzy(snippet[i]) => ~IsTranslated(new[k])
  BY <1>3, <1>7, <1>10 DEF Brings, IsTranslated
<1>11. QED
  BY <1>1, <1>6, <1>7, <1>8, <1>9, <1>10

(* What a translator corrects in the snippet arrives in the file.          *)
THEOREM CorrectedTextsArrive ==
  ASSUME DistinctIds
  PROVE  Spec => TextsArrive
<1>1. Init => FinishedInv
  BY FinishedInvInit
<1>2. FinishedInv /\ [Next]_vars => FinishedInv'
  BY FinishedInvStep
<1> DEFINE Step ==
      PoMerge /\ (\E k \in DOMAIN file : IsTranslatable(file[k])) =>
        \A k \in DOMAIN file :
          /\ k \in DOMAIN file' /\ GetId(file'[k]) = GetId(file[k])
          /\ Named(k) = {} => /\ file'[k].target = file[k].target
                              /\ IsTranslated(file'[k]) => IsTranslated(file[k])
          /\ \A i \in Named(k) :
               GetId(snippet[i]) = GetId(file[k]) /\ Named(k) = {i}
                 => /\ file'[k].target = snippet[i].target
                    /\ IsFuzzy(snippet[i]) => ~IsTranslated(file'[k])
<1>3. FinishedInv => Step
  BY TextsArriveStep
<1> HIDE DEF Step
<1>4. FinishedInv /\ [Next]_vars => [Step]_vars
  BY <1>3
<1>5. Spec => [][Step]_vars
  BY <1>1, <1>2, <1>4, PTL DEF Spec
<1>6. QED
  BY <1>5 DEF TextsArrive, Step
=============================================================================
