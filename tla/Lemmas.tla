------------------------------- MODULE Lemmas -------------------------------
(***************************************************************************)
(* What the operators without state do, for every argument: the rules for  *)
(* loops (sets of positions have a first and a last member; so there is    *)
(* induction on the number of turns of a loop, and the states it goes      *)
(* through exist), what Select returns, what the operators of PoUnit leave *)
(* alone in an entry, and what the indexes of PoIndex lead to in a file.   *)
(***************************************************************************)
EXTENDS PoIndex, FiniteSetTheorems, TLAPS

(* The numbers below all of S: were there one after each of them, counting  *)
(* on by one would be an injection of a finite set into itself that misses *)
(* 0.                                                                      *)
LEMMA LeastMember ==
  ASSUME NEW S \in SUBSET Nat, S # {}
  PROVE  \E x \in S : \A y \in S : x <= y
<1>1. SUFFICES ASSUME \A x \in S : \E y \in S : y < x PROVE FALSE
  OBVIOUS
<1>2. PICK n \in S : TRUE
  OBVIOUS
<1> DEFINE below == {x \in 0 .. n : \A y \in S : x < y}
           on == [x \in below |-> x + 1]
<1>3. 0 \in below
  BY <1>1
<1>4. ASSUME NEW x \in below PROVE x + 1 \in below
  BY <1>1
<1>5. on \in Injection(below, below)
  BY <1>4 DEF Injection, IsInjective
<1>6. IsFiniteSet(below)
  <2>1. below \in SUBSET (0 .. n) /\ 0 \in Int /\ n \in Int
    OBVIOUS
  <2>2. IsFiniteSet(0 .. n)
    BY <2>1, FS_Interval
  <2> HIDE DEF below
  <2>3. QED
    BY <2>1, <2>2, FS_Subset
<1>7. on \in Surjection(below, below)
  <2> HIDE DEF on, below
  <2>1. QED
    BY <1>5, <1>6, FS_Injection
<1>8. PICK x \in below : on[x] = 0
  <2> HIDE DEF on, below
  <2>1. QED
    BY <1>3, <1>7 DEF Surjection
<1>9. QED
  BY <1>8

LEMMA GreatestMember ==
  ASSUME NEW n \in Nat, NEW S \in SUBSET (0 .. n), S # {}
  PROVE  \E x \in S : \A y \in S : x >= y
<1> DEFINE R == {n - x : x \in S}
<1>1. R \in SUBSET Nat
  BY SMT
<1>2. R # {}
  OBVIOUS
<1> HIDE DEF R
<1>3. PICK r \in R : \A q \in R : r <= q
  BY <1>1, <1>2, LeastMember
<1>4. PICK x \in S : r = n - x
  BY DEF R
<1>5. ASSUME NEW y \in S PROVE x >= y
  <2>1. n - x <= n - y
    BY <1>3, <1>4 DEF R
  <2>2. QED
    BY <2>1
<1>6. QED
  BY <1>5

(* What holds before the first turn and survives each of N turns holds     *)
(* after every one of them: no turn is the first to break it.              *)
LEMMA TurnInduction ==
  ASSUME NEW N \in Nat, NEW Good,
         0 \in Good, \A n \in 1 .. N : n - 1 \in Good => n \in Good
  PROVE  0 .. N \subseteq Good
<1> DEFINE Bad == (0 .. N) \ Good
<1>1. ASSUME Bad # {} PROVE FALSE
  <2>1. PICK n \in Bad : \A m \in Bad : n <= m
    <3>1. Bad \in SUBSET Nat
      OBVIOUS
    <3> HIDE DEF Bad
    <3>2. QED
      BY <1>1, <3>1, LeastMember
  <2>2. n \in 1 .. N /\ n - 1 \in 0 .. N /\ ~(n <= n - 1)
    BY <2>1
  <2>3. QED
    BY <2>1, <2>2
<1>2. QED
  BY <1>1

(* What N turns, each of which makes a state in S of a state, go through.  *)
Turns(N, S) == [1 .. N -> [S -> S]]

Runs(N, S, base, turn) ==
  {f \in [0 .. N -> S] : f[0] = base /\ \A n \in 1 .. N : f[n] = turn[n][f[n - 1]]}

(* A loop of N turns runs to its end.                                      *)
LEMMA TurnRecursion ==
  ASSUME NEW N \in Nat, NEW S, NEW base \in S, NEW turn \in Turns(N, S)
  PROVE  Runs(N, S, base, turn) # {}
<1> DEFINE Run(m) == {f \in [0 .. m -> S] :
                        f[0] = base /\ \A n \in 1 .. m : f[n] = turn[n][f[n - 1]]}
           Good == {m \in 0 .. N : Run(m) # {}}
<1>1. 0 \in Good
  <2>1. [n \in 0 .. 0 |-> base] \in Run(0)
    OBVIOUS
  <2>2. QED
    BY <2>1
<1>2. ASSUME NEW m \in 1 .. N, m - 1 \in Good PROVE m \in Good
  <2>1. PICK f : f \in Run(m - 1)
    BY <1>2
  <2>2. f \in [0 .. m - 1 -> S] /\ f[0] = base /\ \A n \in 1 .. m - 1 : f[n] = turn[n][f[n - 1]]
    BY <2>1
  <2>3. f[m - 1] \in S
    BY <2>2
  <2>4. turn[m][f[m - 1]] \in S
    BY <2>3 DEF Turns
  <2> DEFINE g == [n \in 0 .. m |-> IF n = m THEN turn[m][f[m - 1]] ELSE f[n]]
  <2>5. g \in [0 .. m -> S] /\ g[0] = base
    BY <2>2, <2>4
  <2>6. ASSUME NEW n \in 1 .. m PROVE g[n] = turn[n][g[n - 1]]
    BY <2>2
  <2>7. g \in Run(m)
    <3> HIDE DEF g
    <3>1. QED
      BY <2>5, <2>6
  <2> HIDE DEF Run
  <2>8. m \in 0 .. N
    OBVIOUS
  <2>9. QED
    BY <2>7, <2>8
<1>3. N \in Good
  <2> HIDE DEF Good
  <2>1. \A m \in 1 .. N : m - 1 \in Good => m \in Good
    BY <1>2
  <2>2. 0 .. N \subseteq Good
    BY <1>1, <2>1, TurnInduction
  <2>3. QED
    BY <2>2
<1>4. QED
  BY <1>3 DEF Runs

-----------------------------------------------------------------------------
(* The list holds the members of the set among the first n of another      *)
(* list, in their order.                                                   *)
SelectsFirst(result, list, n, set, T) ==
  /\ result \in Seq(T)
  /\ \A u \in T : (\E i \in 1 .. Len(result) : result[i] = u)
                    <=> u \in set /\ (\E k \in 1 .. n : list[k] = u)
  /\ \A i, j \in 1 .. Len(result) :
       i < j => \E k, l \in 1 .. n : k < l /\ list[k] = result[i] /\ list[l] = result[j]

(* The turns of the loop.                                                  *)
SelectTurns(f, list, set) ==
  /\ f[0] = << >>
  /\ \A k \in 1 .. Len(list) :
       f[k] = IF list[k] \in set THEN Append(f[k - 1], list[k]) ELSE f[k - 1]

LEMMA SelectTakesTurns ==
  ASSUME NEW T, NEW list \in Seq(T), NEW set
  PROVE  \E f : SelectTurns(f, list, set) /\ Select(list, set) = f[Len(list)]
<1> DEFINE N == Len(list)
           none == << >>
           Turn(k, found) == IF list[k] \in set THEN Append(found, list[k]) ELSE found
           step == [k \in 1 .. N |-> [found \in Seq(T) |-> Turn(k, found)]]
           Body(f) == [k \in 0 .. N |-> IF k = 0 THEN none ELSE Turn(k, f[k - 1])]
           selected == CHOOSE f : f = Body(f)
<1>1. N \in Nat /\ \A k \in 1 .. N : list[k] \in T
  OBVIOUS
<1>2. step \in [1 .. N -> [Seq(T) -> Seq(T)]] /\ none \in Seq(T)
  BY <1>1
<1>3. Select(list, set) = selected[N]
  BY DEF Select
<1> HIDE DEF none
<1>4. PICK f \in [0 .. N -> Seq(T)] :
        f[0] = none /\ \A k \in 1 .. N : f[k] = step[k][f[k - 1]]
  <2>1. step \in Turns(N, Seq(T))
    BY <1>2 DEF Turns
  <2> HIDE DEF step, N
  <2>2. Runs(N, Seq(T), none, step) # {}
    BY <1>1, <1>2, <2>1, TurnRecursion
  <2>3. QED
    BY <2>2 DEF Runs
<1>5. f = Body(f)
  <2>1. ASSUME NEW k \in 1 .. N PROVE f[k] = Turn(k, f[k - 1])
    <3>1. f[k - 1] \in Seq(T)
      <4>1. k - 1 \in 0 .. N
        BY <1>1
      <4> HIDE DEF N
      <4>2. QED
        BY <1>4, <4>1
    <3>2. QED
      BY <1>4, <3>1
  <2> HIDE DEF N, step, Turn
  <2>2. QED
    BY <1>1, <1>4, <2>1
<1>6. selected = Body(selected)
  <2> HIDE DEF Body
  <2>1. QED
    BY <1>5
<1>7. selected[0] = none /\ \A k \in 1 .. N : selected[k] = Turn(k, selected[k - 1])
  <2> HIDE DEF selected, N, Turn
  <2>1. QED
    BY <1>1, <1>6
<1>8. SelectTurns(selected, list, set)
  <2> HIDE DEF selected
  <2>1. QED
    BY <1>7 DEF SelectTurns, none
<1> HIDE DEF selected
<1>9. QED
  BY <1>3, <1>8

(* What the loop has selected of n items after n turns.                    *)
LEMMA SelectSelects ==
  ASSUME NEW T, NEW list \in Seq(T), NEW set
  PROVE  SelectsFirst(Select(list, set), list, Len(list), set, T)
<1> DEFINE N == Len(list)
<1>1. N \in Nat /\ \A k \in 1 .. N : list[k] \in T
  OBVIOUS
<1>2. PICK selected : SelectTurns(selected, list, set) /\ Select(list, set) = selected[N]
  BY SelectTakesTurns
<1>3. /\ selected[0] = << >>
      /\ \A k \in 1 .. N : selected[k] = IF list[k] \in set THEN Append(selected[k - 1], list[k])
                                         ELSE selected[k - 1]
  BY <1>2 DEF SelectTurns
<1> HIDE DEF N
<1> DEFINE Good == {n \in 0 .. N : SelectsFirst(selected[n], list, n, set, T)}
<1>4. 0 \in Good
  <2>1. SelectsFirst(<< >>, list, 0, set, T)
    BY DEF SelectsFirst
  <2>2. QED
    BY <1>1, <1>3, <2>1
<1>5. ASSUME NEW n \in 1 .. N, n - 1 \in Good PROVE n \in Good
  <2>1. SelectsFirst(selected[n - 1], list, n - 1, set, T)
    BY <1>5
  <2>2. CASE list[n] \notin set
    <3>1. selected[n] = selected[n - 1]
      BY <1>3, <2>2
    <3>2. \A u \in T : u \in set =>
            ((\E k \in 1 .. n : list[k] = u) <=> (\E k \in 1 .. n - 1 : list[k] = u))
      <4>1. 1 .. n = (1 .. n - 1) \cup {n}
        BY <1>1
      <4>2. QED
        BY <2>2, <4>1
    <3>3. SelectsFirst(selected[n], list, n, set, T)
      BY <2>1, <3>1, <3>2 DEF SelectsFirst
    <3>4. QED
      BY <3>3
  <2>3. CASE list[n] \in set
    <3> DEFINE old == selected[n - 1]
               new == selected[n]
    <3>1. new = Append(old, list[n]) /\ list[n] \in T /\ old \in Seq(T)
      BY <1>1, <1>3, <2>1, <2>3 DEF SelectsFirst
    <3>2. /\ new \in Seq(T) /\ Len(new) = Len(old) + 1
          /\ \A i \in 1 .. Len(old) : new[i] = old[i]
          /\ new[Len(new)] = list[n]
      BY <3>1
    <3> HIDE DEF old, new
    <3>3. SelectsFirst(old, list, n - 1, set, T)
      BY <2>1 DEF old
    <3>4. ASSUME NEW u \in T
          PROVE (\E i \in 1 .. Len(new) : new[i] = u)
                  <=> u \in set /\ (\E k \in 1 .. n : list[k] = u)
      <4>1. (\E i \in 1 .. Len(new) : new[i] = u) <=> (\E i \in 1 .. Len(old) : old[i] = u) \/ u = list[n]
        <5>1. Len(old) \in Nat /\ 1 .. Len(new) = (1 .. Len(old)) \cup {Len(new)}
          BY <3>1, <3>2
        <5>2. QED
          BY <3>2, <5>1
      <4>2. (\E k \in 1 .. n : list[k] = u) <=> (\E k \in 1 .. n - 1 : list[k] = u) \/ u = list[n]
        <5>1. 1 .. n = (1 .. n - 1) \cup {n}
          BY <1>1
        <5>2. QED
          BY <5>1
      <4>3. QED
        BY <2>3, <3>3, <4>1, <4>2 DEF SelectsFirst
    <3>5. ASSUME NEW i \in 1 .. Len(new), NEW j \in 1 .. Len(new), i < j
          PROVE \E k, l \in 1 .. n : k < l /\ list[k] = new[i] /\ list[l] = new[j]
      <4>1. i \in 1 .. Len(old) /\ new[i] = old[i] /\ old[i] \in T
        BY <3>1, <3>2, <3>5
      <4>2. CASE j \in 1 .. Len(old)
        <5>1. PICK k \in 1 .. n - 1, l \in 1 .. n - 1 :
                k < l /\ list[k] = old[i] /\ list[l] = old[j]
          BY <3>3, <3>5, <4>1, <4>2 DEF SelectsFirst
        <5>2. QED
          BY <3>2, <4>1, <4>2, <5>1
      <4>3. CASE j = Len(new)
        <5>1. PICK k \in 1 .. n - 1 : list[k] = old[i]
          BY <3>3, <4>1 DEF SelectsFirst
        <5>2. n \in 1 .. n /\ k < n /\ k \in 1 .. n
          OBVIOUS
        <5>3. QED
          BY <3>2, <4>1, <4>3, <5>1, <5>2
      <4>4. QED
        BY <3>2, <4>2, <4>3
    <3>6. SelectsFirst(new, list, n, set, T)
      BY <3>2, <3>4, <3>5 DEF SelectsFirst
    <3>7. QED
      BY <3>6 DEF new
  <2>4. QED
    BY <2>2, <2>3
<1>6. N \in Good
  <2> HIDE DEF Good
  <2>1. \A n \in 1 .. N : n - 1 \in Good => n \in Good
    BY <1>5
  <2>2. 0 .. N \subseteq Good
    BY <1>1, <1>4, <2>1, TurnInduction
  <2>3. QED
    BY <1>1, <2>2
<1>7. QED
  BY <1>2, <1>6 DEF N

-----------------------------------------------------------------------------
(* Entries.                                                                *)

(* w is u but for the fields in changed. *)
Differs(u, w, changed) ==
  IsUnit(w) /\ \A field \in Fields \ changed : w[field] = u[field]

LEMMA FieldsOfAUnit ==
  Fields = { "source", "context", "target", "typecomments", "othercomments",
             "locations", "previous", "obsolete", "state_n" }
BY DEF Fields, NewUnit

(* settypecomment touches the flag lines only. *)
LEMMA SetTypeCommentDiffers ==
  ASSUME NEW u, IsUnit(u), NEW flag, NEW present
  PROVE  Differs(u, SetTypeComment(u, flag, present), {"typecomments"})
<1> DEFINE w(lines) == [u EXCEPT !.typecomments = lines]
<1>1. Differs(u, u, {"typecomments"})
  BY DEF Differs
<1>2. ASSUME NEW lines PROVE Differs(u, w(lines), {"typecomments"})
  BY FieldsOfAUnit DEF Differs, IsUnit
<1> HIDE DEF w
<1>3. \/ SetTypeComment(u, flag, present) = u
      \/ \E lines : SetTypeComment(u, flag, present) = w(lines)
  BY DEF SetTypeComment, w
<1>4. QED
  BY <1>1, <1>2, <1>3

(* set_state_n stores the value, or "untranslated" without a target.       *)
LEMMA SetStateDiffers ==
  ASSUME NEW u, IsUnit(u), NEW value
  PROVE  /\ Differs(u, SetState(u, value), {"typecomments", "state_n"})
         /\ SetState(u, value).state_n \in {value, S_UNTRANSLATED}
<1> DEFINE w(n) == [u EXCEPT !.state_n = n]
<1>1. ASSUME NEW n
      PROVE  Differs(u, w(n), {"state_n"}) /\ w(n).state_n = n
  BY FieldsOfAUnit DEF Differs, IsUnit
<1> HIDE DEF w
<1>2. \E n \in {value, S_UNTRANSLATED} : \E present :
        SetState(u, value) = SetTypeComment(w(n), Fuzzy, present)
  BY DEF SetState, w
<1>3. PICK n \in {value, S_UNTRANSLATED} : \E present :
        SetState(u, value) = SetTypeComment(w(n), Fuzzy, present)
  BY <1>2
<1>4. Differs(w(n), SetState(u, value), {"typecomments"})
  BY <1>1, <1>3, SetTypeCommentDiffers DEF Differs
<1>5. QED
  BY <1>1, <1>3, <1>4, FieldsOfAUnit DEF Differs

(* markfuzzy, with or without a target. *)
LEMMA MarkFuzzyDiffers ==
  ASSUME NEW u, IsUnit(u), NEW present
  PROVE  /\ Differs(u, MarkFuzzy(u, present), {"typecomments", "state_n"})
         /\ MarkFuzzy(u, present).state_n \in {S_FUZZY, S_TRANSLATED, S_UNTRANSLATED}
<1>1. PICK value \in {S_FUZZY, S_TRANSLATED, S_UNTRANSLATED} :
        MarkFuzzy(u, present) = SetTypeComment(SetState(u, value), Fuzzy, present)
  BY DEF MarkFuzzy
<1>2. /\ Differs(u, SetState(u, value), {"typecomments", "state_n"})
      /\ SetState(u, value).state_n \in {S_FUZZY, S_TRANSLATED, S_UNTRANSLATED}
  BY SetStateDiffers
<1>3. Differs(SetState(u, value), MarkFuzzy(u, present), {"typecomments"})
  BY <1>1, <1>2, SetTypeCommentDiffers DEF Differs
<1>4. QED
  BY <1>2, <1>3, FieldsOfAUnit DEF Differs

(* makeobsolete keeps the text and sets the flag. *)
LEMMA MakeObsoleteDiffers ==
  ASSUME NEW u, IsUnit(u)
  PROVE  /\ Differs(u, MakeObsolete(u), {"typecomments", "state_n", "obsolete", "locations"})
         /\ MakeObsolete(u).obsolete = TRUE
         /\ MakeObsolete(u).state_n \in {S_FUZZY_OBSOLETE, S_OBSOLETE, S_UNTRANSLATED}
<1> DEFINE w(v) == [v EXCEPT !.obsolete = TRUE, !.locations = << >>]
<1>1. ASSUME NEW v, IsUnit(v)
      PROVE  Differs(v, w(v), {"obsolete", "locations"}) /\ w(v).obsolete = TRUE
  BY <1>1, FieldsOfAUnit DEF Differs, IsUnit
<1> HIDE DEF w
<1>2. PICK value \in {S_FUZZY_OBSOLETE, S_OBSOLETE} : MakeObsolete(u) = w(SetState(u, value))
  BY DEF MakeObsolete, w
<1>3. /\ Differs(u, SetState(u, value), {"typecomments", "state_n"})
      /\ SetState(u, value).state_n \in {value, S_UNTRANSLATED}
  BY SetStateDiffers
<1>4. /\ Differs(SetState(u, value), MakeObsolete(u), {"obsolete", "locations"})
      /\ MakeObsolete(u).obsolete = TRUE
  BY <1>1, <1>2, <1>3 DEF Differs
<1>5. QED
  BY <1>3, <1>4, FieldsOfAUnit DEF Differs

(* resurrect clears the flag and leaves a state of a live unit. *)
LEMMA ResurrectDiffers ==
  ASSUME NEW u, IsUnit(u)
  PROVE  /\ Differs(u, Resurrect(u), {"typecomments", "state_n", "obsolete"})
         /\ Resurrect(u).state_n \in {S_TRANSLATED, S_UNTRANSLATED}
         /\ Resurrect(u).obsolete = FALSE
<1> DEFINE w(v) == [v EXCEPT !.obsolete = FALSE]
<1> DEFINE normal == SetState(u, S_TRANSLATED)
<1> DEFINE blank == SetState(normal, S_UNTRANSLATED)
<1>1. ASSUME NEW v, IsUnit(v)
      PROVE  Differs(v, w(v), {"obsolete"}) /\ w(v).obsolete = FALSE
  BY <1>1, FieldsOfAUnit DEF Differs, IsUnit
<1>2. /\ Differs(u, normal, {"typecomments", "state_n"})
      /\ normal.state_n \in {S_TRANSLATED, S_UNTRANSLATED}
  BY SetStateDiffers
<1>3. /\ Differs(normal, blank, {"typecomments", "state_n"})
      /\ blank.state_n = S_UNTRANSLATED
  BY <1>2, SetStateDiffers DEF Differs
<1>4. Resurrect(u) \in {w(normal), w(blank)}
  BY DEF Resurrect
<1> HIDE DEF w, normal, blank
<1>5. Differs(u, blank, {"typecomments", "state_n"})
  BY <1>2, <1>3 DEF Differs
<1>6. PICK v \in {normal, blank} : Resurrect(u) = w(v)
  BY <1>4
<1>7. /\ Differs(u, v, {"typecomments", "state_n"})
      /\ v.state_n \in {S_TRANSLATED, S_UNTRANSLATED}
  BY <1>2, <1>3, <1>5
<1>8. Differs(v, Resurrect(u), {"obsolete"}) /\ Resurrect(u).obsolete = FALSE
  BY <1>1, <1>6, <1>7 DEF Differs
<1>9. QED
  BY <1>7, <1>8, FieldsOfAUnit DEF Differs

(* Reading a unit back changes its flags and its state, and takes the      *)
(* locations of an obsolete one; a live one is in a state of a live unit.  *)
LEMMA ParseDiffers ==
  ASSUME NEW u, IsUnit(u)
  PROVE  /\ Differs(u, Parse(u), {"typecomments", "state_n", "obsolete", "locations"})
         /\ \/ Parse(u).obsolete = TRUE
            \/ /\ Parse(u).obsolete = u.obsolete
               /\ Parse(u).state_n \in {S_FUZZY, S_TRANSLATED, S_UNTRANSLATED}
         /\ Parse(u).state_n \in States
<1> DEFINE w == [u EXCEPT !.state_n = S_UNTRANSLATED]
<1>1. Differs(u, w, {"state_n"})
  BY FieldsOfAUnit DEF Differs, IsUnit
<1>2. Parse(u) = MakeObsolete(w) \/ Parse(u) = MarkFuzzy(w, IsFuzzy(w))
  BY DEF Parse, InferState
<1> HIDE DEF w
<1>3. CASE Parse(u) = MakeObsolete(w)
  <2>1. /\ Differs(w, Parse(u), {"typecomments", "state_n", "obsolete", "locations"})
        /\ Parse(u).obsolete = TRUE
        /\ Parse(u).state_n \in States
    BY <1>1, <1>3, MakeObsoleteDiffers DEF Differs, States
  <2>2. Differs(u, Parse(u), {"typecomments", "state_n", "obsolete", "locations"})
    BY <1>1, <2>1, FieldsOfAUnit DEF Differs
  <2>3. QED
    BY <2>1, <2>2
<1>4. CASE Parse(u) = MarkFuzzy(w, IsFuzzy(w))
  BY <1>1, <1>4, MarkFuzzyDiffers, FieldsOfAUnit DEF Differs, States
<1>5. QED
  BY <1>2, <1>3, <1>4

(* What merging another unit into this one may change. *)
Mergeable == { "target", "previous", "typecomments", "othercomments", "locations", "state_n" }

LEMMA MergeCommentsDiffers ==
  ASSUME NEW u, IsUnit(u), NEW other, NEW authoritative
  PROVE  Differs(u, MergeComments(u, other, authoritative),
                 {"othercomments", "typecomments", "locations"})
<1> DEFINE w(o, t, l) ==
             [u EXCEPT !.othercomments = o, !.typecomments = t, !.locations = l]
<1>1. ASSUME NEW o, NEW t, NEW l
      PROVE  Differs(u, w(o, t, l), {"othercomments", "typecomments", "locations"})
  BY FieldsOfAUnit DEF Differs, IsUnit
<1>2. \E o, t, l : MergeComments(u, other, authoritative) = w(o, t, l)
  BY Zenon DEF MergeComments
<1> HIDE DEF w
<1>3. QED
  BY <1>1, <1>2

(* A merge leaves a unit its identity and its obsoleteness; where it       *)
(* touches the state it leaves the state of a live unit.                   *)
LEMMA MergeTargetDiffers ==
  ASSUME NEW u, IsUnit(u), NEW other, NEW overwrite
  PROVE  LET v == MergeTarget(u, other, overwrite)
         IN /\ Differs(u, v, {"target", "previous", "typecomments", "state_n"})
            /\ v.state_n \in {u.state_n, S_FUZZY, S_TRANSLATED, S_UNTRANSLATED}
<1> DEFINE w(t, p) == [u EXCEPT !.target = t, !.previous = p]
<1>1. ASSUME NEW t, NEW p
      PROVE  Differs(u, w(t, p), {"target", "previous"})
  BY FieldsOfAUnit DEF Differs, IsUnit
<1>2. \/ MergeTarget(u, other, overwrite) = u
      \/ MergeTarget(u, other, overwrite) = MarkFuzzy(u, TRUE)
      \/ \E t, p, present : MergeTarget(u, other, overwrite) = MarkFuzzy(w(t, p), present)
  BY Zenon DEF MergeTarget
<1> HIDE DEF w
<1> DEFINE v == MergeTarget(u, other, overwrite)
<1> DEFINE changed == {"target", "previous", "typecomments", "state_n"}
<1> DEFINE Goal == /\ Differs(u, v, changed)
                   /\ v.state_n \in {u.state_n, S_FUZZY, S_TRANSLATED, S_UNTRANSLATED}
<1>3. CASE v = u
  BY <1>3 DEF Differs
<1>4. CASE v = MarkFuzzy(u, TRUE)
  <2>1. /\ Differs(u, v, {"typecomments", "state_n"})
        /\ v.state_n \in {S_FUZZY, S_TRANSLATED, S_UNTRANSLATED}
    BY <1>4, MarkFuzzyDiffers
  <2>2. Differs(u, v, changed)
    BY <2>1 DEF Differs
  <2>3. QED
    BY <2>1, <2>2
<1>5. ASSUME NEW t, NEW p, NEW present, v = MarkFuzzy(w(t, p), present)
      PROVE  Goal
  <2>1. IsUnit(w(t, p)) /\ Differs(u, w(t, p), {"target", "previous"})
    BY <1>1 DEF Differs
  <2>2. /\ Differs(w(t, p), v, {"typecomments", "state_n"})
        /\ v.state_n \in {S_FUZZY, S_TRANSLATED, S_UNTRANSLATED}
    BY <1>5, <2>1, MarkFuzzyDiffers
  <2>3. Differs(u, v, changed)
    BY <2>1, <2>2 DEF Differs
  <2>4. QED
    BY <2>2, <2>3
<1>6. QED
  BY <1>2, <1>3, <1>4, <1>5

LEMMA MergeDiffers ==
  ASSUME NEW u, IsUnit(u), NEW other, NEW overwrite, NEW comments, NEW authoritative
  PROVE  LET v == Merge(u, other, overwrite, comments, authoritative)
         IN /\ Differs(u, v, Mergeable)
            /\ v.state_n \in {u.state_n, S_FUZZY, S_TRANSLATED, S_UNTRANSLATED}
<1> DEFINE c == MergeComments(u, other, authoritative)
<1>1. Differs(u, c, {"othercomments", "typecomments", "locations"})
  BY MergeCommentsDiffers
<1>2. \/ Merge(u, other, overwrite, comments, authoritative) = MergeTarget(u, other, overwrite)
      \/ Merge(u, other, overwrite, comments, authoritative) = MergeTarget(c, other, overwrite)
  BY DEF Merge
<1> HIDE DEF c
<1>3. QED
  BY <1>1, <1>2, MergeTargetDiffers, FieldsOfAUnit DEF Differs, Mergeable

-----------------------------------------------------------------------------
(* The fuzzy mark.                                                         *)

(* Flag lines whose fuzzy flags can be counted.                            *)
Countable(lines) ==
  /\ IsFiniteSet(DOMAIN lines)
  /\ \A line \in DOMAIN lines : lines[line] \in Nat /\ line[Fuzzy] \in Int

LEMMA FiniteImage ==
  ASSUME NEW S, IsFiniteSet(S), NEW T, NEW f \in Surjection(S, T)
  PROVE  IsFiniteSet(T)
BY FS_Surjection, Zenon

(* The fuzzy flags of a unit are finitely many, and none unless it is fuzzy. *)
LEMMA FuzzyFlags ==
  ASSUME NEW u, Countable(u.typecomments)
  PROVE  /\ FlagCount(u, Fuzzy) \in Nat
         /\ ~IsFuzzy(u) => FlagCount(u, Fuzzy) = 0
<1> DEFINE lines == DOMAIN u.typecomments
<1> DEFINE flags(line) == {line} \X (1 .. u.typecomments[line] * line[Fuzzy])
<1> DEFINE all == {flags(line) : line \in lines}
<1>1. \A line \in lines : IsFiniteSet(flags(line))
  <2> SUFFICES ASSUME NEW line \in lines PROVE IsFiniteSet(flags(line))
    OBVIOUS
  <2>1. u.typecomments[line] * line[Fuzzy] \in Int
    BY DEF Countable
  <2>2. IsFiniteSet(1 .. u.typecomments[line] * line[Fuzzy])
    BY <2>1, FS_Interval
  <2>3. QED
    BY <2>2, FS_Product, FS_Singleton
<1>2. IsFiniteSet(all)
  <2> DEFINE f == [line \in lines |-> flags(line)]
  <2>1. f \in Surjection(lines, all)
    BY DEF Surjection
  <2>2. IsFiniteSet(lines)
    BY DEF Countable
  <2> HIDE DEF f, all, lines
  <2>3. QED
    BY <2>1, <2>2, FiniteImage
<1>3. IsFiniteSet(UNION all)
  BY <1>1, <1>2, FS_UNION
<1>4. ASSUME ~IsFuzzy(u) PROVE UNION all = {}
  <2> SUFFICES ASSUME NEW line \in lines PROVE flags(line) = {}
    OBVIOUS
  <2>1. u.typecomments[line] \in Nat /\ line[Fuzzy] \in Int /\ ~(line[Fuzzy] > 0)
    BY <1>4 DEF Countable, IsFuzzy, HasTypeComment
  <2>2. ASSUME NEW n \in Nat, NEW m \in Int, ~(m > 0)
        PROVE  n * m \in Int /\ n * m <= 0
    BY <2>2
  <2>3. /\ u.typecomments[line] * line[Fuzzy] \in Int
        /\ u.typecomments[line] * line[Fuzzy] <= 0
    BY <2>1, <2>2
  <2>4. QED
    BY <2>3
<1>5. FlagCount(u, Fuzzy) = Cardinality(UNION all)
  BY DEF FlagCount
<1> HIDE DEF all
<1>6. QED
  BY <1>3, <1>4, <1>5, FS_CardinalityType, FS_EmptySet

(* settypecomment makes a unit fuzzy if asked to, and does nothing to one  *)
(* that is as it should be.                                                *)
LEMMA SetFuzzyFlag ==
  ASSUME NEW u, IsUnit(u), Countable(u.typecomments), NEW present \in BOOLEAN
  PROVE  LET v == SetTypeComment(u, Fuzzy, present)
         IN /\ Countable(v.typecomments)
            /\ present => IsFuzzy(v)
            /\ IsFuzzy(u) = present => v = u
<1> DEFINE v == SetTypeComment(u, Fuzzy, present)
<1> DEFINE change == IF present THEN 1 ELSE -1
<1> DEFINE line == [f \in Flags |-> FlagCount(u, f) + IF f = Fuzzy THEN change ELSE 0]
<1>1. CASE IsFuzzy(u) = present
  <2>1. v = u
    BY <1>1 DEF SetTypeComment, IsFuzzy
  <2>2. QED
    BY <1>1, <2>1
<1>2. CASE IsFuzzy(u) # present
  <2>1. v = [u EXCEPT !.typecomments =
               IF \A f \in Flags : line[f] = 0 THEN NoFlags ELSE OneLine(line)]
    BY <1>2 DEF SetTypeComment, IsFuzzy
  <2>2. v.typecomments = IF \A f \in Flags : line[f] = 0 THEN NoFlags ELSE OneLine(line)
    BY <2>1, FieldsOfAUnit DEF IsUnit
  <2>3. Fuzzy \in Flags /\ line[Fuzzy] = FlagCount(u, Fuzzy) + change /\ line[Fuzzy] \in Int
    BY FuzzyFlags DEF Flags
  <2>4. Countable(NoFlags)
    BY FS_EmptySet DEF Countable, NoFlags
  <2>5. Countable(OneLine(line))
    BY <2>3, FS_Singleton DEF Countable, OneLine
  <2>6. ASSUME present PROVE IsFuzzy(v)
    <3>1. line[Fuzzy] = 1
      <4>1. ~IsFuzzy(u) /\ change = 1
        BY <1>2, <2>6 DEF IsFuzzy, HasTypeComment
      <4> HIDE DEF line, change
      <4>2. FlagCount(u, Fuzzy) = 0
        BY <4>1, FuzzyFlags
      <4>3. QED
        BY <2>3, <4>1, <4>2
    <3>2. v.typecomments = OneLine(line)
      BY <2>2, <2>3, <3>1
    <3>3. QED
      BY <3>1, <3>2 DEF IsFuzzy, HasTypeComment, OneLine
  <2> HIDE DEF line
  <2>7. QED
    BY <1>2, <2>2, <2>4, <2>5, <2>6
<1>3. QED
  BY <1>1, <1>2

(* set_state_n, markfuzzy: the flag is what it was set to. *)
LEMMA SetStateCountable ==
  ASSUME NEW u, IsUnit(u), Countable(u.typecomments), NEW value
  PROVE  Countable(SetState(u, value).typecomments)
<1> DEFINE w(n) == [u EXCEPT !.state_n = n]
<1>1. ASSUME NEW n PROVE IsUnit(w(n)) /\ w(n).typecomments = u.typecomments
  BY FieldsOfAUnit DEF IsUnit
<1>2. InFuzzyRange(value) \in BOOLEAN
  BY DEF InFuzzyRange
<1>3. \/ SetState(u, value) = SetTypeComment(w(value), Fuzzy, InFuzzyRange(value))
      \/ SetState(u, value) = SetTypeComment(w(S_UNTRANSLATED), Fuzzy, FALSE)
  BY DEF SetState
<1> HIDE DEF w
<1>4. QED
  BY <1>1, <1>2, <1>3, SetFuzzyFlag

LEMMA MarkFuzzyFlag ==
  ASSUME NEW u, IsUnit(u), Countable(u.typecomments), NEW present \in BOOLEAN
  PROVE  /\ Countable(MarkFuzzy(u, present).typecomments)
         /\ present => IsFuzzy(MarkFuzzy(u, present))
<1>1. PICK value : MarkFuzzy(u, present) = SetTypeComment(SetState(u, value), Fuzzy, present)
  BY DEF MarkFuzzy
<1>2. IsUnit(SetState(u, value)) /\ Countable(SetState(u, value).typecomments)
  BY SetStateDiffers, SetStateCountable DEF Differs
<1> HIDE DEF MarkFuzzy
<1>3. QED
  BY <1>1, <1>2, SetFuzzyFlag

(* A unit with a target keeps its flag lines when the new state is as      *)
(* fuzzy as the unit is.                                                   *)
LEMMA SameFuzzinessKeepsFlags ==
  ASSUME NEW u, IsUnit(u), HasTarget(u), NEW value, InFuzzyRange(value) = IsFuzzy(u)
  PROVE  SetState(u, value) = [u EXCEPT !.state_n = value]
<1> DEFINE w == [u EXCEPT !.state_n = value]
<1>1. IsUnit(w) /\ w.typecomments = u.typecomments
  BY FieldsOfAUnit DEF IsUnit
<1>2. SetState(u, value) = SetTypeComment(w, Fuzzy, InFuzzyRange(value))
  BY DEF SetState
<1> HIDE DEF w
<1>3. HasTypeComment(w, Fuzzy) = InFuzzyRange(value)
  BY <1>1 DEF IsFuzzy, HasTypeComment
<1>4. QED
  BY <1>2, <1>3 DEF SetTypeComment, w

LEMMA FuzzyValues ==
  /\ InFuzzyRange(S_FUZZY) = TRUE /\ InFuzzyRange(S_FUZZY_OBSOLETE) = TRUE
  /\ InFuzzyRange(S_OBSOLETE) = FALSE /\ InFuzzyRange(S_TRANSLATED) = FALSE
BY DEF InFuzzyRange, S_FUZZY, S_FUZZY_OBSOLETE, S_OBSOLETE, S_TRANSLATED

(* Becoming obsolete, and being read again, leave the flag lines of a unit *)
(* with a target as they are.                                              *)
LEMMA ObsoleteKeepsFlags ==
  ASSUME NEW u, IsUnit(u), HasTarget(u)
  PROVE  /\ MakeObsolete(u).typecomments = u.typecomments
         /\ MakeObsolete(u).obsolete = TRUE
<1> DEFINE value == IF IsFuzzy(u) THEN S_FUZZY_OBSOLETE ELSE S_OBSOLETE
<1>1. InFuzzyRange(value) = IsFuzzy(u)
  BY FuzzyValues DEF IsFuzzy, HasTypeComment
<1>2. SetState(u, value) = [u EXCEPT !.state_n = value]
  BY <1>1, SameFuzzinessKeepsFlags
<1>3. MakeObsolete(u) = [SetState(u, value) EXCEPT !.obsolete = TRUE, !.locations = << >>]
  BY DEF MakeObsolete
<1> HIDE DEF value
<1>4. QED
  BY <1>2, <1>3, FieldsOfAUnit DEF IsUnit

LEMMA ParseKeepsStatus ==
  ASSUME NEW u, IsUnit(u), HasTarget(u)
  PROVE  /\ Parse(u).typecomments = u.typecomments
         /\ u.obsolete => Parse(u).obsolete = TRUE
         /\ ~u.obsolete => Parse(u).obsolete = u.obsolete
<1> DEFINE w == [u EXCEPT !.state_n = S_UNTRANSLATED]
<1>1. /\ IsUnit(w) /\ w.typecomments = u.typecomments
      /\ w.obsolete = u.obsolete /\ w.target = u.target
  BY FieldsOfAUnit DEF IsUnit
<1>2. Parse(u) = IF w.obsolete THEN MakeObsolete(w) ELSE MarkFuzzy(w, IsFuzzy(w))
  BY DEF Parse, InferState
<1> HIDE DEF w
<1>3. HasTarget(w)
  BY <1>1 DEF HasTarget
<1>4. CASE w.obsolete
  BY <1>1, <1>2, <1>3, <1>4, ObsoleteKeepsFlags, MakeObsoleteDiffers
<1>5. CASE ~w.obsolete
  <2> DEFINE value == IF IsFuzzy(w) THEN S_FUZZY ELSE S_TRANSLATED
  <2> DEFINE v == [w EXCEPT !.state_n = value]
  <2>1. InFuzzyRange(value) = IsFuzzy(w)
    BY FuzzyValues DEF IsFuzzy, HasTypeComment
  <2>2. SetState(w, value) = v
    BY <1>1, <1>3, <2>1, SameFuzzinessKeepsFlags
  <2>3. v.typecomments = w.typecomments /\ v.obsolete = w.obsolete
    BY <1>1, FieldsOfAUnit DEF IsUnit
  <2>4. MarkFuzzy(w, IsFuzzy(w)) = SetTypeComment(SetState(w, value), Fuzzy, IsFuzzy(w))
    BY <1>3 DEF MarkFuzzy
  <2> HIDE DEF v, value
  <2>5. HasTypeComment(v, Fuzzy) = IsFuzzy(w)
    BY <2>3 DEF IsFuzzy, HasTypeComment
  <2>6. Parse(u) = v
    BY <1>2, <1>5, <2>2, <2>4, <2>5 DEF SetTypeComment
  <2>7. QED
    BY <1>1, <1>5, <2>3, <2>6
<1>6. QED
  BY <1>4, <1>5

(* Whatever the target, what these operators leave can be counted. *)
LEMMA OthersCountable ==
  ASSUME NEW u, IsUnit(u), Countable(u.typecomments)
  PROVE  /\ Countable(MakeObsolete(u).typecomments)
         /\ Countable(Resurrect(u).typecomments)
         /\ Countable(Parse(u).typecomments)
<1>1. ASSUME NEW v, IsUnit(v), Countable(v.typecomments)
      PROVE  Countable(MakeObsolete(v).typecomments)
  <2>1. PICK value : MakeObsolete(v) = [SetState(v, value) EXCEPT !.obsolete = TRUE,
                                                                  !.locations = << >>]
    BY DEF MakeObsolete
  <2>2. IsUnit(SetState(v, value)) /\ Countable(SetState(v, value).typecomments)
    BY <1>1, SetStateDiffers, SetStateCountable DEF Differs
  <2> HIDE DEF MakeObsolete
  <2>3. MakeObsolete(v).typecomments = SetState(v, value).typecomments
    BY <2>1, <2>2, FieldsOfAUnit DEF IsUnit
  <2>4. QED
    BY <2>2, <2>3
<1>2. Countable(Resurrect(u).typecomments)
  <2> DEFINE normal == SetState(u, S_TRANSLATED)
  <2> DEFINE blank == SetState(normal, S_UNTRANSLATED)
  <2>1. IsUnit(normal) /\ Countable(normal.typecomments)
    BY SetStateDiffers, SetStateCountable DEF Differs
  <2>2. IsUnit(blank) /\ Countable(blank.typecomments)
    BY <2>1, SetStateDiffers, SetStateCountable DEF Differs
  <2>3. PICK v \in {normal, blank} : Resurrect(u) = [v EXCEPT !.obsolete = FALSE]
    BY DEF Resurrect
  <2> HIDE DEF normal, blank
  <2>4. Resurrect(u).typecomments = v.typecomments
    BY <2>1, <2>2, <2>3, FieldsOfAUnit DEF IsUnit
  <2>5. QED
    BY <2>1, <2>2, <2>4
<1>3. Countable(Parse(u).typecomments)
  <2> DEFINE w == [u EXCEPT !.state_n = S_UNTRANSLATED]
  <2>1. IsUnit(w) /\ Countable(w.typecomments)
    BY FieldsOfAUnit DEF IsUnit
  <2>2. Parse(u) = MakeObsolete(w) \/ Parse(u) = MarkFuzzy(w, IsFuzzy(w))
    BY DEF Parse, InferState
  <2>3. IsFuzzy(w) \in BOOLEAN
    BY DEF IsFuzzy, HasTypeComment
  <2> HIDE DEF w
  <2>4. QED
    BY <1>1, <2>1, <2>2, <2>3, MarkFuzzyFlag
<1>4. QED
  BY <1>1, <1>2, <1>3

(* The flag lines of two units together: a fuzzy unit stays fuzzy.         *)
LEMMA MergedFlagLines ==
  ASSUME NEW u, IsUnit(u), NEW other, NEW authoritative,
         Countable(u.typecomments), Countable(other.typecomments)
  PROVE  LET c == MergeComments(u, other, authoritative)
         IN Countable(c.typecomments) /\ (IsFuzzy(u) => IsFuzzy(c))
<1> DEFINE c == MergeComments(u, other, authoritative)
<1> DEFINE lines == MergeFlagLines(u.typecomments, other.typecomments)
<1>1. c.typecomments = lines
  BY FieldsOfAUnit DEF MergeComments, IsUnit
<1>2. DOMAIN lines = DOMAIN u.typecomments \cup DOMAIN other.typecomments
  BY DEF MergeFlagLines
<1>3. \A line \in DOMAIN lines : lines[line] \in Nat /\ line[Fuzzy] \in Int
  BY DEF MergeFlagLines, Countable
<1>4. IsFiniteSet(DOMAIN lines)
  BY <1>2, FS_Union DEF Countable
<1> HIDE DEF lines, c
<1>5. QED
  BY <1>1, <1>2, <1>3, <1>4 DEF Countable, IsFuzzy, HasTypeComment, c

(* markfuzzy(False) adds no fuzzy flag. *)
LEMMA NotMarkedFuzzy ==
  ASSUME NEW u, IsUnit(u), HasTarget(u), ~IsFuzzy(u)
  PROVE  ~IsFuzzy(MarkFuzzy(u, FALSE))
<1> DEFINE w == [u EXCEPT !.state_n = S_TRANSLATED]
<1>1. IsFuzzy(u) = FALSE
  BY DEF IsFuzzy, HasTypeComment
<1>2. SetState(u, S_TRANSLATED) = w
  BY <1>1, FuzzyValues, SameFuzzinessKeepsFlags
<1>3. w.typecomments = u.typecomments
  BY FieldsOfAUnit DEF IsUnit
<1>4. MarkFuzzy(u, FALSE) = SetTypeComment(SetState(u, S_TRANSLATED), Fuzzy, FALSE)
  BY DEF MarkFuzzy
<1> HIDE DEF w
<1>5. HasTypeComment(w, Fuzzy) = FALSE
  BY <1>1, <1>3 DEF IsFuzzy, HasTypeComment
<1>6. MarkFuzzy(u, FALSE) = w
  BY <1>2, <1>4, <1>5 DEF SetTypeComment
<1>7. QED
  BY <1>1, <1>3, <1>6 DEF IsFuzzy, HasTypeComment

LEMMA MergeIsCountable ==
  ASSUME NEW u, IsUnit(u), Countable(u.typecomments), NEW m, Countable(m.typecomments),
         NEW overwrite, NEW comments, NEW authoritative
  PROVE  Countable(Merge(u, m, overwrite, comments, authoritative).typecomments)
<1> DEFINE c == IF comments THEN MergeComments(u, m, authoritative) ELSE u
<1> DEFINE w(p) == [c EXCEPT !.target = m.target, !.previous = p]
<1>1. IsUnit(c) /\ Countable(c.typecomments)
  BY MergeCommentsDiffers, MergedFlagLines DEF Differs
<1> DEFINE v == MergeTarget(c, m, overwrite)
<1> HIDE DEF c
<1>2. ASSUME NEW p PROVE IsUnit(w(p)) /\ Countable(w(p).typecomments)
  BY <1>1, FieldsOfAUnit DEF IsUnit
<1>3. IsFuzzy(m) \in BOOLEAN
  BY DEF IsFuzzy, HasTypeComment
<1>4. v = c \/ v = MarkFuzzy(c, TRUE) \/ \E p, present : v = MarkFuzzy(w(p), present) /\ present \in BOOLEAN
  BY <1>3, Zenon DEF MergeTarget
<1> HIDE DEF w, v
<1>5. Countable(v.typecomments)
  BY <1>1, <1>2, <1>4, MarkFuzzyFlag
<1>6. QED
  BY <1>5 DEF Merge, v, c

(* So do the operators a translator or a tool applies to a single unit.    *)
LEMMA FlagsAreKept ==
  ASSUME NEW u, IsUnit(u), Countable(u.typecomments), NEW text, NEW present \in BOOLEAN
  PROVE  \A v \in { MakeObsolete(u), Parse(u), MarkFuzzy(u, present),
                     MarkFuzzy(SetTarget(u, text), present) } :
           Countable(v.typecomments)
<1> DEFINE w == SetTarget(u, text)
<1>1. IsUnit(w) /\ w.typecomments = u.typecomments
  BY FieldsOfAUnit DEF SetTarget, IsUnit
<1> HIDE DEF w
<1>2. Countable(MarkFuzzy(w, present).typecomments)
  BY <1>1, MarkFuzzyFlag
<1>3. Countable(MarkFuzzy(u, present).typecomments)
  BY MarkFuzzyFlag
<1>4. Countable(MakeObsolete(u).typecomments) /\ Countable(Parse(u).typecomments)
  BY OthersCountable
<1>5. QED
  BY <1>2, <1>3, <1>4 DEF w

-----------------------------------------------------------------------------
(* Files. *)

LEMMA StoreShape ==
  ASSUME NEW store, IsStore(store)
  PROVE  /\ Len(store) \in Nat
         /\ DOMAIN store = 1 .. Len(store)
BY DEF IsStore

LEMMA EmptyStore == IsStore(<< >>) /\ UniqueIds(<< >>) /\ Len(<< >>) = 0
BY DEF IsStore, UniqueIds

(* Replacing units by others with the same ids leaves a store a store.     *)
LEMMA SameIdsStore ==
  ASSUME NEW store, IsStore(store), UniqueIds(store),
         NEW f, f = [k \in DOMAIN store |-> f[k]],
         \A k \in DOMAIN store : IsUnit(f[k]) /\ GetId(f[k]) = GetId(store[k])
  PROVE  IsStore(f) /\ UniqueIds(f) /\ Len(f) = Len(store)
<1>1. DOMAIN f = 1 .. Len(store) /\ Len(store) \in Nat
  BY StoreShape
<1>2. f \in [1 .. Len(store) -> Range(f)]
  BY <1>1 DEF Range
<1>3. f \in Seq(Range(f)) /\ Len(f) = Len(store)
  BY <1>1, <1>2
<1>4. QED
  BY <1>1, <1>3 DEF IsStore, UniqueIds

LEMMA AppendStore ==
  ASSUME NEW store, IsStore(store), NEW u, IsUnit(u)
  PROVE  LET longer == Append(store, u)
         IN /\ IsStore(longer)
            /\ DOMAIN longer = 1 .. Len(store) + 1
            /\ \A k \in 1 .. Len(store) : longer[k] = store[k]
            /\ longer[Len(store) + 1] = u
<1> DEFINE longer == Append(store, u)
<1>1. store \in Seq(Range(store) \cup {u}) /\ Len(store) \in Nat /\ DOMAIN store = 1 .. Len(store)
  BY StoreShape DEF IsStore
<1>2. /\ longer \in Seq(Range(store) \cup {u})
      /\ Len(longer) = Len(store) + 1
      /\ \A k \in 1 .. Len(store) : longer[k] = store[k]
      /\ longer[Len(store) + 1] = u
  BY <1>1
<1> HIDE DEF longer
<1>3. DOMAIN longer = 1 .. Len(store) + 1
  BY <1>1, <1>2
<1>4. longer \in [1 .. Len(store) + 1 -> Range(longer)]
  BY <1>2, <1>3 DEF Range
<1>5. longer \in Seq(Range(longer))
  BY <1>1, <1>4
<1>6. \A k \in DOMAIN longer : IsUnit(longer[k])
  BY <1>1, <1>2, <1>3 DEF IsStore
<1>7. QED
  BY <1>2, <1>3, <1>5, <1>6 DEF IsStore, longer

(* Only headers and blank units are not indexed, and both have the empty   *)
(* id: an id some indexed unit has is found wherever it occurs.            *)
LEMMA NotFoundIsAbsent ==
  ASSUME NEW store, NEW other, NEW k \in Indexed(other),
         ~HasId(store, GetId(other[k]))
  PROVE  \A j \in DOMAIN store : GetId(store[j]) # GetId(other[k])
<1>1. GetId(other[k]) # <<NoContext, NoText>>
  BY DEF Indexed, IsHeader, IsBlank, GetId
<1>2. ASSUME NEW j \in DOMAIN store, GetId(store[j]) = GetId(other[k])
      PROVE  j \in Indexed(store)
  BY <1>1, <1>2 DEF Indexed, IsHeader, IsBlank, GetId
<1>3. QED
  BY <1>2 DEF HasId

CountableStore(store) == \A k \in DOMAIN store : Countable(store[k].typecomments)

LEMMA FirstAndLast ==
  ASSUME NEW store, IsStore(store), NEW S \in SUBSET DOMAIN store
  PROVE  /\ S = {} => FirstOf(S) = 0 /\ LastOf(S) = 0
         /\ S # {} => /\ FirstOf(S) \in S /\ \A k \in S : FirstOf(S) <= k
                      /\ LastOf(S) \in S /\ \A k \in S : k <= LastOf(S)
<1> SUFFICES ASSUME S # {}
             PROVE  /\ Min(S) \in S /\ \A k \in S : Min(S) <= k
                    /\ Max(S) \in S /\ \A k \in S : Max(S) >= k
  BY StoreShape DEF FirstOf, LastOf
<1>1. Len(store) \in Nat /\ S \in SUBSET (0 .. Len(store)) /\ S \in SUBSET Nat
  BY StoreShape
<1>2. \E k \in S : \A j \in S : k <= j
  BY <1>1, LeastMember
<1>3. \E k \in S : \A j \in S : k >= j
  BY <1>1, GreatestMember
<1>4. QED
  BY <1>2, <1>3 DEF Min, Max

(* The id index of a file without duplicates leads to the entry itself.    *)
LEMMA FoundById ==
  ASSUME NEW store, IsStore(store), NEW id, FindId(store, id) # 0
  PROVE  /\ FindId(store, id) \in Indexed(store) /\ FindId(store, id) \in DOMAIN store
         /\ GetId(store[FindId(store, id)]) = id
<1> DEFINE S == {k \in Indexed(store) : GetId(store[k]) = id}
<1>1. S \in SUBSET DOMAIN store /\ FindId(store, id) = LastOf(S)
  BY DEF Indexed, FindId
<1>2. LastOf(S) \in S
  BY <1>1, FirstAndLast
<1>3. QED
  BY <1>1, <1>2 DEF Indexed

(* The source index leads to the first entry with the source.              *)
LEMMA FoundBySource ==
  ASSUME NEW store, IsStore(store), NEW source, FindUnit(store, source) # 0
  PROVE  LET k == FindUnit(store, source)
         IN k \in Indexed(store) /\ k \in DOMAIN store /\ store[k].source = source
<1> DEFINE S == {k \in Indexed(store) : store[k].source = source}
<1>1. S \in SUBSET DOMAIN store /\ FindUnit(store, source) = FirstOf(S)
  BY DEF Indexed, FindUnit
<1>2. FirstOf(S) \in S
  BY <1>1, FirstAndLast
<1>3. QED
  BY <1>1, <1>2 DEF Indexed

LEMMA FoundByLocation ==
  ASSUME NEW store, IsStore(store), NEW place, FindLocation(store, place) # 0
  PROVE  FindLocation(store, place) \in DOMAIN store
<1> DEFINE S == {k \in Indexed(store) : place \in Range(store[k].locations)}
<1>1. S \in SUBSET DOMAIN store /\ FindLocation(store, place) = FirstOf(S)
  BY DEF Indexed, FindLocation
<1>2. QED
  BY <1>1, FirstAndLast
=============================================================================
