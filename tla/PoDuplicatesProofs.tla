------------------------- MODULE PoDuplicatesProofs --------------------------
(***************************************************************************)
(* Proofs about PoDuplicates: whatever units a converter has made, those   *)
(* of the result have ids of their own unless their places are to tell     *)
(* them apart and cannot, nothing found is lost and translations that      *)
(* agree survive.                                                          *)
(***************************************************************************)
EXTENDS PoDuplicates, Lemmas

-----------------------------------------------------------------------------
(* The state of the loop.                                                  *)

Looked == 1 .. next - 1
OwnId(p) == <<input[p].context, input[p].source>>
Plain(p) == IsHeader(input[p]) /\ input[p].locations = << >>
Alike(p, q) == OwnId(p) = OwnId(q)
First(p) == id_dict[OwnId(p)]
Bare(p) == OwnId(p) = EmptyId
Apart(p) == style = "msgctxt" \/ Bare(p)

(* Whether the loop has added a line to the context of a unit, and which.  *)
(* The first unit of an id gets it with its first duplicate.               *)
Marked(p) ==
  /\ ~Plain(p)
  /\ \/ Bare(p)
     \/ /\ style = "msgctxt"
        /\ \/ First(p) # p
           \/ input[p].context = << >> /\ \E q \in Looked : q # p /\ Alike(p, q)

Mark(p) == IF style = "merge" THEN Comment(input[p].locations) ELSE input[p].locations

ContextOf(p) == IF Marked(p) THEN Append(input[p].context, Mark(p)) ELSE input[p].context

(* A duplicate that the marks do not tell from the first unit of its id.   *)
Confused(p) == input[p].context = << >> /\ input[p].locations = input[First(p)].locations

(* The units whose positions are in unique. *)
Kept ==
  {p \in Looked : \/ Plain(p) \/ First(p) = p
                  \/ style = "merge" /\ Bare(p)
                  \/ style = "msgctxt" /\ ~Confused(p)}

PositionsInv ==
  /\ style \in DOMAIN Inputs /\ input \in Inputs[style]
  /\ next \in 1 .. Len(input) + 1

(* What the loop leaves of a unit, its context aside. *)
IsStill(u, p) ==
  /\ IsUnit(u) /\ u.source = input[p].source /\ u.obsolete = input[p].obsolete
  /\ Apart(p) => u.locations = input[p].locations /\ u.target = input[p].target

UnitsInv ==
  /\ IsSeq(units) /\ Len(units) = Len(input)
  /\ \A p \in 1 .. Len(input) : p >= next => units[p] = input[p]
  /\ \A p \in Looked : IsStill(units[p], p) /\ units[p].context = ContextOf(p)

FirstsInv ==
  /\ \A id \in DOMAIN id_dict :
       id_dict[id] \in Looked /\ ~Plain(id_dict[id]) /\ OwnId(id_dict[id]) = id
  /\ \A p \in Looked : ~Plain(p) => OwnId(p) \in DOMAIN id_dict /\ First(p) <= p

UniqueInv ==
  /\ unique \in Seq(Kept) /\ Len(unique) < next
  /\ \A i, j \in 1 .. Len(unique) : unique[i] = unique[j] => i = j
  /\ \A p \in Kept : \E i \in 1 .. Len(unique) : unique[i] = p

(* The first of the units that are merged has the places of all of them,   *)
(* and the translation on which they agree.                                *)
AgreeOn(p, t) ==
  \A q \in Looked : Alike(p, q) => ~IsFuzzy(input[q]) /\ input[q].target \in {NoText, t}

MergedAt(p) ==
  /\ IsSeq(units[p].locations)
  /\ Range(units[p].locations) = UNION {Range(input[q].locations) : q \in {q \in Looked : Alike(p, q)}}
  /\ (\A q \in Looked : Alike(p, q) => IsInjective(input[q].locations))
       => IsInjective(units[p].locations)
  /\ \A t \in {input[q].target : q \in 1 .. Len(input)} \ {NoText} : AgreeOn(p, t) =>
       /\ ~IsFuzzy(units[p]) /\ units[p].target \in {NoText, t}
       /\ units[p].target = t <=> \E q \in Looked : Alike(p, q) /\ input[q].target = t

MergedInv ==
  style = "merge" => \A p \in Looked : ~Plain(p) /\ ~Bare(p) /\ First(p) = p => MergedAt(p)

LoopInv == PositionsInv /\ UnitsInv /\ FirstsInv /\ UniqueInv /\ MergedInv

IndInv ==
  /\ done \in BOOLEAN
  /\ ~done => LoopInv
  /\ done => /\ next \in Nat /\ Len(units) \in Nat /\ next > Len(units)
             /\ ResultIsUnique /\ NothingIsLost /\ AgreedTranslationSurvives

-----------------------------------------------------------------------------
(* Sequences whose items are changed in place.                             *)

LEMMA ReplaceItem ==
  ASSUME NEW s, IsSeq(s), NEW k \in 1 .. Len(s), NEW x
  PROVE  LET r == [s EXCEPT ![k] = x]
         IN /\ IsSeq(r) /\ Len(r) = Len(s) /\ r[k] = x
            /\ \A j \in 1 .. Len(s) : j # k => r[j] = s[j]
<1> DEFINE r == [s EXCEPT ![k] = x]
           T == Range(s) \cup {x}
<1>1. s \in Seq(T) /\ x \in T
  BY DEF IsSeq
<1>2. r \in Seq(T) /\ Len(r) = Len(s) /\ r[k] = x /\ \A j \in 1 .. Len(s) : j # k => r[j] = s[j]
  <2> HIDE DEF T
  <2>1. QED
    BY <1>1
<1>3. IsSeq(r)
  <2> HIDE DEF r, T
  <2>1. \A j \in 1 .. Len(r) : r[j] \in Range(r)
    BY <1>2 DEF Range
  <2>2. QED
    BY <1>2, <2>1 DEF IsSeq
<1>4. QED
  BY <1>2, <1>3

LEMMA AppendToOne ==
  ASSUME NEW x, NEW y
  PROVE  Append(<<x>>, y) = <<x, y>> /\ Append(<< >>, y) = <<y>>
<1> DEFINE one == <<x>>
           two == <<x, y>>
<1>1. one \in Seq({x, y}) /\ Len(one) = 1 /\ one[1] = x
  OBVIOUS
<1>2. two \in Seq({x, y}) /\ Len(two) = 2 /\ two[1] = x /\ two[2] = y
  OBVIOUS
<1>3. Append(<< >>, y) = <<y>>
  OBVIOUS
<1> HIDE DEF one, two
<1>4. Append(one, y) = two
  <2> DEFINE both == Append(one, y)
             T == {x, y}
  <2>1. y \in T /\ one \in Seq(T) /\ two \in Seq(T)
    BY <1>1, <1>2
  <2> HIDE DEF T
  <2>2. /\ both \in Seq(T) /\ Len(both) = Len(one) + 1
        /\ \A i \in 1 .. Len(one) : both[i] = one[i]
        /\ both[Len(one) + 1] = y
    BY <2>1
  <2> HIDE DEF both
  <2>3. Len(both) = 2 /\ both[1] = x /\ both[2] = y
    BY <1>1, <2>2
  <2>4. both = two
    BY <1>2, <2>1, <2>2, <2>3
  <2>5. QED
    BY <2>4 DEF both
<1>5. QED
  BY <1>3, <1>4 DEF one, two

(* What getid says of the contexts that occur: none, the line a converter   *)
(* has set, and either with the line that has been added.                  *)
LEMMA SelectFromTwo ==
  ASSUME NEW x, NEW y, NEW set
  PROVE  /\ Select(<< >>, set) = << >>
         /\ Select(<<x>>, set) = IF x \in set THEN <<x>> ELSE << >>
         /\ x \in set => Select(<<x, y>>, set) = IF y \in set THEN <<x, y>> ELSE <<x>>
<1>1. Select(<< >>, set) = << >>
  <2> DEFINE none == << >>
  <2>1. none \in Seq({}) /\ Len(none) = 0
    OBVIOUS
  <2> HIDE DEF none
  <2>2. PICK f : SelectTurns(f, none, set) /\ Select(none, set) = f[0]
    BY <2>1, SelectTakesTurns
  <2>3. QED
    BY <2>2 DEF SelectTurns, none
<1>2. Select(<<x>>, set) = IF x \in set THEN <<x>> ELSE << >>
  <2> DEFINE one == <<x>>
  <2>1. one \in Seq({x}) /\ Len(one) = 1 /\ one[1] = x
    OBVIOUS
  <2> HIDE DEF one
  <2>2. PICK f : SelectTurns(f, one, set) /\ Select(one, set) = f[1]
    BY <2>1, SelectTakesTurns
  <2>3. f[0] = << >> /\ f[1] = IF x \in set THEN Append(f[0], x) ELSE f[0]
    <3>1. 1 \in 1 .. Len(one) /\ 1 - 1 = 0
      BY <2>1
    <3>2. QED
      BY <2>1, <2>2, <3>1 DEF SelectTurns
  <2>4. QED
    BY <2>2, <2>3 DEF one
<1>3. ASSUME x \in set PROVE Select(<<x, y>>, set) = IF y \in set THEN <<x, y>> ELSE <<x>>
  <2> DEFINE two == <<x, y>>
  <2>1. two \in Seq({x, y}) /\ Len(two) = 2 /\ two[1] = x /\ two[2] = y
    OBVIOUS
  <2> HIDE DEF two
  <2>2. PICK f : SelectTurns(f, two, set) /\ Select(two, set) = f[2]
    BY <2>1, SelectTakesTurns
  <2>3. /\ f[0] = << >> /\ f[1] = IF x \in set THEN Append(f[0], x) ELSE f[0]
        /\ f[2] = IF y \in set THEN Append(f[1], y) ELSE f[1]
    <3>1. 1 \in 1 .. Len(two) /\ 1 - 1 = 0 /\ 2 \in 1 .. Len(two) /\ 2 - 1 = 1
      BY <2>1
    <3>2. \A k \in 1 .. Len(two) :
            f[k] = IF two[k] \in set THEN Append(f[k - 1], two[k]) ELSE f[k - 1]
      BY <2>2 DEF SelectTurns
    <3>3. /\ f[1] = IF two[1] \in set THEN Append(f[1 - 1], two[1]) ELSE f[1 - 1]
          /\ f[2] = IF two[2] \in set THEN Append(f[2 - 1], two[2]) ELSE f[2 - 1]
      BY <3>1, <3>2
    <3>4. QED
      BY <2>1, <2>2, <3>1, <3>3 DEF SelectTurns
  <2>4. f[1] = <<x>>
    BY <1>3, <2>3
  <2>5. Append(<<x>>, y) = <<x, y>>
    BY AppendToOne
  <2>6. QED
    BY <2>2, <2>3, <2>4, <2>5 DEF two
<1>4. QED
  BY <1>1, <1>2, <1>3

(* A line without text leaves no trace. *)
Line(l) == IF l = << >> THEN << >> ELSE <<l>>

LEMMA MsgIds ==
  ASSUME NEW u
  PROVE  /\ u.context = << >> => MsgId(u) = << << >>, u.source>>
         /\ \A x : u.context = <<x>> => MsgId(u) = <<Line(x), u.source>>
         /\ \A x, y : u.context = <<x, y>> /\ x # << >> =>
              MsgId(u) = << IF y = << >> THEN <<x>> ELSE <<x, y>>, u.source >>
<1> DEFINE set == Range(u.context) \ {<< >>}
<1>1. ASSUME u.context = << >> PROVE MsgId(u) = << << >>, u.source>>
  BY <1>1, SelectFromTwo DEF MsgId
<1>2. ASSUME NEW x, u.context = <<x>> PROVE MsgId(u) = <<Line(x), u.source>>
  <2>1. x \in set <=> x # << >>
    BY <1>2 DEF Range
  <2> HIDE DEF set
  <2>2. Select(<<x>>, set) = Line(x)
    BY <2>1, SelectFromTwo DEF Line
  <2>3. QED
    BY <1>2, <2>2 DEF MsgId, set
<1>3. ASSUME NEW x, NEW y, u.context = <<x, y>>, x # << >>
      PROVE  MsgId(u) = << IF y = << >> THEN <<x>> ELSE <<x, y>>, u.source >>
  <2>1. x \in set /\ (y \in set <=> y # << >>)
    <3> PICK c : c = <<x, y>>
      OBVIOUS
    <3>1. DOMAIN c = {1, 2} /\ c[1] = x /\ c[2] = y
      OBVIOUS
    <3>2. Range(c) = {x, y}
      BY <3>1 DEF Range
    <3>3. QED
      BY <1>3, <3>2
  <2> HIDE DEF set
  <2>2. Select(<<x, y>>, set) = IF y = << >> THEN <<x>> ELSE <<x, y>>
    BY <2>1, SelectFromTwo
  <2>3. QED
    BY <1>3, <2>2 DEF MsgId, set
<1>4. QED
  BY <1>1, <1>2, <1>3

(* A comment is a line of text, which tells the places it names.           *)
LEMMA Comments ==
  /\ \A l : Comment(l) # << >>
  /\ \A l, m : Comment(l) = Comment(m) => l = m
BY DEF Comment

LEMMA InputUnits ==
  ASSUME ConvertedFiles, PositionsInv
  PROVE  /\ IsSeq(input) /\ Len(input) \in Nat /\ style \in {"merge", "msgctxt"}
         /\ \A p \in 1 .. Len(input) :
              /\ IsConverted(input[p]) /\ IsStill(input[p], p) /\ ~input[p].obsolete
              /\ \/ input[p].context = << >>
                 \/ \E line : input[p].context = <<line>> /\ line # << >>
              /\ MsgId(input[p]) = OwnId(p)
              /\ ToldApart(input[p]) <=> Apart(p)
              /\ Plain(p) => Bare(p)
              /\ Bare(p) <=> input[p].context = << >> /\ input[p].source = NoText
         /\ \A p, q \in 1 .. Len(input) : input[p].context # <<Comment(input[q].locations)>>
<1>1. /\ IsSeq(input) /\ \A p \in 1 .. Len(input) : IsConverted(input[p])
      /\ \A p, q \in 1 .. Len(input) : input[p].context # <<Comment(input[q].locations)>>
      /\ style \in {"merge", "msgctxt"}
  BY InputsAssumption DEF ConvertedFiles, PositionsInv
<1>2. Len(input) \in Nat
  BY <1>1 DEF IsSeq
<1>3. ASSUME NEW p \in 1 .. Len(input)
      PROVE  \/ input[p].context = << >>
             \/ \E line : input[p].context = <<line>> /\ line # << >>
  BY <1>1, NoContextAssumption DEF IsConverted
<1>4. ASSUME NEW p \in 1 .. Len(input) PROVE MsgId(input[p]) = OwnId(p)
  <2>1. CASE input[p].context = << >>
    BY <2>1, MsgIds DEF OwnId
  <2>2. ASSUME NEW line, input[p].context = <<line>>, line # << >> PROVE MsgId(input[p]) = OwnId(p)
    BY <2>2, MsgIds DEF OwnId, Line
  <2>3. QED
    BY <1>3, <2>1, <2>2
<1>5. ASSUME NEW p \in 1 .. Len(input) PROVE ToldApart(input[p]) <=> Apart(p)
  BY <1>4 DEF ToldApart, Apart, Bare
<1>6. ASSUME NEW p \in 1 .. Len(input)
      PROVE  Bare(p) <=> input[p].context = << >> /\ input[p].source = NoText
  BY DEF Bare, OwnId, EmptyId
<1>7. ASSUME NEW p \in 1 .. Len(input), Plain(p) PROVE Bare(p)
  BY <1>6, <1>7, NoContextAssumption DEF Plain, IsHeader
<1>8. ASSUME NEW p \in 1 .. Len(input) PROVE IsStill(input[p], p) /\ ~input[p].obsolete
  BY <1>1 DEF IsConverted, IsStill
<1>9. QED
  BY <1>1, <1>2, <1>3, <1>4, <1>5, <1>6, <1>7, <1>8

(* The unit the loop is at is still as the converter left it. *)
LEMMA AtNext ==
  ASSUME ConvertedFiles, PositionsInv, UnitsInv, FirstsInv, next <= Len(units)
  PROVE  /\ next \in 1 .. Len(input) /\ next \notin Looked /\ Looked \subseteq 1 .. Len(input)
         /\ Current = input[next] /\ units[next] = input[next] /\ IsUnit(Current)
         /\ MsgId(Current) = OwnId(next)
         /\ MsgId(Current) = EmptyId <=> Bare(next)
         /\ IsPlainHeader <=> Plain(next)
         /\ Seen <=> \E q \in Looked : ~Plain(q) /\ Alike(next, q)
<1>1. /\ next \in 1 .. Len(input) /\ next \notin Looked /\ Looked \subseteq 1 .. Len(input)
  BY InputUnits DEF PositionsInv, UnitsInv, Looked
<1>2. Current = input[next] /\ units[next] = input[next] /\ IsUnit(Current)
  BY <1>1, InputUnits DEF UnitsInv, Current, IsStill
<1>3. MsgId(Current) = OwnId(next)
  BY <1>1, <1>2, InputUnits
<1>4. MsgId(Current) = EmptyId <=> Bare(next)
  BY <1>3 DEF Bare
<1>5. IsPlainHeader <=> Plain(next)
  BY <1>2 DEF IsPlainHeader, Plain
<1>6. ASSUME Seen PROVE \E q \in Looked : ~Plain(q) /\ Alike(next, q)
  <2> DEFINE q == id_dict[MsgId(Current)]
  <2>1. q \in Looked /\ ~Plain(q) /\ OwnId(q) = MsgId(Current)
    BY <1>6 DEF FirstsInv, Seen
  <2>2. QED
    BY <1>3, <2>1 DEF Alike
<1>7. ASSUME NEW q \in Looked, ~Plain(q), Alike(next, q) PROVE Seen
  BY <1>3, <1>7 DEF FirstsInv, Seen, Alike
<1>8. QED
  BY <1>1, <1>2, <1>3, <1>4, <1>5, <1>6, <1>7

LEMMA Advances ==
  ASSUME PositionsInv, next \in 1 .. Len(input), Advance, Len(input) \in Nat
  PROVE  /\ PositionsInv' /\ Looked' = Looked \cup {next}
         /\ input' = input /\ style' = style /\ next' = next + 1 /\ next \in Nat
         /\ \A p \in Looked : p < next
BY DEF PositionsInv, Advance, Looked

(* What is said of the input alone stays so. *)
LEMMA InputStays ==
  ASSUME input' = input, style' = style
  PROVE  \A p : /\ OwnId(p)' = OwnId(p) /\ (Plain(p)' <=> Plain(p)) /\ (Bare(p)' <=> Bare(p))
               /\ (Apart(p)' <=> Apart(p)) /\ Mark(p)' = Mark(p)
               /\ \A q : Alike(p, q)' <=> Alike(p, q)
               /\ \A u : IsStill(u, p)' <=> IsStill(u, p)
BY DEF OwnId, Plain, Bare, Apart, Mark, Alike, IsStill

-----------------------------------------------------------------------------
(* What a turn does to the parts of the invariant it does not aim at.      *)

(* The unit at the loop's position is kept, or another stands for it.      *)
LEMMA UniqueStep ==
  ASSUME PositionsInv, UniqueInv, Advance,
         \/ Keep /\ Kept' = Kept \cup {next}
         \/ unique' = unique /\ Kept' = Kept
  PROVE  UniqueInv'
<1>1. next \in Nat /\ next' = next + 1 /\ \A p \in Kept : p # next
  BY DEF PositionsInv, Advance, Kept, Looked
<1>2. CASE unique' = unique /\ Kept' = Kept
  BY <1>1, <1>2 DEF UniqueInv
<1>3. CASE Keep /\ Kept' = Kept \cup {next}
  <2>1. unique \in Seq(Kept')
    BY <1>3 DEF UniqueInv
  <2>2. /\ unique' \in Seq(Kept') /\ Len(unique') = Len(unique) + 1 /\ Len(unique) \in Nat
        /\ \A i \in 1 .. Len(unique) : unique'[i] = unique[i]
        /\ unique'[Len(unique')] = next
    <3> HIDE DEF Kept
    <3>1. next \in Kept' /\ unique' = Append(unique, next)
      BY <1>3 DEF Keep
    <3>2. QED
      BY <2>1, <3>1
  <2>3. 1 .. Len(unique') = (1 .. Len(unique)) \cup {Len(unique')}
    BY <2>2
  <2>4. \A i \in 1 .. Len(unique) : unique[i] \in Kept
    BY DEF UniqueInv
  <2>5. \A i, j \in 1 .. Len(unique') : unique'[i] = unique'[j] => i = j
    BY <1>1, <2>2, <2>3, <2>4 DEF UniqueInv
  <2>6. \A p \in Kept' : \E i \in 1 .. Len(unique') : unique'[i] = p
    <3>1. \A p \in Kept : \E i \in 1 .. Len(unique') : unique'[i] = p
      BY <2>2, <2>3 DEF UniqueInv
    <3>2. \E i \in 1 .. Len(unique') : unique'[i] = next
      BY <2>2
    <3>3. QED
      BY <1>3, <3>1, <3>2
  <2>7. Len(unique') < next'
    BY <1>1, <2>2 DEF UniqueInv
  <2>8. QED
    BY <2>2, <2>5, <2>6, <2>7 DEF UniqueInv
<1>4. QED
  BY <1>2, <1>3

(* The units of the turns before are kept or not as they were.             *)
LEMMA KeptStep ==
  ASSUME input' = input, style' = style, NEW n, n \notin Looked, Looked' = Looked \cup {n},
         \A p \in Looked : ~Plain(p) => First(p)' = First(p)
  PROVE  /\ n \in Kept' => Kept' = Kept \cup {n}
         /\ n \notin Kept' => Kept' = Kept
<1>1. ASSUME NEW p \in Looked PROVE p \in Kept' <=> p \in Kept
  <2>1. p \in Looked'
    OBVIOUS
  <2>2. (Plain(p)' <=> Plain(p)) /\ (Bare(p)' <=> Bare(p))
    BY InputStays
  <2>3. CASE Plain(p)
    BY <2>1, <2>2, <2>3 DEF Kept
  <2>4. CASE ~Plain(p)
    <3>1. First(p)' = First(p) /\ (Confused(p)' <=> Confused(p))
      BY <2>4 DEF Confused
    <3>2. QED
      BY <2>1, <2>2, <3>1 DEF Kept
  <2>5. QED
    BY <2>3, <2>4
<1>2. Kept \subseteq Looked /\ Kept' \subseteq Looked'
  BY DEF Kept
<1> HIDE DEF Kept, Looked
<1>3. QED
  BY <1>1, <1>2

(* The firsts stay those they are, if the unit is plain or not the first.  *)
LEMMA FirstsStep ==
  ASSUME ConvertedFiles, PositionsInv, UnitsInv, FirstsInv, next <= Len(units),
         Advance, UNCHANGED id_dict, Plain(next) \/ Seen
  PROVE  FirstsInv' /\ \A p : First(p)' = First(p)
<1>1. /\ Looked' = Looked \cup {next} /\ input' = input /\ style' = style
      /\ next \in Nat /\ (\A p \in Looked : p < next) /\ MsgId(Current) = OwnId(next)
  BY AtNext, Advances, InputUnits
<1>2. ASSUME NEW p PROVE First(p)' = First(p) /\ OwnId(p)' = OwnId(p) /\ (Plain(p)' <=> Plain(p))
  BY <1>1, InputStays DEF First
<1>3. ASSUME ~Plain(next) PROVE OwnId(next) \in DOMAIN id_dict /\ First(next) <= next
  <2>1. OwnId(next) \in DOMAIN id_dict
    BY <1>1, <1>3 DEF Seen
  <2>2. First(next) \in Looked
    BY <2>1 DEF FirstsInv, First
  <2>3. QED
    BY <1>1, <2>1, <2>2 DEF Looked
<1>4. \A id \in DOMAIN id_dict :
        id_dict[id] \in Looked' /\ ~Plain(id_dict[id]) /\ OwnId(id_dict[id]) = id
  BY <1>1 DEF FirstsInv
<1>5. \A p \in Looked' : ~Plain(p) => OwnId(p) \in DOMAIN id_dict /\ First(p) <= p
  BY <1>1, <1>3 DEF FirstsInv
<1>6. id_dict' = id_dict
  OBVIOUS
<1> HIDE DEF First, OwnId, Plain, Looked
<1>7. QED
  BY <1>2, <1>4, <1>5, <1>6 DEF FirstsInv

(* The first unit of the id of one that has been seen.                     *)
LEMMA FirstOfId ==
  ASSUME FirstsInv, NEW p, OwnId(p) \in DOMAIN id_dict
  PROVE  \A f : f = First(p) => f \in Looked /\ ~Plain(f) /\ Alike(f, p) /\ First(f) = f
<1> SUFFICES ASSUME NEW f, f = First(p)
             PROVE  f \in Looked /\ ~Plain(f) /\ Alike(f, p) /\ First(f) = f
  OBVIOUS
<1>1. f \in Looked /\ ~Plain(f) /\ OwnId(f) = OwnId(p)
  BY DEF FirstsInv, First
<1>2. First(f) = f
  BY <1>1 DEF First
<1>3. QED
  BY <1>1, <1>2 DEF Alike

(* A unit that does not share the id of the next one has been merged with  *)
(* all its likes before.                                                   *)
LEMMA MergedStep ==
  ASSUME PositionsInv, MergedInv, Advance, Looked' = Looked \cup {next},
         NEW p \in Looked, style = "merge", ~Plain(p), ~Bare(p), First(p) = p,
         units'[p] = units[p], ~Alike(p, next)
  PROVE  MergedAt(p)'
<1>1. input' = input /\ \A q : Alike(p, q)' <=> Alike(p, q)
  BY DEF Advance, Alike, OwnId
<1>2. {q \in Looked' : Alike(p, q)'} = {q \in Looked : Alike(p, q)}
  BY <1>1
<1>3. ASSUME NEW t PROVE AgreeOn(p, t)' <=> AgreeOn(p, t)
  BY <1>1 DEF AgreeOn
<1>4. ASSUME NEW t
      PROVE (\E q \in Looked' : Alike(p, q)' /\ input'[q].target = t)
              <=> \E q \in Looked : Alike(p, q) /\ input[q].target = t
  BY <1>1
<1>5. (\A q \in Looked' : Alike(p, q)' => IsInjective(input'[q].locations))
        <=> \A q \in Looked : Alike(p, q) => IsInjective(input[q].locations)
  BY <1>1
<1>6. MergedAt(p)
  BY DEF MergedInv
<1> HIDE DEF AgreeOn, Alike, Looked, MergedInv, IsFuzzy, IsInjective
<1>7. QED
  BY <1>1, <1>2, <1>3, <1>4, <1>5, <1>6 DEF MergedAt, IsFuzzy, HasTypeComment, IsInjective

(* The others are as they were. *)
LEMMA OthersMerged ==
  ASSUME PositionsInv, MergedInv, Advance, Looked' = Looked \cup {next},
         NEW n, n = next, NEW kept, \A p \in Looked \ {kept} : units'[p] = units[p],
         \A p \in Looked : ~Plain(p) => First(p)' = First(p),
         style = "merge" =>
           /\ \A p \in Looked : ~Plain(p) /\ ~Bare(p) /\ First(p) = p /\ p # kept => ~Alike(p, n)
           /\ ~Bare(kept) => MergedAt(kept)'
           /\ ~Plain(n) /\ ~Bare(n) /\ First(n)' = n => kept = n
  PROVE  MergedInv'
<1> SUFFICES ASSUME style' = "merge",
                    NEW p \in Looked', ~Plain(p)', ~Bare(p)', First(p)' = p
             PROVE  MergedAt(p)'
  BY DEF MergedInv
<1>1. style = "merge" /\ ~Plain(p) /\ ~Bare(p)
  BY InputStays DEF Advance
<1>2. CASE p = kept
  BY <1>1, <1>2
<1>3. CASE p # kept
  <2>1. p \in Looked /\ First(p) = p
    <3>1. p # n
      BY <1>1, <1>3
    <3>2. QED
      BY <1>1, <3>1
  <2>2. ~Alike(p, next) /\ units'[p] = units[p]
    BY <1>1, <1>3, <2>1
  <2>3. QED
    BY <1>1, <2>1, <2>2, MergedStep
<1>4. QED
  BY <1>2, <1>3

(* A turn changes no unit it has not reached. *)
LEMMA UnitsStep ==
  ASSUME PositionsInv, UnitsInv, Advance, Looked' = Looked \cup {next},
         IsSeq(units'), Len(units') = Len(units),
         \A p \in (1 .. Len(input)) \ Looked' : units'[p] = units[p],
         \A p \in Looked' : IsStill(units'[p], p) /\ units'[p].context = ContextOf(p)'
  PROVE  UnitsInv'
<1>1. next' = next + 1 /\ next \in Nat /\ input' = input /\ style' = style
  BY DEF Advance, PositionsInv
<1>2. \A p \in (1 .. Len(input)) \ Looked' : p >= next /\ units'[p] = input[p]
  BY <1>1 DEF UnitsInv, Looked
<1>3. \A p \in 1 .. Len(input) : p >= next' => units'[p] = input[p]
  BY <1>1, <1>2 DEF Looked
<1>4. \A p \in Looked' : IsStill(units[p], p)' /\ units'[p].context = ContextOf(p)'
  <2>1. ASSUME NEW p \in Looked' PROVE IsStill(units[p], p)'
    <3> PICK u : u = units'[p]
      OBVIOUS
    <3>1. IsStill(u, p)
      OBVIOUS
    <3>2. IsStill(u, p)'
      BY <1>1, <3>1 DEF IsStill, Apart, Bare, OwnId
    <3>3. QED
      BY <3>2
  <2>2. QED
    BY <2>1
<1>5. IsSeq(units)' /\ Len(units') = Len(input')
  BY <1>1 DEF UnitsInv, IsSeq
<1>6. QED
  BY <1>1, <1>3, <1>4, <1>5 DEF UnitsInv

(* A mark is added at the unit's own turn, or with its first duplicate.    *)
LEMMA ContextStays ==
  ASSUME input' = input, style' = style, NEW n, Looked' = Looked \cup {n}, NEW p \in Looked,
         ~Plain(p) => First(p)' = First(p),
         Alike(p, n) => style # "msgctxt" \/ Bare(p) \/ Marked(p) \/ input[p].context # << >>
  PROVE  ContextOf(p)' = ContextOf(p)
<1>1. /\ (Plain(p)' <=> Plain(p)) /\ (Bare(p)' <=> Bare(p)) /\ Mark(p)' = Mark(p)
      /\ \A q : Alike(p, q)' <=> Alike(p, q)
  BY DEF Plain, Bare, Mark, Alike, OwnId
<1>2. Marked(p)' <=> Marked(p)
  <2>1. CASE Plain(p)
    BY <1>1, <2>1 DEF Marked
  <2>2. CASE ~Plain(p)
    <3>1. First(p)' = First(p)
      BY <2>2
    <3>2. QED
      BY <1>1, <3>1 DEF Marked
  <2>3. QED
    BY <2>1, <2>2
<1>3. QED
  BY <1>1, <1>2 DEF ContextOf

(* The code appends a line to the context and touches nothing else.        *)
LEMMA AppendIs ==
  ASSUME NEW u, IsUnit(u)
  PROVE  /\ Differs(u, AppendContext(u), {"context"})
         /\ AppendContext(u).context = Append(u.context, u.locations)
         /\ Differs(u, AddComment(u), {"context"})
         /\ AddComment(u).context = Append(u.context, Comment(u.locations))
<1> DEFINE w(c) == [u EXCEPT !.context = c]
<1>1. ASSUME NEW c PROVE Differs(u, w(c), {"context"}) /\ w(c).context = c
  BY FieldsOfAUnit DEF Differs, IsUnit
<1>2. /\ AppendContext(u) = w(Append(u.context, u.locations))
      /\ AddComment(u) = w(Append(u.context, Comment(u.locations)))
  BY DEF AppendContext, AddComment
<1> HIDE DEF w
<1>3. QED
  BY <1>1, <1>2

LEMMA StillMarked ==
  ASSUME NEW p, NEW u, IsStill(u, p)
  PROVE  IsStill(AppendContext(u), p) /\ IsStill(AddComment(u), p)
<1>1. ASSUME NEW w, Differs(u, w, {"context"}) PROVE IsStill(w, p)
  BY <1>1, FieldsOfAUnit DEF IsStill, Differs
<1>2. QED
  BY <1>1, AppendIs DEF IsStill

(* A header is kept as it is. *)
LEMMA KeepHeaderStep ==
  ASSUME ConvertedFiles, LoopInv, KeepHeader
  PROVE  LoopInv'
<1> USE DEF LoopInv
<1> PICK n : n = next
  OBVIOUS
<1>1. /\ n \in 1 .. Len(input) /\ n \notin Looked /\ Plain(n) /\ Bare(n)
      /\ units[n] = input[n] /\ input[n].context = << >>
  BY AtNext, InputUnits DEF KeepHeader
<1>2. /\ PositionsInv' /\ Looked' = Looked \cup {n}
      /\ input' = input /\ style' = style /\ next' = next + 1 /\ next \in Nat
  BY <1>1, Advances, InputUnits DEF KeepHeader
<1>3. FirstsInv' /\ \A p : First(p)' = First(p)
  BY <1>1, FirstsStep DEF KeepHeader
<1>4. units' = units
  BY DEF KeepHeader
<1>5. UnitsInv'
  <2>1. ASSUME NEW p \in Looked PROVE ContextOf(p)' = ContextOf(p)
    <3>1. Alike(p, n) => Bare(p)
      BY <1>1 DEF Alike, Bare
    <3>2. QED
      BY <1>2, <1>3, <3>1, ContextStays
  <2>2. ContextOf(n)' = << >>
    BY <1>1, <1>2 DEF ContextOf, Marked, Plain
  <2>3. \A p \in Looked' : IsStill(units'[p], p) /\ units'[p].context = ContextOf(p)'
    <3>1. \A p \in Looked : IsStill(units[p], p) /\ units[p].context = ContextOf(p)'
      BY <2>1 DEF UnitsInv
    <3>2. IsStill(units[n], n) /\ units[n].context = << >>
      BY <1>1, InputUnits
    <3>3. QED
      BY <1>2, <1>4, <2>2, <3>1, <3>2
  <2>4. IsSeq(units') /\ Len(units') = Len(units)
    BY <1>4 DEF UnitsInv
  <2> HIDE DEF LoopInv
  <2>5. QED
    BY <1>2, <1>4, <2>3, <2>4, UnitsStep DEF KeepHeader, LoopInv
<1>6. UniqueInv'
  <2>1. n \in Kept'
    BY <1>1, <1>2 DEF Kept, Plain
  <2>2. Kept' = Kept \cup {n}
    BY <1>1, <1>2, <1>3, <2>1, KeptStep
  <2>3. QED
    BY <2>2, UniqueStep DEF KeepHeader
<1>7. MergedInv'
  <2>1. \A p \in Looked : ~Bare(p) => ~Alike(p, n)
    BY <1>1 DEF Alike, Bare
  <2> HIDE DEF LoopInv
  <2>2. QED
    BY <1>1, <1>2, <1>3, <1>4, <2>1, OthersMerged DEF KeepHeader, LoopInv
<1>8. QED
  BY <1>2, <1>3, <1>5, <1>6, <1>7

(* The first unit of an id is kept; without a source and a context it is   *)
(* marked.                                                                 *)
LEMMA KeepFirstStep ==
  ASSUME ConvertedFiles, LoopInv, KeepFirst
  PROVE  LoopInv'
<1> USE DEF LoopInv
<1> PICK n : n = next
  OBVIOUS
<1> PICK marked : marked = IF style = "merge" THEN AddComment(input[n]) ELSE AppendContext(input[n])
  OBVIOUS
<1>1. /\ n \in 1 .. Len(input) /\ n \notin Looked /\ Looked \subseteq 1 .. Len(input)
      /\ ~Plain(n) /\ units[n] = input[n] /\ IsStill(input[n], n)
      /\ \A q \in Looked : ~Plain(q) => ~Alike(n, q)
      /\ MsgId(Current) = OwnId(n)
      /\ MsgId(Current) = EmptyId <=> Bare(n)
  BY AtNext, InputUnits DEF KeepFirst
<1>2. /\ PositionsInv' /\ Looked' = Looked \cup {n} /\ (\A p \in Looked : p < n)
      /\ input' = input /\ style' = style /\ next' = next + 1 /\ next \in Nat
  BY <1>1, Advances, InputUnits DEF KeepFirst
<1>3. /\ IsSeq(units') /\ Len(units') = Len(units)
      /\ \A p \in 1 .. Len(input) : p # n => units'[p] = units[p]
      /\ units'[n] = IF Bare(n) THEN marked ELSE input[n]
  <2>1. units' = IF Bare(n) THEN [units EXCEPT ![n] = marked] ELSE units
    BY <1>1 DEF KeepFirst, Current
  <2>2. IsSeq(units) /\ Len(units) = Len(input)
    BY DEF UnitsInv
  <2>3. CASE Bare(n)
    <3> DEFINE r == [units EXCEPT ![n] = marked]
    <3>1. units' = r
      BY <2>1, <2>3
    <3>2. n \in 1 .. Len(units)
      BY <1>1, <2>2
    <3>3. /\ IsSeq(r) /\ Len(r) = Len(units) /\ r[n] = marked
          /\ \A p \in 1 .. Len(units) : p # n => r[p] = units[p]
      BY <2>2, <3>2, ReplaceItem, SMTT(30)
    <3> HIDE DEF r, LoopInv
    <3>4. QED
      BY <2>2, <2>3, <3>1, <3>3
  <2>4. CASE ~Bare(n)
    BY <1>1, <2>1, <2>2, <2>4
  <2>5. QED
    BY <2>3, <2>4
<1>4. FirstsInv' /\ (\A p \in Looked : ~Plain(p) => First(p)' = First(p)) /\ First(n)' = n
  <2>1. id_dict' = [id \in DOMAIN id_dict \cup {OwnId(n)} |->
                      IF id \in DOMAIN id_dict THEN id_dict[id] ELSE n]
    BY <1>1 DEF KeepFirst
  <2>2. OwnId(n) \notin DOMAIN id_dict
    BY <1>1 DEF KeepFirst, Seen
  <2>3. \A id \in DOMAIN id_dict' :
          id_dict'[id] \in Looked' /\ ~Plain(id_dict'[id]) /\ OwnId(id_dict'[id]) = id
    BY <1>1, <1>2, <2>1 DEF FirstsInv
  <2>4. \A p : OwnId(p)' = OwnId(p) /\ (Plain(p)' <=> Plain(p))
    BY <1>2, InputStays
  <2>5. ASSUME NEW p \in Looked, ~Plain(p) PROVE First(p)' = First(p) /\ OwnId(p) \in DOMAIN id_dict
    BY <1>2, <2>1, <2>4, <2>5 DEF First, FirstsInv
  <2>6. First(n)' = n
    BY <2>1, <2>2, <2>4 DEF First
  <2>7. \A p \in Looked' : ~Plain(p) => OwnId(p) \in DOMAIN id_dict' /\ First(p)' <= p
    <3>1. \A p \in Looked : ~Plain(p) => OwnId(p) \in DOMAIN id_dict' /\ First(p)' <= p
      BY <2>1, <2>5 DEF FirstsInv
    <3>2. OwnId(n) \in DOMAIN id_dict' /\ First(n)' <= n
      BY <1>2, <2>1, <2>6
    <3>3. QED
      BY <1>2, <3>1, <3>2
  <2> HIDE DEF LoopInv, First, Plain, OwnId, Looked
  <2>8. FirstsInv'
    BY <1>2, <2>3, <2>4, <2>7 DEF FirstsInv
  <2>9. QED
    BY <2>5, <2>6, <2>8
<1>5. UnitsInv'
  <2>1. ASSUME NEW p \in Looked PROVE ContextOf(p)' = ContextOf(p)
    <3>1. Alike(p, n) => Plain(p)
      BY <1>1 DEF Alike
    <3>2. Plain(p) => Bare(p)
      BY <1>1, InputUnits
    <3>3. QED
      BY <1>2, <1>4, <3>1, <3>2, ContextStays
  <2>2. ContextOf(n)' = IF Bare(n) THEN Append(input[n].context, Mark(n)) ELSE input[n].context
    <3>1. \A q \in Looked : Alike(n, q) => Bare(n)
      BY <1>1, InputUnits DEF Alike, Bare
    <3>2. Marked(n)' <=> Bare(n)
      BY <1>1, <1>2, <1>4, <3>1, InputStays DEF Marked
    <3>3. Mark(n)' = Mark(n)
      BY <1>2, InputStays
    <3>4. QED
      BY <1>2, <3>2, <3>3 DEF ContextOf
  <2>3. IsStill(units'[n], n) /\ units'[n].context = ContextOf(n)'
    <3>1. IsStill(marked, n)
      BY <1>1, StillMarked
    <3>2. marked.context = Append(input[n].context, Mark(n))
      BY <1>1, AppendIs DEF Mark, IsStill
    <3>3. QED
      BY <1>1, <1>3, <2>2, <3>1, <3>2
  <2>4. \A p \in Looked : IsStill(units'[p], p) /\ units'[p].context = ContextOf(p)'
    BY <1>1, <1>3, <2>1 DEF UnitsInv
  <2>5. \A p \in (1 .. Len(input)) \ Looked' : units'[p] = units[p]
    BY <1>2, <1>3
  <2> HIDE DEF LoopInv
  <2>6. QED
    BY <1>2, <1>3, <2>3, <2>4, <2>5, UnitsStep DEF KeepFirst, LoopInv
<1>6. UniqueInv'
  <2>1. n \in Kept'
    BY <1>2, <1>4 DEF Kept
  <2>2. Kept' = Kept \cup {n}
    BY <1>1, <1>2, <1>4, <2>1, KeptStep
  <2>3. QED
    BY <2>2, UniqueStep DEF KeepFirst
<1>7. ASSUME style = "merge", ~Bare(n) PROVE MergedAt(n)'
  <2>1. \A q \in Looked : ~Alike(n, q)
    BY <1>1, <1>7, InputUnits DEF Alike, Bare
  <2>2. \A q \in Looked' : Alike(n, q) <=> q = n
    BY <1>2, <2>1 DEF Alike
  <2>3. {q \in Looked' : Alike(n, q)} = {n}
    BY <1>2, <2>2
  <2>4. units'[n] = input[n] /\ IsSeq(input[n].locations)
    BY <1>1, <1>3, <1>7, InputUnits DEF IsConverted
  <2>5. QED
    BY <1>2, <2>2, <2>3, <2>4 DEF MergedAt, AgreeOn, Alike, OwnId, IsFuzzy, HasTypeComment
<1>8. MergedInv'
  <2>1. \A p \in Looked : ~Plain(p) => ~Alike(p, n)
    BY <1>1 DEF Alike
  <2>2. \A p \in Looked \ {n} : units'[p] = units[p]
    BY <1>1, <1>3
  <2> HIDE DEF LoopInv
  <2>3. QED
    BY <1>2, <1>4, <1>7, <2>1, <2>2, OthersMerged DEF KeepFirst, LoopInv
<1>9. QED
  BY <1>2, <1>4, <1>5, <1>6, <1>8

-----------------------------------------------------------------------------
(* Merging a unit into the first one with its id.                          *)

(* The places of both, each once if it was. *)
LEMMA LocationsMerge ==
  ASSUME NEW l1, IsSeq(l1), NEW l2, IsSeq(l2)
  PROVE  LET m == MergeLocations(l1, l2)
         IN /\ IsSeq(m) /\ Range(m) = Range(l1) \cup Range(l2)
            /\ IsInjective(l1) /\ IsInjective(l2) => IsInjective(m)
<1> DEFINE set == Range(l2) \ Range(l1)
           added == Select(l2, set)
           T == Range(l1) \cup Range(l2)
           m == MergeLocations(l1, l2)
<1>1. l1 \in Seq(T) /\ l2 \in Seq(T)
  BY DEF IsSeq
<1>2. SelectsFirst(added, l2, Len(l2), set, T)
  <2> HIDE DEF set, T
  <2>1. QED
    BY <1>1, SelectSelects
<1>3. added \in Seq(T) /\ m = l1 \o added
  BY <1>2 DEF SelectsFirst, MergeLocations
<1>4. \A x \in T : (\E i \in 1 .. Len(added) : added[i] = x) <=> x \in set
  <2>1. \A x \in Range(l2) : \E k \in 1 .. Len(l2) : l2[k] = x
    BY <1>1 DEF Range
  <2> HIDE DEF T, added
  <2>2. QED
    BY <1>2, <2>1 DEF SelectsFirst
<1>5. IsInjective(l2) => \A i, j \in 1 .. Len(added) : i < j => added[i] # added[j]
  <2> SUFFICES ASSUME IsInjective(l2), NEW i \in 1 .. Len(added), NEW j \in 1 .. Len(added), i < j
               PROVE  added[i] # added[j]
    OBVIOUS
  <2>1. PICK k \in 1 .. Len(l2), l \in 1 .. Len(l2) :
          k < l /\ l2[k] = added[i] /\ l2[l] = added[j]
    <3> HIDE DEF added, set, T
    <3>1. QED
      BY <1>2 DEF SelectsFirst
  <2>2. k \in DOMAIN l2 /\ l \in DOMAIN l2 /\ k # l
    BY <1>1, <2>1
  <2>3. l2[k] # l2[l]
    BY <2>2 DEF IsInjective
  <2>4. QED
    BY <2>1, <2>3
<1> HIDE DEF added, m
<1>6. /\ m \in Seq(T) /\ Len(m) = Len(l1) + Len(added) /\ Len(l1) \in Nat /\ Len(added) \in Nat
      /\ \A i \in 1 .. Len(l1) : m[i] = l1[i]
      /\ \A i \in 1 .. Len(added) : m[Len(l1) + i] = added[i]
      /\ \A i \in 1 .. Len(m) : i \in 1 .. Len(l1) \/ i - Len(l1) \in 1 .. Len(added)
  <2> HIDE DEF T
  <2>1. QED
    BY <1>1, <1>3
<1>7. \A i \in 1 .. Len(l1) : l1[i] \in Range(l1)
  BY <1>1 DEF Range
<1>8. \A i \in 1 .. Len(added) : added[i] \in set /\ added[i] \in T
  <2> HIDE DEF T, set
  <2>1. QED
    BY <1>3, <1>4
<1>9. \A i \in 1 .. Len(m) : \/ i \in 1 .. Len(l1) /\ m[i] = l1[i] /\ m[i] \in Range(l1)
                             \/ /\ i \notin 1 .. Len(l1) /\ i - Len(l1) \in 1 .. Len(added)
                                /\ m[i] = added[i - Len(l1)] /\ m[i] \in set
  <2> HIDE DEF T, set
  <2> SUFFICES ASSUME NEW i \in 1 .. Len(m), i \notin 1 .. Len(l1)
               PROVE  i - Len(l1) \in 1 .. Len(added) /\ m[i] = added[i - Len(l1)] /\ m[i] \in set
    BY <1>6, <1>7
  <2>1. i - Len(l1) \in 1 .. Len(added) /\ i = Len(l1) + (i - Len(l1))
    BY <1>6
  <2>2. m[i] = added[i - Len(l1)]
    BY <1>6, <2>1
  <2>3. QED
    BY <1>8, <2>1, <2>2
<1>10. IsInjective(l1) /\ IsInjective(l2) => \A i, j \in 1 .. Len(m) : m[i] = m[j] => i = j
  <2> SUFFICES ASSUME IsInjective(l1), IsInjective(l2), NEW i \in 1 .. Len(m), NEW j \in 1 .. Len(m), m[i] = m[j]
               PROVE  i = j
    OBVIOUS
  <2>1. CASE i \in 1 .. Len(l1) /\ j \in 1 .. Len(l1)
    <3>1. i \in DOMAIN l1 /\ j \in DOMAIN l1 /\ l1[i] = l1[j]
      BY <1>1, <1>6, <2>1
    <3>2. QED
      BY <3>1 DEF IsInjective
  <2>2. CASE i \notin 1 .. Len(l1) /\ j \notin 1 .. Len(l1)
    <3> DEFINE a == i - Len(l1)
               b == j - Len(l1)
    <3>1. a \in 1 .. Len(added) /\ b \in 1 .. Len(added) /\ added[a] = added[b]
      BY <1>9, <2>2
    <3>2. ~(a < b) /\ ~(b < a)
      <4> HIDE DEF a, b
      <4>1. QED
        BY <1>5, <3>1
    <3>3. QED
      BY <1>6, <3>1, <3>2
  <2>3. QED
    BY <1>9, <2>1, <2>2
<1>11. Range(m) = T
  <2>1. ASSUME NEW x \in Range(m) PROVE x \in T
    BY <1>6, <2>1 DEF Range
  <2>2. ASSUME NEW x \in T PROVE \E i \in 1 .. Len(m) : m[i] = x
    <3>1. CASE x \in Range(l1)
      <4>1. PICK i \in 1 .. Len(l1) : l1[i] = x
        BY <1>1, <3>1 DEF Range
      <4>2. i \in 1 .. Len(m)
        BY <1>6
      <4>3. QED
        BY <1>6, <4>1, <4>2
    <3>2. CASE x \notin Range(l1)
      <4>1. PICK i \in 1 .. Len(added) : added[i] = x
        BY <1>4, <2>2, <3>2
      <4>2. Len(l1) + i \in 1 .. Len(m)
        BY <1>6
      <4>3. QED
        BY <1>6, <4>1, <4>2
    <3>3. QED
      BY <3>1, <3>2
  <2> HIDE DEF T
  <2>3. DOMAIN m = 1 .. Len(m)
    BY <1>6
  <2>4. QED
    BY <2>1, <2>2, <2>3 DEF Range
<1>12. IsSeq(m)
  <2> HIDE DEF T
  <2>1. QED
    BY <1>6, <1>11 DEF IsSeq
<1>13. IsInjective(l1) /\ IsInjective(l2) => IsInjective(m)
  <2>1. DOMAIN m = 1 .. Len(m)
    BY <1>6
  <2>2. QED
    BY <1>10, <2>1 DEF IsInjective
<1>14. QED
  BY <1>11, <1>12, <1>13 DEF m

(* A unit that is not fuzzy has no flag to lose. *)
LEMMA MarkNotFuzzy ==
  ASSUME NEW u, IsUnit(u), ~IsFuzzy(u)
  PROVE  /\ ~IsFuzzy(MarkFuzzy(u, FALSE))
         /\ MarkFuzzy(u, FALSE).target = u.target
<1> DEFINE w(n) == [u EXCEPT !.state_n = n]
<1>1. ASSUME NEW n
      PROVE IsUnit(w(n)) /\ w(n).typecomments = u.typecomments
  BY FieldsOfAUnit DEF IsUnit
<1> HIDE DEF w
<1>2. ASSUME NEW n
      PROVE HasTypeComment(w(n), Fuzzy) = FALSE /\ SetTypeComment(w(n), Fuzzy, FALSE) = w(n)
  BY <1>1 DEF IsFuzzy, HasTypeComment, SetTypeComment
<1>3. PICK value \in {S_TRANSLATED, S_UNTRANSLATED} :
        MarkFuzzy(u, FALSE) = SetTypeComment(SetState(u, value), Fuzzy, FALSE)
  BY DEF MarkFuzzy
<1>4. InFuzzyRange(value) = FALSE
  BY <1>3 DEF InFuzzyRange, S_FUZZY, S_FUZZY_OBSOLETE, S_OBSOLETE, S_TRANSLATED, S_UNTRANSLATED
<1>5. SetState(u, value) \in {w(value), w(S_UNTRANSLATED)}
  BY <1>2, <1>4 DEF SetState, w
<1>6. PICK n : MarkFuzzy(u, FALSE) = w(n)
  BY <1>2, <1>3, <1>5
<1>7. ~IsFuzzy(w(n))
  BY <1>2 DEF IsFuzzy
<1>8. MarkFuzzy(u, FALSE).target = u.target
  BY MarkFuzzyDiffers, FieldsOfAUnit DEF Differs
<1>9. QED
  BY <1>6, <1>7, <1>8

(* v has the one translation that u and other have.                        *)
HasTextOf(v, u, other) ==
  ~IsFuzzy(v) /\ v.target = IF u.target = NoText THEN other.target ELSE u.target

(* Two units that agree on a translation, or lack one.                     *)
LEMMA AgreedMerge ==
  ASSUME NEW u, IsUnit(u), NEW other, NEW t,
         u.source = other.source, u.context = other.context, ~u.obsolete,
         u.source # NoText \/ u.context # NoContext,
         ~IsFuzzy(u), ~IsFuzzy(other), t # NoText,
         u.target \in {NoText, t}, other.target \in {NoText, t},
         NEW v, v = Merge(u, other, FALSE, TRUE, FALSE)
  PROVE  HasTextOf(v, u, other)
<1> DEFINE c == MergeComments(u, other, FALSE)
           w == [c EXCEPT !.target = other.target, !.previous = other.previous]
<1>1. Differs(u, c, {"othercomments", "typecomments", "locations"})
  BY MergeCommentsDiffers
<1>2. /\ IsUnit(c) /\ c.source = u.source /\ c.context = u.context /\ c.target = u.target
      /\ ~c.obsolete
  BY <1>1, FieldsOfAUnit DEF Differs
<1>3. ~IsFuzzy(c)
  <2>1. c.typecomments = MergeFlagLines(u.typecomments, other.typecomments)
    BY FieldsOfAUnit DEF MergeComments, IsUnit
  <2> HIDE DEF c
  <2>2. DOMAIN c.typecomments = DOMAIN u.typecomments \cup DOMAIN other.typecomments
    BY <2>1 DEF MergeFlagLines
  <2>3. QED
    BY <2>2 DEF IsFuzzy, HasTypeComment
<1>4. v = MergeTarget(c, other, FALSE)
  BY DEF Merge
<1>5. IsFuzzy(other) = FALSE
  BY DEF IsFuzzy, HasTypeComment
<1> HIDE DEF c
<1>6. IsTranslated(c) <=> c.target = t
  BY <1>2, <1>3 DEF IsTranslated, HasTarget, IsHeader
<1>7. CASE c.target = t
  <2>1. IsTranslated(other) => c.target = other.target
    BY <1>7 DEF IsTranslated, HasTarget
  <2>2. v = c
    BY <1>2, <1>4, <1>6, <1>7, <2>1 DEF MergeTarget
  <2>3. QED
    BY <1>2, <1>3, <1>7, <2>2 DEF HasTextOf
<1>8. CASE c.target = NoText
  <2>1. v = MarkFuzzy(w, FALSE)
    BY <1>2, <1>4, <1>5, <1>6, <1>8 DEF MergeTarget
  <2>2. IsUnit(w) /\ w.typecomments = c.typecomments /\ w.target = other.target
    BY <1>2, FieldsOfAUnit DEF IsUnit
  <2> HIDE DEF w
  <2>3. ~IsFuzzy(w)
    BY <1>3, <2>2 DEF IsFuzzy, HasTypeComment
  <2>4. ~IsFuzzy(v) /\ v.target = other.target
    BY <2>1, <2>2, <2>3, MarkNotFuzzy
  <2>5. QED
    BY <1>2, <1>8, <2>4 DEF HasTextOf
<1>9. QED
  BY <1>2, <1>7, <1>8

(* A unit without a source and a context is kept and marked, any other     *)
(* goes into the first one with its id.                                    *)
LEMMA MergeUnmarkedStep ==
  ASSUME ConvertedFiles, LoopInv, MergeDuplicate, MsgId(Current) = EmptyId
  PROVE  LoopInv'
<1> USE DEF LoopInv
<1> PICK n : n = next
  OBVIOUS
<1>1. /\ n \in 1 .. Len(input) /\ n \notin Looked /\ Looked \subseteq 1 .. Len(input)
      /\ ~Plain(n) /\ Bare(n) /\ units[n] = input[n] /\ IsStill(input[n], n)
      /\ style = "merge"
  BY AtNext, InputUnits DEF MergeDuplicate
<1>2. /\ PositionsInv' /\ Looked' = Looked \cup {n}
      /\ input' = input /\ style' = style /\ next' = next + 1 /\ next \in Nat
  BY <1>1, Advances, InputUnits DEF MergeDuplicate
<1>3. /\ IsSeq(units') /\ Len(units') = Len(units)
      /\ \A p \in 1 .. Len(input) : p # n => units'[p] = units[p]
      /\ units'[n] = AddComment(input[n])
  <2>1. PICK x : x = AddComment(input[n])
    OBVIOUS
  <2>2. units' = [units EXCEPT ![n] = x]
    BY <1>1, <2>1 DEF MergeDuplicate, Current
  <2>3. IsSeq(units) /\ Len(units) = Len(input) /\ n \in 1 .. Len(units)
    BY <1>1 DEF UnitsInv
  <2> DEFINE r == [units EXCEPT ![n] = x]
  <2>4. IsSeq(r) /\ Len(r) = Len(units) /\ r[n] = x /\ \A j \in 1 .. Len(units) : j # n => r[j] = units[j]
    BY <2>3, ReplaceItem, SMTT(30)
  <2> HIDE DEF r, LoopInv
  <2>5. QED
    BY <2>1, <2>2, <2>3, <2>4 DEF r
<1>4. FirstsInv' /\ \A p : First(p)' = First(p)
  BY <1>1, FirstsStep DEF MergeDuplicate
<1>5. UnitsInv'
  <2>1. ASSUME NEW p \in Looked PROVE ContextOf(p)' = ContextOf(p)
    BY <1>1, <1>2, <1>4, ContextStays
  <2>2. ContextOf(n)' = Append(input[n].context, Comment(input[n].locations))
    BY <1>1, <1>2, InputStays DEF ContextOf, Marked, Mark
  <2>3. IsStill(units'[n], n) /\ units'[n].context = ContextOf(n)'
    <3> PICK u : u = units'[n]
      OBVIOUS
    <3>1. IsStill(u, n)
      BY <1>1, <1>3, StillMarked
    <3>2. u.context = Append(input[n].context, Comment(input[n].locations))
      BY <1>1, <1>3, AppendIs DEF IsStill
    <3>3. QED
      BY <2>2, <3>1, <3>2
  <2>4. \A p \in Looked : IsStill(units'[p], p) /\ units'[p].context = ContextOf(p)'
    BY <1>1, <1>3, <2>1 DEF UnitsInv
  <2>5. \A p \in (1 .. Len(input)) \ Looked' : units'[p] = units[p]
    BY <1>2, <1>3
  <2> HIDE DEF LoopInv
  <2>6. QED
    BY <1>2, <1>3, <2>3, <2>4, <2>5, UnitsStep DEF MergeDuplicate, LoopInv
<1>6. UniqueInv'
  <2>1. n \in Kept'
    BY <1>1, <1>2, InputStays DEF Kept
  <2>2. Kept' = Kept \cup {n}
    BY <1>1, <1>2, <1>4, <2>1, KeptStep
  <2>3. QED
    BY <2>2, UniqueStep DEF MergeDuplicate
<1>7. MergedInv'
  <2>1. \A p \in Looked : ~Bare(p) => ~Alike(p, n)
    BY <1>1 DEF Alike, Bare
  <2>2. \A p \in Looked \ {n} : units'[p] = units[p]
    BY <1>1, <1>3
  <2> HIDE DEF LoopInv
  <2>3. QED
    BY <1>1, <1>2, <1>4, <2>1, <2>2, OthersMerged DEF MergeDuplicate, LoopInv
<1>8. QED
  BY <1>2, <1>4, <1>5, <1>6, <1>7

LEMMA MergeIntoFirstStep ==
  ASSUME ConvertedFiles, LoopInv, MergeDuplicate, MsgId(Current) # EmptyId
  PROVE  LoopInv'
<1> USE DEF LoopInv
<1> PICK n : n = next
  OBVIOUS
<1> PICK f : f = First(n)
  OBVIOUS
<1> DEFINE merged == Merge(units[f], input[n], FALSE, TRUE, FALSE)
<1>1. /\ n \in 1 .. Len(input) /\ n \notin Looked /\ Looked \subseteq 1 .. Len(input)
      /\ ~Plain(n) /\ ~Bare(n) /\ units[n] = input[n] /\ IsConverted(input[n])
      /\ MsgId(Current) = OwnId(n) /\ style = "merge" /\ IsStill(input[n], n)
  BY AtNext, InputUnits DEF MergeDuplicate
<1>2. f \in Looked /\ ~Plain(f) /\ ~Bare(f) /\ Alike(f, n) /\ f # n /\ First(f) = f
  <2>1. OwnId(n) \in DOMAIN id_dict
    BY <1>1 DEF MergeDuplicate, Seen
  <2>2. f \in Looked /\ ~Plain(f) /\ Alike(f, n) /\ First(f) = f
    BY <2>1, FirstOfId
  <2>3. QED
    BY <1>1, <2>2 DEF Alike, Bare
<1>3. /\ PositionsInv' /\ Looked' = Looked \cup {n}
      /\ input' = input /\ style' = style /\ next' = next + 1 /\ next \in Nat
  BY <1>1, Advances, InputUnits DEF MergeDuplicate
<1>4. /\ IsSeq(units') /\ Len(units') = Len(units) /\ unique' = unique
      /\ \A p \in 1 .. Len(input) : p # f => units'[p] = units[p]
      /\ units'[f] = merged
  <2>1. MsgId(Current) # EmptyId /\ id_dict[MsgId(Current)] = f
    BY <1>1 DEF First
  <2>2. units' = [units EXCEPT ![f] = merged] /\ unique' = unique
    BY <1>1, <2>1 DEF MergeDuplicate, Current
  <2>3. IsSeq(units) /\ Len(units) = Len(input) /\ f \in 1 .. Len(units)
    BY <1>1, <1>2 DEF UnitsInv
  <2> DEFINE r == [units EXCEPT ![f] = merged]
  <2> HIDE DEF merged
  <2>4. /\ IsSeq(r) /\ Len(r) = Len(units) /\ r[f] = merged
        /\ \A j \in 1 .. Len(units) : j # f => r[j] = units[j]
    BY <2>3, ReplaceItem, SMTT(30)
  <2> HIDE DEF r, LoopInv
  <2>5. QED
    BY <2>2, <2>3, <2>4 DEF r
<1>5. FirstsInv' /\ \A p : First(p)' = First(p)
  BY <1>1, FirstsStep DEF MergeDuplicate
<1>6. \A p \in Looked' : ~Bare(p) => ContextOf(p)' = input[p].context
  <2>1. \A p : ~Bare(p) => ~Marked(p)'
    BY <1>1, <1>3, InputStays DEF Marked
  <2>2. QED
    BY <1>3, <2>1 DEF ContextOf
<1>7. /\ IsUnit(units[f]) /\ units[f].source = input[n].source /\ ~units[f].obsolete
      /\ units[f].context = input[n].context /\ units[f].source = input[f].source
      /\ units[f].context = input[f].context /\ units[f].obsolete = input[f].obsolete
  <2>1. IsUnit(units[f]) /\ units[f].source = input[f].source /\ units[f].obsolete = input[f].obsolete
    BY <1>1, <1>2 DEF UnitsInv, IsStill
  <2>2. ~Marked(f)
    BY <1>1, <1>2 DEF Marked
  <2>3. units[f].context = input[f].context
    BY <1>2, <2>2 DEF UnitsInv, ContextOf
  <2>4. ~input[f].obsolete
    BY <1>1, <1>2, InputUnits
  <2>5. QED
    BY <1>2, <2>1, <2>3, <2>4 DEF Alike, OwnId
<1>8. /\ Differs(units[f], merged, Mergeable)
      /\ merged.locations = MergeLocations(units[f].locations, input[n].locations)
  <2> DEFINE c == MergeComments(units[f], input[n], FALSE)
  <2>1. c.locations = MergeLocations(units[f].locations, input[n].locations)
    BY <1>7, FieldsOfAUnit DEF MergeComments, IsUnit
  <2>2. IsUnit(c) /\ merged = MergeTarget(c, input[n], FALSE)
    BY <1>7, MergeCommentsDiffers DEF Differs, Merge
  <2>3. Differs(units[f], merged, Mergeable)
    BY <1>7, MergeDiffers
  <2> HIDE DEF c, merged
  <2>4. merged.locations = c.locations
    <3>1. Differs(c, merged, {"target", "previous", "typecomments", "state_n"})
      BY <2>2, MergeTargetDiffers
    <3>2. QED
      BY <3>1, FieldsOfAUnit DEF Differs
  <2>5. QED
    BY <2>1, <2>3, <2>4
<1> HIDE DEF merged
<1>9. UnitsInv'
  <2>1. ASSUME NEW p \in Looked \ {f} PROVE IsStill(units'[p], p) /\ units'[p].context = ContextOf(p)'
    <3>1. ContextOf(p)' = ContextOf(p)
      BY <1>1, <1>3, <1>5, ContextStays
    <3>2. QED
      BY <1>1, <1>4, <3>1 DEF UnitsInv
  <2>2. IsStill(units'[n], n) /\ units'[n].context = ContextOf(n)'
    <3>1. units'[n] = input[n]
      BY <1>1, <1>2, <1>4
    <3>2. ContextOf(n)' = input[n].context
      BY <1>1, <1>3, <1>6
    <3>3. QED
      BY <1>1, <3>1, <3>2
  <2>3. IsStill(units'[f], f) /\ units'[f].context = ContextOf(f)'
    <3>1. /\ IsUnit(merged) /\ merged.source = units[f].source
          /\ merged.obsolete = units[f].obsolete /\ merged.context = units[f].context
      BY <1>8, FieldsOfAUnit DEF Differs, Mergeable
    <3>2. ~Apart(f)
      BY <1>1, <1>2 DEF Apart
    <3>3. QED
      BY <1>2, <1>3, <1>4, <1>6, <1>7, <3>1, <3>2 DEF IsStill
  <2>4. \A p \in Looked' : IsStill(units'[p], p) /\ units'[p].context = ContextOf(p)'
    BY <1>3, <2>1, <2>2, <2>3
  <2>5. \A p \in (1 .. Len(input)) \ Looked' : units'[p] = units[p]
    BY <1>2, <1>3, <1>4
  <2> HIDE DEF LoopInv
  <2>6. QED
    BY <1>3, <1>4, <2>4, <2>5, UnitsStep DEF MergeDuplicate, LoopInv
<1>10. UniqueInv'
  <2>1. n \notin Kept'
    <3>1. First(n) # n
      BY <1>2
    <3>2. QED
      BY <1>1, <1>3, <1>5, <3>1, InputStays DEF Kept
  <2>2. Kept' = Kept
    BY <1>1, <1>3, <1>5, <2>1, KeptStep
  <2>3. QED
    BY <1>4, <2>2, UniqueStep DEF MergeDuplicate
<1>11. MergedAt(f)'
  <2> DEFINE before == {q \in Looked : Alike(f, q)}
  <2>1. MergedAt(f)
    BY <1>1, <1>2 DEF MergedInv
  <2>2. {q \in Looked' : Alike(f, q)} = before \cup {n}
    BY <1>2, <1>3
  <2> DEFINE here == units[f].locations
             added == input[n].locations
  <2>3. IsSeq(here) /\ IsSeq(added)
    BY <1>1, <2>1 DEF MergedAt, IsConverted
  <2>4. units'[f].locations = MergeLocations(here, added)
    BY <1>4, <1>8
  <2>5. /\ IsSeq(units'[f].locations)
        /\ IsInjective(here) /\ IsInjective(added) => IsInjective(units'[f].locations)
        /\ Range(units'[f].locations) = Range(here) \cup Range(added)
    <3> HIDE DEF here, added
    <3>1. QED
      BY <2>3, <2>4, LocationsMerge
  <2>6. (\A q \in Looked' : Alike(f, q) => IsInjective(input[q].locations))
          => IsInjective(units'[f].locations)
    <3> SUFFICES ASSUME \A q \in Looked' : Alike(f, q) => IsInjective(input[q].locations)
                 PROVE  IsInjective(units'[f].locations)
      OBVIOUS
    <3>1. (\A q \in Looked : Alike(f, q) => IsInjective(input[q].locations)) /\ IsInjective(added)
      BY <1>2, <1>3
    <3>2. IsInjective(here)
      BY <2>1, <3>1 DEF MergedAt
    <3>3. QED
      BY <2>5, <3>1, <3>2
  <2>7. Range(units'[f].locations) =
          UNION {Range(input[q].locations) : q \in {q \in Looked' : Alike(f, q)}}
    <3>1. Range(here) = UNION {Range(input[q].locations) : q \in before}
      BY <2>1 DEF MergedAt
    <3>2. UNION {Range(input[q].locations) : q \in before \cup {n}}
            = Range(added) \cup UNION {Range(input[q].locations) : q \in before}
      <4> HIDE DEF before
      <4>1. QED
        OBVIOUS
    <3>3. QED
      BY <2>2, <2>5, <3>1, <3>2
  <2>8. ASSUME NEW t \in {input[q].target : q \in 1 .. Len(input)} \ {NoText}, AgreeOn(f, t)'
        PROVE  /\ ~IsFuzzy(units'[f]) /\ units'[f].target \in {NoText, t}
               /\ units'[f].target = t <=> \E q \in Looked' : Alike(f, q) /\ input[q].target = t
    <3>1. \A q \in Looked' : Alike(f, q) => ~IsFuzzy(input[q]) /\ input[q].target \in {NoText, t}
      BY <1>3, <2>8 DEF AgreeOn, Alike, OwnId
    <3>2. AgreeOn(f, t)
      BY <1>3, <3>1 DEF AgreeOn
    <3>3. /\ ~IsFuzzy(units[f]) /\ units[f].target \in {NoText, t}
          /\ units[f].target = t <=> \E q \in Looked : Alike(f, q) /\ input[q].target = t
      BY <2>1, <3>2 DEF MergedAt
    <3>4. ~IsFuzzy(input[n]) /\ input[n].target \in {NoText, t}
      BY <1>2, <1>3, <3>1
    <3>5. /\ ~IsFuzzy(merged) /\ merged.target \in {NoText, t}
          /\ merged.target = t <=> units[f].target = t \/ input[n].target = t
      <4> PICK u : u = units[f]
        OBVIOUS
      <4> PICK other : other = input[n]
        OBVIOUS
      <4> PICK v : v = merged
        OBVIOUS
      <4>1. v = Merge(u, other, FALSE, TRUE, FALSE)
        BY DEF merged
      <4>2. u.source # NoText \/ u.context # NoContext
        BY <1>1, <1>7, InputUnits, NoContextAssumption
      <4>3. /\ IsUnit(u) /\ u.source = other.source /\ u.context = other.context
            /\ ~u.obsolete /\ t # NoText
            /\ ~IsFuzzy(u) /\ ~IsFuzzy(other)
            /\ u.target \in {NoText, t} /\ other.target \in {NoText, t}
        BY <1>1, <1>7, <3>3, <3>4
      <4> HIDE DEF LoopInv
      <4>4. HasTextOf(v, u, other)
        BY <4>1, <4>2, <4>3, AgreedMerge
      <4>5. QED
        BY <4>3, <4>4 DEF HasTextOf
    <3>6. QED
      BY <1>2, <1>3, <1>4, <3>3, <3>5
  <2> HIDE DEF before, here, added, LoopInv
  <2>9. \A q : Alike(f, q)' <=> Alike(f, q)
    BY <1>3 DEF Alike, OwnId
  <2>10. QED
    BY <1>3, <2>5, <2>6, <2>7, <2>8, <2>9 DEF MergedAt, IsFuzzy, HasTypeComment, IsInjective
<1>12. MergedInv'
  <2>1. \A p \in Looked : First(p) = p /\ p # f => ~Alike(p, n)
    BY DEF Alike, First
  <2>2. \A p \in Looked \ {f} : units'[p] = units[p]
    BY <1>1, <1>4
  <2>3. First(n)' # n
    BY <1>2, <1>5
  <2> HIDE DEF LoopInv
  <2>4. QED
    BY <1>3, <1>5, <1>11, <2>1, <2>2, <2>3, OthersMerged DEF MergeDuplicate, LoopInv
<1>13. QED
  BY <1>3, <1>5, <1>9, <1>10, <1>12

-----------------------------------------------------------------------------
(* With style "msgctxt" a duplicate is marked, and the first of its id too *)
(* unless it has a context; a duplicate that cannot be told from the first *)
(* is not kept.                                                            *)
LEMMA DisambiguateStep ==
  ASSUME ConvertedFiles, LoopInv, DisambiguateDuplicate
  PROVE  LoopInv'
<1> USE DEF LoopInv
<1> PICK n : n = next
  OBVIOUS
<1> PICK f : f = First(n)
  OBVIOUS
<1> PICK orig : orig = IF units[f].context = << >> THEN AppendContext(units[f]) ELSE units[f]
  OBVIOUS
<1> PICK copy : copy = AppendContext(input[n])
  OBVIOUS
<1>1. /\ n \in 1 .. Len(input) /\ n \notin Looked /\ Looked \subseteq 1 .. Len(input)
      /\ ~Plain(n) /\ units[n] = input[n] /\ IsStill(input[n], n)
      /\ MsgId(Current) = OwnId(n) /\ style = "msgctxt"
  BY AtNext, InputUnits DEF DisambiguateDuplicate
<1>2. /\ f \in Looked /\ ~Plain(f) /\ Alike(f, n) /\ f # n /\ First(f) = f /\ f \in 1 .. Len(input)
      /\ input[f].context = input[n].context /\ (Bare(f) <=> Bare(n))
  <2>1. OwnId(n) \in DOMAIN id_dict
    BY <1>1 DEF DisambiguateDuplicate, Seen
  <2>2. f \in Looked /\ ~Plain(f) /\ Alike(f, n) /\ First(f) = f
    BY <2>1, FirstOfId
  <2>3. QED
    BY <1>1, <2>2 DEF Alike, OwnId, Bare
<1>3. /\ PositionsInv' /\ Looked' = Looked \cup {n}
      /\ input' = input /\ style' = style /\ next' = next + 1 /\ next \in Nat
  BY <1>1, Advances, InputUnits DEF DisambiguateDuplicate
<1>4. FirstsInv' /\ \A p : First(p)' = First(p)
  BY <1>1, FirstsStep DEF DisambiguateDuplicate
<1>5. \/ input[n].context = << >>
      \/ \E line : input[n].context = <<line>> /\ line # << >>
  BY <1>1, InputUnits
<1>6. /\ ContextOf(n)' = Append(input[n].context, input[n].locations)
      /\ ContextOf(f)' = IF input[f].context = << >> THEN <<input[f].locations>> ELSE input[f].context
  <2>1. Marked(n)' /\ Mark(n)' = input[n].locations /\ Mark(f)' = input[f].locations
    BY <1>1, <1>2, <1>3, <1>4, InputStays DEF Marked, Mark
  <2>2. Marked(f)' <=> input[f].context = << >>
    <3>1. Bare(f) => input[f].context = << >>
      BY <1>2, InputUnits
    <3>2. n \in Looked' /\ Alike(f, n)' /\ First(f)' = f
      BY <1>2, <1>3, <1>4 DEF Alike, OwnId
    <3>3. QED
      BY <1>1, <1>2, <1>3, <3>1, <3>2, InputStays DEF Marked
  <2>3. Append(<< >>, input[f].locations) = <<input[f].locations>>
    BY AppendToOne
  <2>4. QED
    BY <1>3, <2>1, <2>2, <2>3 DEF ContextOf
<1>7. IsStill(orig, f) /\ orig.context = ContextOf(f)'
  <2>1. IsStill(units[f], f) /\ units[f].context = ContextOf(f)
    BY <1>2 DEF UnitsInv
  <2>2. units[f].locations = input[f].locations
    BY <1>1, <2>1 DEF IsStill, Apart
  <2>3. Append(<< >>, input[f].locations) = <<input[f].locations>>
    BY AppendToOne
  <2>4. CASE units[f].context = << >>
    <3>1. input[f].context = << >>
      <4>1. \/ input[f].context = << >>
            \/ \E line : ContextOf(f) \in {<<line>>, Append(<<line>>, Mark(f))}
        BY <1>2, <1>5 DEF ContextOf
      <4>2. \A line : <<line>> # << >> /\ Append(<<line>>, Mark(f)) # << >>
        <5>1. \A line : Append(<<line>>, Mark(f)) = <<line, Mark(f)>>
          BY AppendToOne
        <5>2. \A line, m : <<line>> # << >> /\ <<line, m>> # << >>
          OBVIOUS
        <5>3. QED
          BY <5>1, <5>2
      <4>3. QED
        BY <2>1, <2>4, <4>1, <4>2
    <3>2. orig = AppendContext(units[f])
      BY <2>4
    <3>3. orig.context = <<input[f].locations>>
      BY <2>1, <2>2, <2>3, <2>4, <3>2, AppendIs DEF IsStill
    <3>4. QED
      BY <1>6, <2>1, <3>1, <3>2, <3>3, StillMarked
  <2>5. CASE units[f].context # << >>
    <3>1. orig = units[f]
      BY <2>5
    <3>2. Mark(f) = input[f].locations
      BY <1>1 DEF Mark
    <3>3. input[f].context # << >> => ~Marked(f)
      BY <1>2, InputUnits DEF Marked
    <3>4. ContextOf(f) = ContextOf(f)'
      BY <1>6, <2>1, <2>3, <2>5, <3>2, <3>3 DEF ContextOf
    <3>5. QED
      BY <2>1, <3>1, <3>4
  <2>6. QED
    BY <2>4, <2>5
<1>8. IsStill(copy, n) /\ copy.context = ContextOf(n)'
  <2>1. copy.context = Append(input[n].context, input[n].locations)
    BY <1>1, AppendIs DEF IsStill
  <2>2. QED
    BY <1>1, <1>6, <2>1, StillMarked
<1>9. copy.context = orig.context <=> Confused(n)
  <2>1. Confused(n) <=> input[n].context = << >> /\ input[n].locations = input[f].locations
    BY DEF Confused
  <2>2. CASE input[n].context = << >>
    <3>1. copy.context = <<input[n].locations>> /\ orig.context = <<input[f].locations>>
      BY <1>2, <1>6, <1>7, <1>8, <2>2, AppendToOne
    <3>2. QED
      BY <2>1, <2>2, <3>1
  <2>3. ASSUME NEW line, input[n].context = <<line>> PROVE copy.context # orig.context
    <3>1. copy.context = <<line, input[n].locations>>
      BY <1>6, <1>8, <2>3, AppendToOne
    <3>2. orig.context = <<line>>
      BY <1>2, <1>6, <1>7, <2>3
    <3>3. \A one, two : <<line, one>> # <<two>>
      OBVIOUS
    <3>4. QED
      BY <3>1, <3>2, <3>3
  <2>4. QED
    BY <1>5, <2>1, <2>2, <2>3
<1>10. /\ units' = [units EXCEPT ![f] = orig, ![n] = copy] /\ Advance /\ UNCHANGED id_dict
       /\ IF copy.context # orig.context THEN Keep ELSE UNCHANGED unique
  BY <1>1 DEF DisambiguateDuplicate, Current, First
<1>11. /\ IsSeq(units') /\ Len(units') = Len(units)
       /\ \A p \in 1 .. Len(input) : p \notin {f, n} => units'[p] = units[p]
       /\ units'[f] = orig /\ units'[n] = copy
  <2> DEFINE r == [units EXCEPT ![f] = orig]
             w == [r EXCEPT ![n] = copy]
  <2>1. units' = w
    BY <1>10
  <2>2. IsSeq(units) /\ Len(units) = Len(input) /\ f \in 1 .. Len(units)
    BY <1>2 DEF UnitsInv
  <2>3. /\ IsSeq(r) /\ Len(r) = Len(units) /\ r[f] = orig
        /\ \A j \in 1 .. Len(units) : j # f => r[j] = units[j]
    BY <2>2, ReplaceItem, SMTT(30)
  <2> HIDE DEF r, LoopInv
  <2>4. /\ IsSeq(w) /\ Len(w) = Len(r) /\ w[n] = copy
        /\ \A j \in 1 .. Len(r) : j # n => w[j] = r[j]
    BY <1>1, <2>2, <2>3, ReplaceItem, SMTT(30)
  <2> HIDE DEF w
  <2>5. QED
    BY <1>2, <2>1, <2>2, <2>3, <2>4
<1> HIDE DEF LoopInv
<1>12. UnitsInv'
  <2>1. ASSUME NEW p \in Looked \ {f} PROVE IsStill(units'[p], p) /\ units'[p].context = ContextOf(p)'
    <3>1. Plain(p) => Bare(p)
      BY <1>1, InputUnits DEF LoopInv
    <3>2. Alike(p, n) => Bare(p) \/ Marked(p)
      <4>1. Alike(p, n) => First(p) # p
        BY DEF Alike, First
      <4>2. QED
        BY <1>1, <3>1, <4>1 DEF Marked
    <3>3. ContextOf(p)' = ContextOf(p)
      BY <1>3, <1>4, <3>2, ContextStays
    <3>4. IsStill(units[p], p) /\ units[p].context = ContextOf(p) /\ units'[p] = units[p]
      BY <1>1, <1>11 DEF UnitsInv, LoopInv
    <3>5. QED
      BY <3>3, <3>4
  <2>2. \A p \in Looked' : IsStill(units'[p], p) /\ units'[p].context = ContextOf(p)'
    BY <1>3, <1>7, <1>8, <1>11, <2>1
  <2>3. \A p \in (1 .. Len(input)) \ Looked' : units'[p] = units[p]
    BY <1>2, <1>3, <1>11
  <2>4. QED
    BY <1>3, <1>10, <1>11, <2>2, <2>3, UnitsStep DEF LoopInv
<1>13. UniqueInv'
  <2>1. n \in Kept' <=> ~Confused(n)
    <3>1. (Confused(n)' <=> Confused(n)) /\ First(n)' # n /\ ~Plain(n)'
      BY <1>1, <1>2, <1>3, <1>4, InputStays DEF Confused
    <3>2. QED
      BY <1>1, <1>3, <3>1 DEF Kept
  <2>2. \/ Keep /\ Kept' = Kept \cup {n}
        \/ unique' = unique /\ Kept' = Kept
    BY <1>1, <1>3, <1>4, <1>9, <1>10, <2>1, KeptStep
  <2>3. QED
    BY <1>10, <2>2, UniqueStep DEF LoopInv
<1>14. MergedInv'
  BY <1>1, <1>3 DEF MergedInv
<1>15. QED
  BY <1>3, <1>4, <1>12, <1>13, <1>14 DEF LoopInv

-----------------------------------------------------------------------------
(* What is in the units when the loop has looked at all of them.           *)

(* What getid makes of the context of a unit the loop has looked at.       *)
IsTrace(trace, p) ==
  /\ input[p].context = << >> => trace = IF Marked(p) THEN Line(Mark(p)) ELSE << >>
  /\ \A x : input[p].context = <<x>> =>
       trace = IF Marked(p) /\ Mark(p) # << >> THEN <<x, Mark(p)>> ELSE <<x>>

LEMMA IdsOfLooked ==
  ASSUME ConvertedFiles, LoopInv, NEW p \in Looked
  PROVE  \E trace : MsgId(units[p]) = <<trace, input[p].source>> /\ IsTrace(trace, p)
<1>1. units[p].source = input[p].source /\ units[p].context = ContextOf(p)
  BY DEF LoopInv, UnitsInv, IsStill
<1>2. \/ input[p].context = << >>
      \/ \E line : input[p].context = <<line>> /\ line # << >>
  BY InputUnits DEF LoopInv, PositionsInv, Looked
<1>3. /\ Append(<< >>, Mark(p)) = <<Mark(p)>>
      /\ \A x : Append(<<x>>, Mark(p)) = <<x, Mark(p)>>
  BY AppendToOne
<1>4. CASE input[p].context = << >>
  <2>1. units[p].context = IF Marked(p) THEN <<Mark(p)>> ELSE << >>
    BY <1>1, <1>3, <1>4 DEF ContextOf
  <2>2. MsgId(units[p]) = << IF Marked(p) THEN Line(Mark(p)) ELSE << >>, input[p].source>>
    BY <1>1, <2>1, MsgIds
  <2>3. \A x : input[p].context # <<x>>
    BY <1>4
  <2>4. IsTrace(IF Marked(p) THEN Line(Mark(p)) ELSE << >>, p)
    BY <2>3 DEF IsTrace
  <2>5. QED
    BY <2>2, <2>4
<1>5. ASSUME NEW line, input[p].context = <<line>>, line # << >>
      PROVE  \E trace : MsgId(units[p]) = <<trace, input[p].source>> /\ IsTrace(trace, p)
  <2> DEFINE trace == IF Marked(p) /\ Mark(p) # << >> THEN <<line, Mark(p)>> ELSE <<line>>
  <2>1. units[p].context = IF Marked(p) THEN <<line, Mark(p)>> ELSE <<line>>
    BY <1>1, <1>3, <1>5 DEF ContextOf
  <2>2. MsgId(units[p]) = <<trace, input[p].source>>
    <3>1. CASE Marked(p)
      BY <1>1, <1>5, <2>1, <3>1, MsgIds
    <3>2. CASE ~Marked(p)
      BY <1>1, <1>5, <2>1, <3>2, MsgIds DEF Line
    <3>3. QED
      BY <3>1, <3>2
  <2>3. input[p].context # << >> /\ \A x : input[p].context = <<x>> => x = line
    BY <1>5
  <2>4. IsTrace(trace, p)
    BY <2>3 DEF IsTrace
  <2>5. QED
    BY <2>2, <2>4
<1>6. QED
  BY <1>2, <1>4, <1>5

LEMMA SameTrace ==
  ASSUME ConvertedFiles, LoopInv, NEW p \in Looked, NEW q \in Looked,
         MsgId(units[p]) = MsgId(units[q])
  PROVE  /\ input[p].source = input[q].source
         /\ \E trace : IsTrace(trace, p) /\ IsTrace(trace, q)
<1>1. PICK t : MsgId(units[p]) = <<t, input[p].source>> /\ IsTrace(t, p)
  BY IdsOfLooked
<1>2. PICK u : MsgId(units[q]) = <<u, input[q].source>> /\ IsTrace(u, q)
  BY IdsOfLooked
<1>3. t = u /\ input[p].source = input[q].source
  <2>1. <<t, input[p].source>> = <<u, input[q].source>>
    BY <1>1, <1>2
  <2>2. \A a, b, c, d : <<a, b>> = <<c, d>> => a = c /\ b = d
    OBVIOUS
  <2>3. QED
    BY <2>1, <2>2
<1>4. QED
  BY <1>1, <1>2, <1>3

(* With style "merge" the units that are kept apart are those without a    *)
(* source and a context.                                                   *)
LEMMA KeptApartMerged ==
  ASSUME ConvertedFiles, LoopInv, style = "merge", NEW p \in Kept, NEW q \in Kept, p # q,
         MsgId(units[p]) = MsgId(units[q])
  PROVE  Bare(p) /\ Bare(q) /\ input[p].locations = input[q].locations
<1>1. /\ p \in Looked /\ q \in Looked /\ Looked \subseteq 1 .. Len(input)
  BY InputUnits DEF Kept, LoopInv, PositionsInv, Looked
<1>2. PICK trace : IsTrace(trace, p) /\ IsTrace(trace, q)
  BY <1>1, SameTrace
<1>3. \A r \in {p, q} :
        /\ input[r].context = << >> => trace = IF Marked(r) THEN Line(Mark(r)) ELSE << >>
        /\ \A x : input[r].context = <<x>> =>
             trace = IF Marked(r) /\ Mark(r) # << >> THEN <<x, Mark(r)>> ELSE <<x>>
  BY <1>2 DEF IsTrace
<1>4. input[p].source = input[q].source
  BY <1>1, SameTrace
<1>5. ASSUME NEW r \in {p, q}
      PROVE  /\ Marked(r) <=> ~Plain(r) /\ Bare(r)
             /\ Plain(r) => Bare(r) /\ input[r].locations = << >>
             /\ Bare(r) <=> input[r].context = << >> /\ input[r].source = NoText
             /\ input[r].context = << >> \/ \E line : input[r].context = <<line>>
             /\ ~Bare(r) => First(r) = r
  BY <1>1, InputUnits DEF Marked, Plain, Kept, LoopInv
<1>6. ASSUME NEW r \in {p, q}
      PROVE  Bare(r) => trace = IF Plain(r) THEN << >> ELSE <<Comment(input[r].locations)>>
  <2>1. Line(Comment(input[r].locations)) = <<Comment(input[r].locations)>>
    BY Comments DEF Line
  <2>2. QED
    BY <1>3, <1>5, <2>1 DEF Mark
<1>7. ASSUME NEW r \in {p, q} PROVE ~Bare(r) => trace = input[r].context
  BY <1>3, <1>5
<1>8. CASE Bare(p) /\ Bare(q)
  <2>1. CASE Plain(p) \/ Plain(q)
    <3>1. \A x : <<x>> # << >>
      OBVIOUS
    <3>2. Plain(p) /\ Plain(q)
      BY <1>6, <1>8, <2>1, <3>1
    <3>3. QED
      BY <1>5, <1>8, <3>2
  <2>2. CASE ~Plain(p) /\ ~Plain(q)
    <3>1. <<Comment(input[p].locations)>> = <<Comment(input[q].locations)>>
      BY <1>6, <1>8, <2>2
    <3>2. QED
      BY <1>8, <3>1, Comments
  <2>3. QED
    BY <2>1, <2>2
<1>9. ASSUME NEW r \in {p, q}, NEW s \in {p, q}, Bare(r), ~Bare(s) PROVE FALSE
  <2>1. input[s].context # << >>
    BY <1>4, <1>5, <1>9
  <2>2. input[s].context # <<Comment(input[r].locations)>>
    BY <1>1, InputUnits DEF LoopInv
  <2>3. QED
    BY <1>6, <1>7, <1>9, <2>1, <2>2
<1>10. CASE ~Bare(p) /\ ~Bare(q)
  <2>1. OwnId(p) = OwnId(q)
    BY <1>4, <1>7, <1>10 DEF OwnId
  <2>2. QED
    BY <1>5, <1>10, <2>1 DEF First
<1>11. QED
  BY <1>8, <1>9, <1>10

(* With style "msgctxt" the places of a unit are its second line.          *)
LEMMA KeptApartByPlaces ==
  ASSUME ConvertedFiles, LoopInv, style = "msgctxt", NEW p \in Kept, NEW q \in Kept, p # q,
         MsgId(units[p]) = MsgId(units[q])
  PROVE  PlacesFail(input[p], input[q])
<1>1. /\ p \in Looked /\ q \in Looked /\ Looked \subseteq 1 .. Len(input)
  BY InputUnits DEF Kept, LoopInv, PositionsInv, Looked
<1>2. PICK trace : IsTrace(trace, p) /\ IsTrace(trace, q)
  BY <1>1, SameTrace
<1>3. \A r \in {p, q} :
        /\ input[r].context = << >> => trace = IF Marked(r) THEN Line(Mark(r)) ELSE << >>
        /\ \A x : input[r].context = <<x>> =>
             trace = IF Marked(r) /\ Mark(r) # << >> THEN <<x, Mark(r)>> ELSE <<x>>
  BY <1>2 DEF IsTrace
<1>4. input[p].source = input[q].source
  BY <1>1, SameTrace
<1>5. ASSUME NEW r \in {p, q}
      PROVE  /\ Mark(r) = input[r].locations
             /\ Plain(r) => input[r].locations = << >>
             /\ input[r].context = << >> \/ \E line : input[r].context = <<line>>
  BY <1>1, InputUnits DEF Mark, Plain, LoopInv
<1>6. \A x, y : <<x>> = <<y>> => x = y
  OBVIOUS
<1>7. \A x, y, z : <<x>> # << >> /\ <<x, y>> # << >> /\ <<x, y>> # <<z>>
  OBVIOUS
<1>8. \A x, y, z, w : <<x, y>> = <<z, w>> => x = z /\ y = w
  OBVIOUS
<1>9. CASE input[p].context = << >> /\ input[q].context = << >>
  <2>1. CASE Plain(p) \/ Plain(q)
    BY <1>5, <1>9, <2>1 DEF PlacesFail
  <2>2. CASE ~Plain(p) /\ ~Plain(q)
    <3>1. Alike(p, q) /\ Alike(q, p)
      BY <1>4, <1>9 DEF Alike, OwnId
    <3>2. Marked(p) /\ Marked(q)
      BY <1>1, <1>9, <2>2, <3>1 DEF Marked
    <3>3. Line(Mark(p)) = Line(Mark(q))
      BY <1>3, <1>9, <3>2
    <3>4. Mark(p) = Mark(q)
      BY <1>6, <1>7, <3>3 DEF Line
    <3>5. QED
      BY <1>5, <1>9, <3>4 DEF PlacesFail
  <2>3. QED
    BY <2>1, <2>2
<1>10. ASSUME NEW x, NEW y, input[p].context = <<x>>, input[q].context = <<y>>
       PROVE  PlacesFail(input[p], input[q])
  <2>1. /\ trace = IF Marked(p) /\ Mark(p) # << >> THEN <<x, Mark(p)>> ELSE <<x>>
        /\ trace = IF Marked(q) /\ Mark(q) # << >> THEN <<y, Mark(q)>> ELSE <<y>>
    BY <1>3, <1>10
  <2>2. x = y
    BY <1>6, <1>7, <1>8, <2>1
  <2>3. CASE Mark(p) = << >> \/ Mark(q) = << >>
    BY <1>5, <1>10, <2>2, <2>3 DEF PlacesFail
  <2>4. CASE Mark(p) # << >> /\ Mark(q) # << >>
    <3>1. Marked(p) <=> Marked(q)
      BY <1>7, <2>1, <2>2, <2>4
    <3>2. CASE Marked(p)
      <4>1. Mark(p) = Mark(q)
        BY <1>8, <2>1, <2>4, <3>1, <3>2
      <4>2. QED
        BY <1>5, <1>10, <2>2, <4>1 DEF PlacesFail
    <3>3. CASE ~Marked(p)
      <4>1. ~Plain(p) /\ ~Plain(q) /\ First(p) = p /\ First(q) = q
        BY <1>5, <2>4, <3>1, <3>3 DEF Marked
      <4>2. OwnId(p) = OwnId(q)
        BY <1>4, <1>10, <2>2 DEF OwnId
      <4>3. QED
        BY <4>1, <4>2 DEF First
    <3>4. QED
      BY <3>2, <3>3
  <2>5. QED
    BY <2>3, <2>4
<1>11. ASSUME NEW y, input[p].context = << >>, input[q].context = <<y>>
       PROVE  PlacesFail(input[p], input[q])
  <2>1. y = Mark(p)
    <3>1. trace \in {<<y>>, <<y, Mark(q)>>} /\ trace \in {<< >>, <<Mark(p)>>}
      BY <1>3, <1>11 DEF Line
    <3>2. QED
      BY <1>6, <1>7, <3>1
  <2>2. QED
    BY <1>5, <1>11, <2>1 DEF PlacesFail
<1>12. ASSUME NEW x, input[p].context = <<x>>, input[q].context = << >>
       PROVE  PlacesFail(input[p], input[q])
  <2>1. x = Mark(q)
    <3>1. trace \in {<<x>>, <<x, Mark(p)>>} /\ trace \in {<< >>, <<Mark(q)>>}
      BY <1>3, <1>12 DEF Line
    <3>2. QED
      BY <1>6, <1>7, <3>1
  <2>2. QED
    BY <1>5, <1>12, <2>1 DEF PlacesFail
<1>13. QED
  BY <1>5, <1>9, <1>10, <1>11, <1>12

LEMMA KeptHaveTheirIds ==
  ASSUME ConvertedFiles, LoopInv, NEW p \in Kept, NEW q \in Kept,
         MsgId(units[p]) = MsgId(units[q])
  PROVE  p = q \/ (Apart(p) /\ Apart(q) /\ PlacesFail(input[p], input[q]))
<1> SUFFICES ASSUME p # q PROVE Apart(p) /\ Apart(q) /\ PlacesFail(input[p], input[q])
  OBVIOUS
<1>1. style \in {"merge", "msgctxt"}
  BY InputUnits DEF LoopInv
<1>2. CASE style = "merge"
  <2>1. Bare(p) /\ Bare(q) /\ input[p].locations = input[q].locations
    BY <1>2, KeptApartMerged
  <2>2. input[p].context = input[q].context
    BY <2>1 DEF Bare, OwnId
  <2>3. QED
    BY <2>1, <2>2 DEF Apart, PlacesFail
<1>3. CASE style = "msgctxt"
  BY <1>3, KeptApartByPlaces DEF Apart
<1>4. QED
  BY <1>1, <1>2, <1>3

(* Every unit that is merged has a first one of its id, which is kept.     *)
LEMMA FirstIsKept ==
  ASSUME ConvertedFiles, LoopInv, style = "merge", NEW p \in Looked, ~Bare(p),
         NEW f, f = First(p)
  PROVE  /\ f \in Kept /\ Alike(f, p) /\ ~Bare(f) /\ MergedAt(f)
         /\ MsgId(units[f]) = MsgId(input[p])
<1>1. p \in 1 .. Len(input) /\ ~Plain(p)
  BY InputUnits DEF LoopInv, PositionsInv, Looked
<1>2. f \in Looked /\ ~Plain(f) /\ Alike(f, p) /\ First(f) = f
  BY <1>1, FirstOfId DEF LoopInv, FirstsInv
<1>3. ~Bare(f) /\ f \in Kept
  BY <1>2 DEF Kept, Alike, Bare
<1>4. MergedAt(f)
  BY <1>2, <1>3 DEF LoopInv, MergedInv
<1>5. units[f].context = input[p].context /\ units[f].source = input[p].source
  <2>1. ~Marked(f)
    BY <1>3 DEF Marked
  <2>2. units[f].context = input[f].context /\ units[f].source = input[f].source
    BY <1>2, <2>1 DEF LoopInv, UnitsInv, ContextOf, IsStill
  <2>3. QED
    BY <1>2, <2>2 DEF Alike, OwnId
<1>6. MsgId(units[f]) = MsgId(input[p])
  BY <1>5 DEF MsgId
<1>7. QED
  BY <1>2, <1>3, <1>4, <1>6

LEMMA ReturnStep ==
  ASSUME ConvertedFiles, LoopInv, Return
  PROVE  /\ next' \in Nat /\ Len(units') \in Nat /\ next' > Len(units')
         /\ ResultIsUnique' /\ NothingIsLost' /\ AgreedTranslationSurvives'
<1>1. /\ Looked = 1 .. Len(input) /\ DOMAIN input = 1 .. Len(input)
      /\ \A p, q \in 1 .. Len(input) : MsgId(input[p]) = MsgId(input[q]) <=> Alike(p, q)
      /\ \A p \in 1 .. Len(input) : MsgId(input[p]) = EmptyId <=> Bare(p)
      /\ \A p \in 1 .. Len(input) : ToldApart(input[p]) <=> Apart(p)
  <2>1. Len(input) \in Nat /\ DOMAIN input = 1 .. Len(input) /\ next = Len(input) + 1
    BY InputUnits DEF LoopInv, PositionsInv, UnitsInv, Return, IsSeq
  <2>2. \A p \in 1 .. Len(input) : MsgId(input[p]) = OwnId(p)
    BY InputUnits DEF LoopInv
  <2>3. Looked = 1 .. Len(input)
    BY <2>1 DEF Looked
  <2>4. \A p \in 1 .. Len(input) : ToldApart(input[p]) <=> Apart(p)
    BY InputUnits DEF LoopInv
  <2>5. QED
    BY <2>1, <2>2, <2>3, <2>4 DEF Bare, Alike
<1>2. input' = input /\ style' = style /\ next' = next /\ next \in Nat /\ unique' = unique
  BY InputUnits DEF Return, LoopInv, PositionsInv
<1>3. /\ DOMAIN unique = 1 .. Len(unique) /\ Len(unique) \in Nat /\ Len(unique) < next
      /\ \A k \in 1 .. Len(unique) : unique[k] \in Kept
      /\ \A i, j \in 1 .. Len(unique) : unique[i] = unique[j] => i = j
      /\ \A p \in Kept : \E i \in 1 .. Len(unique) : unique[i] = p
      /\ Kept \subseteq Looked
  BY DEF LoopInv, UniqueInv, Kept
<1>4. units' = [k \in 1 .. Len(unique) |-> units[unique[k]]]
  BY <1>3 DEF Return
<1>5. /\ DOMAIN units' = 1 .. Len(unique) /\ Len(units') = Len(unique)
      /\ \A k \in 1 .. Len(unique) : units'[k] = units[unique[k]]
  BY <1>3, <1>4
<1>6. next' \in Nat /\ Len(units') \in Nat /\ next' > Len(units')
  BY <1>2, <1>3, <1>5
<1>7. ResultIsUnique'
  <2> SUFFICES ASSUME NEW i \in 1 .. Len(unique), NEW j \in 1 .. Len(unique),
                      MsgId(units'[i]) = MsgId(units'[j]), i # j
               PROVE  /\ ToldApart(input[unique[i]])' /\ ToldApart(input[unique[j]])'
                      /\ PlacesFail(input[unique[i]], input[unique[j]])'
    BY <1>5 DEF ResultIsUnique
  <2> PICK p : p = unique[i]
    OBVIOUS
  <2> PICK q : q = unique[j]
    OBVIOUS
  <2>1. p \in Kept /\ q \in Kept /\ p # q /\ MsgId(units[p]) = MsgId(units[q])
    BY <1>3, <1>5
  <2>2. Apart(p) /\ Apart(q) /\ PlacesFail(input[p], input[q])
    BY <2>1, KeptHaveTheirIds
  <2>3. ToldApart(input[p]) /\ ToldApart(input[q])
    BY <1>1, <1>3, <2>1, <2>2
  <2>4. QED
    BY <1>2, <2>2, <2>3 DEF ToldApart, PlacesFail
<1>8. ASSUME NEW i \in 1 .. Len(input), NEW k \in 1 .. Len(unique), style = "merge", ~Bare(i)
      PROVE  k \in MergedInto(i)' <=> unique[k] = First(i)
  <2> PICK f : f = First(i)
    OBVIOUS
  <2>1. f \in Kept /\ ~Bare(f) /\ MsgId(units[f]) = MsgId(input[i])
    BY <1>1, <1>8, FirstIsKept
  <2>2. k \in MergedInto(i)' <=> MsgId(units[unique[k]]) = MsgId(input[i])
    BY <1>2, <1>5 DEF MergedInto
  <2>3. ~Apart(f)
    BY <1>8, <2>1 DEF Apart
  <2>4. QED
    BY <1>3, <2>1, <2>2, <2>3, KeptHaveTheirIds
<1>9. ASSUME NEW i \in Kept, Apart(i) PROVE IsKept(i)'
  <2>1. PICK k \in 1 .. Len(unique) : unique[k] = i
    BY <1>3
  <2>2. /\ units[i].source = input[i].source /\ units[i].locations = input[i].locations
        /\ units[i].target = input[i].target
    BY <1>3, <1>9 DEF LoopInv, UnitsInv, IsStill
  <2>3. k \in DOMAIN units' /\ units'[k] = units[i]
    BY <1>5, <2>1
  <2>4. QED
    BY <1>2, <2>2, <2>3 DEF IsKept
<1>10. NothingIsLost'
  <2> SUFFICES ASSUME NEW i \in 1 .. Len(input)
               PROVE  IF style = "merge" /\ MsgId(input[i]) # EmptyId THEN PlacesAreMerged(i)'
                      ELSE IsKept(i)' \/ (style = "msgctxt" /\ IsDropped(i)')
    BY <1>1, <1>2 DEF NothingIsLost
  <2>1. ASSUME style = "merge", ~Bare(i) PROVE PlacesAreMerged(i)'
    <3> PICK f : f = First(i)
      OBVIOUS
    <3>1. f \in Kept /\ Alike(f, i) /\ MergedAt(f)
      BY <1>1, <2>1, FirstIsKept
    <3>2. PICK k \in 1 .. Len(unique) : unique[k] = f
      BY <1>3, <3>1
    <3>3. k \in MergedInto(i)' /\ units'[k] = units[f]
      BY <1>5, <1>8, <2>1, <3>2
    <3>4. Sharing(i)' = {q \in Looked : Alike(f, q)}
      BY <1>1, <1>2, <3>1 DEF Sharing, Alike
    <3>5. Range(units'[k].locations) = UNION {Range(input[q].locations) : q \in Sharing(i)'}
      BY <3>1, <3>3, <3>4 DEF MergedAt
    <3>6. (\A q \in Sharing(i)' : IsInjective(input[q].locations))
            => IsInjective(units'[k].locations)
      BY <3>1, <3>3, <3>4 DEF MergedAt
    <3>7. QED
      BY <1>2, <3>3, <3>5, <3>6 DEF PlacesAreMerged, IsInjective
  <2>2. ASSUME style = "merge", Bare(i) PROVE IsKept(i)'
    <3>1. i \in Kept /\ Apart(i)
      BY <1>1, <2>2 DEF Kept, Apart
    <3>2. QED
      BY <1>9, <3>1
  <2>3. ASSUME style = "msgctxt", i \in Kept PROVE IsKept(i)'
    BY <1>9, <2>3 DEF Apart
  <2>4. ASSUME style = "msgctxt", i \notin Kept PROVE IsDropped(i)'
    <3> PICK f : f = First(i)
      OBVIOUS
    <3>1. ~Plain(i) /\ f # i /\ Confused(i)
      BY <1>1, <2>4 DEF Kept
    <3>2. f \in Looked /\ Alike(f, i) /\ First(f) = f /\ f <= i
      BY <1>1, <3>1, FirstOfId DEF LoopInv, FirstsInv
    <3>3. f \in Kept /\ Apart(f) /\ f < i
      BY <1>1, <2>4, <3>1, <3>2 DEF Kept, Apart
    <3>4. IsKept(f)'
      BY <1>9, <3>3
    <3>5. /\ input[i].context = NoContext /\ input[f].context = NoContext
          /\ input[f].source = input[i].source /\ input[f].locations = input[i].locations
      BY <3>1, <3>2, NoContextAssumption DEF Confused, Alike, OwnId
    <3>6. QED
      BY <1>1, <1>2, <3>2, <3>3, <3>4, <3>5 DEF IsDropped
  <2>5. style \in {"merge", "msgctxt"}
    BY InputUnits DEF LoopInv
  <2>6. QED
    BY <1>1, <2>1, <2>2, <2>3, <2>4, <2>5
<1>11. AgreedTranslationSurvives'
  <2> SUFFICES ASSUME style = "merge", NEW i \in 1 .. Len(input), IsTranslated(input[i]),
                      \A j \in Sharing(i)' : /\ ~IsFuzzy(input[j])
                                             /\ input[j].target \in {NoText, input[i].target},
                      NEW k \in MergedInto(i)'
               PROVE  IsTranslated(units'[k]) /\ units'[k].target = input[i].target
    BY <1>1, <1>2, SMTT(30) DEF AgreedTranslationSurvives
  <2> PICK f : f = First(i)
    OBVIOUS
  <2> PICK t : t = input[i].target
    OBVIOUS
  <2>1. ~Bare(i) /\ t # NoText
    BY <1>1, InputUnits, NoContextAssumption DEF LoopInv, IsTranslated, IsHeader, HasTarget
  <2>2. k \in 1 .. Len(unique) /\ unique[k] = f
    BY <1>5, <1>8, <2>1 DEF MergedInto
  <2>3. f \in Kept /\ Alike(f, i) /\ ~Bare(f) /\ MergedAt(f) /\ f \in 1 .. Len(input)
    BY <1>1, <2>1, FirstIsKept DEF Kept
  <2>4. Sharing(i)' = {q \in Looked : Alike(f, q)}
    BY <1>1, <1>2, <2>3 DEF Sharing, Alike
  <2>5. AgreeOn(f, t)
    BY <2>4 DEF AgreeOn
  <2>6. /\ ~IsFuzzy(units[f])
        /\ units[f].target = t <=> \E q \in Looked : Alike(f, q) /\ input[q].target = t
    BY <2>1, <2>3, <2>5 DEF MergedAt
  <2>7. units[f].target = t
    BY <1>1, <2>3, <2>6
  <2>8. /\ units[f].source # NoText \/ units[f].context # NoContext
        /\ ~units[f].obsolete
    <3>1. ~Marked(f) /\ f \in Looked
      BY <1>1, <2>3 DEF Marked
    <3>2. /\ units[f].source = input[f].source /\ units[f].context = input[f].context
          /\ units[f].obsolete = input[f].obsolete
      BY <3>1 DEF LoopInv, UnitsInv, ContextOf, IsStill
    <3>3. QED
      BY <2>3, <3>2, InputUnits, NoContextAssumption DEF LoopInv
  <2>9. IsTranslated(units[f])
    BY <2>1, <2>6, <2>7, <2>8 DEF IsTranslated, HasTarget, IsHeader
  <2>10. QED
    BY <1>5, <2>2, <2>7, <2>9
<1>12. QED
  BY <1>6, <1>7, <1>10, <1>11

-----------------------------------------------------------------------------
(* The theorems.                                                           *)

LEMMA InitInv ==
  ASSUME ConvertedFiles
  PROVE  Init => IndInv
<1> SUFFICES ASSUME Init PROVE IndInv
  OBVIOUS
<1>1. input \in Inputs[style] /\ IsSeq(input) /\ style \in DOMAIN Inputs
  BY DEF Init, ConvertedFiles
<1>2. PositionsInv
  BY <1>1 DEF Init, PositionsInv, IsSeq
<1>3. Looked = {} /\ Kept = {} /\ unique = << >> /\ units = input /\ DOMAIN id_dict = {} /\ next = 1
  BY DEF Init, Looked, Kept
<1>4. UnitsInv
  BY <1>1, <1>2, <1>3 DEF UnitsInv
<1>5. FirstsInv /\ MergedInv
  BY <1>3 DEF FirstsInv, MergedInv
<1>6. UniqueInv
  <2>1. << >> \in Seq(Kept) /\ Len(<< >>) = 0
    OBVIOUS
  <2>2. QED
    BY <1>3, <2>1 DEF UniqueInv
<1>7. QED
  BY <1>2, <1>4, <1>5, <1>6 DEF Init, IndInv, LoopInv

LEMMA NextInv ==
  ASSUME ConvertedFiles
  PROVE  IndInv /\ [Next]_vars => IndInv'
<1> SUFFICES ASSUME IndInv, [Next]_vars PROVE IndInv'
  OBVIOUS
<1>1. CASE UNCHANGED vars
  <2>1. UNCHANGED <<style, input, units, unique, id_dict, next, done>>
    BY <1>1 DEF vars
  <2>2. UNCHANGED <<Looked, Kept>>
    BY <2>1 DEF Looked, Kept, Plain, Bare, First, OwnId, Confused
  <2>3. \A p : /\ ContextOf(p)' = ContextOf(p) /\ (Plain(p)' <=> Plain(p)) /\ First(p)' = First(p)
              /\ OwnId(p)' = OwnId(p) /\ (Bare(p)' <=> Bare(p))
              /\ \A u : IsStill(u, p)' <=> IsStill(u, p)
    <3>1. \A p : /\ (Plain(p)' <=> Plain(p)) /\ First(p)' = First(p)
                /\ OwnId(p)' = OwnId(p) /\ (Bare(p)' <=> Bare(p))
                /\ \A u : IsStill(u, p)' <=> IsStill(u, p)
      BY <2>1 DEF Plain, First, OwnId, Bare, IsStill, Apart
    <3>2. \A p : ContextOf(p)' = ContextOf(p)
      BY <2>1, <2>2 DEF ContextOf, Marked, Mark, Plain, Bare, First, OwnId, Alike
    <3>3. QED
      BY <3>1, <3>2
  <2>4. \A p : MergedAt(p)' <=> MergedAt(p)
    <3>1. \A p, q : Alike(p, q)' <=> Alike(p, q)
      BY <2>1 DEF Alike, OwnId
    <3>2. \A p, t : AgreeOn(p, t)' <=> AgreeOn(p, t)
      BY <2>1, <2>2, <3>1 DEF AgreeOn
    <3>3. \A p : {q \in Looked' : Alike(p, q)'} = {q \in Looked : Alike(p, q)}
      BY <2>2, <3>1
    <3>4. QED
      BY <2>1, <2>2, <3>1, <3>2, <3>3 DEF MergedAt
  <2>5. LoopInv => LoopInv'
    <3> SUFFICES ASSUME LoopInv PROVE LoopInv'
      OBVIOUS
    <3>1. PositionsInv' /\ UniqueInv' /\ MergedInv'
      BY <2>1, <2>2, <2>3, <2>4 DEF LoopInv, PositionsInv, UniqueInv, MergedInv
    <3>2. UnitsInv'
      BY <2>1, <2>2, <2>3 DEF LoopInv, UnitsInv
    <3>3. FirstsInv'
      BY <2>1, <2>2, <2>3 DEF LoopInv, FirstsInv
    <3>4. QED
      BY <3>1, <3>2, <3>3 DEF LoopInv
  <2>6. (ResultIsUnique <=> ResultIsUnique') /\ (NothingIsLost => NothingIsLost')
    <3>1. ResultIsUnique <=> ResultIsUnique'
      BY <2>1 DEF ResultIsUnique, ToldApart, PlacesFail
    <3>2. \A u : /\ MergedInto(u)' = MergedInto(u)
                /\ (PlacesAreMerged(u) <=> PlacesAreMerged(u)')
      BY <2>1 DEF PlacesAreMerged, MergedInto, Sharing
    <3>3. \A u : (IsKept(u) <=> IsKept(u)') /\ (IsDropped(u) <=> IsDropped(u)')
      BY <2>1 DEF IsKept, IsDropped, ToldApart, PlacesFail, MergedInto, Sharing
    <3>4. NothingIsLost => NothingIsLost'
      BY <2>1, <3>2, <3>3 DEF NothingIsLost
    <3>5. QED
      BY <3>1, <3>4
  <2>7. AgreedTranslationSurvives => AgreedTranslationSurvives'
    BY <2>1 DEF AgreedTranslationSurvives, MergedInto, Sharing
  <2>8. QED
    BY <2>1, <2>5, <2>6, <2>7 DEF IndInv
<1>2. CASE KeepHeader \/ KeepFirst \/ MergeDuplicate \/ DisambiguateDuplicate
  <2>1. next <= Len(units) /\ done' = done
    BY <1>2 DEF KeepHeader, KeepFirst, MergeDuplicate, DisambiguateDuplicate, Advance
  <2>2. ~done /\ LoopInv
    <3>1. ASSUME done PROVE FALSE
      BY <2>1, <3>1 DEF IndInv
    <3>2. QED
      BY <3>1 DEF IndInv
  <2>3. LoopInv'
    BY <1>2, <2>2, KeepHeaderStep, KeepFirstStep, MergeUnmarkedStep, MergeIntoFirstStep,
       DisambiguateStep
  <2>4. QED
    BY <2>1, <2>2, <2>3 DEF IndInv
<1>3. CASE Return
  <2>1. LoopInv /\ done' = TRUE
    BY <1>3 DEF Return, IndInv
  <2>2. QED
    BY <1>3, <2>1, ReturnStep DEF IndInv
<1>4. QED
  BY <1>1, <1>2, <1>3 DEF Next

LEMMA IndInvHolds ==
  ASSUME ConvertedFiles
  PROVE  Spec => []IndInv
<1>1. Init => IndInv
  BY InitInv
<1>2. IndInv /\ [Next]_vars => IndInv'
  BY NextInv
<1>3. QED
  BY <1>1, <1>2, PTL DEF Spec

(* Whatever was merged or told apart, two units of the result have one id  *)
(* only where places were to tell them apart and cannot.                   *)
THEOREM IdsAreUnique ==
  ASSUME ConvertedFiles
  PROVE  Spec => []ResultIsUnique
<1>1. IndInv => ResultIsUnique
  BY DEF IndInv, ResultIsUnique
<1>2. QED
  BY <1>1, IndInvHolds, PTL

(* A merged unit names the places of all it was merged from; a unit that   *)
(* is told apart keeps its places and its translation, or is dropped as a  *)
(* copy of an earlier one at the same places.                              *)
THEOREM AllIsKept ==
  ASSUME ConvertedFiles
  PROVE  Spec => []NothingIsLost
<1>1. IndInv => NothingIsLost
  BY DEF IndInv, NothingIsLost
<1>2. QED
  BY <1>1, IndInvHolds, PTL

(* A finished translation on which the units of an id agree is that of the *)
(* merged unit, in whatever order and number they come.                    *)
THEOREM AgreedSurvives ==
  ASSUME ConvertedFiles
  PROVE  Spec => []AgreedTranslationSurvives
<1>1. IndInv => AgreedTranslationSurvives
  BY DEF IndInv, AgreedTranslationSurvives
<1>2. QED
  BY <1>1, IndInvHolds, PTL
=============================================================================
