-------------------------- MODULE UnitStoreProofs ---------------------------
(***************************************************************************)
(* Proofs about UnitStore: the source index lists the units of a source in *)
(* order as long as nothing is added after the first lookup and no two     *)
(* units share an id; the store then implements SourceLookup.              *)
(***************************************************************************)
EXTENDS Lemmas, UnitStore

-----------------------------------------------------------------------------
(* Lists of the units that share a source.                                 *)

(* The list holds the units of the store with the source, in their order.  *)
Lists(list, store, source) ==
  /\ list \in Seq(Units)
  /\ \A u \in Units : (\E i \in 1 .. Len(list) : list[i] = u)
                        <=> Source(u) = source /\ (\E k \in 1 .. Len(store) : store[k] = u)
  /\ \A i, j \in 1 .. Len(list) :
       i < j => \E k, l \in 1 .. Len(store) : k < l /\ store[k] = list[i] /\ store[l] = list[j]

(* makeindex lists them.                                                   *)
LEMMA SharingLists ==
  ASSUME units \in Seq(Units), NEW source
  PROVE  Lists(Sharing(source), units, source)
<1> DEFINE set == {u \in Members : Source(u) = source}
<1>1. SelectsFirst(Sharing(source), units, Len(units), set, Units)
  BY SelectSelects DEF Sharing
<1>2. \A u \in Units : u \in set <=> Source(u) = source /\ \E k \in 1 .. Len(units) : units[k] = u
  BY DEF Members, Range
<1> HIDE DEF set
<1>3. QED
  BY <1>1, <1>2 DEF SelectsFirst, Lists

-----------------------------------------------------------------------------
(* Removal.                                                                *)

Distinct(s) == \A i, j \in 1 .. Len(s) : s[i] = s[j] => i = j

LEMMA RemoveAtSeq ==
  ASSUME NEW S, NEW s \in Seq(S), NEW p \in 1 .. Len(s)
  PROVE  /\ RemoveAt(s, p) \in Seq(S)
         /\ Len(RemoveAt(s, p)) = Len(s) - 1
         /\ \A i \in 1 .. Len(s) - 1 :
              RemoveAt(s, p)[i] = IF i < p THEN s[i] ELSE s[i + 1]
<1> DEFINE a == SubSeq(s, 1, p - 1)
           b == SubSeq(s, p + 1, Len(s))
<1>1. a \in Seq(S) /\ Len(a) = p - 1 /\ \A i \in 1 .. p - 1 : a[i] = s[i]
  OBVIOUS
<1>2. b \in Seq(S) /\ Len(b) = Len(s) - p /\ \A i \in 1 .. Len(s) - p : b[i] = s[p + i]
  OBVIOUS
<1>3. RemoveAt(s, p) = a \o b /\ Len(s) \in Nat
  BY DEF RemoveAt
<1> HIDE DEF a, b
<1>4. a \o b \in Seq(S) /\ Len(a \o b) = Len(s) - 1
  <2>1. a \o b \in Seq(S)
    BY <1>1, <1>2
  <2>2. \A x, y \in Seq(S) : Len(x \o y) = Len(x) + Len(y)
    OBVIOUS
  <2>3. QED
    BY <1>1, <1>2, <1>3, <2>1, <2>2
<1>5. ASSUME NEW i \in 1 .. Len(s) - 1
      PROVE  (a \o b)[i] = IF i < p THEN s[i] ELSE s[i + 1]
  <2>1. CASE i < p
    BY <1>1, <1>2, <2>1
  <2>2. CASE ~(i < p)
    <3>1. (a \o b)[i] = b[i - (p - 1)]
      BY <1>1, <1>2, <2>2
    <3>2. i - (p - 1) \in 1 .. Len(s) - p /\ p + (i - (p - 1)) = i + 1
      BY <2>2
    <3>3. QED
      BY <1>2, <2>2, <3>1, <3>2
  <2>3. QED
    BY <2>1, <2>2
<1>6. QED
  BY <1>3, <1>4, <1>5

(* What of a store without its p-th unit is where.                         *)
LEMMA RemoveAtKeeps ==
  ASSUME NEW S, NEW s \in Seq(S), Distinct(s), NEW p \in 1 .. Len(s)
  PROVE  /\ Distinct(RemoveAt(s, p))
         /\ \A x : (\E k \in 1 .. Len(RemoveAt(s, p)) : RemoveAt(s, p)[k] = x)
                   <=> x # s[p] /\ \E k \in 1 .. Len(s) : s[k] = x
         /\ \A k, l \in 1 .. Len(s) :
              k < l /\ k # p /\ l # p =>
                \E m, n \in 1 .. Len(RemoveAt(s, p)) :
                  m < n /\ RemoveAt(s, p)[m] = s[k] /\ RemoveAt(s, p)[n] = s[l]
<1> DEFINE r == RemoveAt(s, p)
           old(i) == IF i < p THEN i ELSE i + 1
           new(k) == IF k < p THEN k ELSE k - 1
<1>1. Len(s) \in Nat /\ Len(r) = Len(s) - 1
  BY RemoveAtSeq
<1>2. \A i \in 1 .. Len(r) : r[i] = s[old(i)]
  BY RemoveAtSeq
<1>3. \A i \in 1 .. Len(r) : old(i) \in 1 .. Len(s) /\ old(i) # p
  BY <1>1
<1>4. \A k \in 1 .. Len(s) : k # p => new(k) \in 1 .. Len(r) /\ old(new(k)) = k
  BY <1>1
<1>5. \A k \in 1 .. Len(s) : k # p => r[new(k)] = s[k]
  BY <1>2, <1>4
<1>6. \A i, j \in 1 .. Len(r) : old(i) = old(j) => i = j
  BY <1>1
<1>7. \A k, l \in 1 .. Len(s) : k < l /\ k # p /\ l # p => new(k) < new(l)
  BY <1>1
<1> HIDE DEF r, old, new
<1>8. Distinct(r)
  BY <1>2, <1>3, <1>6 DEF Distinct
<1>9. ASSUME NEW x
      PROVE  (\E k \in 1 .. Len(r) : r[k] = x) <=> x # s[p] /\ \E k \in 1 .. Len(s) : s[k] = x
  <2>1. ASSUME NEW i \in 1 .. Len(r), r[i] = x
        PROVE  x # s[p] /\ \E k \in 1 .. Len(s) : s[k] = x
    <3>1. x = s[old(i)] /\ old(i) \in 1 .. Len(s) /\ old(i) # p
      BY <1>2, <1>3, <2>1
    <3>2. QED
      BY <3>1 DEF Distinct
  <2>2. ASSUME NEW k \in 1 .. Len(s), s[k] = x, x # s[p]
        PROVE  \E i \in 1 .. Len(r) : r[i] = x
    <3>1. k # p
      BY <2>2
    <3>2. QED
      BY <1>4, <1>5, <2>2, <3>1
  <2>3. QED
    BY <2>1, <2>2
<1>10. ASSUME NEW k \in 1 .. Len(s), NEW l \in 1 .. Len(s), k < l, k # p, l # p
       PROVE  \E m, n \in 1 .. Len(r) : m < n /\ r[m] = s[k] /\ r[n] = s[l]
  BY <1>4, <1>5, <1>7, <1>10
<1>11. QED
  BY <1>8, <1>9, <1>10 DEF r

LEMMA ListsAreDistinct ==
  ASSUME NEW store \in Seq(Units), Distinct(store), NEW list, NEW source,
         Lists(list, store, source)
  PROVE  Distinct(list)
<1>1. SUFFICES ASSUME NEW i \in 1 .. Len(list), NEW j \in 1 .. Len(list), i < j, list[i] = list[j]
               PROVE  FALSE
  BY DEF Lists, Distinct
<1>2. PICK k \in 1 .. Len(store), l \in 1 .. Len(store) :
        k < l /\ store[k] = list[i] /\ store[l] = list[j]
  BY <1>1 DEF Lists
<1>3. QED
  BY <1>1, <1>2 DEF Distinct

(* The list of another source stays as it is.                              *)
LEMMA OtherListStays ==
  ASSUME NEW store \in Seq(Units), Distinct(store), NEW list, NEW source,
         Lists(list, store, source), NEW p \in 1 .. Len(store), Source(store[p]) # source
  PROVE  Lists(list, RemoveAt(store, p), source)
<1> DEFINE rest == RemoveAt(store, p)
<1>1. /\ list \in Seq(Units)
      /\ \A u \in Units : (\E i \in 1 .. Len(list) : list[i] = u)
                            <=> Source(u) = source /\ (\E k \in 1 .. Len(store) : store[k] = u)
      /\ \A i, j \in 1 .. Len(list) : i < j =>
           \E k, l \in 1 .. Len(store) : k < l /\ store[k] = list[i] /\ store[l] = list[j]
  BY DEF Lists
<1>2. /\ \A x : (\E k \in 1 .. Len(rest) : rest[k] = x)
                 <=> x # store[p] /\ \E k \in 1 .. Len(store) : store[k] = x
      /\ \A k, l \in 1 .. Len(store) : k < l /\ k # p /\ l # p =>
           \E m, n \in 1 .. Len(rest) : m < n /\ rest[m] = store[k] /\ rest[n] = store[l]
  BY RemoveAtKeeps
<1> HIDE DEF rest
<1>3. \A u \in Units : (\E i \in 1 .. Len(list) : list[i] = u)
                         <=> Source(u) = source /\ (\E k \in 1 .. Len(rest) : rest[k] = u)
  BY <1>1, <1>2
<1>4. ASSUME NEW i \in 1 .. Len(list), NEW j \in 1 .. Len(list), i < j
      PROVE  \E m, n \in 1 .. Len(rest) : m < n /\ rest[m] = list[i] /\ rest[n] = list[j]
  <2>1. PICK k \in 1 .. Len(store), l \in 1 .. Len(store) :
          k < l /\ store[k] = list[i] /\ store[l] = list[j]
    BY <1>1, <1>4
  <2>2. list[i] \in Units /\ list[j] \in Units
    BY <1>1
  <2>3. k # p /\ l # p
    BY <1>1, <2>1, <2>2
  <2>4. PICK m \in 1 .. Len(rest), n \in 1 .. Len(rest) :
          m < n /\ rest[m] = store[k] /\ rest[n] = store[l]
    BY <1>2, <2>1, <2>3
  <2>5. QED
    BY <2>1, <2>4
<1>5. QED
  BY <1>1, <1>3, <1>4 DEF Lists, rest

(* The list of the unit's source loses it, and nothing else.               *)
LEMMA ItsListShrinks ==
  ASSUME NEW store \in Seq(Units), Distinct(store), NEW list, NEW source,
         Lists(list, store, source), NEW p \in 1 .. Len(store),
         NEW q \in 1 .. Len(list), list[q] = store[p]
  PROVE  Lists(RemoveAt(list, q), RemoveAt(store, p), source)
<1> DEFINE rest == RemoveAt(store, p)
           less == RemoveAt(list, q)
<1>1. /\ list \in Seq(Units)
      /\ \A u \in Units : (\E i \in 1 .. Len(list) : list[i] = u)
                            <=> Source(u) = source /\ (\E k \in 1 .. Len(store) : store[k] = u)
      /\ \A i, j \in 1 .. Len(list) : i < j =>
           \E k, l \in 1 .. Len(store) : k < l /\ store[k] = list[i] /\ store[l] = list[j]
  BY DEF Lists
<1>2. /\ \A x : (\E k \in 1 .. Len(rest) : rest[k] = x)
                 <=> x # store[p] /\ \E k \in 1 .. Len(store) : store[k] = x
      /\ \A k, l \in 1 .. Len(store) : k < l /\ k # p /\ l # p =>
           \E m, n \in 1 .. Len(rest) : m < n /\ rest[m] = store[k] /\ rest[n] = store[l]
  BY RemoveAtKeeps
<1>3. Distinct(list)
  BY ListsAreDistinct
<1>4. \A x : (\E k \in 1 .. Len(less) : less[k] = x)
             <=> x # list[q] /\ \E k \in 1 .. Len(list) : list[k] = x
  BY <1>1, <1>3, RemoveAtKeeps
<1>5. /\ less \in Seq(Units) /\ Len(less) = Len(list) - 1
      /\ \A i \in 1 .. Len(less) : less[i] = IF i < q THEN list[i] ELSE list[i + 1]
  BY <1>1, RemoveAtSeq
<1> HIDE DEF rest, less
<1>6. \A u \in Units : (\E i \in 1 .. Len(less) : less[i] = u)
                         <=> Source(u) = source /\ (\E k \in 1 .. Len(rest) : rest[k] = u)
  BY <1>1, <1>2, <1>4
<1>7. ASSUME NEW i \in 1 .. Len(less), NEW j \in 1 .. Len(less), i < j
      PROVE  \E m, n \in 1 .. Len(rest) : m < n /\ rest[m] = less[i] /\ rest[n] = less[j]
  <2>1. PICK a \in 1 .. Len(list), b \in 1 .. Len(list) :
          a < b /\ a # q /\ b # q /\ less[i] = list[a] /\ less[j] = list[b]
    <3>1. Len(list) \in Nat /\ i \in 1 .. Len(less) /\ j \in 1 .. Len(less)
      BY <1>1, <1>5
    <3> DEFINE a == IF i < q THEN i ELSE i + 1
               b == IF j < q THEN j ELSE j + 1
    <3>2. a \in 1 .. Len(list) /\ b \in 1 .. Len(list) /\ a < b /\ a # q /\ b # q
      BY <1>5, <1>7, <3>1
    <3>3. less[i] = list[a] /\ less[j] = list[b]
      BY <1>5, <3>1
    <3> HIDE DEF a, b
    <3>4. QED
      BY <3>2, <3>3
  <2>2. PICK k \in 1 .. Len(store), l \in 1 .. Len(store) :
          k < l /\ store[k] = list[a] /\ store[l] = list[b]
    BY <1>1, <2>1
  <2>3. k # p /\ l # p
    BY <1>3, <2>1, <2>2 DEF Distinct
  <2>4. PICK m \in 1 .. Len(rest), n \in 1 .. Len(rest) :
          m < n /\ rest[m] = store[k] /\ rest[n] = store[l]
    BY <1>2, <2>2, <2>3
  <2>5. QED
    BY <2>1, <2>2, <2>4
<1>8. QED
  BY <1>5, <1>6, <1>7 DEF Lists, less, rest

-----------------------------------------------------------------------------
(* The steps.                                                              *)

(* Nothing is wrong with the indexes of a store of these units.            *)
IndexesServe(store, ids, sources, locations) ==
  /\ DOMAIN ids = {} => DOMAIN sources = {} /\ DOMAIN locations = {}
  /\ DOMAIN ids # {} =>
       /\ \A u \in Units : Source(u) \in DOMAIN sources
                             <=> \E k \in 1 .. Len(store) : Source(store[k]) = Source(u)
       /\ \A source \in DOMAIN sources :
            Lists(sources[source], store, source) /\ \E u \in Units : Source(u) = source
       /\ \A l \in DOMAIN locations : /\ l \in Locations(locations[l])
                                       /\ \E k \in 1 .. Len(store) : store[k] = locations[l]

(* The inductive invariant: no unit is in the store twice, an index that   *)
(* is not built is empty, and one that is lists what the store has; where  *)
(* a location leads, the unit has that location, or remove_unit_from_index *)
(* would leave it behind.                                                  *)
IndInv ==
  /\ units \in Seq(Units) /\ Distinct(units)
  /\ IndexesServe(units, id_index, sourceindex, locationindex)

LEMMA InitInv == Init => IndInv
<1>1. ASSUME Init PROVE /\ units = << >> /\ DOMAIN id_index = {}
                        /\ DOMAIN sourceindex = {} /\ DOMAIN locationindex = {}
  BY <1>1 DEF Init, Empty
<1>2. QED
  BY <1>1 DEF IndInv, IndexesServe, Distinct

(* list.remove takes out the very unit it is given.                        *)
LEMMA RemoveByEquality ==
  ASSUME IdsAreDistinct, NEW s \in Seq(Units), Distinct(s), NEW p \in 1 .. Len(s)
  PROVE  ListRemove(s, s[p]) = RemoveAt(s, p)
<1>1. \A i \in 1 .. Len(s) : Equal(s[i], s[p]) <=> i = p
  BY DEF IdsAreDistinct, Equal, Distinct
<1>2. {i \in 1 .. Len(s) : Equal(s[i], s[p])} = {p}
  BY <1>1
<1>3. Min({p}) = p
  <2>1. p \in Nat
    OBVIOUS
  <2>2. QED
    BY <2>1 DEF Min
<1>4. QED
  BY <1>1, <1>2, <1>3 DEF ListRemove, RemoveFirstMatch, SelectInSeq

LEMMA MembersAreListed ==
  ASSUME units \in Seq(Units)
  PROVE  Members = {units[k] : k \in 1 .. Len(units)} /\ Members \subseteq Units
BY DEF Members, Range

LEMMA MakeIndexServes ==
  ASSUME units \in Seq(Units), MakeIndex
  PROVE  /\ IndexesServe(units, id_index', sourceindex', locationindex')
         /\ DOMAIN id_index' = {} => units = << >>
<1> USE MembersAreListed
<1>1. /\ DOMAIN id_index' = {Id(u) : u \in Members}
      /\ DOMAIN sourceindex' = {Source(u) : u \in Members}
      /\ \A s \in DOMAIN sourceindex' : sourceindex'[s] = Sharing(s)
      /\ DOMAIN locationindex' = UNION {Locations(u) : u \in Members}
  BY DEF MakeIndex
<1>2. DOMAIN id_index' = {} => DOMAIN sourceindex' = {} /\ DOMAIN locationindex' = {}
  BY <1>1
<1>3. \A u \in Units : Source(u) \in DOMAIN sourceindex'
                         <=> \E k \in 1 .. Len(units) : Source(units[k]) = Source(u)
  BY <1>1
<1>4. ASSUME NEW s \in DOMAIN sourceindex'
      PROVE  Lists(sourceindex'[s], units, s) /\ \E u \in Units : Source(u) = s
  BY <1>1, SharingLists
<1>5. ASSUME NEW l \in DOMAIN locationindex'
      PROVE  /\ l \in Locations(locationindex'[l])
             /\ \E k \in 1 .. Len(units) : units[k] = locationindex'[l]
  <2> DEFINE K == {k \in DOMAIN units : l \in Locations(units[k])}
  <2>1. K # {} /\ K \in SUBSET Nat /\ K \subseteq 1 .. Len(units)
    BY <1>1
  <2>2. locationindex'[l] = units[Min(K)]
    BY <1>1 DEF MakeIndex
  <2>3. Min(K) \in K
    <3> HIDE DEF K
    <3>1. \E x \in K : \A y \in K : x <= y
      BY <2>1, LeastMember
    <3>2. QED
      BY <3>1 DEF Min
  <2>4. QED
    BY <2>1, <2>2, <2>3
<1>6. DOMAIN id_index' = {} => units = << >>
  BY <1>1
<1>7. QED
  BY <1>2, <1>3, <1>4, <1>5, <1>6 DEF IndexesServe

LEMMA RequireIndexServes ==
  ASSUME IndInv, RequireIndex
  PROVE  /\ IndexesServe(units, id_index', sourceindex', locationindex')
         /\ DOMAIN id_index' = {} => units = << >>
<1>1. CASE DOMAIN id_index = {}
  BY <1>1, MakeIndexServes DEF RequireIndex, IndInv
<1>2. CASE DOMAIN id_index # {}
  BY <1>2 DEF RequireIndex, IndInv, indexes
<1>3. QED
  BY <1>1, <1>2

(* removeunit takes the unit's place out of the list, and never raises.    *)
LEMMA RemoveUnitStep ==
  ASSUME IdsAreDistinct, IndInv, NEW u \in Units, RemoveUnit(u)
  PROVE  \E p \in 1 .. Len(units) :
           /\ units[p] = u /\ units' = RemoveAt(units, p)
           /\ ~failed' /\ id_index' = id_index
           /\ sourceindex' = SourceIndexWithout(u) /\ locationindex' = LocationIndexWithout(u)
           /\ IsIndexed(u) => \E q \in 1 .. Len(sourceindex[Source(u)]) :
                /\ sourceindex[Source(u)][q] = u
                /\ Listed(u) = RemoveAt(sourceindex[Source(u)], q)
<1>1. PICK p \in 1 .. Len(units) : units[p] = u
  BY MembersAreListed DEF RemoveUnit, IndInv
<1>2. units' = RemoveAt(units, p)
  BY <1>1, RemoveByEquality DEF RemoveUnit, IndInv
<1>3. ASSUME IsIndexed(u)
      PROVE  \E q \in 1 .. Len(sourceindex[Source(u)]) :
               /\ sourceindex[Source(u)][q] = u
               /\ Listed(u) = RemoveAt(sourceindex[Source(u)], q)
  <2> DEFINE list == sourceindex[Source(u)]
  <2>1. Lists(list, units, Source(u))
    BY <1>3 DEF IsIndexed, IndInv, IndexesServe
  <2>2. list \in Seq(Units) /\ Distinct(list)
    BY <2>1, ListsAreDistinct DEF IndInv, Lists
  <2>3. PICK q \in 1 .. Len(list) : list[q] = u
    BY <1>1, <2>1 DEF Lists
  <2>4. Listed(u) = RemoveAt(list, q)
    BY <2>2, <2>3, RemoveByEquality DEF Listed
  <2>5. QED
    BY <2>3, <2>4
<1>4. ~(IsIndexed(u) /\ \A v \in Range(sourceindex[Source(u)]) : ~Equal(v, u))
  <2>1. SUFFICES ASSUME IsIndexed(u) PROVE \E v \in Range(sourceindex[Source(u)]) : Equal(v, u)
    OBVIOUS
  <2>2. sourceindex[Source(u)] \in Seq(Units)
    BY <2>1 DEF IsIndexed, IndInv, IndexesServe, Lists
  <2>3. u \in Range(sourceindex[Source(u)])
    BY <1>3, <2>1, <2>2 DEF Range
  <2>4. QED
    BY <2>3 DEF Equal
<1>5. /\ ~failed' /\ id_index' = id_index
      /\ sourceindex' = SourceIndexWithout(u) /\ locationindex' = LocationIndexWithout(u)
  BY <1>4 DEF RemoveUnit
<1>6. QED
  BY <1>1, <1>2, <1>3, <1>5

LEMMA RemoveUnitInv ==
  ASSUME IdsAreDistinct, IndInv, NEW u \in Units, RemoveUnit(u)
  PROVE  IndInv'
<1>1. PICK p \in 1 .. Len(units) :
        /\ units[p] = u /\ units' = RemoveAt(units, p)
        /\ id_index' = id_index
        /\ sourceindex' = SourceIndexWithout(u) /\ locationindex' = LocationIndexWithout(u)
        /\ IsIndexed(u) => \E q \in 1 .. Len(sourceindex[Source(u)]) :
             /\ sourceindex[Source(u)][q] = u
             /\ Listed(u) = RemoveAt(sourceindex[Source(u)], q)
  BY RemoveUnitStep
<1>2. units \in Seq(Units) /\ Distinct(units)
  BY DEF IndInv
<1>3. /\ units' \in Seq(Units) /\ Distinct(units')
      /\ \A x : (\E k \in 1 .. Len(units') : units'[k] = x)
                 <=> x # u /\ \E k \in 1 .. Len(units) : units[k] = x
  <2> DEFINE rest == RemoveAt(units, p)
  <2>1. rest \in Seq(Units)
    BY <1>2, RemoveAtSeq
  <2>2. Distinct(rest)
    BY <1>2, RemoveAtKeeps
  <2>3. \A x : (\E k \in 1 .. Len(rest) : rest[k] = x)
               <=> x # units[p] /\ \E k \in 1 .. Len(units) : units[k] = x
    BY <1>2, RemoveAtKeeps
  <2> HIDE DEF rest
  <2>4. Distinct(units')
    <3>1. Len(units') = Len(rest) /\ \A i : units'[i] = rest[i]
      BY <1>1 DEF rest
    <3>2. QED
      BY <2>2, <3>1 DEF Distinct
  <2>5. QED
    BY <1>1, <2>1, <2>3, <2>4 DEF rest
<1>4. CASE DOMAIN id_index = {}
  <2>1. DOMAIN sourceindex = {} /\ DOMAIN locationindex = {}
    BY <1>4 DEF IndInv, IndexesServe
  <2>2. DOMAIN sourceindex' = {} /\ DOMAIN locationindex' = {}
    BY <1>1, <2>1 DEF SourceIndexWithout, LocationIndexWithout, IsIndexed
  <2>3. QED
    BY <1>1, <1>3, <1>4, <2>2 DEF IndInv, IndexesServe
<1>5. CASE DOMAIN id_index # {}
  <2>1. /\ \A v \in Units : Source(v) \in DOMAIN sourceindex
                              <=> \E k \in 1 .. Len(units) : Source(units[k]) = Source(v)
        /\ \A source \in DOMAIN sourceindex :
             Lists(sourceindex[source], units, source) /\ \E v \in Units : Source(v) = source
        /\ \A l \in DOMAIN locationindex : /\ l \in Locations(locationindex[l])
                                            /\ \E k \in 1 .. Len(units) : units[k] = locationindex[l]
    BY <1>5 DEF IndInv, IndexesServe
  <2>2. IsIndexed(u)
    BY <1>1, <2>1 DEF IsIndexed
  <2>3. PICK q \in 1 .. Len(sourceindex[Source(u)]) :
          /\ sourceindex[Source(u)][q] = u
          /\ Listed(u) = RemoveAt(sourceindex[Source(u)], q)
    BY <1>1, <2>2
  <2>4. Lists(Listed(u), units', Source(u))
    BY <1>1, <1>2, <2>1, <2>2, <2>3, ItsListShrinks DEF IsIndexed
  <2>5. ASSUME NEW source \in DOMAIN sourceindex, source # Source(u)
        PROVE  Lists(sourceindex[source], units', source)
    BY <1>1, <1>2, <2>1, <2>5, OtherListStays
  <2>6. /\ DOMAIN sourceindex' = IF Listed(u) = << >> THEN DOMAIN sourceindex \ {Source(u)}
                                 ELSE DOMAIN sourceindex
        /\ \A source \in DOMAIN sourceindex' :
             sourceindex'[source] = IF source = Source(u) THEN Listed(u) ELSE sourceindex[source]
    <3>1. CASE Listed(u) = << >>
      <4>1. sourceindex' = Without(sourceindex, Source(u))
        BY <1>1, <2>2, <3>1 DEF SourceIndexWithout
      <4>2. QED
        BY <3>1, <4>1 DEF Without
    <3>2. CASE Listed(u) # << >>
      <4>1. sourceindex' = [sourceindex EXCEPT ![Source(u)] = Listed(u)]
        BY <1>1, <2>2, <3>2 DEF SourceIndexWithout
      <4>2. QED
        BY <2>2, <3>2, <4>1 DEF IsIndexed
    <3>3. QED
      BY <3>1, <3>2
  <2>7. ASSUME NEW source \in DOMAIN sourceindex'
        PROVE  Lists(sourceindex'[source], units', source) /\ \E v \in Units : Source(v) = source
    BY <2>1, <2>4, <2>5, <2>6
  <2>8. Listed(u) = << >> <=> ~\E k \in 1 .. Len(units') : Source(units'[k]) = Source(u)
    <3>1. Listed(u) \in Seq(Units)
      BY <2>4 DEF Lists
    <3>2. Listed(u) = << >> <=> ~\E i \in 1 .. Len(Listed(u)) : Listed(u)[i] \in Units
      BY <3>1
    <3>3. \A v \in Units : (\E i \in 1 .. Len(Listed(u)) : Listed(u)[i] = v)
                            <=> Source(v) = Source(u) /\ (\E k \in 1 .. Len(units') : units'[k] = v)
      BY <2>4 DEF Lists
    <3>4. \A k \in 1 .. Len(units') : units'[k] \in Units
      BY <1>3
    <3>5. \A i \in 1 .. Len(Listed(u)) : Listed(u)[i] \in Units
      BY <3>1
    <3> HIDE DEF Listed, Source
    <3>6. QED
      BY <3>2, <3>3, <3>4, <3>5
  <2>9. ASSUME NEW v \in Units
        PROVE  Source(v) \in DOMAIN sourceindex'
                 <=> \E k \in 1 .. Len(units') : Source(units'[k]) = Source(v)
    <3>1. CASE Source(v) = Source(u)
      BY <2>2, <2>6, <2>8, <3>1 DEF IsIndexed
    <3>2. CASE Source(v) # Source(u)
      <4>1. Source(v) \in DOMAIN sourceindex' <=> Source(v) \in DOMAIN sourceindex
        BY <2>6, <3>2
      <4>2. (\E k \in 1 .. Len(units') : Source(units'[k]) = Source(v))
              <=> (\E k \in 1 .. Len(units) : Source(units[k]) = Source(v))
        BY <1>3, <3>2
      <4>3. QED
        BY <2>1, <4>1, <4>2
    <3>3. QED
      BY <3>1, <3>2
  <2>10. ASSUME NEW l \in DOMAIN locationindex'
         PROVE  /\ l \in Locations(locationindex'[l])
                /\ \E k \in 1 .. Len(units') : units'[k] = locationindex'[l]
    <3>1. /\ l \in DOMAIN locationindex /\ locationindex'[l] = locationindex[l]
          /\ ~(l \in Locations(u) /\ Equal(locationindex[l], u))
      BY <1>1, <2>10 DEF LocationIndexWithout
    <3>2. locationindex[l] # u
      BY <2>1, <3>1 DEF Equal
    <3>3. QED
      BY <1>3, <2>1, <3>1, <3>2
  <2>11. QED
    BY <1>1, <1>3, <1>5, <2>7, <2>9, <2>10 DEF IndInv, IndexesServe
<1>6. QED
  BY <1>4, <1>5

LEMMA NextInv ==
  ASSUME IdsAreDistinct, ~AddAfterLookup, IndInv, [Next]_vars
  PROVE  IndInv'
<1>1. ASSUME NEW u \in Units, AddUnit(u) PROVE IndInv'
  <2>1. DOMAIN id_index = {} /\ u \notin Members /\ units' = Append(units, u)
    BY <1>1 DEF AddUnit
  <2>2. UNCHANGED indexes
    BY <1>1 DEF AddUnit
  <2>3. units' \in Seq(Units) /\ Distinct(units')
    BY <2>1, MembersAreListed DEF IndInv, Distinct
  <2>4. QED
    BY <2>1, <2>2, <2>3 DEF IndInv, IndexesServe, indexes
<1>2. ASSUME NEW u \in Units, RemoveUnit(u) PROVE IndInv'
  BY <1>2, RemoveUnitInv
<1>3. ASSUME NEW u \in Units, NEW text \in Texts, ChangeTarget(u, text) PROVE IndInv'
  BY <1>3 DEF ChangeTarget, IndInv, IndexesServe, Distinct, Lists, indexes
<1>4. ASSUME NEW u \in Units, Find(Source(u)) PROVE IndInv'
  <2>1. IndexesServe(units, id_index', sourceindex', locationindex') /\ units' = units
    BY <1>4, RequireIndexServes DEF Find
  <2>2. QED
    BY <2>1 DEF IndInv, IndexesServe, Distinct, Lists
<1>5. ASSUME Reindex PROVE IndInv'
  <2>1. units' = units
    BY <1>5 DEF Reindex
  <2>2. IndexesServe(units, id_index', sourceindex', locationindex')
    BY <1>5, MakeIndexServes DEF Reindex, IndInv
  <2>3. QED
    BY <2>1, <2>2 DEF IndInv, IndexesServe, Distinct, Lists
<1>6. CASE UNCHANGED vars
  <2>1. /\ units' = units /\ id_index' = id_index
        /\ sourceindex' = sourceindex /\ locationindex' = locationindex
    BY <1>6 DEF vars
  <2>2. QED
    BY <2>1 DEF IndInv, IndexesServe, Distinct, Lists
<1>7. QED
  BY <1>1, <1>2, <1>3, <1>4, <1>5, <1>6 DEF Next

LEMMA IndInvHolds ==
  ASSUME IdsAreDistinct, ~AddAfterLookup
  PROVE  Spec => []IndInv
<1>1. IndInv /\ [Next]_vars => IndInv'
  BY NextInv
<1>2. QED
  BY InitInv, <1>1, PTL DEF Spec

(* The head of the list of a source is the first unit of the store with    *)
(* that source.                                                            *)
LEMMA FoundIsFirst ==
  ASSUME units \in Seq(Units), Distinct(units), NEW u \in Units,
         NEW ids, NEW sources, NEW locations,
         IndexesServe(units, ids, sources, locations), DOMAIN ids = {} => units = << >>
  PROVE  Found(Source(u), sources) = Lookup!FirstWith(Source(u))
<1> DEFINE K == {k \in DOMAIN units : Source(units[k]) = Source(u)}
           least == CHOOSE k \in K : \A l \in K : k <= l
           list == sources[Source(u)]
<1>1. Lookup!FirstWith(Source(u)) = IF K = {} THEN NoUnit ELSE units[least]
  BY DEF Lookup!FirstWith
<1>2. Source(u) \in DOMAIN sources <=> K # {}
  <2>1. DOMAIN units = 1 .. Len(units)
    OBVIOUS
  <2>2. CASE DOMAIN ids = {}
    BY <2>1, <2>2 DEF IndexesServe
  <2>3. CASE DOMAIN ids # {}
    BY <2>1, <2>3 DEF IndexesServe
  <2>4. QED
    BY <2>2, <2>3
<1>3. ASSUME K # {} PROVE Head(list) = units[least]
  <2>1. least \in K /\ \A l \in K : least <= l
    <3>1. K \in SUBSET Nat
      OBVIOUS
    <3> HIDE DEF K
    <3>2. \E k \in K : \A l \in K : k <= l
      BY <1>3, <3>1, LeastMember
    <3>3. QED
      BY <3>2
  <2> HIDE DEF least
  <2>2. Lists(list, units, Source(u))
    BY <1>2, <1>3 DEF IndexesServe
  <2>3. least \in 1 .. Len(units) /\ Source(units[least]) = Source(u) /\ units[least] \in Units
    BY <2>1
  <2>4. PICK i \in 1 .. Len(list) : list[i] = units[least]
    BY <2>2, <2>3 DEF Lists
  <2>5. list \in Seq(Units) /\ Len(list) \in Nat /\ 1 \in 1 .. Len(list) /\ Head(list) = list[1]
    BY <2>2, <2>4 DEF Lists
  <2>6. ASSUME i # 1 PROVE FALSE
    <3>1. 1 < i
      BY <2>4, <2>5, <2>6
    <3>2. PICK k \in 1 .. Len(units), l \in 1 .. Len(units) :
            k < l /\ units[k] = list[1] /\ units[l] = list[i]
      BY <2>2, <2>4, <2>5, <3>1 DEF Lists
    <3>3. l = least
      BY <2>3, <2>4, <3>2 DEF Distinct
    <3>4. Source(list[1]) = Source(u)
      <4>1. list[1] \in Units
        BY <2>5
      <4>2. QED
        BY <2>2, <2>5, <4>1 DEF Lists
    <3>5. k \in K
      BY <3>2, <3>4
    <3>6. QED
      BY <2>1, <2>3, <3>2, <3>3, <3>5
  <2>7. QED
    BY <2>4, <2>5, <2>6
<1>4. QED
  BY <1>1, <1>2, <1>3 DEF Found

-----------------------------------------------------------------------------
(* The theorems.                                                           *)

(* Whatever is removed, edited or indexed again, an index that is in place *)
(* has, for each source, the units of the store with that source in their  *)
(* order, and no location leads to a unit that is gone; for all stores     *)
(* whose ids are distinct and that grow only before the first lookup.      *)
THEOREM IndexesExact ==
  ASSUME IdsAreDistinct, ~AddAfterLookup
  PROVE  Spec => []IndexesAreExact
<1>1. ASSUME IndInv, DOMAIN id_index # {}
      PROVE  /\ DOMAIN sourceindex = {Source(u) : u \in Members}
             /\ \A source \in DOMAIN sourceindex :
                  /\ Range(sourceindex[source]) = {u \in Members : Source(u) = source}
                  /\ InOrder(sourceindex[source])
             /\ Range(locationindex) \subseteq Members
  <2>1. units \in Seq(Units) /\ Members = {units[k] : k \in 1 .. Len(units)} /\ Members \subseteq Units
    BY <1>1, MembersAreListed DEF IndInv
  <2>2. /\ \A u \in Units : Source(u) \in DOMAIN sourceindex
                             <=> \E k \in 1 .. Len(units) : Source(units[k]) = Source(u)
        /\ \A source \in DOMAIN sourceindex :
             Lists(sourceindex[source], units, source) /\ \E u \in Units : Source(u) = source
        /\ \A l \in DOMAIN locationindex : \E k \in 1 .. Len(units) : units[k] = locationindex[l]
    BY <1>1 DEF IndInv, IndexesServe
  <2>3. DOMAIN sourceindex = {Source(u) : u \in Members}
    BY <2>1, <2>2
  <2>4. ASSUME NEW source \in DOMAIN sourceindex
        PROVE  /\ Range(sourceindex[source]) = {u \in Members : Source(u) = source}
               /\ InOrder(sourceindex[source])
    <3> DEFINE list == sourceindex[source]
    <3>1. Lists(list, units, source)
      BY <2>2
    <3>2. list \in Seq(Units) /\ Range(list) = {list[i] : i \in 1 .. Len(list)}
      BY <3>1 DEF Lists, Range
    <3> HIDE DEF list
    <3>3. Range(list) = {u \in Members : Source(u) = source}
      BY <2>1, <3>1, <3>2 DEF Lists
    <3>4. InOrder(list)
      <4>1. DOMAIN list = 1 .. Len(list) /\ DOMAIN units = 1 .. Len(units)
        BY <2>1, <3>2
      <4>2. ASSUME NEW i \in DOMAIN list, NEW j \in DOMAIN list, i < j
            PROVE  \E k, l \in DOMAIN units : k < l /\ units[k] = list[i] /\ units[l] = list[j]
        <5>1. i \in 1 .. Len(list) /\ j \in 1 .. Len(list)
          BY <4>1
        <5>2. PICK k \in 1 .. Len(units), l \in 1 .. Len(units) :
                k < l /\ units[k] = list[i] /\ units[l] = list[j]
          BY <3>1, <4>2, <5>1 DEF Lists
        <5>3. k \in DOMAIN units /\ l \in DOMAIN units
          BY <4>1
        <5>4. QED
          BY <5>2, <5>3
      <4>3. QED
        BY <4>2 DEF InOrder
    <3>5. QED
      BY <3>3, <3>4 DEF list
  <2>5. Range(locationindex) \subseteq Members
    BY <2>1, <2>2 DEF Range
  <2>6. QED
    BY <2>3, <2>4, <2>5
<1>2. IndInv => IndexesAreExact
  BY <1>1 DEF IndexesAreExact
<1>3. QED
  BY <1>2, IndInvHolds, PTL

(* For all such stores, removeunit never raises between the list and the   *)
(* indexes, and the store no longer has the unit.                          *)
THEOREM RemovalRemoves ==
  ASSUME IdsAreDistinct, ~AddAfterLookup
  PROVE  Spec => RemoveRemoves
<1>1. ASSUME IndInv, NEW u \in Units, RemoveUnit(u)
      PROVE  u \notin Range(units') /\ ~failed'
  <2>1. PICK p \in 1 .. Len(units) :
          units[p] = u /\ units' = RemoveAt(units, p) /\ ~failed'
    BY <1>1, RemoveUnitStep
  <2> DEFINE rest == RemoveAt(units, p)
  <2>2. rest \in Seq(Units) /\ \A k \in 1 .. Len(rest) : rest[k] # u
    BY <1>1, <2>1, RemoveAtSeq, RemoveAtKeeps DEF IndInv
  <2>3. u \notin Range(rest)
    <3> HIDE DEF rest
    <3>1. QED
      BY <2>2 DEF Range
  <2>4. Range(units') = Range(rest)
    BY <2>1
  <2>5. QED
    BY <2>1, <2>3, <2>4
<1>2. IndInv /\ [Next]_vars => [\A u \in Units : RemoveUnit(u) => u \notin Range(units') /\ ~failed']_vars
  BY <1>1
<1>3. QED
  BY <1>2, IndInvHolds, PTL DEF Spec, RemoveRemoves

(* A store with its indexes implements one that searches its list: to its  *)
(* clients, findunit answers with the first unit of the source, whatever   *)
(* was removed, edited or indexed before.                                  *)
THEOREM StoreImplementsLookup ==
  ASSUME IdsAreDistinct, ~AddAfterLookup
  PROVE  Spec => LookupSpec
<1>1. Init => Lookup!Init
  BY DEF Init, Lookup!Init
<1>2. ASSUME IndInv, [Next]_vars
      PROVE  [Lookup!Next]_<<units, answer>>
  <2>1. ASSUME NEW u \in Units, AddUnit(u) PROVE Lookup!Add(u)
    BY <1>2, <2>1, MembersAreListed DEF AddUnit, Lookup!Add, IndInv
  <2>2. ASSUME NEW u \in Units, RemoveUnit(u) PROVE Lookup!Remove(u)
    <3>1. PICK p \in 1 .. Len(units) : units[p] = u /\ units' = RemoveAt(units, p)
      BY <1>2, <2>2, RemoveUnitStep
    <3>2. p \in DOMAIN units /\ UNCHANGED answer
      BY <1>2, <2>2 DEF IndInv, RemoveUnit
    <3>3. QED
      BY <3>1, <3>2 DEF Lookup!Remove, RemoveAt
  <2>3. ASSUME NEW u \in Units, NEW text \in Texts, ChangeTarget(u, text)
        PROVE  UNCHANGED <<units, answer>>
    BY <2>3 DEF ChangeTarget
  <2>4. ASSUME NEW u \in Units, Find(Source(u)) PROVE Lookup!Find(Source(u))
    <3>1. /\ IndexesServe(units, id_index', sourceindex', locationindex')
          /\ DOMAIN id_index' = {} => units = << >>
      BY <1>2, <2>4, RequireIndexServes DEF Find
    <3>2. Found(Source(u), sourceindex') = Lookup!FirstWith(Source(u))
      BY <1>2, <3>1, FoundIsFirst DEF IndInv
    <3>3. QED
      BY <2>4, <3>2 DEF Find, Lookup!Find
  <2>5. ASSUME Reindex PROVE UNCHANGED <<units, answer>>
    BY <2>5 DEF Reindex
  <2>6. CASE UNCHANGED vars
    BY <2>6 DEF vars
  <2>7. QED
    BY <1>2, <2>1, <2>2, <2>3, <2>4, <2>5, <2>6 DEF Next, Lookup!Next
<1>3. IndInv /\ [Next]_vars => [Lookup!Next]_<<units, answer>>
  BY <1>2
<1>4. QED
  BY <1>1, <1>3, IndInvHolds, PTL DEF Spec, LookupSpec, Lookup!Spec
=============================================================================
