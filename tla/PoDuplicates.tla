---------------------------- MODULE PoDuplicates ----------------------------
(***************************************************************************)
(* pofile.removeduplicates (translate/storage/pypo.py), which a converter  *)
(* calls on the units it has made of a localization file, where a source   *)
(* may occur often: with style "merge" the units of one id become one,     *)
(* with style "msgctxt" their locations tell them apart.                   *)
(*                                                                         *)
(* A context is what the code appends to: a sequence of lines, the text a  *)
(* converter has set or the locations of a unit.  The KDE comment that     *)
(* style "merge" adds is a line of it too, which no text is equal to, as   *)
(* getid writes the two in different ways.  The list markedpos decides     *)
(* nothing: a unit in it has a msgctxt by then.                            *)
(***************************************************************************)
EXTENDS PoUnit

CONSTANTS
  Inputs   \* for each style, the sequences of units converters produce

ASSUME InputsAssumption == DOMAIN Inputs = {"merge", "msgctxt"}
ASSUME NoContextAssumption == NoContext = << >>

IsSeq(s) == s \in Seq(Range(s))

(* addcomment: the KDE comment that names the places of a unit. *)
Comment(places) == <<"_:", places>>

(* A unit as a converter makes it: live, and with at most the one line of  *)
(* context that setcontext gives it, which an empty text does not.         *)
IsConverted(u) ==
  /\ IsUnit(u) /\ ~u.obsolete /\ IsSeq(u.locations)
  /\ u.context = NoContext \/ \E line \in Range(u.context) : u.context = <<line>> /\ line # << >>

(* The files converters produce.  A source may occur in them as often as   *)
(* it likes, with or without a context, at the same places or at none.     *)
ConvertedFiles ==
  \A s \in DOMAIN Inputs : \A file \in Inputs[s] :
    /\ IsSeq(file)
    /\ \A i \in 1 .. Len(file) : IsConverted(file[i])
    /\ \A i, j \in 1 .. Len(file) : file[i].context # <<Comment(file[j].locations)>>

VARIABLES
  style,    \* --duplicates: "merge" or "msgctxt"
  input,    \* self.units as the converter left them
  units,    \* the unit objects, changed in place; self.units at the end
  unique,   \* uniqueunits: positions in units
  id_dict,  \* the position of the first unit of each id
  next,     \* the position the loop has reached
  done

vars == <<style, input, units, unique, id_dict, next, done>>

(* getid: the empty lines of a context leave no trace in it. *)
MsgId(u) == <<Select(u.context, Range(u.context) \ {<< >>}), u.source>>
EmptyId  == << << >>, NoText>>

AppendContext(u) == [u EXCEPT !.context = Append(u.context, u.locations)]
AddComment(u)    == [u EXCEPT !.context = Append(u.context, Comment(u.locations))]

Init ==
  /\ style \in DOMAIN Inputs /\ input \in Inputs[style]
  /\ units = input /\ unique = << >>
  /\ id_dict = [id \in {} |-> 0]
  /\ next = 1 /\ done = FALSE

Current == units[next]
IsPlainHeader == IsHeader(Current) /\ Current.locations = << >>
Seen == MsgId(Current) \in DOMAIN id_dict

Advance == next' = next + 1 /\ UNCHANGED <<style, input, done>>

Keep == unique' = Append(unique, next)

(* "header msgids shouldn't be merged..." *)
KeepHeader ==
  /\ next <= Len(units) /\ IsPlainHeader
  /\ Keep /\ Advance /\ UNCHANGED <<units, id_dict>>

(* Mutant: an empty id is an id like any other. *)
KeepFirstAnyId ==
  /\ next <= Len(units) /\ ~IsPlainHeader /\ ~Seen
  /\ id_dict' = [id \in DOMAIN id_dict \cup {MsgId(Current)} |->
                   IF id \in DOMAIN id_dict THEN id_dict[id] ELSE next]
  /\ Keep /\ Advance /\ UNCHANGED units

(* The first unit of its id: an empty id is told apart by its locations.   *)
KeepFirst ==
  /\ next <= Len(units) /\ ~IsPlainHeader /\ ~Seen
  /\ units' = IF MsgId(Current) = EmptyId
              THEN [units EXCEPT ![next] = IF style = "merge" THEN AddComment(Current)
                                           ELSE AppendContext(Current)]
              ELSE units
  /\ id_dict' = [id \in DOMAIN id_dict \cup {MsgId(Current)} |->
                   IF id \in DOMAIN id_dict THEN id_dict[id] ELSE next]
  /\ Keep /\ Advance

MergeDuplicate ==
  /\ next <= Len(units) /\ ~IsPlainHeader /\ Seen /\ style = "merge"
  /\ IF MsgId(Current) # EmptyId
     THEN LET first == id_dict[MsgId(Current)]
          IN /\ units' = [units EXCEPT ![first] =
                            Merge(units[first], Current, FALSE, TRUE, FALSE)]
             /\ UNCHANGED unique
     ELSE units' = [units EXCEPT ![next] = AddComment(Current)] /\ Keep
  /\ Advance /\ UNCHANGED id_dict

(* Mutant: both units get the locations of the first. *)
DisambiguateByFirst ==
  /\ next <= Len(units) /\ ~IsPlainHeader /\ Seen /\ style = "msgctxt"
  /\ LET first == id_dict[MsgId(Current)]
         orig == AppendContext(units[first])
     IN /\ units' = [units EXCEPT ![first] = orig]
        /\ IF Current.context # << >> THEN Keep ELSE UNCHANGED unique
  /\ Advance /\ UNCHANGED id_dict

(* Both units get their locations as context, the first one only once; a   *)
(* duplicate whose context is the first one's is dropped with a warning.   *)
DisambiguateDuplicate ==
  /\ next <= Len(units) /\ ~IsPlainHeader /\ Seen /\ style = "msgctxt"
  /\ LET first == id_dict[MsgId(Current)]
         orig == IF units[first].context = << >>
                 THEN AppendContext(units[first]) ELSE units[first]
         copy == AppendContext(Current)
     IN /\ units' = [units EXCEPT ![first] = orig, ![next] = copy]
        /\ IF copy.context # orig.context THEN Keep ELSE UNCHANGED unique
  /\ Advance /\ UNCHANGED id_dict

Return ==
  /\ next > Len(units) /\ ~done
  /\ units' = [k \in DOMAIN unique |-> units[unique[k]]]
  /\ done' = TRUE
  /\ UNCHANGED <<style, input, unique, id_dict, next>>

Next == KeepHeader \/ KeepFirst \/ MergeDuplicate \/ DisambiguateDuplicate \/ Return

Spec == Init /\ [][Next]_vars

-----------------------------------------------------------------------------
(* The units that removeduplicates does not merge, and has only their      *)
(* places to tell apart by.                                                *)
ToldApart(u) == style = "msgctxt" \/ MsgId(u) = EmptyId

(* Their places cannot do it: two such units of one id have the same ones, *)
(* or one has none and keeps its bare id, or the places of one read as     *)
(* what a converter set as the context of the other.                       *)
PlacesFail(u, v) ==
  \/ /\ u.context = v.context
     /\ \/ u.locations = v.locations
        \/ style = "msgctxt" /\ << >> \in {u.locations, v.locations}
  \/ style = "msgctxt" /\ (u.context = <<v.locations>> \/ v.context = <<u.locations>>)

(* Two units of the result have one id only where places had to tell them  *)
(* apart and cannot: units that are merged never do, nor do units at       *)
(* places of their own, however many share a source or a context.          *)
ResultIsUnique ==
  done => \A i, j \in DOMAIN units :
    MsgId(units[i]) = MsgId(units[j]) =>
      \/ i = j
      \/ LET u == input[unique[i]]
             v == input[unique[j]]
         IN ToldApart(u) /\ ToldApart(v) /\ PlacesFail(u, v)

(* The units of the input that share an id, and the unit of the result     *)
(* with that id (style "merge").                                           *)
Sharing(i) == {j \in DOMAIN input : MsgId(input[j]) = MsgId(input[i])}
MergedInto(i) == {k \in DOMAIN units : MsgId(units[k]) = MsgId(input[i])}

(* Where the duplicates agree on a finished translation, or lack one, the  *)
(* merged unit is that translation, and it is not fuzzy: merging never     *)
(* loses it, whatever the order of the units.                              *)
AgreedTranslationSurvives ==
  done /\ style = "merge" => \A i \in DOMAIN input :
    /\ IsTranslated(input[i])
    /\ \A j \in Sharing(i) : ~IsFuzzy(input[j]) /\ input[j].target \in {NoText, input[i].target}
    => \A k \in MergedInto(i) : IsTranslated(units[k]) /\ units[k].target = input[i].target

(* Nothing a converter found is lost.  With style "merge" the merged unit  *)
(* names every place its duplicates came from, once when they did; any     *)
(* other unit is in the result with its own places and translation.  The   *)
(* one that is dropped with a warning has no context, and stands beside a  *)
(* unit of its source that has none either and the same places.            *)
PlacesAreMerged(i) ==
  \E k \in MergedInto(i) :
    /\ Range(units[k].locations) = UNION {Range(input[j].locations) : j \in Sharing(i)}
    /\ (\A j \in Sharing(i) : IsInjective(input[j].locations)) => IsInjective(units[k].locations)

IsKept(i) ==
  \E k \in DOMAIN units : /\ units[k].source = input[i].source
                          /\ units[k].locations = input[i].locations
                          /\ units[k].target = input[i].target

IsDropped(i) ==
  /\ input[i].context = NoContext
  /\ \E j \in DOMAIN input : /\ j < i /\ IsKept(j) /\ input[j].context = NoContext
                             /\ input[j].source = input[i].source
                             /\ input[j].locations = input[i].locations

NothingIsLost ==
  done => \A i \in DOMAIN input :
    IF style = "merge" /\ MsgId(input[i]) # EmptyId THEN PlacesAreMerged(i)
    ELSE IsKept(i) \/ (style = "msgctxt" /\ IsDropped(i))
=============================================================================
