------------------------------- MODULE Pot2po -------------------------------
(***************************************************************************)
(* pot2po (translate/convert/pot2po.py with tools/pretranslate.py and      *)
(* search/match.py): each time the developers extract a new message list,  *)
(* the old translation file is the template from which the new file is     *)
(* pretranslated, and what the list no longer names is made obsolete.      *)
(* Between runs a translator edits the file.  The run goes one entry at a  *)
(* time: first the entries of the new file, then those of the old one.     *)
(*                                                                         *)
(* Headers and plural counts are left out, as is what a matcher computes:  *)
(* Similarity gives the score of two sources.                              *)
(***************************************************************************)
EXTENDS PoIndex

CONSTANTS
  Pots,            \* the message lists the developers may extract
  Following,       \* the lists that may replace each list
  Texts,           \* the translations a translator may enter
  FuzzyMatching,   \* FALSE for the lists that are merged with --nofuzzymatching
  MergeOn,         \* the X-Merge-On header of each list: "id" or "location"
  TM,              \* the compendium of --tm, a sequence of entries
  Similarity,      \* the score of two sources, from 0 to 100
  MinSimilarity,   \* --similarity
  ShortSources,    \* sources of a single character
  ColonLocations   \* locations with a ":", as gettext writes them

(* xgettext writes no message twice and none with a translation.           *)
ASSUME PotsAssumption ==
  \A p \in Pots :
    /\ IsStore(p) /\ UniqueIds(p)
    /\ \A k \in DOMAIN p : /\ IsTranslatable(p[k]) /\ ~HasTarget(p[k]) /\ ~IsFuzzy(p[k])
                           /\ HasFlagLines(p[k])

Sources == UNION {{p[k].source : k \in DOMAIN p} : p \in Pots}
ASSUME SimilarityAssumption ==
  MinSimilarity \in Nat /\ \A s, t \in Sources : Similarity[s, t] \in 0 .. 100
ASSUME TMAssumption == IsStore(TM)
ASSUME MergeOnAssumption == MergeOn \in [Pots -> {"id", "location"}]
ASSUME FollowingAssumption == Following \in [Pots -> SUBSET Pots]
ASSUME FuzzyMatchingAssumption == FuzzyMatching \in [Pots -> BOOLEAN]

(* Where entries are matched fuzzily there are no contexts: what buildunits *)
(* gives a message without a context may be the finished translation of    *)
(* another context.                                                        *)
PlainProjects ==
  /\ \A k \in DOMAIN TM : TM[k].context = NoContext
  /\ \A p \in Pots : FuzzyMatching[p] => \A k \in DOMAIN p : p[k].context = NoContext
  /\ \A p \in Pots : \A q \in Following[p] : FuzzyMatching[q] => FuzzyMatching[p]

VARIABLES
  pot,       \* input_store: the message list
  po,        \* template_store, and the file a run has written
  template,  \* whether that file exists
  out,       \* temp_store, the copy of pot a run fills in
  reused,    \* the positions of po that carry the attribute "reused"
  pc, next,  \* where the run is
  approved,  \* history: <<id, text>> a translator stood by
  edited     \* history: pot or po has changed since the last run ended

vars == <<pot, po, template, out, reused, pc, next, approved, edited>>

-----------------------------------------------------------------------------
(* Finding the old entry to take a translation from.                       *)

UnitAt(k) == IF k = 0 THEN {} ELSE {po[k]}

(* Mutant: the id is taken to be the source. *)
MatchTemplateIdAnyContext(u) == UnitAt(FindUnit(po, u.source))

MatchTemplateId(u) == UnitAt(FindId(po, GetId(u)))

MatchTemplateLocation(u) ==
  LET usable == {i \in DOMAIN u.locations :
                   LET k == FindLocation(po, u.locations[i])
                   IN k # 0 /\ po[k].source = u.source /\ HasTarget(po[k])}
  IN IF u.locations = << >> \/ u.locations[1] \in ColonLocations
     THEN MatchTemplateId(u)
     ELSE IF usable = {} THEN {} ELSE UnitAt(FindLocation(po, u.locations[Min(usable)]))

MatchSource(u) ==
  IF u.source \in ShortSources THEN {} ELSE UnitAt(FindUnit(po, u.source))

(* matcher.usable: an entry is remembered unless the memory holds the same *)
(* target for its source already.                                          *)
Eligible(store, usefuzzy) ==
  {k \in DOMAIN store : /\ store[k].source \notin ShortSources \cup {NoText}
                        /\ HasTarget(store[k]) /\ (usefuzzy \/ ~IsFuzzy(store[k]))}

Usable(store, usefuzzy) ==
  {k \in Eligible(store, usefuzzy) :
     LET earlier == {j \in Eligible(store, usefuzzy) :
                       j < k /\ store[j].source = store[k].source}
     IN earlier = {} \/ store[Max(earlier)].target # store[k].target}

Near(store, usefuzzy, source) ==
  {k \in Usable(store, usefuzzy) : Similarity[source, store[k].source] >= MinSimilarity}

(* buildunits: a candidate has no context. *)
Built(c) ==
  MarkFuzzy([NewUnit(c.source, NoContext) EXCEPT
               !.target = c.target, !.othercomments = c.othercomments], IsFuzzy(c))

(* The units a matcher may return first for a source: the candidates with  *)
(* the best score, the earliest of each source.                            *)
BestMatches(store, usefuzzy, source) ==
  LET near == Near(store, usefuzzy, source)
      score(k) == Similarity[source, store[k].source]
      best == {k \in near : /\ \A j \in near : score(j) <= score(k)
                            /\ \A j \in near : j < k => store[j].source # store[k].source}
  IN {Built(store[k]) : k \in best}

(* The matcher of the old file takes fuzzy entries, that of --tm does not. *)
MatchFuzzy(u) ==
  LET old == BestMatches(po, TRUE, u.source)
  IN IF old # {} THEN old ELSE BestMatches(TM, FALSE, u.source)

Translated(units) == \E m \in units : HasTarget(m)

(* matching_unit at the end of pretranslate_unit: empty for None; several  *)
(* when fuzzy candidates of different sources have the same score.         *)
MatchingUnits(u) ==
  LET exact == IF MergeOn[pot] = "location" THEN MatchTemplateLocation(u) ELSE MatchTemplateId(u)
  IN IF Translated(exact) \/ ~FuzzyMatching[pot] THEN exact
     ELSE IF Translated(MatchSource(u)) THEN MatchSource(u)
     ELSE MatchFuzzy(u)

-----------------------------------------------------------------------------
Init ==
  /\ pot \in Pots
  /\ po = << >> /\ template = FALSE
  /\ out = << >> /\ reused = {}
  /\ pc = "idle" /\ next = 1
  /\ approved = {<<GetId(TM[k]), TM[k].target>> : k \in DOMAIN TM}
  /\ edited = TRUE

(* The developers extract another message list. *)
Extract ==
  /\ pc = "idle"
  /\ pot' \in Following[pot]
  /\ edited' = TRUE
  /\ UNCHANGED <<po, template, out, reused, pc, next, approved>>

(* A translator enters a translation of a live entry, or doubts the one    *)
(* that is there.                                                          *)
Translate(k, text) ==
  /\ pc = "idle" /\ ~po[k].obsolete
  /\ po' = [po EXCEPT ![k] = MarkFuzzy(SetTarget(po[k], text), FALSE)]
  /\ approved' = approved \cup {<<GetId(po[k]), text>>}
  /\ edited' = TRUE
  /\ UNCHANGED <<pot, template, out, reused, pc, next>>

Doubt(k) ==
  /\ pc = "idle" /\ ~po[k].obsolete /\ HasTarget(po[k])
  /\ po' = [po EXCEPT ![k] = MarkFuzzy(po[k], TRUE)]
  /\ edited' = TRUE
  /\ UNCHANGED <<pot, template, out, reused, pc, next, approved>>

(* convertpot reads the files; a unit read has no attribute "reused". *)
Start ==
  /\ pc = "idle"
  /\ po' = [k \in DOMAIN po |-> Parse(po[k])]
  /\ out' = pot /\ reused' = {}
  /\ pc' = "merging" /\ next' = 1
  /\ UNCHANGED <<pot, template, approved, edited>>

(* mark_reused: the first old entry with the source of the match; a match  *)
(* from the compendium may have none.                                      *)
MarkReused(m) == reused \cup ({FindUnit(po, m.source)} \ {0})

(* With a compendium and no old file, match_source asks None for a unit.   *)
AsksNone(u) ==
  /\ IsTranslatable(u) /\ u.source \notin ShortSources
  /\ ~template /\ FuzzyMatching[pot] /\ TM # << >>

(* The driver reports the exception and leaves the output file as it was   *)
(* opened: empty.                                                          *)
Abort ==
  /\ pc = "merging" /\ next <= Len(out) /\ AsksNone(out[next])
  /\ po' = << >> /\ template' = TRUE /\ pc' = "idle"
  /\ out' = << >> /\ reused' = {} /\ next' = 1 /\ edited' = TRUE
  /\ UNCHANGED <<pot, approved>>

(* One turn of convert_stores' loop: pretranslate_unit with mark_reused.   *)
PretranslateUnit ==
  /\ pc = "merging" /\ next <= Len(out) /\ ~AsksNone(out[next])
  /\ LET u == out[next]
         units == IF IsTranslatable(u) THEN MatchingUnits(u) ELSE {}
     IN IF units = {} THEN UNCHANGED <<out, reused>>
        ELSE \E m \in units :
               /\ out' = [out EXCEPT ![next] =
                            IF HasTarget(m) THEN Merge(u, m, FALSE, TRUE, TRUE) ELSE u]
               /\ reused' = MarkReused(m)
  /\ next' = next + 1
  /\ UNCHANGED <<pot, po, template, pc, approved, edited>>

AllMerged ==
  /\ pc = "merging" /\ next > Len(out)
  /\ pc' = "obsoleting" /\ next' = 1
  /\ UNCHANGED <<pot, po, template, out, reused, approved, edited>>

(* Mutant: the new list is not asked. *)
ObsoletesUnasked(k) == k \in Indexed(po) /\ HasTarget(po[k]) /\ k \notin reused

(* Mutant: an entry that is obsolete already is not kept. *)
ObsoletesLive(k) ==
  /\ k \in Indexed(po) /\ HasTarget(po[k]) /\ ~po[k].obsolete
  /\ ~HasId(pot, GetId(po[k])) /\ k \notin reused

Obsoletes(k) ==
  /\ k \in Indexed(po) /\ HasTarget(po[k])
  /\ ~HasId(pot, GetId(po[k])) /\ k \notin reused

(* One turn of _store_post_merge_pofile's loop. *)
ObsoleteUnit ==
  /\ pc = "obsoleting" /\ next <= Len(po)
  /\ out' = IF Obsoletes(next) THEN Append(out, MakeObsolete(po[next])) ELSE out
  /\ next' = next + 1
  /\ UNCHANGED <<pot, po, template, reused, pc, approved, edited>>

(* The output store is serialized over the old file. *)
Finish ==
  /\ pc = "obsoleting" /\ next > Len(po)
  /\ po' = out /\ template' = TRUE /\ pc' = "idle"
  /\ out' = << >> /\ reused' = {} /\ next' = 1 /\ edited' = FALSE
  /\ UNCHANGED <<pot, approved>>

Next ==
  \/ Extract
  \/ \E k \in DOMAIN po : Doubt(k) \/ \E text \in Texts : Translate(k, text)
  \/ Start \/ Abort \/ PretranslateUnit \/ AllMerged \/ ObsoleteUnit \/ Finish

Spec == Init /\ [][Next]_vars

-----------------------------------------------------------------------------
(* No file that pot2po writes has two entries with the same msgctxt and    *)
(* msgid, whatever it reuses, resurrects or makes obsolete: msgfmt would   *)
(* refuse it (merge keeps ids, _store_post_merge_pofile asks findid).      *)
FilesHaveUniqueIds == UniqueIds(po) /\ UniqueIds(out)

(* No run presents a text as the finished translation of a message that    *)
(* nobody approved for that very message: what comes from another source,  *)
(* context or a doubted entry stays fuzzy, through any number of runs that *)
(* drop messages, bring them back and reuse obsolete ones.                 *)
TranslatedIsApproved ==
  \A u \in Range(po) \cup Range(out) :
    IsTranslated(u) => <<GetId(u), u.target>> \in approved

(* "If everything matches we carry that across": once a merge on ids is done, *)
(* each entry of the new file whose id has a translation in the old file,  *)
(* live or obsolete, has that translation and is exactly as fuzzy.         *)
MatchesAreCarriedAcross ==
  pc = "obsoleting" =>
    \A j \in {i \in DOMAIN pot : MergeOn[pot] = "id"} :
      LET k == FindId(po, GetId(pot[j]))
      IN k # 0 /\ HasTarget(po[k]) => /\ out[j].target = po[k].target
                                      /\ IsFuzzy(out[j]) = IsFuzzy(po[k])
                                      /\ ~out[j].obsolete

(* "Messages no longer used are made obsolete": when a run ends, a         *)
(* translated entry whose message is not in the new list is an obsolete    *)
(* entry of the new file, or its text was used for one of the messages.    *)
Survives(k) ==
  HasTarget(po[k]) /\ (\A i \in DOMAIN pot : GetId(pot[i]) # GetId(po[k])) =>
    \E u \in Range(po') : u.target = po[k].target /\ (u.obsolete => GetId(u) = GetId(po[k]))

UnusedAreMadeObsolete ==
  [][pc = "obsoleting" /\ pc' = "idle" => \A k \in DOMAIN po : Survives(k)]_vars

(* The same for entries that share their source with no other entry.       *)
LoneUnusedAreMadeObsolete ==
  [][pc = "obsoleting" /\ pc' = "idle" =>
       \A k \in DOMAIN po :
         (\A j \in DOMAIN po \ {k} : po[j].source # po[k].source) => Survives(k)]_vars

(* A second run over an unchanged list and an unchanged file writes the    *)
(* same file again.                                                        *)
RerunChangesNothing == [][pc' = "idle" /\ pc # "idle" /\ ~edited => po' = po]_vars
=============================================================================
