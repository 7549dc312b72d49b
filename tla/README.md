# A TLA+ model of the Translate Toolkit

The Translate Toolkit converts localization files to and from translation
formats and works on translation files: it merges, checks, counts and
pretranslates them.  This directory models the part of it that decides what
becomes of a translation: the Gettext entry and its states, the reading and
writing of Gettext files, the store of units and its indexes, the merging of
duplicates, `pot2po` with the translation memory it asks, the cycle of
`pofilter` and `pomerge`, the editing of strings with placeables, the stores
that keep trees, the forms of plural messages in nine formats, and the driver that takes every command through its files.
Paths below are relative to `translate/`.

## 1. Inventory

| Component | State | Operations | Used by |
|---|---|---|---|
| Gettext unit (`storage/pypo.py`, `storage/pocommon.py`) | source, context, target, `#,` lines, comments, locations, previous message, obsolete mark, stored state `_state_n` | `target =`, `markfuzzy`, `makeobsolete`, `resurrect`, `infer_state`, `settypecomment`, `merge` | everything that touches PO files |
| Gettext file (`pypo.py`) | list of units, encoding | `parse`, `serialize`, `removeduplicates`, `addunit` | tools and converters |
| PO parser (`storage/poparser.py`) | the lines that are left, the unit being read, encoding | `parse_units`, `parse_unit`, `parse_header` | `pofile.parse` |
| Store core (`storage/base.py`) | list of units, `id_index`, `sourceindex`, `locationindex` | `addunit`, `removeunit`, `findid`, `findunit`, `makeindex`, `require_index` | every format |
| pot2po (`convert/pot2po.py`, `tools/pretranslate.py`) | the list, the old file, the new file, the attribute `reused` on old units | `convert_stores`, `pretranslate_unit` | translators, for each new message list |
| Fuzzy matcher (`search/match.py`, `search/lshtein.py`) | candidates sorted by length, the targets seen so far | `inittm`, `extendtm`, `matches`, `buildunits` | pot2po, pretranslate |
| Terminology (`search/match.py`, `search/terminology.py`) | terms and their other spellings | `inittm`, `matches` | editors |
| Checks (`filters/checks.py`, `filters/pofilter.py`) | notes in the units | `run_filters`, `filterunit`, `filterfile` | pofilter |
| pomerge (`tools/pomerge.py`) | two stores | `mergestores` | translators |
| Placeables (`storage/placeables/`) | a tree of string elements | `parse`, `delete_range`, `insert`, `prune` | editors |
| Stores of trees (`storage/base.py`, `jsonl10n.py`, `yaml.py`) | units whose ids are paths; the tree a YAML store keeps | `parse`, `storevalue`, `removeunit`, `serialize`, `savefile` | converters, editors |
| Plural forms (`lang/data.py`, `base.py`, `jsonl10n.py`, `yaml.py`, `toml.py`, `aresource.py`, `stringsdict.py`) | the strings of a unit; the categories they are for are in no field, but follow from the language | `get_plural_tags`, `sync_plural_count`, `parse`, `convert_target`, `getvalue`, `storevalues` | every store of a format with plural categories |
| Recursive processing (`misc/optrecurse.py`, `convert/convert.py`) | the files of the input, template and output directories | `recursiveprocess`, `processfile` | every command |
| PO header (`storage/poheader.py`) | an ordered set of header fields | `updateheader`, `mergeheaders`, `getheaderplural` | pot2po, pomerge |
| Workflow (`storage/workflow.py`) | states, edges, the current state | `trans`, `reset` | nothing |
| other PO tools, XLIFF and XML stores, other format stores, converters, helpers | a store or a text each | parsing, writing, counting | command line |

How they interact: a command hands files to the recursive driver, which opens
input, template and output and calls one function; that function reads stores
through the factory, looks units up in the indexes of one store by what it
knows of a unit of another, changes units in place with `merge`, `markfuzzy`
and `makeobsolete`, and writes a store.  Nothing runs concurrently.  What is
hard is the *sequences*: files are written, edited by translators and used as
the template of the next run for years, so a status that is set, saved,
reloaded, merged and resurrected has to mean the same thing all along; indexes
are built once and then used while units change; units are compared by value,
although they are objects that change; paths and offsets are kept while the
tree they point into is edited; bounds computed for speed must not change an
answer; and a half-failed operation leaves files and indexes behind.

What makes each component correct:

- unit: a translation counts as finished only if somebody stood by it for that
  very message; the stored state, the flag lines and the obsolete mark agree
  and survive a save; `merge` does not overwrite what it must not;
- reading and writing: what is written is read back; a file that is cut off
  gives what it holds whole, unless the cut is such that it is refused; reading
  comes to an end;
- store: the indexes answer as a search of the list would;
- removeduplicates: ids become unique as far as places can tell units apart,
  and neither translations nor locations are lost;
- pot2po: exact matches are carried across, anything else stays doubtful,
  nothing translated is lost, ids stay unique, a second run changes nothing;
- matcher: the best candidates, whatever their order and the shortcuts taken;
- terminology: every term of the text or one that overlaps it;
- checks and pomerge: the selection of checks hides failures and does nothing
  else; corrections reach the entry they were made for; rounds settle;
- placeables: the text of the tree is what the edits ask for, offsets find
  their element, a deletion can be undone;
- stores of trees: saved is read, a conflict of two units harms no other unit,
  removing takes one leaf;
- plural forms: a complete entry is read back as it was entered; reading and
  saving shows no form in place of another;
- recursive processing: a failed file never looks converted and keeps no other
  from being converted.

`PROJECT.json` lists every component with its status and every hazard with the
properties that cover it.

## 2. Modules

| Module | Models | State and actions |
|---|---|---|
| `PoUnit` | one Gettext entry as a record and its operations as operators | one field per attribute of `pounit`; `SetState`, `MarkFuzzy`, `MakeObsolete`, `Resurrect`, `Parse` (save and reload), `Merge` follow the methods of the same names, in the order the calls are made |
| `PoUnitLife` | everything that can happen to one entry | `unit`, and the history `vouched`; one action per method a tool or editor calls |
| `PoIndex` | what a file at rest is, and lookups in it by id, source and location | none: operators over a sequence of entries |
| `PoDuplicates` | `pofile.removeduplicates` | the loop's variables; one action per branch of its body |
| `PoParser` | the parser and the writer of PO files | the lines of the file, those that are left, the units, the encoding; `ParseHeader`, `ParseNextUnit`, `SetEncoding`, `Finish` are the steps of `parse_units`, `Translate` is the setter of `target`, `Save` is `serialize`; `ParseUnit` and what it calls are operators named like the functions |
| `Pot2po` | `pot2po` run after run, with translators and developers in between | `pot`, `po` (the old file and, at the end, the new), `out`, `reused`, the position in the run; one action per turn of each of the two loops |
| `FilterCycle` | `pofilter` and `pomerge` over and over, with translators and developers in between | `file`, `snippet`, the options; `Filter` and `PoMerge` are one command each, `EditFile`, `EditSnippet` and `Drop` the people |
| `Levenshtein` | the comparer: the distance given up early, the similarity | none: operators, and the distance as it is defined |
| `Matcher` | translation memory and terminology matcher | the candidates, the heap, the variables of the search and the loop; one action per turn of each loop |
| `StringElem` | the tree of string elements | the tree and what undoes the last deletion; `ParseText`, `Delete`, `Type`, `Undo` |
| `KeyedStore` | JSON and YAML stores | `disk`, `units`, `original` (YAML's `_original`); one action per method |
| `Plurals` | the categories and the tags of every language | the tables and the functions that choose among them |
| `PluralForms` | one plural message in the stores of nine formats | `forms` (what the file has under each label), `strings` of the units that were read; `LoadForms`, `EnterForms`, `SaveForms`, and for each format an operator that reads and one that writes |
| `SourceLookup` | what a store promises | a list and the answer of the last search |
| `UnitStore` | `TranslationStore` with its indexes | `units`, the three indexes, the targets of the units; one action per method |
| `RecursiveProcess` | `recursiveprocess` and `processfile`, command after command, with kills and edits at any moment | `disk` (what stands at each path), `newer` (which outputs are younger than their inputs), the file in turn and where `processfile` is; `Begin`, `Skip`, `Open`, `RunProcessor`, `Fail`, `RemoveOutput`, `Finalize`, `Write`, `End` are its steps, `Kill` and `Edit` the surroundings |
| `MC*` | small instances for TLC | |
| `Selection` | the list of the items of a list that are in a set, as a recursive function that proofs can reach | none |
| `Lemmas` | what the proofs share: rules for loops and lists, and lemmas about `Selection`, `PoUnit` and `PoIndex` | |
| `*Proofs` | proofs about the module in the name | |

`PoUnitLife`, `PoDuplicates`, `PoIndex` and through it `Pot2po` and
`FilterCycle` extend `PoUnit`: what an entry is and what `merge` does to it is
written once, and both tools use the lookups of `PoIndex`.  `Matcher` extends
`Levenshtein`, whose comparer scores its candidates.  `PluralForms` extends `Plurals`;
`MCStores` puts `KeyedStore` and `PluralForms` in one run, in which a client
edits either a tree of plain texts or a plural message.  `UnitStore` instantiates
`SourceLookup` with the same `units` and `answer` and implements it.  `Parse` in
`PoUnit` is the abstraction of what `PoParser` does to one entry.

### What is abstracted

- A text, a context or a location is an opaque value.  `NoText` is the empty
  text; a plural message has one value for all its forms, except in `PoParser`.
- A flag line `#, a, b` is a bag of flags; extracted comments and KDE msgid
  comments are left out of `PoUnit`.  A comment line is a value, in
  `ShortComments` if it has fewer than five characters: the code adds such a
  line again every time.
- `Parse` is what writing an entry and reading it does to its status: all lines
  survive, `_state_n` does not and is inferred from them.
- In `PoDuplicates` a context is a sequence of lines: the one a converter has
  set (`setcontext` sets none for an empty text) and the location lists appended
  to it, of which the empty ones leave no trace in the id, as in the code, where
  they are empty quoted lines.  The KDE comment that style "merge" adds to units
  without a source is a line of its own kind (`Comment`), since it makes part of
  the id as a context does.
- In `PoParser` a line is its kind (which keyword or comment it starts with,
  whether it is marked as previous or obsolete) and an opaque text.  Wrapping
  is left out: two units are the same if they differ in empty strings only.  The
  exception is the line that several KDE comments are put on, which is broken
  after each of them (`Combined`).  Of a charset it counts whether Python knows
  it and which texts it has (`Has`); a text that is read in another charset than
  it was written in is `Garbled`, which is a text of ISO-8859-1.
- In `Pot2po`, `Similarity` gives the score of two sources.  A matcher with one
  candidate returns a candidate with the best score.  Which of two different
  sources with equal scores comes first depends on their lengths, so the model
  takes either.  Headers, plural counts and the other formats' hooks are left
  out.  The new file exists only when a run ends: `Finish` replaces the old
  one.  A run that fails leaves the output as the driver opened it, empty
  (`Abort`); what else can happen to files belongs to `RecursiveProcess`.
- In `FilterCycle` what a check says of two texts is a parameter.  Headers are
  left out.
- In `Matcher` texts are sequences of `Characters`, already lower case; scores
  are whole numbers.  `Whole` is one hundred percent; the lengths up to the one
  where a memory cuts its texts divide it (`MatcherAssumption`), so that nothing
  is rounded, where the code has fractions.  `heapreplace` is modelled
  after Python's, because which items it compares decides whether it raises.
- In `StringElem` the kinds of elements are those the code tells apart:
  editable, fragile or opaque; what a parser finds is a parameter.  An element
  has a label where the code compares objects by identity.
- In `KeyedStore` a key is a value and an index a number from zero; a leaf has
  a type and a text.  What the dialects of JSON and TOML do to plurals is in
  `PluralForms`; the rest of them is left out.
- In `PluralForms` a file is one message: a function from the labels of its
  forms to texts, in which a text that was never changed is its own label, so
  that a form that moves is seen.  Labels are written as the categories and, in
  i18next 3, as the suffixes of the keys; `"text"` is the message without a
  label.  The list of labels that an i18next unit keeps is left out, since
  `setid` forgets it as soon as the unit is read and `_fixup_item` makes it
  anew.  `Lost` is the file that `save` has opened and emptied when the TOML
  writer raised.  Source texts, markup and notes are left out.
- In `RecursiveProcess` a converter is a function of the contents of its input
  and template, which may raise an exception or report that there is no
  result, and contents are opaque.  `Incomplete` is a file that was opened for
  writing and not closed: empty or cut off.  Modification times count only
  through the comparison of an input with its output.  Standard input and
  output, archives and the rules that make the names of outputs and templates
  are left out: the latter are the constants `OutputOf` and `TemplateOf`.

## 3. Runs

All the runs are exhaustive for their bounds.

| Run | Instance | What it shows |
|---|---|---|
| `unit_life` | two texts, two flags, partners with the same and with another context, every flag line; merges only while the entry has at most `MaxFlags` = 2 flags | status is consistent, survives a reload, and finished translations are vouched for |
| `pot2po` | lists of one or two messages with and without contexts, merged on ids or locations; lists over three messages, two of them similar, with fuzzy matching and a compendium | unique ids, exact matches carried across, nothing unapproved finished, nothing lost where no two entries share a source, a second run changes nothing |
| `pot2po_loss` | the lists with contexts | **violated**: the translation of a dropped message is lost |
| `duplicates` | every file of three units of one source with two translations, fuzzy or not or missing, at one or two of two places (style `merge`), and every file of three with or without a context that a converter has set, which may be the text of a place, at a place, a shared one or none, with empty sources and a header (both styles) | merged units and units with places of their own have ids of their own, agreed translations and places survive, a unit is dropped only beside one of its source with the same places |
| `store` | four units, three of one source, two pairs that share a place; additions end with the first lookup | the indexes implement a search of the list; a removal removes, in the list and in the indexes |
| `recursive` | two inputs, one converted over its template, one with a template and an output of its own; the converter makes a result, makes none or fails; every command with and without `--timestamp` and `allowmissingtemplate` | no failure keeps another input from being converted, sources stay whole, commands end |
| `po_parser` | every file of up to `MaxLines` = 3 lines of any kind behind a header or none; three entries of every kind (commented, with a context, plural, obsolete) cut off after any line; files in three charsets under right, wrong and unknown declarations, with texts outside ASCII in the header, behind it, in neither or entered by a translator; `Rounds` = 2 times written and read | whole units survive a cut, except that a commented plural without forms makes the reader refuse the file (`pocommon.py:163`); what is written is read back, and refused only for disagreement 8; reading advances |
| `tree` | texts with nested and adjacent placeables of each kind, parsed with one parser or two, every range deleted, a text inserted at every offset, each deletion undone | text, offsets and undo |
| `keyed_store` | four JSON and five YAML files of all shapes, ten paths to add that extend, fill holes or conflict; `MaxEdits` = 3 edits between loads and saves; or a message in nine formats and twelve languages (one for each list of tags, one without tags, and none set) with every set of labels and at most one blank form, and entries of up to `MaxEntries` = 6 strings, complete, without the first or the second, or blank | saved is read; a save raises only on a conflict, and whatever a conflict replaces in silence (`base.py:1370`), the units that nothing else contests are written; a removal takes one leaf; complete entries come back; forms stay in place |
| `keyed_remove_list` | the same files, one removal | **violated**: after an item of a list is removed, the file has leaves without a unit |
| `matcher` | memories that keep one, two or three candidates of up to four characters, with and without a lower bound on similarity, filled with up to `MaxUnits` = 4 units in any order; a term list with other spellings and overlaps | bounds and heap never change the answer, the comparer is exact where it counts, terms are found and do not overlap |
| `filter_cycle` | two checkers with preconditions that mask, two files with two contexts of one source, five option sets, `MaxEdits` = 2 edits among any number of commands | selection only hides, corrections arrive, unvouched texts are doubted, rounds settle |

Why the bounds are enough.  *Units*: every operation reads at most two units
and distinguishes texts only by equality, so two texts (and the empty one), two
flags and two contexts already reach every branch of `merge`; `MaxFlags` cuts
off merges into an entry that holds more flags than any branch looks at.
*pot2po*: a run's result depends on the old file, which carries everything that
happened before; the histories needed for a message to be translated, dropped,
made obsolete, brought back and reused for another one take three lists and
four runs, and the state space is closed, so there is no bound on the number of
runs.  *Duplicates*: three units are the first of an id, one that meets it, and
one that meets the result.  *Store*: removing from the middle of a source's
list takes three units of that source, and one more for another source.
*Recursive processing*: a file can only interfere with the one after it,
through what is left over in the loop or on the disk, so two inputs reach every
case; contents take all outcomes of a converter and two different results, so
that a stale result is seen.  There is no bound on commands, kills or edits.
*Parser*: each function looks at one line and decides by its kind; three lines
are a section that is begun, one that interrupts it and one that follows; the
longer files are those where a unit has all its sections.  *Tree*: a deletion
distinguishes the elements at both ends and those between, so three levels and
three siblings reach each of its cases.  *Trees on disk*: `storevalue` looks at
one part of a path and the next, so paths of three parts reach each pair;
three edits are two units that conflict and a removal.  *Plural forms*: the
code knows a language by its list of tags only, and there are ten lists; six
strings are as many as there are categories.  *Matcher*: a heap of
three has a root and two children, which is where the choice of the smaller
child begins; four candidates fill it and replace one.  *Filter cycle*: a
round without edits after any two edits is enough to see what accumulates; the
number of commands is not bounded.

Runs of procedures that return or stop (`duplicates`, `tree`, `keyed_store`,
`matcher`) do not check deadlock.

Fairness.  `RecursiveProcess` assumes `WF_vars(Process)`: a process that is
neither killed nor waiting goes on, since it is a sequential program whose
steps wait for nobody.  Nothing is assumed of kills, edits and new commands.
The other modules assume none and state no liveness property: their loops run
over lists that do not grow while they are traversed, and developers and
translators owe nothing.  Where termination is in question, in the parser, it
is stated as a step that consumes a line (`EveryUnitTakesALine`).

### Disagreements met

Two are shown by runs that TLC must find violated, with the passage of the
documentation in `PROJECT.json`:

1. `pot2po` loses translations of messages that share their source with a
   reused one: the mark goes to the first entry with that source
   (`tools/pretranslate.py:169`).
2. Removing a unit from a YAML list moves the items behind it, and the units
   that are left are written to their old places (`storage/base.py:1405`).

All are in the models as the code has them.  Properties that a wider promise
would violate state the part that holds:

3. `pounit.merge(overwrite=False)` overwrites a finished translation when the
   other entry is fuzzy, because its flag is merged first (`pypo.py:547`).
4. `pot2po` presents the translation of another context as finished when the
   new message has no context: fuzzy candidates have none (`match.py:239`).  The
   run has fuzzy matching only where messages have no contexts.
5. `pot2po --tm` without an old file fails: `match_source` asks the template
   store, which is `None` (`pretranslate.py:150`; `AsksNone`, `Abort`).
6. `removeduplicates("msgctxt")` compares duplicates only with the first
   (`pypo.py:945`): three units of which the last two share a place keep one id,
   where the docstring says "Make sure each msgid is unique" (`pypo.py:908`).
   `ResultIsUnique` says when that can happen (`PlacesFail`), and
   `NothingIsLost` which units are dropped instead.
7. `addunit` after a lookup leaves the indexes behind (`base.py:942`).
8. The charset that a header declares does not become the one that the parser
   decodes with, which was guessed before (`poparser.py:96`): the file is garbled,
   or refused when the header is ASCII and a later text is not, even if the
   toolkit has written it.  The comment says "re-parse all content (including
   the header) with the correct encoding" (`poparser.py:74`).  These files are in
   the instance; `WhatIsWrittenIsAccepted` says that this is the only way to be
   refused.
9. `delete_range` removes an element that is not fragile, or keeps one that is,
   where a range covers it exactly (`strelem.py:286`; `StartsFragile`).
10. The terminology matcher searches the lengths of its candidates by
    halves although the other spellings stand unsorted behind them
    (`match.py:309`), so that terms can be missed; `TermsInOrderAreFound` speaks
    of lists that happen to be in order.
11. A check masks others only within its own checker, so that preconditions of
    the checks of texts do not mask `isfuzzy` and `isreview`
    (`checks.py:533`); and `pofilter` never marks the units of a serious failure
    as fuzzy, since it asks whether the message is an exception
    (`pofilter.py:113`).
12. `markfuzzy(False)` clears only one of two flag lines that say fuzzy; with
    `--timestamp` an output that a failed or killed command has emptied is not
    made again until its input changes; two inputs that differ only in their
    extension share an output.

13. The readers of TOML, gotext and go-i18n (and, within the language's tags,
    of Ruby YAML) take the forms that are there one after the other, and the
    writers label them by the tags of the language (`toml.py:341`): in a file
    that lacks a form, or has one that the language has not, every later form
    is moved to another category by reading and saving, although "plural forms
    survive round-trip" is what the test of TOML says
    (`tests/translate/storage/test_toml.py:498`) of a file where they do.  With
    no language set the tags are those of English, so that the example with six
    forms in `docs/formats/toml.rst` is cut to two.  `UntouchedFormsStay` speaks
    of files that have the forms of the language.
14. A TOML message that is partly translated cannot be saved: blank forms are
    made `None` (`toml.py:290`), which the library refuses when the file has
    been emptied.
15. A file of i18next 4 with a category that the language does not have is read
    as several units of one key, and the last one overwrites an edit of the
    first (`jsonl10n.py:543`).
16. Several KDE comments in one msgid are written as one that is broken into
    lines of which only the first has the mark of a comment (`pypo.py:724`), so
    that the others are part of the message when the file is read again,
    where the comment says "combine comments into one if more than one"
    (`pypo.py:715`).  The instance has such a message; `WhatIsWrittenIsReadBack`
    excepts it (`HasOneComment`).

## 4. Proofs

The proofs hold for all values of the constants that satisfy the assumptions.
A theorem that needs more than a module assumes says so as a hypothesis on the
constants.  Each hypothesis is a definition next to the model, and the MC module
of the component assumes it, so that TLC evaluates it for the instance that is
checked: `PlainProjects`, `ConvertedFiles`, `IdsAreDistinct`, `DistinctIds`.
(The store's other hypothesis, `~AddAfterLookup`, is a value in its .cfg.)
TLC also checked the inductive invariants on these instances before they were
proved.

- `Lemmas` is what the other modules of proofs extend.  It has a lemma for each
  operation of `PoUnit` that names the fields it can change, and what becomes of
  the stored state, and for each lookup of `PoIndex` what it finds: what every
  invariant over entries needs.  And it has the rules for loops.  Every set of natural numbers has
  a least member, and one that is bounded a greatest, so that `Min` and `Max`
  are known for files of any length.  Of the turns of a loop none is then the
  first to break what all of them keep (`TurnInduction`); and a function that is
  defined by recursion over the turns exists, because the turn at which its
  construction first failed would be such a least member (`TurnRecursion`).
  The library's induction takes an operator as a parameter and cannot be
  applied here; its theorem that strict inclusion of finite sets is
  well-founded can: the intervals from 0 to the members of a set have one that
  includes no other.  The loops of `run_filters`, `filterfile` and
  `mergestores`, and the choice of items in `Selection`, are therefore written
  as recursive functions over the number of turns, not as folds.
- `PoUnitLifeProofs!ObsoleteStates`, `TranslationsAreVouched` and
  `ReloadsKeepStatus`: `Spec => []P` for the three properties of the run.  None
  is inductive, since they speak of computed states.  The first rests on
  `StateInv`: the stored state is one of the five states and, where it says
  obsolete, the entry is obsolete, and no operation loses a field of the
  record.  The other two add that the stored state is fuzzy exactly when a flag
  line says so (what a reload infers), and that a target without a flag was
  vouched for.  `MergeFlagLines` is written
  without a loop over lines, as what the loop of `mergelists` amounts to for lines of
  flags, and its effect on the number of occurrences of a flag follows from its
  definition.
- `Pot2poProofs!UniqueIdsInFiles`: `Spec => []FilesHaveUniqueIds`, from
  `PotsAssumption` (a message list names no message twice), for every
  similarity, compendium and option.  The inductive invariant `IdsInv` says
  where the entries of the file in progress come from: while messages are
  merged they have the ids of the list in its order (`FollowsPot`); what is
  added afterwards comes from an earlier entry of the old file whose id the
  list does not have (`AddedFromPo`), so it can neither repeat an id of the
  list nor one that was added before.
- `Pot2poProofs!MatchesCarried`: `Spec => []MatchesAreCarriedAcross`.
  `PotsAssumption` adds that a message list has no translations and no fuzzy
  flags.  `CarriedInv` splits the list at `next`: what had its turn is carried,
  what did not is as in the list.  `MergeUntranslated` says what `merge` does to
  such an entry: it gets the other's text, fuzzy exactly when the other is or is
  another message.  That needs flags that can be counted (`FlagsInv`), and that
  a lookup by id returns an entry of the file.
- `Pot2poProofs!LoneUnusedSurvive`:
  `Spec => LoneUnusedAreMadeObsolete`.  `UsedInv`: a lone entry that is marked
  as reused has its text in a live entry of the new file; `KeptInv`: a lone
  entry that had its turn in the second loop is appended or in use.  The case
  that needs an argument is the compendium: its match has a source, and the
  entry with that source is marked although another entry's text is used.
  `MatchIsTheLoneEntry` shows that this cannot happen: were the old entry near
  enough for the compendium's twin to match, the matcher of the old file would
  have answered first (`BestMatchExists`, from `SimilarityAssumption`: scores of
  known sources are numbers from 0 to 100).  `KnownInv` says that no file has a
  message that was in no list.  Entries that share their source are lost
  (disagreement 1), so the theorem is about those that do not.
- `Pot2poProofs!FinishedAreApproved`: `Spec => []TranslatedIsApproved`
  where `PlainProjects` holds, which rules out disagreement 4: messages that are
  matched fuzzily have no contexts, nor has the compendium.  `MCPot2po` assumes
  it too, and TLC evaluates it.  `ApprovedInv` extends the property to obsolete
  entries, which a later run takes translations from; `PlainInv` is what carries
  `PlainProjects` over to the file.
- `RecursiveProcessProofs!TypeCorrect` and `SourcesStayWhole`:
  `Spec => []TypeOK` and `Spec => SourcesAreNotEmptied`, for any number of
  inputs, however their paths coincide, and any converter.  The inductive
  invariant `Inv` adds to `TypeOK` where the template of the file in turn comes
  from.  Emptying a source takes an `Open` whose output is neither the input
  nor the template in turn, hence some other input's; that input is then not
  `Alone`.  `MarksAssumption` (a file that was not completely written is
  nothing a converter makes or people store) rules out that `Write` or `Edit`
  stores what looks cut off.
- `RecursiveProcessProofs!InputsDelivered`: `Spec => []InputsAreDelivered`.  The
  invariant `DeliveryInv` follows each input of a command through three
  stages: before its turn, what it and its template held when the command began
  is still there, and an input that is due is still older than its output; in
  its turn, each step of `processfile` knows which of these contents it works
  on; after its turn, it is `Delivered`, and no later input of the command
  touches its output because it is `Alone`.

- `UnitStoreProofs!IndexesExact`, `RemovalRemoves` and
  `StoreImplementsLookup`: `Spec => []IndexesAreExact`,
  `Spec => RemoveRemoves` and `Spec => LookupSpec`, the refinement of
  `SourceLookup`, for any number of units.  Hypotheses: ids are distinct, since
  `list.remove` compares units by value and two equal ones cannot be told
  apart; and nothing is added after the first lookup (disagreement 7).  The
  invariant is that the list names no unit twice and that the index of a source,
  if there are indexes, `Lists` the units of that source in their order.  A
  removal takes the same unit from the list and from the index because no other
  is equal to it (`RemoveUnitStep`), so that it cannot raise half way.
- `PoDuplicatesProofs!IdsAreUnique`, `AllIsKept` and `AgreedSurvives`: the three
  properties of the run, for any number of units.  The hypothesis
  `ConvertedFiles` says what a converter makes: live units, with the one line
  of context that `setcontext` gives them or none, at any places, shared or
  missing; only a context that looks like the KDE comment of a place is ruled
  out, which no converter sets.  All branches of the loop are reached, the one
  that drops a unit included.  `IndInv` describes the loop in the middle: which
  units have got their places as context (`Marked`) and what their context is
  then (`ContextOf`), that `id_dict` has the first of each id, which positions
  are in `unique` and which were dropped (`Confused`: without a context and at
  the places of the first of their id), and that the first of the units that
  are merged has the places of all that had their turn and the translation on
  which they agree (`MergedAt`).  From this, two units of the result with one id
  have contexts that places made equal, which is `PlacesFail`.
- `FilterCycleProofs!SelectingHides`: `Spec => []SelectionOnlyHides`, for any
  checkers.  By induction over the preconditions, the checks that are ignored
  do not depend on the selection.
- `FilterCycleProofs!FinishedAreVouched`: `Spec => []FinishedIsVouched`.  The
  hypothesis `DistinctIds` keeps two entries of one id, live or obsolete, out
  of a file: `mergestores` goes by the id and would bring the text of one to
  the other without a doubt.  `FinishedInv` says of the file that its ids are
  unique, its flags can be counted, its finished texts are vouched for, and
  that an entry is live only where the unit of the snippet with its id is; and
  the same of the snippet but for the ids.  The induction has two loops inside
  a step: over the units that `filterfile` copies, and over those that
  `mergestores` merges, each of which keeps the file `Sound`.
- `FilterCycleProofs!CorrectedTextsArrive`: a merge brings the text of each
  correction to the entry of its id, with its doubt, and neither changes the
  text of an entry that the snippet does not name nor finishes it.  This is the
  part of `CorrectionsArrive` that holds for every file.  The rest is
  model-checked: an entry that has a mark in three flag lines keeps it for
  another round (disagreement 12), and an entry that was not named is written
  as it was read only if reading settled before.
- `MatcherProofs!BestAreAlwaysFound`, `ComparerIsAlwaysExact`,
  `TermsAreAlwaysApart` and `TermsInOrderAreAlwaysFound`: `Spec => []P` for the
  four properties of the run, for any texts, units and matchers that
  `MatcherAssumption` allows, from one inductive invariant,
  `MatcherInvariant: Spec => []IInv`.
  - The comparer.  The table of the distances (`Rows`) solves the recurrence that
    defines the edit distance, and nothing else does (`RowsAreATable`,
    `OneTable`); read the other way round it solves it as well, so the distance
    does not depend on which text comes first (`EditDistanceIsSymmetric`).  What
    all of a row exceeds, all later rows exceed (`LeastIsLow` covers the cell of
    the empty beginning, at which the code does not look), so a distance that is
    given up would have been too large; and the bound that the lengths give is
    never below the similarity.  Hence `SimilarityIsExact`: where the length
    divides the whole, what is given up is below what was asked for, and
    everything else is the share of characters left alone.  A similarity that
    reaches a higher demand is the answer to a lower one too, which is why the
    demand may rise while the loop runs.
  - The search.  Candidates are in the order of their lengths (`OrderSorts`: a
    stable sort counts what comes before), so whatever the binary search leaves
    behind does not fit (`BeforeIsADivide`), and whatever follows one that is too
    long scores no better than the least that is kept (`LongOnesAreNoBetter`).
  - The heap.  `IsHeap` survives `heapreplace` (`ReplacingKeepsTheOrder`): the
    places on the path of smaller children move up, and the new item rests below
    those that are less and above those that are not.  The root is the least
    (`RootIsLeast`).  `HeapOfTheBest` says that the heap has no candidate twice
    and each with its score; `NoneIsBetter`, that every eligible candidate that
    had its turn is in the heap or scores no more than its root.  When the loop
    ends that holds of all candidates, and the count follows, since the heap is
    full unless its root is still empty (`HeapHoldsTheBest`).  An exception needs
    two entries of one score (`RaisesForATie`).
  - The terms.  `TermsOfTheText` says that each term that had its turn and occurs
    in the text has its place and end among those that are found; the same words
    with the same translation count once.  `PickedTerms` then follows the loop
    over them in the order of their places: what it keeps ends before the next
    begins, and what it drops overlaps with what it kept last.  That all terms
    have had their turn needs the order of the candidates, which other spellings
    can break (disagreement 10); the theorem has that order in its property and
    nowhere else.

Only model-checked: every other property of the runs.  Some hold of the
instances but not of every value of the constants.  `RoundsSettle` and
`CorrectionsArrive` have the exceptions just named.  `RerunChangesNothing` has
two: comment lines of fewer than five characters are added again by every run,
and a similarity that is not transitive lets a second run match what the first
did not.  Left to TLC is also what the
folds over comment lines in `merge` compute, which no theorem needs; and out of
the prover's reach are liveness (`CommandsEnd`), `ENABLED` and the `RECURSIVE`
operators over trees and lines of `StringElem`,
`KeyedStore` and `PoParser`.  The properties of `PluralForms` compare lists
that are computed from tables for every format; TLC evaluates them for every
list of tags the tables have, so that a proof would add nothing but unknown
tables.

## 5. Not modelled

Most of the repository is code about single syntaxes: parsers and writers of
some forty formats, some fifty checks that compare two strings, tables of
languages, converters that walk through one file.  Their state lasts for one
call, nothing interleaves with it, and what can be wrong with them is a matter
of characters, which a state space says less about than a table of examples.
They are why only a small part of the lines of the repository is mapped.  In
particular:

- the format stores other than PO, JSON, YAML, TOML and the plurals of Android
  and stringsdict, the XLIFF and other XML stores, which edit trees that lxml keeps, and the XML extraction;
- the C and the fast PO backends, other implementations of the Gettext unit;
- the checks of texts themselves: they are parameters of `FilterCycle`;
- the PO header apart from its charset: one call changes an ordered
  dictionary;
- the workflow, which no code uses;
- plural forms one by one in `merge` and in the indexes, KDE comments in
  `merge`, wrapping of lines, archives and standard streams.
