---------------------------- MODULE PluralForms ----------------------------
(***************************************************************************)
(* A message with plural forms in the stores of formats that name the      *)
(* forms after the categories of the language: i18next 3 and 4, gotext and *)
(* go-i18n 1 and 2 (translate/storage/jsonl10n.py), Ruby YAML (yaml.py),   *)
(* go-i18n in TOML (toml.py), Android (aresource.py) and stringsdict       *)
(* (stringsdict.py).  A unit has a list of strings, as a Gettext entry     *)
(* has; which category a string is for follows from the tags of the        *)
(* language, or from what was in the file.                                 *)
(*                                                                         *)
(* The file is a function from labels to texts.  A label is a category, or *)
(* "text" for the key itself, and in i18next 3 also "plural" and digits.   *)
(* The other units of a file and the markup of texts are left out, as are  *)
(* the source texts; the labels of a file to begin with are in the order   *)
(* of the categories.                                                      *)
(***************************************************************************)
EXTENDS Plurals

LOCAL INSTANCE SequencesExt   \* FoldLeft, SelectInSeq
LOCAL INSTANCE Functions      \* Range

CONSTANTS
  Dialects,      \* the formats
  Locales,       \* target languages; NoLocale if it was never set
  NoLocale,
  NewTexts,      \* the texts that are entered, one for each string
  MaxEntries     \* bound on the strings entered at a time

VARIABLES
  dialect, language,
  forms,     \* the file, or Lost when it could not be written
  strings,   \* the units read, in order: [plain, strings]
  loaded,    \* the file has been read
  entered    \* something was entered since

pluralVars == <<dialect, language, forms, strings, loaded, entered>>

Lost     == [label \in {"lost"} |-> ""]
NoValue == "null"   \* the value of a key without one, in Ruby YAML

Categories == Range(cldr_plural_categories)
Digits == <<"0", "1", "2", "3", "4", "5", "6", "7", "8", "9">>

Plain(text)  == [plain |-> TRUE, strings |-> <<text>>]
Plural(list) == [plain |-> FALSE, strings |-> list]

-----------------------------------------------------------------------------
(* The tags of the language.                                               *)

(* TranslationStore.get_plural_tags *)
StoreTags(count) ==
  GetCldrPluralTags(IF language = NoLocale THEN "en" ELSE language, count)

(* StringsDictFile._get_target_plural_tags: there is room for "zero".      *)
StringsDictTags(count) ==
  LET tags == StoreTags(count)
  IN IF language = NoLocale THEN cldr_plural_categories
     ELSE IF "zero" \in Range(tags) \/ count = 1 THEN tags
     ELSE IF count = 2 /\ language \notin DOMAIN PluralTags THEN <<"zero", "other">>
     ELSE <<"zero">> \o tags

TagsFor(count) == IF dialect = "stringsdict" THEN StringsDictTags(count) ELSE StoreTags(count)

-----------------------------------------------------------------------------
(* Reading.  What a reader finds under a list of labels:                   *)

Present(labels) == SelectSeq(labels, LAMBDA label : label \in DOMAIN forms)
ValuesOf(labels) == [k \in DOMAIN labels |-> forms[labels[k]]]
ValuesOrBlank(labels) ==
  [k \in DOMAIN labels |-> IF labels[k] \in DOMAIN forms THEN forms[labels[k]] ELSE ""]

(* I18NextFile: a key and its plural, or the digits up to the first gap.   *)
ReadI18Next ==
  IF {"text", "plural"} \subseteq DOMAIN forms
  THEN <<Plural(ValuesOf(<<"text", "plural">>))>>
  ELSE IF "0" \in DOMAIN forms
  THEN LET n == CHOOSE k \in 1 .. 9 : /\ Digits[k + 1] \notin DOMAIN forms
                                      /\ \A j \in 1 .. k : Digits[j] \in DOMAIN forms
       IN <<Plural(ValuesOf(SubSeq(Digits, 1, n)))>>
  ELSE <<Plain(forms["text"])>>

(* I18NextV4File: each category that no earlier one has covered makes a    *)
(* unit of all the tags of the language.                                   *)
ReadI18NextV4 ==
  LET tags == StoreTags(0)
      found == Present(cldr_plural_categories)
      starts == SelectSeq(found, LAMBDA c : c \notin Range(tags) \/ c = Head(found))
  IN (IF "text" \in DOMAIN forms THEN <<Plain(forms["text"])>> ELSE << >>)
     \o [k \in DOMAIN starts |-> Plural(ValuesOrBlank(tags))]

(* GoTextJsonFile, GoI18NJsonFile, GoI18NV2JsonFile: "Ordered list of      *)
(* plurals".                                                               *)
ReadGo ==
  IF "text" \in DOMAIN forms THEN <<Plain(forms["text"])>>
  ELSE <<Plural(ValuesOf(Present(cldr_plural_categories)))>>

(* RubyYAMLFile._parse_dict: "Ensure we have correct plurals ordering."    *)
ReadRuby ==
  LET values == ValuesOf(Present(StoreTags(0)))
      blanked == [k \in DOMAIN values |-> IF values[k] = NoValue THEN "" ELSE values[k]]
  IN IF "text" \in DOMAIN forms THEN <<Plain(forms["text"])>>
     ELSE IF \A k \in DOMAIN values : values[k] = NoValue THEN << >>
     ELSE <<Plural(blanked)>>

(* GoI18nTOMLFile._parse_dict *)
ReadToml ==
  LET values == ValuesOf(Present(cldr_plural_categories))
  IN IF DOMAIN forms = {"other"} THEN <<Plain(forms["other"])>>
     ELSE IF \A k \in DOMAIN values : values[k] = "" THEN << >> ELSE <<Plural(values)>>

(* Mutant: a category that is missing is not filled in. *)
ReadPresent == <<Plural(ValuesOf(Present(TagsFor(0))))>>

(* AndroidResourceUnit.target and StringsDictFile.parse *)
ReadTagged == <<Plural(ValuesOrBlank(TagsFor(0)))>>

Read ==
  CASE dialect = "i18next"  -> ReadI18Next
    [] dialect = "i18next4" -> ReadI18NextV4
    [] dialect \in {"gotext", "goi18n", "goi18n2"} -> ReadGo
    [] dialect = "ruby" -> ReadRuby
    [] dialect = "toml" -> ReadToml
    [] OTHER -> ReadTagged

-----------------------------------------------------------------------------
(* Writing.                                                                *)

Under(labels, list) ==
  [label \in Range(labels) |-> list[SelectInSeq(labels, LAMBDA l : l = label)]]
NonBlank(fs) ==
  LET kept == {label \in DOMAIN fs : fs[label] # ""} IN [label \in kept |-> fs[label]]

(* Mutant: the forms are labelled from the list of all the categories.     *)
SyncedToCategories(unit) ==
  LET tags == SubSeq(cldr_plural_categories, 1, Len(TagsFor(Len(unit.strings))))
  IN Under(tags, SyncPluralCount(unit.strings, tags))

Synced(unit) ==
  LET tags == TagsFor(Len(unit.strings)) IN Under(tags, SyncPluralCount(unit.strings, tags))

(* I18NextUnit.storevalues: strings beyond the tags of the language are    *)
(* cut off the unit.                                                       *)
Cut(unit) ==
  LET tags == StoreTags(Len(unit.strings))
  IN IF unit.plain \/ Len(unit.strings) <= Len(tags) THEN unit
     ELSE [unit EXCEPT !.strings = SubSeq(@, 1, Len(tags))]

(* _get_plural_labels.  The labels that were read are forgotten when the   *)
(* unit gets its id (setid), and _fixup_item makes them anew.              *)
Labels(count) ==
  IF dialect = "i18next4" THEN SubSeq(StoreTags(count), 1, count)
  ELSE IF count = 2 THEN <<"text", "plural">> ELSE SubSeq(Digits, 1, count)

(* A later unit writes over the values of an earlier one.                  *)
WriteI18Next(units) ==
  FoldLeft(LAMBDA fs, u : Under(IF u.plain THEN <<"text">> ELSE Labels(Len(u.strings)),
                                u.strings) @@ fs,
           << >>, units)

(* getvalue of GoTextJsonUnit and GoI18NJsonUnit                           *)
WriteGo(unit) == IF unit.plain THEN Under(<<"text">>, unit.strings) ELSE Synced(unit)

(* converttarget of GoI18NV2JsonUnit: a single string is no plural.         *)
WriteGoV2(unit) ==
  IF Len(unit.strings) = 1 THEN Under(<<"text">>, unit.strings) ELSE Synced(unit)

(* convert_target: "Replace blank strings by None", unless all are blank.  *)
Blanked(fs) ==
  IF \A label \in DOMAIN fs : fs[label] = "" THEN fs
  ELSE [label \in DOMAIN fs |-> IF fs[label] = "" THEN NoValue ELSE fs[label]]

WriteRuby(unit) ==
  IF unit.plain THEN Under(<<"text">>, unit.strings) ELSE Blanked(Synced(unit))

(* In TOML there is no null value: tomlkit raises an exception for None.   *)
WriteToml(unit) ==
  IF unit.plain THEN Under(<<"other">>, unit.strings)
  ELSE IF NoValue \in Range(Blanked(Synced(unit))) THEN Lost
  ELSE Synced(unit)

(* AndroidResourceUnit.target: the categories of decimals, and "other"     *)
(* where there is none, get a copy of the last form.                       *)
WriteAndroid(unit) ==
  LET tags == StoreTags(Len(unit.strings))
      extras == IF language \in DOMAIN DecimalExtraTags
                THEN SelectSeq(DecimalExtraTags[language], LAMBDA t : t \notin Range(tags))
                ELSE << >>
      needsOther == "other" \notin Range(tags \o extras) /\ "many" \in Range(tags \o extras)
      copies == Range(extras) \cup (IF needsOther THEN {"other"} ELSE {})
      synced == Synced(unit)
  IN NonBlank(synced @@ [t \in copies |-> synced[tags[Len(tags)]]])

Write(units) ==
  CASE dialect \in {"i18next", "i18next4"} -> WriteI18Next(units)
    [] dialect \in {"gotext", "goi18n"} -> WriteGo(units[1])
    [] dialect = "goi18n2" -> WriteGoV2(units[1])
    [] dialect = "ruby" -> WriteRuby(units[1])
    [] dialect = "toml" -> WriteToml(units[1])
    [] dialect = "android" -> WriteAndroid(units[1])
    [] OTHER -> NonBlank(Synced(units[1]))

-----------------------------------------------------------------------------
(* The files that a store may find.                                        *)
LabelSets ==
  CASE dialect = "i18next" -> {{"text"}, {"text", "plural"}}
                                \cup {Range(SubSeq(Digits, 1, n)) : n \in 1 .. MaxEntries}
    [] dialect = "toml" -> {s \in SUBSET Categories : "other" \in s \/ Cardinality(s) > 1} \ {{}}
    [] OTHER -> SUBSET Categories \ {{}}

(* At most one of the forms is blank. *)
Original(labels, blank) ==
  [label \in labels |->
     IF label \in blank THEN IF dialect = "ruby" THEN NoValue ELSE "" ELSE label]

PluralInit ==
  /\ dialect \in Dialects /\ language \in Locales
  /\ \E labels \in LabelSets : \E blank \in {{}} \cup {{l} : l \in labels} :
       forms = Original(labels, blank)
  /\ strings = << >> /\ loaded = FALSE /\ entered = FALSE

LoadForms ==
  /\ forms # Lost
  /\ strings' = Read
  /\ loaded' = TRUE /\ entered' = FALSE
  /\ UNCHANGED <<dialect, language, forms>>

(* A translator changes the target of the first unit, and knows of no more *)
(* strings than NewTexts; a blank one has not been translated yet.         *)
Entries ==
  {Plain(NewTexts[1])}
  \cup {Plural([k \in 1 .. n |-> IF k \in blank THEN "" ELSE NewTexts[k]]) :
          n \in 1 .. MaxEntries, blank \in {{}, {1}, {2}, 1 .. MaxEntries}}

EnterForms ==
  /\ loaded /\ strings # << >> /\ ~entered
  /\ \E e \in Entries : strings' = [strings EXCEPT ![1] = e]
  /\ entered' = TRUE
  /\ UNCHANGED <<dialect, language, forms, loaded>>

(* The stores that write over the tree they have read leave it as it is    *)
(* when they have no unit, and an Android unit is written as it is changed.*)
KeepsTree ==
  \/ strings = << >>
  \/ dialect = "android" /\ ~entered

SaveForms ==
  /\ loaded
  /\ LET units == IF dialect \in {"i18next", "i18next4"}
                  THEN [k \in DOMAIN strings |-> Cut(strings[k])] ELSE strings
     IN /\ strings' = units
        /\ forms' = IF KeepsTree THEN forms ELSE Write(units)
  /\ entered' = FALSE
  /\ UNCHANGED <<dialect, language, loaded>>

PluralNext == LoadForms \/ EnterForms \/ SaveForms

PluralSpec == PluralInit /\ [][PluralNext]_pluralVars

-----------------------------------------------------------------------------
(* An entry with a text for each form that the language has.               *)
Complete(unit) ==
  ~unit.plain /\ "" \notin Range(unit.strings) /\ Len(unit.strings) = Len(TagsFor(0))

(* What a translator entered for all the forms of a language can be saved, *)
(* and is read back as it was entered, in the same order, in every format. *)
(* Left out are the files of i18next 4 that had categories the language    *)
(* does not have: they are read as several units of the same key, and the  *)
(* last one wins.                                                          *)
FormsComeBack ==
  [][SaveForms /\ entered /\ Complete(strings[1]) /\ Len(strings) = 1 =>
       forms' # Lost /\ Len(Read') = 1 /\ Read'[1].strings = strings[1].strings]_pluralVars

(* The formats that tell by the position of a text which form it is.       *)
Positional == {"i18next", "gotext", "goi18n", "goi18n2", "ruby", "toml"}

ExactLabels ==
  IF dialect = "i18next" THEN Range(Labels(Len(StoreTags(0)))) ELSE Range(TagsFor(0))

(* A file that is read and saved, with nothing entered, does not show one  *)
(* form in place of another.  The formats that tell forms by position rely *)
(* on the file to have exactly the forms of the language, and TOML also on *)
(* them not to be blank.                                                   *)
UntouchedFormsStay ==
  [][SaveForms /\ ~entered
       /\ (dialect \in Positional => DOMAIN forms \in {{"text"}, ExactLabels})
       /\ (dialect = "toml" => "" \notin Range(forms)) =>
     /\ forms' # Lost
     /\ \A label \in DOMAIN forms' :
          \/ forms'[label] \in {"", NoValue}
          \/ label \in DOMAIN forms /\ forms'[label] = forms[label]
          \/ DOMAIN forms' = {"text"}]_pluralVars
=============================================================================
