------------------------------ MODULE MCStores ------------------------------
(***************************************************************************)
(* A client of the stores either edits a tree of plain texts, as in        *)
(* MCKeyedStore, or the forms of one message, for one language of each     *)
(* list of tags, one that has no tags, and none.                           *)
(***************************************************************************)
EXTENDS MCKeyedStore, PluralForms

AllDialects == {"i18next", "i18next4", "gotext", "goi18n", "goi18n2", "ruby", "toml",
                "android", "stringsdict"}
AllLocales == {"ja", "en", "lv", "he", "pl", "cs", "es", "sl", "ga", "ar", "xx", NoLocale}
AllTexts == <<"a", "b", "c", "d", "e", "f">>

EditsTree == dialect = "none"

StoresInit ==
  \/ /\ Init
     /\ dialect = "none" /\ language = NoLocale /\ forms = << >> /\ strings = << >>
     /\ loaded = FALSE /\ entered = FALSE
  \/ /\ PluralInit
     /\ kind = "none" /\ disk = Truncated /\ original = EmptyMap /\ units = << >>
     /\ open = FALSE /\ shifted = FALSE /\ edits = 0
     /\ last = [op |-> "none", failed |-> FALSE]

StoresNext ==
  \/ EditsTree /\ Next /\ UNCHANGED pluralVars
  \/ ~EditsTree /\ PluralNext /\ UNCHANGED vars

StoresSpec == StoresInit /\ [][StoresNext]_<<vars, pluralVars>>
=============================================================================
