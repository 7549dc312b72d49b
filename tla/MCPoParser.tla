----------------------------- MODULE MCPoParser -----------------------------
(* PO files of three kinds: any few lines after a header, the entries of a *)
(* store cut off at any line, and entries in other charsets than utf-8.     *)
EXTENDS PoParser

CONSTANTS A, B, W, C, K, note, null, MaxLines

MCCharsets == {"utf-8", "iso-8859-1", "koi8-r", "x-unknown"}
MCKnown == MCCharsets \ {"x-unknown"}
MCKde == {K}
MCUnmarked == [t \in Kde |-> note]
MCWide == {W, C, Garbled}
MCHas == [c \in Charsets |->
            CASE c = "utf-8" -> Wide [] c = "iso-8859-1" -> {W, Garbled}
              [] c = "koi8-r" -> {C} [] OTHER -> {}]

L(kind, text) == Line(Plain, kind, text)
P(kind, text) == Line([obsolete |-> FALSE, prev |-> TRUE], kind, text)
O(kind, text) == Line([obsolete |-> TRUE, prev |-> FALSE], kind, text)
OP(kind, text) == Line([obsolete |-> TRUE, prev |-> TRUE], kind, text)

Header(strings) ==
  <<L("msgid", null), L("msgstr", null)>>
    \o [k \in DOMAIN strings |-> L("string", strings[k])]

Alphabet ==
  {L("other", A), L("location", A), L("flag", A), P("msgctxt", A),
   P("msgid", A), P("string", B), L("msgctxt", A), L("msgid", A),
   L("msgid_plural", B), L("string", K), L("string", B), L("msgstr", B),
   L("msgstr[0]", B), L("msgstr[1]", A), O("other", A), O("msgid", A),
   O("msgstr", B), O("string", B), OP("msgid", A), O("empty", null)}

RECURSIVE LinesOf(_)
LinesOf(n) ==
  IF n = 0 THEN {<< >>}
  ELSE {Append(s, l) : s \in LinesOf(n - 1), l \in Alphabet} \cup LinesOf(n - 1)

AnyLines ==
  {[lines |-> h \o s, charset |-> "utf-8", whole |-> << >>, enters |-> {}] :
     h \in {<< >>, Header(<<"utf-8">>)}, s \in LinesOf(MaxLines)}

(* Entries as a store holds them.                                          *)
HeaderUnit == [NewUnit EXCEPT !.parts["msgid"] = <<null>>,
                              !.forms["msgstr"] = <<null, "utf-8">>]
Simple == [NewUnit EXCEPT !.parts["msgid"] = <<A>>, !.forms["msgstr"] = <<W>>]
Noted  == [Simple EXCEPT !.comments["other"] = <<A, B>>,
                         !.comments["location"] = <<B>>,
                         !.comments["flag"] = <<"fuzzy">>,
                         !.prev["msgid"] = <<B, A>>]
Context == [Noted EXCEPT !.parts["msgctxt"] = <<A>>, !.parts["msgid"] = <<B, A>>,
                         !.prev["msgctxt"] = <<B>>,
                         !.kde["msgid"] = <<K>>, !.comments["auto"] = <<A>>]
Plural == [NewUnit EXCEPT !.parts["msgid"] = <<A>>,
             !.parts["msgid_plural"] = <<B, A>>,
             !.prev["msgid"] = <<B>>, !.prev["msgid_plural"] = <<A>>,
             !.forms["msgstr[0]"] = <<W, B>>, !.forms["msgstr[1]"] = <<A>>]
Closed(unit) == Obsolete(unit)

Entries == {Simple, Context, Plural, Closed(Noted), Closed(Context), Closed(Plural)}

UnitLists ==
  {<<HeaderUnit>> \o s : s \in {<<u, v, w>> : u, v, w \in Entries}}

(* The entries that end before the cut, and the header.                    *)
Whole(list, cut) ==
  LET ends(n) == Len(Written(SubSeq(list, 1, n)))
      n == CHOOSE m \in 0..Len(list) :
             ends(m) <= cut /\ (m = Len(list) \/ ends(m + 1) > cut)
  IN SubSeq(list, 1, n)

CutFiles ==
  UNION {{[lines |-> SubSeq(Written(list), 1, cut), charset |-> "utf-8",
           whole |-> Whole(list, cut), enters |-> {}] :
            cut \in 0..Len(Written(list))} : list \in UnitLists}

(* Entries with this translation, which may be outside ASCII as the header *)
(* may be, under every declaration, and texts to enter.                    *)
InCharset(c, header, text, toEnter) ==
  LET simple == [Simple EXCEPT !.forms["msgstr"] = <<text>>]
      plural == [Plural EXCEPT !.forms["msgstr[0]"] = <<text, B>>]
  IN [lines |-> Header(header) \o Written(<<simple, plural>>),
      charset |-> c, whole |-> << >>, enters |-> toEnter]

LatinFiles ==
  {InCharset(c, header, text, toEnter) :
     c \in {"iso-8859-1"}, text \in {W, B}, toEnter \in {{}, {W}, {W, C}},
     header \in {<<W>>, <<"utf-8">>, <<"iso-8859-1">>, <<"iso-8859-1", W>>}}

CyrillicFiles ==
  {InCharset(c, header, text, toEnter) :
     c \in {"koi8-r", "utf-8"}, text \in {C, B}, toEnter \in {{}, {C}, {W, C}},
     header \in {<<C>>, <<"koi8-r">>, <<"koi8-r", C>>, <<"iso-8859-1", C>>, <<"x-unknown">>}}

CharsetFiles == LatinFiles \cup CyrillicFiles

(* A message with two comments.                                            *)
CommentedFiles ==
  {[lines |-> <<L("msgid", null), L("string", K), L("string", K), L("string", A),
                L("msgstr", B)>>,
    charset |-> "utf-8", whole |-> << >>, enters |-> {}]}

MCFiles == AnyLines \cup CutFiles \cup CharsetFiles \cup CommentedFiles
=============================================================================
