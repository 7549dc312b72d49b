------------------------------ MODULE PoParser ------------------------------
(***************************************************************************)
(* Reading and writing a PO file (translate/storage/poparser.py, and       *)
(* _getoutput and serialize of pypo.py).  A line of the file is            *)
(*   [obsolete, prev : BOOLEAN, kind : Kinds, text : Texts]                *)
(* where obsolete stands for a leading "#~" and prev for "#|" or "#~|".    *)
(* Blank lines are absent: read_line skips them wherever they are.         *)
(***************************************************************************)
EXTENDS Integers, Sequences, FiniteSets

LOCAL INSTANCE SequencesExt   \* FlattenSeq, RemoveFirst, Contains
LOCAL INSTANCE FiniteSetsExt  \* Min

CONSTANTS
  Null,      \* the empty string, written ""
  Kde,       \* texts that start with _: and end in \n, comments in a msgid
  Unmarked,  \* such a text without the _: as a function on Kde
  Charsets,  \* the texts that declare a charset, a subset of STRING
  Known,     \* those of them that Python has a codec for
  Wide,      \* texts outside ASCII
  Has,       \* those of them that a charset has, as a function on Charsets
  Garbled,   \* what such a text becomes when it is read as another charset
  Files,     \* the files to read: [lines, charset, whole, enters]
  Rounds     \* how often a file is saved and read again

VARIABLES
  disk,      \* the file: its lines and the charset its bytes are in
  rest,      \* the lines not read yet
  encoding,  \* parse_state.encoding, NoCharset for None
  current,   \* parse_state._current_encoding
  units,     \* store.units
  charset,   \* store._encoding
  round, pc,
  before,    \* what the previous round read
  enters     \* texts that a translator is still to enter

vars == <<disk, rest, encoding, current, units, charset, round, pc, before, enters>>

NoCharset == "none"
CommentKinds == {"other", "auto", "location", "flag"}
PartKinds == {"msgctxt", "msgid", "msgid_plural"}
FormKinds == {"msgstr", "msgstr[0]", "msgstr[1]"}
ArrayKinds == FormKinds \ {"msgstr"}

NewUnit ==
  [comments |-> [k \in CommentKinds |-> << >>],
   prev     |-> [k \in PartKinds |-> << >>],
   parts    |-> [k \in PartKinds |-> << >>],
   kde      |-> [k \in PartKinds |-> << >>],
   forms    |-> [k \in FormKinds |-> << >>],
   obsolete |-> FALSE]

IsNull(strings) == strings = << >> \/ strings = <<Null>>

(* The longest prefix of lines all of which satisfy Test.                  *)
Leading(lines, Test(_)) ==
  LET others == {k \in DOMAIN lines : ~Test(lines[k])}
  IN IF others = {} THEN lines ELSE SubSeq(lines, 1, Min(others) - 1)

After(lines, read) == SubSeq(lines, Len(read) + 1, Len(lines))
Texts(lines) == [k \in DOMAIN lines |-> lines[k].text]

-----------------------------------------------------------------------------
(* Messages: parse_message and what it calls.                              *)

Starts(lines, kind) ==
  /\ lines # << >>
  /\ Head(lines).kind = kind /\ ~Head(lines).obsolete /\ ~Head(lines).prev

(* The line that opens a message and the strings that continue it.         *)
Message(lines, kind) ==
  IF Starts(lines, kind)
  THEN <<Head(lines)>> \o Leading(Tail(lines), LAMBDA l :
         l.kind = "string" /\ ~l.obsolete /\ ~l.prev)
  ELSE << >>

(* parse_multiple_quoted: the strings of a msgid, and of its plural, that  *)
(* start with _: are comments.                                             *)
WithPart(unit, kind, lines) ==
  LET strings == Texts(Message(lines, kind))
      comment(t) == kind # "msgctxt" /\ t \in Kde
  IN [unit EXCEPT
        !.parts[kind] = @ \o SelectSeq(strings, LAMBDA t : ~comment(t)),
        !.kde[kind] = @ \o SelectSeq(strings, comment)]

(* parse_prev_msgctxt, parse_prev_msgid, parse_prev_msgid_plural: the      *)
(* lines of the block in this order, what does not fit is dropped.         *)
WithPrev(unit, block) ==
  LET bare == [k \in DOMAIN block |-> [block[k] EXCEPT !.prev = FALSE]]
      context == Message(bare, "msgctxt")
      id == Message(After(bare, context), "msgid")
      plural == Message(After(bare, context \o id), "msgid_plural")
  IN [unit EXCEPT !.prev["msgctxt"] = @ \o Texts(context),
                  !.prev["msgid"] = @ \o Texts(id),
                  !.prev["msgid_plural"] = @ \o Texts(plural)]

-----------------------------------------------------------------------------
(* parse_comments: a comment line goes to its list, a block of previous    *)
(* messages is parsed as a whole, and fails when nothing was parsed.       *)

IsComment(line) == ~line.obsolete /\ (line.prev \/ line.kind \in CommentKinds)

RECURSIVE ParseComments(_, _)
ParseComments(unit, lines) ==
  IF lines = << >> \/ ~IsComment(Head(lines))
  THEN [ok |-> TRUE, unit |-> unit, rest |-> lines]
  ELSE IF Head(lines).prev
  THEN LET block == Leading(lines, LAMBDA l : l.prev /\ ~l.obsolete)
           read == WithPrev(unit, block)
       IN IF \A k \in PartKinds : read.prev[k] = << >>
          THEN [ok |-> FALSE, unit |-> read, rest |-> lines]
          ELSE ParseComments(read, After(lines, block))
  ELSE ParseComments(
         [unit EXCEPT !.comments[Head(lines).kind] = Append(@, Head(lines).text)],
         Tail(lines))

(* Mutant: parse_comments answers True when there is no comment.           *)
AlwaysParsed(lines, after) == TRUE

(* The answer of parse_comments, which for a block is the line after it:   *)
(* a block at the end of the input was no comment.                         *)
CommentsParsed(lines, after) ==
  /\ after # lines
  /\ Head(lines).prev =>
       LET next == After(lines, Leading(lines, LAMBDA l : l.prev /\ ~l.obsolete))
       IN next # << >> /\ (Head(next).kind = "empty" => Head(next).obsolete)

(* One message of this kind, if there is one, taken from the lines.        *)
Taken(state, kind) ==
  [unit |-> IF kind \in PartKinds THEN WithPart(state.unit, kind, state.rest)
            ELSE [state.unit EXCEPT !.forms[kind] = @ \o Texts(Message(state.rest, kind))],
   rest |-> After(state.rest, Message(state.rest, kind))]

(* parse_msgstr_array: one entry after the other, in any order.            *)
RECURSIVE ParseArray(_)
ParseArray(state) ==
  IF \E kind \in ArrayKinds : Starts(state.rest, kind)
  THEN ParseArray(Taken(state, Head(state.rest).kind)) ELSE state

(* parse_msg_entries: whether a message was parsed is read off the unit,   *)
(* which may have got its msgid earlier.                                   *)
HasPart(unit, kind) == unit.parts[kind] # << >> \/ unit.kde[kind] # << >>

Parsed(state, parsed) == [parsed |-> parsed, unit |-> state.unit, rest |-> state.rest]

ParsePlural(named, many) ==
  IF HasPart(many.unit, "msgid_plural")
  THEN Parsed(ParseArray(many), ParseArray(many).rest # many.rest)
  ELSE Parsed(named, FALSE)

ParseForms(named, single) ==
  IF ~HasPart(named.unit, "msgid") THEN Parsed(named, FALSE)
  ELSE IF single.unit.forms["msgstr"] # << >> THEN Parsed(single, TRUE)
  ELSE ParsePlural(named, Taken(named, "msgid_plural"))

ParseEntries(unit, lines) ==
  LET named == Taken(Taken([unit |-> unit, rest |-> lines], "msgctxt"), "msgid")
  IN ParseForms(named, Taken(named, "msgstr"))

-----------------------------------------------------------------------------
(* Obsolete entries.                                                       *)

(* Mutant: the lines after the msgstr are read as the ones before it.      *)
AllObsoleteLines(lines) == Leading(lines, LAMBDA l : l.obsolete)

(* read_obsolete_lines: up to the first msgstr, then only what continues   *)
(* it, to avoid parsing into the following unit.                           *)
ObsoleteLines(lines) ==
  LET all == Leading(lines, LAMBDA l : l.obsolete)
      strs == {k \in DOMAIN all : all[k].kind \in FormKinds /\ ~all[k].prev}
      first == Min(strs)
      more == Leading(SubSeq(all, first + 1, Len(all)), LAMBDA l :
                l.kind \in FormKinds \cup {"string"} /\ ~l.prev)
  IN IF strs = {} THEN all ELSE SubSeq(all, 1, first + Len(more))

HasTarget(unit) ==
  \E kind \in FormKinds : \E k \in DOMAIN unit.forms[kind] :
    unit.forms[kind][k] # Null

(* makeobsolete drops the comments gettext does not keep, and the state it *)
(* sets takes the fuzzy flag from a unit without a target.                 *)
Obsolete(unit) ==
  [unit EXCEPT !.obsolete = TRUE, !.comments["location"] = << >>,
               !.comments["auto"] = << >>,
               !.comments["flag"] =
                 IF HasTarget(unit) THEN @ ELSE RemoveFirst(@, "fuzzy")]

(* infer_state takes one fuzzy flag from a unit without a target, and then *)
(* marks it as fuzzy.                                                      *)
InferState(unit) ==
  LET left == RemoveFirst(unit.comments["flag"], "fuzzy")
  IN IF HasTarget(unit) \/ left = unit.comments["flag"] THEN unit
     ELSE [unit EXCEPT !.comments["flag"] =
             IF Contains(left, "fuzzy") THEN left ELSE Append(left, "fuzzy")]

(* Mutant: any unit takes its state.                                       *)
AnyTakesState(unit) == TRUE

(* set_state_n, by infer_state and makeobsolete, raises AttributeError for *)
(* a plural unit whose target is not a dictionary.                         *)
TakesState(unit) ==
  unit.parts["msgid_plural"] # << >> =>
    \E kind \in ArrayKinds : unit.forms[kind] # << >>

(* parse_unit inside the obsolete lines, stripped of their marks: a second *)
(* unit among them, or lines that fit nowhere, are dropped.                *)
InnerUnit(comments, entries, lines) ==
  [ok |-> comments.ok, unit |-> entries.unit,
   parsed |-> entries.parsed \/ CommentsParsed(lines, comments.rest)]

ParseInner(unit, lines) ==
  LET bare == [k \in DOMAIN lines |-> [lines[k] EXCEPT !.obsolete = FALSE]]
      comments == ParseComments(unit, bare)
  IN InnerUnit(comments, ParseEntries(comments.unit, comments.rest), bare)

Failed(lines) == [outcome |-> "error", unit |-> NewUnit, rest |-> lines]

LiveUnit(entries, commented) ==
  [outcome |-> IF ~entries.parsed /\ ~commented THEN "none"
               ELSE IF TakesState(entries.unit) THEN "unit" ELSE "error",
   unit |-> InferState(entries.unit), rest |-> entries.rest]

ObsoleteUnit(inner, after) ==
  [outcome |-> IF TakesState(inner.unit) THEN "unit" ELSE "error",
   unit |-> Obsolete(inner.unit), rest |-> after]

(* When the obsolete lines were no unit, the unit they filled is filled    *)
(* further with the lines that follow.                                     *)
ParseCommented(lines, comments, obsolete, inner) ==
  IF ~comments.ok \/ (obsolete # << >> /\ ~inner.ok) THEN Failed(lines)
  ELSE IF obsolete # << >> /\ inner.parsed
  THEN ObsoleteUnit(inner, After(comments.rest, obsolete))
  ELSE LiveUnit(ParseEntries(inner.unit, After(comments.rest, obsolete)),
                CommentsParsed(lines, comments.rest))

(* parse_unit.                                                             *)
ParseUnit(lines) ==
  LET comments == ParseComments(NewUnit, lines)
      obsolete == ObsoleteLines(comments.rest)
  IN ParseCommented(lines, comments, obsolete, ParseInner(comments.unit, obsolete))

-----------------------------------------------------------------------------
(* Writing: _getoutput and _getmsgpartstr.                                 *)

Line(mark, kind, text) ==
  [obsolete |-> mark.obsolete, prev |-> mark.prev, kind |-> kind, text |-> text]

Plain == [obsolete |-> FALSE, prev |-> FALSE]

CommentLines(unit, kind) ==
  [k \in DOMAIN unit.comments[kind] |-> Line(Plain, kind, unit.comments[kind][k])]

StringLines(mark, kind, strings) ==
  [k \in DOMAIN strings |->
     Line(mark, IF k = 1 THEN kind ELSE "string", strings[k])]

(* The first comment keeps its mark, the others are put on the same line,  *)
(* which is then wrapped where each of them ends.                          *)
Combined(comments) ==
  [k \in DOMAIN comments |-> IF k = 1 THEN comments[k] ELSE Unmarked[comments[k]]]

(* The comments of a msgid come after an empty leader.                     *)
PartLines(unit, mark, kind) ==
  LET own == unit.parts[kind]
      led == own # << >> /\ Head(own) = Null /\ Len(own) > 1
  IN IF own = << >> /\ unit.kde[kind] = << >>
     THEN IF kind = "msgid" THEN <<Line(mark, kind, Null)>> ELSE << >>
     ELSE StringLines(mark, kind,
            IF unit.kde[kind] = << >> THEN own
            ELSE <<Null>> \o Combined(unit.kde[kind]) \o (IF led THEN Tail(own) ELSE own))

(* Mutant: of a previous text only the first line is written.              *)
FirstPrevLines(unit, mark) ==
  LET lines(kind) == StringLines([mark EXCEPT !.prev = TRUE], kind,
                       IF unit.prev[kind] = << >> THEN << >>
                       ELSE <<Head(unit.prev[kind])>>)
  IN lines("msgctxt") \o lines("msgid") \o lines("msgid_plural")

PrevLines(unit, mark) ==
  LET lines(kind) == StringLines([mark EXCEPT !.prev = TRUE], kind, unit.prev[kind])
  IN lines("msgctxt") \o lines("msgid") \o lines("msgid_plural")

FormLines(unit, mark) ==
  LET lines(kind) == StringLines(mark, kind, unit.forms[kind])
  IN IF \A kind \in FormKinds : unit.forms[kind] = << >>
     THEN <<Line(mark, "msgstr", Null)>>
     ELSE lines("msgstr") \o lines("msgstr[0]") \o lines("msgstr[1]")

MessageLines(unit, mark) ==
  PrevLines(unit, mark) \o PartLines(unit, mark, "msgctxt")
    \o PartLines(unit, mark, "msgid") \o PartLines(unit, mark, "msgid_plural")
    \o FormLines(unit, mark)

(* isheader; of a plural unit msgstr is a dictionary, never null.          *)
IsHeader(unit) ==
  /\ IsNull(unit.parts["msgid"]) /\ unit.kde["msgid"] = << >>
  /\ IsNull(unit.parts["msgctxt"])
  /\ \/ ~IsNull(unit.forms["msgstr"])
     \/ \E kind \in ArrayKinds : unit.forms[kind] # << >>

(* What _getoutput writes as no more than its translator's comments.       *)
IsDiscarded(unit) ==
  /\ ~unit.obsolete /\ ~IsHeader(unit)
  /\ IsNull(unit.parts["msgid"]) /\ unit.comments["location"] = << >>
  /\ IsNull(unit.parts["msgctxt"]) /\ unit.kde["msgid"] = << >>

WrittenUnit(unit) ==
  LET comments(kind) == CommentLines(unit, kind)
  IN IF unit.obsolete
     THEN comments("other") \o comments("flag")
            \o MessageLines(unit, [Plain EXCEPT !.obsolete = TRUE])
     ELSE IF IsDiscarded(unit) THEN comments("other")
     ELSE comments("other") \o comments("auto") \o comments("location")
            \o comments("flag") \o MessageLines(unit, Plain)

Written(list) == FlattenSeq([k \in DOMAIN list |-> WrittenUnit(list[k])])

-----------------------------------------------------------------------------
(* Charsets.                                                               *)

(* Bytes that are no utf-8.                                                *)
Undecodable(line) == disk.charset # "utf-8" /\ line.text \in Wide

(* A text read with a charset that is not the file's is garbled.           *)
Decoded(lines, as) ==
  [k \in DOMAIN lines |->
     IF lines[k].text \in Wide /\ as # disk.charset
     THEN [lines[k] EXCEPT !.text = Garbled] ELSE lines[k]]

(* get_header_charset: the first unit may be any.                          *)
HeaderCharset(unit) ==
  LET declared == SelectSeq(unit.forms["msgstr"], LAMBDA t : t \in Charsets)
  IN IF declared = << >> THEN "utf-8" ELSE Head(declared)

(* Of the lines read until after is left, and the one looked ahead at,     *)
(* read_line finds one that it cannot decode as utf-8.                     *)
MeetsUndecodable(after) ==
  \E k \in 1..(1 + Len(rest) - Len(after)) :
    k \in DOMAIN rest /\ Undecodable(rest[k])

(* encode().                                                               *)
Encodable(lines, as) ==
  \A k \in DOMAIN lines : lines[k].text \in Wide => lines[k].text \in Has[as]

(* updateheader(add=True): the header declares utf-8, and is made when     *)
(* there is none.                                                          *)
DeclaringUtf8(list) ==
  LET declares(unit) ==
        [unit EXCEPT !.forms["msgstr"] =
                        Append(SelectSeq(@, LAMBDA t : t \notin Charsets), "utf-8"),
                     !.comments["flag"] = RemoveFirst(@, "fuzzy")]
      new == [NewUnit EXCEPT !.parts["msgid"] = <<Null>>,
                             !.forms["msgstr"] = <<Null>>]
  IN IF list = << >> \/ ~IsHeader(Head(list)) THEN <<declares(new)>> \o list
     ELSE <<declares(Head(list))>> \o Tail(list)

-----------------------------------------------------------------------------
Init ==
  \E file \in Files :
    /\ disk = [lines |-> file.lines, charset |-> file.charset]
    /\ rest = file.lines /\ before = file.whole /\ enters = file.enters
    /\ encoding = NoCharset /\ current = "utf-8"
    /\ units = << >> /\ charset = NoCharset
    /\ round = 0 /\ pc = "header"

(* set_encoding starts again from the first line, and goes on decoding     *)
(* with the charset in use.                                                *)
SetEncoding(used, declared) == used

(* parse_header.  As long as encoding is None read_line falls back to      *)
(* iso-8859-1.  When the header declares another charset than the one in   *)
(* use, everything is read again.                                          *)
ParseHeader ==
  /\ pc = "header"
  /\ \E read \in {ParseUnit(rest)} :
       LET declared == HeaderCharset(read.unit)
           used == IF MeetsUndecodable(read.rest) THEN "iso-8859-1" ELSE current
           refused == declared # used /\ declared \notin Known
       IN /\ \/ /\ read.outcome = "error" /\ pc' = "failed"
                /\ UNCHANGED <<rest, units, charset, encoding, current>>
             \/ /\ read.outcome = "none" /\ pc' = "end"
                /\ rest' = read.rest
                /\ UNCHANGED <<units, charset, encoding, current>>
             \/ /\ read.outcome = "unit" /\ refused
                /\ pc' = "failed" /\ charset' = declared /\ current' = used
                /\ UNCHANGED <<rest, units, encoding>>
             \/ /\ read.outcome = "unit" /\ ~refused
                /\ charset' = declared /\ encoding' = declared
                /\ current' = IF declared = used THEN used
                              ELSE SetEncoding(used, declared)
                /\ units' = <<ParseUnit(Decoded(rest, current')).unit>>
                /\ rest' = read.rest /\ pc' = "units"
  /\ UNCHANGED <<disk, round, before, enters>>

(* The loop of parse_units.                                                *)
ParseNextUnit ==
  /\ pc = "units"
  /\ \E read \in {ParseUnit(rest)} :
       LET fails == /\ current = "utf-8" /\ encoding # NoCharset
                    /\ MeetsUndecodable(read.rest)
       IN /\ \/ /\ fails \/ read.outcome = "error"
                /\ pc' = "failed" /\ UNCHANGED units
             \/ /\ ~fails /\ read.outcome = "none"
                /\ pc' = "end" /\ UNCHANGED units
             \/ /\ ~fails /\ read.outcome = "unit"
                /\ units' = Append(units, ParseUnit(Decoded(rest, current)).unit)
                /\ UNCHANGED pc
          /\ rest' = read.rest
  /\ UNCHANGED <<disk, encoding, current, charset, round, before, enters>>

(* The end of parse_units: what is left over is a syntax error.            *)
Finish ==
  /\ pc = "end"
  /\ pc' = IF rest = << >> THEN "parsed" ELSE "failed"
  /\ UNCHANGED <<disk, rest, encoding, current, units, charset, round, before, enters>>

(* unit.target = text; a plural unit is left with its first form.          *)
Translate(k, text) ==
  /\ pc \in {"parsed", "edited"} /\ round < Rounds /\ ~IsHeader(units[k])
  /\ LET only == IF units[k].parts["msgid_plural"] = << >> THEN "msgstr" ELSE "msgstr[0]"
     IN units' = [units EXCEPT ![k].forms =
                    [kind \in FormKinds |-> IF kind = only THEN <<text>> ELSE << >>]]
  /\ enters' = enters \ {text} /\ pc' = "edited"
  /\ UNCHANGED <<disk, rest, encoding, current, charset, round, before>>

(* serialize, and a second pass as utf-8 when a text is not of the charset *)
(* of the store; then parse again.                                         *)
Save ==
  /\ pc \in {"parsed", "edited"} /\ round < Rounds
  /\ LET as == IF charset = NoCharset THEN "utf-8" ELSE charset
     IN \E fits \in {Encodable(Written(units), as)} :
          /\ before' = IF fits THEN units ELSE DeclaringUtf8(units)
          /\ disk' = [lines |-> Written(before'),
                      charset |-> IF fits THEN as ELSE "utf-8"]
          /\ rest' = disk'.lines
  /\ units' = << >> /\ charset' = NoCharset
  /\ encoding' = NoCharset /\ current' = "utf-8"
  /\ round' = round + 1 /\ pc' = "header"
  /\ UNCHANGED enters

Done ==
  /\ pc = "failed" \/ (pc = "parsed" /\ round = Rounds)
  /\ UNCHANGED vars

Next ==
  \/ ParseHeader \/ ParseNextUnit \/ Finish \/ Save \/ Done
  \/ \E k \in DOMAIN units, text \in enters : Translate(k, text)

Spec == Init /\ [][Next]_vars

-----------------------------------------------------------------------------
(* Two units are the same when they differ in empty strings alone, which   *)
(* come and go with the way a text is wrapped.                             *)
Same(u, v) ==
  LET bare(strings) == SelectSeq(strings, LAMBDA t : t # Null)
      same(f, g) == \A k \in DOMAIN f : bare(f[k]) = bare(g[k])
  IN /\ same(u.comments, v.comments) /\ same(u.prev, v.prev)
     /\ same(u.parts, v.parts) /\ same(u.kde, v.kde)
     /\ same(u.forms, v.forms) /\ u.obsolete = v.obsolete

(* Of the entry that a file was cut off in there are comments and the      *)
(* plural, and no form.                                                    *)
StopsInPlural(lines) ==
  /\ lines # << >>
  /\ Head(lines).prev \/ Head(lines).kind \in CommentKinds
  /\ \E k \in DOMAIN lines : lines[k].kind = "msgid_plural" /\ ~lines[k].prev
  /\ \A k \in DOMAIN lines : lines[k].kind \notin FormKinds

(* A file that is cut off after its header - the disk was full, the        *)
(* download broke - still gives every entry that it holds whole, and no    *)
(* other in its place.  There is one way to lose them all: parse_unit asks *)
(* a plural without forms for its strings and raises AttributeError        *)
(* (pocommon.py:163).  Nothing but a cut within a commented plural leads   *)
(* there.                                                                  *)
WholeUnitsComeBack ==
  round = 0 /\ before # << >> =>
    /\ pc = "failed" => StopsInPlural(After(disk.lines, Written(before)))
    /\ pc = "parsed" => /\ Len(units) >= Len(before)
                        /\ \A k \in DOMAIN before : Same(before[k], units[k])

(* No text of the file is decoded with another charset than the file's.    *)
IsDecodedAsWritten ==
  current = disk.charset \/ \A k \in DOMAIN disk.lines : disk.lines[k].text \notin Wide

HasOneComment(unit) == \A kind \in PartKinds : Len(unit.kde[kind]) <= 1

(* What a store writes it reads back: the same entries in the same order,  *)
(* each with its comments, previous texts, context, plural and status.  A  *)
(* unit that is written as its comments alone has to be the last, or the   *)
(* comments become those of the next.  Excepted are the units with several *)
(* comments in their msgid, which are written as one that is wrapped into  *)
(* lines of which only the first is marked (pypo.py:724), and files that   *)
(* are read in another charset than they declare (poparser.py:96).         *)
WhatIsWrittenIsReadBack ==
  LET last == IF IsDiscarded(before[Len(before)]) THEN 1 ELSE 0
  IN /\ pc = "parsed" /\ round > 0 /\ before # << >> /\ IsDecodedAsWritten
     /\ \A k \in 1..(Len(before) - 1) : ~IsDiscarded(before[k])
     => /\ Len(units) \in (Len(before) - last)..Len(before)
        /\ \A k \in 1..(Len(before) - last) :
             HasOneComment(before[k]) => Same(before[k], units[k])

(* A file the store wrote is refused by it in one case only: it is in      *)
(* another charset than UTF-8, as its header declares, but the parser,     *)
(* which met no other character in the header, decodes it as UTF-8.        *)
WhatIsWrittenIsAccepted ==
  round > 0 /\ pc = "failed" => current = "utf-8" /\ ~IsDecodedAsWritten

(* Every unit takes a line from the file, so that a parse comes to an end  *)
(* whatever the file holds.                                                *)
EveryUnitTakesALine ==
  [][pc # "parsed" /\ pc' = "units" => Len(rest') < Len(rest)]_vars
=============================================================================
