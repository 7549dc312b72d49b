-------------------------- MODULE RecursiveProcess --------------------------
(***************************************************************************)
(* How every command goes through its input files                          *)
(* (RecursiveOptionParser.recursiveprocess and processfile in              *)
(* translate/misc/optrecurse.py, with the option --timestamp of            *)
(* translate/convert/convert.py): each input is converted, perhaps with a  *)
(* template, to an output, which may be the template or the input itself.  *)
(* Commands are run again and again, with and without --timestamp; they    *)
(* may be killed at any step, and people edit files all the while.         *)
(*                                                                         *)
(* What a converter does is a parameter: its result for the contents of    *)
(* an input and a template.  Archives and standard output are left out.    *)
(***************************************************************************)
EXTENDS Naturals, Sequences

CONSTANTS
  Inputs,        \* the input files of the command, sorted
  OutputOf,      \* the output path of each input
  TemplateOf,    \* the template path of each input, NoPath without templates
  Edits,         \* for each path, the contents people may give it
  Convert,       \* what a converter makes of <<input, template>>
  NoPath,
  Missing,       \* there is no file at the path
  Incomplete,    \* opened for writing, but not (all) written
  NoResult,      \* the converter returns a false value
  Raises         \* the converter raises an exception

ASSUME InputsAssumption ==
  /\ Inputs \in Seq({Inputs[k] : k \in DOMAIN Inputs})
  /\ \A j, k \in DOMAIN Inputs : Inputs[j] = Inputs[k] => j = k

InputFiles == {Inputs[k] : k \in DOMAIN Inputs}
Paths == (InputFiles \cup {OutputOf[f] : f \in InputFiles}
                     \cup {TemplateOf[f] : f \in InputFiles}) \ {NoPath}

Results  == {Convert[pair] : pair \in DOMAIN Convert} \ {NoResult, Raises}
Contents == (UNION {Edits[p] : p \in Paths}) \cup Results \cup {Missing, Incomplete}

ASSUME PathsAssumption == NoPath \notin InputFiles \cup {OutputOf[f] : f \in InputFiles}
ASSUME ConvertAssumption == Contents \X Contents \subseteq DOMAIN Convert
ASSUME MarksAssumption ==
  /\ {Missing, Incomplete} \cap (Results \cup (UNION {Edits[p] : p \in Paths})) = {}
  /\ Missing # Incomplete /\ NoResult # Raises

VARIABLES
  disk,       \* the contents of each path
  newer,      \* the inputs whose output has been modified after them
  options,    \* --timestamp, and whether the command allows a missing template
  listed,     \* inputfiles, as found when the command began
  next,       \* the position in Inputs of the file in turn
  pc,         \* where processfile is
  template,   \* fulltemplatepath of the file in turn
  result,     \* what the converter has written to outputfile
  due,        \* history: inputs edited since their output was last tried or edited
  begun       \* history: <<disk, due>> when the command began, << >> once
              \* a file was edited or the command has ended

vars == <<disk, newer, options, listed, next, pc, template, result, due, begun>>

-----------------------------------------------------------------------------
Exists(path) == path # NoPath /\ disk[path] # Missing

Input  == Inputs[next]
Output == OutputOf[Input]

(* Giving a path new contents gives it the newest modification time.       *)
Store(path, contents) ==
  /\ disk' = [disk EXCEPT ![path] = contents]
  /\ newer' = (newer \cup {f \in InputFiles : OutputOf[f] = path}) \ {path}

OutputIsNewer == Exists(Input) /\ Exists(Output) /\ Input \in newer

(* Mutant: the result of one file is left over for the next. *)
ContinueUnreset ==
  /\ next' = next + 1 /\ pc' = "next" /\ template' = NoPath
  /\ due' = due \ {Input}
  /\ UNCHANGED <<options, listed, result, begun>>

(* The loop goes on with the next file. *)
Continue ==
  /\ next' = next + 1 /\ pc' = "next" /\ template' = NoPath /\ result' = NoResult
  /\ due' = due \ {Input}
  /\ UNCHANGED <<options, listed, begun>>

Init ==
  /\ disk \in [Paths -> Contents]
  /\ \A p \in InputFiles : disk[p] \in Edits[p]
  /\ \A p \in Paths \ InputFiles : disk[p] \in Edits[p] \cup {Missing}
  /\ newer = {} /\ due = {}
  /\ options = [timestamp |-> FALSE, allowmissing |-> FALSE]
  /\ listed = {} /\ next = 1 /\ pc = "idle"
  /\ template = NoPath /\ result = NoResult
  /\ begun = << >>

Edit(path, contents) ==
  /\ contents # disk[path]
  /\ Store(path, contents)
  /\ due' = {f \in due : OutputOf[f] # path}
              \cup (IF pc = "idle" THEN {path} \cap InputFiles ELSE {})
  /\ begun' = << >>
  /\ UNCHANGED <<options, listed, next, pc, template, result>>

(* The input directory is listed. *)
Begin ==
  /\ pc = "idle"
  /\ options' \in [timestamp : BOOLEAN, allowmissing : BOOLEAN]
  /\ listed' = {f \in InputFiles : Exists(f)} /\ next' = 1
  /\ pc' = "next" /\ begun' = <<disk, due>>
  /\ UNCHANGED <<disk, newer, template, result, due>>

(* A recursive template that is not there; allowmissingtemplate is set by  *)
(* pot2po, for one.                                                        *)
LacksTemplate == TemplateOf[Input] # NoPath /\ ~Exists(TemplateOf[Input]) /\ ~options.allowmissing

Skip ==
  /\ pc = "next" /\ next <= Len(Inputs)
  /\ \/ Input \notin listed \/ LacksTemplate \/ ~Exists(Input)
     \/ options.timestamp /\ OutputIsNewer
  /\ Continue /\ UNCHANGED <<disk, newer>>

(* tempoutput: the output is the input or the template. *)
InPlace(templatepath) == Output \in {Input, templatepath}

(* Mutant: only the input itself is spared. *)
OpenSparingInput ==
  /\ pc = "next" /\ next <= Len(Inputs)
  /\ Input \in listed /\ ~LacksTemplate
  /\ ~(options.timestamp /\ OutputIsNewer) /\ Exists(Input)
  /\ template' = IF Exists(TemplateOf[Input]) THEN TemplateOf[Input] ELSE NoPath
  /\ IF Output = Input THEN UNCHANGED <<disk, newer>> ELSE Store(Output, Incomplete)
  /\ pc' = "convert"
  /\ UNCHANGED <<options, listed, next, result, due, begun>>

(* processfile opens the files: an output that is the input or the         *)
(* template is written to memory, any other is emptied.                    *)
Open ==
  /\ pc = "next" /\ next <= Len(Inputs)
  /\ Input \in listed /\ ~LacksTemplate
  /\ ~(options.timestamp /\ OutputIsNewer) /\ Exists(Input)
  /\ template' = IF Exists(TemplateOf[Input]) THEN TemplateOf[Input] ELSE NoPath
  /\ IF InPlace(template') THEN UNCHANGED <<disk, newer>> ELSE Store(Output, Incomplete)
  /\ pc' = "convert"
  /\ UNCHANGED <<options, listed, next, result, due, begun>>

(* What fileprocessor makes of the files as they are when it reads them.   *)
Processed ==
  Convert[<<disk[Input], IF template = NoPath THEN Missing ELSE disk[template]>>]

RunProcessor ==
  /\ pc = "convert" /\ Processed \notin {NoResult, Raises}
  /\ result' = Processed /\ pc' = IF InPlace(template) THEN "finalize" ELSE "write"
  /\ UNCHANGED <<disk, newer, options, listed, next, template, due, begun>>

(* Mutants: the first exception ends the command; the file is tried again. *)
FailStopping ==
  /\ pc = "convert" /\ Processed = Raises
  /\ next' = Len(Inputs) + 1 /\ pc' = "next" /\ template' = NoPath /\ result' = NoResult
  /\ UNCHANGED <<disk, newer, options, listed, due, begun>>
FailRetrying ==
  /\ pc = "convert" /\ Processed = Raises
  /\ pc' = "next"
  /\ UNCHANGED <<disk, newer, options, listed, next, template, result, due, begun>>

(* "Error processing": the output stays as it was opened. *)
Fail ==
  /\ pc = "convert" /\ Processed = Raises
  /\ Continue /\ UNCHANGED <<disk, newer>>

(* Without a result the output is removed, if there is one. *)
RemoveOutput ==
  /\ pc = "convert" /\ Processed = NoResult
  /\ IF Exists(Output) THEN Store(Output, Missing) ELSE UNCHANGED <<disk, newer>>
  /\ Continue

(* finalizetempoutputfile opens the output for writing ... and writes it.  *)
Finalize ==
  /\ pc = "finalize"
  /\ Store(Output, Incomplete) /\ pc' = "rewrite"
  /\ UNCHANGED <<options, listed, next, template, result, due, begun>>

Write ==
  /\ pc \in {"write", "rewrite"}
  /\ Store(Output, result) /\ Continue

End ==
  /\ pc = "next" /\ next > Len(Inputs)
  /\ pc' = "idle" /\ begun' = << >> /\ next' = 1
  /\ UNCHANGED <<disk, newer, options, listed, template, result, due>>

(* The process is killed. *)
Kill ==
  /\ pc # "idle"
  /\ next' = 1 /\ pc' = "idle" /\ template' = NoPath /\ result' = NoResult
  /\ due' = IF pc = "next" THEN due ELSE due \ {Input}
  /\ begun' = << >>
  /\ UNCHANGED <<disk, newer, options, listed>>

Process ==
  Skip \/ Open \/ RunProcessor \/ Fail \/ RemoveOutput \/ Finalize \/ Write \/ End

Next ==
  \/ Process \/ Kill \/ Begin
  \/ \E path \in Paths : \E contents \in Edits[path] : Edit(path, contents)

(* The process goes on as long as it is not killed. *)
Spec == Init /\ [][Next]_vars /\ WF_vars(Process)

-----------------------------------------------------------------------------
(* The contents are ones somebody or some converter has made, and a result *)
(* is at hand exactly while it is being written (processfile).             *)
TypeOK ==
  /\ \A p \in Paths : disk[p] \in Edits[p] \cup Results \cup {Missing, Incomplete}
  /\ newer \cup due \subseteq InputFiles
  /\ pc \in {"idle", "next", "convert", "finalize", "write", "rewrite"}
  /\ next \in 1 .. Len(Inputs) + 1 /\ listed \subseteq InputFiles
  /\ pc \notin {"idle", "next"} => next <= Len(Inputs)
  /\ pc \in {"finalize", "write", "rewrite"} <=> result \in Results

(* No other input writes what the conversion of f reads or writes. *)
Alone(f) ==
  \A g \in InputFiles \ {f} : OutputOf[g] \notin {f, OutputOf[f], TemplateOf[f]}

(* What a command that ends undisturbed owes each input: its conversion in *)
(* the output, no output if there is no result, and, if the converter      *)
(* fails, the old file where it was also the input or the template.        *)
Delivered(f) ==
  LET old == begun[1]
      of == IF TemplateOf[f] = NoPath THEN Missing ELSE old[TemplateOf[f]]
      wanted == Convert[<<old[f], of>>]
      now == disk[OutputOf[f]]
  IN /\ wanted = NoResult => now = Missing
     /\ wanted = Raises /\ of # Missing /\ OutputOf[f] = TemplateOf[f] => now = of
     /\ wanted \notin {NoResult, Raises} => now = wanted

(* When a command ends that nobody has interfered with, every input has    *)
(* been dealt with, whichever others have failed: with --timestamp each    *)
(* one that was edited since its output was last tried, otherwise all      *)
(* (recursiveprocess catches every exception, _output_is_newer).           *)
InputsAreDelivered ==
  pc = "next" /\ next > Len(Inputs) /\ begun # << >> =>
    \A f \in InputFiles :
      /\ Alone(f) /\ begun[1][f] # Missing
      /\ options.timestamp => f \in begun[2]
      /\ TemplateOf[f] = NoPath \/ begun[1][TemplateOf[f]] # Missing \/ options.allowmissing
      => Delivered(f)

(* A step that opens an input or template for writing.                     *)
EmptiesOnlyToRewrite ==
  \A f \in InputFiles : \A p \in {f, TemplateOf[f]} \ {NoPath} :
    disk[p] \notin {Missing, Incomplete} /\ disk'[p] = Incomplete /\ Alone(f)
      => pc' = "rewrite"

(* A file that is somebody's input or template is opened for writing only  *)
(* when what replaces it is complete: an exception, or a kill before that  *)
(* moment, leaves it whole (tempoutput in processfile).                    *)
SourcesAreNotEmptied == [][EmptiesOnlyToRewrite]_vars

(* Every command ends, whatever its converters do and people edit.         *)
CommandsEnd == pc # "idle" ~> pc = "idle"
=============================================================================
