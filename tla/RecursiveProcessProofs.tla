------------------------ MODULE RecursiveProcessProofs ------------------------
(***************************************************************************)
(* Theorems of RecursiveProcess, for any number of inputs, however their   *)
(* templates and outputs coincide, and for any converter.                  *)
(***************************************************************************)
EXTENDS RecursiveProcess, TLAPS

(* The inductive invariant: TypeOK, with where the template of the file in *)
(* turn comes from.                                                        *)
Inv ==
  /\ TypeOK
  /\ disk \in [Paths -> Contents]
  /\ next \in Nat
  /\ pc \notin {"idle", "next"} => template \in {NoPath, TemplateOf[Input]}

(* The positions of the input files.                                       *)
LEMMA InputPositions ==
  /\ Len(Inputs) \in Nat
  /\ \A k \in 1 .. Len(Inputs) : Inputs[k] \in InputFiles
BY InputsAssumption DEF InputFiles

(* What is an input, an output or a template is a path.                    *)
LEMMA PathsOf ==
  ASSUME NEW f \in InputFiles
  PROVE  /\ f \in Paths
         /\ OutputOf[f] \in Paths
         /\ TemplateOf[f] # NoPath => TemplateOf[f] \in Paths
BY PathsAssumption DEF Paths

(* What people and converters write are contents.                          *)
LEMMA WhatIsWritten ==
  /\ Results \subseteq Contents /\ Missing \in Contents /\ Incomplete \in Contents
  /\ \A p \in Paths : Edits[p] \subseteq Contents
BY DEF Contents

(* Storing contents at a path changes that path alone.                     *)
LEMMA StoreChanges ==
  ASSUME disk \in [Paths -> Contents], newer \subseteq InputFiles,
         NEW path \in Paths, NEW c \in Contents, Store(path, c)
  PROVE  /\ disk' \in [Paths -> Contents]
         /\ disk'[path] = c
         /\ \A p \in Paths \ {path} : disk'[p] = disk[p]
         /\ newer' \subseteq InputFiles
BY DEF Store

(* The part of TypeOK that speaks of the disk survives every Store of what *)
(* may stand at the path.                                                  *)
LEMMA StoreIsTyped ==
  ASSUME Inv, NEW path \in Paths,
         NEW c \in Edits[path] \cup Results \cup {Missing, Incomplete},
         Store(path, c)
  PROVE  /\ disk' \in [Paths -> Contents]
         /\ \A p \in Paths : disk'[p] \in Edits[p] \cup Results \cup {Missing, Incomplete}
         /\ newer' \subseteq InputFiles
<1>1. c \in Contents
  BY WhatIsWritten
<1>2. newer \subseteq InputFiles /\ disk \in [Paths -> Contents]
  BY DEF Inv, TypeOK
<1>3. /\ disk' \in [Paths -> Contents] /\ disk'[path] = c
      /\ \A p \in Paths \ {path} : disk'[p] = disk[p]
      /\ newer' \subseteq InputFiles
  BY <1>1, <1>2, StoreChanges
<1> QED  BY <1>3 DEF Inv, TypeOK

(* What the converter makes is a result, if it is anything.                *)
LEMMA ProcessedIsResult ==
  ASSUME Inv, pc = "convert", Processed \notin {NoResult, Raises}
  PROVE  Processed \in Results
<1>1. Input \in InputFiles
  BY InputPositions DEF Inv, TypeOK, Input
<1>2. disk[Input] \in Contents
  BY <1>1, PathsOf DEF Inv
<1>3. template # NoPath => disk[template] \in Contents
  BY <1>1, PathsOf DEF Inv
<1>4. (IF template = NoPath THEN Missing ELSE disk[template]) \in Contents
  BY <1>3, WhatIsWritten
<1>5. <<disk[Input], IF template = NoPath THEN Missing ELSE disk[template]>> \in DOMAIN Convert
  BY <1>2, <1>4, ConvertAssumption
<1> QED  BY <1>5 DEF Processed, Results

(* A false value or an exception is not a result.                          *)
LEMMA NoResultIsNone == NoResult \notin Results
BY DEF Results
(* The conjuncts of Inv that speak of the files.                           *)
FilesInv ==
  /\ disk \in [Paths -> Contents]
  /\ \A p \in Paths : disk[p] \in Edits[p] \cup Results \cup {Missing, Incomplete}
  /\ newer \subseteq InputFiles

(* Going on with the next file keeps Inv, whatever was done to the disk.   *)
LEMMA ContinueKeeps ==
  ASSUME Inv, next <= Len(Inputs), Continue, FilesInv'
  PROVE  Inv'
<1>1. next' \in 1 .. Len(Inputs) + 1 /\ next' \in Nat
  BY InputPositions DEF Inv, TypeOK, Continue
<1>2. due' \subseteq InputFiles /\ listed' \subseteq InputFiles
  BY DEF Inv, TypeOK, Continue
<1>3. pc' = "next" /\ result' \notin Results
  BY NoResultIsNone DEF Continue
<1> QED
  BY <1>1, <1>2, <1>3 DEF Inv, TypeOK, FilesInv

(* A conversion writes only the output of the file in turn.                *)
LEMMA OutputIsPath ==
  ASSUME Inv, next <= Len(Inputs)
  PROVE  Input \in InputFiles /\ Output \in Paths
<1>1. Input \in InputFiles
  BY InputPositions DEF Inv, TypeOK, Input
<1> QED
  BY <1>1, PathsOf DEF Output

LEMMA InvInit == Init => Inv
<1> SUFFICES ASSUME Init PROVE Inv
  OBVIOUS
<1>1. disk \in [Paths -> Contents] /\ newer = {} /\ due = {} /\ listed = {}
  BY DEF Init
<1>2. \A p \in Paths : disk[p] \in Edits[p] \cup Results \cup {Missing, Incomplete}
  BY DEF Init
<1>3. next = 1 /\ pc = "idle" /\ result = NoResult
  BY DEF Init
<1>4. 1 \in 1 .. Len(Inputs) + 1
  BY InputPositions
<1> QED
  BY <1>1, <1>2, <1>3, <1>4, NoResultIsNone DEF Inv, TypeOK

LEMMA InvNext == Inv /\ [Next]_vars => Inv'
<1> SUFFICES ASSUME Inv, [Next]_vars PROVE Inv'
  OBVIOUS
<1>0. FilesInv /\ Len(Inputs) \in Nat
  BY InputPositions DEF Inv, TypeOK, FilesInv
<1>1. CASE Skip
  <2>1. FilesInv' BY <1>0, <1>1 DEF Skip, FilesInv
  <2> QED  BY <1>1, <2>1, ContinueKeeps DEF Skip
<1>2. CASE Open
  <2>1. next <= Len(Inputs) /\ Output \in Paths
    BY <1>2, OutputIsPath DEF Open
  <2>2. FilesInv'
    <3>1. CASE InPlace(template')
      BY <1>0, <1>2, <3>1 DEF Open, FilesInv
    <3>2. CASE ~InPlace(template')
      <4>1. Store(Output, Incomplete)  BY <1>2, <3>2 DEF Open
      <4> QED  BY <2>1, <4>1, StoreIsTyped DEF FilesInv
    <3> QED  BY <3>1, <3>2
  <2>3. template' \in {NoPath, TemplateOf[Input]} /\ pc' = "convert"
    BY <1>2 DEF Open
  <2>4. pc = "next" /\ UNCHANGED <<listed, next, result, due>>
    BY <1>2 DEF Open
  <2> QED  BY <2>1, <2>2, <2>3, <2>4 DEF Inv, TypeOK, FilesInv, Input
<1>3. CASE RunProcessor
  <2>1. result' \in Results
    BY <1>3, ProcessedIsResult DEF RunProcessor
  <2>2. /\ pc = "convert" /\ pc' \in {"finalize", "write"}
        /\ UNCHANGED <<disk, newer, listed, next, template, due>>
    BY <1>3 DEF RunProcessor
  <2> QED  BY <2>1, <2>2 DEF Inv, TypeOK, Input
<1>4. CASE Fail
  <2>1. FilesInv' /\ next <= Len(Inputs)
    BY <1>0, <1>4 DEF Fail, FilesInv, Inv, TypeOK
  <2> QED  BY <1>4, <2>1, ContinueKeeps DEF Fail
<1>5. CASE RemoveOutput
  <2>1. next <= Len(Inputs) /\ Output \in Paths
    BY <1>5, OutputIsPath DEF RemoveOutput, Inv, TypeOK
  <2>2. FilesInv'
    <3>1. CASE Exists(Output)
      <4>1. Store(Output, Missing)  BY <1>5, <3>1 DEF RemoveOutput
      <4> QED  BY <2>1, <4>1, StoreIsTyped DEF FilesInv
    <3>2. CASE ~Exists(Output)
      BY <1>0, <1>5, <3>2 DEF RemoveOutput, FilesInv
    <3> QED  BY <3>1, <3>2
  <2> QED  BY <1>5, <2>1, <2>2, ContinueKeeps DEF RemoveOutput
<1>6. CASE Finalize
  <2>1. next <= Len(Inputs) /\ Output \in Paths /\ Store(Output, Incomplete)
    BY <1>6, OutputIsPath DEF Finalize, Inv, TypeOK
  <2>2. FilesInv'
    BY <2>1, StoreIsTyped DEF FilesInv
  <2>3. /\ pc = "finalize" /\ pc' = "rewrite"
        /\ UNCHANGED <<listed, next, template, result, due>>
    BY <1>6 DEF Finalize
  <2> QED  BY <2>1, <2>2, <2>3 DEF Inv, TypeOK, FilesInv, Input
<1>7. CASE Write
  <2>1. next <= Len(Inputs) /\ Output \in Paths /\ result \in Results
    BY <1>7, OutputIsPath DEF Write, Inv, TypeOK
  <2>2. FilesInv'
    BY <1>7, <2>1, StoreIsTyped DEF Write, FilesInv
  <2> QED  BY <1>7, <2>1, <2>2, ContinueKeeps DEF Write
<1>8. CASE End
  <2>1. /\ pc = "next" /\ pc' = "idle" /\ next' = 1
        /\ UNCHANGED <<disk, newer, listed, result, due>>
    BY <1>8 DEF End
  <2> QED  BY <1>0, <2>1 DEF Inv, TypeOK
<1>9. CASE Kill
  <2>1. /\ pc' = "idle" /\ next' = 1 /\ result' = NoResult
        /\ UNCHANGED <<disk, newer, listed>>
    BY <1>9 DEF Kill
  <2>2. due' \subseteq InputFiles
    BY <1>9 DEF Kill, Inv, TypeOK
  <2> QED  BY <1>0, <2>1, <2>2, NoResultIsNone DEF Inv, TypeOK
<1>10. CASE Begin
  <2>1. /\ pc = "idle" /\ pc' = "next" /\ next' = 1 /\ listed' \subseteq InputFiles
        /\ UNCHANGED <<disk, newer, template, result, due>>
    BY <1>10 DEF Begin
  <2> QED  BY <1>0, <2>1 DEF Inv, TypeOK
<1>11. CASE \E path \in Paths : \E contents \in Edits[path] : Edit(path, contents)
  <2>0. PICK path \in Paths : \E contents \in Edits[path] : Edit(path, contents)
    BY <1>11
  <2>1. PICK contents \in Edits[path] : Edit(path, contents)
    BY <2>0
  <2>2. FilesInv'
    BY <2>1, StoreIsTyped DEF Edit, FilesInv
  <2>3. UNCHANGED <<listed, next, pc, template, result>>
    BY <2>1 DEF Edit
  <2>4. due' \subseteq InputFiles
    BY <2>1 DEF Edit, Inv, TypeOK
  <2> QED  BY <2>2, <2>3, <2>4 DEF Inv, TypeOK, FilesInv, Input
<1>12. CASE UNCHANGED vars
  BY <1>12 DEF vars, Inv, TypeOK, Input
<1> QED
  BY <1>1, <1>2, <1>3, <1>4, <1>5, <1>6, <1>7, <1>8, <1>9, <1>10, <1>11, <1>12
  DEF Next, Process

(* Types: what stands at a path was put there by people, by a converter or *)
(* by a writer that has not finished; a result is at hand exactly while it *)
(* is being written (processfile).                                         *)
THEOREM TypeCorrect == Spec => []TypeOK
<1>1. Inv => TypeOK
  BY DEF Inv
<1> QED
  BY <1>1, InvInit, InvNext, PTL DEF Spec

(* Opening for writing: the output is the input or template in turn only   *)
(* in memory, and no other file's input or template.                       *)
LEMMA OpenSpares == Inv /\ Open => EmptiesOnlyToRewrite
<1> SUFFICES ASSUME Inv, Open,
                    NEW f \in InputFiles, NEW p \in {f, TemplateOf[f]} \ {NoPath},
                    disk[p] \notin {Missing, Incomplete}, disk'[p] = Incomplete, Alone(f)
             PROVE  FALSE
  BY DEF EmptiesOnlyToRewrite
<1>1. Input \in InputFiles /\ Output \in Paths /\ p \in Paths
  BY OutputIsPath, PathsOf DEF Open
<1>2. ~InPlace(template') /\ Store(Output, Incomplete)
  BY DEF Open
<1>3. p = Output
  BY <1>1, <1>2, WhatIsWritten, StoreChanges DEF Inv, TypeOK
<1>4. CASE f = Input
  <2>1. p = TemplateOf[f]
    BY <1>2, <1>3, <1>4 DEF InPlace
  <2>2. template' = p
    BY <1>4, <2>1 DEF Open, Exists
  <2> QED  BY <1>2, <1>3, <2>2 DEF InPlace
<1>5. CASE f # Input
  BY <1>1, <1>3, <1>5 DEF Alone, Output
<1> QED  BY <1>4, <1>5

(* No conversion, failure or interruption empties a file that is an input  *)
(* or a template, before what replaces it is complete (tempoutput in       *)
(* processfile, finalizetempoutputfile).                                   *)
THEOREM SourcesStayWhole == Spec => SourcesAreNotEmptied
<1>1. Inv /\ [Next]_vars => [EmptiesOnlyToRewrite]_vars
  <2> SUFFICES ASSUME Inv, Next PROVE EmptiesOnlyToRewrite
    OBVIOUS
  <2>1. CASE UNCHANGED disk
    BY <2>1 DEF EmptiesOnlyToRewrite
  <2>2. CASE Open
    BY <2>2, OpenSpares
  <2>3. CASE Finalize
    BY <2>3 DEF Finalize, EmptiesOnlyToRewrite
  <2>4. ASSUME NEW path \in Paths, NEW c \in Contents \ {Incomplete}, Store(path, c)
        PROVE  EmptiesOnlyToRewrite
    <3> SUFFICES ASSUME NEW f \in InputFiles, NEW p \in {f, TemplateOf[f]} \ {NoPath},
                        disk[p] # Incomplete
                 PROVE  disk'[p] # Incomplete
      BY DEF EmptiesOnlyToRewrite
    <3>1. p \in Paths
      BY PathsOf
    <3> QED  BY <2>4, <3>1, StoreChanges DEF Inv, TypeOK
  <2>5. CASE RemoveOutput
    <3>1. Output \in Paths
      BY <2>5, OutputIsPath DEF RemoveOutput, Inv, TypeOK
    <3>2. Missing \in Contents \ {Incomplete}
      BY WhatIsWritten, MarksAssumption
    <3> QED  BY <2>1, <2>4, <2>5, <3>1, <3>2 DEF RemoveOutput
  <2>6. CASE Write
    <3>1. Output \in Paths /\ result \in Results
      BY <2>6, OutputIsPath DEF Write, Inv, TypeOK
    <3>2. result \in Contents \ {Incomplete}
      BY <3>1, WhatIsWritten, MarksAssumption
    <3> QED  BY <2>4, <2>6, <3>1, <3>2 DEF Write
  <2>7. CASE \E path \in Paths : \E contents \in Edits[path] : Edit(path, contents)
    <3>0. PICK path \in Paths : \E contents \in Edits[path] : Edit(path, contents)
      BY <2>7
    <3>1. PICK contents \in Edits[path] : Edit(path, contents)
      BY <3>0
    <3>2. contents \in Contents \ {Incomplete}
      BY <3>1, WhatIsWritten, MarksAssumption
    <3> QED  BY <2>4, <3>1, <3>2 DEF Edit
  <2>8. Skip \/ RunProcessor \/ Fail \/ End \/ Kill \/ Begin
          => UNCHANGED disk
    BY DEF Skip, RunProcessor, Fail, End, Kill, Begin
  <2> QED
    BY <2>1, <2>2, <2>3, <2>5, <2>6, <2>7, <2>8 DEF Next, Process
<1> QED
  BY <1>1, InvInit, InvNext, PTL DEF Spec, SourcesAreNotEmptied

-----------------------------------------------------------------------------
(* Every input is dealt with.                                              *)

(* What a command owes an input that it found, and what it should make of  *)
(* it, by the files as they were when it began.                            *)
Before == begun[1]
TemplateBefore(f) == IF TemplateOf[f] = NoPath THEN Missing ELSE Before[TemplateOf[f]]
Wanted(f) == Convert[<<Before[f], TemplateBefore(f)>>]
Owed(f) ==
  /\ Before[f] # Missing
  /\ options.timestamp => f \in begun[2]
  /\ TemplateOf[f] = NoPath \/ Before[TemplateOf[f]] # Missing \/ options.allowmissing

(* An input whose turn has not come finds its files as they were; the one  *)
(* in turn reads them so; its result is the one that is wanted.            *)
Waits(f) ==
  /\ \A p \in {f, OutputOf[f], TemplateOf[f]} \ {NoPath} : disk[p] = Before[p]
  /\ f \in begun[2] => f \in due

Reads(f) ==
  /\ disk[f] = Before[f]
  /\ template = IF TemplateBefore(f) # Missing THEN TemplateOf[f] ELSE NoPath
  /\ template # NoPath => disk[template] = Before[template]
  /\ OutputOf[f] \in {f, template} => disk[OutputOf[f]] = Before[OutputOf[f]]

Entry(k) ==
  LET f == Inputs[k]
  IN Alone(f) =>
       /\ k > next \/ (k = next /\ pc = "next") => Waits(f)
       /\ k = next /\ pc = "convert" => Reads(f)
       /\ k = next /\ pc \in {"finalize", "write", "rewrite"} => result = Wanted(f)
       /\ k < next /\ Owed(f) => Delivered(f)

(* An edited input is older than its output only while it is converted.    *)
DueIsOlder ==
  \A f \in InputFiles :
    Alone(f) /\ f \in due /\ f \in newer => pc \notin {"idle", "next"} /\ f = Input

DeliveryInv ==
  /\ DueIsOlder
  /\ begun # << >> =>
       /\ Before \in [Paths -> Contents]
       /\ listed = {f \in InputFiles : Before[f] # Missing}
       /\ \A k \in 1 .. Len(Inputs) : Entry(k)

(* What a step of the conversion of one input does to the files: it writes *)
(* nothing but its output.                                                 *)
WritesOutput ==
  /\ \A p \in Paths \ {Output} : disk'[p] = disk[p]
  /\ newer' \subseteq newer \cup {f \in InputFiles : OutputOf[f] = Output}

LEMMA StoreWritesOutput ==
  ASSUME Inv, next <= Len(Inputs), NEW c, Store(Output, c)
  PROVE  /\ WritesOutput
         /\ disk'[Output] = c
BY OutputIsPath DEF Store, WritesOutput, Inv

(* The files of the other inputs stay as they are.                         *)
LEMMA OthersUntouched ==
  ASSUME Inv, next <= Len(Inputs), WritesOutput,
         NEW f \in InputFiles, f # Input, Alone(f)
  PROVE  /\ \A p \in {f, OutputOf[f], TemplateOf[f]} \ {NoPath} : disk'[p] = disk[p]
         /\ f \in newer' => f \in newer
<1>1. Input \in InputFiles
  BY OutputIsPath
<1>2. Output \notin {f, OutputOf[f], TemplateOf[f]}
  BY <1>1 DEF Alone, Output
<1>3. \A p \in {f, OutputOf[f], TemplateOf[f]} \ {NoPath} : p \in Paths
  BY PathsOf
<1> QED
  BY <1>2, <1>3 DEF WritesOutput

LEMMA OtherEntries ==
  ASSUME Inv, DeliveryInv, next <= Len(Inputs), WritesOutput, begun # << >>,
         UNCHANGED <<options, begun>>,
         due \ {Input} \subseteq due',
         \/ next' = next
         \/ next' = next + 1 /\ pc' = "next",
         NEW k \in 1 .. Len(Inputs), k # next
  PROVE  Entry(k)'
<1> DEFINE f == Inputs[k]
<1> SUFFICES ASSUME Alone(f)
             PROVE  /\ k > next' \/ (k = next' /\ pc' = "next") => Waits(f)'
                    /\ ~(k = next' /\ pc' # "next")
                    /\ k < next' /\ Owed(f)' => Delivered(f)'
  BY DEF Entry, Alone
<1>1. f \in InputFiles /\ f # Input /\ k \in Nat /\ next \in Nat
  BY InputPositions, InputsAssumption DEF InputFiles, Input, Inv, TypeOK
<1>2. /\ \A p \in {f, OutputOf[f], TemplateOf[f]} \ {NoPath} : disk'[p] = disk[p]
      /\ f \in due => f \in due'
  BY <1>1, OthersUntouched
<1>3. /\ k > next => Waits(f)
      /\ k < next /\ Owed(f) => Delivered(f)
  BY DEF DeliveryInv, Entry
<1>4. OutputOf[f] # NoPath
  BY <1>1, PathsAssumption
<1>5. Waits(f) => Waits(f)'
  BY <1>2 DEF Waits, Before
<1>6. Delivered(f) => Delivered(f)'
  BY <1>2, <1>4 DEF Delivered
<1>7. Owed(f)' => Owed(f)
  BY DEF Owed, Before
<1> QED
  BY <1>1, <1>3, <1>5, <1>6, <1>7

(* The converter reads what the command found.                             *)
LEMMA ProcessedIsWanted ==
  ASSUME Inv, DeliveryInv, begun # << >>, pc = "convert", Alone(Input)
  PROVE  Processed = Wanted(Input) /\ Reads(Input)
<1>1. next \in 1 .. Len(Inputs)
  BY InputPositions DEF Inv, TypeOK
<1>2. Reads(Input)
  BY <1>1 DEF DeliveryInv, Entry, Input
<1> QED
  BY <1>2 DEF Reads, Processed, Wanted, TemplateBefore

(* No step lets an edited input be newer than its output and due.          *)
LEMMA DueStaysOlder == Inv /\ DueIsOlder /\ [Next]_vars => DueIsOlder'
<1> SUFFICES ASSUME Inv, DueIsOlder, [Next]_vars,
                    NEW f \in InputFiles, Alone(f), f \in due', f \in newer'
             PROVE  pc' \notin {"idle", "next"} /\ f = Input'
  BY DEF DueIsOlder, Alone
<1>0. f \in due /\ f \in newer => pc \notin {"idle", "next"} /\ f = Input
  BY DEF DueIsOlder
<1>1. \A c : next <= Len(Inputs) /\ Store(Output, c) /\ f # Input => f \in newer
  <2> SUFFICES ASSUME NEW c, next <= Len(Inputs), Store(Output, c), f # Input
               PROVE  f \in newer
    OBVIOUS
  <2>1. WritesOutput
    BY StoreWritesOutput
  <2> QED  BY <2>1, OthersUntouched
<1>2. CASE Skip
  BY <1>0, <1>2 DEF Skip, Continue
<1>3. CASE Open
  <2>1. next <= Len(Inputs) /\ pc = "next" /\ pc' = "convert" /\ Input' = Input /\ f \in due
    BY <1>3 DEF Open, Input
  <2>2. f # Input => f \in newer
    BY <1>1, <1>3, <2>1 DEF Open
  <2> QED  BY <1>0, <2>1, <2>2
<1>4. CASE RunProcessor
  BY <1>0, <1>4 DEF RunProcessor, Input
<1>5. CASE Fail
  BY <1>0, <1>5 DEF Fail, Continue
<1>6. CASE RemoveOutput
  <2>1. next <= Len(Inputs) /\ f \in due /\ f # Input
    BY <1>6 DEF RemoveOutput, Continue, Inv, TypeOK
  <2>2. f \in newer
    BY <1>1, <1>6, <2>1 DEF RemoveOutput
  <2> QED  BY <1>0, <2>1, <2>2
<1>7. CASE Finalize
  <2>1. next <= Len(Inputs) /\ pc = "finalize" /\ pc' = "rewrite" /\ Input' = Input /\ f \in due
    BY <1>7 DEF Finalize, Inv, TypeOK, Input
  <2>2. f # Input => f \in newer
    BY <1>1, <1>7, <2>1 DEF Finalize
  <2> QED  BY <1>0, <2>1, <2>2
<1>8. CASE Write
  <2>1. next <= Len(Inputs) /\ f \in due /\ f # Input
    BY <1>8 DEF Write, Continue, Inv, TypeOK
  <2>2. f \in newer
    BY <1>1, <1>8, <2>1 DEF Write
  <2> QED  BY <1>0, <2>1, <2>2
<1>9. CASE End
  BY <1>0, <1>9 DEF End
<1>10. CASE Kill
  BY <1>0, <1>10 DEF Kill
<1>11. CASE Begin
  BY <1>0, <1>11 DEF Begin
<1>12. CASE \E path \in Paths : \E contents \in Edits[path] : Edit(path, contents)
  <2>0. PICK path \in Paths : \E contents \in Edits[path] : Edit(path, contents)
    BY <1>12
  <2>1. PICK contents \in Edits[path] : Edit(path, contents)
    BY <2>0
  <2>2. f # path
    BY <2>1 DEF Edit, Store
  <2>3. f \in due /\ OutputOf[f] # path
    BY <2>1, <2>2 DEF Edit
  <2>4. f \in newer
    BY <2>1, <2>3 DEF Edit, Store
  <2>5. pc' = pc /\ Input' = Input
    BY <2>1 DEF Edit, Input
  <2> QED  BY <1>0, <2>3, <2>4, <2>5
<1>13. CASE UNCHANGED vars
  BY <1>0, <1>13 DEF vars, Input
<1> QED
  BY <1>2, <1>3, <1>4, <1>5, <1>6, <1>7, <1>8, <1>9, <1>10, <1>11, <1>12, <1>13
  DEF Next, Process

(* The file in turn, where a step has not finished with it: it is opened,  *)
(* or its result is at hand.                                               *)
LEMMA InTurnGoesOn ==
  ASSUME Inv, DeliveryInv, begun # << >>, next <= Len(Inputs),
         Open \/ RunProcessor \/ Finalize,
         NEW k \in 1 .. Len(Inputs), k = next
  PROVE  Entry(k)'
<1> SUFFICES ASSUME Alone(Input)
             PROVE  /\ pc' # "next"
                    /\ pc' = "convert" => Reads(Input)'
                    /\ pc' \in {"finalize", "write", "rewrite"} => result' = Wanted(Input)'
                    /\ next' = next
  BY DEF Entry, Alone, Input, Open, RunProcessor, Finalize, Inv, TypeOK
<1>1. next \in 1 .. Len(Inputs) /\ Input \in InputFiles /\ Output \in Paths
  BY InputPositions, OutputIsPath DEF Inv, TypeOK
<1>2. Entry(next)
  BY <1>1 DEF DeliveryInv
<1>3. UNCHANGED <<next, begun>> /\ Wanted(Input)' = Wanted(Input)
  BY DEF Open, RunProcessor, Finalize, Wanted, TemplateBefore, Before, Input
<1>4. CASE Open
  <2>1. Waits(Input) /\ pc' = "convert"
    BY <1>1, <1>2, <1>4 DEF Entry, Open, Input
  <2>2. /\ disk[Input] = Before[Input]
        /\ disk[Output] = Before[Output]
        /\ TemplateOf[Input] # NoPath => disk[TemplateOf[Input]] = Before[TemplateOf[Input]]
    BY <1>1, <2>1, PathsAssumption DEF Waits, Output
  <2>3. template' = IF TemplateBefore(Input) # Missing THEN TemplateOf[Input] ELSE NoPath
    BY <1>4, <2>2 DEF Open, TemplateBefore, Exists
  <2>4. Output \in {Input, template'} => disk'[Output] = disk[Output]
    BY <1>4 DEF Open, InPlace
  <2>5. disk'[Input] = disk[Input] /\ (template' # NoPath => disk'[template'] = disk[template'])
    <3>1. CASE InPlace(template')
      BY <1>4, <3>1 DEF Open
    <3>2. CASE ~InPlace(template')
      <4>1. Store(Output, Incomplete) /\ Output \notin {Input, template'}
        BY <1>4, <3>2 DEF Open, InPlace
      <4>2. WritesOutput
        BY <4>1, StoreWritesOutput
      <4>3. Input \in Paths /\ (template' # NoPath => template' \in Paths)
        BY <1>1, <2>3, PathsOf
      <4> QED  BY <4>1, <4>2, <4>3 DEF WritesOutput
    <3> QED  BY <3>1, <3>2
  <2>6. disk'[Input] = Before[Input]
    BY <2>2, <2>5
  <2>7. template' # NoPath => disk'[template'] = Before[template']
    BY <2>2, <2>3, <2>5
  <2>8. Output \in {Input, template'} => disk'[Output] = Before[Output]
    BY <2>2, <2>4
  <2>9. Reads(Input)'
    BY <1>3, <2>3, <2>6, <2>7, <2>8 DEF Reads, Output, Input, Before, TemplateBefore
  <2> QED  BY <1>3, <2>1, <2>9
<1>5. CASE RunProcessor
  <2>1. Processed = Wanted(Input)
    BY <1>5, ProcessedIsWanted DEF RunProcessor
  <2> QED  BY <1>3, <1>5, <2>1 DEF RunProcessor
<1>6. CASE Finalize
  <2>1. result = Wanted(Input)
    BY <1>2, <1>6 DEF Entry, Finalize, Input
  <2> QED  BY <1>3, <1>6, <2>1 DEF Finalize
<1> QED
  BY <1>4, <1>5, <1>6

(* A step that finishes with the file in turn has dealt with it.           *)
LEMMA InTurnIsDone ==
  ASSUME Inv, DeliveryInv, begun # << >>, next <= Len(Inputs),
         Skip \/ Fail \/ RemoveOutput \/ Write,
         NEW k \in 1 .. Len(Inputs), k = next
  PROVE  Entry(k)'
<1> DEFINE f == Inputs[k]
<1>0. next' = next + 1 /\ UNCHANGED <<begun, options>> /\ next \in Nat /\ f = Input
  BY DEF Skip, Fail, RemoveOutput, Write, Continue, Inv, TypeOK, Input
<1> SUFFICES ASSUME Alone(f), Owed(f)
             PROVE  Delivered(f)'
  BY <1>0 DEF Entry, Alone, Owed, Before
<1>1. f \in InputFiles /\ f # NoPath /\ OutputOf[f] = Output /\ Output # NoPath
      /\ Output \in Paths
  BY <1>0, OutputIsPath, PathsAssumption DEF Output
<1>2. Entry(k)
  BY DEF DeliveryInv
<1>3. Wanted(f)' = Wanted(f) /\ TemplateBefore(f)' = TemplateBefore(f)
  BY <1>0 DEF Wanted, TemplateBefore, Before
<1>4. ASSUME \/ Wanted(f) = NoResult /\ disk'[Output] = Missing
             \/ /\ Wanted(f) = Raises
                /\ TemplateBefore(f) # Missing /\ Output = TemplateOf[f]
                     => disk'[Output] = TemplateBefore(f)
             \/ Wanted(f) \notin {NoResult, Raises} /\ disk'[Output] = Wanted(f)
      PROVE  Delivered(f)'
  <2> DEFINE w == Convert[<<begun[1][f], TemplateBefore(f)>>]
             now == disk'[Output]
  <2>1. w = Wanted(f)
    BY DEF Wanted, Before
  <2>2. /\ w = NoResult => now = Missing
        /\ w = Raises /\ TemplateBefore(f) # Missing /\ Output = TemplateOf[f]
             => now = TemplateBefore(f)
        /\ w \notin {NoResult, Raises} => now = w
    BY <1>4, <2>1, MarksAssumption
  <2> QED
    BY <1>0, <1>1, <2>2 DEF Delivered, TemplateBefore, Before
<1>5. CASE Skip
  <2>1. Waits(f)
    BY <1>0, <1>2, <1>5 DEF Entry, Skip, Input
  <2>2. Before[f] = disk[Input] /\ Before[f] # Missing
    BY <1>0, <1>1, <2>1 DEF Waits, Owed
  <2>3. Input \in listed /\ Exists(Input)
    BY <1>0, <1>1, <2>2 DEF DeliveryInv, Exists
  <2>4. ~LacksTemplate
    BY <1>0, <2>1 DEF Waits, Owed, LacksTemplate, Exists
  <2>5. options.timestamp => Input \in due
    BY <1>0, <2>1 DEF Waits, Owed
  <2>6. options.timestamp => ~OutputIsNewer
    BY <1>0, <1>1, <1>5, <2>5 DEF DeliveryInv, DueIsOlder, OutputIsNewer, Skip
  <2> QED  BY <1>5, <2>3, <2>4, <2>6 DEF Skip
<1>6. CASE Fail
  <2>1. Processed = Wanted(f) /\ Reads(Input) /\ Processed = Raises /\ disk' = disk
    BY <1>0, <1>6, ProcessedIsWanted DEF Fail
  <2>2. TemplateBefore(f) # Missing /\ Output = TemplateOf[Input]
          => disk[Output] = TemplateBefore(f)
    BY <1>0, <1>1, <2>1 DEF Reads, TemplateBefore, Before
  <2> QED  BY <1>0, <1>4, <2>1, <2>2
<1>7. CASE RemoveOutput
  <2>1. Wanted(f) = NoResult
    BY <1>0, <1>7, ProcessedIsWanted DEF RemoveOutput
  <2>2. disk'[Output] = Missing
    <3>1. CASE Exists(Output)
      BY <1>7, <3>1, StoreWritesOutput DEF RemoveOutput
    <3>2. CASE ~Exists(Output)
      BY <1>1, <1>7, <3>2 DEF RemoveOutput, Exists
    <3> QED  BY <3>1, <3>2
  <2> QED  BY <1>4, <2>1, <2>2
<1>8. CASE Write
  <2>1. result = Wanted(f) /\ result \in Results
    BY <1>0, <1>2, <1>8 DEF Entry, Write, Input, Inv, TypeOK
  <2>2. disk'[Output] = result
    BY <1>8, StoreWritesOutput DEF Write
  <2> QED  BY <1>4, <2>1, <2>2 DEF Results
<1> QED
  BY <1>5, <1>6, <1>7, <1>8

LEMMA DeliveryInvInit == Init => DeliveryInv
BY DEF Init, DeliveryInv, DueIsOlder

LEMMA DeliveryInvNext == Inv /\ DeliveryInv /\ [Next]_vars => DeliveryInv'
<1> SUFFICES ASSUME Inv, DeliveryInv, [Next]_vars, begun' # << >>
             PROVE  /\ Before' \in [Paths -> Contents]
                    /\ listed' = {f \in InputFiles : Before'[f] # Missing}
                    /\ \A k \in 1 .. Len(Inputs) : Entry(k)'
  BY DueStaysOlder DEF DeliveryInv
<1>1. CASE Begin
  <2>1. Before' = disk /\ begun'[2] = due /\ pc' = "next" /\ next' = 1
        /\ UNCHANGED <<disk, due>>
    BY <1>1 DEF Begin, Before
  <2>2. listed' = {f \in InputFiles : disk[f] # Missing}
    BY <1>1, PathsAssumption DEF Begin, Exists
  <2>3. \A f \in InputFiles : Waits(f)'
    BY <2>1 DEF Waits, Before
  <2>4. \A k \in 1 .. Len(Inputs) : Entry(k)'
    BY <2>1, <2>3, InputPositions DEF Entry
  <2> QED  BY <2>1, <2>2, <2>4 DEF Inv
<1>2. CASE Skip \/ Open \/ RunProcessor \/ Fail \/ RemoveOutput \/ Finalize \/ Write
  <2>1. next <= Len(Inputs)
    BY <1>2 DEF Skip, Open, RunProcessor, Fail, RemoveOutput, Finalize, Write, Inv, TypeOK
  <2>2. /\ UNCHANGED <<options, listed, begun>> /\ due \ {Input} \subseteq due'
        /\ next' = next \/ (next' = next + 1 /\ pc' = "next")
    BY <1>2 DEF Skip, Open, RunProcessor, Fail, RemoveOutput, Finalize, Write, Continue
  <2>3. disk' = disk /\ newer' = newer => WritesOutput
    BY DEF WritesOutput
  <2>4. WritesOutput
    BY <1>2, <2>1, <2>3, StoreWritesOutput
    DEF Skip, Open, RunProcessor, Fail, RemoveOutput, Finalize, Write
  <2>5. ASSUME NEW k \in 1 .. Len(Inputs) PROVE Entry(k)'
    <3>1. CASE k = next
      BY <1>2, <2>1, <2>2, <3>1, InTurnGoesOn, InTurnIsDone
    <3>2. CASE k # next
      BY <2>1, <2>2, <2>4, <3>2, OtherEntries
    <3> QED  BY <3>1, <3>2
  <2>6. Before' = Before /\ listed' = listed
    BY <2>2 DEF Before
  <2> QED  BY <2>2, <2>5, <2>6 DEF DeliveryInv
<1>3. CASE UNCHANGED vars
  BY <1>3 DEF vars, DeliveryInv, Before, Entry, Waits, Reads, Wanted, TemplateBefore,
              Owed, Delivered
<1>4. End \/ Kill \/ (\E path \in Paths : \E contents \in Edits[path] : Edit(path, contents))
        => begun' = << >>
  BY DEF End, Kill, Edit
<1> QED
  BY <1>1, <1>2, <1>3, <1>4 DEF Next, Process

(* When a command ends that nobody has interfered with, every input has    *)
(* been dealt with, whichever others have failed or were skipped           *)
(* (recursiveprocess, processfile, _output_is_newer).                      *)
THEOREM InputsDelivered == Spec => []InputsAreDelivered
<1>1. Inv /\ DeliveryInv => InputsAreDelivered
  <2> SUFFICES ASSUME Inv, DeliveryInv, next > Len(Inputs), begun # << >>,
                      NEW f \in InputFiles, Alone(f), Owed(f)
               PROVE  Delivered(f)
    BY DEF InputsAreDelivered, Owed, Before
  <2>1. PICK k \in 1 .. Len(Inputs) : f = Inputs[k]
    BY InputsAssumption DEF InputFiles
  <2>2. Entry(k) /\ k < next
    BY <2>1, InputPositions DEF DeliveryInv, Inv
  <2> QED  BY <2>1, <2>2 DEF Entry
<1> QED
  BY <1>1, InvInit, InvNext, DeliveryInvInit, DeliveryInvNext, PTL DEF Spec
=============================================================================
