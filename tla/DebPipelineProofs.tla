------------------------- MODULE DebPipelineProofs -------------------------
(***************************************************************************)
(* Theorems about the package pipeline, for any packages and bounds.       *)
(***************************************************************************)
EXTENDS DebPipeline, TLAPS

----------------------------------------------------------------------------
(***************************************************************************)
(* Names and files.                                                        *)
(***************************************************************************)
\* The two variants of a package are packages of the same stem.
LEMMA NamesTyped ==
    ASSUME NEW p \in Pkgs
    PROVE  /\ p[1] \in Stems
           /\ Base(p) \in Pkgs /\ Base(p)[1] = p[1]
           /\ Hwe(p) \in Pkgs /\ Hwe(p)[1] = p[1]
  BY DEF Pkgs, Base, Hwe

\* The trees and files that the actions write have their types.
LEMMA FilesTyped ==
    ASSUME NEW p \in Pkgs
    PROVE  /\ NoTree(p) \in Trees /\ TornTree(p) \in Trees
           /\ NoDeb(p) \in Debs /\ TornDeb(p) \in Debs /\ Upstream(p) \in Debs
           /\ NoDeb(p).st = "absent" /\ TornDeb(p).st = "torn"
           /\ Upstream(p).st = "whole" /\ Upstream(p).data = p[1]
           /\ Upstream(p).ctl \in Trees
  <1>0. 0 \in 0..MaxEdits
    BY LimitsAssumption
  <1>1. NoTree(p) \in Trees /\ TornTree(p) \in Trees
    BY <1>0 DEF NoTree, TornTree, Trees, Presence, Versions
  <1>2. [NoTree(p) EXCEPT !.st = "whole"] \in Trees
    BY <1>0 DEF NoTree, Trees, Presence, Versions
  <1>3. QED
    BY <1>1, <1>2, NamesTyped DEF NoDeb, TornDeb, Upstream, Debs, Presence

\* Changing fields of a tree in a directory keeps the directory's type.
LEMMA TreesChanged ==
    ASSUME NEW S, NEW f \in [S -> Trees], NEW p
    PROVE  /\ \A g \in 0..MaxEdits, n \in Pkgs :
                 [f EXCEPT ![p].gen = g, ![p].name = n] \in [S -> Trees]
           /\ \A n \in Pkgs : [f EXCEPT ![p].name = n] \in [S -> Trees]
           /\ [f EXCEPT ![p].ver = "new"] \in [S -> Trees]
  <1> DEFINE G == 0..MaxEdits
  <1>1. Trees = [st : Presence, gen : G, name : Pkgs, ver : Versions]
    BY DEF Trees
  <1>2. "new" \in Versions
    BY DEF Versions
  <1>3. SUFFICES /\ \A g \in G, n \in Pkgs :
                       [f EXCEPT ![p].gen = g, ![p].name = n] \in [S -> Trees]
                 /\ \A n \in Pkgs : [f EXCEPT ![p].name = n] \in [S -> Trees]
                 /\ [f EXCEPT ![p].ver = "new"] \in [S -> Trees]
    OBVIOUS
  <1> HIDE DEF G
  <1>4. QED
    BY <1>1, <1>2

\* A file in a directory of .deb files is a .deb file.
LEMMA SourceTyped ==
    ASSUME TypeOK, NEW p \in Pkgs
    PROVE  resolve_source_deb(p) \in Debs
  BY NamesTyped DEF TypeOK, resolve_source_deb

\* A loop visits packages.
LEMMA WorkTyped ==
    ASSUME NEW k \in 1..Len(Order)
    PROVE  /\ Work(k) \in SUBSET Pkgs
           /\ Order[k] = "pack_112" => Work(k) \subseteq Qemu \X {"hwe"}
  BY DEF Work, Pkgs, Stems, Order

----------------------------------------------------------------------------
(***************************************************************************)
(* Type correctness.                                                       *)
(***************************************************************************)
\* The parts of TypeOK: the directories, the running script, the counters.
DirsOK == /\ deb \in [Pkgs -> Debs] /\ deb112 \in [Files112 -> Debs]
          /\ tree \in [Pkgs -> Trees] /\ tree112 \in [Stems \X {"hwe"} -> Trees]

LoopOK == /\ at \in 0..Len(Order) /\ until \in 0..Len(Order)
          /\ todo \in SUBSET Pkgs /\ step \in Steps
          /\ result \in {"none", "finished", "failed", "aborted", "killed"}

BodyOK == cur \in Pkgs /\ hold \in Debs /\ unpack \in BOOLEAN

NotesOK == /\ edits \in 0..MaxEdits /\ commands \in 0..MaxCommands
           /\ kills \in 0..MaxKills
           /\ ready \in SUBSET Pkgs /\ prepare \in BOOLEAN

\* The type invariant is not inductive by itself: a command stays within the
\* stages it was started for, and the last stage visits -hwe trees only.
Ordered == /\ at # Idle => until >= 1 /\ at <= until
           /\ Running("pack_112") => todo \subseteq Qemu \X {"hwe"}

\* TypeOK is the conjunction of its parts, now and after a step.
LEMMA TypeParts == /\ TypeOK <=> DirsOK /\ LoopOK /\ BodyOK /\ NotesOK
                   /\ TypeOK' <=> DirsOK' /\ LoopOK' /\ BodyOK' /\ NotesOK'
  BY DEF TypeOK, DirsOK, LoopOK, BodyOK, NotesOK

\* Steps that leave parts of the state alone keep their types.
LEMMA RestTyped ==
    ASSUME TypeOK
    PROVE  /\ UNCHANGED dirVars => DirsOK'
           /\ UNCHANGED <<cur, hold, unpack>> => BodyOK'
           /\ UNCHANGED <<limitVars, noteVars>> => NotesOK'
           /\ UNCHANGED runVars => LoopOK' /\ BodyOK'
  BY TypeParts
  DEF DirsOK, BodyOK, NotesOK, LoopOK, dirVars, limitVars, noteVars, runVars

\* The end of a loop's body, and of a command.
LEMMA LoopSteps ==
    ASSUME TypeOK, Ordered
    PROVE  /\ \A p : Visited(p) /\ UNCHANGED <<at, until, result>> => LoopOK' /\ Ordered'
           /\ Ends("failed") => LoopOK' /\ Ordered'
           /\ Ends("finished") => LoopOK' /\ Ordered'
           /\ Ends("killed") => LoopOK' /\ Ordered'
           /\ Ends("aborted") => LoopOK' /\ Ordered'
           /\ \A p : AfterFetch(p) /\ UNCHANGED <<at, until, result>>
                       => LoopOK' /\ Ordered'
           /\ \A s \in Steps : step' = s /\ UNCHANGED <<at, until, todo, result>>
                       => LoopOK' /\ Ordered'
  BY TypeParts DEF LoopOK, Visited, Ends, AfterFetch, Steps, Idle, Ordered, Running

\* A command starts well typed.
LEMMA CommandTyped ==
    ASSUME TypeOK, NEW first \in 1..Len(Order), NEW last \in 1..Len(Order),
           first <= last,
           NEW work \in SUBSET Pkgs, unpack' \in BOOLEAN,
           Order[first] = "pack_112" => work \subseteq Qemu \X {"hwe"},
           Command(first, last, work)
    PROVE  TypeOK' /\ Ordered'
  <1>1. DirsOK'
    BY TypeParts DEF Command, DirsOK, dirVars
  <1>2. LoopOK' /\ Ordered'
    BY TypeParts DEF Command, LoopOK, Steps, Ordered, Running
  <1>3. BodyOK'
    BY TypeParts DEF Command, BodyOK
  <1>4. commands' \in 0..MaxCommands
    BY TypeParts, LimitsAssumption DEF Command, NotesOK
  <1>5. NotesOK'
    BY <1>4, TypeParts DEF Command, NotesOK
  <1>6. QED
    BY <1>1, <1>2, <1>3, <1>5, TypeParts

\* The commands and the developer's edits keep the types.
LEMMA StartTyped ==
    ASSUME TypeOK, Ordered, Pull \/ Pack \/ Generate \/ PackHwe \/ Prepare \/ Edit
    PROVE  TypeOK' /\ Ordered'
  <1>1. CASE Pull
    <2>1. PICK names \in {Qemu, Libvirt}, pack \in BOOLEAN :
              /\ unpack' \in BOOLEAN
              /\ Command(1, IF ~ pack THEN 1 ELSE IF names = Qemu THEN 2 ELSE 3,
                         names \X {"base"})
      BY <1>1 DEF Pull
    <2>2. names \X {"base"} \in SUBSET Pkgs
      BY DEF Pkgs, Stems
    <2>3. (IF ~ pack THEN 1 ELSE IF names = Qemu THEN 2 ELSE 3) \in 1..Len(Order)
      BY DEF Order
    <2>4. /\ 1 \in 1..Len(Order) /\ Order[1] # "pack_112"
          /\ 1 <= IF ~ pack THEN 1 ELSE IF names = Qemu THEN 2 ELSE 3
      BY DEF Order
    <2>5. QED
      BY <2>1, <2>2, <2>3, <2>4, CommandTyped
  <1>2. CASE Pack \/ Generate \/ PackHwe \/ Prepare
    <2>1. PICK first \in 1..Len(Order), last \in 1..Len(Order) :
              /\ first <= last
              /\ Command(first, last, Work(first)) /\ unpack' = FALSE
      BY <1>2 DEF Pack, Generate, PackHwe, Prepare, Order
    <2>2. QED
      BY <2>1, WorkTyped, CommandTyped
  <1>3. CASE Edit
    <2>1. edits' \in 0..MaxEdits
      BY <1>3, TypeParts, LimitsAssumption DEF Edit, NotesOK
    <2>2. PICK p \in Pkgs : tree' = [tree EXCEPT ![p].gen = edits', ![p].name = p]
      BY <1>3 DEF Edit
    <2>3. tree' \in [Pkgs -> Trees]
      BY <2>1, <2>2, TypeParts, TreesChanged DEF DirsOK
    <2>4. DirsOK'
      BY <1>3, <2>3, TypeParts DEF Edit, DirsOK
    <2>5. NotesOK'
      BY <1>3, <2>1, TypeParts DEF Edit, NotesOK
    <2>6. QED
      BY <1>3, <2>4, <2>5, TypeParts, RestTyped DEF Edit, Ordered, Running, runVars
  <1>4. QED
    BY <1>1, <1>2, <1>3

\* So do the steps of the download loop and of extract_deb.
LEMMA FetchTyped ==
    ASSUME TypeOK, Ordered,
           \/ FetchSkip \/ FetchStart \/ FetchDone \/ FetchFail
           \/ UnpackClear \/ UnpackControl \/ UnpackDup \/ UnpackRename
    PROVE  TypeOK' /\ Ordered'
  <1>0. DirsOK /\ LoopOK /\ BodyOK /\ NotesOK
    BY TypeParts
  <1>1. cur \in Pkgs /\ Hwe(cur) \in Pkgs
    BY <1>0, NamesTyped DEF BodyOK
  <1>2. CASE FetchSkip
    <2>1. PICK p \in todo : \/ cur' = p /\ AfterFetch(p)
                            \/ Visited(p) /\ UNCHANGED cur
      BY <1>2 DEF FetchSkip
    <2>2. LoopOK' /\ Ordered'
      BY <1>2, <2>1, LoopSteps DEF FetchSkip
    <2>3. BodyOK'
      BY <1>0, <1>2, <2>1 DEF FetchSkip, BodyOK, LoopOK
    <2>4. QED
      BY <1>2, <2>2, <2>3, RestTyped, TypeParts DEF FetchSkip
  <1>3. CASE FetchStart
    <2>1. LoopOK' /\ Ordered'
      BY <1>3, LoopSteps DEF FetchStart, Steps
    <2>2. BodyOK'
      BY <1>0, <1>3 DEF FetchStart, BodyOK, LoopOK
    <2>3. QED
      BY <1>3, <2>1, <2>2, RestTyped, TypeParts DEF FetchStart
  <1>4. CASE FetchDone
    <2>1. LoopOK' /\ Ordered'
      BY <1>4, LoopSteps DEF FetchDone
    <2>2. DirsOK'
      BY <1>0, <1>1, <1>4, FilesTyped DEF FetchDone, DirsOK
    <2>3. QED
      BY <1>4, <2>1, <2>2, RestTyped, TypeParts DEF FetchDone
  <1>5. CASE FetchFail
    <2>1. LoopOK' /\ Ordered'
      BY <1>5, LoopSteps DEF FetchFail
    <2>2. DirsOK'
      BY <1>0, <1>1, <1>5, FilesTyped DEF FetchFail, DirsOK
    <2>3. QED
      BY <1>5, <2>1, <2>2, RestTyped, TypeParts DEF FetchFail
  <1>6. CASE UnpackClear
    <2>1. LoopOK' /\ Ordered'
      BY <1>6, LoopSteps DEF UnpackClear, Steps
    <2>2. DirsOK'
      BY <1>0, <1>1, <1>6, FilesTyped DEF UnpackClear, DirsOK
    <2>3. QED
      BY <1>6, <2>1, <2>2, RestTyped, TypeParts DEF UnpackClear
  <1>7. CASE UnpackControl
    <2>1. LoopOK' /\ Ordered'
      BY <1>7, LoopSteps DEF UnpackControl, Steps
    <2>2. deb[cur].ctl \in Trees
      BY <1>0, <1>1 DEF DirsOK, Debs
    <2>3. DirsOK'
      BY <1>0, <1>1, <1>7, <2>2, FilesTyped DEF UnpackControl, DirsOK
    <2>4. QED
      BY <1>7, <2>1, <2>3, RestTyped, TypeParts DEF UnpackControl
  <1>8. CASE UnpackDup
    <2>1. LoopOK' /\ Ordered'
      BY <1>8, LoopSteps DEF UnpackDup, Steps
    <2>2. DirsOK'
      BY <1>0, <1>1, <1>8 DEF UnpackDup, DirsOK
    <2>3. QED
      BY <1>8, <2>1, <2>2, RestTyped, TypeParts DEF UnpackDup
  <1>9. CASE UnpackRename
    <2>1. LoopOK' /\ Ordered'
      BY <1>9, LoopSteps DEF UnpackRename
    <2>2. DirsOK'
      BY <1>0, <1>1, <1>9, TreesChanged DEF UnpackRename, DirsOK
    <2>3. QED
      BY <1>9, <2>1, <2>2, RestTyped, TypeParts DEF UnpackRename
  <1>10. QED
    BY <1>2, <1>3, <1>4, <1>5, <1>6, <1>7, <1>8, <1>9

\* What pack_deb writes is a .deb file.
LEMMA OutTyped ==
    ASSUME TypeOK, NEW x \in Debs, OutDeb(x), UNCHANGED <<tree, tree112>>
    PROVE  DirsOK'
  BY TypeParts DEF OutDeb, DirsOK

\* So do the steps of the pack loops.
LEMMA PackTyped ==
    ASSUME TypeOK, Ordered,
           \/ PackSkip \/ PackFail \/ PackBegin \/ PackRemove
           \/ PackWrite \/ PackWriteFail
    PROVE  TypeOK' /\ Ordered'
  <1>0. DirsOK /\ LoopOK /\ BodyOK /\ NotesOK
    BY TypeParts
  <1>1. CASE PackSkip
    BY <1>1, RestTyped, LoopSteps, TypeParts DEF PackSkip
  <1>2. CASE PackFail
    BY <1>2, RestTyped, LoopSteps, TypeParts DEF PackFail
  <1>3. CASE PackBegin
    <2>1. PICK p \in todo :
              /\ hold' = [st |-> "whole", data |-> resolve_source_deb(p).data,
                          ctl |-> ControlDir(p)]
              /\ Turn(p) /\ cur' = p
      BY <1>3 DEF PackBegin
    <2>2. p \in Pkgs
      BY <1>0 DEF LoopOK
    <2>3. ControlDir(p) \in Trees
      <3>1. CASE Running("pack_112")
        <4>1. p \in Stems \X {"hwe"}
          BY <3>1 DEF Ordered, Stems
        <4>2. QED
          BY <1>0, <3>1, <4>1 DEF ControlDir, DirsOK
      <3>2. CASE ~ Running("pack_112")
        BY <1>0, <2>2, <3>2 DEF ControlDir, DirsOK
      <3>3. QED
        BY <3>1, <3>2
    <2>4. hold' \in Debs
      BY <2>1, <2>2, <2>3, SourceTyped DEF Debs, Presence
    <2>5. BodyOK'
      BY <1>0, <1>3, <2>1, <2>2, <2>4 DEF PackBegin, BodyOK
    <2>6. LoopOK' /\ Ordered'
      BY <1>3, LoopSteps DEF PackBegin, Steps
    <2>7. QED
      BY <1>3, <2>5, <2>6, RestTyped, TypeParts DEF PackBegin
  <1>4. CASE PackRemove
    <2>1. DirsOK'
      BY <1>0, <1>4, FilesTyped, OutTyped DEF PackRemove, BodyOK
    <2>2. LoopOK' /\ Ordered'
      BY <1>4, LoopSteps DEF PackRemove, Steps
    <2>3. QED
      BY <1>4, <2>1, <2>2, RestTyped, TypeParts DEF PackRemove
  <1>5. CASE PackWrite
    <2>1. DirsOK'
      BY <1>0, <1>5, OutTyped DEF PackWrite, BodyOK
    <2>2. LoopOK' /\ Ordered'
      BY <1>5, LoopSteps DEF PackWrite
    <2>3. QED
      BY <1>5, <2>1, <2>2, RestTyped, TypeParts DEF PackWrite
  <1>6. CASE PackWriteFail
    <2>1. DirsOK'
      BY <1>0, <1>6, FilesTyped, OutTyped DEF PackWriteFail, BodyOK
    <2>2. LoopOK' /\ Ordered'
      BY <1>6, LoopSteps DEF PackWriteFail
    <2>3. QED
      BY <1>6, <2>1, <2>2, RestTyped, TypeParts DEF PackWriteFail
  <1>7. QED
    BY <1>1, <1>2, <1>3, <1>4, <1>5, <1>6

\* So do the steps of generate_hwe_11_2_controls.sh.
LEMMA GenerateTyped ==
    ASSUME TypeOK, Ordered, Clean \/ Copy \/ Rewrite
    PROVE  TypeOK' /\ Ordered'
  <1>0. DirsOK /\ LoopOK /\ BodyOK /\ NotesOK
    BY TypeParts
  <1>1. LoopOK' /\ Ordered'
    BY LoopSteps DEF Clean, Copy, Rewrite
  <1>2. ASSUME NEW p \in todo
        PROVE  NoTree(p) \in Trees /\ NoDeb(p) \in Debs /\ tree[p] \in Trees
    BY <1>0, FilesTyped DEF LoopOK, DirsOK
  <1>3. CASE Clean
    <2>1. DirsOK'
      BY <1>0, <1>2, <1>3 DEF Clean, DirsOK
    <2>2. QED
      BY <1>1, <1>3, <2>1, RestTyped, TypeParts DEF Clean
  <1>4. CASE Copy
    <2>1. DirsOK'
      BY <1>0, <1>2, <1>4 DEF Copy, DirsOK
    <2>2. QED
      BY <1>1, <1>4, <2>1, RestTyped, TypeParts DEF Copy
  <1>5. CASE Rewrite
    <2>1. DirsOK'
      <3>1. PICK p \in todo : \/ tree112' = tree112
                              \/ tree112' = [tree112 EXCEPT ![p].ver = "new"]
        BY <1>5 DEF Rewrite
      <3>2. tree112' \in [Stems \X {"hwe"} -> Trees]
        BY <1>0, <3>1, TreesChanged DEF DirsOK
      <3>3. QED
        BY <1>0, <1>5, <3>2 DEF Rewrite, DirsOK
    <2>2. QED
      BY <1>1, <1>5, <2>1, RestTyped, TypeParts DEF Rewrite
  <1>6. QED
    BY <1>3, <1>4, <1>5

\* So does the passage from one stage to the next.
LEMMA StageTyped ==
    ASSUME TypeOK, Ordered, NextStage
    PROVE  TypeOK' /\ Ordered'
  <1>0. LoopOK
    BY TypeParts
  <1>1. CASE Ends("failed") \/ Ends("finished")
    BY <1>1, LoopSteps, RestTyped, TypeParts DEF NextStage
  <1>2. CASE /\ at # until
             /\ at' = IF Order[at] = "fetch" THEN until ELSE at + 1
             /\ todo' = Work(at')
             /\ UNCHANGED <<until, step, result>>
    <2>1. at' \in 1..Len(Order) /\ at' <= until /\ until >= 1
      BY <1>0, <1>2 DEF NextStage, Ordered, LoopOK, Order, Idle
    <2>2. /\ todo' \in SUBSET Pkgs
          /\ Order[at'] = "pack_112" => todo' \subseteq Qemu \X {"hwe"}
      BY <1>2, <2>1, WorkTyped
    <2>3. LoopOK' /\ Ordered'
      BY <1>0, <1>2, <2>1, <2>2 DEF LoopOK, Ordered, Running
    <2>4. QED
      BY <2>3, RestTyped, TypeParts DEF NextStage
  <1>3. QED
    BY <1>1, <1>2 DEF NextStage

\* So does a kill.
LEMMA KillTyped ==
    ASSUME TypeOK, Ordered, Kill
    PROVE  TypeOK' /\ Ordered'
  <1>0. DirsOK /\ LoopOK /\ BodyOK /\ NotesOK
    BY TypeParts
  <1>1. cur \in Pkgs /\ todo \subseteq Pkgs
    BY <1>0 DEF BodyOK, LoopOK
  <1>2. kills' \in 0..MaxKills
    BY <1>0, LimitsAssumption DEF Kill, NotesOK
  <1>3. NotesOK'
    BY <1>0, <1>2 DEF Kill, NotesOK, noteVars
  <1>4. DirsOK'
    BY <1>0, <1>1, FilesTyped, RestTyped DEF Kill, Tear, DirsOK
  <1>5. QED
    BY <1>3, <1>4, LoopSteps, RestTyped, TypeParts DEF Kill

----------------------------------------------------------------------------
(***************************************************************************)
(* The payload.                                                            *)
(***************************************************************************)
\* PayloadKept is not inductive by itself: between gathering the members and
\* writing the file, the tmpdir must hold the payload of the package.
Gathered == step \in {"rm", "ar"} => hold.data = cur[1]

PipelineInv == TypeOK /\ Ordered /\ PayloadKept /\ Gathered

\* The files an action writes carry the right payload if they are complete.
LEMMA OutKept ==
    ASSUME TypeOK, PayloadKept, NEW x \in Debs, OutDeb(x),
           x.st = "whole" => x.data = cur[1]
    PROVE  PayloadKept'
  <1>1. DirsOK
    BY TypeParts
  <1>2. CASE Running("pack_112")
    <2>1. /\ deb' = deb
          /\ deb112' = [deb112 EXCEPT ![<<cur, tree112[cur].ver>>] = x]
      BY <1>2 DEF OutDeb
    <2>2. ASSUME NEW f \in Files112, deb112'[f].st = "whole"
          PROVE  deb112'[f].data = f[1][1]
      BY <1>1, <2>1, <2>2 DEF DirsOK, PayloadKept
    <2>3. QED
      BY <2>1, <2>2 DEF PayloadKept
  <1>3. CASE ~ Running("pack_112")
    BY <1>1, <1>3 DEF OutDeb, DirsOK, PayloadKept
  <1>4. QED
    BY <1>2, <1>3

\* The source of a package carries the payload of its stem.
LEMMA SourceKept ==
    ASSUME PayloadKept, NEW p \in Pkgs, resolve_source_deb(p).st = "whole"
    PROVE  resolve_source_deb(p).data = p[1]
  BY NamesTyped DEF PayloadKept, resolve_source_deb

\* Every step keeps the payloads.
LEMMA PayloadStep ==
    ASSUME PipelineInv, [Next]_vars
    PROVE  PayloadKept' /\ Gathered'
  <1>0. /\ TypeOK /\ PayloadKept /\ Gathered
        /\ DirsOK /\ LoopOK /\ BodyOK
        /\ cur \in Pkgs
    BY TypeParts DEF PipelineInv, BodyOK
  <1>1. CASE UNCHANGED <<deb, deb112>> /\ step' \notin {"rm", "ar"}
    BY <1>0, <1>1 DEF PayloadKept, Gathered
  <1>2. CASE PackBegin
    <2>1. PICK p \in todo :
              /\ resolve_source_deb(p).st = "whole"
              /\ hold' = [st |-> "whole", data |-> resolve_source_deb(p).data,
                          ctl |-> ControlDir(p)]
              /\ cur' = p
      BY <1>2 DEF PackBegin
    <2>2. hold'.data = cur'[1]
      BY <1>0, <2>1, SourceKept DEF LoopOK
    <2>3. UNCHANGED <<deb, deb112>>
      BY <1>2 DEF PackBegin, dirVars
    <2>4. QED
      BY <1>0, <2>2, <2>3 DEF PayloadKept, Gathered
  <1>3. CASE PackRemove
    <2>1. PayloadKept'
      BY <1>0, <1>3, FilesTyped, OutKept DEF PackRemove
    <2>2. QED
      BY <1>0, <1>3, <2>1 DEF PackRemove, Gathered
  <1>4. CASE PackWrite
    <2>1. PayloadKept'
      BY <1>0, <1>4, OutKept DEF PackWrite, BodyOK, Gathered
    <2>2. QED
      BY <1>4, <2>1 DEF PackWrite, Visited, Gathered
  <1>5. CASE FetchDone
    BY <1>0, <1>5, FilesTyped
    DEF FetchDone, AfterFetch, Visited, DirsOK, PayloadKept, Gathered
  <1>6. CASE FetchFail
    BY <1>0, <1>6, FilesTyped DEF FetchFail, Ends, DirsOK, PayloadKept, Gathered
  <1>7. CASE Clean
    <2>1. ASSUME NEW f \in Files112, deb112'[f].st = "whole"
          PROVE  deb112'[f].data = f[1][1]
      <3>1. PICK p \in todo :
                deb112' = [g \in Files112 |-> IF g[1] = p THEN NoDeb(p) ELSE deb112[g]]
        BY <1>7 DEF Clean
      <3>2. NoDeb(p).st = "absent"
        BY <1>0, FilesTyped DEF LoopOK
      <3>3. deb112'[f] = deb112[f]
        BY <2>1, <3>1, <3>2
      <3>4. QED
        BY <1>0, <2>1, <3>3 DEF PayloadKept
    <2>2. QED
      BY <1>0, <1>7, <2>1 DEF Clean, Visited, PayloadKept, Gathered
  <1>8. CASE Kill
    <2>1. step' = "next"
      BY <1>8 DEF Kill, Ends
    <2>2. CASE UNCHANGED <<deb, deb112>>
      BY <1>1, <2>1, <2>2
    <2>3. CASE deb' = [deb EXCEPT ![cur] = TornDeb(cur)] /\ deb112' = deb112
      BY <1>0, <2>1, <2>3, FilesTyped DEF DirsOK, PayloadKept, Gathered
    <2>4. CASE /\ deb' = deb
               /\ deb112' = [deb112 EXCEPT ![<<cur, tree112[cur].ver>>] = TornDeb(cur)]
      BY <1>0, <2>1, <2>4, FilesTyped DEF DirsOK, PayloadKept, Gathered
    <2>5. QED
      BY <1>8, <2>2, <2>3, <2>4 DEF Kill, Tear, dirVars
  <1>9. CASE UNCHANGED vars
    BY <1>0, <1>9 DEF vars, dirVars, runVars, PayloadKept, Gathered
  <1>10. CASE Edit
    BY <1>0, <1>10 DEF Edit, runVars, PayloadKept, Gathered
  <1>11. CASE Pull \/ Pack \/ Generate \/ PackHwe \/ Prepare
    BY <1>1, <1>11 DEF Pull, Pack, Generate, PackHwe, Prepare, Command, dirVars
  <1>12. CASE \/ FetchSkip \/ FetchStart
              \/ UnpackClear \/ UnpackControl \/ UnpackDup \/ UnpackRename
    BY <1>1, <1>12
    DEF FetchSkip, FetchStart, UnpackClear, UnpackControl, UnpackDup, UnpackRename,
        AfterFetch, Visited, Ends, dirVars
  <1>13. CASE PackSkip \/ PackFail \/ Copy \/ Rewrite
    BY <1>1, <1>13 DEF PackSkip, PackFail, Copy, Rewrite, Visited, Ends, dirVars
  <1>14. CASE NextStage
    BY <1>1, <1>14 DEF NextStage, Ends, dirVars
  <1>15. CASE PackWriteFail
    <2>1. PayloadKept'
      BY <1>0, <1>15, FilesTyped, OutKept DEF PackWriteFail
    <2>2. QED
      BY <1>15, <2>1 DEF PackWriteFail, Ends, Gathered
  <1>16. QED
    BY <1>2, <1>3, <1>4, <1>5, <1>6, <1>7, <1>8, <1>9, <1>10, <1>11, <1>12, <1>13,
       <1>14, <1>15
    DEF Next, ScriptStep

\* Every step keeps the types.
LEMMA TypeStep ==
    ASSUME TypeOK, Ordered, [Next]_vars
    PROVE  TypeOK' /\ Ordered'
  <1>1. CASE UNCHANGED vars
    BY <1>1, RestTyped, TypeParts DEF vars, runVars, Ordered, Running
  <1>2. CASE Next
    BY <1>2, StartTyped, FetchTyped, PackTyped, GenerateTyped, StageTyped, KillTyped
    DEF Next, ScriptStep
  <1>3. QED
    BY <1>1, <1>2

\* The invariant holds at first.
LEMMA InitInv ==
    ASSUME Init
    PROVE  PipelineInv
  <1>1. cur \in Pkgs /\ hold = NoDeb(cur)
    <2>1. Pkgs # {}
      <3>1. PICK x : x \in Stems
        BY NamesAssumption DEF Stems
      <3>2. <<x, "base">> \in Pkgs
        BY <3>1 DEF Pkgs
      <3>3. QED
        BY <3>2
    <2>2. (CHOOSE p \in Pkgs : TRUE) \in Pkgs
      BY <2>1
    <2>3. QED
      BY <2>2 DEF Init
  <1>2. BodyOK
    BY <1>1, FilesTyped DEF Init, BodyOK
  <1>3. LoopOK /\ Ordered /\ Gathered
    BY DEF Init, LoopOK, Ordered, Running, Gathered, Steps, Order, Idle
  <1>4. NotesOK
    <2>1. 0 \in 0..MaxEdits /\ 0 \in 0..MaxCommands /\ 0 \in 0..MaxKills
      BY LimitsAssumption
    <2>2. edits = 0 /\ commands = 0 /\ kills = 0 /\ ready = {} /\ prepare = FALSE
      BY DEF Init
    <2>3. QED
      BY <2>1, <2>2 DEF NotesOK
  <1>5. /\ Stems \X {"hwe"} \subseteq Pkgs
        /\ \A f \in Files112 : f[1] \in Pkgs
    BY DEF Pkgs, Stems, Files112
  <1>6. ASSUME NEW p \in Pkgs
        PROVE  /\ [Upstream(p).ctl EXCEPT !.ver = "new"] \in Trees
               /\ [Upstream(p) EXCEPT !.ctl.ver = "new"] \in Debs
               /\ [Upstream(p) EXCEPT !.ctl.ver = "new"].data = p[1]
    <2>1. "new" \in Versions
      BY DEF Versions
    <2>2. [Upstream(p).ctl EXCEPT !.ver = "new"] \in Trees
      BY <2>1, FilesTyped DEF Trees
    <2>3. [Upstream(p) EXCEPT !.ctl.ver = "new"]
            = [Upstream(p) EXCEPT !.ctl = [Upstream(p).ctl EXCEPT !.ver = "new"]]
      BY FilesTyped DEF Debs
    <2>4. QED
      BY <2>2, <2>3, FilesTyped DEF Debs
  <1>7. deb \in [Pkgs -> Debs] /\ tree \in [Pkgs -> Trees]
    BY FilesTyped DEF Init
  <1>8. /\ tree112 \in [Stems \X {"hwe"} -> Trees]
        /\ deb112 \in [Files112 -> Debs]
    <2>1. CASE /\ tree112 = [p \in Stems \X {"hwe"} |->
                                [Upstream(p).ctl EXCEPT !.ver = "new"]]
               /\ deb112 = [f \in Files112 |->
                                IF f[2] = "old" THEN NoDeb(f[1])
                                ELSE [Upstream(f[1]) EXCEPT !.ctl.ver = "new"]]
      <3>1. \A p \in Stems \X {"hwe"} : [Upstream(p).ctl EXCEPT !.ver = "new"] \in Trees
        BY <1>5, <1>6
      <3>2. \A f \in Files112 :
                /\ [Upstream(f[1]) EXCEPT !.ctl.ver = "new"] \in Debs
                /\ NoDeb(f[1]) \in Debs
        BY <1>5, <1>6, FilesTyped
      <3>3. QED
        BY <2>1, <3>1, <3>2
    <2>2. CASE /\ tree112 = [p \in Stems \X {"hwe"} |-> NoTree(p)]
               /\ deb112 = [f \in Files112 |-> NoDeb(f[1])]
      BY <1>5, <2>2, FilesTyped
    <2>3. QED
      BY <2>1, <2>2 DEF Init
  <1>9. \A p \in Pkgs : deb[p].st = "whole" => deb[p].data = p[1]
    BY FilesTyped DEF Init
  <1>10. \A f \in Files112 : deb112[f].st = "whole" => deb112[f].data = f[1][1]
    <2>1. \A f \in Files112 : deb112[f] \in {NoDeb(f[1]),
                                             [Upstream(f[1]) EXCEPT !.ctl.ver = "new"]}
      BY DEF Init
    <2>2. \A f \in Files112 : /\ NoDeb(f[1]).st = "absent"
                              /\ [Upstream(f[1]) EXCEPT !.ctl.ver = "new"].data = f[1][1]
      BY <1>5, <1>6, FilesTyped
    <2>3. QED
      BY <2>1, <2>2
  <1>11. QED
    BY <1>2, <1>3, <1>4, <1>7, <1>8, <1>9, <1>10, TypeParts
    DEF DirsOK, PayloadKept, PipelineInv

\* The inductive invariant of the pipeline.
THEOREM Invariance == Spec => []PipelineInv
  <1>1. PipelineInv /\ [Next]_vars => PipelineInv'
    BY TypeStep, PayloadStep DEF PipelineInv
  <1>2. QED
    BY <1>1, InitInv, PTL DEF Spec

\* Type correctness of every directory and of the running script, for any
\* packages and any number of commands, edits and kills.
THEOREM TypeCorrect == Spec => []TypeOK
  BY Invariance, PTL DEF PipelineInv

\* No sequence of pulls, unpacks, packs, failures and kills gives a complete .deb
\* the payload of another package, although pack_deb reads the very files it
\* replaces.
THEOREM PayloadIsKept == Spec => []PayloadKept
  BY Invariance, PTL DEF PipelineInv

----------------------------------------------------------------------------
(***************************************************************************)
(* Where the loops are.  The remaining properties need to know what the    *)
(* body of a loop is about: the package stays to be visited, a download    *)
(* fills a gap, and the tmpdir holds the control tree that is being        *)
(* packed, which nobody changes meanwhile.                                 *)
(***************************************************************************)
FetchSteps == {"curl", "clear", "members", "dup", "rename"}

\* What the body of a loop is about.
PhaseInv ==
    /\ at = Idle => step = "next" /\ todo = {}
    /\ step \in FetchSteps => Running("fetch") /\ cur \in todo
    /\ step = "curl" => deb[cur].st = "absent"
    /\ Running("fetch") => todo \subseteq Stems \X {"base"}
    /\ step \in {"rm", "ar"} =>
          /\ Packing /\ cur \in todo
          /\ hold.st = "whole" /\ hold.ctl = ControlDir(cur)
          /\ hold.ctl.st # "absent"

\* The stages by their numbers, now and after a step.
LEMMA StageNumbers ==
    ASSUME TypeOK, TypeOK'
    PROVE  /\ Len(Order) = 7 /\ at \in 0..7 /\ at' \in 0..7 /\ until \in 0..7
           /\ Running("fetch") <=> at = 1
           /\ Running("clean") <=> at = 4
           /\ Running("copy") <=> at = 5
           /\ Running("rewrite") <=> at = 6
           /\ Running("pack_112") <=> at = 7
           /\ Packing <=> at \in {2, 3, 7}
           /\ Running("fetch")' <=> at' = 1
           /\ Running("pack_112")' <=> at' = 7
           /\ Packing' <=> at' \in {2, 3, 7}
  <1>1. /\ Len(Order) = 7 /\ Order[1] = "fetch" /\ Order[2] = "pack_qemu"
        /\ Order[3] = "pack_libvirt" /\ Order[4] = "clean" /\ Order[5] = "copy"
        /\ Order[6] = "rewrite" /\ Order[7] = "pack_112"
    BY DEF Order
  <1>2. at \in 0..7 /\ at' \in 0..7 /\ until \in 0..7
    BY <1>1 DEF TypeOK
  <1>3. QED
    BY <1>1, <1>2 DEF Running, Packing, Idle

\* The end of a loop's body and of a command leave nothing half done.
LEMMA RestPhase ==
    ASSUME TypeOK, TypeOK', PhaseInv, step' = "next",
           \/ at' = Idle /\ todo' = {}
           \/ at' = at /\ at # Idle /\ todo' \subseteq todo
           \/ at' >= 2
    PROVE  PhaseInv'
  BY StageNumbers DEF PhaseInv, FetchSteps, Idle

\* The body of the download loop.
LEMMA FetchPhase ==
    ASSUME TypeOK, TypeOK', PhaseInv, Running("fetch"), at' = at, todo' = todo,
           step' \in FetchSteps, cur' \in todo,
           step' = "curl" => deb'[cur'].st = "absent"
    PROVE  PhaseInv'
  BY StageNumbers DEF PhaseInv, FetchSteps, Idle

\* The loops keep to their phases.
LEMMA PhaseStep ==
    ASSUME PipelineInv, PipelineInv', PhaseInv, [Next]_vars
    PROVE  PhaseInv'
  <1>0. TypeOK /\ TypeOK' /\ Ordered /\ LoopOK /\ at \in Nat
    BY TypeParts DEF PipelineInv, LoopOK
  <1>1. CASE UNCHANGED vars
    <2>1. /\ UNCHANGED <<at, step, todo, cur, hold>>
          /\ UNCHANGED <<deb, tree, tree112>>
      BY <1>1 DEF vars, dirVars, runVars
    <2>2. QED
      BY <1>0, <2>1, StageNumbers DEF PhaseInv, ControlDir
  <1>2. CASE Pull
    <2>1. PICK names \in {Qemu, Libvirt} :
            at' = 1 /\ todo' = names \X {"base"} /\ step' = "next"
      BY <1>2 DEF Pull, Command
    <2>2. QED
      BY <1>0, <2>1, StageNumbers DEF PhaseInv, FetchSteps, Stems, Idle
  <1>3. CASE Pack \/ Generate \/ PackHwe \/ Prepare
    <2>1. at' >= 2 /\ step' = "next"
      BY <1>3 DEF Pack, Generate, PackHwe, Prepare, Command
    <2>2. QED
      BY <1>0, <2>1, RestPhase
  <1>4. CASE Edit
    <2>1. at = Idle /\ at' = at /\ todo' = todo /\ step' = step
      BY <1>4 DEF Edit, runVars
    <2>2. QED
      BY <1>0, <2>1, RestPhase DEF PhaseInv
  <1>5. CASE NextStage
    <2>1. CASE Ends("failed") \/ Ends("finished")
      BY <1>0, <2>1, RestPhase DEF Ends
    <2>2. CASE /\ at # until
               /\ at' = IF Order[at] = "fetch" THEN until ELSE at + 1
               /\ UNCHANGED <<until, step, result>>
      <3>1. at >= 1 /\ at <= until /\ until \in Nat
        BY <1>0, <1>5 DEF NextStage, Ordered, LoopOK, Idle
      <3>2. at' >= 2 /\ step' = "next"
        BY <1>0, <1>5, <2>2, <3>1 DEF NextStage
      <3>3. QED
        BY <1>0, <3>2, RestPhase
    <2>3. QED
      BY <1>5, <2>1, <2>2 DEF NextStage
  <1>6. CASE FetchSkip
    <2>1. PICK p \in todo : \/ cur' = p /\ AfterFetch(p)
                            \/ Visited(p) /\ UNCHANGED cur
      BY <1>6 DEF FetchSkip
    <2>2. Running("fetch") /\ at' = at /\ at # Idle
      BY <1>6 DEF FetchSkip, Running
    <2>3. CASE Visited(p)
      BY <1>0, <2>2, <2>3, RestPhase DEF Visited
    <2>4. CASE cur' = p /\ step' = "clear" /\ UNCHANGED todo
      BY <1>0, <2>2, <2>4, FetchPhase DEF FetchSteps
    <2>5. QED
      BY <2>1, <2>3, <2>4 DEF AfterFetch
  <1>7. CASE FetchStart
    BY <1>0, <1>7, FetchPhase DEF FetchStart, FetchSteps, dirVars
  <1>8. CASE FetchDone
    <2>1. Running("fetch") /\ at' = at /\ at # Idle /\ cur' = cur /\ cur \in todo
      BY <1>8 DEF FetchDone, PhaseInv, FetchSteps, Running
    <2>2. CASE Visited(cur)
      BY <1>0, <2>1, <2>2, RestPhase DEF Visited
    <2>3. CASE step' = "clear" /\ UNCHANGED todo
      BY <1>0, <2>1, <2>3, FetchPhase DEF FetchSteps
    <2>4. QED
      BY <1>8, <2>2, <2>3 DEF FetchDone, AfterFetch
  <1>9. CASE FetchFail \/ PackFail \/ PackWriteFail \/ Kill
    BY <1>0, <1>9, RestPhase DEF FetchFail, PackFail, PackWriteFail, Kill, Ends
  <1>10. CASE UnpackClear
    BY <1>0, <1>10, FetchPhase DEF UnpackClear, FetchSteps, PhaseInv
  <1>11. CASE UnpackControl
    <2>1. CASE Ends("failed")
      BY <1>0, <2>1, RestPhase DEF Ends
    <2>2. CASE step' = "dup" /\ UNCHANGED <<at, until, todo, result>>
      BY <1>0, <1>11, <2>2, FetchPhase DEF UnpackControl, FetchSteps, PhaseInv
    <2>3. QED
      BY <1>11, <2>1, <2>2 DEF UnpackControl
  <1>12. CASE UnpackDup
    <2>1. Running("fetch") /\ at' = at /\ at # Idle /\ cur' = cur /\ cur \in todo
      BY <1>12 DEF UnpackDup, PhaseInv, FetchSteps, Running
    <2>2. CASE Visited(cur)
      BY <1>0, <2>1, <2>2, RestPhase DEF Visited
    <2>3. CASE step' = "rename" /\ UNCHANGED todo
      BY <1>0, <2>1, <2>3, FetchPhase DEF FetchSteps
    <2>4. QED
      BY <1>12, <2>2, <2>3 DEF UnpackDup
  <1>13. CASE UnpackRename
    <2>1. Running("fetch") /\ at' = at /\ at # Idle
      BY <1>13 DEF UnpackRename, PhaseInv, FetchSteps, Running
    <2>2. QED
      BY <1>0, <1>13, <2>1, RestPhase DEF UnpackRename, Visited
  <1>14. CASE PackSkip \/ Clean \/ Copy \/ Rewrite
    <2>1. at' = at /\ at # Idle /\ todo' \subseteq todo /\ step' = "next"
      BY <1>14 DEF PackSkip, Packing, Clean, Copy, Rewrite, Running, Visited
    <2>2. QED
      BY <1>0, <2>1, RestPhase
  <1>15. CASE PackBegin
    <2>1. PICK p \in todo :
              /\ ControlDir(p).st # "absent" /\ cur' = p
              /\ hold' = [st |-> "whole", data |-> resolve_source_deb(p).data,
                          ctl |-> ControlDir(p)]
      BY <1>15 DEF PackBegin
    <2>2. /\ Packing /\ step' = "rm" /\ at' = at /\ todo' = todo
          /\ UNCHANGED <<deb, tree, tree112>>
      BY <1>15 DEF PackBegin, dirVars
    <2>3. hold'.st = "whole" /\ hold'.ctl = ControlDir(cur')
      BY <2>1
    <2>4. ControlDir(cur') = ControlDir(cur)'
      BY <1>0, <2>2, StageNumbers DEF ControlDir
    <2>5. QED
      BY <1>0, <2>1, <2>2, <2>3, <2>4, StageNumbers DEF PhaseInv, FetchSteps, Idle
  <1>16. CASE PackRemove
    <2>1. /\ step = "rm" /\ step' = "ar" /\ at' = at /\ todo' = todo
          /\ UNCHANGED <<tree, tree112, cur, hold>>
      BY <1>16 DEF PackRemove
    <2>2. ControlDir(cur) = ControlDir(cur)'
      BY <1>0, <2>1, StageNumbers DEF ControlDir
    <2>3. QED
      BY <1>0, <2>1, <2>2, StageNumbers DEF PhaseInv, FetchSteps, Idle
  <1>17. CASE PackWrite
    <2>1. at' = at /\ at # Idle /\ todo' \subseteq todo /\ step' = "next"
      BY <1>17 DEF PackWrite, Visited, PhaseInv, Packing
    <2>2. QED
      BY <1>0, <2>1, RestPhase
  <1>18. QED
    BY <1>1, <1>2, <1>3, <1>4, <1>5, <1>6, <1>7, <1>8, <1>9, <1>10, <1>11, <1>12,
       <1>13, <1>14, <1>15, <1>16, <1>17
    DEF Next, ScriptStep

----------------------------------------------------------------------------
(***************************************************************************)
(* The names in libvirt controls: right in every .deb, in every tree, but  *)
(* for the copy that is about to be renamed, and in the tmpdir.            *)
(***************************************************************************)
NamedRight(p) ==
    /\ deb[p].ctl.name = p
    /\ tree[p].st # "absent" /\ ~ (step = "rename" /\ p = Hwe(cur)) => tree[p].name = p

\* Without kills, the files and trees of libvirt packages declare their own
\* name, but for the moment between the copy of a tree and its renaming.
NamesInv == kills = 0 => \A p \in Pkgs : p[1] \in Libvirt => NamedRight(p)

\* Steps that leave the .deb files and the trees alone keep their names.
LEMMA NamedFrame ==
    ASSUME NEW p, NamedRight(p), UNCHANGED <<deb, tree>>, step # "rename"
    PROVE  NamedRight(p)'
  BY DEF NamedRight

\* The names in the files an action may write.
LEMMA NamesWritten ==
    ASSUME NEW p \in Pkgs
    PROVE  /\ NoTree(p).st = "absent" /\ NoDeb(p).ctl.name = p
           /\ TornDeb(p).ctl.name = p
           /\ Upstream(p).ctl.name = p /\ TornTree(p).name = p
  BY DEF NoTree, NoDeb, TornDeb, TornTree, Upstream

\* A new .deb file in the top directory.
LEMMA NamedDeb ==
    ASSUME DirsOK, NEW p \in Pkgs, NamedRight(p), step # "rename", NEW q, NEW x,
           q = p => x.ctl.name = p, deb' = [deb EXCEPT ![q] = x], tree' = tree
    PROVE  NamedRight(p)'
  BY DEF NamedRight, DirsOK

\* A new control tree.
LEMMA NamedTree ==
    ASSUME DirsOK, NEW p \in Pkgs, NamedRight(p), step # "rename", NEW q, NEW t,
           q = p => \/ t.st = "absent" \/ t.name = p
                    \/ step' = "rename" /\ p = Hwe(cur'),
           tree' = [tree EXCEPT ![q] = t], deb' = deb
    PROVE  NamedRight(p)'
  BY DEF NamedRight, DirsOK

\* Without a kill, libvirt controls keep the right names.
LEMMA NamesStep ==
    ASSUME PipelineInv, PipelineInv', PhaseInv, NamesInv, [Next]_vars
    PROVE  NamesInv'
  <1>0. /\ TypeOK /\ TypeOK' /\ DirsOK /\ cur \in Pkgs /\ kills \in Nat
    BY TypeParts DEF PipelineInv, BodyOK, NotesOK
  <1> SUFFICES ASSUME kills' = 0, NEW p \in Pkgs, p[1] \in Libvirt
               PROVE  NamedRight(p)'
    BY DEF NamesInv
  <1> USE <1>0
  <1>1. CASE UNCHANGED vars
    <2>1. NamedRight(p)
      BY <1>1 DEF NamesInv, vars, limitVars
    <2>2. QED
      BY <1>1, <2>1 DEF NamedRight, vars, dirVars, runVars
  <1>2. CASE Kill
    BY <1>2 DEF Kill
  <1>3. ASSUME Next, ~ Kill
        PROVE  NamedRight(p)
    <2>1. kills' = kills
      BY <1>3 DEF Next, ScriptStep, Pull, Pack, Generate, PackHwe, Prepare, Edit, Command,
                  NextStage, FetchSkip, FetchStart, FetchDone, FetchFail, UnpackClear,
                  UnpackControl, UnpackDup, UnpackRename, PackSkip, PackFail, PackBegin,
                  PackRemove, PackWrite, PackWriteFail, Clean, Copy, Rewrite, limitVars
    <2>2. QED
      BY <2>1 DEF NamesInv
  <1>4. CASE (Pull \/ Pack \/ Generate \/ PackHwe \/ Prepare) /\ NamedRight(p)
    <2>1. step # "rename" /\ UNCHANGED <<deb, tree>>
      BY <1>4 DEF Pull, Pack, Generate, PackHwe, Prepare, Command, dirVars, PhaseInv
    <2>2. QED
      BY <1>4, <2>1, NamedFrame
  <1>5. CASE (NextStage \/ FetchSkip \/ FetchStart \/ PackSkip \/ PackFail \/ PackBegin)
             /\ NamedRight(p)
    <2>1. step # "rename" /\ UNCHANGED <<deb, tree>>
      BY <1>5 DEF NextStage, FetchSkip, FetchStart, PackSkip, PackFail, PackBegin, dirVars
    <2>2. QED
      BY <1>5, <2>1, NamedFrame
  <1>6. CASE (Clean \/ Copy \/ Rewrite) /\ NamedRight(p)
    <2>1. at \in {4, 5, 6} /\ UNCHANGED <<deb, tree>>
      BY <1>6, StageNumbers DEF Clean, Copy, Rewrite
    <2>2. step # "rename"
      BY <2>1, StageNumbers DEF PhaseInv, FetchSteps
    <2>3. QED
      BY <1>6, <2>1, <2>2, NamedFrame
  <1>7. CASE Edit /\ NamedRight(p)
    <2>1. PICK q \in Pkgs : tree' = [tree EXCEPT ![q].gen = edits', ![q].name = q]
      BY <1>7 DEF Edit
    <2>2. deb' = deb /\ step # "rename"
      BY <1>7 DEF Edit, PhaseInv
    <2>3. CASE p = q
      <3>1. tree'[p].name = p
        BY <2>1, <2>3 DEF DirsOK, Trees
      <3>2. QED
        BY <1>7, <2>2, <3>1 DEF NamedRight
    <2>4. CASE p # q
      <3>1. tree'[p] = tree[p]
        BY <2>1, <2>4 DEF DirsOK
      <3>2. QED
        BY <1>7, <2>2, <3>1 DEF NamedRight
    <2>5. QED
      BY <2>3, <2>4
  <1>8. CASE (FetchDone \/ FetchFail) /\ NamedRight(p)
    <2>1. step # "rename" /\ tree' = tree
      BY <1>8 DEF FetchDone, FetchFail
    <2>2. \/ deb' = deb
          \/ \E x \in {Upstream(cur), TornDeb(cur)} : deb' = [deb EXCEPT ![cur] = x]
      BY <1>8 DEF FetchDone, FetchFail
    <2>3. \A x \in {Upstream(cur), TornDeb(cur)} : cur = p => x.ctl.name = p
      BY NamesWritten
    <2>4. QED
      BY <1>8, <2>1, <2>2, <2>3, NamedDeb, NamedFrame
  <1>9. CASE UnpackClear /\ NamedRight(p)
    BY <1>9, NamesWritten, NamedTree DEF UnpackClear
  <1>10. CASE UnpackControl /\ NamedRight(p)
    <2>1. deb' = deb /\ step # "rename"
      BY <1>10 DEF UnpackControl
    <2>2. cur = p => /\ deb[cur].ctl.name = p /\ Upstream(cur).ctl.name = p
                     /\ TornTree(cur).name = p
      BY <1>10, NamesWritten DEF NamedRight
    <2>3. PICK t : /\ tree' = tree \/ tree' = [tree EXCEPT ![cur] = t]
                   /\ cur = p => t.name = p
      BY <1>10, <2>2 DEF UnpackControl
    <2>4. QED
      BY <1>10, <2>1, <2>3, NamedTree, NamedFrame
  <1>11. CASE UnpackDup /\ NamedRight(p)
    <2>1. Hwe(cur) = p => step' = "rename" /\ p = Hwe(cur')
      BY <1>11, NamesTyped DEF UnpackDup
    <2>2. QED
      BY <1>11, <2>1, NamedTree DEF UnpackDup
  <1>12. CASE UnpackRename /\ NamedRight(p)
    <2>1. deb' = deb /\ step' # "rename" /\ Hwe(cur) \in Pkgs
      BY <1>12, NamesTyped DEF UnpackRename, Visited
    <2>2. CASE p # Hwe(cur)
      <3>1. tree'[p] = tree[p]
        BY <1>12, <2>2 DEF UnpackRename, DirsOK
      <3>2. QED
        BY <1>12, <2>1, <2>2, <3>1 DEF NamedRight
    <2>3. CASE p = Hwe(cur)
      <3>1. tree'[p].st # "absent" => tree'[p].name = p
        BY <1>12, <2>1, <2>3 DEF UnpackRename, DirsOK, Trees
      <3>2. QED
        BY <1>12, <2>1, <3>1 DEF NamedRight
    <2>4. QED
      BY <2>2, <2>3
  <1>13. CASE (PackRemove \/ PackWrite \/ PackWriteFail) /\ NamedRight(p)
    <2>1. step \in {"rm", "ar"} /\ tree' = tree
      BY <1>13 DEF PackRemove, PackWrite, PackWriteFail
    <2>2. PICK x : OutDeb(x) /\ x \in {NoDeb(cur), TornDeb(cur), hold}
      BY <1>13 DEF PackRemove, PackWrite, PackWriteFail
    <2>3. CASE Running("pack_112")
      BY <1>13, <2>1, <2>2, <2>3, NamedFrame DEF OutDeb
    <2>4. CASE ~ Running("pack_112")
      <3>1. deb' = [deb EXCEPT ![cur] = x]
        BY <2>2, <2>4 DEF OutDeb
      <3>2. hold.ctl = tree[cur] /\ tree[cur].st # "absent"
        BY <2>1, <2>4 DEF PhaseInv, ControlDir
      <3>3. cur = p => /\ hold.ctl.name = p /\ NoDeb(cur).ctl.name = p
                       /\ TornDeb(cur).ctl.name = p
        BY <1>13, <2>1, <3>2, NamesWritten DEF NamedRight
      <3>4. QED
        BY <1>13, <2>1, <2>2, <3>1, <3>3, NamedDeb
    <2>5. QED
      BY <2>3, <2>4
  <1>14. QED
    BY <1>1, <1>2, <1>3, <1>4, <1>5, <1>6, <1>7, <1>8, <1>9, <1>10, <1>11, <1>12, <1>13
    DEF Next, ScriptStep

----------------------------------------------------------------------------
(***************************************************************************)
(* The source files: whole all along for the packages in ready, if the     *)
(* members in the tmpdir stand for the file that was just removed.         *)
(***************************************************************************)
Kept(p) == IF step = "ar" /\ ~ Running("pack_112") /\ p = cur THEN hold.st ELSE deb[p].st

\* The file that resolve_source_deb finds for p is whole.
SourceWhole(p) == IF Kept(p) # "absent" THEN Kept(p) = "whole" ELSE Kept(Base(p)) = "whole"

\* From the start of a command to its end, unless ar failed or it was killed,
\* and even then for all packages but the one that was being packed.
SourcesInv ==
    /\ at # Idle \/ result \in {"finished", "failed"} => \A p \in ready : SourceWhole(p)
    /\ \A p, q \in ready : SourceWhole(p) \/ SourceWhole(q) \/ p[1] = q[1]

\* A step that keeps every file, makes it whole, or at worst puts a torn base
\* package where there was none, loses no source.
LEMMA KeptStep ==
    ASSUME NEW p \in Pkgs, SourceWhole(p),
           \A q \in Pkgs : \/ Kept(q)' = Kept(q)
                           \/ Kept(q)' = "whole"
                           \/ Kept(q) = "absent" /\ Base(q) = q
    PROVE  SourceWhole(p)'
  <1>1. Base(p) \in Pkgs
    BY NamesTyped
  <1>2. QED
    BY <1>1 DEF SourceWhole

\* A command that stops in the middle of writing one file leaves the sources of
\* the other packages as they were.
LEMMA OthersKept ==
    ASSUME DirsOK, cur \in Pkgs, NEW p \in Pkgs, SourceWhole(p), p[1] # cur[1],
           step' = "next", \A q \in Pkgs : q # cur => deb'[q] = deb[q]
    PROVE  SourceWhole(p)'
  <1>1. Base(p) \in Pkgs /\ Base(p)[1] = p[1]
    BY NamesTyped
  <1>2. p # cur /\ Base(p) # cur
    BY <1>1
  <1>3. Kept(p)' = Kept(p) /\ Kept(Base(p))' = Kept(Base(p))
    BY <1>1, <1>2 DEF Kept
  <1>4. QED
    BY <1>3 DEF SourceWhole

\* A command that ends by itself loses no source, but for a failing ar.
LEMMA SourcesStep ==
    ASSUME PipelineInv, PipelineInv', PhaseInv, SourcesInv, [Next]_vars
    PROVE  SourcesInv'
  <1>0. /\ TypeOK /\ TypeOK' /\ DirsOK /\ cur \in Pkgs /\ ready \subseteq Pkgs
        /\ todo \subseteq Pkgs
    BY TypeParts DEF PipelineInv, BodyOK, NotesOK, LoopOK
  <1> DEFINE Safe(q) == \/ Kept(q)' = Kept(q)
                        \/ Kept(q)' = "whole"
                        \/ Kept(q) = "absent" /\ Base(q) = q
  <1>1. ASSUME ready' = ready, at # Idle \/ (UNCHANGED <<at, result>>),
               \A q \in Pkgs : Safe(q)
        PROVE  SourcesInv'
    <2>1. ASSUME NEW p \in ready, SourceWhole(p)
          PROVE  SourceWhole(p)'
      BY <1>0, <1>1, <2>1, KeptStep
    <2>2. QED
      BY <1>1, <2>1 DEF SourcesInv
  <1>2. ASSUME deb' = deb, step # "ar", step' # "ar"
        PROVE  \A q \in Pkgs : Safe(q)
    BY <1>2 DEF Kept
  <1>3. CASE UNCHANGED vars
    <2>1. UNCHANGED <<deb, step, at, cur, hold, result, ready>>
      BY <1>3 DEF vars, dirVars, runVars, noteVars
    <2>2. \A q \in Pkgs : Kept(q)' = Kept(q)
      BY <1>0, <2>1, StageNumbers DEF Kept
    <2>3. QED
      BY <1>1, <2>1, <2>2
  <1>4. CASE Kill \/ PackWriteFail
    <2>1. /\ at # Idle /\ step' = "next" /\ ready' = ready /\ at' = Idle
          /\ result' \notin {"finished", "failed"}
      BY <1>4 DEF Kill, PackWriteFail, Ends, noteVars, PhaseInv, Packing
    <2>2. \A q \in Pkgs : q # cur => deb'[q] = deb[q]
      BY <1>0, <1>4 DEF Kill, PackWriteFail, Tear, OutDeb, dirVars, DirsOK
    <2>3. \A p \in ready : SourceWhole(p)
      BY <2>1 DEF SourcesInv
    <2>4. ASSUME NEW p \in ready, p[1] # cur[1]
          PROVE  SourceWhole(p)'
      BY <1>0, <2>1, <2>2, <2>3, <2>4, OthersKept
    <2>5. \A p, q \in ready : SourceWhole(p)' \/ SourceWhole(q)' \/ p[1] = q[1]
      BY <2>4
    <2>6. QED
      BY <2>1, <2>5 DEF SourcesInv
  <1>5. CASE Pull \/ Pack \/ Generate \/ PackHwe \/ Prepare
    <2>1. /\ ready' = {p \in Pkgs : resolve_source_deb(p).st = "whole"}
          /\ step' = "next" /\ deb' = deb
      BY <1>5 DEF Pull, Pack, Generate, PackHwe, Prepare, Command, dirVars
    <2>2. ASSUME NEW p \in ready'
          PROVE  SourceWhole(p)'
      BY <2>1, <2>2 DEF SourceWhole, Kept, resolve_source_deb
    <2>3. QED
      BY <2>2 DEF SourcesInv
  <1>6. CASE Edit
    <2>1. step # "ar" /\ UNCHANGED <<deb, step, at, result, ready>>
      BY <1>6 DEF Edit, runVars, PhaseInv
    <2>2. QED
      BY <1>1, <1>2, <2>1
  <1>7. CASE NextStage
    <2>1. /\ at # Idle /\ ready' = ready /\ deb' = deb /\ step = "next" /\ step' = "next"
      BY <1>7 DEF NextStage, Ends, dirVars, noteVars
    <2>2. QED
      BY <1>1, <1>2, <2>1
  <1>8. CASE FetchSkip \/ FetchStart \/ PackSkip \/ PackFail \/ PackBegin
    <2>1. at # Idle
      BY <1>8 DEF FetchSkip, FetchStart, PackSkip, PackFail, PackBegin, Running, Packing
    <2>2. /\ ready' = ready /\ deb' = deb /\ step # "ar" /\ step' # "ar"
      BY <1>8 DEF FetchSkip, FetchStart, PackSkip, PackFail, PackBegin, AfterFetch,
                  Visited, Ends, dirVars, noteVars
    <2>3. QED
      BY <1>1, <1>2, <2>1, <2>2
  <1>9. CASE UnpackClear \/ UnpackControl \/ UnpackDup \/ UnpackRename
    <2>1. step \in FetchSteps
      BY <1>9 DEF UnpackClear, UnpackControl, UnpackDup, UnpackRename, FetchSteps
    <2>2. at # Idle /\ step # "ar"
      BY <2>1 DEF PhaseInv, Running, FetchSteps
    <2>3. ready' = ready /\ deb' = deb /\ step' # "ar"
      BY <1>9 DEF UnpackClear, UnpackControl, UnpackDup, UnpackRename, Visited, Ends,
                  noteVars
    <2>4. QED
      BY <1>1, <1>2, <2>2, <2>3
  <1>10. CASE Clean \/ Copy \/ Rewrite
    <2>1. at \in {4, 5, 6} /\ ready' = ready /\ deb' = deb /\ step' = "next"
      BY <1>0, <1>10, StageNumbers DEF Clean, Copy, Rewrite, Visited, noteVars
    <2>2. at # Idle /\ step # "ar"
      BY <1>0, <2>1, StageNumbers DEF PhaseInv, Idle
    <2>3. QED
      BY <1>1, <1>2, <2>1, <2>2
  <1>11. CASE FetchDone
    <2>1. at # Idle /\ step = "curl" /\ step' # "ar" /\ ready' = ready
      BY <1>11 DEF FetchDone, AfterFetch, Visited, noteVars, PhaseInv, FetchSteps, Running
    <2>2. deb' = [deb EXCEPT ![cur] = Upstream(cur)] /\ Upstream(cur).st = "whole"
      BY <1>0, <1>11, FilesTyped DEF FetchDone
    <2>3. \A q \in Pkgs : Safe(q)
      BY <1>0, <2>1, <2>2 DEF Kept, DirsOK
    <2>4. QED
      BY <1>1, <2>1, <2>3
  <1>12. CASE FetchFail
    <2>1. at # Idle /\ step = "curl" /\ step' # "ar" /\ ready' = ready
      BY <1>12 DEF FetchFail, Ends, noteVars, PhaseInv, FetchSteps, Running
    <2>2. deb' = deb \/ deb' = [deb EXCEPT ![cur] = TornDeb(cur)]
      BY <1>12 DEF FetchFail
    <2>3. deb[cur].st = "absent" /\ cur \in Stems \X {"base"}
      BY <2>1 DEF PhaseInv, FetchSteps
    <2>4. Base(cur) = cur
      BY <2>3 DEF Base
    <2>5. \A q \in Pkgs : Safe(q)
      BY <1>0, <2>1, <2>2, <2>3, <2>4 DEF Kept, DirsOK
    <2>6. QED
      BY <1>1, <2>1, <2>5
  <1>13. CASE PackRemove
    <2>1. /\ step = "rm" /\ step' = "ar" /\ ready' = ready
          /\ UNCHANGED <<at, cur, hold>>
      BY <1>13 DEF PackRemove, noteVars
    <2>2. at # Idle /\ hold.st = "whole"
      BY <2>1 DEF PhaseInv, Packing
    <2>3. OutDeb(NoDeb(cur))
      BY <1>13 DEF PackRemove
    <2>4. CASE Running("pack_112")
      <3>1. deb' = deb /\ Running("pack_112")'
        BY <1>0, <2>1, <2>3, <2>4, StageNumbers DEF OutDeb
      <3>2. \A q \in Pkgs : Safe(q)
        BY <2>1, <3>1 DEF Kept
      <3>3. QED
        BY <1>1, <2>1, <2>2, <3>2
    <2>5. CASE ~ Running("pack_112")
      <3>1. deb' = [deb EXCEPT ![cur] = NoDeb(cur)] /\ ~ Running("pack_112")'
        BY <1>0, <2>1, <2>3, <2>5, StageNumbers DEF OutDeb
      <3>2. \A q \in Pkgs : Safe(q)
        BY <1>0, <2>1, <2>2, <3>1 DEF Kept, DirsOK
      <3>3. QED
        BY <1>1, <2>1, <2>2, <3>2
    <2>6. QED
      BY <2>4, <2>5
  <1>14. CASE PackWrite
    <2>1. /\ step = "ar" /\ step' = "next" /\ ready' = ready
          /\ UNCHANGED <<at, cur, hold>>
      BY <1>14 DEF PackWrite, Visited, noteVars
    <2>2. at # Idle /\ hold.st = "whole"
      BY <2>1 DEF PhaseInv, Packing
    <2>3. OutDeb(hold)
      BY <1>14 DEF PackWrite
    <2>4. \A q \in Pkgs : Safe(q)
      BY <1>0, <2>1, <2>2, <2>3 DEF Kept, DirsOK, OutDeb
    <2>5. QED
      BY <1>1, <2>1, <2>2, <2>4
  <1>15. QED
    BY <1>3, <1>4, <1>5, <1>6, <1>7, <1>8, <1>9, <1>10, <1>11, <1>12, <1>13, <1>14
    DEF Next, ScriptStep

----------------------------------------------------------------------------
(***************************************************************************)
(* What prepare_debs.sh has done by the stage it is in.                    *)
(***************************************************************************)
Ongoing == prepare /\ (at # Idle \/ result = "finished")

\* The stage, or one past the last when the command has finished.
Stage == IF at = Idle THEN Len(Order) + 1 ELSE at

\* The loop of stage k has dealt with p.
Past(k, p) == Stage > k \/ (Stage = k /\ p \notin todo)

\* The top-level file is the present tree, packed.
Packed(p) == tree[p].st # "absent" => deb[p].st = "whole" /\ deb[p].ctl = tree[p]

\* The tree of hwe-11.2 is the present one.
Copied(p) == IF tree[p].st = "absent" THEN tree112[p].st = "absent"
             ELSE tree112[p] = tree[p]

\* It has the 11.2 version besides.
Renewed(p) == IF tree[p].st = "whole" THEN tree112[p] = [tree[p] EXCEPT !.ver = "new"]
              ELSE Copied(p)

\* A file of hwe-11.2 is the packed tree.
Packed112(f) == deb112[f].st # "absent" =>
                   /\ f[2] = tree112[f[1]].ver
                   /\ deb112[f].st = "whole" /\ deb112[f].ctl = tree112[f[1]]
                   /\ tree112[f[1]].st # "absent"

\* prepare_debs.sh never fetches, and packs libvirt after QEMU.
Staged ==
    /\ at # Idle => at >= 2 /\ until = Len(Order)
    /\ at = 3 => \A p \in todo : p[1] \notin Qemu

\* --pack has dealt with the sources that were there at the start.
TopPacked == \A p \in ready : Past(IF p[1] \in Qemu THEN 2 ELSE 3, p) => Packed(p)

\* What has become of the trees of hwe-11.2.
Regenerated ==
    \A p \in Stems \X {"hwe"} :
        /\ Stage = 4 /\ p \notin todo => tree112[p].st = "absent"
        /\ Stage = 5 /\ p \notin todo => Copied(p)
        /\ Stage = 6 => IF p \in todo THEN Copied(p) ELSE Renewed(p)
        /\ Stage >= 7 => Renewed(p)

\* No older file of hwe-11.2 is left to be packed.
Cleaned == \A f \in Files112 : Past(4, f[1]) /\ Stage <= 6 => deb112[f].st = "absent"

\* What the last stage has packed is the regenerated trees.
Repacked ==
    Stage >= 7 =>
        /\ \A f \in Files112 : Packed112(f)
        /\ \A p \in Qemu \X {"hwe"} :
              p \in ready /\ p \notin todo /\ tree[p].st = "whole" =>
                  deb112[<<p, "new">>].st = "whole"

\* The invariant of prepare_debs.sh.
PrepareInv == Ongoing => Staged /\ TopPacked /\ Regenerated /\ Cleaned /\ Repacked

\* The stage number, now and after a step.
LEMMA StageIs ==
    ASSUME TypeOK, TypeOK'
    PROVE  /\ Stage \in 1..8 /\ Stage' \in 1..8
           /\ at # Idle => Stage = at
           /\ at' # Idle => Stage' = at'
           /\ at = Idle => Stage = 8
           /\ at' = Idle => Stage' = 8
  <1>1. Len(Order) = 7 /\ at \in 0..7 /\ at' \in 0..7
    BY StageNumbers
  <1>2. Stage = (IF at = 0 THEN 8 ELSE at) /\ Stage' = (IF at' = 0 THEN 8 ELSE at')
    BY <1>1 DEF Stage, Idle
  <1>3. QED
    BY <1>1, <1>2 DEF Idle

\* Steps within a stage that change neither the trees nor what was written.
LEMMA PrepareFrame ==
    ASSUME TypeOK, TypeOK', Staged, TopPacked, Regenerated, Cleaned, Repacked,
           UNCHANGED <<deb, tree, deb112, tree112, at, until, todo, ready>>
    PROVE  Staged' /\ TopPacked' /\ Regenerated' /\ Cleaned' /\ Repacked'
  <1>1. Stage' = Stage
    BY DEF Stage
  <1>2. \A k, p : Past(k, p)' <=> Past(k, p)
    BY <1>1 DEF Past
  <1>3. \A p : /\ Packed(p)' <=> Packed(p)
               /\ Copied(p)' <=> Copied(p)
               /\ Renewed(p)' <=> Renewed(p)
               /\ Packed112(p)' <=> Packed112(p)
    BY DEF Packed, Copied, Renewed, Packed112
  <1>4. Staged'
    BY DEF Staged
  <1>5. TopPacked'
    BY <1>2, <1>3 DEF TopPacked
  <1>6. Regenerated'
    BY <1>1, <1>3 DEF Regenerated
  <1>7. Cleaned'
    BY <1>1, <1>2 DEF Cleaned
  <1>8. Repacked'
    BY <1>1, <1>3 DEF Repacked
  <1>9. QED
    BY <1>4, <1>5, <1>6, <1>7, <1>8

\* prepare_debs.sh starts: nothing is packed yet.
LEMMA PrepareBegins ==
    ASSUME TypeOK, TypeOK', Prepare
    PROVE  Staged' /\ TopPacked' /\ Regenerated' /\ Cleaned' /\ Repacked'
  <1>1. at' = 2 /\ until' = 7 /\ todo' = Work(2) /\ Work(2) = {p \in Pkgs : p[1] \in Qemu}
    BY DEF Prepare, Command, Work, Order
  <1>2. Stage' = 2 /\ ready' \subseteq Pkgs
    BY <1>1, StageIs, TypeParts DEF Idle, NotesOK
  <1>3. Staged'
    BY <1>1, StageNumbers DEF Staged
  <1>4. TopPacked'
    BY <1>1, <1>2 DEF TopPacked, Past
  <1>5. Regenerated' /\ Cleaned' /\ Repacked'
    BY <1>2 DEF Regenerated, Cleaned, Repacked, Past
  <1>6. QED
    BY <1>3, <1>4, <1>5

\* It finishes.
LEMMA PrepareEnds ==
    ASSUME TypeOK, TypeOK', Staged, TopPacked, Regenerated, Cleaned, Repacked,
           at # Idle, at = until, todo = {}, Ends("finished"), ready' = ready,
           UNCHANGED dirVars
    PROVE  Staged' /\ TopPacked' /\ Regenerated' /\ Cleaned' /\ Repacked'
  <1>0. UNCHANGED <<deb, tree, deb112, tree112>>
    BY DEF dirVars
  <1>1. Stage = 7 /\ Stage' = 8 /\ at' = Idle /\ todo' = {}
    BY StageIs, StageNumbers DEF Staged, Ends
  <1>2. \A p : /\ Packed(p)' <=> Packed(p)
               /\ Renewed(p)' <=> Renewed(p)
               /\ Packed112(p)' <=> Packed112(p)
    BY <1>0 DEF Packed, Copied, Renewed, Packed112
  <1>3. Staged'
    BY <1>1 DEF Staged
  <1>4. TopPacked'
    BY <1>1, <1>2 DEF TopPacked, Past
  <1>5. Regenerated'
    BY <1>1, <1>2 DEF Regenerated
  <1>6. Cleaned'
    BY <1>1 DEF Cleaned
  <1>7. Repacked'
    BY <1>0, <1>1, <1>2 DEF Repacked
  <1>8. QED
    BY <1>3, <1>4, <1>5, <1>6, <1>7

\* It passes to the next stage.
LEMMA PrepareAdvances ==
    ASSUME TypeOK, TypeOK', Staged, TopPacked, Regenerated, Cleaned, Repacked,
           at # Idle, at # until, todo = {}, at' = at + 1, todo' = Work(at'),
           ready' = ready, until' = until, UNCHANGED dirVars
    PROVE  Staged' /\ TopPacked' /\ Regenerated' /\ Cleaned' /\ Repacked'
  <1>0. UNCHANGED <<deb, tree, deb112, tree112>>
    BY DEF dirVars
  <1>1. /\ at \in 2..6 /\ at' \in 3..7 /\ until = 7 /\ Stage = at /\ Stage' = at'
        /\ at' = at + 1
    <2>1. at \in 0..7 /\ until = 7 /\ at >= 2
      BY StageNumbers DEF Staged
    <2>2. at \in 2..6 /\ at' \in 3..7
      BY <2>1
    <2>3. QED
      BY <2>1, <2>2, StageIs DEF Idle
  <1>2. /\ Work(3) = {p \in Pkgs : p[1] \in Libvirt}
        /\ Work(4) = Stems \X {"hwe"}
        /\ Work(5) = {p \in Stems \X {"hwe"} : tree[p].st # "absent"}
        /\ Work(6) = {p \in Stems \X {"hwe"} : tree112[p].st # "absent"}
        /\ Work(7) = Qemu \X {"hwe"}
    <2>1. /\ Order[3] = "pack_libvirt" /\ Order[4] = "clean" /\ Order[5] = "copy"
          /\ Order[6] = "rewrite" /\ Order[7] = "pack_112"
      BY DEF Order
    <2>2. Work(3) = {p \in Pkgs : p[1] \in Libvirt}
      BY <2>1 DEF Work
    <2>3. Work(4) = Stems \X {"hwe"}
      BY <2>1 DEF Work
    <2>4. Work(5) = {p \in Stems \X {"hwe"} : tree[p].st # "absent"}
      BY <2>1 DEF Work
    <2>5. Work(6) = {p \in Stems \X {"hwe"} : tree112[p].st # "absent"}
      BY <2>1 DEF Work
    <2>6. Work(7) = Qemu \X {"hwe"}
      BY <2>1 DEF Work
    <2>7. QED
      BY <2>2, <2>3, <2>4, <2>5, <2>6
  <1>3. \A p : /\ Packed(p)' <=> Packed(p)
               /\ Copied(p)' <=> Copied(p)
               /\ Renewed(p)' <=> Renewed(p)
    BY <1>0 DEF Packed, Copied, Renewed
  <1>4. ready \subseteq Pkgs /\ \A p \in Pkgs : p[1] \in Qemu \cup Libvirt
    BY TypeParts DEF NotesOK, Pkgs, Stems
  <1>5. Staged'
    BY <1>1, <1>2, NamesAssumption, StageNumbers DEF Staged
  <1>6. TopPacked'
    <2> SUFFICES ASSUME NEW p \in ready, Past(IF p[1] \in Qemu THEN 2 ELSE 3, p)'
                 PROVE  Packed(p)
      BY <1>3 DEF TopPacked
    <2>1. Past(IF p[1] \in Qemu THEN 2 ELSE 3, p)
      BY <1>1, <1>2, <1>4 DEF Past
    <2>2. QED
      BY <2>1 DEF TopPacked
  <1>7. Regenerated'
    <2> SUFFICES ASSUME NEW p \in Stems \X {"hwe"}
                 PROVE  /\ at' = 4 /\ p \notin todo' => tree112[p].st = "absent"
                        /\ at' = 5 /\ p \notin todo' => Copied(p)
                        /\ at' = 6 => IF p \in todo' THEN Copied(p) ELSE Renewed(p)
                        /\ at' >= 7 => Renewed(p)
      BY <1>0, <1>1, <1>3 DEF Regenerated
    <2>1. CASE at' = 4
      BY <1>2, <2>1
    <2>2. CASE at' = 5
      <3>1. tree112[p].st = "absent"
        BY <1>1, <2>2 DEF Regenerated
      <3>2. QED
        BY <1>2, <2>2, <3>1 DEF Copied
    <2>3. CASE at' = 6
      <3>1. Copied(p)
        BY <1>1, <2>3 DEF Regenerated
      <3>2. p \notin todo' => Renewed(p)
        BY <1>2, <2>3, <3>1 DEF Renewed, Copied
      <3>3. QED
        BY <2>3, <3>1, <3>2
    <2>4. CASE at' = 7
      BY <1>1, <2>4 DEF Regenerated
    <2>5. QED
      BY <1>1, <2>1, <2>2, <2>3, <2>4
  <1>8. Cleaned'
    <2> SUFFICES ASSUME NEW f \in Files112, Past(4, f[1])', at' <= 6
                 PROVE  deb112[f].st = "absent"
      BY <1>0, <1>1 DEF Cleaned
    <2>1. f[1] \in Stems \X {"hwe"}
      BY DEF Files112, Stems
    <2>2. at \in {4, 5}
      BY <1>1, <1>2, <2>1 DEF Past
    <2>3. Past(4, f[1]) /\ Stage <= 6
      BY <1>1, <2>2 DEF Past
    <2>4. QED
      BY <2>3 DEF Cleaned
  <1>9. Repacked'
    <2> SUFFICES ASSUME at' = 7
                 PROVE  /\ \A f \in Files112 : Packed112(f)'
                        /\ \A p \in Qemu \X {"hwe"} : p \in todo'
      BY <1>1 DEF Repacked
    <2>1. \A f \in Files112 : Past(4, f[1]) /\ Stage <= 6
      BY <1>1 DEF Past
    <2>2. \A f \in Files112 : deb112'[f].st = "absent"
      BY <1>0, <2>1 DEF Cleaned
    <2>3. QED
      BY <1>2, <2>2 DEF Packed112
  <1>10. QED
    BY <1>5, <1>6, <1>7, <1>8, <1>9

\* It skips a package.
LEMMA PrepareSkips ==
    ASSUME TypeOK, TypeOK', Staged, TopPacked, Regenerated, Cleaned, Repacked,
           SourcesInv, PackSkip
    PROVE  Staged' /\ TopPacked' /\ Regenerated' /\ Cleaned' /\ Repacked'
  <1>0. /\ UNCHANGED <<deb, tree, deb112, tree112, at, until, ready>>
        /\ at \in {2, 3, 7} /\ at # Idle /\ step = "next"
    BY StageNumbers DEF PackSkip, dirVars, noteVars, Packing
  <1>1. PICK p \in todo : /\ todo' = todo \ {p}
                          /\ ControlDir(p).st = "absent" \/ resolve_source_deb(p).st # "whole"
    BY DEF PackSkip, Visited
  <1>2. p \in ready => ControlDir(p).st = "absent"
    BY <1>0, <1>1 DEF SourcesInv, SourceWhole, Kept, resolve_source_deb
  <1>3. ControlDir(p) = IF at = 7 THEN tree112[p] ELSE tree[p]
    BY StageNumbers DEF ControlDir
  <1>4. Stage = at /\ Stage' = at
    BY <1>0, StageIs
  <1>5. \A q : /\ Packed(q)' <=> Packed(q)
               /\ Renewed(q)' <=> Renewed(q)
               /\ Packed112(q)' <=> Packed112(q)
    BY <1>0 DEF Packed, Copied, Renewed, Packed112
  <1>6. Staged'
    BY <1>0, <1>1 DEF Staged
  <1>7. TopPacked'
    <2> SUFFICES ASSUME NEW q \in ready, Past(IF q[1] \in Qemu THEN 2 ELSE 3, q)'
                 PROVE  Packed(q)
      BY <1>0, <1>5 DEF TopPacked
    <2>1. CASE Past(IF q[1] \in Qemu THEN 2 ELSE 3, q)
      BY <2>1 DEF TopPacked
    <2>2. CASE ~ Past(IF q[1] \in Qemu THEN 2 ELSE 3, q)
      <3>1. q = p /\ at # 7
        BY <1>0, <1>1, <1>4, <2>2 DEF Past
      <3>2. QED
        BY <1>2, <1>3, <3>1 DEF Packed
    <2>3. QED
      BY <2>1, <2>2
  <1>8. Regenerated'
    BY <1>0, <1>4, <1>5 DEF Regenerated
  <1>9. Cleaned'
    BY <1>0, <1>4 DEF Cleaned, Past
  <1>10. Repacked'
    <2> SUFFICES ASSUME at = 7
                 PROVE  /\ \A f \in Files112 : Packed112(f)'
                        /\ \A q \in Qemu \X {"hwe"} :
                              q \in ready /\ q \notin todo' /\ tree[q].st = "whole" =>
                                  deb112[<<q, "new">>].st = "whole"
      BY <1>0, <1>4 DEF Repacked
    <2>1. \A f \in Files112 : Packed112(f)'
      BY <1>4, <1>5 DEF Repacked
    <2>2. ASSUME NEW q \in Qemu \X {"hwe"}, q \in ready, q \notin todo', tree[q].st = "whole"
          PROVE  deb112[<<q, "new">>].st = "whole"
      <3>1. Renewed(q)
        BY <1>4 DEF Regenerated, Stems
      <3>2. tree112[q].st = "whole"
        BY <2>2, <3>1, TypeParts DEF Renewed, DirsOK, Trees, Pkgs, Stems
      <3>3. q # p
        BY <1>2, <1>3, <2>2, <3>2
      <3>4. QED
        BY <1>1, <1>4, <2>2, <3>3 DEF Repacked
    <2>3. QED
      BY <2>1, <2>2
  <1>11. QED
    BY <1>6, <1>7, <1>8, <1>9, <1>10

\* It removes and writes a file of the top directory.
LEMMA PrepareWritesTop ==
    ASSUME TypeOK, TypeOK', Staged, TopPacked, at \in {2, 3}, cur \in todo,
           UNCHANGED <<at, until, tree, ready>>, todo' \subseteq todo,
           \A p : p \in todo /\ p # cur => p \in todo', NEW x,
           deb' = [deb EXCEPT ![cur] = x],
           cur \in todo' \/ (x.st = "whole" /\ x.ctl = tree[cur])
    PROVE  Staged' /\ TopPacked' /\ Regenerated' /\ Cleaned' /\ Repacked'
  <1>1. Stage = at /\ Stage' = at
    BY StageIs DEF Idle
  <1>2. Staged'
    BY DEF Staged
  <1>3. TopPacked'
    <2> SUFFICES ASSUME NEW q \in ready, Past(IF q[1] \in Qemu THEN 2 ELSE 3, q)'
                 PROVE  Packed(q)'
      BY DEF TopPacked
    <2>1. q \in Pkgs /\ DirsOK
      BY TypeParts DEF NotesOK
    <2>2. CASE q # cur
      <3>1. Past(IF q[1] \in Qemu THEN 2 ELSE 3, q)
        BY <1>1, <2>2 DEF Past
      <3>2. deb'[q] = deb[q]
        BY <2>1, <2>2 DEF DirsOK
      <3>3. QED
        BY <3>1, <3>2 DEF TopPacked, Packed
    <2>3. CASE q = cur
      <3>1. cur \notin todo'
        BY <1>1, <2>3 DEF Past, Staged
      <3>2. deb'[q] = x
        BY <2>1, <2>3 DEF DirsOK
      <3>3. QED
        BY <2>3, <3>1, <3>2 DEF Packed
    <2>4. QED
      BY <2>2, <2>3
  <1>4. Regenerated' /\ Cleaned' /\ Repacked'
    BY <1>1 DEF Regenerated, Cleaned, Repacked, Past
  <1>5. QED
    BY <1>2, <1>3, <1>4

\* It removes and writes a file of hwe-11.2.
LEMMA PrepareWrites112 ==
    ASSUME TypeOK, TypeOK', Staged, TopPacked, Regenerated, Repacked, at = 7,
           cur \in Qemu \X {"hwe"}, cur \in todo,
           UNCHANGED <<at, until, tree, tree112, deb, ready>>, todo' \subseteq todo,
           \A p : p \in todo /\ p # cur => p \in todo', NEW x,
           deb112' = [deb112 EXCEPT ![<<cur, tree112[cur].ver>>] = x],
           \/ cur \in todo' /\ x.st = "absent"
           \/ x.st = "whole" /\ x.ctl = tree112[cur] /\ x.ctl.st # "absent"
    PROVE  Staged' /\ TopPacked' /\ Regenerated' /\ Cleaned' /\ Repacked'
  <1>0. DirsOK
    BY TypeParts
  <1>1. Stage = 7 /\ Stage' = 7
    BY StageIs DEF Idle
  <1>2. Staged'
    BY DEF Staged
  <1>3. \A q : /\ Packed(q)' <=> Packed(q)
               /\ Renewed(q)' <=> Renewed(q)
    BY DEF Packed, Copied, Renewed
  <1>4. TopPacked'
    BY <1>1, <1>3 DEF TopPacked, Past
  <1>5. Regenerated'
    BY <1>1, <1>3 DEF Regenerated
  <1>6. Cleaned'
    BY <1>1 DEF Cleaned
  <1>7. ASSUME NEW f \in Files112
        PROVE  Packed112(f)'
    <2>1. Packed112(f)
      BY <1>1 DEF Repacked
    <2>2. CASE f = <<cur, tree112[cur].ver>>
      <3>1. deb112'[f] = x /\ f[1] = cur /\ f[2] = tree112[cur].ver
        BY <1>0, <2>2 DEF DirsOK
      <3>2. QED
        BY <3>1 DEF Packed112
    <2>3. CASE f # <<cur, tree112[cur].ver>>
      <3>1. deb112'[f] = deb112[f]
        BY <1>0, <2>3 DEF DirsOK
      <3>2. QED
        BY <2>1, <3>1 DEF Packed112
    <2>4. QED
      BY <2>2, <2>3
  <1>8. ASSUME NEW q \in Qemu \X {"hwe"}, q \in ready, q \notin todo', tree[q].st = "whole"
        PROVE  deb112'[<<q, "new">>].st = "whole"
    <2>0. <<q, "new">> \in Files112
      BY DEF Files112, Versions
    <2>1. CASE q # cur
      <3>1. deb112[<<q, "new">>].st = "whole"
        BY <1>1, <1>8, <2>1 DEF Repacked
      <3>2. deb112'[<<q, "new">>] = deb112[<<q, "new">>]
        BY <1>0, <2>0, <2>1 DEF DirsOK
      <3>3. QED
        BY <3>1, <3>2
    <2>2. CASE q = cur
      <3>1. Renewed(q)
        BY <1>1 DEF Regenerated, Stems
      <3>2. tree112[q].ver = "new"
        BY <1>0, <1>8, <3>1 DEF Renewed, DirsOK, Trees, Pkgs, Stems
      <3>3. deb112'[<<q, "new">>] = x
        BY <1>0, <2>0, <2>2, <3>2 DEF DirsOK
      <3>4. QED
        BY <1>8, <2>2, <3>3
    <2>3. QED
      BY <2>1, <2>2
  <1>9. Repacked'
    BY <1>7, <1>8 DEF Repacked
  <1>10. QED
    BY <1>2, <1>4, <1>5, <1>6, <1>9

\* It cleans, copies and rewrites hwe-11.2.
LEMMA PrepareGenerates ==
    ASSUME TypeOK, TypeOK', Staged, TopPacked, Regenerated, Cleaned, Repacked,
           Clean \/ Copy \/ Rewrite
    PROVE  Staged' /\ TopPacked' /\ Regenerated' /\ Cleaned' /\ Repacked'
  <1>0. /\ UNCHANGED <<deb, tree, at, until, ready>> /\ at \in {4, 5, 6} /\ at # Idle
        /\ DirsOK
    BY StageNumbers, TypeParts DEF Clean, Copy, Rewrite, noteVars, Idle
  <1>1. Stage = at /\ Stage' = at
    BY <1>0, StageIs
  <1>2. Staged'
    BY <1>0 DEF Staged
  <1>3. TopPacked'
    BY <1>0, <1>1 DEF TopPacked, Past, Packed
  <1>4. Repacked'
    BY <1>0, <1>1 DEF Repacked
  <1>5. CASE Clean
    <2>1. at = 4
      BY <1>5, StageNumbers DEF Clean
    <2>2. PICK p \in todo :
            /\ tree112' = [tree112 EXCEPT ![p] = NoTree(p)]
            /\ deb112' = [f \in Files112 |-> IF f[1] = p THEN NoDeb(p) ELSE deb112[f]]
            /\ todo' = todo \ {p}
      BY <1>5 DEF Clean, Visited
    <2>3. NoTree(p).st = "absent" /\ NoDeb(p).st = "absent"
      BY DEF NoTree, NoDeb
    <2>4. ASSUME NEW q \in Stems \X {"hwe"}, q \notin todo'
          PROVE  tree112'[q].st = "absent"
      BY <1>0, <1>1, <2>1, <2>2, <2>3, <2>4 DEF Regenerated, DirsOK
    <2>5. Regenerated'
      BY <1>1, <2>1, <2>4 DEF Regenerated
    <2>6. ASSUME NEW f \in Files112, f[1] \notin todo'
          PROVE  deb112'[f].st = "absent"
      BY <1>1, <2>1, <2>2, <2>3, <2>6 DEF Cleaned, Past
    <2>7. Cleaned'
      BY <1>1, <2>1, <2>6 DEF Cleaned, Past
    <2>8. QED
      BY <1>2, <1>3, <1>4, <2>5, <2>7
  <1>6. CASE Copy
    <2>1. at = 5 /\ deb112' = deb112
      BY <1>6, StageNumbers DEF Copy
    <2>2. PICK p \in todo :
            tree112' = [tree112 EXCEPT ![p] = tree[p]] /\ todo' = todo \ {p}
      BY <1>6 DEF Copy, Visited
    <2>3. ASSUME NEW q \in Stems \X {"hwe"}, q \notin todo'
          PROVE  Copied(q)'
      <3>1. CASE q = p
        <4>1. tree112'[q] = tree[q]
          BY <1>0, <2>2, <3>1 DEF DirsOK
        <4>2. QED
          BY <1>0, <4>1 DEF Copied
      <3>2. CASE q # p
        <4>1. tree112'[q] = tree112[q] /\ Copied(q)
          BY <1>0, <1>1, <2>1, <2>2, <2>3, <3>2 DEF DirsOK, Regenerated
        <4>2. QED
          BY <1>0, <4>1 DEF Copied
      <3>3. QED
        BY <3>1, <3>2
    <2>4. Regenerated'
      BY <1>1, <2>1, <2>3 DEF Regenerated
    <2>5. Cleaned'
      BY <1>1, <2>1 DEF Cleaned, Past
    <2>6. QED
      BY <1>2, <1>3, <1>4, <2>4, <2>5
  <1>7. CASE Rewrite
    <2>1. at = 6 /\ deb112' = deb112
      BY <1>7, StageNumbers DEF Rewrite
    <2>2. PICK p \in todo :
            /\ tree112' = IF tree112[p].st = "torn" THEN tree112
                          ELSE [tree112 EXCEPT ![p].ver = "new"]
            /\ todo' = todo \ {p}
      BY <1>7 DEF Rewrite, Visited
    <2>3. ASSUME NEW q \in Stems \X {"hwe"}
          PROVE  IF q \in todo' THEN Copied(q)' ELSE Renewed(q)'
      <3>1. CASE q # p
        <4>1. tree112'[q] = tree112[q]
          BY <1>0, <2>2, <3>1 DEF DirsOK
        <4>2. /\ Copied(q)' <=> Copied(q)
              /\ Renewed(q)' <=> Renewed(q)
          BY <1>0, <4>1 DEF Copied, Renewed
        <4>3. QED
          BY <1>1, <2>1, <2>2, <3>1, <4>2 DEF Regenerated
      <3>2. CASE q = p
        <4>1. Copied(q) /\ tree112[q] \in Trees
          BY <1>0, <1>1, <2>1, <2>2, <3>2 DEF Regenerated, DirsOK
        <4>2. CASE tree112[q].st = "torn"
          <5>1. tree112'[q] = tree112[q]
            BY <2>2, <3>2, <4>2
          <5>2. QED
            BY <1>0, <2>2, <3>2, <4>1, <4>2, <5>1 DEF Copied, Renewed
        <4>3. CASE tree112[q].st # "torn"
          <5>1. tree112'[q] = [tree112[q] EXCEPT !.ver = "new"]
            BY <1>0, <2>2, <3>2, <4>3 DEF DirsOK
          <5>2. tree112'[q].st = tree112[q].st
            BY <4>1, <5>1 DEF Trees
          <5>3. tree112[q].st \in {"absent", "whole"}
            BY <4>1, <4>3 DEF Trees, Presence
          <5>4. QED
            BY <1>0, <2>2, <3>2, <4>1, <5>1, <5>2, <5>3 DEF Copied, Renewed
        <4>4. QED
          BY <4>2, <4>3
      <3>3. QED
        BY <3>1, <3>2
    <2>4. Regenerated'
      BY <1>1, <2>1, <2>3 DEF Regenerated
    <2>5. Cleaned'
      BY <1>1, <2>1 DEF Cleaned, Past
    <2>6. QED
      BY <1>2, <1>3, <1>4, <2>4, <2>5
  <1>8. QED
    BY <1>5, <1>6, <1>7

\* Every step of prepare_debs.sh keeps what it has done.
LEMMA PrepareStep ==
    ASSUME PipelineInv, PipelineInv', PhaseInv, SourcesInv, PrepareInv, [Next]_vars
    PROVE  PrepareInv'
  <1>0. TypeOK /\ TypeOK' /\ Ordered /\ LoopOK
    BY TypeParts DEF PipelineInv
  <1> SUFFICES ASSUME Ongoing'
               PROVE  Staged' /\ TopPacked' /\ Regenerated' /\ Cleaned' /\ Repacked'
    BY DEF PrepareInv
  <1> DEFINE Done == Staged /\ TopPacked /\ Regenerated /\ Cleaned /\ Repacked
  <1>1. ASSUME at # Idle, prepare' = prepare
        PROVE  Done /\ at >= 2
    BY <1>1 DEF Ongoing, PrepareInv, Staged
  <1>2. CASE UNCHANGED vars
    <2>1. /\ UNCHANGED <<deb, tree, deb112, tree112, at, until, todo, ready>>
          /\ UNCHANGED <<prepare, result>>
      BY <1>2 DEF vars, dirVars, runVars, noteVars
    <2>2. Done
      BY <2>1 DEF PrepareInv, Ongoing
    <2>3. QED
      BY <1>0, <2>1, <2>2, PrepareFrame
  <1>3. CASE Kill \/ PackFail \/ PackWriteFail \/ FetchFail
    <2>1. at' = Idle /\ result' # "finished"
      BY <1>3 DEF Kill, PackFail, PackWriteFail, FetchFail, Ends
    <2>2. QED
      BY <2>1 DEF Ongoing
  <1>4. CASE Edit \/ Pull \/ Pack \/ Generate \/ PackHwe
    <2>1. CASE Edit
      BY <2>1 DEF Edit, Ongoing
    <2>2. CASE Pull \/ Pack \/ Generate \/ PackHwe
      <3>1. Len(Order) = 7
        BY <1>0, StageNumbers
      <3>2. PICK first \in 1..7, last \in 1..7 :
              /\ first = last \/ last \in {1, 2, 3, 6}
              /\ prepare' = (first # last /\ last = Len(Order))
        BY <2>2 DEF Pull, Pack, Generate, PackHwe, Command
      <3>3. ~ (first # last /\ last = Len(Order))
        BY <3>1, <3>2
      <3>4. ~ prepare'
        BY <3>2, <3>3, Zenon
      <3>5. QED
        BY <3>4 DEF Ongoing
    <2>3. QED
      BY <1>4, <2>1, <2>2
  <1>5. CASE Prepare
    BY <1>0, <1>5, PrepareBegins
  <1>6. CASE FetchSkip \/ FetchStart
    BY <1>0, <1>1, <1>6, StageNumbers DEF FetchSkip, FetchStart, Running, noteVars
  <1>7. CASE FetchDone \/ UnpackClear \/ UnpackControl \/ UnpackDup \/ UnpackRename
    <2>1. step \in FetchSteps /\ prepare' = prepare
      BY <1>7 DEF FetchDone, UnpackClear, UnpackControl, UnpackDup, UnpackRename,
                  FetchSteps, noteVars
    <2>2. at = 1
      BY <1>0, <2>1, StageNumbers DEF PhaseInv
    <2>3. QED
      BY <1>1, <2>1, <2>2 DEF Idle
  <1>8. CASE NextStage
    <2>1. at # Idle /\ todo = {} /\ prepare' = prepare /\ ready' = ready /\ UNCHANGED dirVars
      BY <1>8 DEF NextStage, noteVars
    <2>2. Done /\ at >= 2
      BY <1>1, <2>1
    <2>3. CASE Ends("failed")
      BY <2>3 DEF Ends, Ongoing
    <2>4. CASE at = until /\ Ends("finished")
      BY <1>0, <2>1, <2>2, <2>4, PrepareEnds
    <2>5. CASE /\ at # until
               /\ at' = IF Order[at] = "fetch" THEN until ELSE at + 1
               /\ todo' = Work(at')
               /\ UNCHANGED <<until, step, result>>
      <3>1. at' = at + 1
        BY <1>0, <2>1, <2>2, <2>5, StageNumbers DEF Running
      <3>2. QED
        BY <1>0, <2>1, <2>2, <2>5, <3>1, PrepareAdvances
    <2>6. QED
      BY <1>8, <2>3, <2>4, <2>5 DEF NextStage
  <1>9. CASE PackSkip
    <2>1. Done
      BY <1>1, <1>9 DEF PackSkip, Packing, noteVars
    <2>2. QED
      BY <1>0, <1>9, <2>1, PrepareSkips
  <1>10. CASE PackBegin
    <2>1. Done
      BY <1>1, <1>10 DEF PackBegin, Packing, noteVars
    <2>2. UNCHANGED <<deb, tree, deb112, tree112, at, until, todo, ready>>
      BY <1>10 DEF PackBegin, dirVars, noteVars
    <2>3. QED
      BY <1>0, <2>1, <2>2, PrepareFrame
  <1>11. CASE PackRemove \/ PackWrite
    <2>1. /\ step \in {"rm", "ar"} /\ UNCHANGED <<tree, tree112, at, until, ready, prepare>>
          /\ todo' \subseteq todo /\ \A p : p \in todo /\ p # cur => p \in todo'
      BY <1>11 DEF PackRemove, PackWrite, Visited, noteVars
    <2>2. /\ Packing /\ cur \in todo
          /\ hold.st = "whole" /\ hold.ctl = ControlDir(cur) /\ hold.ctl.st # "absent"
      BY <2>1 DEF PhaseInv
    <2>3. at # Idle /\ Done /\ NoDeb(cur).st = "absent"
      BY <1>1, <2>1, <2>2 DEF Packing, NoDeb
    <2>4. PICK x : /\ OutDeb(x)
                   /\ \/ cur \in todo' /\ x.st = "absent"
                      \/ /\ x.st = "whole" /\ x.ctl = ControlDir(cur)
                         /\ x.ctl.st # "absent"
      BY <1>11, <2>2, <2>3 DEF PackRemove, PackWrite
    <2>5. CASE Running("pack_112")
      <3>1. at = 7 /\ cur \in Qemu \X {"hwe"}
        BY <1>0, <2>2, <2>5, StageNumbers DEF Ordered
      <3>2. /\ deb112' = [deb112 EXCEPT ![<<cur, tree112[cur].ver>>] = x] /\ deb' = deb
            /\ ControlDir(cur) = tree112[cur]
        BY <2>4, <2>5 DEF OutDeb, ControlDir
      <3>3. QED
        BY <1>0, <2>1, <2>2, <2>3, <2>4, <3>1, <3>2, PrepareWrites112
    <2>6. CASE ~ Running("pack_112")
      <3>1. at \in {2, 3}
        BY <1>0, <2>2, <2>6, StageNumbers
      <3>2. deb' = [deb EXCEPT ![cur] = x] /\ ControlDir(cur) = tree[cur]
        BY <2>4, <2>6 DEF OutDeb, ControlDir
      <3>3. QED
        BY <1>0, <2>1, <2>2, <2>3, <2>4, <3>1, <3>2, PrepareWritesTop
    <2>7. QED
      BY <2>5, <2>6
  <1>12. CASE Clean \/ Copy \/ Rewrite
    <2>1. Done
      BY <1>1, <1>12 DEF Clean, Copy, Rewrite, Running, noteVars
    <2>2. QED
      BY <1>0, <1>12, <2>1, PrepareGenerates
  <1>13. QED
    BY <1>2, <1>3, <1>4, <1>5, <1>6, <1>7, <1>8, <1>9, <1>10, <1>11, <1>12
    DEF Next, ScriptStep

----------------------------------------------------------------------------
(***************************************************************************)
(* The four invariants together.                                           *)
(***************************************************************************)
WorkInv == PhaseInv /\ NamesInv /\ SourcesInv /\ PrepareInv

\* They hold at first.
LEMMA InitWork ==
    ASSUME Init
    PROVE  WorkInv
  <1>1. PhaseInv
    BY DEF Init, PhaseInv, FetchSteps, Running, Idle
  <1>2. SourcesInv /\ PrepareInv
    BY DEF Init, SourcesInv, PrepareInv, Ongoing
  <1>3. ASSUME NEW p \in Pkgs
        PROVE  NamedRight(p)
    <2>1. deb[p] \in {Upstream(p), NoDeb(p)} /\ tree[p] \in {Upstream(p).ctl, NoTree(p)}
      BY DEF Init
    <2>2. QED
      BY <2>1, NamesWritten DEF NamedRight
  <1>4. QED
    BY <1>1, <1>2, <1>3 DEF WorkInv, NamesInv

\* The invariants of the loops, the names, the sources and prepare_debs.sh.
THEOREM WorkInvariance == Spec => []WorkInv
  <1>1. PipelineInv /\ PipelineInv' /\ WorkInv /\ [Next]_vars => WorkInv'
    BY PhaseStep, NamesStep, SourcesStep, PrepareStep DEF WorkInv
  <1>2. QED
    BY <1>1, InitWork, Invariance, PTL DEF Spec

\* As long as no command is killed, the control of every libvirt .deb names the
\* package that its file name promises, in any order of pulls, unpacks, edits,
\* packs and failed downloads.
THEOREM LibvirtNamesHold == Spec => []LibvirtNames
  <1>1. NamesInv => LibvirtNames
    BY DEF NamesInv, LibvirtNames, NamedRight
  <1>2. QED
    BY <1>1, WorkInvariance, PTL DEF WorkInv

\* A command that finishes, or that gives up on an input it cannot read, loses
\* none of the source .deb files that were whole when it started; one that is
\* killed, or whose ar fails, loses those of one package at most.
THEOREM SourcesSurviveHolds == Spec => []SourcesSurvive
  <1>1. PhaseInv /\ SourcesInv => SourcesSurvive
    BY DEF PhaseInv, SourcesInv, SourcesSurvive, SourceWhole, Kept, resolve_source_deb
  <1>2. QED
    BY <1>1, WorkInvariance, PTL DEF WorkInv

\* A prepare_debs.sh that finishes leaves in hwe-11.2 nothing of an earlier run,
\* whatever earlier commands and kills left there.
THEOREM Fresh112Holds == Spec => []Fresh112
  <1>1. ASSUME TypeOK, PhaseInv, PrepareInv
        PROVE  Fresh112
    <2> SUFFICES ASSUME Prepared, \A p \in Pkgs : tree[p].st # "torn",
                        NEW f \in Files112, deb112[f].st # "absent"
                 PROVE  /\ f[2] = "new" /\ deb112[f].st = "whole"
                        /\ deb112[f].ctl = [tree[f[1]] EXCEPT !.ver = "new"]
      BY DEF Fresh112
    <2>1. DirsOK /\ f[1] \in Stems \X {"hwe"} /\ f[1] \in Pkgs /\ tree[f[1]] \in Trees
      BY <1>1, TypeParts DEF Files112, Stems, Pkgs, DirsOK
    <2>2. Regenerated /\ Repacked /\ Stage >= 7
      BY <1>1 DEF Prepared, PrepareInv, Ongoing, Stage, Order
    <2>3. Packed112(f) /\ Renewed(f[1])
      BY <2>1, <2>2 DEF Repacked, Regenerated
    <2>4. f[2] = tree112[f[1]].ver /\ deb112[f].st = "whole"
          /\ deb112[f].ctl = tree112[f[1]]
      BY <2>3 DEF Packed112
    <2>5. tree[f[1]].st = "whole"
      BY <2>1, <2>3 DEF Packed112, Renewed, Copied, Trees, Presence
    <2>6. tree112[f[1]] = [tree[f[1]] EXCEPT !.ver = "new"]
      BY <2>3, <2>5 DEF Renewed
    <2>7. tree112[f[1]].ver = "new"
      BY <2>1, <2>6 DEF Trees
    <2>8. QED
      BY <2>4, <2>6, <2>7
  <1>2. QED
    BY <1>1, Invariance, WorkInvariance, PTL DEF WorkInv, PipelineInv

\* A prepare_debs.sh that finishes has packed, in both directories, the present
\* control tree of every package that had a whole source when it started.
THEOREM PrepareCompleteHolds == Spec => []PrepareComplete
  <1>1. ASSUME PipelineInv, PhaseInv, PrepareInv
        PROVE  PrepareComplete
    <2> SUFFICES ASSUME Prepared, NEW p \in ready, tree[p].st # "absent"
                 PROVE  /\ deb[p].st = "whole" /\ deb[p].ctl = tree[p]
                        /\ p \in Qemu \X {"hwe"} /\ tree[p].st = "whole" =>
                              deb112[<<p, "new">>] = [deb[p] EXCEPT !.ctl.ver = "new"]
      BY DEF PrepareComplete
    <2>1. TypeOK /\ DirsOK /\ PayloadKept /\ p \in Pkgs
      BY <1>1, TypeParts DEF PipelineInv, NotesOK
    <2>2. TopPacked /\ Regenerated /\ Repacked /\ Stage = 8 /\ todo = {}
      BY <1>1 DEF Prepared, PrepareInv, PhaseInv, Ongoing, Stage, Order
    <2>3. deb[p].st = "whole" /\ deb[p].ctl = tree[p]
      BY <2>2 DEF TopPacked, Past, Packed
    <2>4. ASSUME p \in Qemu \X {"hwe"}, tree[p].st = "whole"
          PROVE  deb112[<<p, "new">>] = [deb[p] EXCEPT !.ctl.ver = "new"]
      <3> DEFINE f == <<p, "new">>
                 t == [tree[p] EXCEPT !.ver = "new"]
      <3>1. f \in Files112 /\ f[1] = p /\ p \in Stems \X {"hwe"}
        BY <2>4 DEF Files112, Versions, Stems
      <3>2. tree112[p] = t
        BY <2>2, <2>4, <3>1 DEF Regenerated, Renewed
      <3>3. deb112[f].st = "whole" /\ Packed112(f)
        BY <2>2, <2>4, <3>1 DEF Repacked
      <3>4. deb112[f].ctl = t
        BY <3>1, <3>2, <3>3 DEF Packed112
      <3>5. deb112[f].data = p[1] /\ deb[p].data = p[1]
        BY <2>1, <2>3, <3>1, <3>3 DEF PayloadKept
      <3>6. deb112[f] \in Debs /\ deb[p] \in Debs
        BY <2>1, <3>1 DEF DirsOK
      <3>7. [deb[p] EXCEPT !.ctl.ver = "new"] = [deb[p] EXCEPT !.ctl = t]
        BY <2>3, <3>6 DEF Debs
      <3> HIDE DEF t
      <3>8. deb112[f] = [deb[p] EXCEPT !.ctl = t]
        BY <2>3, <3>3, <3>4, <3>5, <3>6 DEF Debs
      <3>9. QED
        BY <3>7, <3>8
    <2>5. QED
      BY <2>3, <2>4
  <1>2. QED
    BY <1>1, Invariance, WorkInvariance, PTL DEF WorkInv
=============================================================================
