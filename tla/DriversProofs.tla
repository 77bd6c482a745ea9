--------------------------- MODULE DriversProofs ---------------------------
(***************************************************************************)
(* Theorems about container drivers that run in one checkout, for any      *)
(* drivers, packages and bounds.                                           *)
(***************************************************************************)
EXTENDS Drivers, TLAPS

----------------------------------------------------------------------------
(***************************************************************************)
(* The inductive invariants.                                               *)
(***************************************************************************)
\* The loops over hwe-11.2 visit its packages, and there are always trees.
TypeInv ==
    /\ TypeOK
    /\ \A d \in Driver : pc[d] \in In112 \cup {"cp112"} => todo[d] \subseteq HwePkgs
    /\ \A p \in Pkgs : tree[p].there

\* A driver that packs has in its tmpdir what it is going to write.
Carrying(d) == pc[d] \in {"rm", "ar", "arw", "rm112", "ar112", "arw112"}

\* Without edits all trees are the same, so that no two drivers write different
\* files, and a driver gives up a base file only where another one writes it.
KeptInv == kills = 0 /\ edits = 0 =>
    /\ \A p \in Pkgs : tree[p].gen = 0
    /\ \A p \in HwePkgs : tree112[p].gen = 0
    /\ clash = {}
    /\ \A d \in Driver : Carrying(d) => hold[d] = Whole(0)
    /\ \A p \in Pkgs : p[2] = "base" =>
          \/ deb[p].st = "whole"
          \/ \E d \in Driver : pc[d] \in {"ar", "arw"} /\ cur[d] = p

\* A file that is unfinished, or a base file that is missing, and that nobody
\* is about to write: nothing will ever mend it.
Broken == \E p \in Pkgs :
    /\ deb[p].st = "torn" \/ (p[2] = "base" /\ deb[p].st = "absent")
    /\ \A d \in Driver : pc[d] \in {"rm", "ar", "arw"} => cur[d] # p

\* The top-level file, or the one of hwe-11.2, is the present tree packed.
Done(p)    == deb[p] = Whole(tree[p].gen)
Done112(p) == deb112[p] = Whole(tree[p].gen)

\* How far a driver that is alone has come.
Phase(d) ==
    /\ pc[d] \in {"pack", "rm", "ar", "arw"} => \A p \in Pkgs \ todo[d] : Done(p)
    /\ Carrying(d) => cur[d] \in todo[d] /\ hold[d] = Whole(tree[cur[d]].gen)
    /\ pc[d] \in In112 \cup {"cp112", "find", "cp"} => \A p \in Pkgs : Done(p)
    /\ pc[d] = "gen112" => \A p \in HwePkgs \ todo[d] : tree112[p] = tree[p]
    /\ pc[d] \in {"pack112", "rm112", "ar112", "arw112"} =>
          /\ \A p \in HwePkgs : tree112[p] = tree[p]
          /\ \A p \in HwePkgs \ todo[d] : Done112(p)
    /\ pc[d] = "cp112" =>
          /\ \A p \in HwePkgs : Done112(p)
          /\ \A p \in HwePkgs \ todo[d] : staged[d].old[p] = Whole(tree[p].gen)
    /\ pc[d] \in {"find", "cp", "run"} =>
          \A p \in HwePkgs : staged[d].old[p] = Whole(tree[p].gen)
    /\ pc[d] = "cp" => \A p \in Pkgs \ todo[d] : staged[d].top[p] = Whole(tree[p].gen)
    /\ pc[d] = "run" => \A p \in Pkgs : staged[d].top[p] = Whole(tree[p].gen)

\* A driver that met no other: unless it found the files beyond repair, all the
\* stages behind it are done.
AloneInv == \A d \in alone :
    /\ Active(d) => \A e \in Driver \ {d} : ~ Active(e)
    /\ Writing(d) => d \notin clash
    /\ Broken \/ Phase(d)

\* The inductive invariant as a whole.
DriversInv == TypeInv /\ KeptInv /\ AloneInv

----------------------------------------------------------------------------
(***************************************************************************)
(* Types.                                                                  *)
(***************************************************************************)
\* The values that the drivers write are files, trees and directories.
LEMMA ValuesTyped ==
    /\ NoDeb \in Debs /\ TornDeb \in Debs /\ \A n \in 0..MaxEdits : Whole(n) \in Debs
    /\ NoTree \in Trees /\ \A n \in 0..MaxEdits : Tree(n) \in Trees /\ Tree(n).there
    /\ Nothing \in Staging /\ HwePkgs \subseteq Pkgs
    /\ \A p \in Pkgs : Base(p) \in Pkgs
  <1>1. /\ NoDeb \in Debs /\ TornDeb \in Debs
        /\ \A n \in 0..MaxEdits : Whole(n) \in Debs
    BY DriversAssumption DEF NoDeb, TornDeb, Whole, Debs
  <1>2. NoTree \in Trees /\ \A n \in 0..MaxEdits : Tree(n) \in Trees /\ Tree(n).there
    BY DriversAssumption DEF NoTree, Tree, Trees
  <1>3. Nothing \in Staging
    BY <1>1 DEF Nothing, Staging
  <1>4. HwePkgs \subseteq Pkgs /\ \A p \in Pkgs : Base(p) \in Pkgs
    BY DEF HwePkgs, Pkgs, Base
  <1>5. QED
    BY <1>1, <1>2, <1>3, <1>4

\* A staging directory with one more file.
LEMMA StagedTop ==
    ASSUME NEW S \in [Driver -> Staging], NEW d \in Driver, NEW p \in Pkgs, NEW x \in Debs
    PROVE  /\ [S EXCEPT ![d].top[p] = x] \in [Driver -> Staging]
           /\ [S EXCEPT ![d].top[p] = x][d].old = S[d].old
           /\ [S EXCEPT ![d].top[p] = x][d].top = [S[d].top EXCEPT ![p] = x]
           /\ \A e \in Driver \ {d} : [S EXCEPT ![d].top[p] = x][e] = S[e]
  BY DEF Staging

\* The same for a file of hwe-11.2.
LEMMA StagedOld ==
    ASSUME NEW S \in [Driver -> Staging], NEW d \in Driver, NEW p \in HwePkgs,
           NEW x \in Debs
    PROVE  /\ [S EXCEPT ![d].old[p] = x] \in [Driver -> Staging]
           /\ [S EXCEPT ![d].old[p] = x][d].top = S[d].top
           /\ [S EXCEPT ![d].old[p] = x][d].old = [S[d].old EXCEPT ![p] = x]
           /\ \A e \in Driver \ {d} : [S EXCEPT ![d].old[p] = x][e] = S[e]
  BY DEF Staging

\* Initially nothing runs and all trees are there.
LEMMA InitTyped == Init => TypeInv
  <1> SUFFICES ASSUME Init PROVE TypeInv
    OBVIOUS
  <1>1. \E p \in HwePkgs : TRUE
    <2>1. PICK s : s \in Stems
      BY DriversAssumption
    <2>2. <<s, "hwe">> \in HwePkgs
      BY <2>1 DEF HwePkgs
    <2>3. QED
      BY <2>2
  <1>2. cur \in [Driver -> Pkgs]
    <2>1. (CHOOSE p \in HwePkgs : TRUE) \in Pkgs
      BY <1>1, ValuesTyped
    <2>2. QED
      BY <2>1 DEF Init
  <1>3. 0 \in 0..MaxEdits /\ 0 \in 0..MaxStarts /\ 0 \in 0..MaxKills
    BY DriversAssumption
  <1>4. /\ deb \in [Pkgs -> Debs] /\ deb112 \in [HwePkgs -> Debs]
        /\ tree \in [Pkgs -> Trees] /\ tree112 \in [HwePkgs -> Trees]
        /\ \A p \in Pkgs : tree[p].there
    BY <1>3, ValuesTyped DEF Init
  <1>5. /\ pc \in [Driver -> Labels] /\ todo \in [Driver -> SUBSET Pkgs]
        /\ hold \in [Driver -> Debs] /\ staged \in [Driver -> Staging]
        /\ \A d \in Driver : todo[d] = {}
    BY ValuesTyped DEF Init, Labels, Over
  <1>6. QED
    BY <1>2, <1>3, <1>4, <1>5 DEF Init, TypeInv, TypeOK

\* A step that changes the directories, the label and the loop of one driver.
LEMMA StepTyped ==
    ASSUME TypeInv, NEW d \in Driver, NEW l \in Labels, Go(d, l), NEW T \in SUBSET Pkgs,
           todo' = [todo EXCEPT ![d] = T],
           l \in In112 \cup {"cp112"} => T \subseteq HwePkgs,
           deb' \in [Pkgs -> Debs], deb112' \in [HwePkgs -> Debs],
           tree112' \in [HwePkgs -> Trees], tree' = tree,
           cur' \in [Driver -> Pkgs], hold' \in [Driver -> Debs],
           staged' \in [Driver -> Staging], clash' \in SUBSET Driver,
           alone' \in SUBSET Driver,
           starts' \in 0..MaxStarts, edits' \in 0..MaxEdits, kills' \in 0..MaxKills
    PROVE  TypeInv'
  <1>1. pc' \in [Driver -> Labels] /\ todo' \in [Driver -> SUBSET Pkgs]
    BY DEF TypeInv, TypeOK, Go
  <1>2. ASSUME NEW e \in Driver, pc'[e] \in In112 \cup {"cp112"}
        PROVE  todo'[e] \subseteq HwePkgs
    <2>1. CASE e = d
      BY <1>2, <2>1 DEF TypeInv, TypeOK, Go
    <2>2. CASE e # d
      BY <1>2, <2>2 DEF TypeInv, TypeOK, Go
    <2>3. QED
      BY <2>1, <2>2
  <1>3. TypeOK'
    BY <1>1 DEF TypeInv, TypeOK
  <1>4. QED
    BY <1>2, <1>3 DEF TypeInv

\* What a driver writes to its output file is typed if the file is.
LEMMA OutputTyped ==
    ASSUME TypeInv, NEW d \in Driver, NEW x \in Debs, Output(d, x)
    PROVE  deb' \in [Pkgs -> Debs] /\ deb112' \in [HwePkgs -> Debs]
  BY DEF TypeInv, TypeOK, Output

\* A new driver begins with the loop over all packages.
LEMMA StartTyped == ASSUME TypeInv, NEW d \in Driver, Start(d) PROVE TypeInv'
  <1>1. starts' \in 0..MaxStarts
    BY DriversAssumption DEF TypeInv, TypeOK, Start
  <1>2. staged' \in [Driver -> Staging]
    BY ValuesTyped DEF TypeInv, TypeOK, Start
  <1>3. alone' \in SUBSET Driver
    BY DEF TypeInv, TypeOK, Start, Joined
  <1>4. "pack" \in Labels /\ "pack" \notin In112 \cup {"cp112"}
    BY DEF Labels, In112
  <1>5. QED
    BY <1>1, <1>2, <1>3, <1>4, StepTyped DEF TypeInv, TypeOK, Start, dirVars

\* The loops over hwe-11.2 are filled with -hwe packages.
LEMMA NextLoopTyped == ASSUME TypeInv, NEW d \in Driver, NextLoop(d) PROVE TypeInv'
  <1> DEFINE l == After[pc[d]]
             T == IF l \in {"find", "run"} THEN {} ELSE HwePkgs
  <1>1. l \in Labels
    BY DEF NextLoop, After, Labels, In112, Over
  <1>2. Go(d, l) /\ todo' = [todo EXCEPT ![d] = T] /\ T \in SUBSET Pkgs
        /\ T \subseteq HwePkgs
    BY ValuesTyped DEF NextLoop
  <1> HIDE DEF l, T
  <1>3. QED
    BY <1>1, <1>2, StepTyped DEF TypeInv, TypeOK, NextLoop, dirVars, limitVars

\* A loop that goes on, or a package that is being packed.
LEMMA LoopTyped ==
    ASSUME TypeInv, NEW d \in Driver, NEW l \in Labels, Go(d, l) \/ (l = pc[d] /\ pc' = pc),
           l \in In112 \cup {"cp112"} => pc[d] \in In112 \cup {"cp112"},
           \/ todo' = todo
           \/ \E p : todo' = [todo EXCEPT ![d] = @ \ {p}],
           deb' \in [Pkgs -> Debs], deb112' \in [HwePkgs -> Debs],
           tree112' \in [HwePkgs -> Trees], tree' = tree,
           cur' \in [Driver -> Pkgs], hold' \in [Driver -> Debs],
           staged' \in [Driver -> Staging], clash' \in SUBSET Driver,
           UNCHANGED <<limitVars, alone>>
    PROVE  TypeInv'
  <1>1. Go(d, l)
    BY DEF TypeInv, TypeOK, Go
  <1>2. PICK T : todo' = [todo EXCEPT ![d] = T] /\ T \subseteq todo[d]
    <2>1. CASE todo' = todo
      BY <2>1 DEF TypeInv, TypeOK
    <2>2. CASE \E p : todo' = [todo EXCEPT ![d] = @ \ {p}]
      BY <2>2
    <2>3. QED
      BY <2>1, <2>2
  <1>3. T \in SUBSET Pkgs /\ (l \in In112 \cup {"cp112"} => T \subseteq HwePkgs)
    BY <1>2 DEF TypeInv, TypeOK
  <1>4. QED
    BY <1>1, <1>2, <1>3, StepTyped DEF TypeInv, TypeOK, limitVars

\* The exit of set -e removes the driver's staging directory.
LEMMA FailedTyped ==
    ASSUME TypeInv, NEW d \in Driver, Failed(d),
           UNCHANGED <<dirVars, cur, hold, clash, limitVars, alone>>
    PROVE  TypeInv'
  <1>1. "failed" \in Labels /\ "failed" \notin In112 \cup {"cp112"}
    BY DEF Labels, In112, Over
  <1>2. staged' \in [Driver -> Staging]
    BY ValuesTyped DEF TypeInv, TypeOK, Failed
  <1>3. Go(d, "failed") /\ todo' = [todo EXCEPT ![d] = {}] /\ {} \in SUBSET Pkgs
    BY DEF Failed
  <1>4. QED
    BY <1>1, <1>2, <1>3, StepTyped DEF TypeInv, TypeOK, dirVars, limitVars

\* The tmpdir gets a whole file.
LEMMA PackBeginTyped == ASSUME TypeInv, NEW d \in Driver, PackBegin(d) PROVE TypeInv'
  <1>1. PICK p \in todo[d] :
          /\ cur' = [cur EXCEPT ![d] = p]
          /\ hold' = [hold EXCEPT ![d] = Whole(ControlDir(d, p).gen)]
    BY DEF PackBegin
  <1>2. p \in Pkgs /\ ControlDir(d, p).gen \in 0..MaxEdits
    <2>1. Top(d) => ControlDir(d, p) = tree[p]
      BY DEF ControlDir
    <2>2. ~ Top(d) => ControlDir(d, p) = tree112[p] /\ pc[d] = "pack112"
      BY DEF ControlDir, Top, PackBegin, Packing
    <2>3. p \in Pkgs /\ (~ Top(d) => p \in HwePkgs)
      BY <2>2 DEF TypeInv, TypeOK, In112
    <2>4. QED
      BY <2>1, <2>2, <2>3 DEF TypeInv, TypeOK, Trees
  <1>3. cur' \in [Driver -> Pkgs] /\ hold' \in [Driver -> Debs]
    BY <1>1, <1>2, ValuesTyped DEF TypeInv, TypeOK
  <1> DEFINE l == IF Top(d) THEN "rm" ELSE "rm112"
  <1>4. /\ l \in Labels /\ Go(d, l)
        /\ l \in In112 \cup {"cp112"} => pc[d] \in In112 \cup {"cp112"}
    BY DEF PackBegin, Packing, Top, Labels, In112
  <1> HIDE DEF l
  <1>5. QED
    BY <1>3, <1>4, LoopTyped DEF TypeInv, TypeOK, PackBegin, dirVars

\* A package without a source is passed over.
LEMMA PackSkipTyped == ASSUME TypeInv, NEW d \in Driver, PackSkip(d) PROVE TypeInv'
  <1>1. pc[d] \in Labels
    BY DEF TypeInv, TypeOK
  <1>2. \E p : todo' = [todo EXCEPT ![d] = @ \ {p}]
    BY DEF PackSkip
  <1>3. QED
    BY <1>1, <1>2, LoopTyped DEF TypeInv, TypeOK, PackSkip, dirVars

\* rm -f of the old file.
LEMMA RemoveTyped == ASSUME TypeInv, NEW d \in Driver, Remove(d) PROVE TypeInv'
  <1> DEFINE l == IF Top(d) THEN "ar" ELSE "ar112"
  <1>1. /\ l \in Labels /\ Go(d, l)
        /\ l \in In112 \cup {"cp112"} => pc[d] \in In112 \cup {"cp112"}
    BY DEF Remove, Top, Labels, In112
  <1>2. deb' \in [Pkgs -> Debs] /\ deb112' \in [HwePkgs -> Debs]
    BY OutputTyped, ValuesTyped DEF Remove
  <1> HIDE DEF l
  <1>3. QED
    BY <1>1, <1>2, LoopTyped DEF TypeInv, TypeOK, Remove

\* ar has created its file.
LEMMA ArOpenTyped == ASSUME TypeInv, NEW d \in Driver, ArOpen(d) PROVE TypeInv'
  <1> DEFINE l == IF Top(d) THEN "arw" ELSE "arw112"
  <1>1. /\ l \in Labels /\ Go(d, l)
        /\ l \in In112 \cup {"cp112"} => pc[d] \in In112 \cup {"cp112"}
    BY DEF ArOpen, Top, Labels, In112
  <1>2. deb' \in [Pkgs -> Debs] /\ deb112' \in [HwePkgs -> Debs]
    BY OutputTyped, ValuesTyped DEF ArOpen
  <1>3. clash' \in SUBSET Driver
    BY DEF ArOpen, TypeInv, TypeOK
  <1> HIDE DEF l
  <1>4. QED
    BY <1>1, <1>2, <1>3, LoopTyped DEF TypeInv, TypeOK, ArOpen

\* Whatever the outcome of two writers, it is a file.
LEMMA ArCloseTyped == ASSUME TypeInv, NEW d \in Driver, ArClose(d) PROVE TypeInv'
  <1> DEFINE l == IF Top(d) THEN "pack" ELSE "pack112"
  <1>1. /\ l \in Labels /\ Go(d, l)
        /\ l \in In112 \cup {"cp112"} => pc[d] \in In112 \cup {"cp112"}
    BY DEF ArClose, Writing, Top, Labels, In112
  <1>2. deb' \in [Pkgs -> Debs] /\ deb112' \in [HwePkgs -> Debs]
    <2>1. hold[d] \in Debs
      BY DEF TypeInv, TypeOK
    <2>2. Output(d, hold[d]) \/ Output(d, TornDeb)
      BY DEF ArClose
    <2>3. QED
      BY <2>1, <2>2, OutputTyped, ValuesTyped
  <1>3. clash' \in SUBSET Driver
    BY DEF ArClose, Rivals, TypeInv, TypeOK
  <1>4. \E p : todo' = [todo EXCEPT ![d] = @ \ {p}]
    BY DEF ArClose
  <1> HIDE DEF l
  <1>5. QED
    BY <1>1, <1>2, <1>3, <1>4, LoopTyped DEF TypeInv, TypeOK, ArClose

\* The files and trees of hwe-11.2 are removed.
LEMMA CleanTyped == ASSUME TypeInv, NEW d \in Driver, Clean(d) PROVE TypeInv'
  <1>1. PICK p \in todo[d] : /\ tree112' = [tree112 EXCEPT ![p] = NoTree]
                             /\ deb112' = [deb112 EXCEPT ![p] = NoDeb]
                             /\ todo' = [todo EXCEPT ![d] = @ \ {p}]
    BY DEF Clean
  <1>2. tree112' \in [HwePkgs -> Trees] /\ deb112' \in [HwePkgs -> Debs]
    BY <1>1, ValuesTyped DEF TypeInv, TypeOK
  <1>3. pc[d] \in Labels /\ \E q : todo' = [todo EXCEPT ![d] = @ \ {q}]
    BY <1>1 DEF TypeInv, TypeOK
  <1>4. QED
    BY <1>2, <1>3, LoopTyped DEF TypeInv, TypeOK, Clean

\* A tree is copied to hwe-11.2.
LEMMA GenerateTyped == ASSUME TypeInv, NEW d \in Driver, Generate(d) PROVE TypeInv'
  <1>1. pc[d] \in Labels /\ \E p : todo' = [todo EXCEPT ![d] = @ \ {p}]
    BY DEF TypeInv, TypeOK, Generate
  <1>2. tree112' \in [HwePkgs -> Trees]
    BY DEF TypeInv, TypeOK, Generate
  <1>3. QED
    BY <1>1, <1>2, LoopTyped DEF TypeInv, TypeOK, Generate

\* A file of hwe-11.2 is copied to the staging directory.
LEMMA Stage112Typed == ASSUME TypeInv, NEW d \in Driver, Stage112(d) PROVE TypeInv'
  <1>1. PICK p \in todo[d] : /\ staged' = [staged EXCEPT ![d].old[p] = deb112[p]]
                             /\ todo' = [todo EXCEPT ![d] = @ \ {p}]
    BY DEF Stage112
  <1>2. p \in HwePkgs /\ deb112[p] \in Debs
    BY DEF TypeInv, TypeOK, Stage112
  <1>3. staged' \in [Driver -> Staging]
    BY <1>1, <1>2, StagedOld DEF TypeInv, TypeOK
  <1>4. pc[d] \in Labels /\ \E q : todo' = [todo EXCEPT ![d] = @ \ {q}]
    BY <1>1 DEF TypeInv, TypeOK
  <1>5. QED
    BY <1>3, <1>4, LoopTyped DEF TypeInv, TypeOK, Stage112, dirVars

\* find lists top-level files only.
LEMMA FindTyped == ASSUME TypeInv, NEW d \in Driver, Find(d) PROVE TypeInv'
  <1> DEFINE T == {p \in Pkgs : deb[p].st # "absent"}
  <1>1. Go(d, "cp") /\ "cp" \in Labels /\ "cp" \notin In112 \cup {"cp112"}
    BY DEF Find, Labels, In112
  <1>2. T \in SUBSET Pkgs /\ todo' = [todo EXCEPT ![d] = T]
    BY DEF Find
  <1> HIDE DEF T
  <1>3. QED
    BY <1>1, <1>2, StepTyped DEF TypeInv, TypeOK, Find, dirVars, limitVars

\* A top-level file is copied, or has gone and the driver fails.
LEMMA StageTyped == ASSUME TypeInv, NEW d \in Driver, Stage(d) PROVE TypeInv'
  <1>1. CASE Failed(d)
    BY <1>1, FailedTyped DEF Stage
  <1>2. ASSUME NEW p \in todo[d], staged' = [staged EXCEPT ![d].top[p] = deb[p]],
               todo' = [todo EXCEPT ![d] = @ \ {p}], UNCHANGED pc
        PROVE  TypeInv'
    <2>1. p \in Pkgs /\ deb[p] \in Debs
      BY <1>2 DEF TypeInv, TypeOK
    <2>2. staged' \in [Driver -> Staging]
      BY <1>2, <2>1, StagedTop DEF TypeInv, TypeOK
    <2>3. pc[d] \in Labels /\ \E q : todo' = [todo EXCEPT ![d] = @ \ {q}]
      BY <1>2 DEF TypeInv, TypeOK
    <2>4. QED
      BY <1>2, <2>2, <2>3, LoopTyped DEF TypeInv, TypeOK, Stage, dirVars
  <1>3. QED
    BY <1>1, <1>2 DEF Stage

\* An edit leaves the trees where they are.
LEMMA EditTyped == ASSUME TypeInv, Edit PROVE TypeInv'
  <1>1. edits' \in 0..MaxEdits
    BY DriversAssumption DEF Edit, TypeInv, TypeOK
  <1>2. tree' \in [Pkgs -> Trees] /\ \A p \in Pkgs : tree'[p].there
    BY <1>1, ValuesTyped DEF Edit, TypeInv, TypeOK
  <1>3. QED
    BY <1>1, <1>2 DEF Edit, TypeInv, TypeOK, runVars

\* A kill leaves the directories as they are.
LEMMA KillTyped == ASSUME TypeInv, NEW d \in Driver, Kill(d) PROVE TypeInv'
  <1>1. kills' \in 0..MaxKills
    BY DriversAssumption DEF Kill, TypeInv, TypeOK
  <1>2. clash' \in SUBSET Driver
    BY DEF Kill, TypeInv, TypeOK, Rivals
  <1>3. Go(d, "killed") /\ "killed" \in Labels /\ "killed" \notin In112 \cup {"cp112"}
    BY DEF Kill, Labels, Over, In112
  <1>4. todo' = [todo EXCEPT ![d] = {}] /\ {} \in SUBSET Pkgs
    BY DEF Kill
  <1>5. QED
    BY <1>1, <1>2, <1>3, <1>4, StepTyped DEF TypeInv, TypeOK, Kill, dirVars

\* Every step keeps the types.
LEMMA NextTyped == TypeInv /\ [Next]_vars => TypeInv'
  <1> SUFFICES ASSUME TypeInv, [Next]_vars PROVE TypeInv'
    OBVIOUS
  <1>1. CASE UNCHANGED vars
    BY <1>1 DEF vars, dirVars, runVars, limitVars, TypeInv, TypeOK
  <1>2. ASSUME NEW d \in Driver, Step(d) PROVE TypeInv'
    <2>1. CASE PackFail(d) \/ ArFail(d) \/ Fail112(d)
      BY <2>1, FailedTyped DEF PackFail, ArFail, Fail112
    <2>2. QED
      BY <1>2, <2>1, NextLoopTyped, PackBeginTyped, PackSkipTyped, RemoveTyped,
         ArOpenTyped, ArCloseTyped, CleanTyped, GenerateTyped, Stage112Typed,
         FindTyped, StageTyped DEF Step
  <1>3. QED
    BY <1>1, <1>2, StartTyped, KillTyped, EditTyped DEF Next

\* The directories and the variables of all drivers keep their types.
THEOREM TypeCorrect == Spec => []TypeOK
  <1>1. Spec => []TypeInv
    BY InitTyped, NextTyped, PTL DEF Spec
  <1>2. TypeInv => TypeOK
    BY DEF TypeInv
  <1>3. QED
    BY <1>1, <1>2, PTL

----------------------------------------------------------------------------
(***************************************************************************)
(* The sources are kept.                                                   *)
(***************************************************************************)
\* The label of one driver changes.
LEMMA Went ==
    ASSUME TypeInv, NEW d \in Driver, NEW l, Go(d, l)
    PROVE  pc'[d] = l /\ \A e \in Driver \ {d} : pc'[e] = pc[e]
  BY DEF TypeInv, TypeOK, Go

\* Initially every base file is whole.
LEMMA InitKept == Init => KeptInv
  <1> SUFFICES ASSUME Init PROVE KeptInv
    OBVIOUS
  <1>1. /\ \A p \in Pkgs : tree[p] = Tree(0)
        /\ \A p \in HwePkgs : tree112[p] = NoTree
        /\ \A d \in Driver : pc[d] = "new"
        /\ \A p \in Pkgs : p[2] = "base" => deb[p] = Whole(0)
        /\ clash = {}
    BY DEF Init
  <1>2. QED
    BY <1>1 DEF KeptInv, Carrying, Tree, NoTree, Whole

\* A step of d that leaves the sources, the trees of extracted/ and what is
\* being packed alone, and gives up no file.
LEMMA KeptFrame ==
    ASSUME TypeInv, KeptInv, NEW d \in Driver,
           UNCHANGED <<deb, tree, cur, hold, clash, kills, edits>>,
           \A p \in HwePkgs : tree112'[p] = tree112[p] \/ tree112'[p].gen = 0
                              \/ tree112'[p] = tree[p],
           \A e \in Driver \ {d} : pc'[e] = pc[e],
           pc[d] \notin {"ar", "arw"}, ~ Carrying(d)'
    PROVE  KeptInv'
  <1> SUFFICES ASSUME kills = 0, edits = 0 PROVE KeptInv'
    BY DEF KeptInv
  <1>1. \A p \in HwePkgs : tree112'[p].gen = 0
    BY ValuesTyped DEF KeptInv
  <1>2. \A e \in Driver : Carrying(e)' => hold'[e] = Whole(0)
    BY DEF KeptInv, Carrying
  <1>3. QED
    BY <1>1, <1>2 DEF KeptInv

\* An output file changes.
LEMMA OutputFile ==
    ASSUME TypeInv, NEW d \in Driver, NEW x, Output(d, x)
    PROVE  /\ \A p \in Pkgs : deb'[p] = IF Top(d) /\ p = cur[d] THEN x ELSE deb[p]
           /\ \A p \in HwePkgs :
                 deb112'[p] = IF ~ Top(d) /\ p = cur[d] THEN x ELSE deb112[p]
  BY DEF Output, TypeInv, TypeOK

\* What is gathered without edits is the one tree there is.
LEMMA PackBeginKept ==
    ASSUME TypeInv, KeptInv, NEW d \in Driver, PackBegin(d) PROVE KeptInv'
  <1> SUFFICES ASSUME kills = 0, edits = 0 PROVE KeptInv'
    BY DEF KeptInv, PackBegin, limitVars
  <1>1. PICK p \in todo[d] :
          /\ cur' = [cur EXCEPT ![d] = p]
          /\ hold' = [hold EXCEPT ![d] = Whole(ControlDir(d, p).gen)]
    BY DEF PackBegin
  <1>2. ControlDir(d, p).gen = 0
    <2>1. p \in Pkgs /\ (~ Top(d) => p \in HwePkgs)
      BY DEF TypeInv, TypeOK, Top, PackBegin, Packing, In112
    <2>2. QED
      BY <2>1 DEF ControlDir, KeptInv
  <1>3. /\ pc'[d] \in {"rm", "rm112"} /\ pc[d] \in {"pack", "pack112"}
        /\ \A e \in Driver \ {d} : pc'[e] = pc[e]
    BY Went DEF PackBegin, Packing
  <1>4. /\ hold'[d] = Whole(0)
        /\ \A e \in Driver \ {d} : hold'[e] = hold[e] /\ cur'[e] = cur[e]
    BY <1>1, <1>2 DEF TypeInv, TypeOK
  <1>5. UNCHANGED <<deb, tree, tree112, clash>>
    BY DEF PackBegin, dirVars
  <1>6. \A e \in Driver : Carrying(e)' => hold'[e] = Whole(0)
    BY <1>3, <1>4 DEF KeptInv, Carrying
  <1>7. \A q \in Pkgs : q[2] = "base" =>
            deb'[q].st = "whole" \/ \E e \in Driver : pc'[e] \in {"ar", "arw"} /\ cur'[e] = q
    BY <1>3, <1>4, <1>5 DEF KeptInv
  <1>8. QED
    BY <1>5, <1>6, <1>7 DEF KeptInv

\* d goes from one label of pack_deb to the next.
LEMMA CarriedKept ==
    ASSUME TypeInv, KeptInv, NEW d \in Driver, Carrying(d), UNCHANGED <<tree, tree112, cur, hold>>,
           clash' \subseteq clash,
           \A e \in Driver \ {d} : pc'[e] = pc[e],
           \A p \in Pkgs : p = cur[d] \/ deb'[p] = deb[p],
           \/ cur[d] \in Pkgs /\ deb'[cur[d]] = deb[cur[d]] /\ ~ Top(d)
           \/ deb'[cur[d]] = Whole(0)
           \/ pc'[d] \in {"ar", "arw"},
           UNCHANGED <<kills, edits>>
    PROVE  KeptInv'
  <1> SUFFICES ASSUME kills = 0, edits = 0 PROVE KeptInv'
    BY DEF KeptInv
  <1>1. hold[d] = Whole(0) /\ clash' = {}
    BY DEF KeptInv
  <1>2. \A e \in Driver : Carrying(e)' => hold'[e] = Whole(0)
    BY <1>1 DEF KeptInv, Carrying
  <1>3. ASSUME NEW p \in Pkgs, p[2] = "base"
        PROVE  \/ deb'[p].st = "whole"
               \/ \E e \in Driver : pc'[e] \in {"ar", "arw"} /\ cur'[e] = p
    <2>1. Whole(0).st = "whole"
      BY DEF Whole
    <2>2. deb[p].st = "whole" \/ \E e \in Driver : pc[e] \in {"ar", "arw"} /\ cur[e] = p
      BY <1>3 DEF KeptInv
    <2>3. CASE p # cur[d]
      BY <2>2, <2>3
    <2>4. CASE p = cur[d]
      BY <2>1, <2>2, <2>4 DEF Top
    <2>5. QED
      BY <2>3, <2>4
  <1>4. QED
    BY <1>1, <1>2, <1>3 DEF KeptInv

\* The driver that removes a file is the one that writes it next.
LEMMA RemoveKept == ASSUME TypeInv, KeptInv, NEW d \in Driver, Remove(d) PROVE KeptInv'
  <1>1. Carrying(d) /\ pc'[d] = IF Top(d) THEN "ar" ELSE "ar112"
    BY Went DEF Remove, Carrying
  <1>2. \A e \in Driver \ {d} : pc'[e] = pc[e]
    BY Went DEF Remove
  <1>3. \A p \in Pkgs : deb'[p] = IF Top(d) /\ p = cur[d] THEN NoDeb ELSE deb[p]
    BY OutputFile DEF Remove
  <1>4. cur[d] \in Pkgs
    BY DEF TypeInv, TypeOK
  <1>5. QED
    BY <1>1, <1>2, <1>3, <1>4, CarriedKept DEF Remove, limitVars

\* The file is partial, but its writer is at work.
LEMMA ArOpenKept == ASSUME TypeInv, KeptInv, NEW d \in Driver, ArOpen(d) PROVE KeptInv'
  <1>1. Carrying(d) /\ pc'[d] = IF Top(d) THEN "arw" ELSE "arw112"
    BY Went DEF ArOpen, Carrying
  <1>2. \A e \in Driver \ {d} : pc'[e] = pc[e]
    BY Went DEF ArOpen
  <1>3. \A p \in Pkgs : deb'[p] = IF Top(d) /\ p = cur[d] THEN TornDeb ELSE deb[p]
    BY OutputFile DEF ArOpen
  <1>4. cur[d] \in Pkgs
    BY DEF TypeInv, TypeOK
  <1>5. QED
    BY <1>1, <1>2, <1>3, <1>4, CarriedKept DEF ArOpen, limitVars

\* The file is whole again; other writers of it are still at work.
LEMMA ArCloseKept == ASSUME TypeInv, KeptInv, NEW d \in Driver, ArClose(d) PROVE KeptInv'
  <1> SUFFICES ASSUME kills = 0, edits = 0 PROVE KeptInv'
    BY DEF KeptInv, ArClose, limitVars
  <1>1. Carrying(d) /\ hold[d] = Whole(0) /\ clash = {}
    BY DEF ArClose, Writing, Carrying, KeptInv
  <1>2. {e \in Rivals(d, {"arw", "arw112"}) : hold[e] # hold[d]} = {}
    BY <1>1 DEF Rivals, KeptInv, Carrying
  <1>3. Output(d, Whole(0)) /\ clash' = {}
    BY <1>1, <1>2 DEF ArClose
  <1>4. \A e \in Driver \ {d} : pc'[e] = pc[e]
    BY Went DEF ArClose
  <1>5. \A p \in Pkgs : deb'[p] = IF Top(d) /\ p = cur[d] THEN Whole(0) ELSE deb[p]
    BY <1>3, OutputFile
  <1>6. cur[d] \in Pkgs
    BY DEF TypeInv, TypeOK
  <1>7. QED
    BY <1>1, <1>3, <1>4, <1>5, <1>6, CarriedKept DEF ArClose, limitVars

\* ar gives up only where another driver writes the same file.
LEMMA ArFailKept == ASSUME TypeInv, KeptInv, NEW d \in Driver, ArFail(d) PROVE KeptInv'
  <1> SUFFICES ASSUME kills = 0, edits = 0 PROVE KeptInv'
    BY DEF KeptInv, ArFail, limitVars
  <1>1. pc'[d] = "failed" /\ \A e \in Driver \ {d} : pc'[e] = pc[e]
    BY Went DEF ArFail, Failed
  <1>2. UNCHANGED <<deb, tree, tree112, cur, hold, clash>> /\ pc[d] \in {"ar", "ar112"}
    BY DEF ArFail, dirVars
  <1>3. pc[d] = "ar" => \E e \in Driver \ {d} : pc[e] = "arw" /\ cur[e] = cur[d]
    BY DEF ArFail, Rivals, Top
  <1>4. \A e \in Driver : Carrying(e)' => hold'[e] = Whole(0)
    BY <1>1, <1>2 DEF KeptInv, Carrying
  <1>5. ASSUME NEW p \in Pkgs, p[2] = "base", deb[p].st # "whole"
        PROVE  \E e \in Driver : pc'[e] \in {"ar", "arw"} /\ cur'[e] = p
    <2>1. PICK e \in Driver : pc[e] \in {"ar", "arw"} /\ cur[e] = p
      BY <1>5 DEF KeptInv
    <2>2. CASE e # d
      BY <1>1, <1>2, <2>1, <2>2
    <2>3. CASE e = d
      BY <1>1, <1>2, <1>3, <2>1, <2>3
    <2>4. QED
      BY <2>2, <2>3
  <1>6. QED
    BY <1>2, <1>4, <1>5 DEF KeptInv

\* Every step keeps the sources.
LEMMA NextKept == TypeInv /\ KeptInv /\ [Next]_vars => KeptInv'
  <1> SUFFICES ASSUME TypeInv, KeptInv, [Next]_vars PROVE KeptInv'
    OBVIOUS
  <1>1. CASE UNCHANGED vars
    BY <1>1 DEF vars, dirVars, runVars, limitVars, KeptInv, Carrying
  <1>2. ASSUME NEW d \in Driver, Step(d) PROVE KeptInv'
    <2>1. CASE PackFail(d) \/ Fail112(d)
      <3>1. Failed(d) /\ pc[d] \notin {"ar", "arw"}
        BY <2>1 DEF PackFail, Fail112, Packing
      <3>2. UNCHANGED <<deb, tree, tree112, cur, hold, clash, kills, edits>>
        BY <2>1 DEF PackFail, Fail112, dirVars, limitVars
      <3>3. pc'[d] = "failed" /\ \A e \in Driver \ {d} : pc'[e] = pc[e]
        BY <3>1, Went DEF Failed
      <3>4. QED
        BY <3>1, <3>2, <3>3, KeptFrame DEF Carrying
    <2>2. CASE NextLoop(d)
      <3>1. /\ pc[d] \in {"pack", "clean", "gen112", "pack112", "cp112", "cp"}
            /\ pc'[d] \in {"clean", "gen112", "pack112", "cp112", "find", "run"}
            /\ \A e \in Driver \ {d} : pc'[e] = pc[e]
        BY <2>2, Went DEF NextLoop, After
      <3>2. UNCHANGED <<deb, tree, tree112, cur, hold, clash, kills, edits>>
        BY <2>2 DEF NextLoop, dirVars, limitVars
      <3>3. QED
        BY <3>1, <3>2, KeptFrame DEF Carrying
    <2>3. CASE PackSkip(d) \/ Stage112(d)
      BY <2>3, KeptFrame
      DEF PackSkip, Packing, Stage112, dirVars, limitVars, Carrying
    <2>4. CASE Clean(d)
      <3>1. \A p \in HwePkgs : tree112'[p] = tree112[p] \/ tree112'[p].gen = 0
        BY <2>4 DEF Clean, NoTree, TypeInv, TypeOK
      <3>2. QED
        BY <2>4, <3>1, KeptFrame DEF Clean, limitVars, Carrying
    <2>5. CASE Generate(d)
      <3>1. \A p \in HwePkgs : tree112'[p] = tree112[p] \/ tree112'[p] = tree[p]
        BY <2>5 DEF Generate, TypeInv, TypeOK
      <3>2. QED
        BY <2>5, <3>1, KeptFrame DEF Generate, limitVars, Carrying
    <2>6. CASE Find(d)
      <3>1. pc'[d] = "cp" /\ \A e \in Driver \ {d} : pc'[e] = pc[e]
        BY <2>6, Went DEF Find
      <3>2. QED
        BY <2>6, <3>1, KeptFrame DEF Find, dirVars, limitVars, Carrying
    <2>7. CASE Stage(d)
      <3>1. /\ pc[d] = "cp" /\ pc'[d] \in {"cp", "failed"}
            /\ \A e \in Driver \ {d} : pc'[e] = pc[e]
        BY <2>7, Went DEF Stage, Failed
      <3>2. QED
        BY <2>7, <3>1, KeptFrame DEF Stage, dirVars, limitVars, Carrying
    <2>8. QED
      BY <1>2, <2>1, <2>2, <2>3, <2>4, <2>5, <2>6, <2>7, PackBeginKept, RemoveKept,
         ArOpenKept, ArCloseKept, ArFailKept DEF Step
  <1>3. ASSUME NEW d \in Driver, Start(d) PROVE KeptInv'
    <2>1. /\ pc[d] \in Over /\ pc'[d] = "pack"
          /\ \A e \in Driver \ {d} : pc'[e] = pc[e]
      BY <1>3, Went DEF Start, Active
    <2>2. QED
      BY <1>3, <2>1, KeptFrame DEF Start, dirVars, Carrying, Over
  <1>4. ASSUME NEW d \in Driver, Kill(d) PROVE KeptInv'
    BY <1>4 DEF Kill, KeptInv, TypeInv, TypeOK
  <1>5. CASE Edit
    BY <1>5 DEF Edit, KeptInv, TypeInv, TypeOK
  <1>6. QED
    BY <1>1, <1>2, <1>3, <1>4, <1>5 DEF Next

\* However drivers interleave, they do not lose a base .deb file as long as none
\* is killed and no tree is edited.
THEOREM SourcesKeptHolds == Spec => []SourcesKept
  <1>1. Spec => [](TypeInv /\ KeptInv)
    BY InitTyped, NextTyped, InitKept, NextKept, PTL DEF Spec
  <1>2. KeptInv => SourcesKept
    <2>1. Whole(0).st = "whole"
      BY DEF Whole
    <2>2. QED
      BY <2>1 DEF KeptInv, SourcesKept, Carrying
  <1>3. QED
    BY <1>1, <1>2, PTL

----------------------------------------------------------------------------
(***************************************************************************)
(* A driver that is alone.                                                 *)
(***************************************************************************)
\* Nothing mends a broken file: no step of d writes it, and d does not begin to
\* pack it.
LEMMA BrokenStays ==
    ASSUME TypeInv, Broken, NEW d \in Driver,
           \A e \in Driver \ {d} : pc'[e] = pc[e] /\ cur'[e] = cur[e],
           \A p \in Pkgs : \/ deb'[p] = deb[p]
                           \/ pc[d] \in {"rm", "ar", "arw"} /\ cur[d] = p,
           pc'[d] \in {"rm", "ar", "arw"} =>
              \/ pc[d] \in {"rm", "ar", "arw"} /\ cur'[d] = cur[d]
              \/ resolve_source_deb(cur'[d]).st = "whole"
    PROVE  Broken'
  <1>1. PICK p \in Pkgs :
          /\ deb[p].st = "torn" \/ (p[2] = "base" /\ deb[p].st = "absent")
          /\ \A e \in Driver : pc[e] \in {"rm", "ar", "arw"} => cur[e] # p
    BY DEF Broken
  <1>2. deb'[p] = deb[p]
    BY <1>1
  <1>3. resolve_source_deb(p).st # "whole"
    <2>1. p[2] = "base" => Base(p) = p
      BY DEF Pkgs, Base
    <2>2. QED
      BY <1>1, <2>1 DEF resolve_source_deb
  <1>4. pc'[d] \in {"rm", "ar", "arw"} => cur'[d] # p
    BY <1>1, <1>3
  <1>5. QED
    BY <1>1, <1>2, <1>4 DEF Broken

\* What a driver that is alone finds.
LEMMA Lone ==
    ASSUME TypeInv, AloneInv, ~ Broken, NEW d \in alone, Active(d)
    PROVE  /\ d \in Driver /\ Phase(d)
           /\ Rivals(d, {"arw", "arw112"}) = {}
           /\ pc[d] \notin {"rm", "ar", "arw"} => \A p \in Pkgs :
                 /\ resolve_source_deb(p).st = "whole"
                 /\ ~ Disturbed(d, p)
  <1>1. d \in Driver /\ Phase(d) /\ \A e \in Driver \ {d} : ~ Active(e)
    BY DEF TypeInv, TypeOK, AloneInv
  <1>2. Rivals(d, {"arw", "arw112"}) = {}
    BY <1>1 DEF Rivals, Active, Over
  <1>3. ASSUME NEW p \in Pkgs, pc[d] \notin {"rm", "ar", "arw"}
        PROVE  resolve_source_deb(p).st = "whole"
    <2>1. \A q \in Pkgs : deb[q].st # "torn" /\ (q[2] = "base" => deb[q].st # "absent")
      BY <1>1, <1>3 DEF Broken, Active, Over
    <2>2. \A q \in Pkgs : deb[q].st \in {"absent", "torn", "whole"}
      BY DEF TypeInv, TypeOK, Debs
    <2>3. Base(p) \in Pkgs /\ Base(p)[2] = "base"
      BY DEF Base, Pkgs
    <2>4. QED
      BY <2>1, <2>2, <2>3 DEF resolve_source_deb
  <1>4. \A p \in Pkgs : ~ Disturbed(d, p)
    BY <1>1 DEF Disturbed, Active, Over, In112
  <1>5. QED
    BY <1>1, <1>2, <1>3, <1>4

\* A step of an active driver d keeps the invariant if it breaks no phase of
\* its own: if any other driver was alone, it has ended.
LEMMA AloneFrame ==
    ASSUME TypeInv, AloneInv, NEW d \in Driver, Active(d),
           \A e \in Driver \ {d} : pc'[e] = pc[e] /\ staged'[e] = staged[e],
           tree' = tree, alone' \subseteq alone, Broken => Broken',
           d \in alone /\ ~ Broken => Phase(d)',
           d \in alone /\ Writing(d)' => d \notin clash'
    PROVE  AloneInv'
  <1> SUFFICES ASSUME NEW a \in alone'
               PROVE  /\ Active(a)' => \A e \in Driver \ {a} : ~ Active(e)'
                      /\ Writing(a)' => a \notin clash'
                      /\ Broken' \/ Phase(a)'
    BY DEF AloneInv
  <1>1. a \in alone /\ a \in Driver
    BY DEF TypeInv, TypeOK
  <1>2. CASE a = d
    BY <1>1, <1>2 DEF AloneInv, Active
  <1>3. CASE a # d
    <2>1. pc[a] \in Over /\ pc'[a] = pc[a] /\ staged'[a] = staged[a]
      BY <1>1, <1>3 DEF AloneInv, Active
    <2>2. ~ Active(a)' /\ ~ Writing(a)'
      BY <2>1 DEF Active, Writing, Over
    <2>3. Phase(a) => Phase(a)'
      BY <2>1 DEF Phase, Carrying, Over, In112
    <2>4. QED
      BY <1>1, <2>2, <2>3 DEF AloneInv
  <1>4. QED
    BY <1>2, <1>3

\* A driver that fails.
LEMMA FailedAlone ==
    ASSUME TypeInv, AloneInv, NEW d \in Driver, Active(d), Failed(d),
           UNCHANGED <<dirVars, cur, hold, clash, limitVars, alone>>
    PROVE  AloneInv'
  <1>1. pc'[d] = "failed" /\ \A e \in Driver \ {d} : pc'[e] = pc[e]
    BY Went DEF Failed
  <1>2. \A e \in Driver \ {d} : staged'[e] = staged[e]
    BY DEF Failed, TypeInv, TypeOK
  <1>3. Broken => Broken'
    BY <1>1, BrokenStays DEF dirVars
  <1>4. Phase(d)' /\ ~ Writing(d)'
    BY <1>1 DEF Phase, Writing, Carrying, In112
  <1>5. QED
    BY <1>1, <1>2, <1>3, <1>4, AloneFrame DEF dirVars

\* A loop that ends has done all its packages: the next phase may begin.
LEMMA NextLoopAlone ==
    ASSUME TypeInv, AloneInv, NEW d \in Driver, NextLoop(d) PROVE AloneInv'
  <1>1. /\ pc[d] \in {"pack", "clean", "gen112", "pack112", "cp112", "cp"}
        /\ pc'[d] = After[pc[d]] /\ \A e \in Driver \ {d} : pc'[e] = pc[e]
    BY Went DEF NextLoop, After
  <1>2. Active(d) /\ ~ Writing(d)' /\ todo[d] = {}
        /\ UNCHANGED <<deb, deb112, tree, tree112, cur, hold, clash, staged, alone>>
    BY <1>1 DEF NextLoop, Active, Over, After, Writing, dirVars
  <1>3. Broken => Broken'
    BY <1>1, <1>2, BrokenStays DEF After
  <1>4. todo'[d] = IF After[pc[d]] \in {"find", "run"} THEN {} ELSE HwePkgs
    BY DEF NextLoop, TypeInv, TypeOK
  <1>5. ASSUME d \in alone, ~ Broken PROVE Phase(d)'
    <2>1. Phase(d)
      BY <1>2, <1>5, Lone
    <2>2. CASE pc[d] = "pack"
      BY <1>1, <1>2, <1>4, <2>1, <2>2 DEF Phase, After, Carrying, In112, Done, Done112
    <2>3. CASE pc[d] = "clean"
      BY <1>1, <1>2, <1>4, <2>1, <2>3 DEF Phase, After, Carrying, In112, Done, Done112
    <2>4. CASE pc[d] = "gen112"
      BY <1>1, <1>2, <1>4, <2>1, <2>4 DEF Phase, After, Carrying, In112, Done, Done112
    <2>5. CASE pc[d] = "pack112"
      BY <1>1, <1>2, <1>4, <2>1, <2>5 DEF Phase, After, Carrying, In112, Done, Done112
    <2>6. CASE pc[d] = "cp112"
      BY <1>1, <1>2, <1>4, <2>1, <2>6 DEF Phase, After, Carrying, In112, Done, Done112
    <2>7. CASE pc[d] = "cp"
      BY <1>1, <1>2, <1>4, <2>1, <2>7 DEF Phase, After, Carrying, In112, Done, Done112
    <2>8. QED
      BY <1>1, <2>2, <2>3, <2>4, <2>5, <2>6, <2>7
  <1>6. QED
    BY <1>1, <1>2, <1>3, <1>5, AloneFrame

\* A package without a whole source is beyond repair; otherwise the tmpdir
\* holds the present tree.
LEMMA PackBeginAlone ==
    ASSUME TypeInv, AloneInv, NEW d \in Driver, PackBegin(d) PROVE AloneInv'
  <1>1. PICK p \in todo[d] :
          /\ resolve_source_deb(p).st = "whole"
          /\ cur' = [cur EXCEPT ![d] = p]
          /\ hold' = [hold EXCEPT ![d] = Whole(ControlDir(d, p).gen)]
    BY DEF PackBegin
  <1>2. /\ pc'[d] = IF Top(d) THEN "rm" ELSE "rm112"
        /\ pc[d] \in {"pack", "pack112"} /\ \A e \in Driver \ {d} : pc'[e] = pc[e]
    BY Went DEF PackBegin, Packing
  <1>3. /\ cur'[d] = p /\ \A e \in Driver \ {d} : cur'[e] = cur[e]
        /\ hold'[d] = Whole(ControlDir(d, p).gen)
    BY <1>1 DEF TypeInv, TypeOK
  <1>4. /\ Active(d) /\ ~ Writing(d)'
        /\ UNCHANGED <<deb, deb112, tree, tree112, todo, clash, staged, alone>>
    BY <1>2 DEF PackBegin, Active, Over, Writing, dirVars
  <1>5. Broken => Broken'
    BY <1>1, <1>2, <1>3, <1>4, BrokenStays
  <1>6. ASSUME d \in alone, ~ Broken PROVE Phase(d)'
    <2>1. Phase(d)
      BY <1>4, <1>6, Lone
    <2>2. CASE pc[d] = "pack"
      <3>1. pc'[d] = "rm" /\ hold'[d] = Whole(tree[p].gen)
        BY <1>2, <1>3, <2>2 DEF Top, ControlDir
      <3>2. QED
        BY <1>3, <1>4, <2>1, <2>2, <3>1 DEF Phase, Carrying, In112, Done, Done112
    <2>3. CASE pc[d] = "pack112"
      <3>1. pc'[d] = "rm112" /\ hold'[d] = Whole(tree112[p].gen) /\ p \in HwePkgs
        BY <1>2, <1>3, <2>3 DEF Top, ControlDir, TypeInv, In112
      <3>2. tree112[p] = tree[p]
        BY <2>1, <2>3, <3>1 DEF Phase
      <3>3. QED
        BY <1>3, <1>4, <2>1, <2>3, <3>1, <3>2 DEF Phase, Carrying, In112, Done, Done112
    <2>4. QED
      BY <1>2, <2>2, <2>3
  <1>7. QED
    BY <1>2, <1>4, <1>5, <1>6, AloneFrame

\* A driver that is alone passes over no package.
LEMMA PackSkipAlone ==
    ASSUME TypeInv, AloneInv, NEW d \in Driver, PackSkip(d) PROVE AloneInv'
  <1>1. /\ Active(d) /\ pc[d] \in {"pack", "pack112"} /\ ~ Writing(d)'
        /\ UNCHANGED <<deb, deb112, tree, tree112, pc, cur, hold, clash, staged, alone>>
    BY DEF PackSkip, Packing, Active, Over, Writing, dirVars
  <1>2. Broken => Broken'
    BY <1>1, BrokenStays
  <1>3. ASSUME d \in alone, ~ Broken PROVE FALSE
    <2>1. PICK p \in todo[d] :
            ~ ControlDir(d, p).there \/ resolve_source_deb(p).st # "whole"
      BY DEF PackSkip
    <2>2. p \in Pkgs /\ (pc[d] = "pack112" => p \in HwePkgs)
      BY DEF TypeInv, TypeOK, In112
    <2>3. Phase(d) /\ resolve_source_deb(p).st = "whole"
      BY <1>1, <1>3, <2>2, Lone
    <2>4. ControlDir(d, p) = tree[p]
      BY <1>1, <2>2, <2>3 DEF ControlDir, Top, Phase
    <2>5. QED
      BY <2>1, <2>2, <2>3, <2>4 DEF TypeInv
  <1>4. QED
    BY <1>1, <1>2, <1>3, AloneFrame

\* d writes, or removes, its output file.
LEMMA OutputAlone ==
    ASSUME TypeInv, AloneInv, NEW d \in Driver, Carrying(d), NEW x, Output(d, x),
           \A e \in Driver \ {d} : pc'[e] = pc[e],
           UNCHANGED <<tree, tree112, cur, hold, staged, alone>>,
           \/ Top(d) /\ pc'[d] \in {"ar", "arw", "pack"}
           \/ ~ Top(d) /\ pc'[d] \in {"ar112", "arw112", "pack112"},
           \/ Carrying(d)' /\ todo' = todo
           \/ ~ Carrying(d)' /\ todo' = [todo EXCEPT ![d] = @ \ {cur[d]}]
              /\ (d \in alone /\ ~ Broken => x = hold[d]),
           d \in alone /\ Writing(d)' => d \notin clash'
    PROVE  AloneInv'
  <1>1. /\ \A p \in Pkgs : deb'[p] = IF Top(d) /\ p = cur[d] THEN x ELSE deb[p]
        /\ \A p \in HwePkgs :
              deb112'[p] = IF ~ Top(d) /\ p = cur[d] THEN x ELSE deb112[p]
    BY OutputFile
  <1>2. Active(d)
    BY DEF Carrying, Active, Over
  <1>3. Broken => Broken'
    <2>1. Top(d) => pc[d] \in {"rm", "ar", "arw"}
      BY DEF Top, Carrying
    <2>2. QED
      BY <1>1, <2>1, BrokenStays
  <1>4. ASSUME d \in alone, ~ Broken PROVE Phase(d)'
    <2>1. Phase(d) /\ cur[d] \in todo[d] /\ hold[d] = Whole(tree[cur[d]].gen)
      BY <1>2, <1>4, Lone DEF Phase
    <2>2. cur[d] \in Pkgs /\ todo[d] \subseteq Pkgs
      BY DEF TypeInv, TypeOK
    <2>3. \/ Carrying(d)' /\ todo'[d] = todo[d]
          \/ ~ Carrying(d)' /\ todo'[d] = todo[d] \ {cur[d]} /\ x = Whole(tree[cur[d]].gen)
      BY <1>4, <2>1 DEF TypeInv, TypeOK
    <2>4. CASE Top(d)
      <3>1. \A p \in Pkgs \ todo'[d] : deb'[p] = Whole(tree[p].gen)
        BY <1>1, <2>1, <2>2, <2>3, <2>4 DEF Phase, Top, Done
      <3>2. pc'[d] \in {"ar", "arw", "pack"}
        BY <2>4
      <3>3. Carrying(d)' => cur[d] \in todo'[d]
        BY <2>1, <2>3
      <3>4. QED
        BY <2>1, <3>1, <3>2, <3>3 DEF Phase, Done, In112
    <2>5. CASE ~ Top(d)
      <3>0. pc[d] \in {"rm112", "ar112", "arw112"}
        BY <2>5 DEF Top, Carrying
      <3>1. \A p \in HwePkgs \ todo'[d] : deb112'[p] = Whole(tree[p].gen)
        BY <1>1, <2>1, <2>3, <2>5, <3>0 DEF Phase, Done112
      <3>2. pc'[d] \in {"ar112", "arw112", "pack112"}
        BY <2>5
      <3>3. Carrying(d)' => cur[d] \in todo'[d]
        BY <2>1, <2>3
      <3>4. \A p \in Pkgs : deb'[p] = Whole(tree[p].gen)
        BY <1>1, <2>1, <2>5, <3>0 DEF Phase, In112, Done
      <3>5. \A p \in HwePkgs : tree112[p] = tree[p]
        BY <2>1, <3>0 DEF Phase
      <3>6. QED
        BY <2>1, <3>1, <3>2, <3>3, <3>4, <3>5 DEF Phase, Done, Done112, In112
    <2>6. QED
      BY <2>4, <2>5
  <1>5. QED
    BY <1>2, <1>3, <1>4, AloneFrame

\* Only the file that is about to be written goes.
LEMMA RemoveAlone ==
    ASSUME TypeInv, AloneInv, NEW d \in Driver, Remove(d) PROVE AloneInv'
  <1>1. /\ pc[d] \in {"rm", "rm112"} /\ pc'[d] = IF Top(d) THEN "ar" ELSE "ar112"
        /\ \A e \in Driver \ {d} : pc'[e] = pc[e]
    BY Went DEF Remove
  <1>2. Carrying(d) /\ Carrying(d)' /\ ~ Writing(d)'
    BY <1>1 DEF Carrying, Writing
  <1>3. QED
    BY <1>1, <1>2, OutputAlone DEF Remove

\* Nobody else writes, so there is no clash.
LEMMA ArOpenAlone ==
    ASSUME TypeInv, AloneInv, NEW d \in Driver, ArOpen(d) PROVE AloneInv'
  <1>1. /\ pc[d] \in {"ar", "ar112"} /\ pc'[d] = IF Top(d) THEN "arw" ELSE "arw112"
        /\ \A e \in Driver \ {d} : pc'[e] = pc[e]
    BY Went DEF ArOpen
  <1>2. Carrying(d) /\ Carrying(d)' /\ d \notin clash'
    BY <1>1 DEF Carrying, ArOpen
  <1>3. QED
    BY <1>1, <1>2, OutputAlone DEF ArOpen

\* What a driver that is alone writes is complete.
LEMMA ArCloseAlone ==
    ASSUME TypeInv, AloneInv, NEW d \in Driver, ArClose(d) PROVE AloneInv'
  <1>1. /\ Writing(d) /\ pc'[d] = IF Top(d) THEN "pack" ELSE "pack112"
        /\ \A e \in Driver \ {d} : pc'[e] = pc[e]
    BY Went DEF ArClose
  <1>2. Carrying(d) /\ ~ Carrying(d)' /\ ~ Writing(d)' /\ Active(d)
    BY <1>1 DEF Carrying, Writing, Active, Over
  <1>3. PICK x : Output(d, x) /\ (d \in alone /\ ~ Broken => x = hold[d])
    <2>1. CASE Output(d, hold[d])
      BY <2>1
    <2>2. CASE ~ Output(d, hold[d])
      <3>1. /\ {e \in Rivals(d, {"arw", "arw112"}) : hold[e] # hold[d]} # {} \/ d \in clash
            /\ Output(d, TornDeb)
        BY <2>2 DEF ArClose
      <3>2. ~ (d \in alone /\ ~ Broken)
        BY <1>1, <1>2, <3>1, Lone DEF AloneInv
      <3>3. QED
        BY <3>1, <3>2
    <2>3. QED
      BY <2>1, <2>2
  <1>4. QED
    BY <1>1, <1>2, <1>3, OutputAlone DEF ArClose

\* The steps of the loops over hwe-11.2.
LEMMA CleanAlone ==
    ASSUME TypeInv, AloneInv, NEW d \in Driver, Clean(d) PROVE AloneInv'
  <1>1. /\ Active(d) /\ pc[d] = "clean" /\ ~ Writing(d)'
        /\ UNCHANGED <<deb, tree, pc, cur, hold, clash, staged, alone>>
    BY DEF Clean, Active, Over, Writing
  <1>2. Broken => Broken'
    BY <1>1, BrokenStays
  <1>3. ASSUME d \in alone, ~ Broken PROVE Phase(d)'
    <2>1. Phase(d)
      BY <1>1, <1>3, Lone
    <2>2. QED
      BY <1>1, <2>1 DEF Phase, Carrying, In112, Done
  <1>4. QED
    BY <1>1, <1>2, <1>3, AloneFrame

\* The copy in hwe-11.2 is the present tree.
LEMMA GenerateAlone ==
    ASSUME TypeInv, AloneInv, NEW d \in Driver, Generate(d) PROVE AloneInv'
  <1>1. /\ Active(d) /\ pc[d] = "gen112" /\ ~ Writing(d)'
        /\ UNCHANGED <<deb, deb112, tree, pc, cur, hold, clash, staged, alone>>
    BY DEF Generate, Active, Over, Writing
  <1>2. Broken => Broken'
    BY <1>1, BrokenStays
  <1>3. PICK p \in todo[d] : /\ tree112' = [tree112 EXCEPT ![p] = tree[p]]
                             /\ todo' = [todo EXCEPT ![d] = @ \ {p}]
    BY DEF Generate
  <1>4. todo'[d] = todo[d] \ {p}
    BY <1>3 DEF TypeInv, TypeOK
  <1>5. ASSUME d \in alone, ~ Broken PROVE Phase(d)'
    <2>1. Phase(d)
      BY <1>1, <1>5, Lone
    <2>2. \A q \in HwePkgs \ todo'[d] : tree112'[q] = tree[q]
      BY <1>1, <1>3, <1>4, <2>1 DEF Phase, TypeInv, TypeOK
    <2>3. QED
      BY <1>1, <2>1, <2>2 DEF Phase, Carrying, In112, Done
  <1>6. QED
    BY <1>1, <1>2, <1>5, AloneFrame

\* What is staged of hwe-11.2 was packed in this run.
LEMMA Stage112Alone ==
    ASSUME TypeInv, AloneInv, NEW d \in Driver, Stage112(d) PROVE AloneInv'
  <1>1. /\ Active(d) /\ pc[d] = "cp112" /\ ~ Writing(d)'
        /\ UNCHANGED <<deb, deb112, tree, tree112, pc, cur, hold, clash, alone>>
    BY DEF Stage112, Active, Over, Writing, dirVars
  <1>2. Broken => Broken'
    BY <1>1, BrokenStays
  <1>3. PICK p \in todo[d] : /\ staged' = [staged EXCEPT ![d].old[p] = deb112[p]]
                             /\ todo' = [todo EXCEPT ![d] = @ \ {p}]
    BY DEF Stage112
  <1>4. todo'[d] = todo[d] \ {p} /\ p \in HwePkgs /\ deb112[p] \in Debs
    BY <1>1, <1>3 DEF TypeInv, TypeOK
  <1>5. /\ staged'[d].old = [staged[d].old EXCEPT ![p] = deb112[p]]
        /\ \A e \in Driver \ {d} : staged'[e] = staged[e]
        /\ staged[d].old \in [HwePkgs -> Debs]
    BY <1>3, <1>4, StagedOld DEF TypeInv, TypeOK, Staging
  <1>6. ASSUME d \in alone, ~ Broken PROVE Phase(d)'
    <2>1. Phase(d)
      BY <1>1, <1>6, Lone
    <2>2. \A q \in HwePkgs \ todo'[d] : staged'[d].old[q] = Whole(tree[q].gen)
      BY <1>1, <1>4, <1>5, <2>1 DEF Phase, Done112
    <2>3. QED
      BY <1>1, <2>1, <2>2 DEF Phase, Carrying, In112, Done, Done112
  <1>7. QED
    BY <1>1, <1>2, <1>5, <1>6, AloneFrame

\* find sees every package, since every one was packed.
LEMMA FindAlone ==
    ASSUME TypeInv, AloneInv, NEW d \in Driver, Find(d) PROVE AloneInv'
  <1>1. /\ pc[d] = "find" /\ pc'[d] = "cp"
        /\ \A e \in Driver \ {d} : pc'[e] = pc[e]
        /\ UNCHANGED <<deb, deb112, tree, tree112, cur, hold, clash, staged, alone>>
    BY Went DEF Find, dirVars
  <1>2. Active(d) /\ ~ Writing(d)'
    BY <1>1 DEF Active, Over, Writing
  <1>3. Broken => Broken'
    BY <1>1, BrokenStays
  <1>4. todo'[d] = {p \in Pkgs : deb[p].st # "absent"}
    BY DEF Find, TypeInv, TypeOK
  <1>5. ASSUME d \in alone, ~ Broken PROVE Phase(d)'
    <2>1. Phase(d)
      BY <1>2, <1>5, Lone
    <2>2. \A p \in Pkgs : p \in todo'[d]
      <3>1. \A p \in Pkgs : deb[p] = Whole(tree[p].gen)
        BY <1>1, <2>1 DEF Phase, Done
      <3>2. \A n : Whole(n).st = "whole"
        BY DEF Whole
      <3>3. QED
        BY <1>4, <3>1, <3>2
    <2>3. QED
      BY <1>1, <2>1, <2>2 DEF Phase, Carrying, In112, Done, Done112
  <1>6. QED
    BY <1>1, <1>2, <1>3, <1>5, AloneFrame

\* What is staged of the top directory was packed in this run.
LEMMA StageAlone ==
    ASSUME TypeInv, AloneInv, NEW d \in Driver, Stage(d) PROVE AloneInv'
  <1>0. Active(d) /\ pc[d] = "cp"
    BY DEF Stage, Active, Over
  <1>1. CASE Failed(d)
    BY <1>0, <1>1, FailedAlone DEF Stage
  <1>2. ASSUME NEW p \in todo[d], staged' = [staged EXCEPT ![d].top[p] = deb[p]],
               todo' = [todo EXCEPT ![d] = @ \ {p}], UNCHANGED pc
        PROVE  AloneInv'
    <2>1. UNCHANGED <<deb, deb112, tree, tree112, cur, hold, clash, alone>>
          /\ ~ Writing(d)'
      BY <1>0, <1>2 DEF Stage, dirVars, Writing
    <2>2. Broken => Broken'
      BY <1>0, <1>2, <2>1, BrokenStays
    <2>3. todo'[d] = todo[d] \ {p} /\ p \in Pkgs /\ deb[p] \in Debs
      BY <1>2 DEF TypeInv, TypeOK
    <2>4. /\ staged'[d].top = [staged[d].top EXCEPT ![p] = deb[p]]
          /\ staged'[d].old = staged[d].old
          /\ \A e \in Driver \ {d} : staged'[e] = staged[e]
          /\ staged[d].top \in [Pkgs -> Debs]
      BY <1>2, <2>3, StagedTop DEF TypeInv, TypeOK, Staging
    <2>5. ASSUME d \in alone, ~ Broken PROVE Phase(d)'
      <3>1. Phase(d)
        BY <1>0, <2>5, Lone
      <3>2. \A q \in Pkgs \ todo'[d] : staged'[d].top[q] = Whole(tree[q].gen)
        BY <1>0, <2>3, <2>4, <3>1 DEF Phase, Done
      <3>3. QED
        BY <1>0, <1>2, <2>1, <2>4, <3>1, <3>2 DEF Phase, Carrying, In112, Done
    <2>6. QED
      BY <1>0, <1>2, <2>1, <2>2, <2>4, <2>5, AloneFrame
  <1>3. QED
    BY <1>1, <1>2 DEF Stage

\* A driver starts: it is alone only if no other one runs, and those that run
\* no longer are.
LEMMA StartAlone ==
    ASSUME TypeInv, AloneInv, NEW d \in Driver, Start(d) PROVE AloneInv'
  <1>1. /\ ~ Active(d) /\ pc'[d] = "pack" /\ \A e \in Driver \ {d} : pc'[e] = pc[e]
        /\ UNCHANGED <<deb, deb112, tree, tree112, cur, hold, clash>>
    BY Went DEF Start, dirVars
  <1>2. todo'[d] = Pkgs /\ \A e \in Driver \ {d} : staged'[e] = staged[e]
    BY DEF Start, TypeInv, TypeOK
  <1>3. Broken => Broken'
    BY <1>1, BrokenStays
  <1> SUFFICES ASSUME NEW a \in alone'
               PROVE  /\ Active(a)' => \A e \in Driver \ {a} : ~ Active(e)'
                      /\ Writing(a)' => a \notin clash'
                      /\ Broken' \/ Phase(a)'
    BY DEF AloneInv
  <1>4. \/ a = d /\ \A e \in Driver : ~ Active(e)
        \/ a # d /\ a \in alone /\ ~ Active(a)
    BY DEF Start, Joined, TypeInv, TypeOK
  <1>5. CASE a = d /\ \A e \in Driver : ~ Active(e)
    <2>1. Phase(d)' /\ ~ Writing(d)'
      BY <1>1, <1>2 DEF Phase, Writing, Carrying, In112
    <2>2. \A e \in Driver \ {d} : ~ Active(e)'
      BY <1>1, <1>5 DEF Active
    <2>3. QED
      BY <1>5, <2>1, <2>2
  <1>6. CASE a # d /\ a \in alone /\ ~ Active(a)
    <2>1. a \in Driver /\ pc[a] \in Over /\ pc'[a] = pc[a] /\ staged'[a] = staged[a]
      BY <1>1, <1>2, <1>6 DEF TypeInv, TypeOK, Active
    <2>2. ~ Active(a)' /\ ~ Writing(a)'
      BY <2>1 DEF Active, Writing, Over
    <2>3. Phase(a) => Phase(a)'
      BY <1>1, <2>1 DEF Phase, Carrying, Over, In112
    <2>4. QED
      BY <1>3, <1>6, <2>2, <2>3 DEF AloneInv
  <1>7. QED
    BY <1>4, <1>5, <1>6

\* A killed driver is over and owes nothing; one that is alone has no other.
LEMMA KillAlone == ASSUME TypeInv, AloneInv, NEW d \in Driver, Kill(d) PROVE AloneInv'
  <1>1. /\ Active(d) /\ pc'[d] = "killed" /\ \A e \in Driver \ {d} : pc'[e] = pc[e]
        /\ UNCHANGED <<deb, deb112, tree, tree112, cur, hold, staged, alone>>
    BY Went DEF Kill, dirVars
  <1>2. Broken => Broken'
    BY <1>1, BrokenStays
  <1>3. Phase(d)' /\ ~ Writing(d)'
    BY <1>1 DEF Phase, Writing, Carrying, In112
  <1>4. QED
    BY <1>1, <1>2, <1>3, AloneFrame

\* Every step keeps what a driver alone has done.
LEMMA NextAlone == TypeInv /\ AloneInv /\ [Next]_vars => AloneInv'
  <1> SUFFICES ASSUME TypeInv, AloneInv, [Next]_vars PROVE AloneInv'
    OBVIOUS
  <1>1. CASE UNCHANGED vars
    BY <1>1 DEF vars, dirVars, runVars, limitVars, AloneInv, Active, Writing, Broken,
       Phase, Carrying, Done, Done112
  <1>2. ASSUME NEW d \in Driver, Step(d) PROVE AloneInv'
    <2>1. CASE PackFail(d) \/ ArFail(d) \/ Fail112(d)
      <3>1. Active(d)
        BY <2>1 DEF PackFail, ArFail, Fail112, Packing, Active, Over
      <3>2. QED
        BY <2>1, <3>1, FailedAlone DEF PackFail, ArFail, Fail112
    <2>2. QED
      BY <1>2, <2>1, NextLoopAlone, PackBeginAlone, PackSkipAlone, RemoveAlone,
         ArOpenAlone, ArCloseAlone, CleanAlone, GenerateAlone, Stage112Alone,
         FindAlone, StageAlone DEF Step
  <1>3. CASE Edit
    BY <1>3 DEF Edit, AloneInv
  <1>4. QED
    BY <1>1, <1>2, <1>3, StartAlone, KillAlone DEF Next

\* A driver that meets no other one and no edit stages every package, complete
\* and packed from the present trees, if the sources it found were usable.
THEOREM AloneStagesHolds == Spec => []AloneStages
  <1>1. Init => AloneInv
    BY DEF Init, AloneInv
  <1>2. Spec => [](TypeInv /\ AloneInv)
    BY <1>1, InitTyped, NextTyped, NextAlone, PTL DEF Spec
  <1>3. TypeInv /\ AloneInv => AloneStages
    <2> SUFFICES ASSUME TypeInv, AloneInv, Usable, NEW d \in alone, pc[d] = "run"
                 PROVE  /\ \A p \in Pkgs : staged[d].top[p] = Whole(tree[p].gen)
                        /\ \A p \in HwePkgs : staged[d].old[p] = Whole(tree[p].gen)
      BY DEF AloneStages
    <2>1. ~ Broken
      BY DEF Usable, Broken
    <2>2. QED
      BY <2>1 DEF AloneInv, Phase
  <1>4. QED
    BY <1>2, <1>3, PTL
=============================================================================
