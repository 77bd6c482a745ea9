------------------------------ MODULE Drivers ------------------------------
(***************************************************************************)
(* create_container.sh started several times in one checkout: every driver *)
(* runs prepare_debs.sh, which packs the .deb files of the top directory   *)
(* in place and rebuilds hwe-11.2, and then copies both into a staging     *)
(* directory of its own, from which the container publishes its archive.   *)
(* Nothing keeps two drivers, or a driver and the developer who edits the  *)
(* control trees, apart.                                                   *)
(*                                                                         *)
(* ar writes files that others can read half-written.  A content is the    *)
(* number of the edit it was packed from; payloads and versions are left   *)
(* to DebPipeline, which has the scripts in full for one command at a time.*)
(***************************************************************************)
EXTENDS Naturals, FiniteSets

CONSTANTS Driver,     \* terminals in which create_container.sh is started
          Stems,      \* QEMU packages, without suffix
          MaxStarts,  \* bound: how often it is started
          MaxEdits,   \* bound: edits of control trees
          MaxKills    \* bound: killed drivers

ASSUME DriversAssumption ==
    Stems # {} /\ MaxStarts \in Nat /\ MaxEdits \in Nat /\ MaxKills \in Nat

Pkgs    == Stems \X {"base", "hwe"}
HwePkgs == Stems \X {"hwe"}
Base(p) == <<p[1], "base">>

\* A .deb file: whether it is there and complete, and the tree it has.
Debs     == [st : {"absent", "torn", "whole"}, gen : 0..MaxEdits]
NoDeb    == [st |-> "absent", gen |-> 0]
TornDeb  == [st |-> "torn", gen |-> 0]
Whole(n) == [st |-> "whole", gen |-> n]

Trees    == [there : BOOLEAN, gen : 0..MaxEdits]
NoTree   == [there |-> FALSE, gen |-> 0]
Tree(n)  == [there |-> TRUE, gen |-> n]

\* A staging directory: the top-level files and those of hwe-11.2.
Staging == [top : [Pkgs -> Debs], old : [HwePkgs -> Debs]]
Nothing == [top |-> [p \in Pkgs |-> NoDeb], old |-> [p \in HwePkgs |-> NoDeb]]

\* Two rounds of packing, each with its labels.
In112  == {"clean", "gen112", "pack112", "rm112", "ar112", "arw112"}
Over   == {"new", "run", "failed", "killed"}
Labels == {"pack", "rm", "ar", "arw", "cp112", "find", "cp"} \cup In112 \cup Over

VARIABLES
    deb,      \* the .deb files of the top directory
    deb112,   \* the .deb files of hwe-11.2
    tree,     \* the control trees of extracted/
    tree112,  \* their copies in hwe-11.2
    pc,       \* where each driver is
    todo,     \* packages its present loop has still to visit
    cur,      \* the package it packs
    hold,     \* its tmpdir: what it will write
    clash,    \* drivers whose file another one wrote, differently, meanwhile
    staged,   \* its staging directory
    starts, edits, kills,
    \* History variable, read by no action.
    alone     \* drivers that met no other driver and no edit since they started

limitVars == <<starts, edits, kills>>
dirVars == <<deb, deb112, tree, tree112>>
runVars == <<pc, todo, cur, hold, clash, staged>>
vars == <<dirVars, runVars, limitVars, alone>>

Active(d) == pc[d] \notin Over
Go(d, l)  == pc' = [pc EXCEPT ![d] = l]

Top(d)      == pc[d] \in {"pack", "rm", "ar", "arw"}
Writing(d)  == pc[d] \in {"arw", "arw112"}
\* Drivers at work on the same output file as d.
Rivals(d, labels) ==
    {e \in Driver \ {d} : pc[e] \in labels /\ cur[e] = cur[d] /\ Top(e) = Top(d)}

----------------------------------------------------------------------------
Init ==
    /\ deb = [p \in Pkgs |-> IF p[2] = "base" THEN Whole(0) ELSE NoDeb]
    /\ deb112 = [p \in HwePkgs |-> NoDeb]
    /\ tree = [p \in Pkgs |-> Tree(0)]
    /\ tree112 = [p \in HwePkgs |-> NoTree]
    /\ pc = [d \in Driver |-> "new"]
    /\ todo = [d \in Driver |-> {}]
    /\ cur = [d \in Driver |-> CHOOSE p \in HwePkgs : TRUE]
    /\ hold = [d \in Driver |-> NoDeb]
    /\ clash = {}
    /\ staged = [d \in Driver |-> Nothing]
    /\ starts = 0 /\ edits = 0 /\ kills = 0
    /\ alone = {}

\* A driver that starts while others run is not alone, and they are no longer.
Joined(d) ==
    IF \E e \in Driver : Active(e) THEN alone \ {e \in Driver : e = d \/ Active(e)}
    ELSE alone \cup {d}

\* Mutant: .deb files that are there are taken for prepared.
Start_Cached(d) ==
    /\ ~ Active(d) /\ starts < MaxStarts
    /\ starts' = starts + 1
    /\ staged' = [staged EXCEPT ![d] = Nothing]
    /\ IF \A p \in Pkgs : deb[p].st = "whole"
       THEN Go(d, "cp112") /\ todo' = [todo EXCEPT ![d] = HwePkgs]
       ELSE Go(d, "pack") /\ todo' = [todo EXCEPT ![d] = Pkgs]
    /\ alone' = Joined(d)
    /\ UNCHANGED <<dirVars, cur, hold, clash, edits, kills>>

\* prepare_debs.sh.
Start(d) ==
    /\ ~ Active(d) /\ starts < MaxStarts
    /\ starts' = starts + 1
    /\ staged' = [staged EXCEPT ![d] = Nothing]
    /\ Go(d, "pack") /\ todo' = [todo EXCEPT ![d] = Pkgs]
    /\ alone' = Joined(d)
    /\ UNCHANGED <<dirVars, cur, hold, clash, edits, kills>>

\* The loops of a driver, in their order; after the last the container starts.
After == [pack |-> "clean", clean |-> "gen112", gen112 |-> "pack112",
          pack112 |-> "cp112", cp112 |-> "find", cp |-> "run"]

NextLoop(d) ==
    /\ pc[d] \in DOMAIN After /\ todo[d] = {}
    /\ Go(d, After[pc[d]])
    /\ todo' = [todo EXCEPT ![d] = IF After[pc[d]] \in {"find", "run"} THEN {}
                                  ELSE HwePkgs]
    /\ UNCHANGED <<dirVars, cur, hold, clash, staged, limitVars, alone>>

----------------------------------------------------------------------------
(***************************************************************************)
(* pack_deb, into the top directory or into hwe-11.2.                      *)
(***************************************************************************)
resolve_source_deb(p) == IF deb[p].st # "absent" THEN deb[p] ELSE deb[Base(p)]

ControlDir(d, p) == IF Top(d) THEN tree[p] ELSE tree112[p]

Packing(d) == pc[d] \in {"pack", "pack112"}
Turn(d, p) == p \in todo[d] /\ (p[2] = "base" \/ Base(p) \notin todo[d])

\* Mutant: data.tar is taken without a look at what the source holds.
PackBegin_Unchecked(d) ==
    /\ Packing(d)
    /\ \E p \in todo[d] :
          /\ Turn(d, p) /\ ControlDir(d, p).there
          /\ resolve_source_deb(p).st # "absent"
          /\ cur' = [cur EXCEPT ![d] = p]
          /\ hold' = [hold EXCEPT ![d] = [st  |-> resolve_source_deb(p).st,
                                         gen |-> ControlDir(d, p).gen]]
    /\ Go(d, IF Top(d) THEN "rm" ELSE "rm112")
    /\ UNCHANGED <<dirVars, todo, clash, staged, limitVars, alone>>

\* The members go to tmpdir: data.tar of the source, and the tree as it is now.
PackBegin(d) ==
    /\ Packing(d)
    /\ \E p \in todo[d] :
          /\ Turn(d, p) /\ ControlDir(d, p).there
          /\ resolve_source_deb(p).st = "whole"
          /\ cur' = [cur EXCEPT ![d] = p]
          /\ hold' = [hold EXCEPT ![d] = Whole(ControlDir(d, p).gen)]
    /\ Go(d, IF Top(d) THEN "rm" ELSE "rm112")
    /\ UNCHANGED <<dirVars, todo, clash, staged, limitVars, alone>>

\* No tree, no source, or one in which data.tar is not found: passed over.
PackSkip(d) ==
    /\ Packing(d)
    /\ \E p \in todo[d] :
          /\ Turn(d, p)
          /\ ~ ControlDir(d, p).there \/ resolve_source_deb(p).st # "whole"
          /\ todo' = [todo EXCEPT ![d] = @ \ {p}]
    /\ UNCHANGED <<dirVars, pc, cur, hold, clash, staged, limitVars, alone>>

\* Another driver changes what d reads between two looks at it.
Disturbed(d, p) == \E e \in Driver \ {d} :
    \/ pc[e] \in {"rm", "ar", "arw"} /\ cur[e] \in {p, Base(p)}
    \/ ~ Top(d) /\ pc[e] \in In112

Failed(d) ==
    /\ Go(d, "failed")
    /\ todo' = [todo EXCEPT ![d] = {}]
    /\ staged' = [staged EXCEPT ![d] = Nothing]

\* The source, or the tree, turns out to be unreadable: set -e ends the driver.
PackFail(d) ==
    /\ Packing(d)
    /\ \E p \in todo[d] :
          /\ Turn(d, p)
          /\ resolve_source_deb(p).st = "torn" \/ Disturbed(d, p)
    /\ Failed(d)
    /\ UNCHANGED <<dirVars, cur, hold, clash, limitVars, alone>>

\* out_deb.
Output(d, x) ==
    IF Top(d) THEN deb' = [deb EXCEPT ![cur[d]] = x] /\ UNCHANGED deb112
    ELSE deb112' = [deb112 EXCEPT ![cur[d]] = x] /\ UNCHANGED deb

Remove(d) ==
    /\ pc[d] \in {"rm", "rm112"}
    /\ Output(d, NoDeb)
    /\ Go(d, IF Top(d) THEN "ar" ELSE "ar112")
    /\ UNCHANGED <<tree, tree112, todo, cur, hold, clash, staged, limitVars, alone>>

\* ar creates the archive.
ArOpen(d) ==
    /\ pc[d] \in {"ar", "ar112"}
    /\ Output(d, TornDeb)
    /\ Go(d, IF Top(d) THEN "arw" ELSE "arw112")
    /\ clash' = clash \ {d}
    /\ UNCHANGED <<tree, tree112, todo, cur, hold, staged, limitVars, alone>>

\* ar meets another driver's unfinished archive, or no directory.
ArFail(d) ==
    /\ pc[d] \in {"ar", "ar112"}
    /\ \/ Rivals(d, {"arw", "arw112"}) # {}
       \/ ~ Top(d) /\ \E e \in Driver \ {d} : pc[e] = "clean"
    /\ Failed(d)
    /\ UNCHANGED <<dirVars, cur, hold, clash, limitVars, alone>>

\* The archive is complete, unless two drivers wrote different ones at a time.
ArClose(d) ==
    LET rivals == {e \in Rivals(d, {"arw", "arw112"}) : hold[e] # hold[d]} IN
    /\ Writing(d)
    /\ \/ Output(d, hold[d])
       \/ (rivals # {} \/ d \in clash) /\ Output(d, TornDeb)
    /\ clash' = (clash \cup rivals) \ {d}
    /\ todo' = [todo EXCEPT ![d] = @ \ {cur[d]}]
    /\ Go(d, IF Top(d) THEN "pack" ELSE "pack112")
    /\ UNCHANGED <<tree, tree112, cur, hold, staged, limitVars, alone>>

----------------------------------------------------------------------------
(***************************************************************************)
(* generate_hwe_11_2_controls.sh --clean-dst.                              *)
(***************************************************************************)
Clean(d) ==
    /\ pc[d] = "clean"
    /\ \E p \in todo[d] :
          /\ tree112' = [tree112 EXCEPT ![p] = NoTree]
          /\ deb112' = [deb112 EXCEPT ![p] = NoDeb]
          /\ todo' = [todo EXCEPT ![d] = @ \ {p}]
    /\ UNCHANGED <<deb, tree, pc, cur, hold, clash, staged, limitVars, alone>>

Generate(d) ==
    /\ pc[d] = "gen112"
    /\ \E p \in todo[d] :
          /\ tree112' = [tree112 EXCEPT ![p] = tree[p]]
          /\ todo' = [todo EXCEPT ![d] = @ \ {p}]
    /\ UNCHANGED <<deb, deb112, tree, pc, cur, hold, clash, staged, limitVars,
                   alone>>

\* Two drivers in hwe-11.2 remove and create files under each other's hands.
Fail112(d) ==
    /\ pc[d] \in {"clean", "gen112", "cp112"}
    /\ \E e \in Driver \ {d} : pc[e] \in In112
    /\ Failed(d)
    /\ UNCHANGED <<dirVars, cur, hold, clash, limitVars, alone>>

----------------------------------------------------------------------------
(***************************************************************************)
(* Staging: hwe-11.2 first, then the files that find lists.                *)
(***************************************************************************)
Stage112(d) ==
    /\ pc[d] = "cp112"
    /\ \E p \in todo[d] :
          /\ staged' = [staged EXCEPT ![d].old[p] = deb112[p]]
          /\ todo' = [todo EXCEPT ![d] = @ \ {p}]
    /\ UNCHANGED <<dirVars, pc, cur, hold, clash, limitVars, alone>>

Find(d) ==
    /\ pc[d] = "find"
    /\ todo' = [todo EXCEPT ![d] = {p \in Pkgs : deb[p].st # "absent"}]
    /\ Go(d, "cp")
    /\ UNCHANGED <<dirVars, cur, hold, clash, staged, limitVars, alone>>

\* Mutant: a file that is gone is noted as such.
Stage_Gone(d) ==
    /\ pc[d] = "cp"
    /\ \E p \in todo[d] :
          /\ todo' = [todo EXCEPT ![d] = @ \ {p}]
          /\ staged' = [staged EXCEPT ![d].top[p] =
                           IF deb[p].st = "absent" THEN [st |-> "gone", gen |-> 0]
                           ELSE deb[p]]
    /\ UNCHANGED <<pc, dirVars, cur, hold, clash, limitVars, alone>>

\* A listed file that is gone by now makes cp, and with it the driver, fail.
Stage(d) ==
    /\ pc[d] = "cp"
    /\ \E p \in todo[d] :
          IF deb[p].st = "absent" THEN Failed(d)
          ELSE /\ staged' = [staged EXCEPT ![d].top[p] = deb[p]]
               /\ todo' = [todo EXCEPT ![d] = @ \ {p}]
               /\ UNCHANGED pc
    /\ UNCHANGED <<dirVars, cur, hold, clash, limitVars, alone>>

----------------------------------------------------------------------------
\* The developer, or one of the control editors, changes a tree.
Edit ==
    /\ edits < MaxEdits
    /\ edits' = edits + 1
    /\ \E p \in Pkgs : tree' = [tree EXCEPT ![p] = Tree(edits')]
    /\ alone' = {}
    /\ UNCHANGED <<deb, deb112, tree112, runVars, starts, kills>>

\* A signal, or a write that fails: when ar runs out of space, set -e ends the
\* driver with the output removed or cut short, as a signal there does.
Kill(d) ==
    /\ Active(d) /\ kills < MaxKills
    /\ kills' = kills + 1
    /\ Go(d, "killed")
    /\ todo' = [todo EXCEPT ![d] = {}]
    /\ clash' = (clash \ {d}) \cup
                (IF Writing(d) THEN Rivals(d, {"arw", "arw112"}) ELSE {})
    /\ UNCHANGED <<dirVars, cur, hold, staged, starts, edits, alone>>

Step(d) ==
    \/ NextLoop(d)
    \/ PackBegin(d) \/ PackSkip(d) \/ PackFail(d)
    \/ Remove(d) \/ ArOpen(d) \/ ArFail(d) \/ ArClose(d)
    \/ Clean(d) \/ Generate(d) \/ Fail112(d)
    \/ Stage112(d) \/ Find(d) \/ Stage(d)

Next ==
    \/ \E d \in Driver : Start(d) \/ Step(d) \/ Kill(d)
    \/ Edit

Spec == Init /\ [][Next]_vars

----------------------------------------------------------------------------
(***************************************************************************)
(* Properties.                                                             *)
(***************************************************************************)
\* Type correctness of the directories and of the drivers.
TypeOK ==
    /\ deb \in [Pkgs -> Debs] /\ deb112 \in [HwePkgs -> Debs]
    /\ tree \in [Pkgs -> Trees] /\ tree112 \in [HwePkgs -> Trees]
    /\ pc \in [Driver -> Labels] /\ todo \in [Driver -> SUBSET Pkgs]
    /\ cur \in [Driver -> Pkgs] /\ hold \in [Driver -> Debs]
    /\ clash \in SUBSET Driver /\ alone \in SUBSET Driver
    /\ staged \in [Driver -> Staging]
    /\ starts \in 0..MaxStarts /\ edits \in 0..MaxEdits
    /\ kills \in 0..MaxKills

\* However the drivers interleave, the base .deb files, which are the only copy
\* of the payloads and which every driver removes and writes anew, are not
\* lost: while one is missing or unfinished, a driver has it in its tmpdir and
\* is about to write it.  A kill, or trees edited while drivers run, may lose
\* one.
SourcesKept ==
    kills = 0 /\ edits = 0 => \A p \in Pkgs : p[2] = "base" =>
        \/ deb[p].st = "whole"
        \/ \E d \in Driver : /\ pc[d] \in {"ar", "arw"} /\ cur[d] = p
                             /\ hold[d].st = "whole"

\* The sources are complete and no unfinished -hwe file hides them.
Usable == \A p \in Pkgs :
    deb[p].st # "torn" /\ (p[2] = "base" => deb[p].st = "whole")

\* A driver that met no other one, and no edit, since it started hands its
\* container every package of both directories, complete and packed from the
\* present trees, whatever drivers that ran into each other, or were killed,
\* before it left behind, as long as they left usable sources.
AloneStages ==
    Usable => \A d \in alone : pc[d] = "run" =>
        /\ \A p \in Pkgs : staged[d].top[p] = Whole(tree[p].gen)
        /\ \A p \in HwePkgs : staged[d].old[p] = Whole(tree[p].gen)
=============================================================================
