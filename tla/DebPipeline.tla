---------------------------- MODULE DebPipeline ----------------------------
(***************************************************************************)
(* The scripts that turn control trees into .deb files:                    *)
(* pull_launchpad_qemu_debs.sh and pull_launchpad_libvirt_debs.sh (pull,   *)
(* --unpack, --pack), generate_hwe_11_2_controls.sh, pack_hwe_11_2.sh and  *)
(* prepare_debs.sh, which chains them.                                     *)
(*                                                                         *)
(* One script runs at a time.  It may stop by itself (set -e) or be killed *)
(* between any two writes, and the next command finds the files as they    *)
(* were left.  An architecture is part of a package's name here: every     *)
(* package exists in one of amd64 and all.                                 *)
(***************************************************************************)
EXTENDS Naturals, Sequences, FiniteSets

CONSTANTS Qemu,         \* PACKAGES of pull_launchpad_qemu_debs.sh
          Libvirt,      \* PACKAGES of pull_launchpad_libvirt_debs.sh
          MaxCommands,  \* bound: commands the developer starts
          MaxEdits,     \* bound: edits of control trees
          MaxKills      \* bound: killed commands

ASSUME NamesAssumption == Qemu \cap Libvirt = {} /\ Qemu \cup Libvirt # {}

ASSUME LimitsAssumption ==
    MaxCommands \in Nat /\ MaxEdits \in Nat /\ MaxKills \in Nat

----------------------------------------------------------------------------
Stems == Qemu \cup Libvirt
Pkgs  == Stems \X {"base", "hwe"}

Base(p) == <<p[1], "base">>
Hwe(p)  == <<p[1], "hwe">>

Presence == {"absent", "torn", "whole"}
Versions == {"old", "new"}

\* A control tree: an edit count, the Package and the Version it declares.
Trees == [st : Presence, gen : 0..MaxEdits, name : Pkgs, ver : Versions]

\* A .deb file: the stem whose data.tar it carries, and its control.tar.
Debs  == [st : Presence, data : Stems, ctl : Trees]

NoTree(p)   == [st |-> "absent", gen |-> 0, name |-> p, ver |-> "old"]
TornTree(p) == [NoTree(p) EXCEPT !.st = "torn"]
NoDeb(p)    == [st |-> "absent", data |-> p[1], ctl |-> NoTree(p)]
TornDeb(p)  == [NoDeb(p) EXCEPT !.st = "torn"]

\* What Launchpad serves.
Upstream(p) == [st |-> "whole", data |-> p[1],
                ctl |-> [NoTree(p) EXCEPT !.st = "whole"]]

\* The files of hwe-11.2/: a package and the version in the file's name.
Files112 == (Qemu \X {"hwe"}) \X Versions

\* The stages, in the order prepare_debs.sh runs them; a pull stands first.
Order == <<"fetch", "pack_qemu", "pack_libvirt", "clean", "copy", "rewrite",
           "pack_112">>
Idle  == 0
Steps == {"next", "curl", "clear", "members", "dup", "rename", "rm", "ar"}

VARIABLES
    deb,       \* the .deb files of the top directory, which is the output
               \* directory and the source directory of both pull scripts
    tree,      \* extracted/*/*/control
    deb112,    \* the .deb files of hwe-11.2
    tree112,   \* hwe-11.2/*-hwe/*/control
    at,        \* the running stage, an index of Order, or Idle
    until,     \* the last stage of the command
    todo,      \* packages the stage's loop has still to visit
    step,      \* where the loop's body is
    cur,       \* the package it is about
    hold,      \* pack_deb's tmpdir: the members of the .deb it builds
    unpack,    \* --unpack
    result,    \* how the last command ended
    edits, commands, kills,
    \* History variables, read by no action.
    ready,     \* packages with a whole source .deb when the command started
    prepare    \* the last command is prepare_debs.sh, and no edit came after it

dirVars    == <<deb, tree, deb112, tree112>>
runVars    == <<at, until, todo, step, cur, hold, unpack, result>>
limitVars  == <<edits, commands, kills>>
noteVars   == <<ready, prepare>>
vars == <<dirVars, runVars, limitVars, noteVars>>

Running(s) == at # Idle /\ Order[at] = s

----------------------------------------------------------------------------
(***************************************************************************)
(* pack_deb.                                                               *)
(***************************************************************************)
\* resolve_source_deb: the package's own .deb if there is such a file, else
\* that of the package without -hwe.
resolve_source_deb(p) == IF deb[p].st # "absent" THEN deb[p] ELSE deb[Base(p)]

\* The control tree the stage packs.
ControlDir(p) == IF Running("pack_112") THEN tree112[p] ELSE tree[p]

----------------------------------------------------------------------------
\* A checkout, which has the trees of extracted/ and hwe-11.2 and the packed
\* files of hwe-11.2, or an empty work directory.  Any of the source .deb files
\* may have been fetched before.
Init ==
    /\ \E there \in SUBSET Stems :
          deb = [p \in Pkgs |-> IF p[1] \in there /\ p[2] = "base"
                                THEN Upstream(p) ELSE NoDeb(p)]
    /\ \/ /\ tree = [p \in Pkgs |-> Upstream(p).ctl]
          /\ tree112 = [p \in Stems \X {"hwe"} |->
                            [Upstream(p).ctl EXCEPT !.ver = "new"]]
          /\ deb112 = [f \in Files112 |->
                            IF f[2] = "old" THEN NoDeb(f[1])
                            ELSE [Upstream(f[1]) EXCEPT !.ctl.ver = "new"]]
       \/ /\ tree = [p \in Pkgs |-> NoTree(p)]
          /\ tree112 = [p \in Stems \X {"hwe"} |-> NoTree(p)]
          /\ deb112  = [f \in Files112 |-> NoDeb(f[1])]
    /\ at = Idle /\ until = Idle /\ todo = {} /\ step = "next" /\ unpack = FALSE
    /\ cur = (CHOOSE p \in Pkgs : TRUE) /\ hold = NoDeb(cur)
    /\ result = "none"
    /\ edits = 0 /\ commands = 0 /\ kills = 0
    /\ ready = {} /\ prepare = FALSE

\* The packages the loop of a stage visits.
Work(k) ==
    CASE Order[k] = "pack_qemu"    -> {p \in Pkgs : p[1] \in Qemu}
      \* It visits every directory, but the QEMU ones have no source .deb of
      \* libvirt's version.
      [] Order[k] = "pack_libvirt" -> {p \in Pkgs : p[1] \in Libvirt}
      [] Order[k] = "clean"        -> Stems \X {"hwe"}
      [] Order[k] = "copy"         -> {p \in Stems \X {"hwe"} : tree[p].st # "absent"}
      [] Order[k] = "rewrite"      -> {p \in Stems \X {"hwe"} : tree112[p].st # "absent"}
      [] Order[k] = "pack_112"     -> Qemu \X {"hwe"}
      [] OTHER                     -> {}

\* A command that runs the stages from first to last.
Command(first, last, work) ==
    /\ at = Idle /\ commands < MaxCommands
    /\ commands' = commands + 1
    /\ at' = first /\ until' = last /\ todo' = work /\ step' = "next"
    /\ result' = "none"
    /\ ready' = {p \in Pkgs : resolve_source_deb(p).st = "whole"}
    /\ prepare' = (first # last /\ last = Len(Order))
    /\ UNCHANGED <<dirVars, cur, hold, edits, kills>>

\* pull_launchpad_*_debs.sh, with --unpack, or with --unpack --pack.
Pull == \E names \in {Qemu, Libvirt}, pack \in BOOLEAN :
    /\ unpack' \in BOOLEAN /\ (pack => unpack')
    /\ Command(1, IF ~ pack THEN 1 ELSE IF names = Qemu THEN 2 ELSE 3,
               names \X {"base"})

\* pull_launchpad_*_debs.sh --pack.
Pack == \E k \in {2, 3} : Command(k, k, Work(k)) /\ unpack' = FALSE

\* generate_hwe_11_2_controls.sh [--clean-dst].
Generate == \E k \in {4, 5} : Command(k, 6, Work(k)) /\ unpack' = FALSE

\* pack_hwe_11_2.sh.
PackHwe == Command(7, 7, Work(7)) /\ unpack' = FALSE

\* prepare_debs.sh: both pulls are commented out.
Prepare == Command(2, 7, Work(2)) /\ unpack' = FALSE

\* The developer, or one of the control editors, changes a tree.
Edit ==
    /\ at = Idle /\ edits < MaxEdits
    /\ edits' = edits + 1
    /\ \E p \in Pkgs :
          /\ tree[p].st # "absent"
          /\ tree' = [tree EXCEPT ![p].gen = edits', ![p].name = p]
    /\ prepare' = FALSE
    /\ UNCHANGED <<deb, deb112, tree112, runVars, commands, kills, ready>>

----------------------------------------------------------------------------
(***************************************************************************)
(* Loop control.                                                           *)
(***************************************************************************)
\* The loop is done with p.
Visited(p) == todo' = todo \ {p} /\ step' = "next"

Ends(how) ==
    /\ at' = Idle /\ until' = Idle /\ todo' = {} /\ step' = "next"
    /\ result' = how

\* Mutant: prepare_debs.sh regenerates without --clean-dst.
NextStage_NoClean ==
    /\ at # Idle /\ todo = {} /\ step = "next"
    /\ IF Order[at] = "copy" /\ Work(at) = {}
       THEN Ends("failed")
       ELSE IF at = until
       THEN Ends("finished")
       ELSE /\ at' = (IF Order[at] = "fetch" THEN until ELSE IF at = 3 THEN 5 ELSE at + 1)
            /\ todo' = Work(at')
            /\ UNCHANGED <<until, step, result>>
    /\ UNCHANGED <<dirVars, cur, hold, unpack, limitVars, noteVars>>

\* The next stage of the command, or its end; generate exits with an error
\* when extracted/ has no -hwe tree.
NextStage ==
    /\ at # Idle /\ todo = {} /\ step = "next"
    /\ IF Order[at] = "copy" /\ Work(at) = {}
       THEN Ends("failed")
       ELSE IF at = until
       THEN Ends("finished")
       ELSE /\ at' = (IF Order[at] = "fetch" THEN until ELSE at + 1)
            /\ todo' = Work(at')
            /\ UNCHANGED <<until, step, result>>
    /\ UNCHANGED <<dirVars, cur, hold, unpack, limitVars, noteVars>>

----------------------------------------------------------------------------
(***************************************************************************)
(* The download loop and extract_deb.                                      *)
(***************************************************************************)
AfterFetch(p) ==
    IF unpack THEN step' = "clear" /\ UNCHANGED todo ELSE Visited(p)

\* "Skipping existing": any file of that name will do.  A name that the HEAD
\* request does not find is passed over.
FetchSkip ==
    /\ Running("fetch") /\ step = "next"
    /\ \E p \in todo :
          \/ deb[p].st # "absent" /\ cur' = p /\ AfterFetch(p)
          \/ deb[p].st = "absent" /\ Visited(p) /\ UNCHANGED cur
    /\ UNCHANGED <<dirVars, at, until, hold, unpack, result, limitVars, noteVars>>

FetchStart ==
    /\ Running("fetch") /\ step = "next"
    /\ \E p \in todo : deb[p].st = "absent" /\ cur' = p
    /\ step' = "curl"
    /\ UNCHANGED <<dirVars, at, until, todo, hold, unpack, result, limitVars, noteVars>>

FetchDone ==
    /\ step = "curl"
    /\ deb' = [deb EXCEPT ![cur] = Upstream(cur)]
    /\ AfterFetch(cur)
    /\ UNCHANGED <<tree, deb112, tree112, at, until, cur, hold, unpack, result,
                   limitVars, noteVars>>

\* curl gives up after its retries, and set -e ends the script.
FetchFail ==
    /\ step = "curl"
    /\ deb' \in {deb, [deb EXCEPT ![cur] = TornDeb(cur)]}
    /\ Ends("failed")
    /\ UNCHANGED <<tree, deb112, tree112, cur, hold, unpack, limitVars, noteVars>>

UnpackClear ==
    /\ step = "clear"
    /\ tree' = [tree EXCEPT ![cur] = NoTree(cur)]
    /\ step' = "members"
    /\ UNCHANGED <<deb, deb112, tree112, at, until, todo, cur, hold, unpack, result,
                   limitVars, noteVars>>

\* The control member of a torn file may be whole, missing, or unreadable, which
\* ends the script with a part of the tree, or none of it.
UnpackControl ==
    /\ step = "members"
    /\ \/ /\ tree' = [tree EXCEPT ![cur] = deb[cur].ctl]
          /\ step' = "dup" /\ UNCHANGED <<at, until, todo, result>>
       \/ /\ deb[cur].st = "torn"
          /\ tree' = [tree EXCEPT ![cur] = Upstream(cur).ctl]
          /\ step' = "dup" /\ UNCHANGED <<at, until, todo, result>>
       \/ /\ deb[cur].st = "torn" /\ Ends("failed")
          /\ tree' \in {tree, [tree EXCEPT ![cur] = TornTree(cur)]}
    /\ UNCHANGED <<deb, deb112, tree112, cur, hold, unpack, limitVars, noteVars>>

\* The -hwe tree is a copy of the base tree.
UnpackDup ==
    /\ step = "dup"
    /\ tree' = [tree EXCEPT ![Hwe(cur)] = tree[cur]]
    /\ IF cur[1] \in Libvirt
       THEN step' = "rename" /\ UNCHANGED todo
       ELSE Visited(cur)
    /\ UNCHANGED <<deb, deb112, tree112, at, until, cur, hold, unpack, result,
                   limitVars, noteVars>>

\* Mutant: the -hwe tree keeps the name of the base package.
UnpackRename_Keep ==
    /\ step = "rename"
    /\ Visited(cur)
    /\ UNCHANGED <<dirVars, at, until, cur, hold, unpack, result, limitVars, noteVars>>

\* Only the libvirt script sets the copy's Package field.
UnpackRename ==
    /\ step = "rename"
    /\ tree' = IF tree[Hwe(cur)].st = "absent" THEN tree
               ELSE [tree EXCEPT ![Hwe(cur)].name = Hwe(cur)]
    /\ Visited(cur)
    /\ UNCHANGED <<deb, deb112, tree112, at, until, cur, hold, unpack, result,
                   limitVars, noteVars>>
----------------------------------------------------------------------------
(***************************************************************************)
(* run_pack and pack_deb: the output file is removed and built anew from   *)
(* the tmpdir.  For a base package in the top directory it is the source.  *)
(***************************************************************************)
Packing == at # Idle /\ Order[at] \in {"pack_qemu", "pack_libvirt", "pack_112"}

\* A base package comes before its -hwe counterpart.
Turn(p) == p \in todo /\ (p[2] = "base" \/ Base(p) \notin todo)

\* Mutant: a package whose .deb is there is skipped, as in the download loop.
PackSkip_Existing ==
    /\ Packing /\ step = "next"
    /\ \E p \in todo :
          /\ Turn(p)
          /\ \/ ControlDir(p).st = "absent" \/ deb[p].st # "absent"
             \/ resolve_source_deb(p).st # "whole"
          /\ Visited(p)
    /\ UNCHANGED <<dirVars, at, until, cur, hold, unpack, result, limitVars, noteVars>>

\* No control tree, no source .deb, or a source .deb without data.tar: silence.
PackSkip ==
    /\ Packing /\ step = "next"
    /\ \E p \in todo :
          /\ Turn(p)
          /\ ControlDir(p).st = "absent" \/ resolve_source_deb(p).st # "whole"
          /\ Visited(p)
    /\ UNCHANGED <<dirVars, at, until, cur, hold, unpack, result, limitVars, noteVars>>

\* The data.tar of a torn source .deb is listed but cannot be read, or there is
\* no room in tmpdir: the output file has not been touched.
PackFail ==
    /\ Packing /\ step = "next"
    /\ \E p \in todo :
          /\ Turn(p) /\ ControlDir(p).st # "absent"
          /\ resolve_source_deb(p).st # "absent"
    /\ Ends("failed")
    /\ UNCHANGED <<dirVars, cur, hold, unpack, limitVars, noteVars>>

\* Mutant: one tmpdir for all packages, whose data.tar is kept.
PackBegin_OneTmpdir ==
    /\ Packing /\ step = "next"
    /\ \E p \in todo :
          /\ Turn(p) /\ ControlDir(p).st # "absent"
          /\ LET source == resolve_source_deb(p)
             IN  /\ source.st = "whole"
                 /\ hold' = [st |-> "whole", ctl |-> ControlDir(p),
                             data |-> IF hold.st = "whole" THEN hold.data
                                      ELSE source.data]
          /\ cur' = p
    /\ step' = "rm"
    /\ UNCHANGED <<dirVars, at, until, todo, unpack, result, limitVars, noteVars>>

\* The members are gathered in tmpdir.
PackBegin ==
    /\ Packing /\ step = "next"
    /\ \E p \in todo :
          /\ Turn(p) /\ ControlDir(p).st # "absent"
          /\ LET source == resolve_source_deb(p)
             IN  /\ source.st = "whole"
                 /\ hold' = [st |-> "whole", data |-> source.data,
                             ctl |-> ControlDir(p)]
          /\ cur' = p
    /\ step' = "rm"
    /\ UNCHANGED <<dirVars, at, until, todo, unpack, result, limitVars, noteVars>>

\* out_deb: its name has the version that the control file declares.
OutDeb(x) ==
    IF Running("pack_112")
    THEN deb112' = [deb112 EXCEPT ![<<cur, tree112[cur].ver>>] = x] /\ UNCHANGED deb
    ELSE deb' = [deb EXCEPT ![cur] = x] /\ UNCHANGED deb112

\* Mutant: the source file is removed in place of the output file.
PackRemove_Source ==
    /\ step = "rm"
    /\ deb' = [deb EXCEPT ![IF deb[cur].st # "absent" THEN cur ELSE Base(cur)]
                    = NoDeb(cur)]
    /\ step' = "ar"
    /\ UNCHANGED <<deb112, tree, tree112, at, until, todo, cur, hold, unpack, result,
                   limitVars, noteVars>>

PackRemove ==
    /\ step = "rm"
    /\ OutDeb(NoDeb(cur))
    /\ step' = "ar"
    /\ UNCHANGED <<tree, tree112, at, until, todo, cur, hold, unpack, result,
                   limitVars, noteVars>>

PackWrite ==
    /\ step = "ar"
    /\ OutDeb(hold)
    /\ Visited(cur)
    /\ UNCHANGED <<tree, tree112, at, until, cur, hold, unpack, result,
                   limitVars, noteVars>>

\* ar fails, on a full disk for example, and set -e ends the script: the output
\* file is gone, or there is a part of the new one, and tmpdir is forgotten.
PackWriteFail ==
    /\ step = "ar"
    /\ \E x \in {NoDeb(cur), TornDeb(cur)} : OutDeb(x)
    /\ Ends("aborted")
    /\ UNCHANGED <<tree, tree112, cur, hold, unpack, limitVars, noteVars>>

----------------------------------------------------------------------------
(***************************************************************************)
(* generate_hwe_11_2_controls.sh: remove the directory (--clean-dst), copy *)
(* all the -hwe trees, then rewrite the version of every tree in there.    *)
(***************************************************************************)
Clean ==
    /\ Running("clean")
    /\ \E p \in todo :
          /\ tree112' = [tree112 EXCEPT ![p] = NoTree(p)]
          /\ deb112' = [f \in Files112 |-> IF f[1] = p THEN NoDeb(p) ELSE deb112[f]]
          /\ Visited(p)
    /\ UNCHANGED <<deb, tree, at, until, cur, hold, unpack, result, limitVars, noteVars>>

Copy ==
    /\ Running("copy")
    /\ \E p \in todo :
          /\ tree112' = [tree112 EXCEPT ![p] = tree[p]]
          /\ Visited(p)
    /\ UNCHANGED <<deb, tree, deb112, at, until, cur, hold, unpack, result,
                   limitVars, noteVars>>

\* Mutant: the substitution loses the version.
Rewrite_Blank ==
    /\ Running("rewrite")
    /\ \E p \in todo :
          /\ tree112' = [tree112 EXCEPT ![p].ver = ""]
          /\ Visited(p)
    /\ UNCHANGED <<deb, tree, deb112, at, until, cur, hold, unpack, result,
                   limitVars, noteVars>>

\* A torn tree may have no control file to rewrite.
Rewrite ==
    /\ Running("rewrite")
    /\ \E p \in todo :
          /\ tree112' = IF tree112[p].st = "torn" THEN tree112
                        ELSE [tree112 EXCEPT ![p].ver = "new"]
          /\ Visited(p)
    /\ UNCHANGED <<deb, tree, deb112, at, until, cur, hold, unpack, result,
                   limitVars, noteVars>>

----------------------------------------------------------------------------
\* What the interrupted command was writing: a download, a tree, a .deb.
Tear ==
    \/ /\ step = "curl" \/ (step = "ar" /\ ~ Running("pack_112"))
       /\ deb' = [deb EXCEPT ![cur] = TornDeb(cur)]
       /\ UNCHANGED <<tree, deb112, tree112>>
    \/ /\ step = "ar" /\ Running("pack_112")
       /\ deb112' = [deb112 EXCEPT ![<<cur, tree112[cur].ver>>] = TornDeb(cur)]
       /\ UNCHANGED <<deb, tree, tree112>>
    \/ /\ step \in {"clear", "members", "dup"}
       /\ tree' = [tree EXCEPT ![IF step = "dup" THEN Hwe(cur) ELSE cur]
                        = TornTree(cur)]
       /\ UNCHANGED <<deb, deb112, tree112>>
    \/ /\ at # Idle /\ Order[at] \in {"clean", "copy", "rewrite"}
       /\ \E p \in todo : tree112' = [tree112 EXCEPT ![p] = TornTree(p)]
       /\ UNCHANGED <<deb, tree, deb112>>

\* A signal, or any other write that fails: set -e ends the script there.
Kill ==
    /\ at # Idle /\ kills < MaxKills
    /\ kills' = kills + 1
    /\ Tear \/ UNCHANGED dirVars
    /\ Ends("killed")
    /\ UNCHANGED <<cur, hold, unpack, edits, commands, noteVars>>

ScriptStep ==
    \/ NextStage
    \/ FetchSkip \/ FetchStart \/ FetchDone \/ FetchFail
    \/ UnpackClear \/ UnpackControl \/ UnpackDup \/ UnpackRename
    \/ PackSkip \/ PackFail \/ PackBegin \/ PackRemove
    \/ PackWrite \/ PackWriteFail
    \/ Clean \/ Copy \/ Rewrite

Next ==
    \/ Pull \/ Pack \/ Generate \/ PackHwe \/ Prepare \/ Edit
    \/ ScriptStep
    \/ Kill

Spec == Init /\ [][Next]_vars

----------------------------------------------------------------------------
(***************************************************************************)
(* Properties.                                                             *)
(***************************************************************************)
\* Type correctness of the directories and of the running script.
TypeOK ==
    /\ deb \in [Pkgs -> Debs] /\ deb112 \in [Files112 -> Debs]
    /\ tree \in [Pkgs -> Trees] /\ tree112 \in [Stems \X {"hwe"} -> Trees]
    /\ at \in 0..Len(Order) /\ until \in 0..Len(Order)
    /\ todo \in SUBSET Pkgs /\ step \in Steps /\ cur \in Pkgs /\ hold \in Debs
    /\ unpack \in BOOLEAN /\ prepare \in BOOLEAN
    /\ result \in {"none", "finished", "failed", "aborted", "killed"}
    /\ edits \in 0..MaxEdits /\ commands \in 0..MaxCommands /\ kills \in 0..MaxKills
    /\ ready \in SUBSET Pkgs

\* However often packages are packed from their own output, aborted, killed and
\* packed again, a complete .deb carries the payload of its own package.
PayloadKept ==
    /\ \A p \in Pkgs : deb[p].st = "whole" => deb[p].data = p[1]
    /\ \A f \in Files112 : deb112[f].st = "whole" => deb112[f].data = f[1][1]

Prepared == prepare /\ at = Idle /\ result = "finished"

\* A prepare_debs.sh that finishes has packed the present control tree of every
\* package that had a complete source .deb when it started, in both
\* directories, whatever earlier commands left behind.
PrepareComplete ==
    Prepared => \A p \in ready : tree[p].st # "absent" =>
        /\ deb[p].st = "whole" /\ deb[p].ctl = tree[p]
        /\ p \in Qemu \X {"hwe"} /\ tree[p].st = "whole" =>
              deb112[<<p, "new">>] = [deb[p] EXCEPT !.ctl.ver = "new"]

\* A finished prepare_debs.sh leaves in hwe-11.2 nothing of an earlier run: only
\* files of the new version, packed from the trees that are in extracted/ now,
\* even when an earlier generate was killed between copying the trees and
\* rewriting their versions and the result was packed.
Fresh112 ==
    Prepared /\ (\A p \in Pkgs : tree[p].st # "torn") =>
        \A f \in Files112 : deb112[f].st # "absent" =>
            /\ f[2] = "new"
            /\ deb112[f].st = "whole"
            /\ deb112[f].ctl = [tree[f[1]] EXCEPT !.ver = "new"]

\* Although pack_deb removes files that are their own source, a command loses no
\* source .deb when it finishes, and none when it gives up on an input it cannot
\* read; when ar fails or the command is killed, it loses those of the one
\* package it was packing at most.
SourcesSurvive ==
    LET lost == {p \in ready : resolve_source_deb(p).st # "whole"}
    IN  at = Idle =>
            /\ result \in {"finished", "failed"} => lost = {}
            /\ \A p, q \in lost : p[1] = q[1]

\* Unless a command was killed, the control of a libvirt .deb names the package
\* its file name promises.
LibvirtNames ==
    kills = 0 => \A p \in Pkgs :
        p[1] \in Libvirt /\ deb[p].st = "whole" => deb[p].ctl.name = p

\* --pack: "Rebuild .deb from modified control/ folders (also *-hwe)": a package
\* whose base .deb is complete is rebuilt.
PackRebuilds ==
    Prepared => \A p \in Pkgs :
        tree[p].st = "whole" /\ deb[Base(p)].st = "whole" =>
            deb[p].st = "whole" /\ deb[p].ctl = tree[p]
=============================================================================
