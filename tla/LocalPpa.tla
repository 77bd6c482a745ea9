------------------------------ MODULE LocalPpa ------------------------------
(***************************************************************************)
(* The local package archive: publish_local_ppa of scripts/setup.sh and    *)
(* scripts/update_local_ppa_from_dir.sh.  Both empty a live archive        *)
(* directory, copy the .deb files of a source directory into it, index it  *)
(* and, unless --skip-apt-update says otherwise, point apt at it and run   *)
(* apt-get update.  Their default directories differ.                      *)
(*                                                                         *)
(* One script runs at a time, and may stop or be killed between any two    *)
(* writes.  apt, which others use at any time, is external: it keeps a     *)
(* copy of the index it last read and fetches files by that copy.          *)
(***************************************************************************)
EXTENDS Naturals, FiniteSets

CONSTANTS Pkgs,         \* package names
          MaxVersion,   \* bound: versions of a package
          Dirs,         \* archive directories
          MaxCommands,  \* bound: scripts started
          MaxDeliveries,\* bound: changes of the source directory
          MaxKills      \* bound: killed scripts

ASSUME PpaAssumption ==
    /\ MaxVersion \in Nat /\ MaxCommands \in Nat
    /\ MaxDeliveries \in Nat /\ MaxKills \in Nat

NoDir    == "none"

ASSUME DirsAssumption == Dirs # {} /\ NoDir \notin Dirs

Versions == 1..MaxVersion
Debs     == Pkgs \X Versions

\* An index lists one version of a package, or none (0).
Listing  == [Pkgs -> 0..MaxVersion]
NoEntry  == [p \in Pkgs |-> 0]
Indexes  == [st : {"absent", "torn", "whole"}, of : Listing]
NoIndex  == [st |-> "absent", of |-> NoEntry]
Torn     == [st |-> "torn", of |-> NoEntry]

\* dpkg-scanpackages lists the newest version of every package (external).
Newest(S) == [p \in Pkgs |->
    IF \E v \in Versions : <<p, v>> \in S
    THEN CHOOSE v \in Versions :
            <<p, v>> \in S /\ \A w \in Versions : <<p, w>> \in S => w <= v
    ELSE 0]

VARIABLES
    source,    \* the .deb files of the source directory
    bad,       \* those of them that were delivered incomplete
    files,     \* the .deb files of each archive directory
    broken,    \* those that a killed cp left incomplete
    index,     \* Packages
    gz,        \* Packages.gz
    list,      \* the directory that local-ppa.list names
    cache,     \* apt's copy of an index, and the directory it came from
    pc,        \* the running script
    script,    \* which script it is: "setup" or "update"
    dir,       \* its archive directory
    skip,      \* --skip-apt-update, or there is no apt-get
    todo,      \* built_debs, those still to copy
    commands, deliveries, kills,
    \* History variables, read by no action.
    wanted,    \* the files the script found, until something else happens
    partial,   \* directories the last script did not finish
    dirty      \* directories changed since apt last read their finished index

archiveVars == <<files, broken, index, gz>>
aptVars     == <<list, cache>>
runVars     == <<pc, script, dir, skip, todo>>
limitVars   == <<commands, deliveries, kills>>
vars == <<source, bad, archiveVars, aptVars, runVars, limitVars, wanted, partial,
          dirty>>

----------------------------------------------------------------------------
Init ==
    /\ source \in SUBSET Debs /\ bad = {}
    /\ files = [d \in Dirs |-> {}] /\ broken = [d \in Dirs |-> {}]
    /\ index = [d \in Dirs |-> NoIndex] /\ gz = [d \in Dirs |-> NoIndex]
    /\ list = NoDir /\ cache = [dir |-> NoDir, of |-> NoEntry]
    /\ pc = "idle" /\ script = "setup" /\ dir \in Dirs /\ skip = FALSE
    /\ todo = {}
    /\ commands = 0 /\ deliveries = 0 /\ kills = 0
    /\ wanted = {} /\ partial = {} /\ dirty = {}

\* New .deb files, perhaps older or incomplete ones (see Drivers).
Deliver ==
    /\ pc = "idle" /\ deliveries < MaxDeliveries
    /\ deliveries' = deliveries + 1
    /\ source' \in SUBSET Debs
    /\ bad' \in {{}} \cup {{f} : f \in source'}
    /\ UNCHANGED <<archiveVars, aptVars, runVars, commands, kills, wanted, partial,
                   dirty>>

Ends == pc' = "idle" /\ todo' = {}

\* Either script finds its files first; without any, setup.sh goes on and
\* update_local_ppa_from_dir.sh exits with an error, the archive untouched.
Command(which, skips) ==
    /\ pc = "idle" /\ commands < MaxCommands
    /\ commands' = commands + 1
    /\ script' = which /\ skip' = skips /\ dir' \in Dirs
    /\ todo' = source
    /\ pc' = IF source = {} THEN "idle" ELSE "clear"
    /\ wanted' = {}
    /\ UNCHANGED <<source, bad, archiveVars, aptVars, deliveries, kills,
                   partial, dirty>>

Setup  == Command("setup", FALSE)
Update == \E skips \in BOOLEAN : Command("update", skips)

----------------------------------------------------------------------------
(***************************************************************************)
(* The steps of publish_local_ppa and of the update script.                *)
(***************************************************************************)
\* Mutant: rm cleans the directory apt knows, not the one given.
Clear_Listed ==
    LET at == IF list = NoDir THEN dir ELSE list IN
    /\ pc = "clear"
    /\ \E f \in files[at] :
          /\ files' = [files EXCEPT ![at] = @ \ {f}]
          /\ broken' = [broken EXCEPT ![at] = @ \ {f}]
          /\ UNCHANGED <<index, gz>>
    /\ partial' = partial \cup {dir} /\ dirty' = dirty \cup {dir}
    /\ UNCHANGED <<source, bad, aptVars, runVars, limitVars, wanted>>

\* rm, one file after the other.
Clear ==
    /\ pc = "clear"
    /\ \/ \E f \in files[dir] :
             /\ files' = [files EXCEPT ![dir] = @ \ {f}]
             /\ broken' = [broken EXCEPT ![dir] = @ \ {f}]
             /\ UNCHANGED <<index, gz>>
       \/ /\ index[dir] # NoIndex
          /\ index' = [index EXCEPT ![dir] = NoIndex]
          /\ UNCHANGED <<files, broken, gz>>
       \/ /\ gz[dir] # NoIndex
          /\ gz' = [gz EXCEPT ![dir] = NoIndex]
          /\ UNCHANGED <<files, broken, index>>
    /\ partial' = partial \cup {dir} /\ dirty' = dirty \cup {dir}
    /\ UNCHANGED <<source, bad, aptVars, runVars, limitVars, wanted>>

\* Mutant: the old .deb files stay.
Cleared_KeepDebs ==
    /\ pc = "clear"
    /\ pc' = "copy"
    /\ UNCHANGED <<source, bad, archiveVars, aptVars, script, dir, skip, todo,
                   limitVars, wanted, partial, dirty>>

Cleared ==
    /\ pc = "clear"
    /\ files[dir] = {} /\ index[dir] = NoIndex /\ gz[dir] = NoIndex
    /\ pc' = "copy"
    /\ UNCHANGED <<source, bad, archiveVars, aptVars, script, dir, skip, todo,
                   limitVars, wanted, partial, dirty>>

\* cp -f "${built_debs[@]}".
Copy ==
    /\ pc = "copy"
    /\ \E f \in todo :
          /\ files' = [files EXCEPT ![dir] = @ \cup {f}]
          /\ broken' = [broken EXCEPT ![dir] = @ \ {f}]
          /\ todo' = todo \ {f}
    /\ partial' = partial \cup {dir} /\ dirty' = dirty \cup {dir}
    /\ UNCHANGED <<source, bad, index, gz, aptVars, pc, script, dir, skip,
                   limitVars, wanted>>

\* The redirection truncates Packages.
Copied ==
    /\ pc = "copy" /\ todo = {}
    /\ index' = [index EXCEPT ![dir] = Torn]
    /\ pc' = "scan"
    /\ UNCHANGED <<source, bad, files, broken, gz, aptVars, script, dir, skip, todo,
                   limitVars, wanted, partial, dirty>>

\* dpkg-scanpackages reads the control member of every file, and its size and
\* checksum: a file that was cut in its control member stops it, one that was
\* cut in its data member is listed as it is.
Scan ==
    /\ pc = "scan"
    /\ \/ bad # {} /\ Ends /\ UNCHANGED <<index, gz>>
       \/ /\ index' = [index EXCEPT ![dir] =
                            [st |-> "whole", of |-> Newest(files[dir])]]
          /\ gz' = [gz EXCEPT ![dir] = Torn]
          /\ pc' = "gzip" /\ UNCHANGED todo
    /\ UNCHANGED <<source, bad, files, broken, aptVars, script, dir, skip,
                   limitVars, wanted, partial, dirty>>

Gzip ==
    /\ pc = "gzip"
    /\ gz' = [gz EXCEPT ![dir] = index[dir]]
    /\ IF skip THEN Ends ELSE pc' = "list" /\ UNCHANGED todo
    /\ partial' = partial \ {dir}
    /\ UNCHANGED <<source, bad, files, broken, index, aptVars, script, dir, skip,
                   limitVars, wanted, dirty>>

\* Mutant: the directory's name is lost on the way into the list.
WriteList_Blank ==
    /\ pc = "list"
    /\ list' = ""
    /\ pc' = "idle" /\ todo' = {}
    /\ UNCHANGED <<source, bad, archiveVars, cache, script, dir, skip,
                   limitVars, wanted, partial, dirty>>

\* local-ppa.list.
WriteList ==
    /\ pc = "list"
    /\ list' = dir
    /\ pc' = "update"
    /\ UNCHANGED <<source, bad, archiveVars, cache, script, dir, skip, todo,
                   limitVars, wanted, partial, dirty>>

\* Neither root nor sudo: the archive is new, apt's view of it is not.
Denied ==
    /\ pc = "list" /\ script = "update"
    /\ Ends
    /\ UNCHANGED <<source, bad, archiveVars, aptVars, script, dir, skip, limitVars,
                   wanted, partial, dirty>>

\* apt-get update (external): apt reads Packages, as far as it goes, or
\* Packages.gz of the listed directory.
Read ==
    /\ list # NoDir
    /\ \E x \in {index[list], gz[list]} :
          /\ x.st = "whole" \/ (x.st = "torn" /\ x = index[list])
          /\ cache' = [dir |-> list, of |-> x.of]
    /\ dirty' = dirty \ ({list} \ partial)

AptGetUpdate ==
    /\ pc = "update"
    /\ Read
    /\ Ends
    /\ wanted' = source
    /\ UNCHANGED <<source, bad, archiveVars, list, script, dir, skip, limitVars,
                   partial>>

----------------------------------------------------------------------------
\* Somebody else runs apt-get update, also in the middle of a script.
OtherUpdate ==
    /\ pc # "update"
    /\ Read
    /\ UNCHANGED <<source, bad, archiveVars, list, runVars, limitVars, wanted,
                   partial>>

\* A killed cp leaves its last file incomplete, a killed dpkg-scanpackages some
\* entries.
Kill ==
    /\ pc # "idle" /\ kills < MaxKills
    /\ kills' = kills + 1
    /\ \/ /\ pc = "copy"
          /\ \E f \in todo :
                /\ files' = [files EXCEPT ![dir] = @ \cup {f}]
                /\ broken' = [broken EXCEPT ![dir] = @ \cup {f}]
          /\ partial' = partial \cup {dir} /\ dirty' = dirty \cup {dir}
          /\ UNCHANGED index
       \/ /\ pc = "scan"
          /\ \E S \in SUBSET Pkgs :
                index' = [index EXCEPT ![dir].of =
                    [p \in Pkgs |-> IF p \in S THEN Newest(files[dir])[p] ELSE 0]]
          /\ UNCHANGED <<files, broken, partial, dirty>>
       \/ UNCHANGED <<files, broken, index, partial, dirty>>
    /\ Ends
    /\ UNCHANGED <<source, bad, gz, aptVars, script, dir, skip, commands,
                   deliveries, wanted>>

Next ==
    \/ Deliver \/ Setup \/ Update
    \/ Clear \/ Cleared \/ Copy \/ Copied \/ Scan \/ Gzip
    \/ WriteList \/ Denied \/ AptGetUpdate
    \/ OtherUpdate \/ Kill

Spec == Init /\ [][Next]_vars

----------------------------------------------------------------------------
(***************************************************************************)
(* Properties.                                                             *)
(***************************************************************************)
\* Type correctness of the archive, of apt's state and of the script.
TypeOK ==
    /\ source \in SUBSET Debs /\ bad \in SUBSET Debs
    /\ files \in [Dirs -> SUBSET Debs] /\ broken \in [Dirs -> SUBSET Debs]
    /\ index \in [Dirs -> Indexes] /\ gz \in [Dirs -> Indexes]
    /\ list \in Dirs \cup {NoDir}
    /\ cache \in [dir : Dirs \cup {NoDir}, of : Listing]
    /\ pc \in {"idle", "clear", "copy", "scan", "gzip", "list", "update"}
    /\ script \in {"setup", "update"} /\ dir \in Dirs /\ skip \in BOOLEAN
    /\ todo \in SUBSET Debs /\ wanted \in SUBSET Debs
    /\ partial \in SUBSET Dirs /\ dirty \in SUBSET Dirs
    /\ commands \in 0..MaxCommands /\ deliveries \in 0..MaxDeliveries
    /\ kills \in 0..MaxKills

\* apt can fetch p as its copy of the index lists it: the archive has that file,
\* and all of it.  A file that was delivered incomplete is fetched, too.
Fetchable(p) ==
    LET f == <<p, cache.of[p]>>
    IN  f \in files[cache.dir] \ broken[cache.dir]

\* A script that went through to apt-get update leaves apt with the newest
\* version of every package it found, as it was delivered, and with no other
\* package, whatever versions, half copies and half indexes earlier scripts had
\* left behind.
Published ==
    wanted # {} => cache.of = Newest(wanted) /\ \A p \in Pkgs :
        cache.of[p] # 0 => Fetchable(p)

\* A package that apt offers can be fetched, unless the very directory apt
\* knows was changed, and apt has not read it since a script finished there: a
\* script on another directory does no harm, whether it finishes or not, and
\* any apt-get update after --skip-apt-update heals the archive, but not after
\* a kill.
Offered ==
    \A p \in Pkgs : cache.of[p] # 0 => Fetchable(p) \/ cache.dir \in dirty
=============================================================================
