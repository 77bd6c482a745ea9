--------------------------- MODULE SourceControl ---------------------------
(***************************************************************************)
(* The tools that turn a source package into its -hwe variant:             *)
(*   create-hwe.py                renames the packages of debian/control,  *)
(*   gen-hwe.py                   prepares the base packages' stanzas,     *)
(*   hwe-rename-maintscripts.py   renames the files debian/<package>.*,    *)
(*   hwe-gencontrol.py and        edit the built trees debian/<package>/   *)
(*   debian/hwe-gencontrol.py     before they become .deb files.           *)
(*                                                                         *)
(* They are started by hand, in any order and again.  One runs at a time;  *)
(* it may be killed between or inside two writes.  A name is a stem and    *)
(* the number of its -hwe suffixes.  Relations have no versions, and the   *)
(* relation fields that are only renamed are represented by Depends.       *)
(***************************************************************************)
EXTENDS Naturals, FiniteSets

CONSTANTS Stems,        \* binary packages, without suffix
          Virt,         \* ubuntu-virt, which the tools treat apart
          Kinds,        \* suffixes of maintainer files: .install, .postinst...
          Above,        \* the fields that stand above each field in a stanza
          MaxCommands,  \* bound: tools and builds started
          MaxAdds,      \* bound: maintainer files written by the developer
          MaxKills      \* bound: killed tools

ASSUME StemsAssumption == Virt \notin Stems /\ Stems # {}

ASSUME SourceAssumption == "Source" \notin Stems \cup {Virt}

ASSUME LimitsAssumption ==
    MaxCommands \in Nat /\ MaxAdds \in Nat /\ MaxKills \in Nat

----------------------------------------------------------------------------
(***************************************************************************)
(* Names, stanzas and control files.                                       *)
(***************************************************************************)
Packages == Stems \cup {Virt}
Stanzas  == Packages \cup {"Source"}
Suffixes == 0..3
Names    == Packages \X Suffixes
Fields   == {"Depends", "Conflicts", "Replaces", "Provides"}
Relation == [Fields -> SUBSET Names]

ASSUME FieldsAssumption ==
    Above \in [Fields -> SUBSET Fields] /\ \A f \in Fields : f \notin Above[f]

Suffixed(x) == <<x[1], x[2] + 1>>

ubuntu_virt     == <<Virt, 0>>
ubuntu_virt_hwe == <<Virt, 1>>

NoRelation == [f \in Fields |-> {}]

\* The stanzas of a control file, the suffixes of their Package or Source, the
\* packages' relations, and the stanza in the middle of which the file ends, if
\* its writing was cut short.
Text == [there : SUBSET Stanzas, suffix : [Stanzas -> Suffixes],
         rel : [Packages -> Relation], cut : SUBSET Stanzas]

Empty == [there |-> {}, suffix |-> [s \in Stanzas |-> 0],
          rel |-> [p \in Packages |-> NoRelation], cut |-> {}]

Files == {"control", "output"}

NameIn(t, p) == <<p, t.suffix[p]>>
NamesIn(t)   == {NameIn(t, p) : p \in t.there \cap Packages}

VARIABLES
    text,      \* debian/control and the file create-hwe.py -o writes
    present,   \* the ones that exist
    original,  \* debian/control as committed
    build,     \* the DEBIAN/control files of the built trees; a tree without a
               \* readable Package field is built but not there
    built,     \* the built trees, by the name their directory has
    maint,     \* the files debian/<package>.<kind>: 0 none, else their content
    tracked,   \* those git knows
    tool,      \* the running tool
    target,    \* the file it writes
    pending,   \* what it writes there
    names,     \* the names it replaces
    todo,      \* the trees, or files, its loop has still to visit
    commands, adds, kills,
    \* History variables, read by no action.
    wrote,     \* the tools that had a part in each control file
    writing,   \* the same of the text being written
    rewritten, \* names listed for debian/hwe-gencontrol.py, when it ended well
               \* and the trees were not touched since
    moved,     \* stems hwe-rename-maintscripts.py deals with, or dealt with
               \* when it ended well, and no file was written for since
    made       \* every maintainer file there ever was

fileVars  == <<text, present>>
treeVars  == <<build, built>>
maintVars == <<maint, tracked>>
runVars   == <<tool, target, pending, names, todo>>
limitVars == <<commands, adds, kills>>
vars == <<fileVars, original, treeVars, maintVars, runVars, limitVars,
          wrote, writing, rewritten, moved, made>>

MaintFiles == Stems \X Kinds \X {0, 1}

----------------------------------------------------------------------------
(***************************************************************************)
(* process_control_text of create-hwe.py and of gen-hwe.py.                *)
(***************************************************************************)
\* rename_package_words: whole tokens only, so that the order of the
\* replacements is immaterial as long as no name is another one's suffixed form.
rename_package_words(S, replaced) ==
    {IF x \in replaced THEN Suffixed(x) ELSE x : x \in S}

\* Step 1: the packages to rename, but for those whose name starts with
\* ubuntu-virt.
package_list(t) == t.there \cap Stems

\* Mutant: the output may be given to the tool again.
AlreadyHwe_Never(t) == FALSE

\* A Package or the Source with the suffix raises ValueError.
AlreadyHwe(t) ==
    \E s \in t.there \ {Virt} : t.suffix[s] > 0

\* Mutant: only the stanza's own name is replaced in its relations.
RenamedRelation_Own(r, p, replaced) ==
    [f \in Fields |->
        rename_package_words(r[f], {<<p, 0>>})
        \cup CASE f = "Conflicts" -> {ubuntu_virt}
               [] f = "Provides"  -> {ubuntu_virt_hwe, <<p, 0>>}
               [] f = "Replaces"  -> {<<p, 0>>}
               [] OTHER           -> {}]

\* Mutant: a field the stanza does not have is not inserted.
RenamedRelation_NoInsert(r, p, replaced) ==
    [f \in {g \in Fields : r[g] # {}} |-> rename_package_words(r[f], replaced)]

\* Mutant: the renamed package gets gen-hwe.py's dependency as well.
RenamedRelation_Depends(r, p, replaced) ==
    [f \in Fields |->
        rename_package_words(r[f], replaced)
        \cup CASE f = "Provides" -> {ubuntu_virt_hwe, <<p, 0>>}
               [] f = "Replaces" -> {<<p, 0>>}
               [] OTHER          -> {ubuntu_virt}]

\* Steps 2 and 3 for the stanza of p.
RenamedRelation(r, p, replaced) ==
    [f \in Fields |->
        rename_package_words(r[f], replaced)
        \cup CASE f = "Conflicts" -> {ubuntu_virt}
               [] f = "Provides"  -> {ubuntu_virt_hwe, <<p, 0>>}
               [] f = "Replaces"  -> {<<p, 0>>}
               [] OTHER           -> {}]

\* Mutant: step 4 is left out.
create_hwe_NoSource(t) ==
    LET list     == package_list(t)
        replaced == {<<p, 0>> : p \in list}
    IN  [there  |-> t.there,
         suffix |-> [s \in Stanzas |-> IF s \in list THEN t.suffix[s] + 1
                                       ELSE t.suffix[s]],
         rel    |-> [p \in Packages |->
                        IF p \in list THEN RenamedRelation(t.rel[p], p, replaced)
                        ELSE t.rel[p]],
         cut    |-> t.cut]

create_hwe(t) ==
    LET list     == package_list(t)
        replaced == {<<p, 0>> : p \in list}
    IN  [there  |-> t.there,
         suffix |-> [s \in Stanzas |->
                        IF s \in list \cup (t.there \cap {"Source"})
                        THEN t.suffix[s] + 1 ELSE t.suffix[s]],
         rel    |-> [p \in Packages |->
                        IF p \in list THEN RenamedRelation(t.rel[p], p, replaced)
                        ELSE t.rel[p]],
         cut    |-> t.cut]

\* A base package: it needs ubuntu-virt and may overwrite its counterpart.
BaseRelation(r, x) ==
    [r EXCEPT !.Replaces = @ \cup {Suffixed(x)}, !.Depends = @ \cup {ubuntu_virt}]

gen_hwe(t) ==
    [t EXCEPT !.rel = [p \in Packages |->
                          IF p \in t.there THEN BaseRelation(t.rel[p], NameIn(t, p))
                          ELSE t.rel[p]]]

----------------------------------------------------------------------------
\* A source with any dependencies between its packages, with or without a
\* package ubuntu-virt, and the maintainer files of some packages.
Init ==
    /\ \E needs \in {g \in [Stems -> SUBSET Stems] : \A s \in Stems : s \notin g[s]},
          meta \in SUBSET {Virt} :
          original = [there  |-> Stems \cup {"Source"} \cup meta,
                      suffix |-> [s \in Stanzas |-> 0],
                      rel    |-> [p \in Packages |->
                          IF p = Virt THEN NoRelation
                          ELSE [NoRelation EXCEPT !.Depends = needs[p] \X {0}]],
                      cut    |-> {}]
    /\ text = [f \in Files |-> IF f = "control" THEN original ELSE Empty]
    /\ present = {"control"}
    /\ build = Empty /\ built = {}
    /\ \E old \in SUBSET (Stems \X Kinds) :
          /\ tracked = {<<m[1], m[2], 0>> : m \in old}
          /\ made = {<<m[1], m[2], 1>> : m \in old}
    /\ maint = [m \in MaintFiles |-> IF m \in tracked THEN 1 ELSE 0]
    /\ tool = "none" /\ target = "control" /\ pending = Empty
    /\ names = {} /\ todo = {}
    /\ commands = 0 /\ adds = 0 /\ kills = 0
    /\ wrote = [f \in Files |-> {}] /\ writing = {} /\ rewritten = {} /\ moved = {}

Start ==
    /\ tool = "none" /\ commands < MaxCommands
    /\ commands' = commands + 1
    /\ UNCHANGED <<original, adds, kills>>

Ends == tool' = "none" /\ todo' = {} /\ names' = {} /\ pending' = Empty

----------------------------------------------------------------------------
(***************************************************************************)
(* create-hwe.py IN [-o OUT] and gen-hwe.py FILE: the whole text is read,  *)
(* transformed and written back.                                           *)
(***************************************************************************)
\* A file that would stay as it is is not written in place.
Writes(in, out, new, by) ==
    IF in = out /\ new = text[in]
    THEN UNCHANGED <<runVars, writing>>
    ELSE /\ tool' = "write" /\ target' = out /\ pending' = new
         /\ writing' = wrote[in] \cup {by}
         /\ UNCHANGED <<names, todo>>

CreateHwe == \E in \in present, out \in Files :
    /\ Start
    /\ IF AlreadyHwe(text[in])
       THEN UNCHANGED <<runVars, writing>>                     \* return 1
       ELSE Writes(in, out, create_hwe(text[in]), "create-hwe")
    /\ UNCHANGED <<fileVars, treeVars, maintVars, wrote, rewritten, moved, made>>

GenHwe == \E file \in present :
    /\ Start
    /\ Writes(file, file, gen_hwe(text[file]), "gen-hwe")
    /\ UNCHANGED <<fileVars, treeVars, maintVars, wrote, rewritten, moved, made>>

\* The target holds t, all of the pending text or what a kill left of it.
Holds(t) ==
    /\ text' = [text EXCEPT ![target] = t]
    /\ present' = present \cup {target}
    /\ wrote' = [wrote EXCEPT ![target] = writing]

\* write_text.
Write ==
    /\ tool = "write"
    /\ Holds(pending)
    /\ Ends
    /\ UNCHANGED <<original, treeVars, maintVars, target, limitVars, writing,
                   rewritten, moved, made>>

----------------------------------------------------------------------------
(***************************************************************************)
(* The built trees.                                                        *)
(***************************************************************************)
\* A package build (external) fills debian/<package>/ from debian/control.
Build ==
    /\ Start
    /\ "Source" \in text["control"].there
    /\ build' = [text["control"] EXCEPT !.there = @ \cap Packages]
    /\ built' = NamesIn(text["control"])
    /\ rewritten' = {}
    /\ UNCHANGED <<fileVars, maintVars, runVars, wrote, writing, moved, made>>

\* hwe-gencontrol.py visits debian/*/DEBIAN/control.
PatchStart ==
    /\ Start
    /\ tool' = "patch" /\ todo' = {x[1] : x \in built}
    /\ UNCHANGED <<fileVars, treeVars, maintVars, target, pending, names,
                   wrote, writing, rewritten, moved, made>>

\* update_control_file.
Patched(p) == [build EXCEPT !.rel[p] = BaseRelation(@, NameIn(build, p))]

\* A file without Package field raises ValueError.
Patch ==
    /\ tool = "patch"
    /\ \E p \in todo :
          IF p \in build.there
          THEN /\ build' = Patched(p)
               /\ todo' = todo \ {p}
               /\ UNCHANGED <<tool, names, pending>>
          ELSE Ends /\ UNCHANGED build
    /\ rewritten' = {}
    /\ UNCHANGED <<fileVars, original, built, maintVars, target, limitVars, wrote,
                   writing, moved, made>>

\* Mutant: a tree whose Package has its suffix is taken for done, and its name
\* is left out of the list.
RewriteStart_Resume ==
    /\ Start
    /\ "Source" \in text["control"].there
    /\ tool' = "rewrite"
    /\ names' = {x \in NamesIn(text["control"]) :
                    x[1] \in build.there => NameIn(build, x[1]) = x}
    /\ todo' = {x[1] : x \in built \cap NamesIn(text["control"])}
    /\ rewritten' = {}
    /\ UNCHANGED <<fileVars, treeVars, maintVars, target, pending,
                   wrote, writing, moved, made>>

\* debian/hwe-gencontrol.py: the names come from dh_listpackages, which reads
\* debian/control; a listed package that was not built is passed over.
RewriteStart ==
    /\ Start
    /\ "Source" \in text["control"].there
    /\ tool' = "rewrite"
    /\ names' = NamesIn(text["control"])
    /\ todo' = {x[1] : x \in built \cap NamesIn(text["control"])}
    /\ rewritten' = {}
    /\ UNCHANGED <<fileVars, treeVars, maintVars, target, pending,
                   wrote, writing, moved, made>>

\* rewrite_package_folder: every name, in the Package field and in the
\* relations alike.
Rewritten(p) ==
    [build EXCEPT
        !.suffix[p] = IF p \in build.there /\ NameIn(build, p) \in names
                      THEN @ + 1 ELSE @,
        !.rel[p] = [f \in Fields |-> rename_package_words(@[f], names)]]

Rewrite ==
    /\ tool = "rewrite"
    /\ \E p \in todo : build' = Rewritten(p) /\ todo' = todo \ {p}
    /\ UNCHANGED <<fileVars, original, built, maintVars, tool, target, pending,
                   names, limitVars, wrote, writing, rewritten, moved, made>>

----------------------------------------------------------------------------
(***************************************************************************)
(* hwe-rename-maintscripts.py.                                             *)
(***************************************************************************)
Exists(m) == maint[m] # 0

\* find_rename_pairs, for the packages of debian/control without their suffix.
RenameStart ==
    /\ Start
    /\ tool' = "rename"
    /\ moved' = package_list(text["control"])
    /\ todo' = {m \in MaintFiles :
                   /\ m[1] \in package_list(text["control"]) /\ m[3] = 0
                   /\ Exists(m) /\ ~ Exists(<<m[1], m[2], 1>>)}
    /\ UNCHANGED <<fileVars, treeVars, maintVars, target, pending, names,
                   wrote, writing, rewritten, made>>

\* Mutant: the exit status of git mv is not looked at.
Rename_NoCheck ==
    /\ tool = "rename"
    /\ \E m \in todo :
          LET to == <<m[1], m[2], 1>> IN
          /\ IF m \in tracked /\ Exists(m) /\ ~ Exists(to)
             THEN /\ maint' = [maint EXCEPT ![to] = maint[m], ![m] = 0]
                  /\ tracked' = (tracked \ {m}) \cup {to}
             ELSE UNCHANGED maintVars
          /\ todo' = todo \ {m}
    /\ UNCHANGED <<tool, names, pending, fileVars, original, treeVars, target,
                   limitVars, wrote, writing, rewritten, moved, made>>

\* Mutant: mv in place of git mv, which overwrites a file written meanwhile.
Rename_Force ==
    /\ tool = "rename"
    /\ \E m \in todo :
          LET to == <<m[1], m[2], 1>> IN
          /\ maint' = [maint EXCEPT ![to] = maint[m], ![m] = 0]
          /\ tracked' = (tracked \ {m}) \cup {to}
          /\ todo' = todo \ {m}
    /\ UNCHANGED <<tool, names, pending, fileVars, original, treeVars, target,
                   limitVars, wrote, writing, rewritten, moved, made>>

\* git mv refuses a file it does not know and a target that exists by now; the
\* files already renamed stay so.
Rename ==
    /\ tool = "rename"
    /\ \E m \in todo :
          LET to == <<m[1], m[2], 1>> IN
          IF m \in tracked /\ Exists(m) /\ ~ Exists(to)
          THEN /\ maint' = [maint EXCEPT ![to] = maint[m], ![m] = 0]
               /\ tracked' = (tracked \ {m}) \cup {to}
               /\ todo' = todo \ {m}
               /\ UNCHANGED <<tool, names, pending, moved>>
          ELSE Ends /\ moved' = {} /\ UNCHANGED maintVars
    /\ UNCHANGED <<fileVars, original, treeVars, target, limitVars, wrote, writing,
                   rewritten, made>>

\* The end of a loop.
Finish ==
    /\ tool \in {"patch", "rewrite", "rename"} /\ todo = {}
    /\ Ends
    /\ rewritten' = IF tool = "rewrite" THEN NamesIn(text["control"]) ELSE rewritten
    /\ UNCHANGED <<fileVars, original, treeVars, maintVars, target, limitVars,
                   wrote, writing, moved, made>>

----------------------------------------------------------------------------
(***************************************************************************)
(* The developer, and kills.                                               *)
(***************************************************************************)
\* git checkout debian/control.
Checkout ==
    /\ Start
    /\ text' = [text EXCEPT !["control"] = original]
    /\ wrote' = [wrote EXCEPT !["control"] = {}]
    /\ UNCHANGED <<present, treeVars, maintVars, runVars, writing, rewritten,
                   moved, made>>

\* A maintainer file is written anew, also while a tool runs, and perhaps
\* before git add.
AddFile ==
    /\ adds < MaxAdds
    /\ adds' = adds + 1
    /\ \E m \in MaintFiles, known \in BOOLEAN :
          /\ ~ Exists(m)
          /\ maint' = [maint EXCEPT ![m] = adds + 2]
          /\ tracked' = IF known THEN tracked \cup {m} ELSE tracked \ {m}
          /\ made' = made \cup {<<m[1], m[2], adds + 2>>}
          /\ moved' = moved \ {m[1]}
    /\ UNCHANGED <<fileVars, original, treeVars, runVars, commands, kills, wrote,
                   writing, rewritten>>

\* What is left of the names of a field that is cut short: some of them, one of
\* which may have lost its -hwe.  A word that is cut elsewhere names no package.
CutNames(N) ==
    (SUBSET N) \cup UNION {{A \cup {<<x[1], x[2] - 1>>} : A \in SUBSET (N \ {x})}
                             : x \in {y \in N : y[2] > 0}}

\* Of a stanza's relations: a part of one field, and the fields above it.
CutRelation(r) ==
    UNION {{[f \in Fields |-> IF f = g THEN N ELSE IF f \in Above[g] THEN r[f] ELSE {}]
              : N \in CutNames(r[g])} : g \in Fields}

\* The stanzas in S, with n suffixes of s and its relations as in r.
CutTo(t, S, s, n, r) ==
    [there  |-> S,
     suffix |-> [t.suffix EXCEPT ![s] = n],
     rel    |-> [p \in Packages |-> IF p = s THEN r
                                    ELSE IF p \in S THEN t.rel[p] ELSE NoRelation],
     cut    |-> {s}]

\* What is left of a text whose writing was cut short: nothing, the stanzas up to
\* some point, or also a part of one more.  A text that was cut before ends there.
CutAfter(t, S) ==
    [t EXCEPT !.there = S,
              !.rel = [p \in Packages |-> IF p \in S THEN t.rel[p] ELSE NoRelation],
              !.cut = @ \cap S]

CutIn(t, S, s) ==
    {CutTo(t, S, s, n, NoRelation) : n \in {0, t.suffix[s]}}
    \cup IF s \in Packages
         THEN {CutTo(t, S, s, t.suffix[s], r) : r \in CutRelation(t.rel[s])} ELSE {}

Cut(t) ==
    LET heads == {S \in SUBSET t.there : t.there \cap {"Source"} \subseteq S}
    IN  {Empty} \cup {CutAfter(t, S) : S \in heads}
        \cup UNION {UNION {CutIn(t, S, s) : s \in {u \in S : t.cut \cap S \subseteq {u}}}
                      : S \in heads}

\* A tree's control file, cut short: fields are gone, or Package too.
CutTree(new, p) ==
    {[new EXCEPT !.there = @ \ {p}, !.rel[p] = NoRelation]}
    \cup {[new EXCEPT !.suffix[p] = n, !.rel[p] = NoRelation]
            : n \in {k \in Suffixes : k <= new.suffix[p] /\ new.suffix[p] <= k + 1}}
    \cup {[new EXCEPT !.rel[p] = r] : r \in CutRelation(new.rel[p])}

Kill ==
    /\ tool # "none" /\ kills < MaxKills
    /\ kills' = kills + 1
    /\ \/ /\ tool = "write"
          /\ \E t \in Cut(pending) : Holds(t)
          /\ UNCHANGED <<build, rewritten>>
       \/ /\ \E p \in todo :
                \/ /\ tool = "patch" /\ p \in build.there /\ Patched(p) # build
                   /\ build' \in CutTree(Patched(p), p)
                \/ /\ tool = "rewrite" /\ Rewritten(p) # build
                   /\ build' \in CutTree(Rewritten(p), p)
          /\ rewritten' = {}
          /\ UNCHANGED <<fileVars, wrote>>
       \/ UNCHANGED <<fileVars, build, wrote, rewritten>>
    /\ moved' = IF tool = "rename" THEN {} ELSE moved
    /\ Ends
    /\ UNCHANGED <<original, built, maintVars, target, commands, adds, writing,
                   made>>

Next ==
    \/ CreateHwe \/ GenHwe \/ Write
    \/ Build \/ PatchStart \/ Patch \/ RewriteStart \/ Rewrite
    \/ RenameStart \/ Rename
    \/ Finish
    \/ Checkout \/ AddFile \/ Kill

Spec == Init /\ [][Next]_vars

----------------------------------------------------------------------------
(***************************************************************************)
(* Properties.                                                             *)
(***************************************************************************)
\* Type correctness of the files, the trees and the running tool.
TypeOK ==
    /\ text \in [Files -> Text] /\ present \in SUBSET Files
    /\ original \in Text /\ build \in Text /\ pending \in Text
    /\ built \in SUBSET Names /\ names \in SUBSET Names
    /\ tracked \in SUBSET MaintFiles
    /\ tool \in {"none", "write", "patch", "rewrite", "rename"} /\ target \in Files
    /\ commands \in 0..MaxCommands /\ adds \in 0..MaxAdds /\ kills \in 0..MaxKills
    /\ maint \in [MaintFiles -> 0..(MaxAdds + 1)]

\* However create-hwe.py is repeated, on its own output, after gen-hwe.py or
\* after a kill, no Source and no Package of a control file gets the suffix
\* twice.
SuffixOnce ==
    \A f \in Files : \A s \in text[f].there : text[f].suffix[s] <= 1

\* Source and packages of a control file are renamed together: a file whose
\* writing was cut short has the stanza it ends on, and no other, under a name of
\* the other kind.
RenamedTogether ==
    \A f \in Files :
        /\ \A s, u \in text[f].cut : s = u
        /\ \A s, u \in text[f].there \ (text[f].cut \cup {Virt}) :
              text[f].suffix[s] = text[f].suffix[u]

\* A renamed package depends on the renamed form of every package of its source,
\* and stands in for its own old name, whatever order the stanzas stand in, and
\* whichever of them a kill lost: but for the one a cut file ends on.
RelationsFollow ==
    \A f \in Files : \A p \in text[f].there \cap Stems :
        text[f].suffix[p] = 1 /\ p \notin text[f].cut =>
            /\ \A q \in text[f].there \cap Stems : <<q, 0>> \notin text[f].rel[p].Depends
            /\ <<p, 0>> \in text[f].rel[p].Provides \cap text[f].rel[p].Replaces

\* A package depends on a name it conflicts with only where both create-hwe.py
\* and gen-hwe.py had a part in the file.
OneSided ==
    \A f \in Files : \A p \in text[f].there \cap Packages :
        text[f].rel[p].Depends \cap text[f].rel[p].Conflicts # {} =>
            wrote[f] = {"create-hwe", "gen-hwe"}

\* When debian/hwe-gencontrol.py ends well, no built tree is called by, or
\* refers to, a name that was to be replaced, even when an earlier run on the same
\* trees was killed half-way.
RewriteComplete ==
    \A x \in built \cap rewritten : x[1] \in build.there =>
        /\ NameIn(build, x[1]) \notin rewritten
        /\ \A f \in Fields : build.rel[x[1]][f] \cap rewritten = {}

\* No maintainer file is ever lost, although files are renamed while the
\* developer writes others under the new names.
NothingLost ==
    \A m \in made : \E n \in {0, 1} : maint[<<m[1], m[2], n>>] = m[3]

\* After hwe-rename-maintscripts.py ended well, a file of a package still has
\* the base name only if there is one with the new name as well.
FilesFollow ==
    tool # "rename" => \A s \in moved, k \in Kinds :
        Exists(<<s, k, 0>>) => Exists(<<s, k, 1>>)
=============================================================================
