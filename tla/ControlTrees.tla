---------------------------- MODULE ControlTrees ----------------------------
(***************************************************************************)
(* The scripts that edit the control files under extracted/ in place:      *)
(* set_hwe_conflicts.sh, set_hwe_dependencies.sh,                          *)
(* set_hwe_provides_counterpart.sh, set_virtual_conflicts.sh and           *)
(* set_virtual_provides.sh.                                                *)
(*                                                                         *)
(* Each visits every tree and merges names into the relation fields.  They *)
(* are run in any order, more than once, with --dry-run, may be killed     *)
(* between two files or while one is written, and a package may be         *)
(* unpacked anew in between.  What the whole project relies on is that the *)
(* fields then make the two variants exclude each other, and the packages  *)
(* of one variant fit.                                                     *)
(***************************************************************************)
EXTENDS Naturals, Sequences

CONSTANTS Stems,     \* packages with a base tree and an -hwe tree
          Listed,    \* the packages list of set_hwe_dependencies.sh
          Virt,      \* the name "virt"; it may be a package with trees too
          Requires,  \* the packages each upstream package depends on
          MaxRuns,   \* bound: scripts started
          MaxKills,  \* bound: scripts killed while they write a file
          MaxUnpacks \* bound: packages unpacked anew

ASSUME RequiresAssumption == Requires \in [Stems -> Seq(Stems \cup Listed)]

ASSUME RunsAssumption == MaxRuns \in Nat /\ MaxKills \in Nat /\ MaxUnpacks \in Nat

----------------------------------------------------------------------------
Variants == {"base", "hwe"}
Names == (Stems \cup Listed \cup {Virt}) \X Variants
Pkgs  == Stems \X Variants

Counterpart(p) == <<p[1], IF p[2] = "hwe" THEN "base" ELSE "hwe">>

\* virt for a base package, virt-hwe for an -hwe package.
Virtual(p) == <<Virt, p[2]>>

\* A relation: a name, with or without a version restriction.
Items == [name : Names, versioned : BOOLEAN]

Plain(n) == [name |-> n, versioned |-> FALSE]

Fields == {"Depends", "Conflicts", "Replaces", "Provides"}

Scripts == {"set_hwe_conflicts", "set_hwe_dependencies",
            "set_hwe_provides_counterpart", "set_virtual_conflicts",
            "set_virtual_provides"}

VARIABLES
    ctl,       \* the relation fields of each control file
    script,    \* the running script, or "none"
    dry,       \* --dry-run
    todo,      \* control files it has still to visit
    runs, kills, unpacks,
    \* History variables, read by no action.
    visited,   \* the scripts that updated each file since it was unpacked or emptied
    emptied    \* the files emptied since they were unpacked

vars == <<ctl, script, dry, todo, runs, kills, unpacks, visited, emptied>>

----------------------------------------------------------------------------
ItemsOf(list) == {list[i] : i \in DOMAIN list}

\* Mutant: the item is appended whether or not it is there.
merge_item_Always(list, n) == Append(list, Plain(n))

\* Mutant: a versioned relation on the name counts as the item.
merge_item_AnyVersion(list, n) ==
    IF \E i \in DOMAIN list : list[i].name = n THEN list ELSE Append(list, Plain(n))

\* merge_item, append_item: compares whole items.
merge_item(list, n) ==
    IF Plain(n) \in ItemsOf(list) THEN list ELSE Append(list, Plain(n))

\* Mutant: no look-ahead, so that a renamed package is renamed again.
rewrite_field_Prefix(list) ==
    [i \in DOMAIN list |->
        IF list[i].name[1] \in Listed
        THEN [list[i] EXCEPT !.name = <<@[1], IF @[2] = "hwe" THEN "hwe-hwe" ELSE "hwe">>]
        ELSE list[i]]

\* Mutant: a name with a version restriction is not taken for the whole word.
rewrite_field_Unversioned(list) ==
    [i \in DOMAIN list |->
        IF list[i].name \in Listed \X {"base"} /\ ~ list[i].versioned
        THEN [list[i] EXCEPT !.name = Counterpart(@)]
        ELSE list[i]]

\* Every whole word that is a listed package gets the suffix.
rewrite_field(list) ==
    [i \in DOMAIN list |->
        IF list[i].name \in Listed \X {"base"}
        THEN [list[i] EXCEPT !.name = Counterpart(@)]
        ELSE list[i]]

\* The trees set_hwe_dependencies.sh and set_hwe_provides_counterpart.sh visit
\* are the -hwe ones.
Visits(s) ==
    IF s \in {"set_hwe_dependencies", "set_hwe_provides_counterpart"}
    THEN Stems \X {"hwe"} ELSE Pkgs

set_hwe_conflicts(p, c) ==
    [c EXCEPT !["Conflicts"] = merge_item(@, Counterpart(p)),
              !["Replaces"]  = merge_item(@, Counterpart(p))]

set_hwe_dependencies(c) == [c EXCEPT !["Depends"] = rewrite_field(@)]

set_hwe_provides_counterpart(p, c) ==
    [c EXCEPT !["Provides"] = merge_item(@, Counterpart(p))]

\* Mutant: every package conflicts with the name its own variant provides.
set_virtual_conflicts_Own(p, c) ==
    [c EXCEPT !["Conflicts"] = merge_item(@, Virtual(p))]

set_virtual_conflicts(p, c) ==
    [c EXCEPT !["Conflicts"] = merge_item(@, Virtual(Counterpart(p)))]

set_virtual_provides(p, c) ==
    [c EXCEPT !["Provides"] = merge_item(@, Virtual(p))]

\* What script s makes of the control file of p.
Update(s, p, c) ==
    CASE s = "set_hwe_conflicts"            -> set_hwe_conflicts(p, c)
      [] s = "set_hwe_dependencies"         -> set_hwe_dependencies(c)
      [] s = "set_hwe_provides_counterpart" -> set_hwe_provides_counterpart(p, c)
      [] s = "set_virtual_conflicts"        -> set_virtual_conflicts(p, c)
      [] s = "set_virtual_provides"         -> set_virtual_provides(p, c)

\* A package as it is unpacked: it depends on some others and has versioned
\* relations on its own counterpart's and its own name.  The -hwe tree is a copy.
Upstream(x) ==
    [f \in Fields |->
        CASE f = "Depends" ->
                [i \in DOMAIN Requires[x] |->
                    [name |-> <<Requires[x][i], "base">>, versioned |-> TRUE]]
          [] f = "Replaces" -> <<[name |-> <<x, "base">>, versioned |-> TRUE]>>
          [] OTHER -> <<>>]

----------------------------------------------------------------------------
Init ==
    /\ ctl = [p \in Pkgs |-> Upstream(p[1])]
    /\ script = "none" /\ dry = FALSE /\ todo = {}
    /\ runs = 0 /\ kills = 0 /\ unpacks = 0
    /\ visited = [p \in Pkgs |-> {}] /\ emptied = {}

Start ==
    /\ script = "none" /\ runs < MaxRuns
    /\ runs' = runs + 1
    /\ script' \in Scripts /\ dry' \in BOOLEAN
    /\ todo' = Visits(script')
    /\ UNCHANGED <<ctl, kills, unpacks, visited, emptied>>

\* One control file is read, rewritten and, unless --dry-run, written.
Visit ==
    /\ script # "none"
    /\ \E p \in todo :
          /\ todo' = todo \ {p}
          /\ ctl' = IF dry THEN ctl
                    ELSE [ctl EXCEPT ![p] = Update(script, p, @)]
          /\ visited' = IF dry THEN visited
                        ELSE [visited EXCEPT ![p] = @ \cup {script}]
    /\ UNCHANGED <<script, dry, runs, kills, unpacks, emptied>>

\* The script has seen every file, or is killed between two files.
Stop ==
    /\ script # "none"
    /\ script' = "none" /\ dry' = FALSE /\ todo' = {}
    /\ UNCHANGED <<ctl, runs, kills, unpacks, visited, emptied>>

\* The script is killed after it has truncated a file and before it has written
\* it.
Kill ==
    /\ script # "none" /\ ~ dry /\ kills < MaxKills
    /\ kills' = kills + 1
    /\ \E p \in todo :
          /\ Update(script, p, ctl[p]) # ctl[p]
          /\ ctl' = [ctl EXCEPT ![p] = [f \in Fields |-> <<>>]]
          /\ visited' = [visited EXCEPT ![p] = {}]
          /\ emptied' = emptied \cup {p}
    /\ script' = "none" /\ dry' = FALSE /\ todo' = {}
    /\ UNCHANGED <<runs, unpacks>>

\* pull_launchpad_*_debs.sh --unpack replaces both trees of a package.
Unpack ==
    /\ script = "none" /\ unpacks < MaxUnpacks
    /\ unpacks' = unpacks + 1
    /\ \E x \in Stems :
          /\ ctl' = [p \in Pkgs |-> IF p[1] = x THEN Upstream(x) ELSE ctl[p]]
          /\ visited' = [p \in Pkgs |-> IF p[1] = x THEN {} ELSE visited[p]]
          /\ emptied' = {p \in emptied : p[1] # x}
    /\ UNCHANGED <<script, dry, todo, runs, kills>>

Next == Start \/ Visit \/ Stop \/ Kill \/ Unpack

Spec == Init /\ [][Next]_vars

----------------------------------------------------------------------------
(***************************************************************************)
(* What the fields mean to apt: p and q cannot be installed together when  *)
(* one conflicts, without a version, with a name the other has or provides.*)
(***************************************************************************)
Rejects(p, q) ==
    \E n \in Names :
        /\ Plain(n) \in ItemsOf(ctl[p]["Conflicts"])
        /\ n = q \/ Plain(n) \in ItemsOf(ctl[q]["Provides"])

Clash(p, q) == p # q /\ (Rejects(p, q) \/ Rejects(q, p))

\* Type correctness of the control files and of the running script.
TypeOK ==
    /\ ctl \in [Pkgs -> [Fields -> Seq(Items)]]
    /\ script \in Scripts \cup {"none"} /\ dry \in BOOLEAN
    /\ todo \in SUBSET Pkgs
    /\ runs \in 0..MaxRuns /\ kills \in 0..MaxKills /\ unpacks \in 0..MaxUnpacks
    /\ visited \in [Pkgs -> SUBSET Scripts] /\ emptied \in SUBSET Pkgs

\* The items a field must hold, given the scripts that have visited the file.
Expected(p, f) ==
    LET s == visited[p]
        upstream == IF p \in emptied THEN {} ELSE ItemsOf(Upstream(p[1])[f])
    IN  (IF f = "Depends" /\ "set_hwe_dependencies" \in s
         THEN {[i EXCEPT !.name = IF @[1] \in Listed THEN Counterpart(@) ELSE @]
                  : i \in upstream}
         ELSE upstream)
        \cup {Plain(n) : n \in
            {m \in {Counterpart(p)} :
                \/ f \in {"Conflicts", "Replaces"} /\ "set_hwe_conflicts" \in s
                \/ f = "Provides" /\ "set_hwe_provides_counterpart" \in s}
            \cup {m \in {Virtual(Counterpart(p))} :
                    f = "Conflicts" /\ "set_virtual_conflicts" \in s}
            \cup {m \in {Virtual(p)} :
                    f = "Provides" /\ "set_virtual_provides" \in s}}

\* The scripts commute and may be repeated: what a field holds is decided by
\* which scripts have reached the file, not by their order, their number or
\* where they were interrupted.  A file emptied by a kill regains all they add.
FieldsExact == \A p \in Pkgs, f \in Fields : ItemsOf(ctl[p][f]) = Expected(p, f)

\* No field lists an item twice, however often the scripts are run.
NoRepeats ==
    \A p \in Pkgs, f \in Fields : \A i, j \in DOMAIN ctl[p][f] :
        ctl[p][f][i] = ctl[p][f][j] => i = j

Excluding == {"set_virtual_conflicts", "set_virtual_provides"}

\* Once both virtual scripts have reached two trees of different variants, the
\* packages exclude each other, whichever packages they are.
Exclusive ==
    \A p, q \in Pkgs :
        p[2] # q[2] /\ Excluding \subseteq visited[p] \cap visited[q] => Clash(p, q)

\* The package virt-hwe, where set_hwe_provides_counterpart.sh made it provide
\* virt, the mark of the base variant.
Marked(p) ==
    p = <<Virt, "hwe">> /\ "set_hwe_provides_counterpart" \in visited[p]

\* Packages of one variant do not exclude each other, at any point of any mix of
\* scripts: virt-hwe, once it provides virt, is the only exception.
Coinstallable ==
    \A p, q \in Pkgs : p[2] = q[2] /\ Clash(p, q) => Marked(p) \/ Marked(q)

\* check.sh installs the packages of a variant one after the other and expects
\* them to stay: none of them may exclude another.
VariantFits == \A p, q \in Pkgs : p[2] = q[2] => ~ Clash(p, q)

\* An -hwe package whose dependencies were rewritten does not depend on a listed
\* package that it excludes, with the same exception.
DependenciesFit ==
    \A p \in Stems \X {"hwe"}, q \in (Listed \cap Stems) \X Variants :
        /\ "set_hwe_dependencies" \in visited[p] /\ Clash(p, q)
        /\ \E i \in ItemsOf(ctl[p]["Depends"]) : i.name = q
        => Marked(p) \/ Marked(q)
=============================================================================
