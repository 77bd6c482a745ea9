------------------------- MODULE ControlTreesProofs -------------------------
(***************************************************************************)
(* Theorems about the control editors, for any packages, any dependencies  *)
(* and any number of runs, kills and unpacks.                              *)
(***************************************************************************)
EXTENDS ControlTrees, TLAPS

----------------------------------------------------------------------------
(***************************************************************************)
(* Names and lists.                                                        *)
(***************************************************************************)
\* The names that the scripts write.
LEMMA NamesTyped ==
    ASSUME NEW p \in Pkgs
    PROVE  /\ p \in Names /\ Counterpart(p) \in Names /\ Counterpart(p) \in Pkgs
           /\ Virtual(p) \in Names /\ Virtual(Counterpart(p)) \in Names
  BY DEF Pkgs, Names, Counterpart, Virtual, Variants

\* merge_item adds the item and nothing else.
LEMMA Merged ==
    ASSUME NEW list \in Seq(Items), NEW n \in Names
    PROVE  /\ merge_item(list, n) \in Seq(Items)
           /\ ItemsOf(merge_item(list, n)) = ItemsOf(list) \cup {Plain(n)}
  <1>1. Plain(n) \in Items
    BY DEF Plain, Items
  <1>2. CASE Plain(n) \in ItemsOf(list)
    BY <1>2 DEF merge_item
  <1>3. CASE Plain(n) \notin ItemsOf(list)
    <2>1. merge_item(list, n) = Append(list, Plain(n))
      BY <1>3 DEF merge_item
    <2>2. Append(list, Plain(n)) \in Seq(Items)
      BY <1>1
    <2>3. ItemsOf(Append(list, Plain(n))) = ItemsOf(list) \cup {Plain(n)}
      <3> DEFINE longer == Append(list, Plain(n))
      <3>1. /\ DOMAIN list = 1..Len(list) /\ Len(list) \in Nat
            /\ DOMAIN longer = 1..(Len(list) + 1)
            /\ \A i \in 1..Len(list) : longer[i] = list[i]
            /\ longer[Len(list) + 1] = Plain(n)
        BY <1>1
      <3>2. DOMAIN longer = DOMAIN list \cup {Len(list) + 1}
        BY <3>1
      <3> HIDE DEF longer
      <3>3. QED
        BY <3>1, <3>2 DEF ItemsOf
    <2>4. QED
      BY <2>1, <2>2, <2>3
  <1>4. QED
    BY <1>2, <1>3

\* rewrite_field leaves no listed package in its base variant.
LEMMA Rewritten ==
    ASSUME NEW list \in Seq(Items)
    PROVE  /\ rewrite_field(list) \in Seq(Items)
           /\ \A i \in ItemsOf(rewrite_field(list)) :
                 i.name[1] \in Listed => i.name[2] = "hwe"
  <1>1. /\ DOMAIN list = 1..Len(list) /\ Len(list) \in Nat
        /\ \A k \in DOMAIN list : list[k] \in Items
    OBVIOUS
  <1>2. ASSUME NEW k \in DOMAIN list
        PROVE  /\ rewrite_field(list)[k] \in Items
               /\ rewrite_field(list)[k].name[1] \in Listed
                     => rewrite_field(list)[k].name[2] = "hwe"
    <2>1. /\ list[k].name \in Names /\ list[k].versioned \in BOOLEAN
          /\ list[k] = [name |-> list[k].name, versioned |-> list[k].versioned]
      BY <1>1 DEF Items
    <2>2. CASE list[k].name \in Listed \X {"base"}
      <3>1. rewrite_field(list)[k]
              = [name |-> Counterpart(list[k].name), versioned |-> list[k].versioned]
        BY <2>1, <2>2 DEF rewrite_field
      <3>2. Counterpart(list[k].name) \in Names /\ Counterpart(list[k].name)[2] = "hwe"
        BY <2>1, <2>2 DEF Counterpart, Names, Variants
      <3>3. QED
        BY <2>1, <3>1, <3>2 DEF Items
    <2>3. CASE list[k].name \notin Listed \X {"base"}
      <3>1. rewrite_field(list)[k] = list[k]
        BY <2>3 DEF rewrite_field
      <3>2. QED
        BY <1>1, <2>1, <2>3, <3>1 DEF Names, Variants
    <2>4. QED
      BY <2>2, <2>3
  <1>3. DOMAIN rewrite_field(list) = 1..Len(list)
    BY <1>1 DEF rewrite_field
  <1>4. rewrite_field(list) \in [1..Len(list) -> Items]
    BY <1>1, <1>2 DEF rewrite_field
  <1>5. QED
    BY <1>1, <1>2, <1>3, <1>4 DEF ItemsOf

----------------------------------------------------------------------------
(***************************************************************************)
(* What a control file holds, given the scripts that have visited it.      *)
(***************************************************************************)
Controls == [Fields -> Seq(Items)]

\* Conflicts and Provides hold what the scripts may add and, of a script that
\* has visited the file, what it adds; only set_hwe_provides_counterpart.sh lets
\* a package provide its counterpart, and only an -hwe package; Depends is rewritten once
\* set_hwe_dependencies.sh has visited it.
Conforms(p, c, seen) ==
    /\ \A i \in ItemsOf(c["Conflicts"]) :
          i.name \in {Counterpart(p), Virtual(Counterpart(p))}
    /\ \A i \in ItemsOf(c["Provides"]) : i.name \in {Counterpart(p), Virtual(p)}
    /\ \A i \in ItemsOf(c["Provides"]) : i.name = Counterpart(p) =>
          p[2] = "hwe" /\ "set_hwe_provides_counterpart" \in seen
    /\ "set_virtual_conflicts" \in seen =>
          Plain(Virtual(Counterpart(p))) \in ItemsOf(c["Conflicts"])
    /\ "set_virtual_provides" \in seen =>
          Plain(Virtual(p)) \in ItemsOf(c["Provides"])
    /\ "set_hwe_dependencies" \in seen =>
          \A i \in ItemsOf(c["Depends"]) : i.name[1] \in Listed => i.name[2] = "hwe"

\* A file as it is unpacked, and an empty one, conform.
LEMMA FreshConforms ==
    ASSUME NEW p \in Pkgs
    PROVE  /\ Upstream(p[1]) \in Controls /\ Conforms(p, Upstream(p[1]), {})
           /\ [f \in Fields |-> <<>>] \in Controls
           /\ Conforms(p, [f \in Fields |-> <<>>], {})
  <1>1. p[1] \in Stems
    BY DEF Pkgs
  <1>2. /\ Requires[p[1]] \in Seq(Stems \cup Listed)
        /\ DOMAIN Requires[p[1]] = 1..Len(Requires[p[1]])
        /\ Len(Requires[p[1]]) \in Nat
        /\ \A i \in DOMAIN Requires[p[1]] : Requires[p[1]][i] \in Stems \cup Listed
    BY <1>1, RequiresAssumption
  <1>3. /\ Upstream(p[1])["Conflicts"] = <<>> /\ Upstream(p[1])["Provides"] = <<>>
        /\ Upstream(p[1])["Replaces"] = <<[name |-> <<p[1], "base">>, versioned |-> TRUE]>>
        /\ Upstream(p[1])["Depends"] = [i \in DOMAIN Requires[p[1]] |->
               [name |-> <<Requires[p[1]][i], "base">>, versioned |-> TRUE]]
        /\ Upstream(p[1]) = [f \in Fields |-> Upstream(p[1])[f]]
    BY DEF Upstream, Fields
  <1>4. Upstream(p[1])["Replaces"] \in Seq(Items)
    <2>1. [name |-> <<p[1], "base">>, versioned |-> TRUE] \in Items
      BY <1>1 DEF Items, Names, Variants
    <2>2. QED
      BY <1>3, <2>1
  <1>5. Upstream(p[1])["Depends"] \in Seq(Items)
    <2>1. ASSUME NEW i \in DOMAIN Requires[p[1]]
          PROVE  [name |-> <<Requires[p[1]][i], "base">>, versioned |-> TRUE] \in Items
      BY <1>2 DEF Items, Names, Variants
    <2>2. Upstream(p[1])["Depends"] \in [1..Len(Requires[p[1]]) -> Items]
      BY <1>2, <1>3, <2>1
    <2>3. QED
      BY <1>2, <2>2
  <1>6. <<>> \in Seq(Items) /\ ItemsOf(<<>>) = {}
    BY DEF ItemsOf
  <1>7. Upstream(p[1]) \in Controls
    BY <1>3, <1>4, <1>5, <1>6 DEF Controls, Fields
  <1>8. QED
    BY <1>3, <1>6, <1>7 DEF Conforms, Controls, Fields

\* A script that updates a file leaves a file that conforms.
LEMMA UpdateConforms ==
    ASSUME NEW p \in Pkgs, NEW c \in Controls, NEW seen, NEW s \in Scripts,
           p \in Visits(s), Conforms(p, c, seen)
    PROVE  Update(s, p, c) \in Controls /\ Conforms(p, Update(s, p, c), seen \cup {s})
  <1>1. \A f \in Fields : c[f] \in Seq(Items)
    BY DEF Controls
  <1>2. /\ Counterpart(p) \in Names
        /\ Virtual(p) \in Names /\ Virtual(Counterpart(p)) \in Names
    BY NamesTyped
  <1>3. \A n : Plain(n).name = n
    BY DEF Plain
  <1>4. CASE s = "set_hwe_conflicts"
    <2>1. Update(s, p, c) = [c EXCEPT
              !["Conflicts"] = merge_item(c["Conflicts"], Counterpart(p)),
              !["Replaces"]  = merge_item(c["Replaces"], Counterpart(p))]
      BY <1>4 DEF Update, set_hwe_conflicts, Controls, Fields
    <2>2. /\ merge_item(c["Conflicts"], Counterpart(p)) \in Seq(Items)
          /\ merge_item(c["Replaces"], Counterpart(p)) \in Seq(Items)
          /\ ItemsOf(merge_item(c["Conflicts"], Counterpart(p)))
                = ItemsOf(c["Conflicts"]) \cup {Plain(Counterpart(p))}
      BY <1>1, <1>2, Merged DEF Fields
    <2>3. QED
      BY <1>3, <1>4, <2>1, <2>2 DEF Conforms, Controls, Fields
  <1>5. CASE s = "set_hwe_dependencies"
    <2>1. Update(s, p, c) = [c EXCEPT !["Depends"] = rewrite_field(c["Depends"])]
      BY <1>5 DEF Update, set_hwe_dependencies, Controls, Fields
    <2>2. /\ rewrite_field(c["Depends"]) \in Seq(Items)
          /\ \A i \in ItemsOf(rewrite_field(c["Depends"])) :
                 i.name[1] \in Listed => i.name[2] = "hwe"
      BY <1>1, Rewritten DEF Fields
    <2>3. QED
      BY <1>5, <2>1, <2>2 DEF Conforms, Controls, Fields
  <1>6. CASE s = "set_hwe_provides_counterpart"
    <2>1. Update(s, p, c) =
              [c EXCEPT !["Provides"] = merge_item(c["Provides"], Counterpart(p))]
      BY <1>6 DEF Update, set_hwe_provides_counterpart, Controls, Fields
    <2>2. /\ merge_item(c["Provides"], Counterpart(p)) \in Seq(Items)
          /\ ItemsOf(merge_item(c["Provides"], Counterpart(p)))
                = ItemsOf(c["Provides"]) \cup {Plain(Counterpart(p))}
      BY <1>1, <1>2, Merged DEF Fields
    <2>3. p[2] = "hwe"
      BY <1>6 DEF Visits
    <2>4. QED
      BY <1>3, <1>6, <2>1, <2>2, <2>3 DEF Conforms, Controls, Fields
  <1>7. CASE s = "set_virtual_conflicts"
    <2>1. Update(s, p, c) = [c EXCEPT
              !["Conflicts"] = merge_item(c["Conflicts"], Virtual(Counterpart(p)))]
      BY <1>7 DEF Update, set_virtual_conflicts, Controls, Fields
    <2>2. /\ merge_item(c["Conflicts"], Virtual(Counterpart(p))) \in Seq(Items)
          /\ ItemsOf(merge_item(c["Conflicts"], Virtual(Counterpart(p))))
                = ItemsOf(c["Conflicts"]) \cup {Plain(Virtual(Counterpart(p)))}
      BY <1>1, <1>2, Merged DEF Fields
    <2>3. QED
      BY <1>3, <1>7, <2>1, <2>2 DEF Conforms, Controls, Fields
  <1>8. CASE s = "set_virtual_provides"
    <2>1. Update(s, p, c) =
              [c EXCEPT !["Provides"] = merge_item(c["Provides"], Virtual(p))]
      BY <1>8 DEF Update, set_virtual_provides, Controls, Fields
    <2>2. /\ merge_item(c["Provides"], Virtual(p)) \in Seq(Items)
          /\ ItemsOf(merge_item(c["Provides"], Virtual(p)))
                = ItemsOf(c["Provides"]) \cup {Plain(Virtual(p))}
      BY <1>1, <1>2, Merged DEF Fields
    <2>3. Virtual(p) # Counterpart(p)
      BY DEF Virtual, Counterpart, Pkgs, Variants
    <2>4. QED
      BY <1>3, <1>8, <2>1, <2>2, <2>3 DEF Conforms, Controls, Fields
  <1>9. QED
    BY <1>4, <1>5, <1>6, <1>7, <1>8 DEF Scripts

----------------------------------------------------------------------------
(***************************************************************************)
(* The inductive invariant: every file conforms.                           *)
(***************************************************************************)
AllConform ==
    \A p \in Pkgs : ctl[p] \in Controls /\ Conforms(p, ctl[p], visited[p])

\* The files and the history, without the counters.
FilesOK ==
    /\ ctl \in [Pkgs -> Controls]
    /\ script \in Scripts \cup {"none"} /\ dry \in BOOLEAN
    /\ todo \in SUBSET Pkgs
    /\ visited \in [Pkgs -> SUBSET Scripts] /\ emptied \in SUBSET Pkgs

\* A script visits the trees it is for.
VisitsOK == script # "none" => todo \subseteq Visits(script)

CountersOK ==
    runs \in 0..MaxRuns /\ kills \in 0..MaxKills /\ unpacks \in 0..MaxUnpacks

ControlsInv == TypeOK /\ VisitsOK /\ AllConform

\* TypeOK in its two parts.
LEMMA TypeParts ==
    (TypeOK <=> FilesOK /\ CountersOK) /\ (TypeOK' <=> FilesOK' /\ CountersOK')
  BY DEF TypeOK, FilesOK, CountersOK, Controls

\* The counters stay within their bounds.
LEMMA CountersStep ==
    ASSUME CountersOK, [Next]_vars
    PROVE  CountersOK'
  BY RunsAssumption
  DEF CountersOK, Next, vars, Start, Visit, Stop, Kill, Unpack

\* Unpacked trees conform.
LEMMA InitInv ==
    ASSUME Init
    PROVE  ControlsInv
  <1>1. CountersOK
    BY RunsAssumption DEF Init, CountersOK
  <1>2. \A p \in Pkgs : Upstream(p[1]) \in Controls /\ Conforms(p, Upstream(p[1]), {})
    BY FreshConforms
  <1>3. FilesOK
    BY <1>2 DEF Init, FilesOK
  <1>4. AllConform
    BY <1>2 DEF Init, AllConform
  <1>5. QED
    BY <1>1, <1>3, <1>4, TypeParts DEF ControlsInv, Init, VisitsOK

\* A script updates one file.
LEMMA VisitStep ==
    ASSUME FilesOK, VisitsOK, AllConform, Visit
    PROVE  FilesOK' /\ AllConform'
  <1>1. PICK p \in todo :
          /\ todo' = todo \ {p}
          /\ ctl' = IF dry THEN ctl ELSE [ctl EXCEPT ![p] = Update(script, p, @)]
          /\ visited' = IF dry THEN visited ELSE [visited EXCEPT ![p] = @ \cup {script}]
    BY DEF Visit
  <1>2. p \in Pkgs /\ script \in Scripts /\ todo' \in SUBSET Pkgs /\ p \in Visits(script)
    BY <1>1 DEF FilesOK, VisitsOK, Visit
  <1>3. UNCHANGED <<script, dry, emptied>>
    BY DEF Visit
  <1>4. CASE dry
    BY <1>1, <1>2, <1>3, <1>4 DEF FilesOK, AllConform
  <1>5. CASE ~ dry
    <2>1. /\ Update(script, p, ctl[p]) \in Controls
          /\ Conforms(p, Update(script, p, ctl[p]), visited[p] \cup {script})
      BY <1>2, UpdateConforms DEF AllConform
    <2>2. /\ ctl' = [ctl EXCEPT ![p] = Update(script, p, ctl[p])]
          /\ visited' = [visited EXCEPT ![p] = visited[p] \cup {script}]
      BY <1>1, <1>5
    <2>3. FilesOK'
      BY <1>2, <1>3, <2>1, <2>2 DEF FilesOK
    <2>4. ASSUME NEW q \in Pkgs
          PROVE  ctl'[q] \in Controls /\ Conforms(q, ctl'[q], visited'[q])
      <3>1. CASE q = p
        <4>1. ctl'[q] = Update(script, p, ctl[p]) /\ visited'[q] = visited[p] \cup {script}
          BY <1>2, <2>2, <3>1 DEF FilesOK
        <4>2. QED
          BY <2>1, <3>1, <4>1
      <3>2. CASE q # p
        <4>1. ctl'[q] = ctl[q] /\ visited'[q] = visited[q]
          BY <1>2, <2>2, <3>2 DEF FilesOK
        <4>2. QED
          BY <4>1 DEF AllConform
      <3>3. QED
        BY <3>1, <3>2
    <2>5. QED
      BY <2>3, <2>4 DEF AllConform
  <1>6. QED
    BY <1>4, <1>5

\* A kill empties one file.
LEMMA KillStep ==
    ASSUME FilesOK, AllConform, Kill
    PROVE  FilesOK' /\ AllConform'
  <1> DEFINE none == [f \in Fields |-> <<>>]
  <1>1. PICK p \in todo :
          /\ ctl' = [ctl EXCEPT ![p] = none]
          /\ visited' = [visited EXCEPT ![p] = {}]
          /\ emptied' = emptied \cup {p}
    BY DEF Kill
  <1>2. p \in Pkgs
    BY <1>1 DEF FilesOK
  <1>3. script' = "none" /\ dry' = FALSE /\ todo' = {}
    BY DEF Kill
  <1>4. none \in Controls /\ Conforms(p, none, {})
    BY <1>2, FreshConforms
  <1> HIDE DEF none
  <1>5. FilesOK'
    BY <1>1, <1>2, <1>3, <1>4 DEF FilesOK
  <1>6. ASSUME NEW q \in Pkgs
        PROVE  ctl'[q] \in Controls /\ Conforms(q, ctl'[q], visited'[q])
    <2>1. CASE q = p
      <3>1. ctl'[q] = none /\ visited'[q] = {}
        BY <1>1, <1>2, <2>1 DEF FilesOK
      <3>2. QED
        BY <1>4, <2>1, <3>1
    <2>2. CASE q # p
      <3>1. ctl'[q] = ctl[q] /\ visited'[q] = visited[q]
        BY <1>1, <1>2, <2>2 DEF FilesOK
      <3>2. QED
        BY <3>1 DEF AllConform
    <2>3. QED
      BY <2>1, <2>2
  <1>7. QED
    BY <1>5, <1>6 DEF AllConform

\* Both trees of a package are replaced.
LEMMA UnpackStep ==
    ASSUME FilesOK, AllConform, Unpack
    PROVE  FilesOK' /\ AllConform'
  <1>1. PICK x \in Stems :
          /\ ctl' = [p \in Pkgs |-> IF p[1] = x THEN Upstream(x) ELSE ctl[p]]
          /\ visited' = [p \in Pkgs |-> IF p[1] = x THEN {} ELSE visited[p]]
          /\ emptied' = {p \in emptied : p[1] # x}
    BY DEF Unpack
  <1>2. UNCHANGED <<script, dry, todo>>
    BY DEF Unpack
  <1>3. ASSUME NEW q \in Pkgs
        PROVE  /\ ctl'[q] \in Controls /\ Conforms(q, ctl'[q], visited'[q])
               /\ visited'[q] \in SUBSET Scripts
    <2>1. CASE q[1] = x
      <3>1. ctl'[q] = Upstream(q[1]) /\ visited'[q] = {}
        BY <1>1, <2>1
      <3>2. QED
        BY <3>1, FreshConforms
    <2>2. CASE q[1] # x
      <3>1. ctl'[q] = ctl[q] /\ visited'[q] = visited[q]
        BY <1>1, <2>2
      <3>2. QED
        BY <3>1 DEF AllConform, FilesOK
    <2>3. QED
      BY <2>1, <2>2
  <1>4. ctl' = [p \in Pkgs |-> ctl'[p]] /\ visited' = [p \in Pkgs |-> visited'[p]]
    BY <1>1
  <1>5. ctl' \in [Pkgs -> Controls] /\ visited' \in [Pkgs -> SUBSET Scripts]
    BY <1>3, <1>4
  <1>6. QED
    BY <1>1, <1>2, <1>3, <1>5 DEF FilesOK, AllConform

\* Every step keeps the invariant.
LEMMA StepInv ==
    ASSUME ControlsInv, [Next]_vars
    PROVE  ControlsInv'
  <1>1. FilesOK /\ CountersOK /\ AllConform /\ VisitsOK
    BY TypeParts DEF ControlsInv
  <1>0. VisitsOK'
    BY <1>1 DEF VisitsOK, Next, vars, Start, Visit, Stop, Kill, Unpack
  <1>2. CountersOK'
    BY <1>1, CountersStep
  <1>3. CASE Start
    <2>1. UNCHANGED <<ctl, visited, emptied>>
      BY <1>3 DEF Start
    <2>2. /\ script' \in Scripts \cup {"none"} /\ dry' \in BOOLEAN
          /\ todo' \in SUBSET Pkgs
      BY <1>3 DEF Start, Visits, Pkgs, Variants
    <2>3. QED
      BY <1>0, <1>1, <1>2, <2>1, <2>2, TypeParts DEF ControlsInv, FilesOK, AllConform
  <1>4. CASE Visit
    BY <1>0, <1>1, <1>2, <1>4, VisitStep, TypeParts DEF ControlsInv
  <1>5. CASE Stop
    BY <1>0, <1>1, <1>2, <1>5, TypeParts DEF ControlsInv, Stop, FilesOK, AllConform
  <1>6. CASE Kill
    BY <1>0, <1>1, <1>2, <1>6, KillStep, TypeParts DEF ControlsInv
  <1>7. CASE Unpack
    BY <1>0, <1>1, <1>2, <1>7, UnpackStep, TypeParts DEF ControlsInv
  <1>8. CASE UNCHANGED vars
    BY <1>0, <1>1, <1>2, <1>8, TypeParts DEF ControlsInv, vars, FilesOK, AllConform
  <1>9. QED
    BY <1>3, <1>4, <1>5, <1>6, <1>7, <1>8 DEF Next

----------------------------------------------------------------------------
(***************************************************************************)
(* The theorems.                                                           *)
(***************************************************************************)
\* In every state every control file conforms to the scripts that updated it
\* since it was unpacked or emptied.
THEOREM Invariance == Spec => []ControlsInv
  BY InitInv, StepInv, PTL DEF Spec

\* The fields remain lists of relations on names of packages, their
\* counterparts and the two virtual names: no script renames a name twice.
THEOREM TypeCorrect == Spec => []TypeOK
  <1>1. ControlsInv => TypeOK
    BY DEF ControlsInv
  <1>2. QED
    BY <1>1, Invariance, PTL

\* What a conflict of one package with a name that another has says of the two.
LEMMA RejectsNames ==
    ASSUME ControlsInv, NEW p \in Pkgs, NEW q \in Pkgs, Rejects(p, q)
    PROVE  \E n \in {Counterpart(p), Virtual(Counterpart(p))} :
              \/ n = q \/ n = Virtual(q)
              \/ /\ n = Counterpart(q) /\ q[2] = "hwe"
                 /\ "set_hwe_provides_counterpart" \in visited[q]
  <1>1. PICK n \in Names :
          /\ Plain(n) \in ItemsOf(ctl[p]["Conflicts"])
          /\ n = q \/ Plain(n) \in ItemsOf(ctl[q]["Provides"])
    BY DEF Rejects
  <1>2. Plain(n).name = n
    BY DEF Plain
  <1>3. Conforms(p, ctl[p], visited[p]) /\ Conforms(q, ctl[q], visited[q])
    BY DEF ControlsInv, AllConform
  <1>4. n \in {Counterpart(p), Virtual(Counterpart(p))}
    BY <1>1, <1>2, <1>3 DEF Conforms
  <1>5. \/ n = q \/ n = Virtual(q)
        \/ /\ n = Counterpart(q) /\ q[2] = "hwe"
           /\ "set_hwe_provides_counterpart" \in visited[q]
    BY <1>1, <1>2, <1>3 DEF Conforms
  <1>6. QED
    BY <1>4, <1>5

\* A package rejects only packages of the other variant, and virt-hwe where it
\* provides virt.
LEMMA RejectsOther ==
    ASSUME ControlsInv, NEW p \in Pkgs, NEW q \in Pkgs, Rejects(p, q), p # q
    PROVE  p[2] # q[2] \/ Marked(q)
  <1>1. SUFFICES ASSUME p[2] = q[2] PROVE Marked(q)
    OBVIOUS
  <1>2. PICK n \in {Counterpart(p), Virtual(Counterpart(p))} :
          \/ n = q \/ n = Virtual(q)
          \/ /\ n = Counterpart(q) /\ q[2] = "hwe"
             /\ "set_hwe_provides_counterpart" \in visited[q]
    BY RejectsNames
  <1>3. /\ p[1] \in Stems /\ q[1] \in Stems /\ p = <<p[1], p[2]>> /\ q = <<q[1], q[2]>>
        /\ p[2] \in Variants /\ q[2] \in Variants
    BY DEF Pkgs
  <1>4. n[2] # q[2] /\ n[1] \in {p[1], Virt}
    BY <1>1, <1>2, <1>3 DEF Counterpart, Virtual, Variants
  <1>5. /\ n = Counterpart(q) /\ q[2] = "hwe"
        /\ "set_hwe_provides_counterpart" \in visited[q]
    BY <1>2, <1>4 DEF Virtual
  <1>6. n[1] = q[1]
    BY <1>5 DEF Counterpart
  <1>7. q[1] = Virt
    BY <1>1, <1>3, <1>4, <1>6
  <1>8. QED
    BY <1>3, <1>5, <1>7 DEF Marked

\* Once set_virtual_conflicts.sh and set_virtual_provides.sh have reached two
\* trees of different variants, the packages exclude each other, whatever other
\* scripts were run, repeated, or killed in between.
THEOREM ExclusionHolds == Spec => []Exclusive
  <1>1. ASSUME ControlsInv
        PROVE  Exclusive
    <2>1. SUFFICES ASSUME NEW p \in Pkgs, NEW q \in Pkgs, p[2] # q[2],
                          Excluding \subseteq visited[p] \cap visited[q]
                   PROVE  Clash(p, q)
      BY DEF Exclusive
    <2> DEFINE n == Virtual(Counterpart(p))
    <2>2. /\ Plain(n) \in ItemsOf(ctl[p]["Conflicts"])
          /\ Plain(Virtual(q)) \in ItemsOf(ctl[q]["Provides"])
      BY <1>1, <2>1 DEF ControlsInv, AllConform, Conforms, Excluding
    <2>3. n = Virtual(q)
      BY <2>1 DEF Pkgs, Variants, Virtual, Counterpart
    <2>4. n \in Names
      BY NamesTyped
    <2> HIDE DEF n
    <2>5. Rejects(p, q)
      BY <2>2, <2>3, <2>4 DEF Rejects
    <2>6. QED
      BY <2>1, <2>5 DEF Clash
  <1>2. QED
    BY <1>1, Invariance, PTL

\* Packages of one variant do not exclude each other, at any point of any mix of
\* the scripts, except that virt-hwe may once it was made to provide virt.
THEOREM SameVariantInstallable == Spec => []Coinstallable
  <1>1. ASSUME ControlsInv
        PROVE  Coinstallable
    BY <1>1, RejectsOther DEF Coinstallable, Clash
  <1>2. QED
    BY <1>1, Invariance, PTL

\* With the same exception, no -hwe package depends, once
\* set_hwe_dependencies.sh has updated it, on a listed package it excludes.
THEOREM RewrittenDependenciesFit == Spec => []DependenciesFit
  <1>1. ASSUME ControlsInv
        PROVE  DependenciesFit
    <2>1. SUFFICES ASSUME NEW p \in Stems \X {"hwe"},
                          NEW q \in (Listed \cap Stems) \X Variants,
                          "set_hwe_dependencies" \in visited[p], Clash(p, q),
                          NEW i \in ItemsOf(ctl[p]["Depends"]), i.name = q
                   PROVE  Marked(p) \/ Marked(q)
      BY DEF DependenciesFit
    <2>2. p \in Pkgs /\ q \in Pkgs /\ p[2] = "hwe" /\ q[1] \in Listed
      BY DEF Pkgs, Variants
    <2>3. q[2] = "hwe"
      BY <1>1, <2>1, <2>2 DEF ControlsInv, AllConform, Conforms
    <2>4. QED
      BY <1>1, <2>1, <2>2, <2>3, RejectsOther DEF Clash
  <1>2. QED
    BY <1>1, Invariance, PTL

----------------------------------------------------------------------------
(***************************************************************************)
(* What the fields hold exactly.                                           *)
(***************************************************************************)
NoTwice(list) == \A i, j \in DOMAIN list : list[i] = list[j] => i = j

\* A file that write_text has truncated.
Nothing == [f \in Fields |-> <<>>]

\* The names that the scripts in s add to field f of the file of p.
Added(p, f, s) ==
    {m \in {Counterpart(p)} :
        \/ f \in {"Conflicts", "Replaces"} /\ "set_hwe_conflicts" \in s
        \/ f = "Provides" /\ "set_hwe_provides_counterpart" \in s}
    \cup {m \in {Virtual(Counterpart(p))} :
            f = "Conflicts" /\ "set_virtual_conflicts" \in s}
    \cup {m \in {Virtual(p)} :
            f = "Provides" /\ "set_virtual_provides" \in s}

\* The fields that are merged into.
Upper == Fields \ {"Depends"}

\* The list of field f: what was unpacked, unless it is gone, and what was
\* added, once.
FieldIs(list, p, f, s, gone) ==
    /\ \A x : x \in ItemsOf(list) <=>
          \/ ~ gone /\ x \in ItemsOf(Upstream(p[1])[f])
          \/ \E n \in Added(p, f, s) : x = Plain(n)
    /\ NoTwice(list)

\* The file c of p, visited by the scripts in s since it was unpacked or, if
\* gone, emptied: Depends is the unpacked list or that list rewritten once.
Listing(p, c, s, gone) ==
    /\ gone => DOMAIN c["Depends"] = {}
    /\ ~ gone => c["Depends"] = IF "set_hwe_dependencies" \in s
                                THEN rewrite_field(Upstream(p[1])["Depends"])
                                ELSE Upstream(p[1])["Depends"]
    /\ \A f \in Upper : FieldIs(c[f], p, f, s, gone)

\* Every file is exactly what its history says.
ExactInv == \A p \in Pkgs : Listing(p, ctl[p], visited[p], p \in emptied)

\* merge_item never adds what is there.
LEMMA MergedOnce ==
    ASSUME NEW list \in Seq(Items), NEW n \in Names, NoTwice(list)
    PROVE  NoTwice(merge_item(list, n))
  <1>1. Plain(n) \in Items
    BY DEF Plain, Items
  <1>2. CASE Plain(n) \in ItemsOf(list)
    BY <1>2 DEF merge_item
  <1>3. CASE Plain(n) \notin ItemsOf(list)
    <2> DEFINE longer == Append(list, Plain(n))
    <2>1. merge_item(list, n) = longer
      BY <1>3 DEF merge_item
    <2>2. /\ DOMAIN list = 1..Len(list) /\ Len(list) \in Nat
          /\ DOMAIN longer = 1..(Len(list) + 1)
          /\ \A i \in 1..Len(list) : longer[i] = list[i]
          /\ longer[Len(list) + 1] = Plain(n)
      BY <1>1
    <2> HIDE DEF longer
    <2>3. \A i \in 1..Len(list) : longer[i] # Plain(n)
      BY <1>3, <2>2 DEF ItemsOf
    <2>4. NoTwice(longer)
      <3> SUFFICES ASSUME NEW i \in 1..(Len(list) + 1), NEW j \in 1..(Len(list) + 1),
                          longer[i] = longer[j]
                   PROVE  i = j
        BY <2>2 DEF NoTwice
      <3>1. (i \in 1..Len(list) \/ i = Len(list) + 1)
            /\ (j \in 1..Len(list) \/ j = Len(list) + 1)
        BY <2>2
      <3>2. CASE i \in 1..Len(list) /\ j \in 1..Len(list)
        BY <2>2, <3>2 DEF NoTwice
      <3>3. QED
        BY <2>2, <2>3, <3>1, <3>2
    <2>5. QED
      BY <2>1, <2>4
  <1>4. QED
    BY <1>2, <1>3

\* rewrite_field changes nothing the second time.
LEMMA RewrittenTwice ==
    ASSUME NEW list \in Seq(Items)
    PROVE  rewrite_field(rewrite_field(list)) = rewrite_field(list)
  <1>1. /\ DOMAIN rewrite_field(list) = DOMAIN list
        /\ \A k \in DOMAIN list : rewrite_field(list)[k] \in Items
    <2>1. rewrite_field(list) \in Seq(Items)
      BY Rewritten
    <2>2. DOMAIN rewrite_field(list) = DOMAIN list
      BY DEF rewrite_field
    <2>3. QED
      BY <2>1, <2>2
  <1>2. \A k \in DOMAIN list : rewrite_field(list)[k].name \notin Listed \X {"base"}
    <2>1. \A k \in DOMAIN list : rewrite_field(list)[k] \in ItemsOf(rewrite_field(list))
      BY <1>1 DEF ItemsOf
    <2>2. QED
      BY <2>1, Rewritten
  <1> DEFINE new == rewrite_field(list)
  <1>3. new = [k \in DOMAIN list |-> new[k]]
    BY DEF rewrite_field
  <1> HIDE DEF new
  <1>4. DOMAIN new = DOMAIN list /\ \A k \in DOMAIN new : new[k].name \notin Listed \X {"base"}
    BY <1>1, <1>2 DEF new
  <1>5. rewrite_field(new) = [k \in DOMAIN new |-> new[k]]
    BY <1>4 DEF rewrite_field
  <1>6. QED
    BY <1>3, <1>4, <1>5 DEF new

\* A file as it is unpacked, and an emptied one.
LEMMA FreshListing ==
    ASSUME NEW p \in Pkgs
    PROVE  Listing(p, Upstream(p[1]), {}, FALSE) /\ Listing(p, Nothing, {}, TRUE)
  <1>1. /\ Upstream(p[1])["Conflicts"] = <<>> /\ Upstream(p[1])["Provides"] = <<>>
        /\ Upstream(p[1])["Replaces"] = <<[name |-> <<p[1], "base">>, versioned |-> TRUE]>>
    BY DEF Upstream, Fields
  <1>2. \A f \in Upper : f \in {"Conflicts", "Provides", "Replaces"}
    BY DEF Upper, Fields
  <1>3. NoTwice(<<>>) /\ ItemsOf(<<>>) = {}
    BY DEF NoTwice, ItemsOf
  <1>4. NoTwice(<<[name |-> <<p[1], "base">>, versioned |-> TRUE]>>)
    BY DEF NoTwice
  <1>5. \A f \in Upper : NoTwice(Upstream(p[1])[f])
    BY <1>1, <1>2, <1>3, <1>4
  <1>6. \A f : Added(p, f, {}) = {}
    BY DEF Added
  <1>7. \A f \in Fields : Nothing[f] = <<>>
    BY DEF Nothing
  <1>8. Listing(p, Upstream(p[1]), {}, FALSE)
    BY <1>5, <1>6 DEF Listing, FieldIs
  <1>9. Listing(p, Nothing, {}, TRUE)
    BY <1>3, <1>6, <1>7 DEF Listing, FieldIs, Upper, Fields
  <1>10. QED
    BY <1>8, <1>9

\* A list into which script k merges n.
LEMMA MergedField ==
    ASSUME NEW list \in Seq(Items), NEW p, NEW f, NEW s, NEW gone, NEW n \in Names, NEW k,
           FieldIs(list, p, f, s, gone),
           \A m : m \in Added(p, f, s \cup {k}) <=> m \in Added(p, f, s) \/ m = n
    PROVE  FieldIs(merge_item(list, n), p, f, s \cup {k}, gone)
  <1>1. ItemsOf(merge_item(list, n)) = ItemsOf(list) \cup {Plain(n)}
    BY Merged
  <1>2. NoTwice(merge_item(list, n))
    BY MergedOnce DEF FieldIs
  <1>3. QED
    BY <1>1, <1>2 DEF FieldIs

\* What a script makes of a listed file is listed.
LEMMA UpdateListing ==
    ASSUME NEW p \in Pkgs, NEW c \in Controls, NEW s, NEW gone \in BOOLEAN,
           NEW k \in Scripts, Listing(p, c, s, gone)
    PROVE  Listing(p, Update(k, p, c), s \cup {k}, gone)
  <1> DEFINE d == Update(k, p, c)
             Holds(f) == FieldIs(d[f], p, f, s \cup {k}, gone)
  <1>1. /\ Counterpart(p) \in Names
        /\ Virtual(p) \in Names /\ Virtual(Counterpart(p)) \in Names
    BY NamesTyped
  <1>2. Upper = {"Conflicts", "Provides", "Replaces"} /\ "Depends" \notin Upper
    BY DEF Upper, Fields
  <1>3. ASSUME NEW f \in Upper, d[f] = c[f],
               \A m : m \in Added(p, f, s \cup {k}) <=> m \in Added(p, f, s)
        PROVE  Holds(f)
    BY <1>3 DEF Listing, FieldIs
  <1>4. ASSUME NEW f \in Upper, NEW n \in Names, d[f] = merge_item(c[f], n),
               \A m : m \in Added(p, f, s \cup {k}) <=> m \in Added(p, f, s) \/ m = n
        PROVE  Holds(f)
    <2>1. c[f] \in Seq(Items) /\ FieldIs(c[f], p, f, s, gone)
      BY DEF Controls, Upper, Listing
    <2>2. FieldIs(merge_item(c[f], n), p, f, s \cup {k}, gone)
      BY <1>4, <2>1, MergedField, Zenon
    <2> HIDE DEF d
    <2>3. QED
      BY <1>4, <2>2
  <1>5. ASSUME \A f \in Upper : Holds(f), d["Depends"] = c["Depends"],
               k # "set_hwe_dependencies"
        PROVE  Listing(p, d, s \cup {k}, gone)
    <2> HIDE DEF d
    <2>1. QED
      BY <1>5 DEF Listing
  <1>6. CASE k = "set_hwe_conflicts"
    <2>1. d = [c EXCEPT !["Conflicts"] = merge_item(c["Conflicts"], Counterpart(p)),
                        !["Replaces"]  = merge_item(c["Replaces"], Counterpart(p))]
      BY <1>6 DEF Update, set_hwe_conflicts, Controls, Fields
    <2> HIDE DEF d
    <2>2. /\ d["Conflicts"] = merge_item(c["Conflicts"], Counterpart(p))
          /\ d["Replaces"] = merge_item(c["Replaces"], Counterpart(p))
          /\ d["Provides"] = c["Provides"] /\ d["Depends"] = c["Depends"]
      BY <2>1 DEF Controls, Fields
    <2>3. /\ \A m : m \in Added(p, "Conflicts", s \cup {k})
                       <=> m \in Added(p, "Conflicts", s) \/ m = Counterpart(p)
          /\ \A m : m \in Added(p, "Replaces", s \cup {k})
                       <=> m \in Added(p, "Replaces", s) \/ m = Counterpart(p)
          /\ \A m : m \in Added(p, "Provides", s \cup {k})
                       <=> m \in Added(p, "Provides", s)
      BY <1>6 DEF Added
    <2> HIDE DEF Holds
    <2>4. Holds("Conflicts") /\ Holds("Replaces") /\ Holds("Provides")
      BY <1>1, <1>2, <1>3, <1>4, <2>2, <2>3
    <2>5. QED
      BY <1>2, <1>5, <1>6, <2>2, <2>4 DEF d
  <1>7. CASE k = "set_hwe_dependencies"
    <2>1. d = [c EXCEPT !["Depends"] = rewrite_field(c["Depends"])]
      BY <1>7 DEF Update, set_hwe_dependencies, Controls, Fields
    <2> HIDE DEF d
    <2>2. /\ d["Depends"] = rewrite_field(c["Depends"])
          /\ \A f \in Upper : d[f] = c[f]
      BY <2>1 DEF Controls, Fields, Upper
    <2>3. \A f \in Upper : \A m : m \in Added(p, f, s \cup {k}) <=> m \in Added(p, f, s)
      BY <1>7 DEF Added
    <2>4. \A f \in Upper : Holds(f)
      <3> HIDE DEF Holds
      <3>1. QED
        BY <1>3, <2>2, <2>3
    <2>5. gone => DOMAIN d["Depends"] = {}
      BY <2>2 DEF Listing, rewrite_field
    <2>6. ~ gone => d["Depends"] = rewrite_field(Upstream(p[1])["Depends"])
      <3>1. Upstream(p[1])["Depends"] \in Seq(Items)
        BY FreshConforms DEF Controls, Fields
      <3>2. QED
        BY <2>2, <3>1, RewrittenTwice DEF Listing
    <2>7. QED
      BY <1>7, <2>4, <2>5, <2>6 DEF Listing, d
  <1>8. CASE k = "set_hwe_provides_counterpart"
    <2>1. d = [c EXCEPT !["Provides"] = merge_item(c["Provides"], Counterpart(p))]
      BY <1>8 DEF Update, set_hwe_provides_counterpart, Controls, Fields
    <2> HIDE DEF d
    <2>2. /\ d["Provides"] = merge_item(c["Provides"], Counterpart(p))
          /\ d["Conflicts"] = c["Conflicts"] /\ d["Replaces"] = c["Replaces"]
          /\ d["Depends"] = c["Depends"]
      BY <2>1 DEF Controls, Fields
    <2>3. /\ \A m : m \in Added(p, "Provides", s \cup {k})
                       <=> m \in Added(p, "Provides", s) \/ m = Counterpart(p)
          /\ \A f \in {"Conflicts", "Replaces"} : \A m :
                m \in Added(p, f, s \cup {k}) <=> m \in Added(p, f, s)
      BY <1>8 DEF Added
    <2> HIDE DEF Holds
    <2>4. Holds("Conflicts") /\ Holds("Replaces") /\ Holds("Provides")
      BY <1>1, <1>2, <1>3, <1>4, <2>2, <2>3
    <2>5. QED
      BY <1>2, <1>5, <1>8, <2>2, <2>4 DEF d
  <1>9. CASE k = "set_virtual_conflicts"
    <2>1. d = [c EXCEPT !["Conflicts"] =
                  merge_item(c["Conflicts"], Virtual(Counterpart(p)))]
      BY <1>9 DEF Update, set_virtual_conflicts, Controls, Fields
    <2> HIDE DEF d
    <2>2. /\ d["Conflicts"] = merge_item(c["Conflicts"], Virtual(Counterpart(p)))
          /\ d["Provides"] = c["Provides"] /\ d["Replaces"] = c["Replaces"]
          /\ d["Depends"] = c["Depends"]
      BY <2>1 DEF Controls, Fields
    <2>3. /\ \A m : m \in Added(p, "Conflicts", s \cup {k})
                       <=> m \in Added(p, "Conflicts", s) \/ m = Virtual(Counterpart(p))
          /\ \A f \in {"Provides", "Replaces"} : \A m :
                m \in Added(p, f, s \cup {k}) <=> m \in Added(p, f, s)
      BY <1>9 DEF Added
    <2> HIDE DEF Holds
    <2>4. Holds("Conflicts") /\ Holds("Replaces") /\ Holds("Provides")
      BY <1>1, <1>2, <1>3, <1>4, <2>2, <2>3
    <2>5. QED
      BY <1>2, <1>5, <1>9, <2>2, <2>4 DEF d
  <1>10. CASE k = "set_virtual_provides"
    <2>1. d = [c EXCEPT !["Provides"] = merge_item(c["Provides"], Virtual(p))]
      BY <1>10 DEF Update, set_virtual_provides, Controls, Fields
    <2> HIDE DEF d
    <2>2. /\ d["Provides"] = merge_item(c["Provides"], Virtual(p))
          /\ d["Conflicts"] = c["Conflicts"] /\ d["Replaces"] = c["Replaces"]
          /\ d["Depends"] = c["Depends"]
      BY <2>1 DEF Controls, Fields
    <2>3. /\ \A m : m \in Added(p, "Provides", s \cup {k})
                       <=> m \in Added(p, "Provides", s) \/ m = Virtual(p)
          /\ \A f \in {"Conflicts", "Replaces"} : \A m :
                m \in Added(p, f, s \cup {k}) <=> m \in Added(p, f, s)
      BY <1>10 DEF Added
    <2> HIDE DEF Holds
    <2>4. Holds("Conflicts") /\ Holds("Replaces") /\ Holds("Provides")
      BY <1>1, <1>2, <1>3, <1>4, <2>2, <2>3
    <2>5. QED
      BY <1>2, <1>5, <1>10, <2>2, <2>4 DEF d
  <1>11. QED
    BY <1>6, <1>7, <1>8, <1>9, <1>10 DEF Scripts

\* One file changes, and the others do not.
LEMMA ListingStep ==
    ASSUME FilesOK, ExactInv, NEW p \in Pkgs, NEW c, NEW s, NEW E,
           ctl' = [ctl EXCEPT ![p] = c], visited' = [visited EXCEPT ![p] = s],
           emptied' = E, \A q \in Pkgs \ {p} : q \in E <=> q \in emptied,
           Listing(p, c, s, p \in E)
    PROVE  ExactInv'
  <1> SUFFICES ASSUME NEW q \in Pkgs
               PROVE  Listing(q, ctl'[q], visited'[q], q \in E)
    BY DEF ExactInv
  <1>1. CASE q = p
    <2>1. ctl'[q] = c /\ visited'[q] = s
      BY <1>1 DEF FilesOK
    <2>2. QED
      BY <1>1, <2>1
  <1>2. CASE q # p
    <2>1. ctl'[q] = ctl[q] /\ visited'[q] = visited[q] /\ (q \in E <=> q \in emptied)
      BY <1>2 DEF FilesOK
    <2>2. Listing(q, ctl[q], visited[q], q \in emptied)
      BY DEF ExactInv
    <2>3. QED
      BY <2>1, <2>2 DEF Listing, FieldIs
  <1>3. QED
    BY <1>1, <1>2

\* Every step keeps the lists exact.
LEMMA ExactStep ==
    ASSUME ControlsInv, ExactInv, [Next]_vars
    PROVE  ExactInv'
  <1>0. FilesOK /\ AllConform
    BY TypeParts DEF ControlsInv
  <1>1. CASE Start \/ Stop \/ UNCHANGED vars
    BY <1>1 DEF Start, Stop, vars, ExactInv
  <1>2. CASE Visit
    <2>1. PICK p \in todo :
            /\ ctl' = IF dry THEN ctl ELSE [ctl EXCEPT ![p] = Update(script, p, @)]
            /\ visited' = IF dry THEN visited ELSE [visited EXCEPT ![p] = @ \cup {script}]
      BY <1>2 DEF Visit
    <2>2. p \in Pkgs /\ script \in Scripts /\ emptied' = emptied
      BY <1>0, <1>2, <2>1 DEF FilesOK, Visit
    <2>3. CASE dry
      BY <2>1, <2>2, <2>3 DEF ExactInv
    <2>4. CASE ~ dry
      <3>1. /\ ctl' = [ctl EXCEPT ![p] = Update(script, p, ctl[p])]
            /\ visited' = [visited EXCEPT ![p] = visited[p] \cup {script}]
        BY <2>1, <2>4
      <3>2. ctl[p] \in Controls /\ Listing(p, ctl[p], visited[p], p \in emptied)
        BY <1>0, <2>2 DEF AllConform, ExactInv
      <3>3. Listing(p, Update(script, p, ctl[p]), visited[p] \cup {script}, p \in emptied)
        <4> DEFINE gone == p \in emptied
        <4>1. gone \in BOOLEAN
          OBVIOUS
        <4> HIDE DEF gone
        <4>2. Listing(p, ctl[p], visited[p], gone)
          BY <3>2 DEF gone
        <4>3. Listing(p, Update(script, p, ctl[p]), visited[p] \cup {script}, gone)
          BY <2>2, <3>2, <4>1, <4>2, UpdateListing, Zenon
        <4>4. QED
          BY <4>3 DEF gone
      <3>4. QED
        BY <1>0, <2>2, <3>1, <3>3, ListingStep
    <2>5. QED
      BY <2>3, <2>4
  <1>3. CASE Kill
    <2>1. PICK p \in todo :
            /\ ctl' = [ctl EXCEPT ![p] = [f \in Fields |-> <<>>]]
            /\ visited' = [visited EXCEPT ![p] = {}]
            /\ emptied' = emptied \cup {p}
      BY <1>3 DEF Kill
    <2>2. p \in Pkgs
      BY <1>0, <2>1 DEF FilesOK
    <2>3. Listing(p, [f \in Fields |-> <<>>], {}, p \in emptied')
      <3>1. Listing(p, Nothing, {}, TRUE)
        BY <2>2, FreshListing
      <3>2. (p \in emptied') = TRUE
        BY <2>1
      <3>3. Nothing = [f \in Fields |-> <<>>]
        BY DEF Nothing
      <3>4. Listing(p, Nothing, {}, p \in emptied')
        BY <3>1, <3>2
      <3>5. QED
        BY <3>3, <3>4
    <2>4. QED
      BY <1>0, <2>1, <2>2, <2>3, ListingStep
  <1>4. CASE Unpack
    <2>1. PICK x \in Stems :
            /\ ctl' = [p \in Pkgs |-> IF p[1] = x THEN Upstream(x) ELSE ctl[p]]
            /\ visited' = [p \in Pkgs |-> IF p[1] = x THEN {} ELSE visited[p]]
            /\ emptied' = {p \in emptied : p[1] # x}
      BY <1>4 DEF Unpack
    <2> SUFFICES ASSUME NEW q \in Pkgs
                 PROVE  Listing(q, ctl'[q], visited'[q], q \in emptied')
      BY DEF ExactInv
    <2>2. CASE q[1] = x
      <3>1. ctl'[q] = Upstream(q[1]) /\ visited'[q] = {} /\ q \notin emptied'
        BY <2>1, <2>2
      <3>2. QED
        BY <3>1, FreshListing DEF Listing, FieldIs
    <2>3. CASE q[1] # x
      <3>1. ctl'[q] = ctl[q] /\ visited'[q] = visited[q]
            /\ (q \in emptied' <=> q \in emptied)
        BY <2>1, <2>3
      <3>2. Listing(q, ctl[q], visited[q], q \in emptied)
        BY DEF ExactInv
      <3>3. QED
        BY <3>1, <3>2 DEF Listing, FieldIs
    <2>4. QED
      BY <2>2, <2>3
  <1>5. QED
    BY <1>1, <1>2, <1>3, <1>4 DEF Next

\* Every list is exact, whatever was run, killed or unpacked.
THEOREM Exactness == Spec => [](ControlsInv /\ ExactInv)
  <1>1. Init => ExactInv
    <2> SUFFICES ASSUME Init, NEW q \in Pkgs
                 PROVE  Listing(q, ctl[q], visited[q], q \in emptied)
      BY DEF ExactInv
    <2>1. ctl[q] = Upstream(q[1]) /\ visited[q] = {} /\ q \notin emptied
      BY DEF Init
    <2>2. QED
      BY <2>1, FreshListing DEF Listing, FieldIs
  <1>2. QED
    BY <1>1, ExactStep, InitInv, StepInv, PTL DEF Spec

\* What set_hwe_dependencies.sh makes of the unpacked dependencies, all of
\* which are names of base packages.
LEMMA RewrittenItems ==
    ASSUME NEW p \in Pkgs
    PROVE  ItemsOf(rewrite_field(Upstream(p[1])["Depends"])) =
             {[i EXCEPT !.name = IF @[1] \in Listed THEN Counterpart(@) ELSE @]
                : i \in ItemsOf(Upstream(p[1])["Depends"])}
  <1> DEFINE U == Upstream(p[1])["Depends"]
             Renamed(i) == [i EXCEPT !.name = IF @[1] \in Listed THEN Counterpart(@) ELSE @]
  <1>1. U = [i \in DOMAIN Requires[p[1]] |->
               [name |-> <<Requires[p[1]][i], "base">>, versioned |-> TRUE]]
    BY DEF Upstream, Fields
  <1> HIDE DEF U
  <1>2. ASSUME NEW k \in DOMAIN U
        PROVE  rewrite_field(U)[k] = Renamed(U[k])
    <2> DEFINE n == <<Requires[p[1]][k], "base">>
    <2>1. U[k] = [name |-> n, versioned |-> TRUE] /\ n[2] = "base"
          /\ n = <<n[1], n[2]>>
      BY <1>1
    <2> HIDE DEF n
    <2>2. U[k].name = n
      BY <2>1
    <2>3. n \in Listed \X {"base"} <=> n[1] \in Listed
      BY <2>1
    <2>4. rewrite_field(U)[k] = IF n[1] \in Listed
                                THEN [U[k] EXCEPT !.name = Counterpart(n)] ELSE U[k]
      BY <2>2, <2>3 DEF rewrite_field
    <2>5. Renamed(U[k]) = [U[k] EXCEPT !.name = IF n[1] \in Listed
                                               THEN Counterpart(n) ELSE n]
      BY <2>2
    <2>6. [U[k] EXCEPT !.name = n] = U[k]
      <3>1. U[k] \in [name : {n}, versioned : {TRUE}]
        BY <2>1
      <3>2. [U[k] EXCEPT !.name = n] \in [name : {n}, versioned : {TRUE}]
        BY <3>1
      <3>3. QED
        BY <3>1, <3>2
    <2>7. QED
      BY <2>4, <2>5, <2>6
  <1>3. DOMAIN rewrite_field(U) = DOMAIN U
    BY DEF rewrite_field
  <1> HIDE DEF Renamed
  <1>4. ItemsOf(rewrite_field(U)) = {Renamed(i) : i \in ItemsOf(U)}
    BY <1>2, <1>3 DEF ItemsOf
  <1>5. QED
    BY <1>4 DEF U, Renamed

\* What each field of each file holds is decided by the scripts that reached it
\* since it was unpacked or emptied: their order, their repetition and the
\* place of an interruption do not matter.
THEOREM FieldsExactHolds == Spec => []FieldsExact
  <1>1. ASSUME ExactInv PROVE FieldsExact
    <2> SUFFICES ASSUME NEW p \in Pkgs, NEW f \in Fields
                 PROVE  ItemsOf(ctl[p][f]) = Expected(p, f)
      BY DEF FieldsExact
    <2> DEFINE up == IF p \in emptied THEN {} ELSE ItemsOf(Upstream(p[1])[f])
    <2>1. Listing(p, ctl[p], visited[p], p \in emptied)
      BY <1>1 DEF ExactInv
    <2>2. Expected(p, f) =
            (IF f = "Depends" /\ "set_hwe_dependencies" \in visited[p]
             THEN {[i EXCEPT !.name = IF @[1] \in Listed THEN Counterpart(@) ELSE @]
                      : i \in up}
             ELSE up) \cup {Plain(n) : n \in Added(p, f, visited[p])}
      BY DEF Expected, Added
    <2>3. CASE f # "Depends"
      <3>1. f \in Upper /\ Expected(p, f) = up \cup {Plain(n) : n \in Added(p, f, visited[p])}
        BY <2>2, <2>3 DEF Upper
      <3>2. FieldIs(ctl[p][f], p, f, visited[p], p \in emptied)
        BY <2>1, <3>1 DEF Listing
      <3>3. QED
        BY <3>1, <3>2 DEF FieldIs
    <2>4. CASE f = "Depends"
      <3>1. Added(p, f, visited[p]) = {}
        BY <2>4 DEF Added
      <3>2. CASE p \in emptied
        <4>1. ItemsOf(ctl[p][f]) = {}
          BY <2>1, <2>4, <3>2 DEF Listing, ItemsOf
        <4>2. Expected(p, f) = {}
          BY <2>2, <3>1, <3>2
        <4>3. QED
          BY <4>1, <4>2
      <3>3. CASE p \notin emptied
        <4>1. ctl[p][f] = IF "set_hwe_dependencies" \in visited[p]
                          THEN rewrite_field(Upstream(p[1])["Depends"])
                          ELSE Upstream(p[1])["Depends"]
          BY <2>1, <2>4, <3>3 DEF Listing
        <4>2. CASE "set_hwe_dependencies" \in visited[p]
          BY <2>2, <2>4, <3>1, <3>3, <4>1, <4>2, RewrittenItems
        <4>3. CASE "set_hwe_dependencies" \notin visited[p]
          BY <2>2, <2>4, <3>1, <3>3, <4>1, <4>3
        <4>4. QED
          BY <4>2, <4>3
      <3>4. QED
        BY <3>2, <3>3
    <2>5. QED
      BY <2>3, <2>4
  <1>2. QED
    BY <1>1, Exactness, PTL

\* If no package comes with a dependency listed twice, no field ever lists an
\* item twice, however often the scripts are run.
THEOREM NoRepeatsHolds ==
    ASSUME \A x \in Stems : \A i, j \in DOMAIN Requires[x] :
              Requires[x][i] = Requires[x][j] => i = j
    PROVE  Spec => []NoRepeats
  <1>1. ASSUME ExactInv PROVE NoRepeats
    <2> SUFFICES ASSUME NEW p \in Pkgs, NEW f \in Fields
                 PROVE  NoTwice(ctl[p][f])
      BY DEF NoRepeats, NoTwice
    <2>1. Listing(p, ctl[p], visited[p], p \in emptied)
      BY <1>1 DEF ExactInv
    <2>2. CASE f # "Depends"
      BY <2>1, <2>2 DEF Listing, FieldIs, Upper
    <2>3. CASE f = "Depends"
      <3> DEFINE U == Upstream(p[1])["Depends"]
                 R == Requires[p[1]]
      <3>1. U = [i \in DOMAIN R |-> [name |-> <<R[i], "base">>, versioned |-> TRUE]]
        BY DEF Upstream, Fields
      <3>2. \A i, j \in DOMAIN R : R[i] = R[j] => i = j
        BY DEF Pkgs
      <3> HIDE DEF U, R
      <3>3. DOMAIN U = DOMAIN R /\ \A i \in DOMAIN R : U[i].name = <<R[i], "base">>
        BY <3>1
      <3>4. NoTwice(U)
        <4> SUFFICES ASSUME NEW i \in DOMAIN R, NEW j \in DOMAIN R, U[i] = U[j]
                     PROVE  i = j
          BY <3>3 DEF NoTwice
        <4>1. <<R[i], "base">> = <<R[j], "base">>
          BY <3>3
        <4>2. QED
          BY <3>2, <4>1
      <3>5. NoTwice(rewrite_field(U))
        <4> SUFFICES ASSUME NEW i \in DOMAIN R, NEW j \in DOMAIN R,
                            rewrite_field(U)[i] = rewrite_field(U)[j]
                     PROVE  i = j
          BY <3>3 DEF NoTwice, rewrite_field
        <4>1. ASSUME NEW k \in DOMAIN R
              PROVE  rewrite_field(U)[k].name[1] = R[k]
          <5>1. U[k] = [name |-> <<R[k], "base">>, versioned |-> TRUE]
            BY <3>1
          <5>2. CASE <<R[k], "base">> \in Listed \X {"base"}
            <6>1. rewrite_field(U)[k] = [U[k] EXCEPT !.name = Counterpart(U[k].name)]
              BY <3>3, <5>2 DEF rewrite_field
            <6>2. rewrite_field(U)[k].name = Counterpart(<<R[k], "base">>)
              BY <5>1, <6>1
            <6>3. QED
              BY <6>2 DEF Counterpart
          <5>3. CASE <<R[k], "base">> \notin Listed \X {"base"}
            BY <3>3, <5>3 DEF rewrite_field
          <5>4. QED
            BY <5>2, <5>3
        <4>2. QED
          BY <3>2, <4>1
      <3>6. CASE p \in emptied
        BY <2>1, <2>3, <3>6 DEF Listing, NoTwice
      <3>7. CASE p \notin emptied
        BY <2>1, <2>3, <3>4, <3>5, <3>7 DEF Listing, U
      <3>8. QED
        BY <3>6, <3>7
    <2>4. QED
      BY <2>2, <2>3
  <1>2. QED
    BY <1>1, Exactness, PTL
=============================================================================
