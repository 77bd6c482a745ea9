------------------------ MODULE SourceControlProofs ------------------------
(***************************************************************************)
(* Theorems about the source package tools, for any packages, maintainer   *)
(* files and bounds.                                                       *)
(***************************************************************************)
EXTENDS SourceControl, TLAPS

----------------------------------------------------------------------------
(***************************************************************************)
(* The inductive invariant: control files.                                 *)
(***************************************************************************)
\* The tools that write a control file.
Tools == {"create-hwe", "gen-hwe"}

\* No name has two suffixes, and ubuntu-virt has none.
Once(t) == t \in Text /\ t.suffix \in [Stanzas -> {0, 1}] /\ t.suffix[Virt] = 0

\* The packages of a source are renamed together, but for the one stanza in the
\* middle of which the text may end.
Together(t) ==
    /\ \A s, u \in t.cut : s = u
    /\ \A s, u \in t.there \ (t.cut \cup {Virt}) : t.suffix[s] = t.suffix[u]

\* A whole stanza of a renamed package depends on no package of its source by
\* the old name, and stands in for its own old name.
Follow(t) == \A p \in (t.there \cap Stems) \ t.cut : t.suffix[p] = 1 =>
    /\ \A q \in t.there \cap Stems : <<q, 0>> \notin t.rel[p].Depends
    /\ <<p, 0>> \in t.rel[p].Provides /\ <<p, 0>> \in t.rel[p].Replaces

\* What the tools in by have written: only create-hwe.py writes Conflicts, only
\* gen-hwe.py makes a package depend on ubuntu-virt.
Sided(t, by) == \A p \in Packages :
    /\ t.rel[p].Conflicts \subseteq {ubuntu_virt}
    /\ "create-hwe" \notin by => t.rel[p].Conflicts = {}
    /\ "gen-hwe" \notin by => \A x \in t.rel[p].Depends : x[1] # Virt

\* ubuntu-virt refers to no other package.
VirtAlone(t) == \A f \in Fields : t.rel[Virt][f] \subseteq {Virt} \X Suffixes

\* All that is true of a text that the tools in by have written.
Good(t, by) == /\ Once(t) /\ Together(t) /\ Follow(t)
               /\ by \subseteq Tools /\ Sided(t, by) /\ VirtAlone(t)

\* It is true of both files, and of the text that is about to be written.
TextsInv == /\ wrote \in [Files -> SUBSET Tools]
            /\ \A f \in Files : Good(text[f], wrote[f])
            /\ Good(original, {}) /\ Good(pending, writing)

----------------------------------------------------------------------------
(***************************************************************************)
(* Built trees.                                                            *)
(***************************************************************************)
\* Names that come from one control file: at most one per package.
Coherent(N) ==
    /\ N \in SUBSET (Packages \X {0, 1})
    /\ \A x, y \in N : x[1] = y[1] => x[2] = y[2]

\* The tree of x has none of the names in N.
Clean(x, N) == x[1] \in build.there =>
    /\ NameIn(build, x[1]) \notin N
    /\ \A f \in Fields : build.rel[x[1]][f] \cap N = {}

\* While the trees are rewritten, those that are done have no old name.
TreesInv ==
    /\ build \in Text /\ build.suffix \in [Stanzas -> 0..2] /\ VirtAlone(build)
    /\ Coherent(built) /\ Coherent(names) /\ Coherent(rewritten)
    /\ RewriteComplete
    /\ tool = "rewrite" =>
          /\ rewritten = {}
          /\ names = NamesIn(text["control"])
          /\ \A x \in built \cap names : x[1] \in todo \/ Clean(x, names)

----------------------------------------------------------------------------
(***************************************************************************)
(* Maintainer files, and the running tool.                                 *)
(***************************************************************************)
\* A file still to be renamed is in the loop of the running tool.
MaintInv ==
    /\ \A m \in made : m[1] \in Stems /\ m[2] \in Kinds /\ m[3] # 0
    /\ moved \in SUBSET Stems
    /\ NothingLost
    /\ \A s \in moved, k \in Kinds : Exists(<<s, k, 0>>) =>
          Exists(<<s, k, 1>>) \/ (tool = "rename" /\ <<s, k, 0>> \in todo)

\* What the loop of the running tool is over.
LoopInv ==
    /\ tool = "patch" => todo \in SUBSET Packages
    /\ tool = "rewrite" => \A p \in todo : \E x \in built \cap names : x[1] = p
    /\ tool = "rename" => \A m \in todo : m \in MaintFiles /\ m[3] = 0

\* The inductive invariant as a whole.
SourceInv == TypeOK /\ TextsInv /\ TreesInv /\ MaintInv /\ LoopInv

----------------------------------------------------------------------------
(***************************************************************************)
(* The operators of the tools.                                             *)
(***************************************************************************)
\* A word is kept, or was replaced.
LEMMA WordsRenamed ==
    ASSUME NEW S, NEW R, NEW x \in rename_package_words(S, R)
    PROVE  (x \in S /\ x \notin R) \/ \E y \in S \cap R : x = Suffixed(y)
  BY DEF rename_package_words

\* Replacing names that have at most one suffix gives names.
LEMMA WordsTyped ==
    ASSUME NEW S \in SUBSET Names, NEW R \in SUBSET (Packages \X {0, 1})
    PROVE  rename_package_words(S, R) \in SUBSET Names
  <1>1. \A y \in R : Suffixed(y) \in Names
    BY DEF Suffixed, Names, Suffixes
  <1>2. QED
    BY <1>1 DEF rename_package_words

\* The names the tools write are names.
LEMMA NamesTyped ==
    /\ ubuntu_virt \in Names /\ ubuntu_virt_hwe \in Names
    /\ \A p \in Packages : <<p, 0>> \in Names
    /\ \A p \in Packages, n \in 0..2 : Suffixed(<<p, n>>) \in Names
    /\ Virt \in Packages /\ Virt \notin Stems /\ "Source" \notin Packages
    /\ Packages \subseteq Stanzas /\ Stems \subseteq Packages
  BY StemsAssumption, SourceAssumption
  DEF ubuntu_virt, ubuntu_virt_hwe, Names, Packages, Suffixes, Suffixed, Stanzas

\* The relations of a stanza that create-hwe.py renames.
LEMMA RenamedRelationFacts ==
    ASSUME NEW r \in Relation, NEW p \in Stems,
           NEW R \in SUBSET (Packages \X {0, 1})
    PROVE  /\ RenamedRelation(r, p, R) \in Relation
           /\ RenamedRelation(r, p, R).Depends = rename_package_words(r.Depends, R)
           /\ RenamedRelation(r, p, R).Conflicts =
                 rename_package_words(r.Conflicts, R) \cup {ubuntu_virt}
           /\ <<p, 0>> \in RenamedRelation(r, p, R).Provides
           /\ <<p, 0>> \in RenamedRelation(r, p, R).Replaces
  <1>1. \A f \in Fields : rename_package_words(r[f], R) \in SUBSET Names
    BY WordsTyped DEF Relation
  <1>2. RenamedRelation(r, p, R) \in Relation
    BY <1>1, NamesTyped DEF RenamedRelation, Relation
  <1>3. QED
    BY <1>2 DEF RenamedRelation, Fields

\* What create-hwe.py writes is good if it read a good text.
LEMMA CreateGood ==
    ASSUME NEW t, NEW by, Good(t, by), ~ AlreadyHwe(t)
    PROVE  Good(create_hwe(t), by \cup {"create-hwe"})
  <1> DEFINE L == package_list(t)
             R == {<<q, 0>> : q \in L}
             u == create_hwe(t)
  <1>0. /\ t \in Text /\ L \in SUBSET Stems /\ L = t.there \cap Stems
        /\ \A s \in t.there \ {Virt} : t.suffix[s] = 0
        /\ t.suffix \in [Stanzas -> {0, 1}] /\ t.suffix[Virt] = 0
        /\ t.there \subseteq Stanzas /\ t.rel \in [Packages -> Relation]
        /\ t.cut \subseteq Stanzas /\ \A s, v \in t.cut : s = v
    BY DEF Good, Once, Together, AlreadyHwe, package_list, Text
  <1>1. /\ u.there = t.there
        /\ u.suffix = [s \in Stanzas |->
                          IF s \in L \cup (t.there \cap {"Source"})
                          THEN t.suffix[s] + 1 ELSE t.suffix[s]]
        /\ u.rel = [p \in Packages |->
                       IF p \in L THEN RenamedRelation(t.rel[p], p, R) ELSE t.rel[p]]
        /\ u.cut = t.cut
        /\ u = [there |-> u.there, suffix |-> u.suffix, rel |-> u.rel, cut |-> u.cut]
    BY DEF create_hwe
  <1>2. /\ \A s \in L \cup (t.there \cap {"Source"}) : u.suffix[s] = 1
        /\ \A s \in Stanzas \ (L \cup (t.there \cap {"Source"})) :
              u.suffix[s] = t.suffix[s]
        /\ u.suffix \in [Stanzas -> {0, 1}]
    BY <1>0, <1>1, NamesTyped
  <1>3. ASSUME NEW p \in L
        PROVE  /\ u.rel[p] \in Relation
               /\ u.rel[p].Depends = rename_package_words(t.rel[p].Depends, R)
               /\ u.rel[p].Conflicts =
                     rename_package_words(t.rel[p].Conflicts, R) \cup {ubuntu_virt}
               /\ <<p, 0>> \in u.rel[p].Provides /\ <<p, 0>> \in u.rel[p].Replaces
    <2>1. u.rel[p] = RenamedRelation(t.rel[p], p, R) /\ p \in Stems
      BY <1>0, <1>1, NamesTyped
    <2>2. t.rel[p] \in Relation
      BY <1>0, <2>1, NamesTyped
    <2>3. R \in SUBSET (Packages \X {0, 1})
      BY <1>0, NamesTyped
    <2> HIDE DEF u, R, L
    <2>4. QED
      BY <2>1, <2>2, <2>3, RenamedRelationFacts
  <1>4. \A p \in Packages \ L : u.rel[p] = t.rel[p]
    BY <1>1
  <1> HIDE DEF u, L, R
  <1>5. Once(u)
    <2>1. u.rel \in [Packages -> Relation]
      BY <1>0, <1>1, <1>3, <1>4
    <2>2. u.suffix \in [Stanzas -> Suffixes]
      BY <1>2 DEF Suffixes
    <2>3. u \in Text
      BY <1>0, <1>1, <2>1, <2>2 DEF Text
    <2>4. u.suffix[Virt] = 0
      BY <1>0, <1>2, NamesTyped
    <2>5. QED
      BY <1>2, <2>3, <2>4 DEF Once
  <1>6. Together(u)
    BY <1>0, <1>1, <1>2 DEF Together, Stanzas, Packages
  <1>7. ASSUME NEW p \in L, NEW q \in L
        PROVE  <<q, 0>> \notin rename_package_words(t.rel[p].Depends, R)
    <2>1. \A y \in R : y[2] = 0
      BY DEF R
    <2>2. <<q, 0>> \in R /\ \A y \in R : Suffixed(y) # <<q, 0>>
      BY <2>1 DEF R, Suffixed
    <2>3. QED
      BY <2>2, WordsRenamed
  <1>8. Follow(u)
    <2> SUFFICES ASSUME NEW p \in L
                 PROVE  /\ \A q \in L : <<q, 0>> \notin u.rel[p].Depends
                        /\ <<p, 0>> \in u.rel[p].Provides /\ <<p, 0>> \in u.rel[p].Replaces
      BY <1>0, <1>1 DEF Follow
    <2>1. QED
      BY <1>3, <1>7
  <1>9. /\ ubuntu_virt \notin R /\ \A y \in R : Suffixed(y) # ubuntu_virt
        /\ \A y : Suffixed(y)[1] = y[1]
    BY <1>0, NamesTyped DEF R, ubuntu_virt, Suffixed
  <1>10. Sided(u, by \cup {"create-hwe"})
    <2> SUFFICES ASSUME NEW p \in Packages
                 PROVE  /\ u.rel[p].Conflicts \subseteq {ubuntu_virt}
                        /\ "gen-hwe" \notin by => \A x \in u.rel[p].Depends : x[1] # Virt
      BY DEF Sided
    <2>1. /\ t.rel[p].Conflicts \subseteq {ubuntu_virt}
          /\ "gen-hwe" \notin by => \A x \in t.rel[p].Depends : x[1] # Virt
      BY DEF Good, Sided
    <2>2. CASE p \in L
      <3>1. rename_package_words(t.rel[p].Conflicts, R) \subseteq {ubuntu_virt}
        BY <1>9, <2>1, WordsRenamed
      <3>2. "gen-hwe" \notin by =>
                \A x \in rename_package_words(t.rel[p].Depends, R) : x[1] # Virt
        BY <1>9, <2>1, WordsRenamed
      <3>3. QED
        BY <1>3, <2>2, <3>1, <3>2
    <2>3. CASE p \notin L
      BY <1>4, <2>1, <2>3
    <2>4. QED
      BY <2>2, <2>3
  <1>11. VirtAlone(u)
    BY <1>0, <1>4, NamesTyped DEF Good, VirtAlone
  <1>12. QED
    BY <1>5, <1>6, <1>8, <1>10, <1>11 DEF Good, Tools, u

\* The empty text.
LEMMA EmptyGood ==
    ASSUME NEW by \in SUBSET Tools
    PROVE  Good(Empty, by)
  <1>1. /\ Empty.there = {} /\ Empty.suffix = [s \in Stanzas |-> 0]
        /\ Empty.rel = [p \in Packages |-> NoRelation] /\ Empty.cut = {}
        /\ NoRelation \in Relation /\ \A f \in Fields : NoRelation[f] = {}
    BY DEF Empty, NoRelation, Relation
  <1>2. Once(Empty)
    <2>1. Empty \in Text
      BY <1>1 DEF Empty, Text, Suffixes
    <2>2. QED
      BY <1>1, <2>1, NamesTyped DEF Once
  <1>3. Together(Empty) /\ Follow(Empty)
    BY <1>1 DEF Together, Follow
  <1>4. Sided(Empty, by) /\ VirtAlone(Empty)
    BY <1>1, NamesTyped DEF Sided, VirtAlone, Fields
  <1>5. QED
    BY <1>2, <1>3, <1>4 DEF Good

\* A base package's relations.
LEMMA BaseRelationFacts ==
    ASSUME NEW r \in Relation, NEW p \in Packages, NEW n \in 0..2
    PROVE  /\ BaseRelation(r, <<p, n>>) \in Relation
           /\ BaseRelation(r, <<p, n>>).Conflicts = r.Conflicts
           /\ BaseRelation(r, <<p, n>>).Depends = r.Depends \cup {ubuntu_virt}
           /\ \A f \in Fields : \A x \in BaseRelation(r, <<p, n>>)[f] :
                 x \in r[f] \/ x = ubuntu_virt \/ x = Suffixed(<<p, n>>)
           /\ \A f \in Fields : r[f] \subseteq BaseRelation(r, <<p, n>>)[f]
  <1> DEFINE new == BaseRelation(r, <<p, n>>)
  <1>1. /\ new = [f \in Fields |-> CASE f = "Replaces" -> r.Replaces \cup {Suffixed(<<p, n>>)}
                                     [] f = "Depends"  -> r.Depends \cup {ubuntu_virt}
                                     [] OTHER          -> r[f]]
    BY DEF BaseRelation, Relation, Fields
  <1>2. Suffixed(<<p, n>>) \in Names /\ ubuntu_virt \in Names
    BY NamesTyped
  <1> HIDE DEF new
  <1>3. new \in Relation
    BY <1>1, <1>2 DEF Relation, Fields
  <1>4. QED
    BY <1>1, <1>3 DEF Fields, new

\* What gen-hwe.py writes is good.
LEMMA GenGood ==
    ASSUME NEW t, NEW by, Good(t, by)
    PROVE  Good(gen_hwe(t), by \cup {"gen-hwe"})
  <1> DEFINE u == gen_hwe(t)
  <1>0. /\ t \in Text /\ t.rel \in [Packages -> Relation]
        /\ t.there \subseteq Stanzas /\ t.suffix \in [Stanzas -> {0, 1}]
        /\ t.suffix[Virt] = 0 /\ t.cut \subseteq Stanzas
    BY DEF Good, Once, Text
  <1>1. /\ u.there = t.there /\ u.suffix = t.suffix /\ u.cut = t.cut
        /\ u.rel = [p \in Packages |->
                      IF p \in t.there THEN BaseRelation(t.rel[p], <<p, t.suffix[p]>>)
                      ELSE t.rel[p]]
        /\ u = [there |-> u.there, suffix |-> u.suffix, rel |-> u.rel, cut |-> u.cut]
    <2> DEFINE R == [p \in Packages |->
                        IF p \in t.there THEN BaseRelation(t.rel[p], NameIn(t, p))
                        ELSE t.rel[p]]
    <2>1. u = [t EXCEPT !.rel = R]
      BY DEF gen_hwe
    <2> HIDE DEF R, u
    <2>2. /\ u.there = t.there /\ u.suffix = t.suffix /\ u.rel = R /\ u.cut = t.cut
          /\ u = [there |-> u.there, suffix |-> u.suffix, rel |-> u.rel, cut |-> u.cut]
      BY <1>0, <2>1 DEF Text
    <2>3. QED
      BY <2>2 DEF R, NameIn
  <1>2. ASSUME NEW p \in Packages
        PROVE  /\ u.rel[p] \in Relation
               /\ u.rel[p].Conflicts = t.rel[p].Conflicts
               /\ u.rel[p].Depends \subseteq t.rel[p].Depends \cup {ubuntu_virt}
               /\ \A f \in Fields : \A x \in u.rel[p][f] :
                     \/ x \in t.rel[p][f] \/ x = ubuntu_virt
                     \/ x = Suffixed(<<p, t.suffix[p]>>)
               /\ \A f \in Fields : t.rel[p][f] \subseteq u.rel[p][f]
    <2>1. t.suffix[p] \in 0..2 /\ t.rel[p] \in Relation
      BY <1>0, NamesTyped
    <2>2. u.rel[p] = t.rel[p] \/ u.rel[p] = BaseRelation(t.rel[p], <<p, t.suffix[p]>>)
      BY <1>1
    <2> HIDE DEF u
    <2>3. CASE u.rel[p] = t.rel[p]
      BY <2>1, <2>3
    <2>4. CASE u.rel[p] = BaseRelation(t.rel[p], <<p, t.suffix[p]>>)
      <3> DEFINE r == t.rel[p]
                 n == t.suffix[p]
                 new == u.rel[p]
      <3>1. r \in Relation /\ n \in 0..2 /\ new = BaseRelation(r, <<p, n>>)
        BY <2>1, <2>4
      <3> HIDE DEF r, n, new
      <3>2. /\ new \in Relation
            /\ new.Conflicts = r.Conflicts
            /\ new.Depends = r.Depends \cup {ubuntu_virt}
            /\ \A f \in Fields : \A x \in new[f] :
                  x \in r[f] \/ x = ubuntu_virt \/ x = Suffixed(<<p, n>>)
            /\ \A f \in Fields : r[f] \subseteq new[f]
        BY <3>1, BaseRelationFacts
      <3>3. QED
        BY <3>2 DEF r, n, new
    <2>5. QED
      BY <2>2, <2>3, <2>4
  <1> HIDE DEF u
  <1>3. Once(u)
    <2>1. u.rel \in [Packages -> Relation]
      BY <1>1, <1>2
    <2>2. u \in Text
      BY <1>0, <1>1, <2>1 DEF Text
    <2>3. QED
      BY <1>0, <1>1, <2>2 DEF Once
  <1>4. Together(u)
    BY <1>1 DEF Good, Together
  <1>5. Follow(u)
    <2> SUFFICES ASSUME NEW p \in (t.there \cap Stems) \ t.cut, t.suffix[p] = 1
                 PROVE  /\ \A q \in t.there \cap Stems : <<q, 0>> \notin u.rel[p].Depends
                        /\ <<p, 0>> \in u.rel[p].Provides /\ <<p, 0>> \in u.rel[p].Replaces
      BY <1>1 DEF Follow
    <2>1. \A q \in Stems : <<q, 0>> # ubuntu_virt
      BY NamesTyped DEF ubuntu_virt
    <2>2. /\ \A q \in t.there \cap Stems : <<q, 0>> \notin t.rel[p].Depends
          /\ <<p, 0>> \in t.rel[p].Provides /\ <<p, 0>> \in t.rel[p].Replaces
      BY DEF Good, Follow
    <2>3. "Provides" \in Fields /\ "Replaces" \in Fields /\ p \in Packages
      BY NamesTyped DEF Fields
    <2>4. QED
      BY <1>2, <2>1, <2>2, <2>3
  <1>6. Sided(u, by \cup {"gen-hwe"})
    BY <1>2 DEF Good, Sided
  <1>7. VirtAlone(u)
    <2>1. ubuntu_virt \in {Virt} \X Suffixes /\ Suffixed(<<Virt, 0>>) \in {Virt} \X Suffixes
      BY DEF ubuntu_virt, Suffixed, Suffixes
    <2>2. QED
      BY <1>0, <1>2, <2>1, NamesTyped DEF Good, VirtAlone
  <1>8. QED
    BY <1>3, <1>4, <1>5, <1>6, <1>7 DEF Good, Tools, u

\* A name of a field that was cut short was there, with its suffix.
LEMMA CutRelationFacts ==
    ASSUME NEW r \in Relation, NEW c \in CutRelation(r)
    PROVE  /\ c \in Relation
           /\ \A f \in Fields : \A x \in c[f] :
                 x \in r[f] \/ \E y \in r[f] : y[2] > 0 /\ x = <<y[1], y[2] - 1>>
  <1>1. PICK g \in Fields : \E N \in CutNames(r[g]) :
          c = [f \in Fields |-> IF f = g THEN N ELSE IF f \in Above[g] THEN r[f] ELSE {}]
    BY DEF CutRelation
  <1>2. PICK N \in CutNames(r[g]) :
          c = [f \in Fields |-> IF f = g THEN N ELSE IF f \in Above[g] THEN r[f] ELSE {}]
    BY <1>1
  <1>3. \A f \in Fields : r[f] \in SUBSET Names
    BY DEF Relation
  <1>4. \A x \in N : x \in r[g] \/ \E y \in r[g] : y[2] > 0 /\ x = <<y[1], y[2] - 1>>
    <2>1. CASE N \in SUBSET r[g]
      BY <2>1
    <2>2. CASE \E y \in r[g] : y[2] > 0 /\ \E A \in SUBSET (r[g] \ {y}) :
                  N = A \cup {<<y[1], y[2] - 1>>}
      BY <2>2
    <2>3. N \in SUBSET r[g] \/ \E y \in {z \in r[g] : z[2] > 0} :
             N \in {A \cup {<<y[1], y[2] - 1>>} : A \in SUBSET (r[g] \ {y})}
      BY <1>2 DEF CutNames
    <2>4. QED
      BY <2>1, <2>2, <2>3
  <1>5. \A y \in r[g] : y[2] > 0 => <<y[1], y[2] - 1>> \in Names
    BY <1>3 DEF Names, Suffixes
  <1>6. N \in SUBSET Names
    BY <1>3, <1>4, <1>5
  <1>7. c \in Relation
    BY <1>2, <1>3, <1>6 DEF Relation
  <1>8. QED
    BY <1>2, <1>4, <1>7

\* The relations that are left of those of a good text's package p.
LEMMA CutSided ==
    ASSUME NEW t, NEW by, Good(t, by), NEW p \in Packages, NEW c \in Relation,
           \A f \in Fields : \A x \in c[f] :
              x \in t.rel[p][f] \/ \E y \in t.rel[p][f] : y[2] > 0 /\ x = <<y[1], y[2] - 1>>
    PROVE  /\ c.Conflicts \subseteq {ubuntu_virt}
           /\ "create-hwe" \notin by => c.Conflicts = {}
           /\ "gen-hwe" \notin by => \A x \in c.Depends : x[1] # Virt
           /\ p = Virt => \A f \in Fields : c[f] \subseteq {Virt} \X Suffixes
  <1>1. "Depends" \in Fields /\ "Conflicts" \in Fields
    BY DEF Fields
  <1>2. /\ t.rel[p].Conflicts \subseteq {ubuntu_virt}
        /\ "create-hwe" \notin by => t.rel[p].Conflicts = {}
        /\ "gen-hwe" \notin by => \A x \in t.rel[p].Depends : x[1] # Virt
    BY DEF Good, Sided
  <1>3. \A y \in t.rel[p].Conflicts : y[2] = 0
    BY <1>2 DEF ubuntu_virt
  <1>4. c.Conflicts \subseteq t.rel[p].Conflicts
    BY <1>1, <1>3
  <1>5. "gen-hwe" \notin by => \A x \in c.Depends : x[1] # Virt
    BY <1>1, <1>2
  <1>6. ASSUME p = Virt, NEW f \in Fields, NEW x \in c[f]
        PROVE  x \in {Virt} \X Suffixes
    <2>1. t.rel[p][f] \subseteq {Virt} \X Suffixes
      BY <1>6 DEF Good, VirtAlone
    <2>2. QED
      BY <2>1 DEF Suffixes
  <1>7. QED
    BY <1>2, <1>4, <1>5, <1>6

\* What a kill leaves of a good text is good.
LEMMA CutGood ==
    ASSUME NEW t, NEW by, Good(t, by), NEW u \in Cut(t)
    PROVE  Good(u, by)
  <1>0. /\ t \in Text /\ t.there \subseteq Stanzas /\ t.suffix \in [Stanzas -> {0, 1}]
        /\ t.suffix[Virt] = 0 /\ t.rel \in [Packages -> Relation]
        /\ t.cut \subseteq Stanzas /\ Virt \in Stanzas
    BY NamesTyped DEF Good, Once, Text
  <1>1. NoRelation \in Relation /\ \A f \in Fields : NoRelation[f] = {}
    BY DEF NoRelation, Relation
  <1>2. ASSUME NEW S \in SUBSET t.there, u.there = S, u \in Text,
               u.suffix \in [Stanzas -> {0, 1}], u.suffix[Virt] = 0,
               t.cut \cap S \subseteq u.cut, \A s, v \in u.cut : s = v,
               \A s \in S \ u.cut : u.suffix[s] = t.suffix[s],
               \A p \in (S \cap Packages) \ u.cut : u.rel[p] = t.rel[p],
               \A p \in Packages, f \in Fields : \A x \in u.rel[p][f] :
                  \/ x \in t.rel[p][f]
                  \/ \E y \in t.rel[p][f] : y[2] > 0 /\ x = <<y[1], y[2] - 1>>
        PROVE  Good(u, by)
    <2>1. Once(u)
      BY <1>2 DEF Once
    <2>2. Together(u)
      BY <1>2 DEF Good, Together
    <2>3. Follow(u)
      <3> SUFFICES ASSUME NEW p \in (S \cap Stems) \ u.cut, u.suffix[p] = 1
                   PROVE  /\ \A q \in S \cap Stems : <<q, 0>> \notin u.rel[p].Depends
                          /\ <<p, 0>> \in u.rel[p].Provides
                          /\ <<p, 0>> \in u.rel[p].Replaces
        BY <1>2 DEF Follow
      <3>1. u.rel[p] = t.rel[p] /\ t.suffix[p] = 1 /\ p \in (t.there \cap Stems) \ t.cut
        BY <1>2, NamesTyped
      <3>2. QED
        BY <3>1 DEF Good, Follow
    <2>4. ASSUME NEW p \in Packages
          PROVE  /\ u.rel[p].Conflicts \subseteq {ubuntu_virt}
                 /\ "create-hwe" \notin by => u.rel[p].Conflicts = {}
                 /\ "gen-hwe" \notin by => \A x \in u.rel[p].Depends : x[1] # Virt
                 /\ p = Virt => \A f \in Fields : u.rel[p][f] \subseteq {Virt} \X Suffixes
      <3> DEFINE c == u.rel[p]
      <3>1. c \in Relation
        BY <1>2 DEF Text
      <3>2. \A f \in Fields : \A x \in c[f] :
               x \in t.rel[p][f] \/ \E y \in t.rel[p][f] : y[2] > 0 /\ x = <<y[1], y[2] - 1>>
        BY <1>2
      <3> HIDE DEF c
      <3>3. /\ c.Conflicts \subseteq {ubuntu_virt}
            /\ "create-hwe" \notin by => c.Conflicts = {}
            /\ "gen-hwe" \notin by => \A x \in c.Depends : x[1] # Virt
            /\ p = Virt => \A f \in Fields : c[f] \subseteq {Virt} \X Suffixes
        BY <3>1, <3>2, CutSided
      <3>4. QED
        BY <3>3 DEF c
    <2>5. Sided(u, by) /\ VirtAlone(u)
      BY <2>4, NamesTyped DEF Sided, VirtAlone
    <2>6. QED
      BY <2>1, <2>2, <2>3, <2>5 DEF Good
  <1>3. ASSUME NEW S \in SUBSET t.there, u = CutAfter(t, S)
        PROVE  Good(u, by)
    <2> DEFINE rel == [p \in Packages |-> IF p \in S THEN t.rel[p] ELSE NoRelation]
    <2>1. u = [t EXCEPT !.there = S, !.rel = rel, !.cut = t.cut \cap S]
      BY <1>3 DEF CutAfter
    <2>2. /\ rel \in [Packages -> Relation]
          /\ \A p \in Packages : rel[p] = IF p \in S THEN t.rel[p] ELSE NoRelation
      BY <1>0, <1>1
    <2> HIDE DEF rel
    <2>3. /\ u.there = S /\ u.suffix = t.suffix /\ u.rel = rel /\ u.cut = t.cut \cap S
          /\ u = [there |-> u.there, suffix |-> u.suffix, rel |-> u.rel, cut |-> u.cut]
      BY <1>0, <2>1 DEF Text
    <2>4. u \in Text
      BY <1>0, <2>2, <2>3 DEF Text
    <2>5. \A s, v \in u.cut : s = v
      BY <2>3 DEF Good, Together
    <2>6. \A p \in Packages, f \in Fields : \A x \in u.rel[p][f] : x \in t.rel[p][f]
      BY <1>1, <2>2, <2>3
    <2>7. QED
      BY <1>0, <1>2, <2>2, <2>3, <2>4, <2>5, <2>6
  <1>4. ASSUME NEW S \in SUBSET t.there, NEW s \in S, t.cut \cap S \subseteq {s},
               NEW n \in {0, 1}, s = Virt => n = 0, NEW r \in Relation,
               s \in Packages => \A f \in Fields : \A x \in r[f] :
                  \/ x \in t.rel[s][f]
                  \/ \E y \in t.rel[s][f] : y[2] > 0 /\ x = <<y[1], y[2] - 1>>,
               u = CutTo(t, S, s, n, r)
        PROVE  Good(u, by)
    <2> DEFINE rel == [p \in Packages |-> IF p = s THEN r
                                          ELSE IF p \in S THEN t.rel[p] ELSE NoRelation]
               suffix == [t.suffix EXCEPT ![s] = n]
    <2>1. u = [there |-> S, suffix |-> suffix, rel |-> rel, cut |-> {s}]
      BY <1>4 DEF CutTo
    <2>2. /\ rel \in [Packages -> Relation]
          /\ \A p \in Packages : rel[p] = IF p = s THEN r
                                          ELSE IF p \in S THEN t.rel[p] ELSE NoRelation
      BY <1>0, <1>1
    <2>3. /\ suffix \in [Stanzas -> {0, 1}] /\ suffix[Virt] = 0
          /\ \A v \in Stanzas \ {s} : suffix[v] = t.suffix[v]
      BY <1>0, <1>4
    <2> HIDE DEF rel, suffix
    <2>4. /\ u.there = S /\ u.suffix = suffix /\ u.rel = rel /\ u.cut = {s}
      BY <2>1
    <2>5. u \in Text
      <3>1. suffix \in [Stanzas -> Suffixes] /\ {s} \subseteq Stanzas /\ S \subseteq Stanzas
        BY <1>0, <2>3 DEF Suffixes
      <3>2. QED
        BY <2>1, <2>2, <3>1 DEF Text
    <2>6. ASSUME NEW p \in Packages, NEW f \in Fields, NEW x \in u.rel[p][f]
          PROVE  x \in t.rel[p][f] \/ \E y \in t.rel[p][f] : y[2] > 0 /\ x = <<y[1], y[2] - 1>>
      <3>1. CASE p = s
        BY <1>4, <2>2, <2>4, <2>6, <3>1
      <3>2. CASE p # s
        BY <1>1, <2>2, <2>4, <2>6, <3>2
      <3>3. QED
        BY <3>1, <3>2
    <2>7. \A v \in S \ u.cut : u.suffix[v] = t.suffix[v]
      BY <1>0, <2>3, <2>4
    <2>8. \A p \in (S \cap Packages) \ u.cut : u.rel[p] = t.rel[p]
      BY <2>2, <2>4
    <2>9. \A v, w \in u.cut : v = w
      BY <2>4
    <2>10. u.suffix \in [Stanzas -> {0, 1}] /\ u.suffix[Virt] = 0 /\ t.cut \cap S \subseteq u.cut
      BY <1>4, <2>3, <2>4
    <2>11. QED
      BY <1>2, <2>4, <2>5, <2>6, <2>7, <2>8, <2>9, <2>10
  <1>5. ASSUME NEW S \in SUBSET t.there, NEW s \in S, t.cut \cap S \subseteq {s},
               u \in CutIn(t, S, s)
        PROVE  Good(u, by)
    <2>1. t.suffix[s] \in {0, 1} /\ (s = Virt => t.suffix[s] = 0)
      BY <1>0
    <2>2. CASE \E n \in {0, t.suffix[s]} : u = CutTo(t, S, s, n, NoRelation)
      <3>1. PICK n \in {0, t.suffix[s]} : u = CutTo(t, S, s, n, NoRelation)
        BY <2>2
      <3>2. n \in {0, 1} /\ (s = Virt => n = 0)
        BY <2>1
      <3>3. \A f \in Fields : \A x \in NoRelation[f] : FALSE
        BY <1>1
      <3>4. QED
        BY <1>1, <1>4, <1>5, <3>1, <3>2, <3>3
    <2>3. CASE s \in Packages /\ \E r \in CutRelation(t.rel[s]) :
                  u = CutTo(t, S, s, t.suffix[s], r)
      <3>1. PICK r \in CutRelation(t.rel[s]) : u = CutTo(t, S, s, t.suffix[s], r)
        BY <2>3
      <3>2. t.rel[s] \in Relation
        BY <1>0, <2>3
      <3>3. /\ r \in Relation
            /\ \A f \in Fields : \A x \in r[f] :
                  \/ x \in t.rel[s][f]
                  \/ \E y \in t.rel[s][f] : y[2] > 0 /\ x = <<y[1], y[2] - 1>>
        BY <3>1, <3>2, CutRelationFacts
      <3>4. QED
        BY <1>4, <1>5, <2>1, <3>1, <3>3
    <2>4. QED
      BY <1>5, <2>2, <2>3 DEF CutIn
  <1>6. CASE u = Empty
    BY <1>6, EmptyGood DEF Good
  <1>7. QED
    BY <1>3, <1>5, <1>6 DEF Cut

\* The names of a good text's packages.
LEMMA NamesCoherent ==
    ASSUME NEW t, NEW by, Good(t, by)
    PROVE  Coherent(NamesIn(t))
  <1>1. \A x \in NamesIn(t) : /\ x[1] \in t.there \cap Packages
                              /\ x = <<x[1], t.suffix[x[1]]>>
    BY DEF NamesIn, NameIn
  <1>2. \A p \in Packages : t.suffix[p] \in {0, 1}
    BY NamesTyped DEF Good, Once
  <1>3. QED
    BY <1>1, <1>2 DEF Coherent, Good, Together, Once

\* A replaced name is none of the names to be replaced: they have one suffix per
\* package.
LEMMA CoherentApart ==
    ASSUME NEW N, Coherent(N), NEW y \in N
    PROVE  Suffixed(y) \notin N
  <1>1. Suffixed(y)[1] = y[1] /\ Suffixed(y)[2] = y[2] + 1 /\ y[2] \in {0, 1}
    BY DEF Suffixed, Coherent
  <1>2. QED
    BY <1>1 DEF Coherent

----------------------------------------------------------------------------
(***************************************************************************)
(* What a step leaves alone.                                               *)
(***************************************************************************)
LEMMA TextsKept ==
    ASSUME TextsInv, UNCHANGED <<text, original, pending, wrote, writing>>
    PROVE  TextsInv'
  BY DEF TextsInv

\* A step that leaves the trees alone.
LEMMA TreesKept ==
    ASSUME TreesInv, UNCHANGED <<treeVars, rewritten>>, Coherent(names'),
           tool' # "rewrite"
    PROVE  TreesInv'
  BY DEF TreesInv, treeVars, RewriteComplete, NameIn

\* A step that leaves the maintainer files alone.
LEMMA MaintKept ==
    ASSUME MaintInv, UNCHANGED <<maint, made, moved>>, tool # "rename"
    PROVE  MaintInv'
  BY DEF MaintInv, NothingLost, Exists

\* A text that a tool ends up with replaces the file it was written to.
LEMMA HoldsGood ==
    ASSUME SourceInv, NEW t, Good(t, writing), Holds(t), pending' = Empty,
           UNCHANGED <<original, writing>>
    PROVE  TextsInv' /\ text' \in [Files -> Text] /\ present' \in SUBSET Files
  <1>0. /\ target \in Files /\ text \in [Files -> Text] /\ present \in SUBSET Files
        /\ wrote \in [Files -> SUBSET Tools] /\ t \in Text /\ writing \in SUBSET Tools
    BY DEF SourceInv, TypeOK, TextsInv, Good, Once
  <1>1. /\ text' \in [Files -> Text] /\ present' \in SUBSET Files
        /\ wrote' \in [Files -> SUBSET Tools]
        /\ text'[target] = t /\ wrote'[target] = writing
        /\ \A f \in Files \ {target} : text'[f] = text[f] /\ wrote'[f] = wrote[f]
    BY <1>0 DEF Holds
  <1>2. \A f \in Files : Good(text'[f], wrote'[f])
    BY <1>0, <1>1 DEF SourceInv, TextsInv
  <1>3. Good(Empty, writing)
    BY <1>0, EmptyGood
  <1>4. QED
    BY <1>1, <1>2, <1>3 DEF SourceInv, TextsInv

\* No names are coherent names.
LEMMA NoNames == Coherent({})
  BY DEF Coherent

\* Coherent names are names.
LEMMA NamesTextTyped ==
    ASSUME NEW N, Coherent(N)
    PROVE  N \in SUBSET Names
  BY DEF Coherent, Names, Suffixes

----------------------------------------------------------------------------
(***************************************************************************)
(* The steps of the tools.                                                 *)
(***************************************************************************)
\* create-hwe.py and gen-hwe.py start to write a good text, or write none.
LEMMA WritesInv ==
    ASSUME SourceInv, Start, NEW in \in Files, NEW out \in Files, NEW new, NEW by,
           Good(new, wrote[in] \cup {by}), Writes(in, out, new, by),
           UNCHANGED <<fileVars, treeVars, maintVars, wrote, rewritten, moved, made>>
    PROVE  SourceInv'
  <1>0. /\ tool = "none" /\ tool' \in {"none", "write"} /\ target' \in Files
        /\ names' = names /\ todo' = todo
        /\ \/ pending' = pending /\ writing' = writing
           \/ pending' = new /\ writing' = wrote[in] \cup {by}
    BY DEF Writes, Start, runVars, SourceInv, TypeOK
  <1>1. Good(pending', writing')
    BY <1>0 DEF SourceInv, TextsInv
  <1>2. TextsInv'
    BY <1>1 DEF SourceInv, TextsInv, Start, fileVars
  <1>3. TreesInv'
    BY <1>0, TreesKept DEF SourceInv, TreesInv
  <1>4. MaintInv'
    BY <1>0, MaintKept DEF SourceInv, maintVars
  <1>5. LoopInv'
    BY <1>0 DEF LoopInv
  <1>6. TypeOK'
    <2>1. pending' \in Text
      BY <1>1 DEF Good, Once
    <2>2. commands' \in 0..MaxCommands
      BY LimitsAssumption DEF Start, SourceInv, TypeOK
    <2>3. QED
      BY <1>0, <2>1, <2>2 DEF Start, SourceInv, TypeOK, fileVars, treeVars, maintVars
  <1>7. QED
    BY <1>2, <1>3, <1>4, <1>5, <1>6 DEF SourceInv

\* A started tool, or a build, that writes no control file.
LEMMA StartTyped ==
    ASSUME TypeOK, Start,
           UNCHANGED <<fileVars, maintVars, target, pending>>,
           build' \in Text, built' \in SUBSET Names, names' \in SUBSET Names,
           tool' \in {"none", "patch", "rewrite", "rename"}
    PROVE  TypeOK'
  <1>1. commands' \in 0..MaxCommands
    BY LimitsAssumption DEF Start, TypeOK
  <1>2. QED
    BY <1>1 DEF Start, TypeOK, fileVars, maintVars

\* create-hwe.py computes a good text or returns early.
LEMMA CreateHweInv == SourceInv /\ CreateHwe => SourceInv'
  <1> SUFFICES ASSUME SourceInv, CreateHwe PROVE SourceInv'
    OBVIOUS
  <1>1. PICK in \in present, out \in Files :
          /\ Start
          /\ IF AlreadyHwe(text[in])
             THEN UNCHANGED <<runVars, writing>>
             ELSE Writes(in, out, create_hwe(text[in]), "create-hwe")
          /\ UNCHANGED <<fileVars, treeVars, maintVars, wrote, rewritten, moved, made>>
    BY DEF CreateHwe
  <1>2. in \in Files /\ Good(text[in], wrote[in])
    BY DEF SourceInv, TypeOK, TextsInv
  <1>3. CASE AlreadyHwe(text[in])
    <2>1. UNCHANGED <<runVars, writing>>
      BY <1>1, <1>3
    <2>2. TypeOK'
      BY <1>1, <2>1, StartTyped DEF SourceInv, TypeOK, runVars, treeVars, Start
    <2>3. TextsInv'
      BY <1>1, <2>1, TextsKept DEF SourceInv, fileVars, runVars, Start
    <2>4. TreesInv' /\ LoopInv'
      BY <1>1, <2>1, TreesKept DEF SourceInv, TreesInv, LoopInv, runVars, Start
    <2>5. MaintInv'
      BY <1>1, MaintKept DEF SourceInv, maintVars, Start
    <2>6. QED
      BY <2>2, <2>3, <2>4, <2>5 DEF SourceInv
  <1>4. CASE ~ AlreadyHwe(text[in])
    <2>1. Good(create_hwe(text[in]), wrote[in] \cup {"create-hwe"})
      BY <1>2, <1>4, CreateGood
    <2>2. QED
      BY <1>1, <1>2, <1>4, <2>1, WritesInv
  <1>5. QED
    BY <1>3, <1>4

\* gen-hwe.py computes a good text or returns early.
LEMMA GenHweInv == SourceInv /\ GenHwe => SourceInv'
  <1> SUFFICES ASSUME SourceInv, GenHwe PROVE SourceInv'
    OBVIOUS
  <1>1. PICK file \in present :
          /\ Start
          /\ Writes(file, file, gen_hwe(text[file]), "gen-hwe")
          /\ UNCHANGED <<fileVars, treeVars, maintVars, wrote, rewritten, moved, made>>
    BY DEF GenHwe
  <1>2. file \in Files /\ Good(text[file], wrote[file])
    BY DEF SourceInv, TypeOK, TextsInv
  <1>3. Good(gen_hwe(text[file]), wrote[file] \cup {"gen-hwe"})
    BY <1>2, GenGood
  <1>4. QED
    BY <1>1, <1>2, <1>3, WritesInv

\* The file gets the text that was computed, and is by the tools that made it.
LEMMA WriteInv == SourceInv /\ Write => SourceInv'
  <1> SUFFICES ASSUME SourceInv, Write PROVE SourceInv'
    OBVIOUS
  <1>1. TextsInv' /\ text' \in [Files -> Text] /\ present' \in SUBSET Files
    BY HoldsGood DEF Write, Ends, SourceInv, TextsInv
  <1>2. Empty \in Text
    BY EmptyGood DEF Good, Once
  <1>3. TypeOK'
    BY <1>1, <1>2 DEF Write, Ends, SourceInv, TypeOK, treeVars, maintVars, limitVars
  <1>4. TreesInv' /\ LoopInv'
    BY NoNames, TreesKept DEF Write, Ends, SourceInv, LoopInv
  <1>5. MaintInv'
    BY MaintKept DEF Write, SourceInv, maintVars
  <1>6. QED
    BY <1>1, <1>3, <1>4, <1>5 DEF SourceInv

\* A build has the names of one control file.
LEMMA BuildInv == SourceInv /\ Build => SourceInv'
  <1> SUFFICES ASSUME SourceInv, Build PROVE SourceInv'
    OBVIOUS
  <1> DEFINE t == text["control"]
  <1>0. Good(t, wrote["control"]) /\ t \in Text
    BY DEF SourceInv, TextsInv, Files, Good, Once
  <1> HIDE DEF t
  <1>1. build' = [t EXCEPT !.there = t.there \cap Packages] /\ built' = NamesIn(t)
    BY DEF Build, t
  <1>2. /\ build'.there = t.there \cap Packages
        /\ build'.suffix = t.suffix /\ build'.rel = t.rel /\ build'.cut = t.cut
        /\ build' = [there |-> build'.there, suffix |-> build'.suffix,
                     rel |-> build'.rel, cut |-> build'.cut]
    BY <1>0, <1>1 DEF Text
  <1>3. build' \in Text
    BY <1>0, <1>2 DEF Text
  <1>4. build'.suffix \in [Stanzas -> 0..2] /\ VirtAlone(build')
    BY <1>0, <1>2 DEF Good, Once, VirtAlone
  <1>5. Coherent(built')
    BY <1>0, <1>1, NamesCoherent
  <1>6. UNCHANGED <<tool, target, pending, names, todo>> /\ rewritten' = {}
        /\ tool = "none"
    BY DEF Build, runVars, Start
  <1>7. TreesInv'
    BY <1>3, <1>4, <1>5, <1>6, NoNames DEF SourceInv, TreesInv, RewriteComplete
  <1>8. TypeOK'
    BY <1>3, <1>5, <1>6, NamesTextTyped, StartTyped DEF SourceInv, TypeOK, Build
  <1>9. TextsInv'
    BY <1>6, TextsKept DEF SourceInv, Build, Start, fileVars
  <1>10. MaintInv' /\ LoopInv'
    BY <1>6, MaintKept DEF SourceInv, LoopInv, Build, maintVars
  <1>11. QED
    BY <1>7, <1>8, <1>9, <1>10 DEF SourceInv

\* The loop of the top-level hwe-gencontrol.py is over packages.
LEMMA PatchStartInv == SourceInv /\ PatchStart => SourceInv'
  <1> SUFFICES ASSUME SourceInv, PatchStart PROVE SourceInv'
    OBVIOUS
  <1>1. TypeOK'
    BY StartTyped DEF SourceInv, TypeOK, PatchStart, treeVars
  <1>2. TextsInv'
    BY TextsKept DEF SourceInv, PatchStart, Start, fileVars
  <1>3. TreesInv'
    BY TreesKept DEF SourceInv, TreesInv, PatchStart
  <1>4. LoopInv'
    <2>1. \A x \in built : x[1] \in Packages
      BY DEF SourceInv, TypeOK, Names
    <2>2. QED
      BY <2>1 DEF PatchStart, LoopInv
  <1>5. MaintInv'
    BY MaintKept DEF SourceInv, PatchStart, Start, maintVars
  <1>6. QED
    BY <1>1, <1>2, <1>3, <1>4, <1>5 DEF SourceInv

\* A step of a loop over the trees, or its end.
LEMMA TreeStepTyped ==
    ASSUME TypeOK, UNCHANGED <<fileVars, original, built, maintVars, target, limitVars>>,
           build' \in Text, pending' \in Text, names' \in SUBSET Names,
           tool' \in {"none", "patch", "rewrite", "rename"}
    PROVE  TypeOK'
  BY DEF TypeOK, fileVars, maintVars, limitVars

\* A tool that ends leaves nothing pending.
LEMMA EndsGood ==
    ASSUME TextsInv, Ends, UNCHANGED <<text, original, wrote, writing>>
    PROVE  TextsInv' /\ pending' \in Text /\ LoopInv' /\ Coherent(names')
           /\ names' \in SUBSET Names
  <1>1. Good(Empty, writing) /\ Empty \in Text
    BY EmptyGood DEF TextsInv, Good, Once
  <1>2. QED
    BY <1>1, NoNames DEF TextsInv, Ends, LoopInv

\* The tree of p with other relations.
LEMMA TreeRelation ==
    ASSUME NEW b \in Text, NEW p \in Packages, NEW r \in Relation
    PROVE  /\ [b EXCEPT !.rel[p] = r] \in Text
           /\ [b EXCEPT !.rel[p] = r].there = b.there
           /\ [b EXCEPT !.rel[p] = r].suffix = b.suffix
           /\ [b EXCEPT !.rel[p] = r].rel = [b.rel EXCEPT ![p] = r]
  BY DEF Text

\* The added relations name ubuntu-virt and the package itself only.
LEMMA PatchedGood ==
    ASSUME build \in Text, build.suffix \in [Stanzas -> 0..2], VirtAlone(build),
           NEW p \in Packages
    PROVE  /\ Patched(p) \in Text /\ Patched(p).suffix \in [Stanzas -> 0..2]
           /\ VirtAlone(Patched(p))
  <1> DEFINE r == BaseRelation(build.rel[p], <<p, build.suffix[p]>>)
             b == Patched(p)
  <1>1. build.rel[p] \in Relation /\ build.suffix[p] \in 0..2
    BY NamesTyped DEF Text
  <1>2. b = [build EXCEPT !.rel[p] = r]
    BY DEF Patched, NameIn
  <1>3. r \in Relation
    BY <1>1, BaseRelationFacts
  <1>4. p = Virt => \A f \in Fields : r[f] \subseteq {Virt} \X Suffixes
    <2>1. \A f \in Fields : \A x \in r[f] : \/ x \in build.rel[p][f] \/ x = ubuntu_virt
                                             \/ x = Suffixed(<<p, build.suffix[p]>>)
      BY <1>1, BaseRelationFacts
    <2>2. p = Virt => /\ ubuntu_virt \in {Virt} \X Suffixes
                      /\ Suffixed(<<p, build.suffix[p]>>) \in {Virt} \X Suffixes
      BY <1>1 DEF ubuntu_virt, Suffixed, Suffixes
    <2>3. p = Virt => \A f \in Fields : build.rel[p][f] \subseteq {Virt} \X Suffixes
      BY DEF VirtAlone
    <2> HIDE DEF r
    <2>4. QED
      BY <2>1, <2>2, <2>3
  <1> HIDE DEF r, b
  <1>5. b \in Text /\ b.suffix = build.suffix /\ b.rel = [build.rel EXCEPT ![p] = r]
    BY <1>2, <1>3, TreeRelation
  <1>6. VirtAlone(b)
    BY <1>4, <1>5, NamesTyped DEF VirtAlone, Text
  <1>7. QED
    BY <1>5, <1>6 DEF b

\* hwe-gencontrol.py edits one tree, or stops.
LEMMA PatchInv == SourceInv /\ Patch => SourceInv'
  <1> SUFFICES ASSUME SourceInv, Patch PROVE SourceInv'
    OBVIOUS
  <1>0. /\ tool = "patch" /\ todo \in SUBSET Packages /\ rewritten' = {}
        /\ UNCHANGED <<fileVars, original, built, maintVars, target, limitVars,
                       wrote, writing, moved, made>>
        /\ build \in Text /\ build.suffix \in [Stanzas -> 0..2] /\ VirtAlone(build)
    BY DEF SourceInv, Patch, LoopInv, TreesInv
  <1>1. MaintInv'
    BY <1>0, MaintKept DEF SourceInv, maintVars
  <1>2. ASSUME Ends, UNCHANGED build
        PROVE  SourceInv'
    <2>1. TextsInv' /\ pending' \in Text /\ LoopInv' /\ Coherent(names')
          /\ names' \in SUBSET Names
      BY <1>0, <1>2, EndsGood DEF SourceInv, fileVars
    <2>2. TreesInv'
      BY <1>0, <1>2, <2>1, NoNames DEF SourceInv, TreesInv, RewriteComplete, Ends
    <2>3. TypeOK'
      BY <1>0, <1>2, <2>1, TreeStepTyped DEF SourceInv, Ends
    <2>4. QED
      BY <1>1, <2>1, <2>2, <2>3 DEF SourceInv
  <1>3. ASSUME NEW p \in todo, p \in build.there, build' = Patched(p),
               todo' = todo \ {p}, UNCHANGED <<tool, names, pending>>
        PROVE  SourceInv'
    <2>1. build' \in Text /\ build'.suffix \in [Stanzas -> 0..2] /\ VirtAlone(build')
      BY <1>0, <1>3, PatchedGood
    <2>2. TreesInv'
      BY <1>0, <1>3, <2>1, NoNames DEF SourceInv, TreesInv, RewriteComplete
    <2>3. TypeOK'
      BY <1>0, <1>3, <2>1, TreeStepTyped DEF SourceInv, TypeOK
    <2>4. TextsInv' /\ LoopInv'
      BY <1>0, <1>3, TextsKept DEF SourceInv, LoopInv, fileVars
    <2>5. QED
      BY <1>1, <2>2, <2>3, <2>4 DEF SourceInv
  <1>4. QED
    BY <1>2, <1>3 DEF Patch

\* The loop of debian/hwe-gencontrol.py has every built tree of the control file.
LEMMA RewriteStartInv == SourceInv /\ RewriteStart => SourceInv'
  <1> SUFFICES ASSUME SourceInv, RewriteStart PROVE SourceInv'
    OBVIOUS
  <1>0. /\ tool = "none" /\ tool' = "rewrite"
        /\ names' = NamesIn(text["control"]) /\ text' = text
        /\ todo' = {x[1] : x \in built \cap names'}
        /\ UNCHANGED <<build, built>> /\ rewritten' = {}
    BY DEF RewriteStart, Start, fileVars, treeVars
  <1>1. Coherent(names')
    BY <1>0, NamesCoherent DEF SourceInv, TextsInv, Files
  <1>2. TypeOK'
    BY <1>0, <1>1, NamesTextTyped, StartTyped DEF SourceInv, TypeOK, RewriteStart
  <1>3. TextsInv'
    BY TextsKept DEF SourceInv, RewriteStart, Start, fileVars
  <1>4. LoopInv' /\ \A x \in built \cap names' : x[1] \in todo'
    BY <1>0 DEF LoopInv
  <1>5. TreesInv'
    BY <1>0, <1>1, <1>4, NoNames DEF SourceInv, TreesInv, RewriteComplete
  <1>6. MaintInv'
    BY <1>0, MaintKept DEF SourceInv, RewriteStart, maintVars
  <1>7. QED
    BY <1>2, <1>3, <1>4, <1>5, <1>6 DEF SourceInv

\* The tree of p, rewritten.
LEMMA RewrittenFields ==
    ASSUME NEW p \in Packages, build \in Text, build.suffix \in [Stanzas -> 0..2],
           Coherent(names)
    PROVE  /\ Rewritten(p) \in Text
           /\ Rewritten(p).there = build.there
           /\ Rewritten(p).suffix \in [Stanzas -> 0..2]
           /\ \A s \in Stanzas : Rewritten(p).suffix[s] =
                 IF s = p /\ p \in build.there /\ NameIn(build, p) \in names
                 THEN build.suffix[p] + 1 ELSE build.suffix[s]
           /\ \A q \in Packages, f \in Fields : Rewritten(p).rel[q][f] =
                 IF q = p THEN rename_package_words(build.rel[p][f], names)
                 ELSE build.rel[q][f]
  <1> DEFINE n == IF p \in build.there /\ NameIn(build, p) \in names
                  THEN build.suffix[p] + 1 ELSE build.suffix[p]
             r == [f \in Fields |-> rename_package_words(build.rel[p][f], names)]
             b == [build EXCEPT !.suffix[p] = n, !.rel[p] = r]
  <1>1. Rewritten(p) = b
    BY DEF Rewritten
  <1>2. p \in Stanzas /\ build.rel[p] \in Relation /\ build.suffix[p] \in 0..2
    BY NamesTyped DEF Text
  <1>3. n \in 0..2 /\ n \in Suffixes
    BY <1>2 DEF Coherent, NameIn, Suffixes
  <1>4. r \in Relation
    <2>1. names \in SUBSET (Packages \X {0, 1})
      BY DEF Coherent
    <2>2. \A f \in Fields : rename_package_words(build.rel[p][f], names) \in SUBSET Names
      BY <1>2, <2>1, WordsTyped DEF Relation
    <2>3. QED
      BY <2>2 DEF Relation
  <1>5. \A f \in Fields : r[f] = rename_package_words(build.rel[p][f], names)
    OBVIOUS
  <1>6. n = IF p \in build.there /\ NameIn(build, p) \in names
            THEN build.suffix[p] + 1 ELSE build.suffix[p]
    OBVIOUS
  <1> HIDE DEF n, r
  <1>7. /\ b.there = build.there /\ b.suffix = [build.suffix EXCEPT ![p] = n]
        /\ b.rel = [build.rel EXCEPT ![p] = r] /\ b.cut = build.cut
        /\ b = [there |-> b.there, suffix |-> b.suffix, rel |-> b.rel, cut |-> b.cut]
    <2> DEFINE c == [build EXCEPT !.suffix[p] = n]
    <2>1. b = [c EXCEPT !.rel[p] = r]
      OBVIOUS
    <2>2. /\ c.there = build.there /\ c.suffix = [build.suffix EXCEPT ![p] = n]
          /\ c.rel = build.rel /\ c.cut = build.cut
          /\ c = [there |-> c.there, suffix |-> c.suffix, rel |-> c.rel, cut |-> c.cut]
      BY DEF Text
    <2> HIDE DEF b, c
    <2>3. QED
      BY <2>1, <2>2
  <1> HIDE DEF b
  <1>8. b \in Text /\ b.suffix \in [Stanzas -> 0..2]
    BY <1>2, <1>3, <1>4, <1>7 DEF Text
  <1>9. \A s \in Stanzas : b.suffix[s] = IF s = p THEN n ELSE build.suffix[s]
    BY <1>7
  <1>10. \A q \in Packages : b.rel[q] = IF q = p THEN r ELSE build.rel[q]
    BY <1>7 DEF Text
  <1>11. QED
    BY <1>1, <1>5, <1>6, <1>7, <1>8, <1>9, <1>10

\* A rewritten tree has no name that was to be replaced.
LEMMA RewrittenClean ==
    ASSUME NEW x, x[1] \in Packages, build \in Text,
           build.suffix \in [Stanzas -> 0..2], Coherent(names),
           build' = Rewritten(x[1]), names' = names
    PROVE  Clean(x, names)'
  <1> DEFINE p == x[1]
  <1> SUFFICES ASSUME p \in build'.there
               PROVE  /\ NameIn(build', p) \notin names
                      /\ \A f \in Fields : build'.rel[p][f] \cap names = {}
    BY DEF Clean
  <1>0. /\ p \in build.there /\ p \in Packages /\ p \in Stanzas
        /\ build'.suffix[p] = IF NameIn(build, p) \in names
                              THEN build.suffix[p] + 1 ELSE build.suffix[p]
        /\ \A f \in Fields :
              build'.rel[p][f] = rename_package_words(build.rel[p][f], names)
    BY RewrittenFields, NamesTyped
  <1>1. NameIn(build', p) \notin names
    <2>1. CASE NameIn(build, p) \in names
      <3>1. NameIn(build', p) = Suffixed(NameIn(build, p))
        BY <1>0, <2>1 DEF NameIn, Suffixed
      <3>2. QED
        BY <2>1, <3>1, CoherentApart
    <2>2. CASE NameIn(build, p) \notin names
      BY <1>0, <2>2 DEF NameIn
    <2>3. QED
      BY <2>1, <2>2
  <1>2. \A f \in Fields : build'.rel[p][f] \cap names = {}
    BY <1>0, WordsRenamed, CoherentApart
  <1>3. QED
    BY <1>1, <1>2

\* Rewriting the tree of ubuntu-virt gives it no other package's name.
LEMMA RewrittenAlone ==
    ASSUME NEW p \in Packages, build \in Text, build.suffix \in [Stanzas -> 0..2],
           Coherent(names), VirtAlone(build)
    PROVE  VirtAlone(Rewritten(p))
  <1>1. \A q \in Packages, f \in Fields : Rewritten(p).rel[q][f] =
           IF q = p THEN rename_package_words(build.rel[p][f], names)
           ELSE build.rel[q][f]
    BY RewrittenFields
  <1>2. CASE p # Virt
    BY <1>1, <1>2, NamesTyped DEF VirtAlone
  <1>3. CASE p = Virt
    <2>1. \A y \in names : y[1] = Virt => Suffixed(y) \in {Virt} \X Suffixes
      BY DEF Coherent, Suffixed, Suffixes
    <2>2. \A f \in Fields : \A y \in build.rel[Virt][f] :
              y \in {Virt} \X Suffixes /\ y[1] = Virt
      BY DEF VirtAlone
    <2>3. \A f \in Fields : \A w \in Rewritten(p).rel[Virt][f] : w \in {Virt} \X Suffixes
      BY <1>1, <1>3, <2>1, <2>2, WordsRenamed
    <2>4. QED
      BY <2>3 DEF VirtAlone
  <1>4. QED
    BY <1>2, <1>3

\* A rewritten tree has none of the old names.
LEMMA RewriteInv == SourceInv /\ Rewrite => SourceInv'
  <1> SUFFICES ASSUME SourceInv, Rewrite PROVE SourceInv'
    OBVIOUS
  <1>0. /\ tool = "rewrite" /\ tool' = tool /\ rewritten = {}
        /\ UNCHANGED <<fileVars, original, built, maintVars, target, limitVars, wrote,
                       writing, moved, made, names, pending, rewritten>>
        /\ build \in Text /\ build.suffix \in [Stanzas -> 0..2] /\ VirtAlone(build)
        /\ Coherent(names) /\ Coherent(built)
    BY DEF SourceInv, Rewrite, TreesInv
  <1>1. PICK p \in todo : build' = Rewritten(p) /\ todo' = todo \ {p}
    BY DEF Rewrite
  <1>2. p \in Packages
    BY <1>0, <1>1 DEF SourceInv, LoopInv, Coherent
  <1>3. /\ build' \in Text /\ build'.there = build.there
        /\ build'.suffix \in [Stanzas -> 0..2]
        /\ \A s \in Stanzas \ {p} : build'.suffix[s] = build.suffix[s]
        /\ \A q \in Packages \ {p}, f \in Fields : build'.rel[q][f] = build.rel[q][f]
    BY <1>0, <1>1, <1>2, RewrittenFields
  <1>4. VirtAlone(build')
    BY <1>0, <1>1, <1>2, RewrittenAlone
  <1>5. ASSUME NEW x \in built \cap names
        PROVE  x[1] \in todo' \/ Clean(x, names)'
    <2>1. x[1] \in Packages /\ x[1] \in Stanzas
      BY <1>0, NamesTyped DEF Coherent
    <2>2. x[1] \in todo \/ Clean(x, names)
      BY <1>0 DEF SourceInv, TreesInv
    <2>3. CASE x[1] # p
      BY <1>0, <1>1, <1>3, <2>1, <2>2, <2>3 DEF Clean, NameIn
    <2>4. CASE x[1] = p
      BY <1>0, <1>1, <2>1, <2>4, RewrittenClean
    <2>5. QED
      BY <2>3, <2>4
  <1>6. TreesInv'
    <2>1. names = NamesIn(text["control"])
      BY <1>0 DEF SourceInv, TreesInv
    <2>2. QED
      BY <1>0, <1>3, <1>4, <1>5, <2>1, NoNames DEF TreesInv, RewriteComplete, fileVars
  <1>7. TypeOK'
    BY <1>0, <1>3, TreeStepTyped DEF SourceInv, TypeOK
  <1>8. TextsInv'
    BY <1>0, TextsKept DEF SourceInv, fileVars
  <1>9. MaintInv' /\ LoopInv'
    BY <1>0, <1>1, MaintKept DEF SourceInv, LoopInv, maintVars
  <1>10. QED
    BY <1>6, <1>7, <1>8, <1>9 DEF SourceInv

\* The loop of hwe-rename-maintscripts.py has every file that can be renamed.
LEMMA RenameStartInv == SourceInv /\ RenameStart => SourceInv'
  <1> SUFFICES ASSUME SourceInv, RenameStart PROVE SourceInv'
    OBVIOUS
  <1>1. TypeOK'
    BY StartTyped DEF SourceInv, TypeOK, RenameStart, treeVars
  <1>2. TextsInv'
    BY TextsKept DEF SourceInv, RenameStart, Start, fileVars
  <1>3. TreesInv'
    BY TreesKept DEF SourceInv, TreesInv, RenameStart
  <1>4. LoopInv'
    BY DEF RenameStart, LoopInv
  <1>5. MaintInv'
    <2>1. moved' = package_list(text["control"]) /\ moved' \in SUBSET Stems
      BY DEF RenameStart, package_list
    <2>2. UNCHANGED <<maint, made>> /\ tool' = "rename"
      BY DEF RenameStart, maintVars
    <2>3. ASSUME NEW s \in moved', NEW k \in Kinds, Exists(<<s, k, 0>>),
                 ~ Exists(<<s, k, 1>>)
          PROVE  <<s, k, 0>> \in todo'
      <3>1. <<s, k, 0>> \in MaintFiles
        BY <2>1 DEF MaintFiles
      <3>2. QED
        BY <2>1, <2>3, <3>1 DEF RenameStart
    <2>4. QED
      BY <2>1, <2>2, <2>3 DEF SourceInv, MaintInv, NothingLost, Exists
  <1>6. QED
    BY <1>1, <1>2, <1>3, <1>4, <1>5 DEF SourceInv

\* A file is renamed to a free name, or the tool stops.
LEMMA RenameInv == SourceInv /\ Rename => SourceInv'
  <1> SUFFICES ASSUME SourceInv, Rename PROVE SourceInv'
    OBVIOUS
  <1>0. /\ tool = "rename"
        /\ UNCHANGED <<fileVars, original, treeVars, target, limitVars, wrote, writing,
                       rewritten, made>>
    BY DEF Rename
  <1>1. ASSUME Ends, moved' = {}, UNCHANGED maintVars
        PROVE  SourceInv'
    <2>1. TextsInv' /\ pending' \in Text /\ LoopInv' /\ Coherent(names')
          /\ names' \in SUBSET Names
      BY <1>0, <1>1, EndsGood DEF SourceInv, fileVars
    <2>2. TreesInv'
      BY <1>0, <1>1, <2>1, TreesKept DEF SourceInv, Ends
    <2>3. TypeOK'
      BY <1>0, <1>1, <2>1, TreeStepTyped DEF SourceInv, TypeOK, treeVars, Ends
    <2>4. MaintInv'
      BY <1>0, <1>1 DEF SourceInv, MaintInv, NothingLost, maintVars
    <2>5. QED
      BY <2>1, <2>2, <2>3, <2>4 DEF SourceInv
  <1>2. ASSUME NEW m \in todo, NEW to, to = <<m[1], m[2], 1>>, Exists(m), ~ Exists(to),
               maint' = [maint EXCEPT ![to] = maint[m], ![m] = 0],
               tracked' = (tracked \ {m}) \cup {to}, todo' = todo \ {m},
               UNCHANGED <<tool, names, pending, moved>>
        PROVE  SourceInv'
    <2>0. /\ m \in MaintFiles /\ m[3] = 0 /\ to \in MaintFiles /\ to # m
          /\ m = <<m[1], m[2], 0>> /\ maint \in [MaintFiles -> 0..(MaxAdds + 1)]
      BY <1>0, <1>2 DEF SourceInv, LoopInv, MaintFiles, TypeOK
    <2>1. /\ maint' \in [MaintFiles -> 0..(MaxAdds + 1)]
          /\ maint'[to] = maint[m] /\ maint'[m] = 0
          /\ \A n \in MaintFiles \ {m, to} : maint'[n] = maint[n]
      BY <1>2, <2>0, LimitsAssumption
    <2>2. TypeOK'
      BY <1>0, <1>2, <2>0, <2>1
      DEF SourceInv, TypeOK, fileVars, treeVars, limitVars
    <2>3. TextsInv'
      BY <1>0, <1>2, TextsKept DEF SourceInv, fileVars
    <2>4. TreesInv' /\ LoopInv'
      BY <1>0, <1>2, TreesKept DEF SourceInv, TreesInv, LoopInv
    <2>5. NothingLost'
      <3> SUFFICES ASSUME NEW w \in made
                   PROVE  \E n \in {0, 1} : maint'[<<w[1], w[2], n>>] = w[3]
        BY <1>0 DEF NothingLost
      <3>1. PICK n \in {0, 1} : maint[<<w[1], w[2], n>>] = w[3]
        BY DEF SourceInv, MaintInv, NothingLost
      <3>2. w[1] \in Stems /\ w[2] \in Kinds /\ w[3] # 0
        BY DEF SourceInv, MaintInv
      <3>3. <<w[1], w[2], n>> \in MaintFiles
        BY <3>2 DEF MaintFiles
      <3>4. <<w[1], w[2], n>> # to
        BY <1>2, <3>1, <3>2 DEF Exists
      <3>5. CASE <<w[1], w[2], n>> = m
        <4>1. to = <<w[1], w[2], 1>>
          BY <1>2, <3>5
        <4>2. QED
          BY <2>1, <3>1, <3>5, <4>1
      <3>6. CASE <<w[1], w[2], n>> # m
        BY <2>1, <3>1, <3>3, <3>4, <3>6
      <3>7. QED
        BY <3>5, <3>6
    <2>6. ASSUME NEW s \in moved', NEW k \in Kinds, maint'[<<s, k, 0>>] # 0
          PROVE  maint'[<<s, k, 1>>] # 0 \/ <<s, k, 0>> \in todo'
      <3>1. s \in moved /\ <<s, k, 0>> \in MaintFiles /\ <<s, k, 1>> \in MaintFiles
        BY <1>2, <2>6 DEF SourceInv, MaintInv, MaintFiles
      <3>2. <<s, k, 0>> # m /\ <<s, k, 0>> # to
        BY <1>2, <2>1, <2>6
      <3>3. Exists(<<s, k, 0>>)
        BY <2>1, <2>6, <3>1, <3>2 DEF Exists
      <3>4. Exists(<<s, k, 1>>) \/ <<s, k, 0>> \in todo
        BY <3>1, <3>3 DEF SourceInv, MaintInv
      <3>5. <<s, k, 1>> # m
        BY <2>0
      <3>6. QED
        BY <1>2, <2>1, <3>1, <3>2, <3>4, <3>5 DEF Exists
    <2>7. MaintInv'
      BY <1>0, <1>2, <2>5, <2>6 DEF SourceInv, MaintInv, Exists
    <2>8. QED
      BY <2>2, <2>3, <2>4, <2>7 DEF SourceInv
  <1>3. QED
    BY <1>1, <1>2 DEF Rename

\* A loop that has ended has reached everything.
LEMMA FinishInv == SourceInv /\ Finish => SourceInv'
  <1> SUFFICES ASSUME SourceInv, Finish PROVE SourceInv'
    OBVIOUS
  <1>0. /\ todo = {} /\ Ends /\ tool' = "none"
        /\ rewritten' = IF tool = "rewrite" THEN NamesIn(text["control"]) ELSE rewritten
        /\ UNCHANGED <<fileVars, original, treeVars, maintVars, target, limitVars, wrote,
                       writing, moved, made>>
    BY DEF Finish, Ends
  <1>1. TextsInv' /\ pending' \in Text /\ LoopInv' /\ Coherent(names')
        /\ names' \in SUBSET Names
    BY <1>0, EndsGood DEF SourceInv, fileVars
  <1>2. TypeOK'
    BY <1>0, <1>1, TreeStepTyped DEF SourceInv, TypeOK, treeVars
  <1>3. MaintInv'
    BY <1>0 DEF SourceInv, MaintInv, NothingLost, Exists, maintVars
  <1>4. TreesInv'
    <2>1. CASE tool # "rewrite"
      BY <1>0, <1>1, <2>1, TreesKept DEF SourceInv
    <2>2. CASE tool = "rewrite"
      <3>1. rewritten' = names /\ \A x \in built \cap names : Clean(x, names)
        BY <1>0, <2>2 DEF SourceInv, TreesInv
      <3>2. RewriteComplete'
        BY <1>0, <3>1 DEF RewriteComplete, Clean, NameIn, treeVars
      <3>3. QED
        BY <1>0, <1>1, <3>1, <3>2 DEF SourceInv, TreesInv, treeVars
    <2>3. QED
      BY <2>1, <2>2
  <1>5. QED
    BY <1>1, <1>2, <1>3, <1>4 DEF SourceInv

\* git checkout restores the original control file.
LEMMA CheckoutInv == SourceInv /\ Checkout => SourceInv'
  <1> SUFFICES ASSUME SourceInv, Checkout PROVE SourceInv'
    OBVIOUS
  <1>0. /\ tool = "none" /\ UNCHANGED <<tool, target, pending, names, todo, writing>>
        /\ text' = [text EXCEPT !["control"] = original]
        /\ wrote' = [wrote EXCEPT !["control"] = {}]
        /\ UNCHANGED <<original, present, treeVars, maintVars, rewritten, moved, made>>
    BY DEF Checkout, Start, runVars
  <1>1. /\ text' \in [Files -> Text] /\ wrote' \in [Files -> SUBSET Tools]
        /\ text'["control"] = original /\ wrote'["control"] = {}
        /\ text'["output"] = text["output"] /\ wrote'["output"] = wrote["output"]
    BY <1>0 DEF SourceInv, TypeOK, TextsInv, Files
  <1>2. TextsInv'
    BY <1>0, <1>1 DEF SourceInv, TextsInv, Files
  <1>3. TypeOK'
    <2>1. commands' \in 0..MaxCommands /\ UNCHANGED <<adds, kills>>
      BY LimitsAssumption DEF Checkout, Start, SourceInv, TypeOK
    <2>2. QED
      BY <1>0, <1>1, <2>1 DEF SourceInv, TypeOK, treeVars, maintVars
  <1>4. TreesInv' /\ LoopInv'
    BY <1>0, TreesKept DEF SourceInv, TreesInv, LoopInv
  <1>5. MaintInv'
    BY <1>0, MaintKept DEF SourceInv, maintVars
  <1>6. QED
    BY <1>2, <1>3, <1>4, <1>5 DEF SourceInv

\* A new file takes its package out of those that were renamed.
LEMMA AddFileInv == SourceInv /\ AddFile => SourceInv'
  <1> SUFFICES ASSUME SourceInv, AddFile PROVE SourceInv'
    OBVIOUS
  <1>0. /\ adds < MaxAdds /\ adds' = adds + 1 /\ adds \in 0..MaxAdds
        /\ UNCHANGED <<text, present, original, build, built, tool, target, pending,
                       names, todo, commands, kills, wrote, writing, rewritten>>
        /\ maint \in [MaintFiles -> 0..(MaxAdds + 1)]
    BY DEF AddFile, fileVars, treeVars, runVars, SourceInv, TypeOK
  <1>1. PICK m \in MaintFiles, known \in BOOLEAN :
          /\ ~ Exists(m)
          /\ maint' = [maint EXCEPT ![m] = adds + 2]
          /\ tracked' = IF known THEN tracked \cup {m} ELSE tracked \ {m}
          /\ made' = made \cup {<<m[1], m[2], adds + 2>>}
          /\ moved' = moved \ {m[1]}
    BY DEF AddFile
  <1>2. adds + 2 \in 0..(MaxAdds + 1) /\ adds + 2 # 0 /\ adds' \in 0..MaxAdds
    BY <1>0, LimitsAssumption
  <1>3. /\ maint' \in [MaintFiles -> 0..(MaxAdds + 1)] /\ maint'[m] = adds + 2
        /\ \A n \in MaintFiles \ {m} : maint'[n] = maint[n]
    BY <1>0, <1>1, <1>2
  <1>4. TypeOK'
    <2>1. tracked' \in SUBSET MaintFiles
      BY <1>1 DEF SourceInv, TypeOK
    <2>2. QED
      BY <1>0, <1>2, <1>3, <2>1 DEF SourceInv, TypeOK
  <1>5. TextsInv' /\ TreesInv' /\ LoopInv'
    BY <1>0 DEF SourceInv, TextsInv, TreesInv, RewriteComplete, LoopInv, Clean, NameIn
  <1>6. MaintInv'
    <2>1. m[1] \in Stems /\ m[2] \in Kinds /\ m[3] \in {0, 1} /\ m = <<m[1], m[2], m[3]>>
      BY DEF MaintFiles
    <2>2. \A w \in made' : w[1] \in Stems /\ w[2] \in Kinds /\ w[3] # 0
      BY <1>1, <1>2, <2>1 DEF SourceInv, MaintInv
    <2>3. ASSUME NEW w \in made'
          PROVE  \E n \in {0, 1} : maint'[<<w[1], w[2], n>>] = w[3]
      <3>1. CASE w \in made
        <4>1. PICK n \in {0, 1} : maint[<<w[1], w[2], n>>] = w[3]
          BY <3>1 DEF SourceInv, MaintInv, NothingLost
        <4>2. <<w[1], w[2], n>> \in MaintFiles /\ <<w[1], w[2], n>> # m
          BY <1>1, <2>2, <4>1 DEF Exists, MaintFiles
        <4>3. QED
          BY <1>3, <4>1, <4>2
      <3>2. CASE w = <<m[1], m[2], adds + 2>>
        <4>1. w[1] = m[1] /\ w[2] = m[2] /\ w[3] = adds + 2
          BY <3>2
        <4>2. maint'[<<w[1], w[2], m[3]>>] = w[3]
          BY <1>3, <2>1, <4>1
        <4>3. QED
          BY <2>1, <4>2
      <3>3. QED
        BY <1>1, <3>1, <3>2
    <2>4. ASSUME NEW s \in moved', NEW k \in Kinds, maint'[<<s, k, 0>>] # 0
          PROVE  maint'[<<s, k, 1>>] # 0 \/ (tool' = "rename" /\ <<s, k, 0>> \in todo')
      <3>1. s \in moved /\ s # m[1] /\ s \in Stems
        BY <1>1 DEF SourceInv, MaintInv
      <3>2. /\ <<s, k, 0>> \in MaintFiles \ {m} /\ <<s, k, 1>> \in MaintFiles \ {m}
        BY <3>1 DEF MaintFiles
      <3>3. QED
        BY <1>0, <1>3, <2>4, <3>1, <3>2 DEF SourceInv, MaintInv, Exists
    <2>5. NothingLost'
      BY <2>3 DEF NothingLost
    <2>6. moved' \in SUBSET Stems
      BY <1>1 DEF SourceInv, MaintInv
    <2>7. QED
      BY <2>2, <2>4, <2>5, <2>6 DEF MaintInv, Exists
  <1>7. QED
    BY <1>4, <1>5, <1>6 DEF SourceInv

\* A tree cut short is a tree.
LEMMA CutTreeGood ==
    ASSUME NEW new \in Text, new.suffix \in [Stanzas -> 0..2], VirtAlone(new),
           NEW p \in Packages, NEW b \in CutTree(new, p)
    PROVE  b \in Text /\ b.suffix \in [Stanzas -> 0..2] /\ VirtAlone(b)
  <1>0. /\ p \in Stanzas /\ new.rel[p] \in Relation /\ new.suffix[p] \in 0..2
        /\ NoRelation \in Relation /\ \A f \in Fields : NoRelation[f] = {}
    BY NamesTyped DEF NoRelation, Relation, Text
  <1>1. ASSUME NEW r \in Relation, p = Virt => \A f \in Fields : r[f] \subseteq {Virt} \X Suffixes
        PROVE  /\ [new EXCEPT !.rel[p] = r] \in Text
               /\ [new EXCEPT !.rel[p] = r].there = new.there
               /\ [new EXCEPT !.rel[p] = r].suffix = new.suffix
               /\ VirtAlone([new EXCEPT !.rel[p] = r])
    <2> DEFINE c == [new EXCEPT !.rel[p] = r]
    <2>1. /\ c \in Text /\ c.there = new.there /\ c.suffix = new.suffix
          /\ c.rel = [new.rel EXCEPT ![p] = r]
      BY TreeRelation
    <2> HIDE DEF c
    <2>2. VirtAlone(c)
      BY <1>1, <2>1, NamesTyped DEF VirtAlone, Text
    <2>3. QED
      BY <2>1, <2>2 DEF c
  <1>2. CASE \E r \in CutRelation(new.rel[p]) : b = [new EXCEPT !.rel[p] = r]
    <2>1. PICK r \in CutRelation(new.rel[p]) : b = [new EXCEPT !.rel[p] = r]
      BY <1>2
    <2>2. /\ r \in Relation
          /\ \A f \in Fields : \A x \in r[f] :
                \/ x \in new.rel[p][f]
                \/ \E y \in new.rel[p][f] : y[2] > 0 /\ x = <<y[1], y[2] - 1>>
      BY <1>0, CutRelationFacts
    <2>3. ASSUME p = Virt, NEW f \in Fields, NEW x \in r[f]
          PROVE  x \in {Virt} \X Suffixes
      <3>1. new.rel[p][f] \subseteq {Virt} \X Suffixes
        BY <2>3 DEF VirtAlone
      <3>2. QED
        BY <2>2, <3>1 DEF Suffixes
    <2>4. QED
      BY <1>1, <2>1, <2>2, <2>3
  <1>3. ASSUME NEW S \in SUBSET Stanzas, NEW n \in 0..new.suffix[p],
               b = [new EXCEPT !.there = S, !.suffix[p] = n, !.rel[p] = NoRelation]
        PROVE  b \in Text /\ b.suffix \in [Stanzas -> 0..2] /\ VirtAlone(b)
    <2> DEFINE c == [new EXCEPT !.rel[p] = NoRelation]
               f == [new.suffix EXCEPT ![p] = n]
    <2>1. c \in Text /\ c.suffix = new.suffix /\ VirtAlone(c)
      BY <1>0, <1>1
    <2>2. b = [c EXCEPT !.there = S, !.suffix = f]
      BY <1>3 DEF Text
    <2>3. f \in [Stanzas -> 0..2] /\ f \in [Stanzas -> Suffixes]
      BY <1>0 DEF Suffixes
    <2> HIDE DEF c, f
    <2>4. b \in Text /\ b.suffix = f /\ b.rel = c.rel
      BY <2>1, <2>2, <2>3 DEF Text
    <2>5. QED
      BY <2>1, <2>3, <2>4 DEF VirtAlone
  <1>4. CASE b = [new EXCEPT !.there = new.there \ {p}, !.rel[p] = NoRelation]
    <2>1. b = [new EXCEPT !.there = new.there \ {p}, !.suffix[p] = new.suffix[p],
                          !.rel[p] = NoRelation]
      BY <1>4 DEF Text
    <2>2. new.there \ {p} \in SUBSET Stanzas /\ new.suffix[p] \in 0..new.suffix[p]
      BY <1>0 DEF Text
    <2>3. QED
      BY <1>3, <2>1, <2>2
  <1>5. ASSUME NEW n \in 0..new.suffix[p],
               b = [new EXCEPT !.suffix[p] = n, !.rel[p] = NoRelation]
        PROVE  b \in Text /\ b.suffix \in [Stanzas -> 0..2] /\ VirtAlone(b)
    <2>1. b = [new EXCEPT !.there = new.there, !.suffix[p] = n, !.rel[p] = NoRelation]
      BY <1>5 DEF Text
    <2>2. new.there \in SUBSET Stanzas
      BY DEF Text
    <2>3. QED
      BY <1>3, <2>1, <2>2
  <1>6. \A k \in Suffixes : k <= new.suffix[p] => k \in 0..new.suffix[p]
    BY <1>0 DEF Suffixes
  <1>7. QED
    BY <1>2, <1>4, <1>5, <1>6 DEF CutTree

\* A write that is cut anywhere leaves part of a good text.
LEMMA KillInv == SourceInv /\ Kill => SourceInv'
  <1> SUFFICES ASSUME SourceInv, Kill PROVE SourceInv'
    OBVIOUS
  <1>0. /\ kills' \in 0..MaxKills /\ Ends /\ tool' = "none" /\ pending' = Empty
        /\ moved' = IF tool = "rename" THEN {} ELSE moved
        /\ UNCHANGED <<original, built, maint, tracked, target, commands, adds, writing,
                       made>>
    BY LimitsAssumption DEF Kill, Ends, SourceInv, TypeOK, maintVars
  <1>1. MaintInv'
    BY <1>0 DEF SourceInv, MaintInv, NothingLost, Exists
  <1>2. Empty \in Text
    BY EmptyGood DEF Good, Once
  <1>3. ASSUME text' \in [Files -> Text], present' \in SUBSET Files, build' \in Text
        PROVE  TypeOK'
    BY <1>0, <1>2, <1>3 DEF SourceInv, TypeOK, Ends
  <1>4. LoopInv' /\ Coherent(names')
    BY <1>0, NoNames DEF LoopInv, Ends
  <1>5. CASE tool = "write" /\ (\E t \in Cut(pending) : Holds(t))
             /\ UNCHANGED <<build, rewritten>>
    <2>1. PICK t \in Cut(pending) : Holds(t)
      BY <1>5
    <2>2. Good(t, writing)
      BY CutGood DEF SourceInv, TextsInv
    <2>3. TextsInv' /\ text' \in [Files -> Text] /\ present' \in SUBSET Files
      BY <1>0, <2>1, <2>2, HoldsGood
    <2>4. TreesInv'
      BY <1>0, <1>4, <1>5, TreesKept DEF SourceInv, treeVars
    <2>5. TypeOK'
      BY <1>3, <1>5, <2>3 DEF SourceInv, TypeOK
    <2>6. QED
      BY <1>1, <1>4, <2>3, <2>4, <2>5 DEF SourceInv
  <1>6. ASSUME UNCHANGED <<fileVars, wrote>>
        PROVE  TextsInv' /\ text' \in [Files -> Text] /\ present' \in SUBSET Files
    BY <1>0, <1>6, EndsGood DEF SourceInv, TypeOK, fileVars
  <1>7. CASE /\ \E p \in todo :
                   \/ /\ tool = "patch" /\ p \in build.there /\ Patched(p) # build
                      /\ build' \in CutTree(Patched(p), p)
                   \/ /\ tool = "rewrite" /\ Rewritten(p) # build
                      /\ build' \in CutTree(Rewritten(p), p)
             /\ rewritten' = {}
             /\ UNCHANGED <<fileVars, wrote>>
    <2>1. PICK p \in todo : /\ tool \in {"patch", "rewrite"}
                            /\ build' \in CutTree(Patched(p), p) \cup CutTree(Rewritten(p), p)
      BY <1>7
    <2>2. p \in Packages
      BY <2>1 DEF SourceInv, LoopInv, TreesInv, Coherent
    <2>3. build' \in Text /\ build'.suffix \in [Stanzas -> 0..2] /\ VirtAlone(build')
      <3> DEFINE old == Patched(p)
                 new == Rewritten(p)
      <3>1. /\ old \in Text /\ old.suffix \in [Stanzas -> 0..2] /\ VirtAlone(old)
            /\ new \in Text /\ new.suffix \in [Stanzas -> 0..2] /\ VirtAlone(new)
        BY <2>2, PatchedGood, RewrittenFields, RewrittenAlone DEF SourceInv, TreesInv
      <3>2. build' \in CutTree(old, p) \/ build' \in CutTree(new, p)
        BY <2>1
      <3> HIDE DEF old, new
      <3>3. QED
        BY <2>2, <3>1, <3>2, CutTreeGood
    <2>4. TreesInv'
      BY <1>0, <1>4, <1>7, <2>3, NoNames DEF SourceInv, TreesInv, RewriteComplete
    <2>5. QED
      BY <1>1, <1>3, <1>4, <1>6, <1>7, <2>3, <2>4 DEF SourceInv
  <1>8. CASE UNCHANGED <<fileVars, build, wrote, rewritten>>
    <2>1. TreesInv'
      BY <1>0, <1>4, <1>8, TreesKept DEF SourceInv, treeVars
    <2>2. QED
      BY <1>1, <1>3, <1>4, <1>6, <1>8, <2>1 DEF SourceInv, TypeOK
  <1>9. QED
    BY <1>5, <1>7, <1>8 DEF Kill

----------------------------------------------------------------------------
(***************************************************************************)
(* The initial states.                                                     *)
(***************************************************************************)
LEMMA OriginalGood == Init => Good(original, {})
  <1> SUFFICES ASSUME Init PROVE Good(original, {})
    OBVIOUS
  <1>1. PICK needs \in [Stems -> SUBSET Stems], meta \in SUBSET {Virt} :
          original = [there  |-> Stems \cup {"Source"} \cup meta,
                      suffix |-> [s \in Stanzas |-> 0],
                      rel    |-> [p \in Packages |->
                          IF p = Virt THEN NoRelation
                          ELSE [NoRelation EXCEPT !.Depends = needs[p] \X {0}]],
                      cut    |-> {}]
    BY DEF Init
  <1>2. /\ original.there = Stems \cup {"Source"} \cup meta
        /\ original.suffix = [s \in Stanzas |-> 0]
        /\ original.rel = [p \in Packages |->
                IF p = Virt THEN NoRelation
                ELSE [NoRelation EXCEPT !.Depends = needs[p] \X {0}]]
        /\ original.cut = {}
        /\ original = [there |-> original.there, suffix |-> original.suffix,
                       rel |-> original.rel, cut |-> original.cut]
    BY <1>1
  <1>3. /\ NoRelation \in Relation /\ \A f \in Fields : NoRelation[f] = {}
        /\ "Depends" \in Fields /\ "Conflicts" \in Fields
    BY DEF NoRelation, Relation, Fields
  <1>4. ASSUME NEW p \in Packages
        PROVE  /\ original.rel[p] \in Relation /\ original.rel[p].Conflicts = {}
               /\ \A x \in original.rel[p].Depends : x[1] # Virt
               /\ p = Virt => \A f \in Fields : original.rel[p][f] = {}
    <2>1. CASE p = Virt
      BY <1>2, <1>3, <2>1
    <2>2. CASE p # Virt
      <3> DEFINE D == needs[p] \X {0}
      <3>1. D \in SUBSET Names /\ \A x \in D : x[1] # Virt
        BY <2>2, StemsAssumption DEF Packages, Names, Suffixes
      <3>2. original.rel[p] = [NoRelation EXCEPT !.Depends = D]
        BY <1>2, <2>2
      <3> HIDE DEF D
      <3>3. QED
        BY <1>3, <2>2, <3>1, <3>2 DEF Relation, Fields
    <2>3. QED
      BY <2>1, <2>2
  <1>5. Once(original)
    <2>1. original.rel \in [Packages -> Relation]
      BY <1>2, <1>4
    <2>2. original.there \in SUBSET Stanzas
      BY <1>2, NamesTyped DEF Stanzas
    <2>3. original.suffix \in [Stanzas -> {0, 1}] /\ original.suffix[Virt] = 0
      BY <1>2, NamesTyped
    <2>4. original \in Text
      <3>1. original.suffix \in [Stanzas -> Suffixes]
        BY <2>3 DEF Suffixes
      <3>2. original = [there |-> original.there, suffix |-> original.suffix,
                        rel |-> original.rel, cut |-> original.cut]
        BY <1>2
      <3>3. QED
        BY <1>2, <2>1, <2>2, <3>1, <3>2 DEF Text
    <2>5. QED
      BY <2>3, <2>4 DEF Once
  <1>6. Together(original) /\ Follow(original)
    BY <1>2, NamesTyped DEF Together, Follow, Stanzas
  <1>7. Sided(original, {}) /\ VirtAlone(original)
    BY <1>4, NamesTyped DEF Sided, VirtAlone
  <1>8. QED
    BY <1>5, <1>6, <1>7 DEF Good

\* The checkout is good and nothing was built.
LEMMA InitInv == Init => SourceInv
  <1> SUFFICES ASSUME Init PROVE SourceInv
    OBVIOUS
  <1>0. /\ text = [f \in Files |-> IF f = "control" THEN original ELSE Empty]
        /\ present = {"control"} /\ build = Empty /\ built = {}
        /\ maint = [m \in MaintFiles |-> IF m \in tracked THEN 1 ELSE 0]
        /\ tool = "none" /\ target = "control" /\ pending = Empty
        /\ names = {} /\ todo = {} /\ commands = 0 /\ adds = 0 /\ kills = 0
        /\ wrote = [f \in Files |-> {}] /\ writing = {} /\ rewritten = {} /\ moved = {}
    BY DEF Init
  <1>1. PICK old \in SUBSET (Stems \X Kinds) :
          /\ tracked = {<<m[1], m[2], 0>> : m \in old}
          /\ made = {<<m[1], m[2], 1>> : m \in old}
    BY DEF Init
  <1>2. Good(original, {}) /\ Good(Empty, {})
    BY OriginalGood, EmptyGood
  <1>3. original \in Text /\ Empty \in Text
    BY <1>2 DEF Good, Once
  <1>4. TextsInv
    BY <1>0, <1>2 DEF TextsInv, Files
  <1>5. TreesInv
    <2>1. Empty.suffix = [s \in Stanzas |-> 0]
      BY DEF Empty
    <2>2. QED
      BY <1>0, <1>2, <1>3, <2>1, NoNames DEF TreesInv, RewriteComplete, Good
  <1>6. LoopInv
    BY <1>0 DEF LoopInv
  <1>7. tracked \in SUBSET MaintFiles
    BY <1>1 DEF MaintFiles
  <1>8. TypeOK
    <2>1. text \in [Files -> Text]
      BY <1>0, <1>3
    <2>2. maint \in [MaintFiles -> 0..(MaxAdds + 1)]
      BY <1>0, LimitsAssumption
    <2>3. QED
      BY <1>0, <1>3, <1>7, <2>1, <2>2, LimitsAssumption DEF TypeOK, Files
  <1>9. MaintInv
    <2>1. ASSUME NEW w \in made
          PROVE  /\ w[1] \in Stems /\ w[2] \in Kinds /\ w[3] # 0
                 /\ maint[<<w[1], w[2], 0>>] = w[3]
      <3>1. PICK m \in old : w = <<m[1], m[2], 1>>
        BY <1>1
      <3>2. w[1] = m[1] /\ w[2] = m[2] /\ w[3] = 1 /\ m[1] \in Stems /\ m[2] \in Kinds
        BY <3>1
      <3>3. <<w[1], w[2], 0>> \in tracked /\ <<w[1], w[2], 0>> \in MaintFiles
        BY <1>1, <3>2 DEF MaintFiles
      <3>4. QED
        BY <1>0, <3>2, <3>3
    <2>2. QED
      BY <1>0, <2>1 DEF MaintInv, NothingLost
  <1>10. QED
    BY <1>4, <1>5, <1>6, <1>8, <1>9 DEF SourceInv

----------------------------------------------------------------------------
(***************************************************************************)
(* The theorems.                                                           *)
(***************************************************************************)
LEMMA StepInv == SourceInv /\ [Next]_vars => SourceInv'
  <1> SUFFICES ASSUME SourceInv, [Next]_vars PROVE SourceInv'
    OBVIOUS
  <1>1. CASE UNCHANGED vars
    BY <1>1 DEF vars, fileVars, treeVars, maintVars, runVars, limitVars, SourceInv,
       TypeOK, TextsInv, TreesInv, MaintInv, LoopInv, RewriteComplete, NothingLost,
       Exists, Clean, NameIn
  <1>2. CASE Next
    BY <1>2, CreateHweInv, GenHweInv, WriteInv, BuildInv, PatchStartInv, PatchInv,
       RewriteStartInv, RewriteInv, RenameStartInv, RenameInv, FinishInv, CheckoutInv,
       AddFileInv, KillInv DEF Next
  <1>3. QED
    BY <1>1, <1>2

\* The files, the trees and the loops of the source package tools keep the
\* inductive invariant, whatever is started, repeated or killed.
THEOREM Invariance == Spec => []SourceInv
  BY InitInv, StepInv, PTL DEF Spec

\* The variables of the source package tools keep their types: in particular
\* no tool ever makes a name with more than three suffixes.
THEOREM TypeCorrect == Spec => []TypeOK
  <1>1. SourceInv => TypeOK
    BY DEF SourceInv
  <1>2. QED
    BY <1>1, Invariance, PTL

\* create-hwe.py never gives a Source or a Package of a control file the suffix
\* twice.
THEOREM SuffixOnceHolds == Spec => []SuffixOnce
  <1>1. SourceInv => SuffixOnce
    BY DEF SourceInv, TextsInv, Good, Once, Text, SuffixOnce
  <1>2. QED
    BY <1>1, Invariance, PTL

\* Source and packages of every control file are renamed together; of a
\* truncated one, all stanzas but the one it ends on.
THEOREM RenamedTogetherHolds == Spec => []RenamedTogether
  <1>1. SourceInv => RenamedTogether
    BY DEF SourceInv, TextsInv, Good, Together, RenamedTogether
  <1>2. QED
    BY <1>1, Invariance, PTL

\* A renamed package depends on its siblings by their new names only, and
\* provides and replaces its own old name, but for the stanza a cut file ends on.
THEOREM RelationsFollowHolds == Spec => []RelationsFollow
  <1>1. SourceInv => RelationsFollow
    BY DEF SourceInv, TextsInv, Good, Follow, RelationsFollow
  <1>2. QED
    BY <1>1, Invariance, PTL

\* Only a file that both create-hwe.py and gen-hwe.py had a part in has a
\* package that depends on what it conflicts with.
THEOREM OneSidedHolds == Spec => []OneSided
  <1>1. SourceInv => OneSided
    <2> SUFFICES ASSUME SourceInv, NEW f \in Files, NEW p \in Packages,
                        text[f].rel[p].Depends \cap text[f].rel[p].Conflicts # {}
                 PROVE  wrote[f] = {"create-hwe", "gen-hwe"}
      BY DEF OneSided
    <2>1. Sided(text[f], wrote[f]) /\ wrote[f] \subseteq Tools
      BY DEF SourceInv, TextsInv, Good
    <2>2. "create-hwe" \in wrote[f] /\ ubuntu_virt \in text[f].rel[p].Depends
      BY <2>1 DEF Sided
    <2>3. "gen-hwe" \in wrote[f]
      BY <2>1, <2>2 DEF Sided, ubuntu_virt
    <2>4. QED
      BY <2>1, <2>2, <2>3 DEF Tools
  <1>2. QED
    BY <1>1, Invariance, PTL

\* A completed debian/hwe-gencontrol.py leaves no name it was to replace in a
\* built tree, whatever earlier, killed runs did to the trees.
THEOREM RewriteCompleteHolds == Spec => []RewriteComplete
  <1>1. SourceInv => RewriteComplete
    BY DEF SourceInv, TreesInv
  <1>2. QED
    BY <1>1, Invariance, PTL

\* No maintainer file is lost by hwe-rename-maintscripts.py, although the
\* developer writes files while it runs.
THEOREM NothingLostHolds == Spec => []NothingLost
  <1>1. SourceInv => NothingLost
    BY DEF SourceInv, MaintInv
  <1>2. QED
    BY <1>1, Invariance, PTL

\* After a completed hwe-rename-maintscripts.py every file of a renamed package
\* has the new name, or there is another one that has it.
THEOREM FilesFollowHolds == Spec => []FilesFollow
  <1>1. SourceInv => FilesFollow
    BY DEF SourceInv, MaintInv, FilesFollow
  <1>2. QED
    BY <1>1, Invariance, PTL
=============================================================================
