---------------------------- MODULE ChecksProofs ----------------------------
(***************************************************************************)
(* Theorems about the installation checks: what their line of commands     *)
(* looks like for any list of packages, that they use the hook's host only *)
(* as an administrator may, so that all that is proved of the hook holds   *)
(* while they run, that check.sh meets no follow-up of its own, and that   *)
(* the switch check-idempotence.sh reports has taken place.                *)
(***************************************************************************)
EXTENDS Checks, AptHookProofs, FiniteSetTheorems, WellFoundedInduction

----------------------------------------------------------------------------
(***************************************************************************)
(* Lines of commands.  They are put together piece by piece; that every    *)
(* piece has its share in the whole is an induction over their number.     *)
(***************************************************************************)
\* Induction over 1..N, by the smallest number that is not in P.
LEMMA Upwards ==
    ASSUME NEW N \in Nat, NEW P, 1 \in P, \A n \in 2..N : n - 1 \in P => n \in P
    PROVE  1..N \subseteq P
  <1> DEFINE T == (1..N) \ P
             R == {ss \in Nat \X Nat : ss[1] < ss[2]}
  <1> SUFFICES ASSUME T # {} PROVE FALSE
    OBVIOUS
  <1>1. IsWellFoundedOn(R, Nat)
    BY NatLessThanWellFounded, Zenon DEF OpToRel
  <1>2. T \subseteq Nat
    OBVIOUS
  <1>3. PICK x \in T : \A y \in T : ~ (<<y, x>> \in R)
    <2> HIDE DEF T, R
    <2> QED
      BY <1>1, <1>2, WFMin
  <1>4. x \in 2..N /\ x - 1 \in Nat /\ x - 1 < x
    BY <1>2
  <1>5. x - 1 \in T
    BY <1>4
  <1>6. <<x - 1, x>> \in R
    BY <1>4, <1>2
  <1>7. QED
    BY <1>3, <1>5, <1>6

\* The function by which FlattenSeq joins the first n pieces.
Joins(g, q, n) == g = [i \in 1..n |-> IF i = 1 THEN q[i] ELSE g[i - 1] \o q[i]]

\* There is such a function for any number of pieces.
LEMMA JoinExists ==
    ASSUME NEW N \in Nat, N # 0, NEW q
    PROVE  \E g : Joins(g, q, N)
  <1> DEFINE P == {n \in Nat : \E g : Joins(g, q, n)}
  <1>1. 1 \in P
    <2> DEFINE g == [i \in 1..1 |-> q[i]]
    <2>1. Joins(g, q, 1)
      BY DEF Joins
    <2> QED
      BY <2>1
  <1>2. ASSUME NEW n \in 2..N, n - 1 \in P
        PROVE  n \in P
    <2>1. PICK g : Joins(g, q, n - 1)
      BY <1>2
    <2> DEFINE h == [i \in 1..n |-> IF i = n THEN g[n - 1] \o q[n] ELSE g[i]]
               k == [i \in 1..n |-> IF i = 1 THEN q[i] ELSE h[i - 1] \o q[i]]
    <2>2. ASSUME NEW i \in 1..n
          PROVE  h[i] = k[i]
      <3>1. CASE i = n
        <4>1. n - 1 \in 1..n /\ n - 1 # n /\ n # 1 /\ n \in 1..n
          OBVIOUS
        <4>2. h[n - 1] = g[n - 1] /\ h[n] = g[n - 1] \o q[n]
          BY <4>1
        <4>3. k[n] = h[n - 1] \o q[n]
          BY <4>1
        <4>4. QED
          BY <3>1, <4>2, <4>3
      <3>2. CASE i # n
        <4>1. i \in 1..(n - 1) /\ h[i] = g[i]
          BY <3>2
        <4>2. g[i] = IF i = 1 THEN q[i] ELSE g[i - 1] \o q[i]
          BY <2>1, <4>1 DEF Joins
        <4>3. i # 1 => h[i - 1] = g[i - 1]
          BY <4>1
        <4>4. QED
          BY <4>1, <4>2, <4>3
      <3>3. QED
        BY <3>1, <3>2
    <2>3. h = k
      BY <2>2
    <2>4. Joins(h, q, n)
      BY <2>3 DEF Joins
    <2>5. QED
      <3> HIDE DEF h
      <3> QED
        BY <2>4
  <1>3. QED
    <2> HIDE DEF P
    <2>1. N \in P
      BY <1>1, <1>2, Upwards
    <2> USE DEF P
    <2>2. QED
      BY <2>1

\* What FlattenSeq computes is the last join.
LEMMA FlattenJoins ==
    ASSUME NEW q, Len(q) \in Nat, Len(q) # 0
    PROVE  \E g : Joins(g, q, Len(q)) /\ FlattenSeq(q) = g[Len(q)]
  <1> DEFINE G(g) == g = [i \in 1..Len(q) |-> IF i = 1 THEN q[i] ELSE g[i - 1] \o q[i]]
             f == CHOOSE g : G(g)
  <1>1. \A g : Joins(g, q, Len(q)) <=> G(g)
    BY DEF Joins
  <1>2. \E g : G(g)
    <2> HIDE DEF G
    <2> QED
      BY <1>1, JoinExists
  <1>3. G(f)
    <2> HIDE DEF G
    <2> QED
      BY <1>2, Zenon
  <1>4. FlattenSeq(q) = f[Len(q)]
    BY DEF FlattenSeq
  <1>5. QED
    <2> HIDE DEF G, f
    <2> QED
      BY <1>1, <1>3, <1>4

\* Joined lines are of any kind that one line after another is.
LEMMA JoinClosed ==
    ASSUME NEW N \in Nat, N # 0, NEW L, \A s, t \in L : s \o t \in L,
           NEW q, \A n \in 1..N : q[n] \in L, NEW g, Joins(g, q, N)
    PROVE  g[N] \in L
  <1> DEFINE P == {n \in 1..N : g[n] \in L}
  <1>0. \A n \in 1..N : g[n] = IF n = 1 THEN q[n] ELSE g[n - 1] \o q[n]
    BY DEF Joins
  <1>1. 1 \in P
    <2>1. 1 \in 1..N
      OBVIOUS
    <2>2. g[1] = q[1]
      BY <1>0, <2>1, Zenon
    <2>3. QED
      BY <2>1, <2>2
  <1>2. ASSUME NEW n \in 2..N, n - 1 \in P
        PROVE  n \in P
    <2>1. n \in 1..N /\ n # 1
      OBVIOUS
    <2>2. g[n] = g[n - 1] \o q[n]
      BY <1>0, <2>1, Zenon
    <2>3. g[n - 1] \in L /\ q[n] \in L
      BY <1>2
    <2>4. g[n - 1] \o q[n] \in L
      BY <2>3
    <2>5. QED
      BY <2>1, <2>2, <2>4
  <1>3. QED
    <2> HIDE DEF P
    <2>1. 1..N \subseteq P
      BY <1>1, <1>2, Upwards
    <2> USE DEF P
    <2>2. QED
      BY <2>1

\* So is FlattenSeq of them.
LEMMA FlattenClosed ==
    ASSUME NEW L, <<>> \in L, \A s, t \in L : s \o t \in L, NEW q \in Seq(L)
    PROVE  FlattenSeq(q) \in L
  <1>1. CASE Len(q) = 0
    BY <1>1 DEF FlattenSeq
  <1>2. CASE Len(q) # 0
    <2>1. Len(q) \in Nat /\ \A n \in 1..Len(q) : q[n] \in L
      OBVIOUS
    <2>2. PICK g : Joins(g, q, Len(q)) /\ FlattenSeq(q) = g[Len(q)]
      BY <1>2, <2>1, FlattenJoins
    <2>3. QED
      BY <1>2, <2>1, <2>2, JoinClosed
  <1>3. QED
    BY <1>1, <1>2

\* A command of one of the pieces is a command of the line.
LEMMA FlattenHas ==
    ASSUME NEW A, NEW q \in Seq(Seq(A)), NEW n \in 1..Len(q), NEW m \in 1..Len(q[n])
    PROVE  \E k \in 1..Len(FlattenSeq(q)) : FlattenSeq(q)[k] = q[n][m]
  <1> DEFINE N == Len(q)
             e == q[n][m]
             Has(l) == l \in Seq(A) /\ \E k \in 1..Len(l) : l[k] = e
  <1>1. N \in Nat /\ N # 0 /\ \A i \in 1..N : q[i] \in Seq(A)
    OBVIOUS
  <1>2. PICK g : Joins(g, q, N) /\ FlattenSeq(q) = g[N]
    BY <1>1, FlattenJoins
  <1>3. \A i \in 1..N : g[i] = IF i = 1 THEN q[i] ELSE g[i - 1] \o q[i]
    BY <1>2 DEF Joins
  <1>4. Has(q[n])
    BY <1>1
  <1>5. ASSUME NEW l \in Seq(A), NEW r \in Seq(A)
        PROVE  /\ l \o r \in Seq(A)
               /\ Has(l) => Has(l \o r)
               /\ Has(r) => Has(l \o r)
    <2>1. l \o r \in Seq(A) /\ Len(l \o r) = Len(l) + Len(r) /\ Len(l) \in Nat /\ Len(r) \in Nat
      OBVIOUS
    <2>2. \A k \in 1..Len(l) : (l \o r)[k] = l[k] /\ k \in 1..Len(l \o r)
      OBVIOUS
    <2>3. \A k \in 1..Len(r) : (l \o r)[Len(l) + k] = r[k] /\ Len(l) + k \in 1..Len(l \o r)
      OBVIOUS
    <2> HIDE DEF e
    <2>4. QED
      BY <2>1, <2>2, <2>3
  <1> HIDE DEF N, e, Has
  <1> DEFINE P == {i \in 1..N : g[i] \in Seq(A) /\ (i >= n => Has(g[i]))}
  <1>6. n \in 1..N
    BY DEF N
  <1>7. 1 \in P
    <2>1. 1 \in 1..N /\ (1 >= n => n = 1)
      BY <1>1, <1>6
    <2>2. g[1] = q[1]
      BY <1>3, <2>1, Zenon
    <2>3. QED
      BY <1>1, <1>4, <2>1, <2>2
  <1>8. ASSUME NEW i \in 2..N, i - 1 \in P
        PROVE  i \in P
    <2>1. i \in 1..N /\ i # 1 /\ (i >= n => i - 1 >= n \/ i = n)
      BY <1>6, <1>1
    <2>2. g[i] = g[i - 1] \o q[i]
      BY <1>3, <2>1, Zenon
    <2>3. g[i - 1] \in Seq(A) /\ q[i] \in Seq(A) /\ (i - 1 >= n => Has(g[i - 1]))
      BY <1>8, <1>1
    <2>4. g[i - 1] \o q[i] \in Seq(A) /\ (i >= n => Has(g[i - 1] \o q[i]))
      BY <1>4, <1>5, <2>1, <2>3
    <2>5. QED
      BY <2>1, <2>2, <2>4
  <1>9. N \in P
    <2> HIDE DEF P
    <2>1. 1..N \subseteq P
      BY <1>1, <1>7, <1>8, Upwards
    <2>2. N \in 1..N
      BY <1>1
    <2>3. QED
      BY <2>1, <2>2
  <1>10. Has(g[N])
    BY <1>6, <1>9
  <1>11. QED
    BY <1>2, <1>10 DEF Has, e

\* Commands of some kind, joined, are commands of that kind.
LEMMA FlattenTyped ==
    ASSUME NEW A, NEW q \in Seq(Seq(A))
    PROVE  FlattenSeq(q) \in Seq(A)
  <1>1. <<>> \in Seq(A) /\ \A s, t \in Seq(A) : s \o t \in Seq(A)
    OBVIOUS
  <1>2. QED
    BY <1>1, FlattenClosed

\* The kinds of commands.
Doings == {"update", "outside", "install", "depend", "remove", "begin", "begin_any", "collect",
           "in", "out", "any", "base_in", "base_out", "switched", "gone", "judge"}

\* Packages are installed one by one, and only base packages are depended on.
Shaped == {c \in [do : Doings, of : SUBSET Pkgs, mayFail : BOOLEAN] :
              /\ c.do = "install" => \E p \in Pkgs : c.of = {p}
              /\ c.do = "depend" => c.of \subseteq Stems \X {"base"}}

\* Two lines after each other.
LEMMA Concatenated ==
    /\ \A s, t \in Seq(Shaped) : s \o t \in Seq(Shaped)
    /\ \A s, t \in Seq(Shaped) : Len(s \o t) = Len(s) + Len(t)
  OBVIOUS

\* A sequence over a set is one over any larger set.
LEMMA LargerSeq ==
    ASSUME NEW A, NEW B, A \subseteq B, NEW s \in Seq(A)
    PROVE  s \in Seq(B)
  <1>1. Len(s) \in Nat /\ s = [i \in 1..Len(s) |-> s[i]] /\ \A i \in 1..Len(s) : s[i] \in B
    OBVIOUS
  <1>2. QED
    BY <1>1

\* A line of one command.
LEMMA OneCommand ==
    ASSUME NEW do \in Doings, NEW S \in SUBSET Pkgs, NEW mayFail \in BOOLEAN,
           do = "install" => \E p \in Pkgs : S = {p},
           do = "depend" => S \subseteq Stems \X {"base"}
    PROVE  <<Cmd(do, S, mayFail)>> \in Seq(Shaped)
  <1>1. Cmd(do, S, mayFail) \in Shaped
    BY DEF Cmd, Shaped
  <1>2. QED
    BY <1>1

\* The elementary lines.
LEMMA Elementary ==
    /\ update \in Seq(Shaped)
    /\ outside \in Seq(Shaped)
    /\ remove_all_test_packages \in Seq(Shaped)
    /\ remove_external_dep_packages \in Seq(Shaped)
    /\ \A S \in SUBSET Stems : depend(S) \in Seq(Shaped)
    /\ \A p \in Pkgs : install({p}) \in Seq(Shaped)
    /\ \A do \in {"begin", "begin_any", "collect", "judge"} :
          <<Cmd(do, {}, FALSE)>> \in Seq(Shaped)
    /\ \A do \in {"in", "out", "any", "base_in", "base_out", "switched", "gone"},
          s \in Stems, v \in {"base", "hwe"} : See(do, s, v) \in Seq(Shaped)
  <1>1. update \in Seq(Shaped) /\ outside \in Seq(Shaped)
    BY OneCommand DEF update, outside, Doings
  <1>2. remove_all_test_packages \in Seq(Shaped)
    BY OneCommand DEF remove_all_test_packages, Doings
  <1>3. remove_external_dep_packages \in Seq(Shaped)
    <2>1. ExtPackages \X {"base"} \in SUBSET Pkgs
      BY ChecksAssumption DEF Pkgs, Variants
    <2>2. QED
      BY <2>1, OneCommand DEF remove_external_dep_packages, Doings
  <1>4. ASSUME NEW S \in SUBSET Stems
        PROVE  depend(S) \in Seq(Shaped)
    <2>1. S \X {"base"} \in SUBSET Pkgs /\ S \X {"base"} \subseteq Stems \X {"base"}
      BY DEF Pkgs, Variants
    <2>2. QED
      BY <2>1, OneCommand DEF depend, Doings
  <1>5. ASSUME NEW p \in Pkgs
        PROVE  install({p}) \in Seq(Shaped)
    <2>1. {p} \in SUBSET Pkgs /\ \E r \in Pkgs : {p} = {r}
      OBVIOUS
    <2>2. QED
      BY <2>1, OneCommand DEF install, Doings
  <1>6. ASSUME NEW do \in {"begin", "begin_any", "collect", "judge"}
        PROVE  <<Cmd(do, {}, FALSE)>> \in Seq(Shaped)
    BY OneCommand DEF Doings
  <1>7. ASSUME NEW do \in {"in", "out", "any", "base_in", "base_out", "switched", "gone"},
               NEW s \in Stems, NEW v \in {"base", "hwe"}
        PROVE  See(do, s, v) \in Seq(Shaped)
    <2>1. {<<s, v>>} \in SUBSET Pkgs /\ do \in Doings
          /\ do # "install" /\ do # "depend"
      BY DEF Pkgs, Variants, Doings
    <2>2. QED
      BY <2>1, OneCommand DEF See
  <1>8. QED
    BY <1>1, <1>2, <1>3, <1>4, <1>5, <1>6, <1>7

\* A loop over the packages.
LEMMA ForEachShaped ==
    ASSUME NEW piece \in [Stems -> Seq(Shaped)]
    PROVE  ForEach(piece) \in Seq(Shaped)
  <1>1. Len(PACKAGES) \in Nat /\ \A i \in 1..Len(PACKAGES) : PACKAGES[i] \in Stems
    BY ChecksAssumption
  <1>2. [i \in 1..Len(PACKAGES) |-> piece[PACKAGES[i]]] \in Seq(Seq(Shaped))
    BY <1>1
  <1>3. QED
    BY <1>2, FlattenTyped DEF ForEach
\* check-default.sh.
LEMMA CheckDefaultShaped == CheckDefault \in Seq(Shaped)
  <1>1. [n \in 1..Len(ExtNeeds) |-> depend(ExtNeeds[n])] \in Seq(Seq(Shaped))
    <2>1. Len(ExtNeeds) \in Nat /\ \A n \in 1..Len(ExtNeeds) : ExtNeeds[n] \in SUBSET Stems
      BY ChecksAssumption
    <2>2. \A n \in 1..Len(ExtNeeds) : depend(ExtNeeds[n]) \in Seq(Shaped)
      BY <2>1, Elementary
    <2>3. QED
      BY <2>1, <2>2
  <1> DEFINE exts == FlattenSeq([n \in 1..Len(ExtNeeds) |-> depend(ExtNeeds[n])])
             look == [s \in Stems |-> See("out", s, "hwe") \o See("any", s, "base")]
  <1>2. exts \in Seq(Shaped)
    BY <1>1, FlattenTyped
  <1>3. look \in [Stems -> Seq(Shaped)]
    <2>1. \A s \in Stems : See("out", s, "hwe") \in Seq(Shaped)
                            /\ See("any", s, "base") \in Seq(Shaped)
      BY Elementary
    <2>2. QED
      BY <2>1
  <1>4. verify_only_base_variants \in Seq(Shaped)
    <2>1. /\ ForEach(look) \in Seq(Shaped)
          /\ <<Cmd("begin_any", {}, FALSE)>> \in Seq(Shaped)
          /\ <<Cmd("judge", {}, FALSE)>> \in Seq(Shaped)
      BY <1>3, ForEachShaped, Elementary
    <2> HIDE DEF look
    <2>2. <<Cmd("begin_any", {}, FALSE)>> \o ForEach(look)
              \o <<Cmd("judge", {}, FALSE)>> \in Seq(Shaped)
      BY <2>1, Concatenated, Zenon
    <2> USE DEF look
    <2>3. QED
      BY <2>2 DEF verify_only_base_variants
  <1>5. update \o remove_all_test_packages \o exts \o verify_only_base_variants
            \in Seq(Shaped)
    <2> HIDE DEF exts
    <2> QED
      BY <1>2, <1>4, Elementary
  <1>6. QED
    BY <1>5 DEF CheckDefault

\* check-idempotence.sh.
LEMMA CheckIdempotenceShaped == CheckIdempotence \in Seq(Shaped)
  <1> DEFINE look == [s \in Stems |-> See("base_in", s, "hwe") \o See("base_out", s, "base")]
  <1>0. Utils \in Stems /\ FactoryNeeds \in SUBSET Stems /\ <<Utils, "hwe">> \in Pkgs
    BY ChecksAssumption, StemsAssumption DEF Stems, Pkgs, Variants
  <1>1. look \in [Stems -> Seq(Shaped)]
    <2>1. \A s \in Stems : See("base_in", s, "hwe") \in Seq(Shaped)
                            /\ See("base_out", s, "base") \in Seq(Shaped)
      BY Elementary
    <2>2. QED
      BY <2>1
  <1>2. VerifySwitch \in Seq(Shaped)
    <2>1. /\ ForEach(look) \in Seq(Shaped)
          /\ See("switched", Utils, "hwe") \in Seq(Shaped)
          /\ See("gone", Utils, "base") \in Seq(Shaped)
          /\ <<Cmd("judge", {}, FALSE)>> \in Seq(Shaped)
      BY <1>0, <1>1, ForEachShaped, Elementary
    <2> HIDE DEF look
    <2>2. ForEach(look) \o See("switched", Utils, "hwe") \o See("gone", Utils, "base")
              \o <<Cmd("judge", {}, FALSE)>> \in Seq(Shaped)
      BY <2>1, Concatenated, Zenon
    <2> USE DEF look
    <2>3. QED
      BY <2>2 DEF VerifySwitch
  <1>3. /\ update \in Seq(Shaped) /\ depend(FactoryNeeds) \in Seq(Shaped)
        /\ <<Cmd("collect", {}, FALSE)>> \in Seq(Shaped)
        /\ install({<<Utils, "hwe">>}) \in Seq(Shaped)
        /\ <<Cmd("begin", {}, FALSE)>> \in Seq(Shaped)
    BY <1>0, Elementary
  <1>4. QED
    BY <1>2, <1>3, Concatenated, Zenon DEF CheckIdempotence

\* check.sh, for one package.
LEMMA CheckPairShaped ==
    ASSUME NEW s \in Stems
    PROVE  CheckPair(s) \in Seq(Shaped)
  <1>1. ASSUME NEW v \in {"base", "hwe"}
        PROVE  check_exclusive_state(s, v) \in Seq(Shaped)
    <2> DEFINE look == [t \in Stems |-> See("out", t, Other(v))]
    <2>1. Other(v) \in {"base", "hwe"}
      BY DEF Other
    <2>2. look \in [Stems -> Seq(Shaped)]
      BY <2>1, Elementary
    <2>3. ForEach(look) \in Seq(Shaped) /\ See("in", s, v) \in Seq(Shaped)
      BY <2>2, ForEachShaped, Elementary
    <2> HIDE DEF look
    <2>4. See("in", s, v) \o ForEach(look) \in Seq(Shaped)
      BY <2>3
    <2> USE DEF look
    <2>5. QED
      BY <2>4 DEF check_exclusive_state
  <1>2. install({<<s, "base">>}) \in Seq(Shaped) /\ install({<<s, "hwe">>}) \in Seq(Shaped)
    <2>1. <<s, "base">> \in Pkgs /\ <<s, "hwe">> \in Pkgs
      BY DEF Pkgs, Variants
    <2>2. QED
      BY <2>1, Elementary
  <1>3. /\ check_exclusive_state(s, "base") \in Seq(Shaped)
        /\ check_exclusive_state(s, "hwe") \in Seq(Shaped)
    BY <1>1
  <1>4. QED
    BY <1>2, <1>3, Elementary DEF CheckPair

\* check-shdeps.sh, check-upgrade.sh and the update of check.sh.
LEMMA BetweenShaped ==
    /\ CheckShdeps \in Seq(Shaped) /\ Len(CheckShdeps) = 4
    /\ CheckUpgrade \in Seq(Shaped) /\ Len(CheckUpgrade) = 3
    /\ update \in Seq(Shaped) /\ Len(update) = 1
    /\ outside \in Seq(Shaped) /\ Len(outside) = 1
  <1>1. /\ update \in Seq(Shaped) /\ outside \in Seq(Shaped)
        /\ depend(ShdepsNeeds) \in Seq(Shaped)
    BY Elementary, ChecksAssumption
  <1>2. Len(update) = 1 /\ Len(outside) = 1 /\ Len(depend(ShdepsNeeds)) = 1
    BY DEF update, outside, depend
  <1>3. outside \o update \in Seq(Shaped) /\ Len(outside \o update) = 2
    BY <1>1, <1>2, Concatenated
  <1>4. CheckUpgrade \in Seq(Shaped) /\ Len(CheckUpgrade) = 3
    BY <1>1, <1>2, <1>3, Concatenated DEF CheckUpgrade
  <1>5. /\ (outside \o update) \o depend(ShdepsNeeds) \in Seq(Shaped)
        /\ Len((outside \o update) \o depend(ShdepsNeeds)) = 3
    BY <1>1, <1>2, <1>3, Concatenated
  <1>6. CheckShdeps \in Seq(Shaped) /\ Len(CheckShdeps) = 4
    BY <1>1, <1>2, <1>5, Concatenated DEF CheckShdeps
  <1>7. QED
    BY <1>1, <1>2, <1>4, <1>6

\* The line of test.sh, for any list of packages: packages are installed one by
\* one, only base packages are depended on, and every place at which a check
\* can be started is in it.
LEMMA ProgramShape ==
    /\ Program \in Seq([do : Doings, of : SUBSET Pkgs, mayFail : BOOLEAN])
    /\ Starts \subseteq 1..Len(Program)
    /\ \A i \in 1..Len(Program) :
          /\ Program[i].do = "install" => \E p \in Pkgs : Program[i].of = {p}
          /\ Program[i].do = "depend" => Program[i].of \subseteq Stems \X {"base"}
  <1> DEFINE pairs == ForEach([s \in Stems |-> CheckPair(s)])
  <1>1. pairs \in Seq(Shaped)
    <2>1. [s \in Stems |-> CheckPair(s)] \in [Stems -> Seq(Shaped)]
      BY CheckPairShaped
    <2>2. QED
      BY <2>1, ForEachShaped
  <1>2. CheckDefault \in Seq(Shaped) /\ CheckIdempotence \in Seq(Shaped)
    BY CheckDefaultShaped, CheckIdempotenceShaped
  <1> HIDE DEF pairs
  <1> DEFINE a == CheckDefault \o outside
             b == a \o CheckIdempotence
             c == b \o CheckShdeps
             d == c \o CheckUpgrade
             e == d \o update
             D == Len(CheckDefault)
             I == Len(CheckIdempotence)
  <1>4. Program = e \o pairs
    BY DEF Program, pairs
  <1>5. /\ D \in Nat /\ I \in Nat /\ Len(pairs) \in Nat
        /\ Program \in Seq(Shaped) /\ Len(Program) = D + I + 9 + Len(pairs)
    <2>1. D \in Nat /\ I \in Nat /\ Len(pairs) \in Nat
      BY <1>1, <1>2
    <2>2. a \in Seq(Shaped) /\ Len(a) = D + Len(outside)
      BY <1>2, BetweenShaped, Concatenated, Zenon
    <2> HIDE DEF a
    <2>3. b \in Seq(Shaped) /\ Len(b) = Len(a) + I
      BY <1>2, <2>2, Concatenated, Zenon
    <2> HIDE DEF b
    <2>4. c \in Seq(Shaped) /\ Len(c) = Len(b) + Len(CheckShdeps)
      BY <2>3, BetweenShaped, Concatenated, Zenon
    <2> HIDE DEF c
    <2>5. d \in Seq(Shaped) /\ Len(d) = Len(c) + Len(CheckUpgrade)
      BY <2>4, BetweenShaped, Concatenated, Zenon
    <2> HIDE DEF d
    <2>6. e \in Seq(Shaped) /\ Len(e) = Len(d) + Len(update)
      BY <2>5, BetweenShaped, Concatenated, Zenon
    <2> HIDE DEF e, D, I
    <2>7. Program \in Seq(Shaped) /\ Len(Program) = Len(e) + Len(pairs)
      BY <1>1, <1>4, <2>6, Concatenated, Zenon
    <2>8. Len(e) = D + I + 9
      BY <2>1, <2>2, <2>3, <2>4, <2>5, <2>6, BetweenShaped
    <2>9. QED
      BY <2>1, <2>7, <2>8, Zenon
  <1>6. /\ Len(CheckDefault \o CheckIdempotence) = D + I
        /\ Len(CheckDefault \o CheckIdempotence \o CheckShdeps) = D + I + 4
        /\ Len(CheckDefault \o CheckIdempotence \o CheckShdeps \o CheckUpgrade) = D + I + 7
    <2> DEFINE x == CheckDefault \o CheckIdempotence
               y == x \o CheckShdeps
    <2>1. x \in Seq(Shaped) /\ Len(x) = D + I
      BY <1>2, Concatenated, Zenon
    <2> HIDE DEF x
    <2>2. y \in Seq(Shaped) /\ Len(y) = Len(x) + Len(CheckShdeps)
      BY <2>1, BetweenShaped, Concatenated, Zenon
    <2> HIDE DEF y
    <2>3. Len(y \o CheckUpgrade) = Len(y) + Len(CheckUpgrade)
      BY <2>2, BetweenShaped, Concatenated, Zenon
    <2>4. Len(x) = D + I /\ Len(y) = D + I + 4 /\ Len(y \o CheckUpgrade) = D + I + 7
      <3> HIDE DEF D, I
      <3> QED
        BY <1>5, <2>1, <2>2, <2>3, BetweenShaped
    <2>5. QED
      BY <2>4, Zenon DEF x, y
  <1>7. Starts \subseteq 1..Len(Program)
    <2>1. Starts = {1, 1 + D, 2 + D, 2 + (D + I), 2 + (D + I + 4), 2 + (D + I + 7)}
      BY <1>6 DEF Starts
    <2> HIDE DEF D, I
    <2>2. QED
      BY <1>5, <2>1
  <1>8. Program \in Seq([do : Doings, of : SUBSET Pkgs, mayFail : BOOLEAN])
    <2>1. Shaped \subseteq [do : Doings, of : SUBSET Pkgs, mayFail : BOOLEAN]
      BY DEF Shaped
    <2>2. QED
      BY <1>5, <2>1, LargerSeq
  <1>9. ASSUME NEW i \in 1..Len(Program)
        PROVE  /\ Program[i].do = "install" => \E p \in Pkgs : Program[i].of = {p}
               /\ Program[i].do = "depend" => Program[i].of \subseteq Stems \X {"base"}
    <2>1. Program[i] \in Shaped
      BY <1>5
    <2>2. QED
      BY <2>1 DEF Shaped
  <1>10. QED
    BY <1>7, <1>8, <1>9

----------------------------------------------------------------------------
(***************************************************************************)
(* The checks and the hook.                                                *)
(***************************************************************************)
\* The commands that run apt-get on packages.
Transactions == {"install", "depend", "remove"}

\* The commands among the first n that may have started a transaction.
Txns(n) == {i \in 1..n : Program[i].do \in Transactions}

\* A running check is at a command, it waits for an apt-get only, and each
\* command before this one has started at most one transaction.
Counted ==
    /\ pc \in 1..Len(Program) + 1
    /\ verdict = "running" => pc <= Len(Program)
    /\ Waiting => verdict = "running" /\ cmd.do \in Transactions
    /\ verdict = "running" =>
          IF Waiting THEN serial <= Cardinality(Txns(pc)) ELSE serial <= Cardinality(Txns(pc - 1))

----------------------------------------------------------------------------
\* The number of transactions that the commands up to one may start.
LEMMA TxnsCount ==
    ASSUME NEW n \in 1..Len(Program)
    PROVE  /\ Cardinality(Txns(n)) \in Nat /\ Cardinality(Txns(n - 1)) \in Nat
           /\ Cardinality(Txns(n - 1)) <= Cardinality(Txns(n))
           /\ Program[n].do \in Transactions =>
                 Cardinality(Txns(n)) = Cardinality(Txns(n - 1)) + 1
           /\ Cardinality(Txns(n)) <= MaxTxns
  <1>0. Len(Program) \in Nat
    BY ProgramShape
  <1>1. \A m \in Nat : IsFiniteSet(Txns(m))
    <2> TAKE m \in Nat
    <2>1. IsFiniteSet(1..m)
      BY FS_Interval
    <2>2. QED
      BY <2>1, FS_Subset DEF Txns
  <1>2. /\ IsFiniteSet(Txns(n)) /\ IsFiniteSet(Txns(n - 1)) /\ IsFiniteSet(Txns(Len(Program)))
    BY <1>0, <1>1
  <1>3. Txns(n - 1) \subseteq Txns(n) /\ Txns(n) \subseteq Txns(Len(Program))
    BY <1>0 DEF Txns
  <1>4. /\ Cardinality(Txns(n)) \in Nat /\ Cardinality(Txns(n - 1)) \in Nat
        /\ Cardinality(Txns(Len(Program))) \in Nat
        /\ Cardinality(Txns(n - 1)) <= Cardinality(Txns(n))
        /\ Cardinality(Txns(n)) <= Cardinality(Txns(Len(Program)))
    BY <1>2, <1>3, FS_CardinalityType, FS_Subset
  <1>5. ASSUME Program[n].do \in Transactions
        PROVE  Cardinality(Txns(n)) = Cardinality(Txns(n - 1)) + 1
    <2>1. Txns(n) = Txns(n - 1) \cup {n} /\ n \notin Txns(n - 1)
      BY <1>0, <1>5 DEF Txns
    <2>2. QED
      BY <1>2, <2>1, FS_AddElement
  <1>6. Cardinality(Txns(Len(Program))) <= MaxTxns
    BY ProgramFits DEF Txns, Transactions
  <1>7. QED
    BY <1>4, <1>5, <1>6, BoundsAssumption

\* What is brought in for packages of one variant, and of none, is of that
\* variant or of none.
LEMMA BringFits ==
    ASSUME NEW S \in SUBSET Archive, NEW v \in Variants,
           \A p \in S : p[1] \in Lone \/ p[2] = v
    PROVE  /\ Bring(S) \subseteq Archive
           /\ \A p \in Bring(S) : p[1] \in Lone \/ p[2] = v
  <1>1. ASSUME NEW q \in Bring(S)
        PROVE  q \in Archive /\ (q[1] \in Lone \/ q[2] = v)
    <2>1. CASE q \in S
      BY <2>1
    <2>2. CASE q \notin S
      <3>1. PICK p \in S : q \in Requires(p)
        BY <1>1, <2>2 DEF Bring
      <3>2. p \in Archive /\ p[1] \in Stems /\ p[2] \in Variants
        BY <3>1, PkgShape DEF Archive, Variants
      <3>3. PICK t \in Needs[p[1]] : q = <<t, IF t \in Lone THEN "base" ELSE p[2]>>
        BY <3>1 DEF Requires
      <3>4. t \in Stems /\ (p[1] \in Lone => t \in Lone)
        BY <3>2, <3>3, NeedsAssumption
      <3>5. q[1] = t /\ q[2] = IF t \in Lone THEN "base" ELSE p[2]
        BY <3>3
      <3>6. q[1] \in Lone \/ q[2] = v
        BY <3>1, <3>4, <3>5
      <3>7. q \in Archive
        <4>1. CASE t \in Lone
          <5>1. q = <<t, "base">>
            BY <3>3, <4>1
          <5>2. QED
            BY <3>4, <5>1 DEF Archive, Pkgs, Variants
        <4>2. CASE t \notin Lone
          <5>1. q = <<t, p[2]>>
            BY <3>3, <4>2
          <5>2. QED
            BY <3>2, <3>4, <4>2, <5>1 DEF Archive, Pkgs
        <4>3. QED
          BY <4>1, <4>2
      <3>8. QED
        BY <3>6, <3>7
    <2>3. QED
      BY <2>1, <2>2
  <1>2. QED
    BY <1>1

\* The packages of one variant, and of none, do not conflict.
LEMMA OneVariantFits ==
    ASSUME NEW S, NEW v, \A p \in S : p[1] \in Lone \/ p[2] = v
    PROVE  ConflictFree(S)
  BY DEF ConflictFree, Conflict

\* The packages that provide base packages are -hwe ones or of no variant.
LEMMA ProvidersFit ==
    ASSUME NEW S \in SUBSET Archive, \A p \in S : p[2] = "base"
    PROVE  /\ Providers(S) \subseteq Archive
           /\ \A p \in Providers(S) : p[1] \in Lone \/ p[2] = "hwe"
  <1>1. ASSUME NEW q \in Providers(S)
        PROVE  q \in Archive /\ (q[1] \in Lone \/ q[2] = "hwe")
    <2>1. PICK p \in S : q = IF p[1] \in Lone THEN p ELSE Counterpart(p)
      BY DEF Providers
    <2>2. CASE p[1] \in Lone
      BY <2>1, <2>2
    <2>3. CASE p[1] \notin Lone
      <3>1. p[1] \in Stems /\ q = <<p[1], "hwe">>
        BY <2>1, <2>3, PkgShape DEF Archive, Counterpart, Other
      <3>2. QED
        BY <2>3, <3>1 DEF Archive, Pkgs, Variants
    <2>4. QED
      BY <2>2, <2>3
  <1>2. QED
    BY <1>1

\* The packages an apt-get of the checks wants do not conflict.
LEMMA WantsFit ==
    ASSUME NEW i \in 1..Len(Program), Program[i].of \subseteq Archive,
           NEW want \in Want(Program[i])
    PROVE  want \subseteq Archive /\ ConflictFree(want)
  <1> DEFINE c == Program[i]
  <1>1. CASE c.do = "install"
    <2>1. PICK p \in Pkgs : c.of = {p}
      BY <1>1, ProgramShape
    <2>2. want = Bring({p}) /\ {p} \in SUBSET Archive
      BY <1>1, <2>1 DEF Want
    <2>3. p[2] \in Variants
      BY <2>1, PkgShape DEF Variants
    <2>4. /\ want \subseteq Archive
          /\ \A q \in want : q[1] \in Lone \/ q[2] = p[2]
      BY <2>2, <2>3, BringFits
    <2>5. QED
      BY <2>4, OneVariantFits
  <1>2. CASE c.do = "depend"
    <2>1. want \in Solutions(c.of) /\ c.of \subseteq Stems \X {"base"}
      BY <1>2, ProgramShape DEF Want
    <2>2. c.of \in SUBSET Archive /\ \A p \in c.of : p[2] = "base"
      BY <2>1
    <2> HIDE DEF c
    <2>3. CASE want = {}
      BY <2>3 DEF ConflictFree
    <2>4. CASE want = Bring(c.of)
      <3>1. want \subseteq Archive /\ \A q \in want : q[1] \in Lone \/ q[2] = "base"
        BY <2>2, <2>4, BringFits DEF Variants
      <3>2. QED
        BY <3>1, OneVariantFits
    <2>5. CASE want = Bring(Providers(c.of))
      <3>1. /\ Providers(c.of) \in SUBSET Archive
            /\ \A q \in Providers(c.of) : q[1] \in Lone \/ q[2] = "hwe"
        BY <2>2, ProvidersFit
      <3>2. want \subseteq Archive /\ \A q \in want : q[1] \in Lone \/ q[2] = "hwe"
        BY <2>5, <3>1, BringFits DEF Variants
      <3>3. QED
        BY <3>2, OneVariantFits
    <2>6. QED
      BY <2>1, <2>3, <2>4, <2>5 DEF Solutions
  <1>3. CASE c.do \notin {"install", "depend"}
    BY <1>3 DEF Want, ConflictFree
  <1>4. QED
    BY <1>1, <1>2, <1>3

----------------------------------------------------------------------------
(***************************************************************************)
(* The count.                                                              *)
(***************************************************************************)
\* A command of the checks ends, well or badly.
LEMMA CommandCounted ==
    ASSUME Counted, verdict = "running", serial \in Nat, serial' = serial, ~ Waiting',
           ~ Waiting \/ cmd.do \in Transactions, Onward \/ Stops
    PROVE  Counted'
  <1>0. Len(Program) \in Nat /\ pc \in 1..Len(Program)
    BY ProgramShape DEF Counted
  <1>1. serial <= Cardinality(Txns(pc)) /\ Cardinality(Txns(pc)) \in Nat
    BY <1>0, TxnsCount DEF Counted
  <1>2. CASE Stops
    BY <1>0, <1>2 DEF Stops, Counted
  <1>3. CASE Onward
    <2>1. /\ pc' = pc + 1 /\ pc' - 1 = pc
          /\ verdict' = "running" => pc' <= Len(Program)
      BY <1>0, <1>3 DEF Onward
    <2>2. verdict' = "running" => serial' <= Cardinality(Txns(pc' - 1))
      BY <1>1, <2>1
    <2>3. pc' \in 1..Len(Program) + 1
      BY <1>0, <2>1
    <2>4. QED
      BY <2>1, <2>2, <2>3 DEF Counted
  <1>4. QED
    BY <1>2, <1>3

\* The host goes on, and the checks do not.
LEMMA HostCounted ==
    ASSUME Counted, UNCHANGED <<pc, verdict, serial>>, Waiting' <=> Waiting
    PROVE  Counted'
  BY DEF Counted, cmd

\* Every step keeps the count.
LEMMA CountedStep ==
    ASSUME Counted, TypeOK, [ChecksNext]_allVars
    PROVE  Counted'
  <1>0. serial \in Nat /\ User \notin Jobs
    BY Constants, BoundsAssumption DEF TypeOK
  <1>1. CASE Update \/ Outside \/ Reset \/ Collect \/ Look \/ Note \/ Judge
    <2>1. verdict = "running" /\ ~ Waiting /\ UNCHANGED vars
      BY <1>1 DEF Update, Outside, Reset, Collect, Look, Note, Judge, At
    <2>2. Onward \/ Stops
      BY <1>1 DEF Update, Outside, Reset, Collect, Look, Note, Judge, CommandFails, CommandSucceeds
    <2>3. serial' = serial /\ ~ Waiting'
      BY <2>1 DEF vars, countVars, txnVars, Waiting
    <2>4. QED
      BY <1>0, <2>1, <2>2, <2>3, CommandCounted
  <1>2. CASE AptGet
    <2>1. verdict = "running" /\ ~ Waiting /\ cmd.do \in Transactions
      BY <1>2 DEF AptGet, At, Transactions
    <2>2. CASE (Onward \/ Stops) /\ UNCHANGED vars
      <3>1. serial' = serial /\ ~ Waiting'
        BY <2>1, <2>2 DEF vars, countVars, txnVars, Waiting
      <3>2. QED
        BY <1>0, <2>1, <2>2, <3>1, CommandCounted
    <2>3. CASE \E want : Request(want, Gone(cmd, want)) /\ UNCHANGED checkVars
      <3>1. /\ serial' = serial + 1 /\ phase' = "pre" /\ owner' = User
            /\ UNCHANGED <<pc, verdict>>
        BY <2>3 DEF Request, Begin, checkVars
      <3>2. Waiting' /\ cmd' = cmd
        BY <3>1 DEF Waiting, cmd
      <3>3. pc \in 1..Len(Program) /\ serial <= Cardinality(Txns(pc - 1))
        BY <2>1, ProgramShape DEF Counted
      <3>4. serial' <= Cardinality(Txns(pc))
        BY <1>0, <2>1, <3>1, <3>3, TxnsCount DEF cmd
      <3>5. QED
        BY <2>1, <3>1, <3>2, <3>4 DEF Counted
    <2>4. QED
      BY <1>2, <2>2, <2>3 DEF AptGet, CommandFails, CommandSucceeds
  <1>3. CASE AptGetReturns
    <2>1. Waiting /\ serial' = serial /\ ~ Waiting'
      BY <1>3 DEF AptGetReturns, Exit, End, Waiting, countVars
    <2>2. verdict = "running" /\ cmd.do \in Transactions
      BY <2>1 DEF Counted
    <2>3. Onward \/ Stops
      BY <1>3 DEF AptGetReturns, CommandFails, CommandSucceeds
    <2>4. QED
      BY <1>0, <2>1, <2>2, <2>3, CommandCounted
  <1>4. CASE TxnGoesOn
    <2>1. UNCHANGED <<pc, verdict, serial>>
      BY <1>4 DEF TxnGoesOn, checkVars, pre_mode, DpkgRemove, DpkgInstall, DpkgDone,
                  post_mode, Spawn, Exit, countVars
    <2>2. Waiting' <=> Waiting
      BY <1>4 DEF TxnGoesOn, pre_mode, DpkgRemove, DpkgInstall, DpkgDone,
                  post_mode, Spawn, Exit, End, Waiting
    <2>3. QED
      BY <2>1, <2>2, HostCounted
  <1>5. CASE DpkgFails \/ Others \/ OthersEnd
    <2>1. UNCHANGED <<pc, verdict, serial>>
      BY <1>5 DEF DpkgFails, Others, OthersEnd, checkVars, DpkgFail, OtherLock,
                  OtherUnlock, countVars
    <2>2. Waiting' <=> Waiting
      BY <1>5 DEF DpkgFails, Others, OthersEnd, DpkgFail, OtherLock, OtherUnlock,
                  txnVars, Waiting
    <2>3. QED
      BY <2>1, <2>2, HostCounted
  <1>6. ASSUME NEW j \in Jobs, JobGoesOn(j)
        PROVE  Counted'
    <2>1. UNCHANGED <<pc, verdict, serial>>
      BY <1>6 DEF JobGoesOn, checkVars, JobStep, JobProbe, JobInstall, AptGetInstall,
                  JobEnds, Begin, countVars
    <2>2. Waiting' <=> Waiting
      BY <1>0, <1>6 DEF JobGoesOn, JobStep, JobProbe, JobInstall, AptGetInstall,
                        JobEnds, Begin, LocksFree, txnVars, Waiting
    <2>3. QED
      BY <2>1, <2>2, HostCounted
  <1>7. CASE UNCHANGED allVars
    <2>1. UNCHANGED <<pc, verdict, serial>> /\ (Waiting' <=> Waiting)
      BY <1>7 DEF allVars, checkVars, vars, countVars, txnVars, Waiting
    <2>2. QED
      BY <2>1, HostCounted
  <1>8. QED
    BY <1>1, <1>2, <1>3, <1>4, <1>5, <1>6, <1>7 DEF ChecksNext, CheckStep

----------------------------------------------------------------------------
(***************************************************************************)
(* The checks are an administrator.                                        *)
(***************************************************************************)
\* Every step of the checks is a step of the host, or none.
LEMMA HostStep ==
    ASSUME Counted, TypeOK, [ChecksNext]_allVars
    PROVE  [Next]_vars
  <1>1. CASE AptGet
    <2>1. CASE UNCHANGED vars
      BY <2>1
    <2>2. CASE /\ ~ Refused
               /\ \E want \in Want(cmd) : /\ want \cup Gone(cmd, want) # {}
                                          /\ Request(want, Gone(cmd, want))
      <3>1. PICK want \in Want(cmd) : /\ want \cup Gone(cmd, want) # {}
                                      /\ Request(want, Gone(cmd, want))
        BY <2>2
      <3>2. verdict = "running" /\ ~ Waiting /\ cmd.do \in Transactions
        BY <1>1 DEF AptGet, At, Transactions
      <3>3. pc \in 1..Len(Program) /\ serial <= Cardinality(Txns(pc - 1))
        BY <3>2, ProgramShape DEF Counted
      <3>4. serial < MaxTxns
        BY <3>2, <3>3, TxnsCount, BoundsAssumption, Constants DEF cmd, TypeOK
      <3>5. LocksFree /\ cmd.of \subseteq Archive
        BY <2>2 DEF Refused
      <3>6. want \subseteq Archive /\ ConflictFree(want)
        BY <3>1, <3>3, <3>5, WantsFit DEF cmd
      <3>7. CASE cmd.do = "remove"
        <4>1. want = {} /\ Gone(cmd, want) \subseteq installed
          BY <3>1, <3>7 DEF Want, Gone
        <4>2. UserRemove
          BY <3>1, <3>4, <3>5, <4>1 DEF UserRemove
        <4>3. QED
          BY <4>2 DEF Next
      <3>8. CASE cmd.do # "remove"
        <4>1. Gone(cmd, want) = Displaced(want)
          BY <3>8 DEF Gone
        <4>2. want # {}
          BY <3>1, <4>1 DEF Displaced
        <4>3. UserInstall
          BY <3>1, <3>4, <3>5, <3>6, <4>1, <4>2 DEF UserInstall
        <4>4. QED
          BY <4>3 DEF Next
      <3>9. QED
        BY <3>7, <3>8
    <2>3. QED
      BY <1>1, <2>1, <2>2 DEF AptGet
  <1>2. CASE Update \/ Outside \/ Reset \/ Collect \/ Look \/ Note \/ Judge
    BY <1>2 DEF Update, Outside, Reset, Collect, Look, Note, Judge
  <1>3. CASE AptGetReturns \/ TxnGoesOn \/ DpkgFails
    BY <1>3 DEF AptGetReturns, TxnGoesOn, DpkgFails, Next, TxnStep
  <1>4. CASE Others \/ OthersEnd \/ \E j \in Jobs : JobGoesOn(j)
    BY <1>4 DEF Others, OthersEnd, JobGoesOn, Next
  <1>5. CASE UNCHANGED allVars
    BY <1>5 DEF allVars
  <1>6. QED
    BY <1>1, <1>2, <1>3, <1>4, <1>5 DEF ChecksNext, CheckStep

\* The count is right at first.
LEMMA CountedInit ==
    ASSUME ChecksInit
    PROVE  Counted /\ TypeOK
  <1>1. TypeOK /\ phase = "idle" /\ serial = 0
    BY TypeInit DEF ChecksInit, Init
  <1>2. pc \in 1..Len(Program) /\ Len(Program) \in Nat
    BY ProgramShape DEF ChecksInit
  <1>3. 0 <= Cardinality(Txns(pc - 1))
    BY <1>2, TxnsCount
  <1>4. QED
    BY <1>1, <1>2, <1>3 DEF Counted, Waiting

\* The invariant of the checks: the types of the host and the count.
THEOREM ChecksInvariance == ChecksSpec => [](Counted /\ TypeOK)
  <1>1. Counted /\ TypeOK /\ [ChecksNext]_allVars => Counted' /\ TypeOK'
    BY CountedStep, HostStep, TypeStep
  <1>2. QED
    BY <1>1, CountedInit, PTL DEF ChecksSpec

\* The checks, with the apt-get commands they run, the locks and failures they
\* meet and the background jobs they start, are a use of the hook's host:
\* every property proved of the hook holds while test.sh runs.
THEOREM ChecksUseTheHook == ChecksSpec => Spec
  <1>1. ChecksInit => Init
    BY DEF ChecksInit
  <1>2. Counted /\ TypeOK /\ [ChecksNext]_allVars => [Next]_vars
    BY HostStep
  <1>3. QED
    BY <1>1, <1>2, ChecksInvariance, PTL DEF ChecksSpec, Spec

----------------------------------------------------------------------------
(***************************************************************************)
(* Type correctness.                                                       *)
(***************************************************************************)
\* Type correctness of the checks' own state, whatever packages are checked.
THEOREM ChecksTypeCorrect == ChecksSpec => []ChecksTypeOK
  <1>1. ChecksInit => ChecksTypeOK
    <2> SUFFICES ASSUME ChecksInit PROVE ChecksTypeOK
      OBVIOUS
    <2>1. pc \in 1..Len(Program) + 1
      BY CountedInit DEF Counted
    <2>2. faults \in 0..MaxFaults
      BY ChecksAssumption DEF ChecksInit
    <2>3. QED
      BY <2>1, <2>2 DEF ChecksInit, ChecksTypeOK
  <1>2. ASSUME ChecksTypeOK, TypeOK, Counted', [ChecksNext]_allVars
        PROVE  ChecksTypeOK'
    <2>1. pc' \in 1..Len(Program) + 1
      BY <1>2 DEF Counted
    <2>2. faults' \in 0..MaxFaults
      <3>1. CASE faults' = faults
        BY <1>2, <3>1 DEF ChecksTypeOK
      <3>2. CASE Fault
        BY <1>2, <3>2, ChecksAssumption DEF ChecksTypeOK, Fault
      <3>3. QED
        BY <1>2, <3>1, <3>2
        DEF ChecksNext, CheckStep, Update, Outside, AptGet, Reset, Collect, Look, Note, Judge,
            AptGetReturns, TxnGoesOn, DpkgFails, Others, OthersEnd, JobGoesOn, checkVars,
            allVars
    <2>3. UNCHANGED <<baseline, flag, verdict, hurt>> => ChecksTypeOK'
      BY <1>2, <2>1, <2>2 DEF ChecksTypeOK
    <2>4. Onward \/ Stops => verdict' \in {"running", "failed", "passed"}
      BY DEF Onward, Stops
    <2>5. CommandFails \/ CommandSucceeds => ChecksTypeOK'
      BY <1>2, <2>1, <2>2, <2>4 DEF CommandFails, CommandSucceeds, ChecksTypeOK
    <2>6. Looks => hurt' \in SUBSET {"command", "early"}
      BY <1>2 DEF Looks, ChecksTypeOK
    <2>7. CASE Update \/ Outside \/ AptGet \/ AptGetReturns
      BY <2>3, <2>5, <2>7 DEF Update, Outside, AptGet, AptGetReturns, checkVars
    <2>8. CASE Reset \/ Judge
      BY <1>2, <2>1, <2>2, <2>4, <2>8 DEF Reset, Judge, ChecksTypeOK
    <2>9. CASE Collect
      <3>1. baseline' \in SUBSET Archive
        BY <1>2, <2>9 DEF Collect, TypeOK
      <3>2. QED
        BY <1>2, <2>1, <2>2, <2>4, <2>9, <3>1 DEF Collect, ChecksTypeOK
    <2>10. CASE Look
      BY <1>2, <2>1, <2>2, <2>4, <2>6, <2>10 DEF Look, ChecksTypeOK
    <2>11. CASE Note
      <3>1. flag' \in BOOLEAN
        <4>1. PICK p \in cmd.of :
                flag' = CASE cmd.do = "any" -> flag /\ ~ is_installed(p)
                          [] cmd.do = "base_in" ->
                                flag \/ (Counterpart(p) \in baseline /\ ~ is_installed(p))
                          [] cmd.do = "base_out" ->
                                flag \/ (p \in baseline /\ is_installed(p))
                          [] cmd.do = "switched" -> flag \/ ~ is_installed(p)
                          [] cmd.do = "gone"     -> flag \/ is_installed(p)
          BY <2>11 DEF Note
        <4>2. cmd.do \in {"any", "base_in", "base_out", "switched", "gone"}
          BY <2>11 DEF Note, At
        <4>3. QED
          BY <4>1, <4>2
      <3>2. QED
        BY <1>2, <2>1, <2>2, <2>4, <2>6, <2>11, <3>1 DEF Note, ChecksTypeOK
    <2>12. CASE \/ TxnGoesOn \/ DpkgFails \/ Others \/ OthersEnd
                \/ \E j \in Jobs : JobGoesOn(j)
                \/ UNCHANGED allVars
      BY <2>3, <2>12 DEF TxnGoesOn, DpkgFails, Others, OthersEnd, JobGoesOn, checkVars,
                         allVars
    <2>13. QED
      BY <1>2, <2>7, <2>8, <2>9, <2>10, <2>11, <2>12 DEF ChecksNext, CheckStep
  <1>3. QED
    BY <1>1, <1>2, ChecksInvariance, PTL DEF ChecksSpec

----------------------------------------------------------------------------
(***************************************************************************)
(* Places in the line.  The three checks are told apart, and what every    *)
(* command of each is and what comes before it is stated for any list of   *)
(* packages; the lemmas that follow prove it piece by piece.               *)
(***************************************************************************)

\* The judgement of check-default.sh, the last command before check-idempotence.sh,
\* its judgement, and the last command before the pairs of check.sh.
DefaultEnd == Len(CheckDefault)
SwitchFrom == DefaultEnd + 1
SwitchEnd  == SwitchFrom + Len(CheckIdempotence)
PairsFrom  == SwitchEnd + 8

\* The command of remove_all_test_packages.
RemoveAll == Cmd("remove", Pkgs, TRUE)

\* There are two judgements.
Judgements == \A i \in 1..Len(Program) :
    Program[i].do = "judge" => i \in {DefaultEnd, SwitchEnd}

\* check-default.sh: after remove_all_test_packages it depends on packages and looks
\* at the host, the looks for any base package last and at every stem.
DefaultFacts ==
    /\ DefaultEnd \in Nat /\ DefaultEnd >= 4
    /\ Program[1].do = "update" /\ Program[2] = RemoveAll
    /\ Program[DefaultEnd].do = "judge"
    /\ \A i \in 3..(DefaultEnd - 1) :
          /\ Program[i].do \in {"depend", "begin_any", "out", "any"}
          /\ Program[i].do = "out" => \A p \in Program[i].of : p[2] = "hwe"
    /\ \A i, k \in 3..(DefaultEnd - 1) : i < k /\ Program[i].do = "any" =>
          Program[k].do \in {"out", "any"}
    /\ \A s \in Stems : \E k \in 3..(DefaultEnd - 1) :
          Program[k].do = "any" /\ Program[k].of = {<<s, "base">>}
    /\ \A n \in 1..Len(ExtNeeds) : \E k \in 3..(DefaultEnd - 1) :
          Program[k].do = "depend" /\ Program[k].of = ExtNeeds[n] \X {"base"}

\* check-idempotence.sh: image-factory, the baseline, the switch, and one look after
\* another until the judgement.
SwitchFacts ==
    /\ SwitchEnd \in Nat /\ SwitchEnd >= SwitchFrom + 8
    /\ Program[SwitchFrom].do = "outside"
    /\ Program[SwitchFrom + 1].do = "update"
    /\ Program[SwitchFrom + 2].do = "depend"
    /\ Program[SwitchFrom + 2].of = FactoryNeeds \X {"base"}
    /\ Program[SwitchFrom + 2].mayFail = FALSE
    /\ Program[SwitchFrom + 3].do = "collect"
    /\ Program[SwitchFrom + 4].do = "install"
    /\ Program[SwitchFrom + 4].of = {<<Utils, "hwe">>}
    /\ Program[SwitchFrom + 4].mayFail = FALSE
    /\ Program[SwitchFrom + 5].do = "begin"
    /\ \A i \in (SwitchFrom + 6)..(SwitchEnd - 1) :
          \/ Program[i].do = "base_in" /\ \E s \in Stems : Program[i].of = {<<s, "hwe">>}
          \/ Program[i].do = "base_out" /\ \E s \in Stems : Program[i].of = {<<s, "base">>}
          \/ Program[i].do = "switched" /\ Program[i].of = {<<Utils, "hwe">>}
          \/ Program[i].do = "gone" /\ Program[i].of = {<<Utils, "base">>}
    /\ Program[SwitchEnd - 2].do = "switched"
    /\ Program[SwitchEnd - 1].do = "gone"
    /\ Program[SwitchEnd].do = "judge"
    /\ \A s \in Stems : \E k \in (SwitchFrom + 6)..(SwitchEnd - 1) :
          Program[k].do = "base_in" /\ Program[k].of = {<<s, "hwe">>}

\* check.sh: what may come after what.  Nothing has to come before a removal, an
\* install comes right after all packages were removed, and it is looked for the
\* package installed and then for packages of the other variant.
Follows(b, c) ==
    /\ c.do \in {"remove", "install", "in", "out"}
    /\ c.do = "install" => b = RemoveAll
    /\ c.do = "in" => b.do = "install" /\ b.of = c.of
    /\ c.do = "out" => \E t \in Stems, v \in Variants :
          /\ c.of = {<<t, v>>}
          /\ \/ b.do = "in" /\ \A p \in b.of : p[2] # v
             \/ b.do = "out" /\ \A p \in b.of : p[2] = v

\* Lines in which every command may come after the one before.
Chained(l) == \A i \in 2..Len(l) : Follows(l[i - 1], l[i])

\* The loop of check.sh.
Pairs == ForEach([s \in Stems |-> CheckPair(s)])

\* check-shdeps.sh, check-upgrade.sh and check.sh.
PairFacts ==
    /\ Program[SwitchEnd + 1].do = "outside" /\ Program[SwitchEnd + 2].do = "update"
    /\ Program[SwitchEnd + 3].do = "depend"
    /\ Program[SwitchEnd + 3].of = ShdepsNeeds \X {"base"}
    /\ Program[SwitchEnd + 4].do = "outside" /\ Program[SwitchEnd + 5].do = "outside"
    /\ Program[SwitchEnd + 6].do = "update" /\ Program[SwitchEnd + 7].do = "outside"
    /\ Program[SwitchEnd + 8].do = "update"
    /\ Len(Program) \in Nat /\ Len(Program) >= PairsFrom
    /\ \A i \in (PairsFrom + 1)..Len(Program) : Follows(Program[i - 1], Program[i])

\* What is known of the line.
Facts == Judgements /\ DefaultFacts /\ SwitchFacts /\ PairFacts

\* The commands of one line and of another after it.
LEMMA IndexedIn ==
    ASSUME NEW A, NEW s \in Seq(A), NEW t \in Seq(A)
    PROVE  /\ s \o t \in Seq(A)
           /\ Len(s \o t) = Len(s) + Len(t) /\ Len(s) \in Nat /\ Len(t) \in Nat
           /\ \A i \in 1..Len(s) : (s \o t)[i] = s[i]
           /\ \A i \in 1..Len(t) : (s \o t)[Len(s) + i] = t[i]
  OBVIOUS

\* The same for lines of the checks.
LEMMA Indexed ==
    \A s, t \in Seq(Shaped) :
        /\ s \o t \in Seq(Shaped)
        /\ Len(s \o t) = Len(s) + Len(t) /\ Len(s) \in Nat /\ Len(t) \in Nat
        /\ \A i \in 1..Len(s) : (s \o t)[i] = s[i]
        /\ \A i \in 1..Len(t) : (s \o t)[Len(s) + i] = t[i]
  OBVIOUS

\* A loop over the packages, of commands of one kind.
LEMMA ForEachTyped ==
    ASSUME NEW A, NEW piece \in [Stems -> Seq(A)]
    PROVE  ForEach(piece) \in Seq(A)
  <1>1. Len(PACKAGES) \in Nat /\ \A i \in 1..Len(PACKAGES) : PACKAGES[i] \in Stems
    BY ChecksAssumption
  <1>2. [i \in 1..Len(PACKAGES) |-> piece[PACKAGES[i]]] \in Seq(Seq(A))
    BY <1>1
  <1>3. QED
    BY <1>2, FlattenTyped DEF ForEach

\* The list of packages.
LEMMA ListTyped == Len(PACKAGES) \in Nat /\ \A i \in 1..Len(PACKAGES) : PACKAGES[i] \in Stems
  BY ChecksAssumption

\* It has what the piece of any package has.
LEMMA ForEachHas ==
    ASSUME NEW A, NEW piece \in [Stems -> Seq(A)], NEW s \in Stems, NEW m \in 1..Len(piece[s])
    PROVE  \E k \in 1..Len(ForEach(piece)) : ForEach(piece)[k] = piece[s][m]
  <1> DEFINE q == [i \in 1..Len(PACKAGES) |-> piece[PACKAGES[i]]]
  <1>1. Len(PACKAGES) \in Nat /\ \A i \in 1..Len(PACKAGES) : PACKAGES[i] \in Stems
    BY ListTyped
  <1>2. q \in Seq(Seq(A)) /\ Len(q) = Len(PACKAGES)
    BY <1>1
  <1>3. PICK i \in 1..Len(PACKAGES) : PACKAGES[i] = s
    BY ChecksAssumption
  <1>4. q[i] = piece[s] /\ i \in 1..Len(q) /\ m \in 1..Len(q[i])
    <2>1. q[i] = piece[PACKAGES[i]]
      OBVIOUS
    <2> HIDE DEF q
    <2>2. QED
      BY <1>2, <1>3, <2>1
  <1> HIDE DEF q
  <1>5. \E k \in 1..Len(FlattenSeq(q)) : FlattenSeq(q)[k] = q[i][m]
    BY <1>2, <1>4, FlattenHas
  <1> USE DEF q
  <1>6. QED
    BY <1>4, <1>5 DEF ForEach

\* The looks of check-default.sh.
BaseLooks == {c \in Shaped : \/ c.do = "any"
                             \/ c.do = "out" /\ \A p \in c.of : p[2] = "hwe"}

\* The dependencies of external packages.
Depends == {c \in Shaped : c.do = "depend"}

\* A command of a kind is one of its line.
LEMMA OneOf ==
    ASSUME NEW do \in Doings, NEW S \in SUBSET Pkgs, NEW mayFail \in BOOLEAN,
           do # "install", do = "depend" => S \subseteq Stems \X {"base"}
    PROVE  /\ Cmd(do, S, mayFail) \in Shaped
           /\ Cmd(do, S, mayFail).do = do /\ Cmd(do, S, mayFail).of = S
           /\ Cmd(do, S, mayFail).mayFail = mayFail
  BY DEF Cmd, Shaped

\* One command.
LEMMA One ==
    ASSUME NEW A, NEW x \in A
    PROVE  /\ <<x>> \in Seq(A) /\ Len(<<x>>) = 1 /\ <<x>>[1] = x
  OBVIOUS

\* One command, and one after another.
LEMMA OneAndTwo ==
    ASSUME NEW A, NEW x \in A, NEW y \in A
    PROVE  /\ <<x>> \in Seq(A) /\ Len(<<x>>) = 1 /\ <<x>>[1] = x
           /\ <<x>> \o <<y>> \in Seq(A) /\ Len(<<x>> \o <<y>>) = 2
           /\ (<<x>> \o <<y>>)[1] = x /\ (<<x>> \o <<y>>)[2] = y
  <1>1. /\ <<x>> \in Seq(A) /\ Len(<<x>>) = 1 /\ <<x>>[1] = x
        /\ <<y>> \in Seq(A) /\ Len(<<y>>) = 1 /\ <<y>>[1] = y
    BY One
  <1>2. \A s, t \in Seq(A) : Len(s) = 1 /\ Len(t) = 1 =>
            /\ s \o t \in Seq(A) /\ Len(s \o t) = 2
            /\ (s \o t)[1] = s[1] /\ (s \o t)[2] = t[1]
    <2> TAKE s, t \in Seq(A)
    <2> HAVE Len(s) = 1 /\ Len(t) = 1
    <2>1. 1 \in 1..Len(s) /\ 1 \in 1..Len(t) /\ Len(s) + 1 = 2
      OBVIOUS
    <2>2. s \o t \in Seq(A) /\ Len(s \o t) = 2
      BY IndexedIn
    <2>3. (s \o t)[1] = s[1] /\ (s \o t)[Len(s) + 1] = t[1]
      BY <2>1, IndexedIn
    <2>4. QED
      BY <2>1, <2>2, <2>3
  <1>3. QED
    BY <1>1, <1>2, Zenon

\* The loops of check-default.sh.
LEMMA DefaultLoops ==
    /\ FlattenSeq([n \in 1..Len(ExtNeeds) |-> depend(ExtNeeds[n])]) \in Seq(Depends)
    /\ \A n \in 1..Len(ExtNeeds) :
          \E k \in 1..Len(FlattenSeq([m \in 1..Len(ExtNeeds) |-> depend(ExtNeeds[m])])) :
             FlattenSeq([m \in 1..Len(ExtNeeds) |-> depend(ExtNeeds[m])])[k]
                = Cmd("depend", ExtNeeds[n] \X {"base"}, FALSE)
  <1> DEFINE q == [m \in 1..Len(ExtNeeds) |-> depend(ExtNeeds[m])]
  <1>1. Len(ExtNeeds) \in Nat /\ \A n \in 1..Len(ExtNeeds) : ExtNeeds[n] \in SUBSET Stems
    BY ChecksAssumption
  <1>2. ASSUME NEW n \in 1..Len(ExtNeeds)
        PROVE  /\ depend(ExtNeeds[n]) \in Seq(Depends)
               /\ Len(depend(ExtNeeds[n])) = 1
               /\ depend(ExtNeeds[n])[1] = Cmd("depend", ExtNeeds[n] \X {"base"}, FALSE)
    <2> DEFINE S == ExtNeeds[n] \X {"base"}
    <2>1. S \in SUBSET Pkgs /\ S \subseteq Stems \X {"base"}
      BY <1>1 DEF Pkgs, Variants
    <2> HIDE DEF S
    <2>2. Cmd("depend", S, FALSE) \in Depends
      <3>1. "depend" \in Doings /\ "depend" # "install"
        BY DEF Doings
      <3>2. Cmd("depend", S, FALSE) \in Shaped /\ Cmd("depend", S, FALSE).do = "depend"
        BY <2>1, <3>1, OneOf
      <3>3. QED
        BY <3>2 DEF Depends
    <2>3. depend(ExtNeeds[n]) = <<Cmd("depend", S, FALSE)>>
      BY DEF depend, S
    <2>4. /\ depend(ExtNeeds[n]) \in Seq(Depends)
          /\ Len(depend(ExtNeeds[n])) = 1
          /\ depend(ExtNeeds[n])[1] = Cmd("depend", S, FALSE)
      BY <2>2, <2>3, OneAndTwo
    <2>5. QED
      BY <2>4 DEF S
  <1>3. q \in Seq(Seq(Depends)) /\ Len(q) = Len(ExtNeeds)
    <2>1. \A n \in 1..Len(ExtNeeds) : depend(ExtNeeds[n]) \in Seq(Depends)
      BY <1>2
    <2>2. QED
      BY <1>1, <2>1
  <1>4. \A n \in 1..Len(ExtNeeds) : q[n] = depend(ExtNeeds[n])
    OBVIOUS
  <1> HIDE DEF q
  <1>5. ASSUME NEW n \in 1..Len(ExtNeeds)
        PROVE  \E k \in 1..Len(FlattenSeq(q)) :
                  FlattenSeq(q)[k] = Cmd("depend", ExtNeeds[n] \X {"base"}, FALSE)
    <2>1. n \in 1..Len(q) /\ Len(q[n]) = 1
      BY <1>2, <1>3, <1>4
    <2>2. \E k \in 1..Len(FlattenSeq(q)) : FlattenSeq(q)[k] = q[n][1]
      <3>1. 1 \in 1..Len(q[n])
        BY <2>1
      <3>2. q \in Seq(Seq(Depends)) /\ n \in 1..Len(q)
        BY <1>3, <2>1
      <3> HIDE DEF Depends
      <3>3. QED
        BY <3>1, <3>2, FlattenHas
    <2>3. QED
      BY <1>2, <1>4, <2>2
  <1>6. FlattenSeq(q) \in Seq(Depends)
    BY <1>3, FlattenTyped
  <1> USE DEF q
  <1>7. QED
    BY <1>5, <1>6

\* The loop over the packages, with its two looks for each.
LEMMA TwoLooks ==
    ASSUME NEW A, NEW look \in [Stems -> Seq(A)], \A s \in Stems : Len(look[s]) = 2
    PROVE  /\ ForEach(look) \in Seq(A)
           /\ \A s \in Stems :
                 /\ \E k \in 1..Len(ForEach(look)) : ForEach(look)[k] = look[s][1]
                 /\ \E k \in 1..Len(ForEach(look)) : ForEach(look)[k] = look[s][2]
  <1>1. ForEach(look) \in Seq(A)
    BY ForEachTyped
  <1>2. ASSUME NEW s \in Stems
        PROVE  /\ \E k \in 1..Len(ForEach(look)) : ForEach(look)[k] = look[s][1]
               /\ \E k \in 1..Len(ForEach(look)) : ForEach(look)[k] = look[s][2]
    <2>0. Len(look[s]) = 2
      OBVIOUS
    <2>1. 1 \in 1..Len(look[s]) /\ 2 \in 1..Len(look[s])
      BY <2>0
    <2>2. \E k \in 1..Len(ForEach(look)) : ForEach(look)[k] = look[s][1]
      BY <2>1, ForEachHas
    <2>3. \E k \in 1..Len(ForEach(look)) : ForEach(look)[k] = look[s][2]
      BY <2>1, ForEachHas
    <2>4. QED
      BY <2>2, <2>3, Zenon
  <1>3. QED
    BY <1>1, <1>2

\* The loops of check-default.sh over the external packages and over the list.
ExtLine == FlattenSeq([n \in 1..Len(ExtNeeds) |-> depend(ExtNeeds[n])])
DefaultLooks == ForEach([s \in Stems |-> See("out", s, "hwe") \o See("any", s, "base")])

\* The looks of check-default.sh at every package.
LEMMA DefaultLooksShape ==
    /\ DefaultLooks \in Seq(BaseLooks)
    /\ \A s \in Stems : \E k \in 1..Len(DefaultLooks) :
          DefaultLooks[k] = Cmd("any", {<<s, "base">>}, FALSE)
  <1> DEFINE c == [s \in Stems |-> Cmd("out", {<<s, "hwe">>}, FALSE)]
             d == [s \in Stems |-> Cmd("any", {<<s, "base">>}, FALSE)]
             look == [s \in Stems |-> <<c[s]>> \o <<d[s]>>]
  <1>1. ASSUME NEW s \in Stems
        PROVE  /\ Cmd("out", {<<s, "hwe">>}, FALSE) \in BaseLooks
               /\ Cmd("any", {<<s, "base">>}, FALSE) \in BaseLooks
    <2>1. {<<s, "hwe">>} \in SUBSET Pkgs /\ {<<s, "base">>} \in SUBSET Pkgs
      BY DEF Pkgs, Variants
    <2>2. "out" \in Doings /\ "any" \in Doings
      BY DEF Doings
    <2>3. /\ Cmd("out", {<<s, "hwe">>}, FALSE) \in Shaped
          /\ Cmd("out", {<<s, "hwe">>}, FALSE).do = "out"
          /\ Cmd("out", {<<s, "hwe">>}, FALSE).of = {<<s, "hwe">>}
      BY <2>1, <2>2, OneOf
    <2>4. /\ Cmd("any", {<<s, "base">>}, FALSE) \in Shaped
          /\ Cmd("any", {<<s, "base">>}, FALSE).do = "any"
      BY <2>1, <2>2, OneOf
    <2>5. \A p \in Cmd("out", {<<s, "hwe">>}, FALSE).of : p[2] = "hwe"
      <3>1. \A p \in {<<s, "hwe">>} : p[2] = "hwe"
        OBVIOUS
      <3>2. QED
        BY <2>3, <3>1, Zenon
    <2>6. QED
      BY <2>3, <2>4, <2>5 DEF BaseLooks
  <1>2. \A s \in Stems : c[s] \in BaseLooks /\ d[s] \in BaseLooks
    BY <1>1
  <1>3. \A s \in Stems : d[s] = Cmd("any", {<<s, "base">>}, FALSE)
    OBVIOUS
  <1>4. DefaultLooks = ForEach(look)
    <2>1. look = [s \in Stems |-> See("out", s, "hwe") \o See("any", s, "base")]
      BY DEF See
    <2>2. QED
      BY <2>1, Zenon DEF DefaultLooks
  <1>5. /\ ForEach(look) \in Seq(BaseLooks)
        /\ \A s \in Stems : \E k \in 1..Len(ForEach(look)) : ForEach(look)[k] = d[s]
    <2> HIDE DEF c, d
    <2>1. \A s \in Stems : /\ look[s] \in Seq(BaseLooks) /\ Len(look[s]) = 2
                           /\ look[s][1] = c[s] /\ look[s][2] = d[s]
      BY <1>2, OneAndTwo
    <2>2. look \in [Stems -> Seq(BaseLooks)]
      BY <2>1
    <2> HIDE DEF look
    <2>3. /\ ForEach(look) \in Seq(BaseLooks)
          /\ \A s \in Stems : \E k \in 1..Len(ForEach(look)) :
                ForEach(look)[k] = look[s][2]
      BY <2>1, <2>2, TwoLooks
    <2>4. QED
      BY <2>1, <2>3
  <1> HIDE DEF look, d
  <1>6. QED
    BY <1>3, <1>4, <1>5

\* Where the commands of check-default.sh are.
LEMMA DefaultPlaces ==
    /\ ExtLine \in Seq(Depends) /\ DefaultLooks \in Seq(BaseLooks)
    /\ DefaultEnd = 4 + Len(ExtLine) + Len(DefaultLooks)
    /\ CheckDefault[1] = Cmd("update", {}, FALSE)
    /\ CheckDefault[2] = RemoveAll
    /\ \A i \in 1..Len(ExtLine) : CheckDefault[2 + i] = ExtLine[i]
    /\ CheckDefault[3 + Len(ExtLine)] = Cmd("begin_any", {}, FALSE)
    /\ \A i \in 1..Len(DefaultLooks) : CheckDefault[3 + Len(ExtLine) + i] = DefaultLooks[i]
    /\ CheckDefault[4 + Len(ExtLine) + Len(DefaultLooks)] = Cmd("judge", {}, FALSE)
  <1> DEFINE a == update \o remove_all_test_packages
             b == a \o ExtLine
             beg == <<Cmd("begin_any", {}, FALSE)>>
             jud == <<Cmd("judge", {}, FALSE)>>
             x == beg \o DefaultLooks
             y == x \o jud
  <1>1. ExtLine \in Seq(Depends) /\ DefaultLooks \in Seq(BaseLooks)
    BY DefaultLoops, DefaultLooksShape DEF ExtLine
  <1>2. ExtLine \in Seq(Shaped) /\ DefaultLooks \in Seq(Shaped)
    <2>1. Depends \subseteq Shaped /\ BaseLooks \subseteq Shaped
      BY DEF Depends, BaseLooks
    <2>2. QED
      BY <1>1, <2>1, LargerSeq
  <1>3. /\ update \in Seq(Shaped) /\ Len(update) = 1 /\ update[1] = Cmd("update", {}, FALSE)
        /\ remove_all_test_packages \in Seq(Shaped) /\ Len(remove_all_test_packages) = 1
        /\ remove_all_test_packages[1] = RemoveAll
        /\ beg \in Seq(Shaped) /\ Len(beg) = 1 /\ beg[1] = Cmd("begin_any", {}, FALSE)
        /\ jud \in Seq(Shaped) /\ Len(jud) = 1 /\ jud[1] = Cmd("judge", {}, FALSE)
    BY Elementary DEF update, remove_all_test_packages, RemoveAll
  <1>4. CheckDefault = b \o y
    BY DEF CheckDefault, verify_only_base_variants, ExtLine, DefaultLooks
  <1> HIDE DEF beg, jud
  <1>5. a \in Seq(Shaped) /\ Len(a) = 2 /\ a[1] = update[1] /\ a[2] = RemoveAll
    <2>1. /\ a \in Seq(Shaped) /\ Len(a) = Len(update) + Len(remove_all_test_packages)
          /\ \A i \in 1..Len(update) : a[i] = update[i]
          /\ \A i \in 1..Len(remove_all_test_packages) :
                a[Len(update) + i] = remove_all_test_packages[i]
      BY <1>3, Indexed, Zenon
    <2>2. 1 \in 1..Len(update) /\ 1 \in 1..Len(remove_all_test_packages) /\ Len(update) + 1 = 2
      BY <1>3
    <2> HIDE DEF a
    <2>3. QED
      BY <1>3, <2>1, <2>2
  <1> HIDE DEF a
  <1>6. /\ b \in Seq(Shaped) /\ Len(b) = 2 + Len(ExtLine) /\ Len(ExtLine) \in Nat
        /\ b[1] = update[1] /\ b[2] = RemoveAll
        /\ \A i \in 1..Len(ExtLine) : b[2 + i] = ExtLine[i]
    <2>1. /\ b \in Seq(Shaped) /\ Len(b) = Len(a) + Len(ExtLine) /\ Len(ExtLine) \in Nat
          /\ \A i \in 1..Len(a) : b[i] = a[i]
          /\ \A i \in 1..Len(ExtLine) : b[Len(a) + i] = ExtLine[i]
      BY <1>2, <1>5, Indexed, Zenon
    <2>2. 1 \in 1..Len(a) /\ 2 \in 1..Len(a)
      BY <1>5
    <2> HIDE DEF b
    <2>3. QED
      BY <1>5, <2>1, <2>2
  <1> HIDE DEF b
  <1>7. /\ x \in Seq(Shaped) /\ Len(x) = 1 + Len(DefaultLooks) /\ Len(DefaultLooks) \in Nat
        /\ x[1] = beg[1]
        /\ \A i \in 1..Len(DefaultLooks) : x[1 + i] = DefaultLooks[i]
    <2>1. /\ x \in Seq(Shaped) /\ Len(x) = Len(beg) + Len(DefaultLooks)
          /\ Len(DefaultLooks) \in Nat
          /\ \A i \in 1..Len(beg) : x[i] = beg[i]
          /\ \A i \in 1..Len(DefaultLooks) : x[Len(beg) + i] = DefaultLooks[i]
      BY <1>2, <1>3, Indexed, Zenon
    <2>2. 1 \in 1..Len(beg)
      BY <1>3
    <2> HIDE DEF x
    <2>3. QED
      BY <1>3, <2>1, <2>2
  <1> HIDE DEF x
  <1>8. /\ y \in Seq(Shaped) /\ Len(y) = 2 + Len(DefaultLooks)
        /\ \A i \in 1..Len(x) : y[i] = x[i]
        /\ y[2 + Len(DefaultLooks)] = jud[1]
    <2>1. /\ y \in Seq(Shaped) /\ Len(y) = Len(x) + Len(jud)
          /\ \A i \in 1..Len(x) : y[i] = x[i]
          /\ \A i \in 1..Len(jud) : y[Len(x) + i] = jud[i]
      BY <1>3, <1>7, Indexed, Zenon
    <2>2. 1 \in 1..Len(jud) /\ Len(x) + 1 = 2 + Len(DefaultLooks)
      BY <1>3, <1>7
    <2> HIDE DEF y
    <2>3. QED
      BY <1>3, <1>7, <2>1, <2>2
  <1> HIDE DEF y
  <1>9. /\ Len(CheckDefault) = Len(b) + Len(y)
        /\ \A i \in 1..Len(b) : CheckDefault[i] = b[i]
        /\ \A i \in 1..Len(y) : CheckDefault[Len(b) + i] = y[i]
    BY <1>4, <1>6, <1>8, Indexed, Zenon
  <1>10. \A i \in 1..Len(ExtLine) : CheckDefault[2 + i] = ExtLine[i]
    BY <1>6, <1>9
  <1>11. CheckDefault[1] = update[1] /\ CheckDefault[2] = RemoveAll
    BY <1>6, <1>9
  <1>12. CheckDefault[3 + Len(ExtLine)] = beg[1]
    <2>1. 1 \in 1..Len(y) /\ 1 \in 1..Len(x) /\ Len(b) + 1 = 3 + Len(ExtLine)
      BY <1>6, <1>7, <1>8
    <2>2. QED
      BY <1>7, <1>8, <1>9, <2>1
  <1>13. ASSUME NEW i \in 1..Len(DefaultLooks)
         PROVE  CheckDefault[3 + Len(ExtLine) + i] = DefaultLooks[i]
    <2>1. /\ 1 + i \in 1..Len(y) /\ 1 + i \in 1..Len(x)
          /\ Len(b) + (1 + i) = 3 + Len(ExtLine) + i
      BY <1>6, <1>7, <1>8
    <2>2. CheckDefault[Len(b) + (1 + i)] = y[1 + i] /\ y[1 + i] = x[1 + i]
          /\ x[1 + i] = DefaultLooks[i]
      BY <1>7, <1>8, <1>9, <2>1
    <2>3. QED
      BY <2>1, <2>2
  <1>14. CheckDefault[4 + Len(ExtLine) + Len(DefaultLooks)] = jud[1]
    <2>1. /\ 2 + Len(DefaultLooks) \in 1..Len(y)
          /\ Len(b) + (2 + Len(DefaultLooks)) = 4 + Len(ExtLine) + Len(DefaultLooks)
      BY <1>6, <1>7, <1>8
    <2>2. CheckDefault[Len(b) + (2 + Len(DefaultLooks))] = y[2 + Len(DefaultLooks)]
      BY <1>9, <2>1
    <2>3. QED
      BY <1>8, <2>1, <2>2
  <1>15. DefaultEnd = 4 + Len(ExtLine) + Len(DefaultLooks)
    BY <1>6, <1>7, <1>8, <1>9 DEF DefaultEnd
  <1>16. QED
    BY <1>1, <1>3, <1>10, <1>11, <1>12, <1>13, <1>14, <1>15

\* The looks of check-idempotence.sh.
SwitchLooks ==
    {c \in Shaped : \/ c.do = "base_in" /\ \E s \in Stems : c.of = {<<s, "hwe">>}
                    \/ c.do = "base_out" /\ \E s \in Stems : c.of = {<<s, "base">>}}

\* The loop of check-idempotence.sh over the list.
SwitchLine == ForEach([s \in Stems |-> See("base_in", s, "hwe") \o See("base_out", s, "base")])

\* A command after a line.
LEMMA Extended ==
    ASSUME NEW s \in Seq(Shaped), NEW x \in Shaped
    PROVE  /\ s \o <<x>> \in Seq(Shaped) /\ Len(s \o <<x>>) = Len(s) + 1 /\ Len(s) \in Nat
           /\ \A i \in 1..Len(s) : (s \o <<x>>)[i] = s[i]
           /\ (s \o <<x>>)[Len(s) + 1] = x
  <1>1. <<x>> \in Seq(Shaped) /\ Len(<<x>>) = 1 /\ <<x>>[1] = x /\ 1 \in 1..Len(<<x>>)
    BY One
  <1> DEFINE t == <<x>>
  <1>2. /\ s \o t \in Seq(Shaped) /\ Len(s \o t) = Len(s) + Len(t) /\ Len(s) \in Nat
        /\ \A i \in 1..Len(s) : (s \o t)[i] = s[i]
        /\ \A i \in 1..Len(t) : (s \o t)[Len(s) + i] = t[i]
    BY <1>1, Indexed, Zenon
  <1> HIDE DEF t
  <1>3. Len(t) = 1 /\ t[1] = x /\ 1 \in 1..Len(t)
    BY <1>1 DEF t
  <1>4. /\ s \o t \in Seq(Shaped) /\ Len(s \o t) = Len(s) + 1 /\ Len(s) \in Nat
        /\ \A i \in 1..Len(s) : (s \o t)[i] = s[i]
        /\ (s \o t)[Len(s) + 1] = x
    BY <1>2, <1>3
  <1>5. QED
    BY <1>4 DEF t

\* The commands of check-shdeps.sh and of check-upgrade.sh.
LEMMA BetweenLine ==
    /\ CheckShdeps[1] = Cmd("outside", {}, FALSE) /\ CheckShdeps[2] = Cmd("update", {}, FALSE)
    /\ CheckShdeps[3] = Cmd("depend", ShdepsNeeds \X {"base"}, FALSE)
    /\ CheckShdeps[4] = Cmd("outside", {}, FALSE)
    /\ CheckUpgrade[1] = Cmd("outside", {}, FALSE) /\ CheckUpgrade[2] = Cmd("update", {}, FALSE)
    /\ CheckUpgrade[3] = Cmd("outside", {}, FALSE)
    /\ update[1] = Cmd("update", {}, FALSE) /\ outside[1] = Cmd("outside", {}, FALSE)
  <1> DEFINE o == Cmd("outside", {}, FALSE)
             u == Cmd("update", {}, FALSE)
             d == Cmd("depend", ShdepsNeeds \X {"base"}, FALSE)
             two == <<o>> \o <<u>>
             three == two \o <<d>>
  <1>1. o \in Shaped /\ u \in Shaped /\ d \in Shaped
    <2>1. /\ ShdepsNeeds \X {"base"} \in SUBSET Pkgs
          /\ ShdepsNeeds \X {"base"} \subseteq Stems \X {"base"}
      BY ChecksAssumption DEF Pkgs, Variants
    <2>2. QED
      BY <2>1, OneOf DEF Doings
  <1>2. /\ CheckShdeps = three \o <<o>> /\ CheckUpgrade = two \o <<o>>
        /\ update = <<u>> /\ outside = <<o>>
    BY DEF CheckShdeps, CheckUpgrade, update, outside, depend
  <1> HIDE DEF o, u, d
  <1>3. two \in Seq(Shaped) /\ Len(two) = 2 /\ two[1] = o /\ two[2] = u
    BY <1>1, OneAndTwo
  <1> HIDE DEF two
  <1>4. /\ three \in Seq(Shaped) /\ Len(three) = 3
        /\ three[1] = o /\ three[2] = u /\ three[3] = d
    <2>1. /\ three \in Seq(Shaped) /\ Len(three) = Len(two) + 1
          /\ \A i \in 1..Len(two) : three[i] = two[i]
          /\ three[Len(two) + 1] = d
      BY <1>1, <1>3, Extended
    <2> HIDE DEF three
    <2>2. QED
      BY <1>3, <2>1
  <1> HIDE DEF three
  <1>5. /\ CheckUpgrade[1] = o /\ CheckUpgrade[2] = u /\ CheckUpgrade[3] = o
    <2>1. /\ \A i \in 1..Len(two) : CheckUpgrade[i] = two[i]
          /\ CheckUpgrade[Len(two) + 1] = o
      BY <1>1, <1>2, <1>3, Extended
    <2>2. QED
      BY <1>3, <2>1
  <1>6. /\ CheckShdeps[1] = o /\ CheckShdeps[2] = u /\ CheckShdeps[3] = d
        /\ CheckShdeps[4] = o
    <2>1. /\ \A i \in 1..Len(three) : CheckShdeps[i] = three[i]
          /\ CheckShdeps[Len(three) + 1] = o
      BY <1>1, <1>2, <1>4, Extended
    <2>2. QED
      BY <1>4, <2>1
  <1>7. update[1] = u /\ outside[1] = o
    BY <1>2
  <1>8. QED
    BY <1>5, <1>6, <1>7 DEF o, u, d

\* The pieces of the line and where they are.
LEMMA Places ==
    /\ DefaultEnd \in Nat /\ Len(CheckIdempotence) \in Nat /\ Len(Pairs) \in Nat
    /\ SwitchFrom = DefaultEnd + 1
    /\ SwitchEnd = SwitchFrom + Len(CheckIdempotence)
    /\ Len(Program) = SwitchEnd + 8 + Len(Pairs)
    /\ \A i \in 1..DefaultEnd : Program[i] = CheckDefault[i]
    /\ Program[SwitchFrom] = outside[1]
    /\ \A i \in 1..Len(CheckIdempotence) : Program[SwitchFrom + i] = CheckIdempotence[i]
    /\ \A i \in 1..4 : Program[SwitchEnd + i] = CheckShdeps[i]
    /\ \A i \in 1..3 : Program[SwitchEnd + 4 + i] = CheckUpgrade[i]
    /\ Program[SwitchEnd + 8] = update[1]
    /\ \A i \in 1..Len(Pairs) : Program[SwitchEnd + 8 + i] = Pairs[i]
  <1>1. Pairs \in Seq(Shaped)
    <2>1. [s \in Stems |-> CheckPair(s)] \in [Stems -> Seq(Shaped)]
      BY CheckPairShaped
    <2>2. QED
      BY <2>1, ForEachShaped DEF Pairs
  <1>2. CheckDefault \in Seq(Shaped) /\ CheckIdempotence \in Seq(Shaped)
    BY CheckDefaultShaped, CheckIdempotenceShaped
  <1> DEFINE a == CheckDefault \o outside
             b == a \o CheckIdempotence
             c == b \o CheckShdeps
             d == c \o CheckUpgrade
             e == d \o update
  <1>3. Program = e \o Pairs
    BY DEF Program, Pairs
  <1>4. /\ DefaultEnd \in Nat /\ SwitchFrom = DefaultEnd + 1
        /\ SwitchEnd = SwitchFrom + Len(CheckIdempotence)
        /\ Len(CheckIdempotence) \in Nat /\ Len(Pairs) \in Nat
    BY <1>1, <1>2 DEF DefaultEnd, SwitchFrom, SwitchEnd
  <1>5. /\ a \in Seq(Shaped) /\ Len(a) = SwitchFrom
        /\ \A i \in 1..DefaultEnd : a[i] = CheckDefault[i]
        /\ a[SwitchFrom] = outside[1]
    <2>1. /\ a \in Seq(Shaped) /\ Len(a) = Len(CheckDefault) + Len(outside)
          /\ \A i \in 1..Len(CheckDefault) : a[i] = CheckDefault[i]
          /\ \A i \in 1..Len(outside) : a[Len(CheckDefault) + i] = outside[i]
      BY <1>2, BetweenShaped, Indexed, Zenon
    <2> HIDE DEF a
    <2>2. QED
      BY <1>4, <2>1, BetweenShaped DEF DefaultEnd
  <1> HIDE DEF a
  <1>6. /\ b \in Seq(Shaped) /\ Len(b) = SwitchEnd
        /\ \A i \in 1..SwitchFrom : b[i] = a[i]
        /\ \A i \in 1..Len(CheckIdempotence) : b[SwitchFrom + i] = CheckIdempotence[i]
    <2>1. /\ b \in Seq(Shaped) /\ Len(b) = Len(a) + Len(CheckIdempotence)
          /\ \A i \in 1..Len(a) : b[i] = a[i]
          /\ \A i \in 1..Len(CheckIdempotence) : b[Len(a) + i] = CheckIdempotence[i]
      BY <1>2, <1>5, Indexed, Zenon
    <2> HIDE DEF b
    <2>2. QED
      BY <1>4, <1>5, <2>1
  <1> HIDE DEF b
  <1>7. /\ c \in Seq(Shaped) /\ Len(c) = SwitchEnd + 4
        /\ \A i \in 1..SwitchEnd : c[i] = b[i]
        /\ \A i \in 1..4 : c[SwitchEnd + i] = CheckShdeps[i]
    <2>1. /\ c \in Seq(Shaped) /\ Len(c) = Len(b) + Len(CheckShdeps)
          /\ \A i \in 1..Len(b) : c[i] = b[i]
          /\ \A i \in 1..Len(CheckShdeps) : c[Len(b) + i] = CheckShdeps[i]
      BY <1>6, BetweenShaped, Indexed, Zenon
    <2> HIDE DEF c
    <2>2. QED
      BY <1>4, <1>6, <2>1, BetweenShaped
  <1> HIDE DEF c
  <1>8. /\ d \in Seq(Shaped) /\ Len(d) = SwitchEnd + 7
        /\ \A i \in 1..(SwitchEnd + 4) : d[i] = c[i]
        /\ \A i \in 1..3 : d[SwitchEnd + 4 + i] = CheckUpgrade[i]
    <2>1. /\ d \in Seq(Shaped) /\ Len(d) = Len(c) + Len(CheckUpgrade)
          /\ \A i \in 1..Len(c) : d[i] = c[i]
          /\ \A i \in 1..Len(CheckUpgrade) : d[Len(c) + i] = CheckUpgrade[i]
      BY <1>7, BetweenShaped, Indexed, Zenon
    <2> HIDE DEF d
    <2>2. QED
      BY <1>4, <1>7, <2>1, BetweenShaped
  <1> HIDE DEF d
  <1>9. /\ e \in Seq(Shaped) /\ Len(e) = SwitchEnd + 8
        /\ \A i \in 1..(SwitchEnd + 7) : e[i] = d[i]
        /\ e[SwitchEnd + 8] = update[1]
    <2>1. /\ e \in Seq(Shaped) /\ Len(e) = Len(d) + Len(update)
          /\ \A i \in 1..Len(d) : e[i] = d[i]
          /\ \A i \in 1..Len(update) : e[Len(d) + i] = update[i]
      BY <1>8, BetweenShaped, Indexed, Zenon
    <2> HIDE DEF e
    <2>2. 1 \in 1..Len(update) /\ Len(d) + 1 = SwitchEnd + 8
      BY <1>4, <1>8, BetweenShaped
    <2>3. QED
      BY <1>4, <1>8, <2>1, <2>2, BetweenShaped
  <1> HIDE DEF e
  <1>10. /\ Len(Program) = SwitchEnd + 8 + Len(Pairs)
         /\ \A i \in 1..(SwitchEnd + 8) : Program[i] = e[i]
         /\ \A i \in 1..Len(Pairs) : Program[SwitchEnd + 8 + i] = Pairs[i]
    <2>1. /\ Len(Program) = Len(e) + Len(Pairs)
          /\ \A i \in 1..Len(e) : Program[i] = e[i]
          /\ \A i \in 1..Len(Pairs) : Program[Len(e) + i] = Pairs[i]
      BY <1>1, <1>3, <1>9, Indexed, Zenon
    <2>2. QED
      BY <1>9, <2>1
  <1>11. ASSUME NEW i \in 1..(SwitchEnd + 7)
         PROVE  Program[i] = d[i]
    BY <1>4, <1>9, <1>10
  <1>12. ASSUME NEW i \in 1..(SwitchEnd + 4)
         PROVE  Program[i] = c[i]
    BY <1>4, <1>8, <1>11
  <1>13. ASSUME NEW i \in 1..SwitchEnd
         PROVE  Program[i] = b[i]
    BY <1>4, <1>7, <1>12
  <1>14. ASSUME NEW i \in 1..SwitchFrom
         PROVE  Program[i] = a[i]
    BY <1>4, <1>6, <1>13
  <1>15. ASSUME NEW i \in 1..DefaultEnd
         PROVE  Program[i] = CheckDefault[i]
    BY <1>4, <1>5, <1>14
  <1>16. ASSUME NEW i \in 1..Len(CheckIdempotence)
         PROVE  Program[SwitchFrom + i] = CheckIdempotence[i]
    BY <1>4, <1>6, <1>13
  <1>17. ASSUME NEW i \in 1..4
         PROVE  Program[SwitchEnd + i] = CheckShdeps[i]
    BY <1>4, <1>7, <1>12
  <1>18. ASSUME NEW i \in 1..3
         PROVE  Program[SwitchEnd + 4 + i] = CheckUpgrade[i]
    BY <1>4, <1>8, <1>11
  <1>19. Program[SwitchFrom] = outside[1] /\ Program[SwitchEnd + 8] = update[1]
    BY <1>4, <1>5, <1>9, <1>10, <1>14
  <1>20. QED
    BY <1>4, <1>10, <1>15, <1>16, <1>17, <1>18, <1>19

\* The looks of check-idempotence.sh at every package.
LEMMA SwitchLineShape ==
    /\ SwitchLine \in Seq(SwitchLooks)
    /\ \A s \in Stems : \E k \in 1..Len(SwitchLine) :
          SwitchLine[k] = Cmd("base_in", {<<s, "hwe">>}, FALSE)
  <1> DEFINE c == [s \in Stems |-> Cmd("base_in", {<<s, "hwe">>}, FALSE)]
             d == [s \in Stems |-> Cmd("base_out", {<<s, "base">>}, FALSE)]
             look == [s \in Stems |-> <<c[s]>> \o <<d[s]>>]
  <1>1. ASSUME NEW s \in Stems
        PROVE  /\ Cmd("base_in", {<<s, "hwe">>}, FALSE) \in SwitchLooks
               /\ Cmd("base_out", {<<s, "base">>}, FALSE) \in SwitchLooks
    <2>1. {<<s, "hwe">>} \in SUBSET Pkgs /\ {<<s, "base">>} \in SUBSET Pkgs
      BY DEF Pkgs, Variants
    <2>2. "base_in" \in Doings /\ "base_out" \in Doings
      BY DEF Doings
    <2>3. /\ Cmd("base_in", {<<s, "hwe">>}, FALSE) \in Shaped
          /\ Cmd("base_in", {<<s, "hwe">>}, FALSE).do = "base_in"
          /\ Cmd("base_in", {<<s, "hwe">>}, FALSE).of = {<<s, "hwe">>}
      BY <2>1, <2>2, OneOf
    <2>4. /\ Cmd("base_out", {<<s, "base">>}, FALSE) \in Shaped
          /\ Cmd("base_out", {<<s, "base">>}, FALSE).do = "base_out"
          /\ Cmd("base_out", {<<s, "base">>}, FALSE).of = {<<s, "base">>}
      BY <2>1, <2>2, OneOf
    <2>5. QED
      BY <2>3, <2>4 DEF SwitchLooks
  <1>2. \A s \in Stems : c[s] \in SwitchLooks /\ d[s] \in SwitchLooks
    BY <1>1
  <1>3. \A s \in Stems : c[s] = Cmd("base_in", {<<s, "hwe">>}, FALSE)
    OBVIOUS
  <1>4. SwitchLine = ForEach(look)
    <2>1. look = [s \in Stems |-> See("base_in", s, "hwe") \o See("base_out", s, "base")]
      BY DEF See
    <2>2. QED
      BY <2>1, Zenon DEF SwitchLine
  <1>5. /\ ForEach(look) \in Seq(SwitchLooks)
        /\ \A s \in Stems : \E k \in 1..Len(ForEach(look)) : ForEach(look)[k] = c[s]
    <2> HIDE DEF c, d
    <2>1. \A s \in Stems : /\ look[s] \in Seq(SwitchLooks) /\ Len(look[s]) = 2
                           /\ look[s][1] = c[s] /\ look[s][2] = d[s]
      BY <1>2, OneAndTwo
    <2>2. look \in [Stems -> Seq(SwitchLooks)]
      BY <2>1
    <2> HIDE DEF look
    <2>3. /\ ForEach(look) \in Seq(SwitchLooks)
          /\ \A s \in Stems : \E k \in 1..Len(ForEach(look)) :
                ForEach(look)[k] = look[s][1]
      BY <2>1, <2>2, TwoLooks
    <2>4. QED
      BY <2>1, <2>3
  <1> HIDE DEF look, c
  <1>6. QED
    BY <1>3, <1>4, <1>5

\* Where the commands of check-idempotence.sh are.
LEMMA SwitchPlaces ==
    /\ SwitchLine \in Seq(SwitchLooks)
    /\ Len(CheckIdempotence) = 8 + Len(SwitchLine) /\ Len(SwitchLine) \in Nat
    /\ CheckIdempotence[1] = Cmd("update", {}, FALSE)
    /\ CheckIdempotence[2] = Cmd("depend", FactoryNeeds \X {"base"}, FALSE)
    /\ CheckIdempotence[3] = Cmd("collect", {}, FALSE)
    /\ CheckIdempotence[4] = Cmd("install", {<<Utils, "hwe">>}, FALSE)
    /\ CheckIdempotence[5] = Cmd("begin", {}, FALSE)
    /\ \A i \in 1..Len(SwitchLine) : CheckIdempotence[5 + i] = SwitchLine[i]
    /\ CheckIdempotence[6 + Len(SwitchLine)] = Cmd("switched", {<<Utils, "hwe">>}, FALSE)
    /\ CheckIdempotence[7 + Len(SwitchLine)] = Cmd("gone", {<<Utils, "base">>}, FALSE)
    /\ CheckIdempotence[8 + Len(SwitchLine)] = Cmd("judge", {}, FALSE)
  <1> DEFINE c1 == Cmd("update", {}, FALSE)
             c2 == Cmd("depend", FactoryNeeds \X {"base"}, FALSE)
             c3 == Cmd("collect", {}, FALSE)
             c4 == Cmd("install", {<<Utils, "hwe">>}, FALSE)
             c5 == Cmd("begin", {}, FALSE)
             d1 == Cmd("switched", {<<Utils, "hwe">>}, FALSE)
             d2 == Cmd("gone", {<<Utils, "base">>}, FALSE)
             d3 == Cmd("judge", {}, FALSE)
             a1 == <<c1>>
             a2 == a1 \o <<c2>>
             a3 == a2 \o <<c3>>
             a4 == a3 \o <<c4>>
             a5 == a4 \o <<c5>>
             b0 == SwitchLine
             b1 == b0 \o <<d1>>
             b2 == b1 \o <<d2>>
             b3 == b2 \o <<d3>>
             n == Len(SwitchLine)
  <1>1. SwitchLine \in Seq(SwitchLooks)
    BY SwitchLineShape
  <1>2. b0 \in Seq(Shaped) /\ n \in Nat
    <2>1. SwitchLooks \subseteq Shaped
      BY DEF SwitchLooks
    <2>2. QED
      BY <1>1, <2>1, LargerSeq
  <1>3. /\ c1 \in Shaped /\ c2 \in Shaped /\ c3 \in Shaped /\ c4 \in Shaped /\ c5 \in Shaped
        /\ d1 \in Shaped /\ d2 \in Shaped /\ d3 \in Shaped
    <2>1. /\ {<<Utils, "hwe">>} \in SUBSET Pkgs /\ {<<Utils, "base">>} \in SUBSET Pkgs
          /\ FactoryNeeds \X {"base"} \in SUBSET Pkgs
          /\ FactoryNeeds \X {"base"} \subseteq Stems \X {"base"} /\ {} \in SUBSET Pkgs
      BY ChecksAssumption, StemsAssumption DEF Stems, Pkgs, Variants
    <2>2. c1 \in Shaped /\ c3 \in Shaped /\ c5 \in Shaped /\ d3 \in Shaped
      BY <2>1, OneOf DEF Doings
    <2>3. d1 \in Shaped /\ d2 \in Shaped
      BY <2>1, OneOf DEF Doings
    <2>4. c2 \in Shaped
      BY <2>1, OneOf DEF Doings
    <2>5. ConflictFree({<<Utils, "hwe">>})
      BY DEF ConflictFree, Conflict
    <2>6. c4 \in Shaped
      BY <2>1, <2>5 DEF Cmd, Shaped, Doings
    <2>7. QED
      BY <2>2, <2>3, <2>4, <2>6
  <1>4. CheckIdempotence = a5 \o b3
    BY DEF CheckIdempotence, VerifySwitch, SwitchLine, update, depend, install, See
  <1> HIDE DEF c1, c2, c3, c4, c5, d1, d2, d3, b0
  <1>5. a1 \in Seq(Shaped) /\ Len(a1) = 1 /\ a1[1] = c1
    BY <1>3, One
  <1> HIDE DEF a1
  <1>6. a2 \in Seq(Shaped) /\ Len(a2) = 2 /\ a2[1] = c1 /\ a2[2] = c2
    <2>1. /\ a2 \in Seq(Shaped) /\ Len(a2) = Len(a1) + 1
          /\ \A i \in 1..Len(a1) : a2[i] = a1[i]
          /\ a2[Len(a1) + 1] = c2
      BY <1>3, <1>5, Extended
    <2> HIDE DEF a2
    <2>2. QED
      BY <1>5, <2>1
  <1> HIDE DEF a2
  <1>7. a3 \in Seq(Shaped) /\ Len(a3) = 3 /\ a3[1] = c1 /\ a3[2] = c2 /\ a3[3] = c3
    <2>1. /\ a3 \in Seq(Shaped) /\ Len(a3) = Len(a2) + 1
          /\ \A i \in 1..Len(a2) : a3[i] = a2[i]
          /\ a3[Len(a2) + 1] = c3
      BY <1>3, <1>6, Extended
    <2> HIDE DEF a3
    <2>2. QED
      BY <1>6, <2>1
  <1> HIDE DEF a3
  <1>8. a4 \in Seq(Shaped) /\ Len(a4) = 4 /\ a4[1] = c1 /\ a4[2] = c2 /\ a4[3] = c3
        /\ a4[4] = c4
    <2>1. /\ a4 \in Seq(Shaped) /\ Len(a4) = Len(a3) + 1
          /\ \A i \in 1..Len(a3) : a4[i] = a3[i]
          /\ a4[Len(a3) + 1] = c4
      BY <1>3, <1>7, Extended
    <2> HIDE DEF a4
    <2>2. QED
      BY <1>7, <2>1
  <1> HIDE DEF a4
  <1>9. a5 \in Seq(Shaped) /\ Len(a5) = 5 /\ a5[1] = c1 /\ a5[2] = c2 /\ a5[3] = c3
        /\ a5[4] = c4 /\ a5[5] = c5
    <2>1. /\ a5 \in Seq(Shaped) /\ Len(a5) = Len(a4) + 1
          /\ \A i \in 1..Len(a4) : a5[i] = a4[i]
          /\ a5[Len(a4) + 1] = c5
      BY <1>3, <1>8, Extended
    <2> HIDE DEF a5
    <2>2. QED
      BY <1>8, <2>1
  <1> HIDE DEF a5
  <1>10. /\ b1 \in Seq(Shaped) /\ Len(b1) = n + 1
         /\ \A i \in 1..n : b1[i] = SwitchLine[i]
         /\ b1[n + 1] = d1
    BY <1>2, <1>3, Extended DEF b0
  <1> HIDE DEF b1, n
  <1>11. /\ b2 \in Seq(Shaped) /\ Len(b2) = n + 2
         /\ \A i \in 1..(n + 1) : b2[i] = b1[i]
         /\ b2[n + 2] = d2
    BY <1>2, <1>3, <1>10, Extended
  <1> HIDE DEF b2
  <1>12. /\ b3 \in Seq(Shaped) /\ Len(b3) = n + 3
         /\ \A i \in 1..(n + 2) : b3[i] = b2[i]
         /\ b3[n + 3] = d3
    BY <1>2, <1>3, <1>11, Extended
  <1> HIDE DEF b3
  <1>13. /\ Len(CheckIdempotence) = Len(a5) + Len(b3)
         /\ \A i \in 1..Len(a5) : CheckIdempotence[i] = a5[i]
         /\ \A i \in 1..Len(b3) : CheckIdempotence[Len(a5) + i] = b3[i]
    BY <1>4, <1>9, <1>12, Indexed, Zenon
  <1>14. /\ Len(CheckIdempotence) = 8 + n
         /\ \A i \in 1..5 : CheckIdempotence[i] = a5[i]
         /\ \A i \in 1..(n + 3) : CheckIdempotence[5 + i] = b3[i]
    BY <1>2, <1>9, <1>12, <1>13
  <1>15. \A i \in 1..n : CheckIdempotence[5 + i] = SwitchLine[i]
    <2> TAKE i \in 1..n
    <2>1. i \in 1..(n + 1) /\ i \in 1..(n + 2) /\ i \in 1..(n + 3)
      BY <1>2
    <2>2. QED
      BY <1>10, <1>11, <1>12, <1>14, <2>1
  <1>16. /\ CheckIdempotence[6 + n] = d1 /\ CheckIdempotence[7 + n] = d2
         /\ CheckIdempotence[8 + n] = d3
    <2>1. /\ n + 1 \in 1..(n + 1) /\ n + 1 \in 1..(n + 2) /\ n + 1 \in 1..(n + 3)
          /\ n + 2 \in 1..(n + 2) /\ n + 2 \in 1..(n + 3) /\ n + 3 \in 1..(n + 3)
          /\ 5 + (n + 1) = 6 + n /\ 5 + (n + 2) = 7 + n /\ 5 + (n + 3) = 8 + n
      BY <1>2
    <2>2. b3[n + 1] = d1 /\ b3[n + 2] = d2 /\ b3[n + 3] = d3
      BY <1>10, <1>11, <1>12, <2>1
    <2>3. /\ CheckIdempotence[5 + (n + 1)] = b3[n + 1]
          /\ CheckIdempotence[5 + (n + 2)] = b3[n + 2]
          /\ CheckIdempotence[5 + (n + 3)] = b3[n + 3]
      BY <1>14, <2>1
    <2>4. QED
      BY <2>1, <2>2, <2>3
  <1>17. /\ CheckIdempotence[1] = c1 /\ CheckIdempotence[2] = c2 /\ CheckIdempotence[3] = c3
         /\ CheckIdempotence[4] = c4 /\ CheckIdempotence[5] = c5
    BY <1>9, <1>14
  <1>18. QED
    BY <1>1, <1>2, <1>14, <1>15, <1>16, <1>17 DEF c1, c2, c3, c4, c5, d1, d2, d3, n

\* A chained line grows by one that may come after its last command.
LEMMA Grown ==
    ASSUME NEW s \in Seq(Shaped), Len(s) > 0, s[1].do = "remove", Chained(s),
           NEW t \in Seq(Shaped), Len(t) > 0, Chained(t), Follows(s[Len(s)], t[1])
    PROVE  /\ s \o t \in Seq(Shaped) /\ Len(s \o t) > 0 /\ (s \o t)[1].do = "remove"
           /\ Chained(s \o t) /\ (s \o t)[Len(s \o t)] = t[Len(t)]
  <1> DEFINE r == s \o t
  <1>1. /\ r \in Seq(Shaped) /\ Len(r) = Len(s) + Len(t) /\ Len(s) \in Nat /\ Len(t) \in Nat
        /\ \A i \in 1..Len(s) : r[i] = s[i]
        /\ \A i \in 1..Len(t) : r[Len(s) + i] = t[i]
    BY Indexed, Zenon
  <1> HIDE DEF r
  <1>2. ASSUME NEW i \in 2..Len(r)
        PROVE  Follows(r[i - 1], r[i])
    <2>1. CASE i <= Len(s)
      <3>1. i \in 2..Len(s) /\ i - 1 \in 1..Len(s) /\ i \in 1..Len(s)
        BY <1>1, <2>1
      <3>2. QED
        BY <1>1, <3>1 DEF Chained
    <2>2. CASE i = Len(s) + 1
      <3>1. i - 1 = Len(s) /\ Len(s) \in 1..Len(s) /\ 1 \in 1..Len(t)
        BY <1>1, <2>2
      <3>2. r[i] = t[1] /\ r[i - 1] = s[Len(s)]
        BY <1>1, <2>2, <3>1
      <3>3. QED
        BY <3>2
    <2>3. CASE i > Len(s) + 1
      <3> DEFINE k == i - Len(s)
      <3>1. k \in 2..Len(t) /\ k - 1 \in 1..Len(t) /\ k \in 1..Len(t)
            /\ i = Len(s) + k /\ i - 1 = Len(s) + (k - 1)
        BY <1>1, <2>3
      <3> HIDE DEF k
      <3>2. r[i] = t[k] /\ r[i - 1] = t[k - 1]
        BY <1>1, <3>1
      <3>3. Follows(t[k - 1], t[k])
        BY <3>1 DEF Chained
      <3>4. QED
        BY <3>2, <3>3
    <2>4. QED
      BY <1>1, <2>1, <2>2, <2>3
  <1>3. Chained(r)
    BY <1>2 DEF Chained
  <1>4. r[Len(r)] = t[Len(t)] /\ r[1] = s[1]
    <2>1. Len(t) \in 1..Len(t) /\ 1 \in 1..Len(s)
      BY <1>1
    <2>2. QED
      BY <1>1, <2>1
  <1>5. Len(r) > 0
    BY <1>1
  <1>6. QED
    BY <1>1, <1>3, <1>4, <1>5 DEF r

\* The lines of check.sh.
PairLines == {l \in Seq(Shaped) : Chained(l) /\ (Len(l) > 0 => l[1].do = "remove")}

\* They can be put one after another.
LEMMA PairLinesJoin ==
    /\ <<>> \in PairLines
    /\ \A s, t \in PairLines : s \o t \in PairLines
  <1>1. <<>> \in PairLines
    BY DEF PairLines, Chained
  <1>2. ASSUME NEW s \in PairLines, NEW t \in PairLines
        PROVE  s \o t \in PairLines
    <2>0. /\ s \in Seq(Shaped) /\ t \in Seq(Shaped) /\ Chained(s) /\ Chained(t)
          /\ Len(s) \in Nat /\ Len(t) \in Nat
          /\ Len(s) > 0 => s[1].do = "remove"
          /\ Len(t) > 0 => t[1].do = "remove"
      BY DEF PairLines
    <2>1. CASE Len(s) = 0
      BY <2>0, <2>1
    <2>2. CASE Len(t) = 0
      BY <2>0, <2>2
    <2>3. CASE Len(s) > 0 /\ Len(t) > 0
      <3>1. Follows(s[Len(s)], t[1])
        BY <2>0, <2>3 DEF Follows
      <3>2. s \o t \in Seq(Shaped) /\ (s \o t)[1].do = "remove" /\ Chained(s \o t)
        BY <2>0, <2>3, <3>1, Grown
      <3>3. QED
        BY <3>2 DEF PairLines
    <2>4. QED
      BY <2>0, <2>1, <2>2, <2>3
  <1>3. QED
    BY <1>1, <1>2

\* A line of one command is chained.
LEMMA OneChained ==
    ASSUME NEW x \in Shaped
    PROVE  <<x>> \in Seq(Shaped) /\ Len(<<x>>) = 1 /\ <<x>>[1] = x /\ Chained(<<x>>)
  <1>1. <<x>> \in Seq(Shaped) /\ Len(<<x>>) = 1 /\ <<x>>[1] = x
    BY One
  <1> DEFINE l == <<x>>
  <1> HIDE DEF l
  <1>2. Len(l) = 1
    BY <1>1 DEF l
  <1>3. Chained(l)
    BY <1>2 DEF Chained
  <1>4. QED
    BY <1>1, <1>3 DEF l

\* The looks for the other variant.
OutLooks(v) == {c \in Shaped : c.do = "out" /\ \E t \in Stems : c.of = {<<t, v>>}}

\* check_exclusive_state is chained, from its look for the package installed on.
LEMMA ExclusiveChained ==
    ASSUME NEW s \in Stems, NEW v \in {"base", "hwe"}
    PROVE  /\ check_exclusive_state(s, v) \in Seq(Shaped)
           /\ Len(check_exclusive_state(s, v)) > 0 /\ Chained(check_exclusive_state(s, v))
           /\ check_exclusive_state(s, v)[1] = Cmd("in", {<<s, v>>}, FALSE)
  <1> DEFINE w == Other(v)
             look == [t \in Stems |-> See("out", t, w)]
             x == Cmd("in", {<<s, v>>}, FALSE)
             m == ForEach(look)
             l == <<x>> \o m
  <1>1. w \in {"base", "hwe"} /\ w # v
    BY DEF Other
  <1> HIDE DEF w
  <1>2. ASSUME NEW t \in Stems PROVE See("out", t, w) \in Seq(OutLooks(w))
    <2>1. {<<t, w>>} \in SUBSET Pkgs /\ "out" \in Doings
      BY <1>1 DEF Pkgs, Variants, Doings
    <2>2. /\ Cmd("out", {<<t, w>>}, FALSE) \in Shaped
          /\ Cmd("out", {<<t, w>>}, FALSE).do = "out"
          /\ Cmd("out", {<<t, w>>}, FALSE).of = {<<t, w>>}
      BY <2>1, OneOf
    <2>3. Cmd("out", {<<t, w>>}, FALSE) \in OutLooks(w)
      BY <2>2 DEF OutLooks
    <2>4. QED
      BY <2>3, One DEF See
  <1>3. m \in Seq(OutLooks(w))
    <2>1. look \in [Stems -> Seq(OutLooks(w))]
      BY <1>2
    <2> HIDE DEF look
    <2>2. QED
      BY <2>1, ForEachTyped
  <1> HIDE DEF m
  <1>4. x \in Shaped /\ x.do = "in" /\ x.of = {<<s, v>>}
    <2>1. {<<s, v>>} \in SUBSET Pkgs /\ "in" \in Doings
      BY DEF Pkgs, Variants, Doings
    <2>2. QED
      BY <2>1, OneOf
  <1> HIDE DEF x
  <1>5. m \in Seq(Shaped)
    <2>1. OutLooks(w) \subseteq Shaped
      BY DEF OutLooks
    <2>2. QED
      BY <1>3, <2>1, LargerSeq
  <1>6. /\ l \in Seq(Shaped) /\ Len(l) = 1 + Len(m) /\ Len(m) \in Nat
        /\ l[1] = x /\ \A i \in 1..Len(m) : l[1 + i] = m[i]
    <2> DEFINE o == <<x>>
    <2>1. o \in Seq(Shaped) /\ Len(o) = 1 /\ o[1] = x
      BY <1>4, One
    <2> HIDE DEF o
    <2>2. /\ o \o m \in Seq(Shaped) /\ Len(o \o m) = Len(o) + Len(m) /\ Len(m) \in Nat
          /\ \A i \in 1..Len(o) : (o \o m)[i] = o[i]
          /\ \A i \in 1..Len(m) : (o \o m)[Len(o) + i] = m[i]
      BY <1>5, <2>1, Indexed, Zenon
    <2>3. /\ o \o m \in Seq(Shaped) /\ Len(o \o m) = 1 + Len(m) /\ Len(m) \in Nat
          /\ (o \o m)[1] = x /\ \A i \in 1..Len(m) : (o \o m)[1 + i] = m[i]
      BY <2>1, <2>2
    <2>4. QED
      BY <2>3 DEF o
  <1> HIDE DEF l
  <1>7. ASSUME NEW i \in 2..Len(l)
        PROVE  Follows(l[i - 1], l[i])
    <2> DEFINE k == i - 1
    <2>1. k \in 1..Len(m) /\ i = 1 + k
      BY <1>6
    <2>2. l[i] = m[k] /\ m[k] \in OutLooks(w)
      BY <1>3, <1>6, <2>1
    <2>3. PICK t \in Stems : l[i].do = "out" /\ l[i].of = {<<t, w>>}
      BY <2>2 DEF OutLooks
    <2>4. w \in Variants
      BY <1>1 DEF Variants
    <2>5. CASE k = 1
      <3>1. l[i - 1] = x
        BY <1>6, <2>5
      <3>2. \A p \in x.of : p[2] # w
        BY <1>1, <1>4
      <3>3. QED
        BY <1>4, <2>3, <2>4, <3>1, <3>2 DEF Follows
    <2>6. CASE k # 1
      <3>1. k - 1 \in 1..Len(m) /\ i - 1 = 1 + (k - 1)
        BY <2>1, <2>6
      <3>2. l[i - 1] = m[k - 1] /\ m[k - 1] \in OutLooks(w)
        BY <1>3, <1>6, <3>1
      <3>3. PICK t2 \in Stems : l[i - 1].do = "out" /\ l[i - 1].of = {<<t2, w>>}
        BY <3>2 DEF OutLooks
      <3>4. \A p \in l[i - 1].of : p[2] = w
        BY <3>3
      <3>5. QED
        BY <2>3, <2>4, <3>3, <3>4 DEF Follows
    <2>7. QED
      BY <2>5, <2>6
  <1>8. Chained(l)
    BY <1>7 DEF Chained
  <1>9. Len(l) > 0
    BY <1>6
  <1>10. check_exclusive_state(s, v) = l
    BY DEF check_exclusive_state, l, m, x, w, See
  <1>11. QED
    BY <1>6, <1>8, <1>9, <1>10 DEF x

\* The empty line.
LEMMA EmptyLine == \A s, t \in Seq(Shaped) : Len(s) = 0 => s \o t = t
  OBVIOUS

\* One half of check.sh's loop, after what has been done.
LEMMA HalfPair ==
    ASSUME NEW l \in Seq(Shaped), Len(l) > 0 => l[1].do = "remove", Chained(l),
           NEW s \in Stems, NEW v \in {"base", "hwe"}
    PROVE  LET d == l \o remove_external_dep_packages \o remove_all_test_packages
                       \o install({<<s, v>>}) \o check_exclusive_state(s, v)
           IN  d \in Seq(Shaped) /\ Len(d) > 0 /\ d[1].do = "remove" /\ Chained(d)
  <1> DEFINE a == l \o remove_external_dep_packages
             b == a \o remove_all_test_packages
             c == b \o install({<<s, v>>})
             d == c \o check_exclusive_state(s, v)
             x == Cmd("remove", ExtPackages \X {"base"}, TRUE)
             i == Cmd("install", {<<s, v>>}, FALSE)
             e == check_exclusive_state(s, v)
  <1>1. x \in Shaped /\ x.do = "remove"
    <2>1. ExtPackages \X {"base"} \in SUBSET Pkgs /\ "remove" \in Doings
      BY ChecksAssumption DEF Pkgs, Variants, Doings
    <2>2. QED
      BY <2>1, OneOf
  <1>2. RemoveAll \in Shaped /\ RemoveAll.do = "remove"
    <2>1. Pkgs \in SUBSET Pkgs /\ "remove" \in Doings
      BY DEF Doings
    <2>2. QED
      BY <2>1, OneOf DEF RemoveAll
  <1>3. i \in Shaped /\ i.do = "install" /\ i.of = {<<s, v>>}
    <2>1. {<<s, v>>} \in SUBSET Pkgs /\ ConflictFree({<<s, v>>})
      BY DEF Pkgs, Variants, ConflictFree, Conflict
    <2>2. QED
      BY <2>1 DEF Cmd, Shaped, Doings
  <1>4. /\ e \in Seq(Shaped) /\ Len(e) > 0 /\ Chained(e) /\ e[1] = Cmd("in", {<<s, v>>}, FALSE)
    BY ExclusiveChained
  <1>5. e[1].do = "in" /\ e[1].of = {<<s, v>>}
    BY <1>4 DEF Cmd
  <1>6. /\ a = l \o <<x>> /\ b = a \o <<RemoveAll>> /\ c = b \o <<i>> /\ d = c \o e
    BY DEF remove_external_dep_packages, remove_all_test_packages, RemoveAll, install
  <1> HIDE DEF x, i, e, a, b, c, d
  <1>7. \A k : Follows(k, x) /\ Follows(k, RemoveAll)
    BY <1>1, <1>2 DEF Follows
  <1>8. a \in Seq(Shaped) /\ Len(a) > 0 /\ a[1].do = "remove" /\ Chained(a)
    <2> DEFINE o == <<x>>
    <2>1. o \in Seq(Shaped) /\ Len(o) = 1 /\ o[1] = x /\ Chained(o)
      BY <1>1, OneChained
    <2> HIDE DEF o
    <2>2. a = l \o o
      BY <1>6 DEF o
    <2>3. CASE Len(l) = 0
      <3>1. a = o
        BY <2>1, <2>2, <2>3, EmptyLine
      <3>2. o[1].do = "remove" /\ Len(o) > 0
        BY <1>1, <2>1
      <3>3. QED
        BY <2>1, <3>1, <3>2, Zenon
    <2>4. CASE Len(l) > 0
      <3>1. Len(o) > 0 /\ Follows(l[Len(l)], o[1])
        BY <1>7, <2>1
      <3>2. QED
        BY <2>1, <2>2, <2>4, <3>1, Grown
    <2>5. QED
      BY <2>3, <2>4
  <1>9. b \in Seq(Shaped) /\ Len(b) > 0 /\ b[1].do = "remove" /\ Chained(b)
        /\ b[Len(b)] = RemoveAll
    <2> DEFINE o == <<RemoveAll>>
    <2>1. o \in Seq(Shaped) /\ Len(o) = 1 /\ o[1] = RemoveAll /\ Chained(o)
      BY <1>2, OneChained
    <2> HIDE DEF o
    <2>2. b = a \o o
      BY <1>6 DEF o
    <2>3. Len(o) > 0 /\ Follows(a[Len(a)], o[1])
      BY <1>7, <2>1
    <2>4. b \in Seq(Shaped) /\ Len(b) > 0 /\ b[1].do = "remove" /\ Chained(b)
          /\ b[Len(b)] = o[Len(o)]
      BY <1>8, <2>1, <2>2, <2>3, Grown, Zenon
    <2>5. QED
      BY <2>1, <2>4, Zenon
  <1>10. c \in Seq(Shaped) /\ Len(c) > 0 /\ c[1].do = "remove" /\ Chained(c)
         /\ c[Len(c)] = i
    <2> DEFINE o == <<i>>
    <2>1. o \in Seq(Shaped) /\ Len(o) = 1 /\ o[1] = i /\ Chained(o)
      BY <1>3, OneChained
    <2> HIDE DEF o
    <2>2. c = b \o o
      BY <1>6 DEF o
    <2>3. Len(o) > 0 /\ Follows(b[Len(b)], o[1])
      BY <1>3, <1>9, <2>1 DEF Follows
    <2>4. c \in Seq(Shaped) /\ Len(c) > 0 /\ c[1].do = "remove" /\ Chained(c)
          /\ c[Len(c)] = o[Len(o)]
      BY <1>9, <2>1, <2>2, <2>3, Grown, Zenon
    <2>5. QED
      BY <2>1, <2>4, Zenon
  <1>11. Follows(c[Len(c)], e[1])
    BY <1>3, <1>5, <1>10 DEF Follows
  <1>12. d \in Seq(Shaped) /\ Len(d) > 0 /\ d[1].do = "remove" /\ Chained(d)
    BY <1>4, <1>6, <1>10, <1>11, Grown
  <1>13. QED
    BY <1>12 DEF a, b, c, d

\* check.sh's loop for one package.
LEMMA CheckPairLine ==
    ASSUME NEW s \in Stems
    PROVE  CheckPair(s) \in PairLines
  <1> DEFINE a1 == remove_external_dep_packages
             b1 == a1 \o remove_all_test_packages
             c1 == b1 \o install({<<s, "base">>})
             d1 == c1 \o check_exclusive_state(s, "base")
             a2 == d1 \o remove_external_dep_packages
             b2 == a2 \o remove_all_test_packages
             c2 == b2 \o install({<<s, "hwe">>})
             d2 == c2 \o check_exclusive_state(s, "hwe")
  <1>1. CheckPair(s) = d2
    BY DEF CheckPair
  <1>2. <<>> \in Seq(Shaped) /\ Len(<<>>) = 0 /\ Chained(<<>>)
    BY DEF Chained
  <1>3. a1 = <<>> \o remove_external_dep_packages
    BY Elementary
  <1> HIDE DEF a1
  <1>4. d1 \in Seq(Shaped) /\ Len(d1) > 0 /\ d1[1].do = "remove" /\ Chained(d1)
    <2>1. \A l : l \in Seq(Shaped) /\ Len(l) = 0 /\ Chained(l) /\ a1 = l \o remove_external_dep_packages
            => d1 \in Seq(Shaped) /\ Len(d1) > 0 /\ d1[1].do = "remove" /\ Chained(d1)
      <3> TAKE l
      <3> HAVE l \in Seq(Shaped) /\ Len(l) = 0 /\ Chained(l) /\ a1 = l \o remove_external_dep_packages
      <3>1. Len(l) > 0 => l[1].do = "remove"
        OBVIOUS
      <3>2. QED
        BY <3>1, HalfPair
    <2> HIDE DEF d1
    <2>2. QED
      BY <1>2, <1>3, <2>1
  <1> HIDE DEF d1
  <1>5. d2 \in Seq(Shaped) /\ Len(d2) > 0 /\ d2[1].do = "remove" /\ Chained(d2)
    BY <1>4, HalfPair
  <1> HIDE DEF d2
  <1>6. QED
    BY <1>1, <1>5 DEF PairLines

\* The loop of check.sh.
LEMMA PairsLine == Pairs \in PairLines
  <1> DEFINE q == [i \in 1..Len(PACKAGES) |-> CheckPair(PACKAGES[i])]
  <1>1. q \in Seq(PairLines)
    <2>1. \A i \in 1..Len(PACKAGES) : CheckPair(PACKAGES[i]) \in PairLines
      BY ListTyped, CheckPairLine
    <2>2. QED
      BY ListTyped, <2>1
  <1>2. Pairs = FlattenSeq(q)
    <2> DEFINE piece == [s \in Stems |-> CheckPair(s)]
    <2>1. \A i \in 1..Len(PACKAGES) : piece[PACKAGES[i]] = CheckPair(PACKAGES[i])
      BY ListTyped
    <2>2. [i \in 1..Len(PACKAGES) |-> piece[PACKAGES[i]]] = q
      <3> HIDE DEF piece
      <3> QED
        BY <2>1
    <2>3. QED
      BY <2>2, Zenon DEF Pairs, ForEach
  <1> HIDE DEF q
  <1>3. FlattenSeq(q) \in PairLines
    BY <1>1, FlattenClosed, PairLinesJoin
  <1>4. QED
    BY <1>2, <1>3

\* check-shdeps.sh, check-upgrade.sh and check.sh in the line.
LEMMA PairFactsHold == PairFacts
  <1>1. /\ Pairs \in Seq(Shaped) /\ Chained(Pairs) /\ (Len(Pairs) > 0 => Pairs[1].do = "remove")
        /\ Len(Pairs) \in Nat
    BY PairsLine DEF PairLines
  <1>2. PairsFrom = SwitchEnd + 8 /\ SwitchEnd \in Nat /\ Len(Program) = PairsFrom + Len(Pairs)
        /\ \A i \in 1..Len(Pairs) : Program[PairsFrom + i] = Pairs[i]
    <2>1. /\ DefaultEnd \in Nat /\ Len(CheckIdempotence) \in Nat
          /\ SwitchFrom = DefaultEnd + 1 /\ SwitchEnd = SwitchFrom + Len(CheckIdempotence)
      BY Places, Zenon
    <2>2. SwitchEnd \in Nat
      BY <2>1
    <2>3. QED
      BY <2>2, Places, Zenon DEF PairsFrom
  <1>3. ASSUME NEW i \in (PairsFrom + 1)..Len(Program)
        PROVE  Follows(Program[i - 1], Program[i])
    <2> DEFINE k == i - PairsFrom
    <2>1. k \in 1..Len(Pairs) /\ i = PairsFrom + k
      BY <1>1, <1>2
    <2> HIDE DEF k
    <2>2. Program[i] = Pairs[k]
      BY <1>2, <2>1
    <2>3. CASE k = 1
      <3>1. Program[i].do = "remove"
        BY <1>1, <2>1, <2>2, <2>3
      <3>2. QED
        BY <3>1 DEF Follows
    <2>4. CASE k # 1
      <3>1. k - 1 \in 1..Len(Pairs) /\ k \in 2..Len(Pairs) /\ i - 1 = PairsFrom + (k - 1)
        BY <1>1, <1>2, <2>1, <2>4
      <3>2. Program[i - 1] = Pairs[k - 1]
        BY <1>2, <3>1
      <3>3. QED
        BY <1>1, <2>2, <3>1, <3>2 DEF Chained
    <2>5. QED
      BY <2>3, <2>4
  <1>4. /\ Program[SwitchEnd + 1].do = "outside" /\ Program[SwitchEnd + 2].do = "update"
        /\ Program[SwitchEnd + 3].do = "depend"
        /\ Program[SwitchEnd + 3].of = ShdepsNeeds \X {"base"}
        /\ Program[SwitchEnd + 4].do = "outside" /\ Program[SwitchEnd + 5].do = "outside"
        /\ Program[SwitchEnd + 6].do = "update" /\ Program[SwitchEnd + 7].do = "outside"
        /\ Program[SwitchEnd + 8].do = "update"
    <2>1. /\ Program[SwitchEnd + 1] = CheckShdeps[1] /\ Program[SwitchEnd + 2] = CheckShdeps[2]
          /\ Program[SwitchEnd + 3] = CheckShdeps[3] /\ Program[SwitchEnd + 4] = CheckShdeps[4]
      BY Places
    <2>2. /\ Program[SwitchEnd + 4 + 1] = CheckUpgrade[1]
          /\ Program[SwitchEnd + 4 + 2] = CheckUpgrade[2]
          /\ Program[SwitchEnd + 4 + 3] = CheckUpgrade[3]
      BY Places
    <2>3. Program[SwitchEnd + 8] = update[1]
      BY Places
    <2>4. /\ SwitchEnd + 4 + 1 = SwitchEnd + 5 /\ SwitchEnd + 4 + 2 = SwitchEnd + 6
          /\ SwitchEnd + 4 + 3 = SwitchEnd + 7
      BY <1>2
    <2>5. QED
      BY <2>1, <2>2, <2>3, <2>4, BetweenLine DEF Cmd
  <1>5. QED
    BY <1>1, <1>2, <1>3, <1>4 DEF PairFacts

\* check-default.sh in the line.
LEMMA DefaultFactsHold == DefaultFacts
  <1> DEFINE e == Len(ExtLine)
             n == Len(DefaultLooks)
  <1>1. e \in Nat /\ n \in Nat /\ DefaultEnd = 4 + e + n
    BY DefaultPlaces
  <1>2. ExtLine \in Seq(Depends) /\ DefaultLooks \in Seq(BaseLooks)
    BY DefaultPlaces
  <1>3. /\ Program[1] = Cmd("update", {}, FALSE) /\ Program[2] = RemoveAll
        /\ Program[3 + e] = Cmd("begin_any", {}, FALSE)
        /\ Program[DefaultEnd] = Cmd("judge", {}, FALSE)
    <2>1. 1 \in 1..DefaultEnd /\ 2 \in 1..DefaultEnd /\ 3 + e \in 1..DefaultEnd
          /\ 4 + e + n \in 1..DefaultEnd
      BY <1>1
    <2> HIDE DEF e, n
    <2>2. /\ Program[1] = CheckDefault[1] /\ Program[2] = CheckDefault[2]
          /\ Program[3 + e] = CheckDefault[3 + e]
          /\ Program[4 + e + n] = CheckDefault[4 + e + n]
      BY <2>1, Places
    <2>3. QED
      BY <1>1, <2>2, DefaultPlaces DEF e, n
  <1>4. ASSUME NEW i \in 1..e
        PROVE  Program[2 + i] = ExtLine[i] /\ ExtLine[i] \in Depends
    <2>1. 2 + i \in 1..DefaultEnd
      BY <1>1
    <2>2. Program[2 + i] = CheckDefault[2 + i]
      BY <2>1, Places
    <2>3. QED
      BY <1>2, <2>2, DefaultPlaces
  <1>5. ASSUME NEW i \in 1..n
        PROVE  Program[3 + e + i] = DefaultLooks[i] /\ DefaultLooks[i] \in BaseLooks
    <2>1. 3 + e + i \in 1..DefaultEnd
      BY <1>1
    <2>2. Program[3 + e + i] = CheckDefault[3 + e + i]
      BY <2>1, Places
    <2>3. QED
      BY <1>2, <2>2, DefaultPlaces
  <1> HIDE DEF e, n
  <1>6. ASSUME NEW i \in 3..(DefaultEnd - 1)
        PROVE  \/ i < 3 + e /\ Program[i].do = "depend"
               \/ i = 3 + e /\ Program[i].do = "begin_any"
               \/ i > 3 + e /\ Program[i] \in BaseLooks
    <2>1. CASE i < 3 + e
      <3>1. i - 2 \in 1..e /\ i = 2 + (i - 2)
        BY <1>1, <2>1
      <3>2. Program[i] \in Depends
        BY <1>4, <3>1
      <3>3. QED
        BY <2>1, <3>2 DEF Depends
    <2>2. CASE i = 3 + e
      BY <1>3, <2>2 DEF Cmd
    <2>3. CASE i > 3 + e
      <3> DEFINE k == i - (3 + e)
      <3>1. k \in 1..n /\ i = 3 + e + k
        BY <1>1, <2>3
      <3> HIDE DEF k
      <3>2. QED
        BY <1>5, <2>3, <3>1
    <2>4. QED
      BY <1>1, <2>1, <2>2, <2>3
  <1>7. \A c \in BaseLooks : /\ c.do \in {"out", "any"}
                             /\ c.do = "out" => \A p \in c.of : p[2] = "hwe"
    BY DEF BaseLooks
  <1>8. ASSUME NEW i \in 3..(DefaultEnd - 1)
        PROVE  /\ Program[i].do \in {"depend", "begin_any", "out", "any"}
               /\ Program[i].do = "out" => \A p \in Program[i].of : p[2] = "hwe"
    BY <1>6, <1>7
  <1>9. ASSUME NEW i \in 3..(DefaultEnd - 1), NEW k \in 3..(DefaultEnd - 1),
               i < k, Program[i].do = "any"
        PROVE  Program[k].do \in {"out", "any"}
    <2>1. i > 3 + e
      BY <1>6, <1>9
    <2>2. k > 3 + e
      BY <1>1, <1>9, <2>1
    <2>3. QED
      BY <1>1, <1>6, <1>7, <2>2
  <1>10. ASSUME NEW s \in Stems
         PROVE  \E k \in 3..(DefaultEnd - 1) :
                   Program[k].do = "any" /\ Program[k].of = {<<s, "base">>}
    <2>1. PICK i \in 1..n : DefaultLooks[i] = Cmd("any", {<<s, "base">>}, FALSE)
      BY DefaultLooksShape DEF n
    <2>2. 3 + e + i \in 3..(DefaultEnd - 1)
      BY <1>1
    <2>3. Program[3 + e + i] = Cmd("any", {<<s, "base">>}, FALSE)
      BY <1>5, <2>1
    <2>4. Program[3 + e + i].do = "any" /\ Program[3 + e + i].of = {<<s, "base">>}
      BY <2>3 DEF Cmd
    <2>5. QED
      BY <2>2, <2>4
  <1>11. ASSUME NEW m \in 1..Len(ExtNeeds)
         PROVE  \E k \in 3..(DefaultEnd - 1) :
                   Program[k].do = "depend" /\ Program[k].of = ExtNeeds[m] \X {"base"}
    <2>1. PICK i \in 1..e : ExtLine[i] = Cmd("depend", ExtNeeds[m] \X {"base"}, FALSE)
      BY DefaultLoops DEF e, ExtLine
    <2>2. 2 + i \in 3..(DefaultEnd - 1)
      BY <1>1
    <2>3. Program[2 + i] = Cmd("depend", ExtNeeds[m] \X {"base"}, FALSE)
      BY <1>4, <2>1
    <2>4. Program[2 + i].do = "depend" /\ Program[2 + i].of = ExtNeeds[m] \X {"base"}
      BY <2>3 DEF Cmd
    <2>5. QED
      BY <2>2, <2>4
  <1>12. Program[1].do = "update" /\ Program[DefaultEnd].do = "judge"
    BY <1>3 DEF Cmd
  <1>13. DefaultEnd \in Nat /\ DefaultEnd >= 4
    BY <1>1
  <1>14. QED
    BY <1>3, <1>8, <1>9, <1>10, <1>11, <1>12, <1>13 DEF DefaultFacts

\* check-idempotence.sh in the line.
LEMMA SwitchFactsHold == SwitchFacts
  <1> DEFINE n == Len(SwitchLine)
             D == SwitchFrom
  <1>1. n \in Nat /\ D \in Nat /\ SwitchEnd = D + 8 + n /\ Len(CheckIdempotence) = 8 + n
    BY Places, SwitchPlaces
  <1>2. \A i \in 1..(8 + n) : Program[D + i] = CheckIdempotence[i]
    BY <1>1, Places
  <1>3. /\ SwitchLine \in Seq(SwitchLooks)
        /\ \A i \in 1..n : CheckIdempotence[5 + i] = SwitchLine[i]
    BY SwitchPlaces
  <1>4. /\ CheckIdempotence[1] = Cmd("update", {}, FALSE)
        /\ CheckIdempotence[2] = Cmd("depend", FactoryNeeds \X {"base"}, FALSE)
        /\ CheckIdempotence[3] = Cmd("collect", {}, FALSE)
        /\ CheckIdempotence[4] = Cmd("install", {<<Utils, "hwe">>}, FALSE)
        /\ CheckIdempotence[5] = Cmd("begin", {}, FALSE)
        /\ CheckIdempotence[6 + n] = Cmd("switched", {<<Utils, "hwe">>}, FALSE)
        /\ CheckIdempotence[7 + n] = Cmd("gone", {<<Utils, "base">>}, FALSE)
        /\ CheckIdempotence[8 + n] = Cmd("judge", {}, FALSE)
    BY SwitchPlaces
  <1>5. ASSUME NEW i \in 1..n
        PROVE  SwitchLine[i] \in SwitchLooks
    BY <1>3
  <1>6. \A s \in Stems : \E k \in 1..n : SwitchLine[k] = Cmd("base_in", {<<s, "hwe">>}, FALSE)
    BY SwitchLineShape
  <1> HIDE DEF n, D
  <1>7. /\ Program[D + 1] = Cmd("update", {}, FALSE)
        /\ Program[D + 2] = Cmd("depend", FactoryNeeds \X {"base"}, FALSE)
        /\ Program[D + 3] = Cmd("collect", {}, FALSE)
        /\ Program[D + 4] = Cmd("install", {<<Utils, "hwe">>}, FALSE)
        /\ Program[D + 5] = Cmd("begin", {}, FALSE)
        /\ Program[SwitchEnd - 2] = Cmd("switched", {<<Utils, "hwe">>}, FALSE)
        /\ Program[SwitchEnd - 1] = Cmd("gone", {<<Utils, "base">>}, FALSE)
        /\ Program[SwitchEnd] = Cmd("judge", {}, FALSE)
    <2>1. /\ 1 \in 1..(8 + n) /\ 2 \in 1..(8 + n) /\ 3 \in 1..(8 + n) /\ 4 \in 1..(8 + n)
          /\ 5 \in 1..(8 + n) /\ 6 + n \in 1..(8 + n) /\ 7 + n \in 1..(8 + n)
          /\ 8 + n \in 1..(8 + n)
          /\ SwitchEnd - 2 = D + (6 + n) /\ SwitchEnd - 1 = D + (7 + n)
          /\ SwitchEnd = D + (8 + n)
      BY <1>1
    <2>2. QED
      BY <1>2, <1>4, <2>1
  <1>8. ASSUME NEW i \in 1..n
        PROVE  Program[D + (5 + i)] = SwitchLine[i]
    <2>1. 5 + i \in 1..(8 + n)
      BY <1>1
    <2>2. QED
      BY <1>2, <1>3, <2>1
  <1>9. ASSUME NEW i \in (D + 6)..(SwitchEnd - 1)
        PROVE  \/ Program[i].do = "base_in" /\ \E s \in Stems : Program[i].of = {<<s, "hwe">>}
               \/ Program[i].do = "base_out" /\ \E s \in Stems : Program[i].of = {<<s, "base">>}
               \/ Program[i].do = "switched" /\ Program[i].of = {<<Utils, "hwe">>}
               \/ Program[i].do = "gone" /\ Program[i].of = {<<Utils, "base">>}
    <2>1. CASE i < D + 6 + n
      <3> DEFINE k == i - (D + 5)
      <3>1. k \in 1..n /\ i = D + (5 + k)
        BY <1>1, <2>1
      <3> HIDE DEF k
      <3>2. Program[i] \in SwitchLooks
        BY <1>5, <1>8, <3>1
      <3>3. QED
        BY <3>2 DEF SwitchLooks
    <2>2. CASE i = D + 6 + n
      <3>1. i = SwitchEnd - 2
        BY <1>1, <2>2
      <3>2. QED
        BY <1>7, <3>1 DEF Cmd
    <2>3. CASE i = D + 7 + n
      <3>1. i = SwitchEnd - 1
        BY <1>1, <2>3
      <3>2. QED
        BY <1>7, <3>1 DEF Cmd
    <2>4. QED
      BY <1>1, <2>1, <2>2, <2>3
  <1>10. ASSUME NEW s \in Stems
         PROVE  \E k \in (D + 6)..(SwitchEnd - 1) :
                   Program[k].do = "base_in" /\ Program[k].of = {<<s, "hwe">>}
    <2>1. PICK i \in 1..n : SwitchLine[i] = Cmd("base_in", {<<s, "hwe">>}, FALSE)
      BY <1>6
    <2>2. D + (5 + i) \in (D + 6)..(SwitchEnd - 1)
      BY <1>1
    <2>3. Program[D + (5 + i)] = Cmd("base_in", {<<s, "hwe">>}, FALSE)
      BY <1>8, <2>1
    <2>4. /\ Program[D + (5 + i)].do = "base_in"
          /\ Program[D + (5 + i)].of = {<<s, "hwe">>}
      BY <2>3 DEF Cmd
    <2>5. QED
      BY <2>2, <2>4
  <1>111. Program[D].do = "outside"
    BY Places, BetweenLine DEF Cmd, D
  <1>11. /\ Program[D + 1].do = "update"
         /\ Program[D + 2].do = "depend" /\ Program[D + 2].of = FactoryNeeds \X {"base"}
         /\ Program[D + 2].mayFail = FALSE
         /\ Program[D + 3].do = "collect"
         /\ Program[D + 4].do = "install" /\ Program[D + 4].of = {<<Utils, "hwe">>}
         /\ Program[D + 4].mayFail = FALSE
         /\ Program[D + 5].do = "begin"
         /\ Program[SwitchEnd - 2].do = "switched"
         /\ Program[SwitchEnd - 1].do = "gone"
         /\ Program[SwitchEnd].do = "judge"
    BY <1>7 DEF Cmd
  <1>12. SwitchEnd \in Nat /\ SwitchEnd >= D + 8
    BY <1>1
  <1>13. QED
    BY <1>9, <1>10, <1>111, <1>11, <1>12 DEF SwitchFacts, D

\* The line of test.sh, whatever the list of packages and the needs of the packages: where its
\* judgements are, which looks come before them, what check-idempotence.sh asks for, and that an
\* install of check.sh comes right after all packages were removed.
LEMMA LineFacts == Facts
  <1>1. DefaultFacts /\ SwitchFacts /\ PairFacts
    BY DefaultFactsHold, SwitchFactsHold, PairFactsHold
  <1>2. ASSUME NEW i \in 1..Len(Program), Program[i].do = "judge"
        PROVE  i \in {DefaultEnd, SwitchEnd}
    <2>0. Len(Program) \in Nat /\ DefaultEnd \in Nat /\ SwitchEnd \in Nat
          /\ SwitchFrom = DefaultEnd + 1
          /\ PairsFrom = SwitchEnd + 8 /\ Program[2].do = "remove"
      BY <1>1 DEF PairFacts, DefaultFacts, SwitchFacts, SwitchFrom, PairsFrom, RemoveAll, Cmd
    <2>1. i = 1 \/ i = 2 \/ i \in 3..(DefaultEnd - 1) \/ i = DefaultEnd
          \/ i = SwitchFrom \/ i = SwitchFrom + 1 \/ i = SwitchFrom + 2
          \/ i = SwitchFrom + 3 \/ i = SwitchFrom + 4 \/ i = SwitchFrom + 5
          \/ i \in (SwitchFrom + 6)..(SwitchEnd - 1) \/ i = SwitchEnd
          \/ i = SwitchEnd + 1 \/ i = SwitchEnd + 2 \/ i = SwitchEnd + 3
          \/ i = SwitchEnd + 4 \/ i = SwitchEnd + 5 \/ i = SwitchEnd + 6
          \/ i = SwitchEnd + 7 \/ i = SwitchEnd + 8 \/ i \in (PairsFrom + 1)..Len(Program)
      <3>1. i \in Nat /\ i >= 1 /\ i <= Len(Program)
        BY <2>0
      <3>2. i < 3 \/ i \in 3..(DefaultEnd - 1) \/ i >= DefaultEnd
        BY <2>0, <3>1
      <3>3. i \in (SwitchFrom + 6)..(SwitchEnd - 1) \/ i < SwitchFrom + 6 \/ i >= SwitchEnd
        BY <2>0, <3>1
      <3>4. i > SwitchEnd + 8 => i \in (PairsFrom + 1)..Len(Program)
        BY <2>0, <3>1
      <3>5. i < 3 => i = 1 \/ i = 2
        BY <3>1
      <3>6. i >= DefaultEnd /\ i < SwitchFrom + 6 =>
               i = DefaultEnd \/ i = SwitchFrom \/ i = SwitchFrom + 1 \/ i = SwitchFrom + 2
               \/ i = SwitchFrom + 3 \/ i = SwitchFrom + 4 \/ i = SwitchFrom + 5
        BY <2>0, <3>1
      <3>7. i >= SwitchEnd =>
               i = SwitchEnd \/ i = SwitchEnd + 1 \/ i = SwitchEnd + 2 \/ i = SwitchEnd + 3
               \/ i = SwitchEnd + 4 \/ i = SwitchEnd + 5 \/ i = SwitchEnd + 6
               \/ i = SwitchEnd + 7 \/ i = SwitchEnd + 8 \/ i > SwitchEnd + 8
        BY <2>0, <3>1
      <3>8. QED
        BY <3>2, <3>3, <3>4, <3>5, <3>6, <3>7, Zenon
    <2>2. i \notin 3..(DefaultEnd - 1)
      BY <1>1, <1>2 DEF DefaultFacts
    <2>3. i \notin (SwitchFrom + 6)..(SwitchEnd - 1)
      BY <1>1, <1>2 DEF SwitchFacts
    <2>4. i \notin (PairsFrom + 1)..Len(Program)
      BY <1>1, <1>2 DEF PairFacts, Follows
    <2>5. Program[1].do # "judge" /\ Program[2].do # "judge"
      BY <1>1, <2>0 DEF DefaultFacts
    <2>6. /\ Program[SwitchFrom].do # "judge" /\ Program[SwitchFrom + 1].do # "judge"
          /\ Program[SwitchFrom + 2].do # "judge" /\ Program[SwitchFrom + 3].do # "judge"
          /\ Program[SwitchFrom + 4].do # "judge" /\ Program[SwitchFrom + 5].do # "judge"
      BY <1>1 DEF SwitchFacts
    <2>7. /\ Program[SwitchEnd + 1].do # "judge" /\ Program[SwitchEnd + 2].do # "judge"
          /\ Program[SwitchEnd + 3].do # "judge" /\ Program[SwitchEnd + 4].do # "judge"
          /\ Program[SwitchEnd + 5].do # "judge" /\ Program[SwitchEnd + 6].do # "judge"
          /\ Program[SwitchEnd + 7].do # "judge" /\ Program[SwitchEnd + 8].do # "judge"
      BY <1>1 DEF PairFacts
    <2>8. QED
      BY <1>2, <2>1, <2>2, <2>3, <2>4, <2>5, <2>6, <2>7, Zenon
  <1>3. QED
    BY <1>1, <1>2 DEF Facts, Judgements

----------------------------------------------------------------------------
(***************************************************************************)
(* The host while the checks run, and the kinds of steps.                  *)
(***************************************************************************)

\* What is known of the host and of the checks: no check crashes the host.
Host == IInv /\ Counted /\ ChecksTypeOK /\ crashes = 0

\* The host with the checks on it: types, count and the invariant of the hook.
LEMMA HostHolds == ChecksSpec => []Host
  <1>1. ChecksInit => crashes = 0
    BY DEF ChecksInit, Init
  <1>2. crashes = 0 /\ [ChecksNext]_allVars => (crashes = 0)'
    <2> SUFFICES ASSUME crashes = 0, [ChecksNext]_allVars PROVE crashes' = crashes
      OBVIOUS
    <2>1. CASE CheckStep
      BY <2>1 DEF CheckStep, Update, Outside, AptGet, Reset, Collect, Look, Note, Judge, Request,
                  vars, countVars
    <2>2. CASE AptGetReturns \/ TxnGoesOn \/ DpkgFails
      BY <2>2 DEF AptGetReturns, TxnGoesOn, DpkgFails, pre_mode, DpkgRemove, DpkgInstall,
                  DpkgDone, DpkgFail, post_mode, Spawn, Exit, countVars
    <2>3. CASE Others \/ OthersEnd
      BY <2>3 DEF Others, OthersEnd, OtherLock, OtherUnlock, countVars
    <2>4. ASSUME NEW j \in Jobs, JobGoesOn(j) PROVE crashes' = crashes
      BY <2>4 DEF JobGoesOn, JobStep, JobProbe, JobInstall, AptGetInstall, JobEnds, countVars
    <2>5. CASE UNCHANGED allVars
      BY <2>5 DEF allVars, vars, countVars
    <2>6. QED
      BY <2>1, <2>2, <2>3, <2>4, <2>5 DEF ChecksNext
  <1>3. ChecksSpec => [](crashes = 0)
    BY <1>1, <1>2, PTL DEF ChecksSpec
  <1>4. ChecksSpec => []IInv
    BY ChecksUseTheHook, Invariance, PTL
  <1>5. IInv /\ Counted /\ ChecksTypeOK /\ crashes = 0 => Host
    BY DEF Host
  <1>6. QED
    BY <1>3, <1>4, <1>5, ChecksInvariance, ChecksTypeCorrect, PTL

\* A command of the line.
LEMMA CmdTyped ==
    ASSUME Counted, verdict = "running"
    PROVE  /\ pc \in 1..Len(Program) /\ Len(Program) \in Nat
           /\ cmd.do \in Doings /\ cmd.of \in SUBSET Pkgs /\ cmd.mayFail \in BOOLEAN
  <1>1. pc \in 1..Len(Program) /\ Len(Program) \in Nat
    BY ProgramShape DEF Counted
  <1>2. Program[pc] \in [do : Doings, of : SUBSET Pkgs, mayFail : BOOLEAN]
    <2> DEFINE R == [do : Doings, of : SUBSET Pkgs, mayFail : BOOLEAN]
    <2>1. Program \in Seq(R)
      BY ProgramShape
    <2> HIDE DEF R
    <2>2. Program[pc] \in R
      BY <1>1, <2>1
    <2>3. QED
      BY <2>2 DEF R
  <1>3. QED
    BY <1>1, <1>2 DEF cmd

\* Numbers in the line.
LEMMA Numbers ==
    /\ DefaultEnd \in Nat /\ SwitchEnd \in Nat /\ Len(Program) \in Nat
    /\ DefaultEnd >= 4 /\ SwitchFrom = DefaultEnd + 1 /\ SwitchEnd >= SwitchFrom + 8
    /\ PairsFrom = SwitchEnd + 8 /\ Len(Program) >= PairsFrom
    /\ Starts = {1, SwitchFrom, SwitchFrom + 1, SwitchEnd + 1, SwitchEnd + 5, PairsFrom}
  <1>1. /\ DefaultEnd \in Nat /\ SwitchEnd \in Nat /\ Len(Program) \in Nat
        /\ DefaultEnd >= 4 /\ SwitchFrom = DefaultEnd + 1 /\ SwitchEnd >= SwitchFrom + 8
        /\ PairsFrom = SwitchEnd + 8 /\ Len(Program) >= PairsFrom
    BY LineFacts DEF Facts, DefaultFacts, SwitchFacts, PairFacts, SwitchFrom, PairsFrom
  <1> DEFINE a == CheckDefault \o CheckIdempotence
             b == a \o CheckShdeps
             c == b \o CheckUpgrade
  <1>2. Starts = {1, 1 + Len(CheckDefault), 2 + Len(CheckDefault), 2 + Len(a), 2 + Len(b),
                  2 + Len(c)}
    BY DEF Starts
  <1>3. a \in Seq(Shaped) /\ Len(a) = Len(CheckDefault) + Len(CheckIdempotence)
    BY CheckDefaultShaped, CheckIdempotenceShaped, Indexed, Zenon
  <1> HIDE DEF a
  <1>4. b \in Seq(Shaped) /\ Len(b) = Len(a) + Len(CheckShdeps)
    BY <1>3, BetweenShaped, Indexed, Zenon
  <1> HIDE DEF b
  <1>5. Len(c) = Len(b) + Len(CheckUpgrade)
    BY <1>4, BetweenShaped, Indexed, Zenon
  <1> HIDE DEF c
  <1>6. Len(CheckDefault) = DefaultEnd /\ SwitchEnd = SwitchFrom + Len(CheckIdempotence)
        /\ Len(CheckIdempotence) \in Nat
    BY CheckIdempotenceShaped DEF DefaultEnd, SwitchEnd
  <1>7. /\ 1 + Len(CheckDefault) = SwitchFrom /\ 2 + Len(CheckDefault) = SwitchFrom + 1
        /\ 2 + Len(a) = SwitchEnd + 1 /\ 2 + Len(b) = SwitchEnd + 5 /\ 2 + Len(c) = PairsFrom
    BY <1>1, <1>3, <1>4, <1>5, <1>6, BetweenShaped
  <1>8. QED
    BY <1>1, <1>2, <1>7

\* The checks, when they do not ask for a transaction.
Walk == CheckStep /\ UNCHANGED vars

\* A transaction is asked for.
Ask == /\ AptGet /\ ~ Refused /\ UNCHANGED checkVars
       /\ \E want \in Want(cmd) :
             want \cup Gone(cmd, want) # {} /\ Request(want, Gone(cmd, want))

\* The host goes on by itself.
HostStepsOn == \/ TxnGoesOn \/ DpkgFails \/ Others \/ OthersEnd
               \/ \E j \in Jobs : JobGoesOn(j)
               \/ UNCHANGED allVars

\* There are no other steps.
LEMMA StepCases ==
    ASSUME [ChecksNext]_allVars
    PROVE  Walk \/ Ask \/ AptGetReturns \/ HostStepsOn
  <1>1. CASE AptGet
    BY <1>1 DEF AptGet, Walk, Ask, CheckStep
  <1>2. CASE Update \/ Outside \/ Reset \/ Collect \/ Look \/ Note \/ Judge
    BY <1>2 DEF Update, Outside, Reset, Collect, Look, Note, Judge, Walk, CheckStep
  <1>3. QED
    BY <1>1, <1>2 DEF ChecksNext, CheckStep, HostStepsOn

\* The checks walk on.
LEMMA WalkFacts ==
    ASSUME Host, Walk
    PROVE  /\ verdict = "running" /\ ~ Waiting /\ ~ Waiting' /\ Alive' = Alive
           /\ Onward \/ Stops
           /\ hurt \subseteq hurt'
           /\ cmd.do \in {"in", "out", "any", "base_in", "base_out", "switched", "gone"} =>
                 Looks
           /\ cmd.do # "collect" => baseline' = baseline
           /\ cmd.do \notin {"any", "base_in", "base_out", "switched", "gone",
                             "begin", "begin_any"} => flag' = flag
           /\ UNCHANGED <<installed, pending, phase, owner, plan, remove, ok, missing,
                          jobState, serial, before, asked, intact>>
  <1>1. verdict = "running" /\ ~ Waiting
    BY DEF Walk, CheckStep, Update, Outside, AptGet, Reset, Collect, Look, Note, Judge, At
  <1>2. UNCHANGED <<installed, pending, phase, owner, plan, remove, ok, missing,
                    jobState, serial, before, asked, intact>>
    BY DEF Walk, vars, fileVars, txnVars, jobVars, countVars, historyVars
  <1>3. ~ Waiting' /\ Alive' = Alive
    BY <1>1, <1>2 DEF Waiting, Alive
  <1>4. CASE AptGet
    <2>1. CommandFails \/ CommandSucceeds
      <3>1. \A want : ~ Request(want, Gone(cmd, want))
        BY <1>2 DEF Request, Host, IInv, TypeOK
      <3>2. QED
        BY <1>4, <3>1 DEF AptGet
    <2>2. cmd.do \in {"install", "depend", "remove"}
      BY <1>4 DEF AptGet, At
    <2>3. QED
      BY <1>1, <1>2, <1>3, <2>1, <2>2 DEF CommandFails, CommandSucceeds
  <1>5. CASE Update \/ Outside
    <2>1. CommandFails \/ CommandSucceeds
      BY <1>5 DEF Update, Outside
    <2>2. cmd.do \in {"update", "outside"}
      BY <1>5 DEF Update, Outside, At
    <2>3. QED
      BY <1>1, <1>2, <1>3, <2>1, <2>2 DEF CommandFails, CommandSucceeds
  <1>6. CASE Reset
    <2>1. cmd.do \in {"begin", "begin_any"} /\ Onward /\ UNCHANGED <<baseline, hurt>>
      BY <1>6 DEF Reset, At
    <2>2. QED
      BY <1>1, <1>2, <1>3, <2>1
  <1>7. CASE Collect
    <2>1. cmd.do = "collect" /\ (Onward \/ Stops) /\ UNCHANGED <<flag, hurt>>
      BY <1>7 DEF Collect, At
    <2>2. QED
      BY <1>1, <1>2, <1>3, <2>1
  <1>8. Looks => hurt \subseteq hurt'
    BY DEF Looks
  <1>9. CASE Look
    <2>1. cmd.do \in {"in", "out"} /\ (Onward \/ Stops) /\ Looks /\ UNCHANGED <<baseline, flag>>
      BY <1>9 DEF Look, At
    <2>2. QED
      BY <1>1, <1>2, <1>3, <1>8, <2>1
  <1>10. CASE Note
    <2>1. cmd.do \in {"any", "base_in", "base_out", "switched", "gone"} /\ Onward
          /\ Looks /\ UNCHANGED baseline
      BY <1>10 DEF Note, At
    <2>2. QED
      BY <1>1, <1>2, <1>3, <1>8, <2>1
  <1>11. CASE Judge
    <2>1. cmd.do = "judge" /\ (Onward \/ Stops) /\ UNCHANGED <<baseline, flag, hurt>>
      BY <1>11 DEF Judge, At
    <2>2. QED
      BY <1>1, <1>2, <1>3, <2>1
  <1>12. QED
    BY <1>4, <1>5, <1>6, <1>7, <1>9, <1>10, <1>11 DEF Walk, CheckStep

\* They walk on to the next command, unless they stop.
LEMMA WalkOn ==
    ASSUME Host, Walk, verdict' = "running" \/ verdict' = "passed"
    PROVE  Onward /\ pc' = pc + 1 /\ pc \in 1..Len(Program) /\ ~ Stops
           /\ (verdict' = "running" => pc' \in 1..Len(Program))
  <1>1. ~ Stops
    BY DEF Stops
  <1>2. Onward
    BY <1>1, WalkFacts
  <1>3. pc \in 1..Len(Program) /\ Len(Program) \in Nat
    BY WalkFacts, CmdTyped DEF Host
  <1>4. pc' = pc + 1 /\ (verdict' = "running" => pc # Len(Program))
    BY <1>2 DEF Onward
  <1>5. QED
    BY <1>1, <1>2, <1>3, <1>4

\* The checks ask for a transaction.
LEMMA AskFacts ==
    ASSUME Host, Ask
    PROVE  /\ verdict = "running" /\ ~ Waiting /\ Waiting' /\ Alive' = Alive /\ phase = "idle"
           /\ UNCHANGED <<pc, baseline, flag, verdict, hurt, installed, pending, jobState>>
           /\ pending = {} /\ missing' = {} /\ phase' = "pre" /\ cmd' = cmd /\ ok'
           /\ plan' \in Want(cmd) /\ remove' = Gone(cmd, plan') /\ plan' \cup remove' # {}
           /\ serial' = serial + 1 /\ before' = installed /\ asked' = plan' /\ intact' = serial'
           /\ cmd.do \in {"install", "depend", "remove"} /\ owner' = User
           /\ cmd.do = "remove" => plan' = {} /\ installed \cap cmd.of \subseteq remove'
           /\ cmd.of \subseteq Archive
  <1>1. PICK want \in Want(cmd) : /\ want \cup Gone(cmd, want) # {}
                                  /\ Request(want, Gone(cmd, want))
    BY DEF Ask
  <1>2. verdict = "running" /\ ~ Waiting /\ cmd.do \in {"install", "depend", "remove"}
    BY DEF Ask, AptGet, At
  <1>3. UNCHANGED <<pc, baseline, flag, verdict, hurt, installed, pending, jobState>>
    BY <1>1 DEF Ask, checkVars, Request, fileVars, jobVars
  <1>4. phase = "idle" /\ pending = {}
    BY DEF Ask, Refused, LocksFree, Host, IInv, Drained
  <1>5. /\ phase' = "pre" /\ owner' = User /\ missing' = {} /\ plan' = want /\ ok'
        /\ remove' = Gone(cmd, want) /\ serial' = serial + 1 /\ before' = installed
        /\ asked' = want /\ intact' = serial'
    BY <1>1 DEF Request, Begin
  <1>6. Waiting' /\ Alive' = Alive /\ cmd' = cmd
    BY <1>3, <1>5 DEF Waiting, Alive, cmd
  <1>7. cmd.do = "remove" => plan' = {} /\ installed \cap cmd.of \subseteq remove'
    BY <1>1, <1>5 DEF Want, Gone
  <1>71. cmd.of \subseteq Archive
    BY DEF Ask, Refused
  <1>8. QED
    BY <1>1, <1>2, <1>3, <1>4, <1>5, <1>6, <1>7, <1>71

\* The apt-get of the checks ends.
LEMMA ReturnFacts ==
    ASSUME Host, AptGetReturns
    PROVE  /\ verdict = "running" /\ Waiting /\ ~ Waiting' /\ Alive' = Alive
           /\ cmd.do \in Transactions
           /\ Onward \/ Stops
           /\ UNCHANGED <<installed, pending, jobState, serial, before, asked, intact,
                          baseline, flag>>
           /\ phase = "exit" /\ phase' = "idle" /\ owner = User /\ owner' = User
           /\ plan' = {} /\ remove' = {}
           /\ IF ok THEN Onward /\ hurt' = hurt /\ plan = {} /\ remove = {}
              ELSE hurt' = hurt \cup {"command"}
           /\ pc \in 1..Len(Program)
  <1>1. /\ phase = "exit" /\ phase' = "idle" /\ owner = User /\ owner' = User
        /\ plan' = {} /\ remove' = {}
        /\ UNCHANGED <<installed, pending, jobState, serial, before, asked, intact>>
    BY DEF AptGetReturns, Exit, End, fileVars, countVars, historyVars
  <1>2. Waiting /\ ~ Waiting' /\ Alive' = Alive
    BY <1>1 DEF Waiting, Alive
  <1>3. verdict = "running" /\ cmd.do \in Transactions /\ pc \in 1..Len(Program)
    BY <1>2, CmdTyped DEF Host, Counted
  <1>4. IF ok THEN CommandSucceeds ELSE CommandFails
    BY DEF AptGetReturns
  <1>5. ok => plan = {} /\ remove = {}
    BY <1>1 DEF Host, IInv, Recorded
  <1>6. QED
    BY <1>1, <1>2, <1>3, <1>4, <1>5 DEF CommandSucceeds, CommandFails

\* The host goes on, and the checks do not.
LEMMA HostFacts ==
    ASSUME Host, HostStepsOn
    PROVE  /\ UNCHANGED <<pc, baseline, flag, verdict, hurt, serial, before, asked>>
           /\ Waiting' <=> Waiting
           /\ cmd' = cmd
  <1>0. serial \in Nat /\ User \notin Jobs
    BY Constants, BoundsAssumption DEF Host, IInv, TypeOK
  <1>1. CASE TxnGoesOn
    <2>1. UNCHANGED <<pc, baseline, flag, verdict, hurt>>
      BY <1>1 DEF TxnGoesOn, checkVars
    <2>2. UNCHANGED <<serial, before, asked>>
      BY <1>1 DEF TxnGoesOn, pre_mode, DpkgRemove, DpkgInstall, DpkgDone,
                  post_mode, Spawn, Exit, countVars, historyVars
    <2>3. Waiting' <=> Waiting
      BY <1>1 DEF TxnGoesOn, pre_mode, DpkgRemove, DpkgInstall, DpkgDone,
                  post_mode, Spawn, Exit, End, Waiting
    <2>4. QED
      BY <2>1, <2>2, <2>3 DEF cmd
  <1>2. CASE DpkgFails \/ Others \/ OthersEnd
    <2>1. UNCHANGED <<pc, baseline, flag, verdict, hurt, serial, before, asked>>
      BY <1>2 DEF DpkgFails, Others, OthersEnd, checkVars, DpkgFail, OtherLock,
                  OtherUnlock, countVars, historyVars
    <2>2. Waiting' <=> Waiting
      BY <1>2 DEF DpkgFails, Others, OthersEnd, DpkgFail, OtherLock, OtherUnlock,
                  txnVars, Waiting
    <2>3. QED
      BY <2>1, <2>2 DEF cmd
  <1>3. ASSUME NEW j \in Jobs, JobGoesOn(j)
        PROVE  /\ UNCHANGED <<pc, baseline, flag, verdict, hurt, serial, before, asked>>
               /\ Waiting' <=> Waiting
    <2>1. UNCHANGED <<pc, baseline, flag, verdict, hurt, serial, before, asked>>
      BY <1>3 DEF JobGoesOn, checkVars, JobStep, JobProbe, JobInstall, AptGetInstall,
                  JobEnds, Begin, countVars, historyVars
    <2>2. Waiting' <=> Waiting
      BY <1>0, <1>3 DEF JobGoesOn, JobStep, JobProbe, JobInstall, AptGetInstall,
                        JobEnds, Begin, LocksFree, txnVars, Waiting
    <2>3. QED
      BY <2>1, <2>2
  <1>4. CASE UNCHANGED allVars
    <2>1. UNCHANGED <<pc, baseline, flag, verdict, hurt, serial, before, asked>>
          /\ (Waiting' <=> Waiting)
      BY <1>4 DEF allVars, checkVars, vars, countVars, historyVars, txnVars, Waiting
    <2>2. QED
      BY <2>1 DEF cmd
  <1>5. QED
    BY <1>1, <1>2, <1>3, <1>4 DEF HostStepsOn, cmd

----------------------------------------------------------------------------
(***************************************************************************)
(* Where nothing went wrong, a follow-up is under way only in check-       *)
(* idempotence.sh: the others ask for no transaction that the hook takes   *)
(* for a switch.                                                           *)
(***************************************************************************)

\* Where a follow-up may be under way although nothing went wrong.
Loud == (SwitchFrom + 2)..(SwitchEnd - 1)

\* Nothing went wrong so far.
Fine == verdict = "running" /\ hurt = {}

\* The hook takes no transaction of this kind for a switch.
NoSwitch == QemuOf(plan) = {} \/ installed = {} \/ ~ HasHwe(installed \cup plan)

\* Elsewhere no follow-up is under way, and none is asked for.
Calm == Fine /\ pc \notin Loud =>
    /\ Alive = {}
    /\ Waiting => /\ pending = {} /\ missing = {}
                  /\ phase = "pre" => NoSwitch

\* A removal plans to remove all that it names, and after remove_all_test_packages
\* nothing is left.
Emptied ==
    /\ Fine /\ Waiting /\ cmd.do = "remove" => plan = {} /\ installed \cap cmd.of \subseteq remove
    /\ Fine /\ ~ Waiting /\ pc > 1 /\ Program[pc - 1] = RemoveAll => installed = {}

\* check-default.sh has no -hwe package on the host, and removes nothing.
BaseOnly == Fine /\ pc \in 3..DefaultEnd =>
    ~ HasHwe(installed \cup plan) /\ remove = {}

\* The invariant behind PairsAreNoSwitch.
QuietInv == Calm /\ Emptied /\ BaseOnly

\* Where nothing is under way, no job goes on.
LEMMA NobodyElse ==
    ASSUME Host, Alive = {}
    PROVE  /\ owner = User
           /\ ~ Waiting => phase = "idle" /\ plan = {} /\ remove = {} /\ pending = {}
           /\ \A j \in Jobs : jobState[j] \notin {"poll", "running"}
  <1>1. \A j \in Jobs : jobState[j] \notin {"poll", "running"}
    BY DEF Alive
  <1>2. owner = User
    BY <1>1 DEF Host, IInv, TypeOK, Bookkeeping
  <1>3. ~ Waiting => phase = "idle"
    BY <1>2 DEF Waiting
  <1>4. QED
    BY <1>1, <1>2, <1>3 DEF Host, IInv, Bookkeeping, Drained

\* So that only the transaction of the checks goes on.
LEMMA HostQuiet ==
    ASSUME Host, Alive = {}, HostStepsOn, ~ Waiting
    PROVE  UNCHANGED <<installed, pending, phase, owner, plan, remove, ok, missing, jobState, intact>>
  <1>1. phase = "idle" /\ \A j \in Jobs : jobState[j] \notin {"poll", "running"}
    BY NobodyElse
  <1>2. ~ TxnGoesOn /\ ~ DpkgFails
    BY <1>1 DEF TxnGoesOn, DpkgFails, pre_mode, DpkgRemove, DpkgInstall, DpkgDone, DpkgFail,
                post_mode, Spawn, Exit
  <1>3. ASSUME NEW j \in Jobs PROVE ~ JobGoesOn(j)
    BY <1>1 DEF JobGoesOn, JobStep, JobProbe, JobInstall
  <1>4. CASE Others \/ OthersEnd \/ UNCHANGED allVars
    BY <1>4 DEF Others, OthersEnd, OtherLock, OtherUnlock, allVars, vars, fileVars, txnVars,
                jobVars, historyVars
  <1>5. QED
    BY <1>2, <1>3, <1>4 DEF HostStepsOn

\* The steps of the checks' own transaction, with nothing else under way.
LEMMA HostWorks ==
    ASSUME Host, Alive = {}, HostStepsOn, Waiting
    PROVE  \/ UNCHANGED <<installed, pending, phase, owner, plan, remove, ok, missing, jobState, intact>>
           \/ pre_mode \/ DpkgRemove \/ DpkgInstall \/ DpkgDone \/ DpkgFail \/ post_mode \/ Spawn
  <1>1. owner = User /\ \A j \in Jobs : jobState[j] \notin {"poll", "running"}
    BY NobodyElse
  <1>2. ASSUME NEW j \in Jobs PROVE ~ JobGoesOn(j)
    BY <1>1 DEF JobGoesOn, JobStep, JobProbe, JobInstall
  <1>3. CASE Others \/ OthersEnd \/ UNCHANGED allVars
    BY <1>3 DEF Others, OthersEnd, OtherLock, OtherUnlock, allVars, vars, fileVars, txnVars,
                jobVars, historyVars
  <1>4. CASE TxnGoesOn \/ DpkgFails
    BY <1>1, <1>4 DEF TxnGoesOn, DpkgFails
  <1>5. QED
    BY <1>2, <1>3, <1>4 DEF HostStepsOn

\* The hook queues nothing for a transaction that is no switch.
LEMMA NoSwitchNoQueue ==
    ASSUME NoSwitch
    PROVE  Queue(FALSE, QemuOf(plan), QemuOf(installed)) = {}
  <1>1. CASE QemuOf(plan) = {}
    BY <1>1 DEF Queue
  <1>2. CASE installed = {}
    <2>1. ~ HasHwe(QemuOf(installed)) /\ ~ HasBase(QemuOf(installed))
      BY <1>2 DEF QemuOf, HasHwe, HasBase
    <2>2. target_variant(QemuOf(plan), QemuOf(installed)) = "none"
      BY <2>1 DEF target_variant
    <2>3. QED
      BY <2>2 DEF Queue
  <1>3. CASE ~ HasHwe(installed \cup plan)
    <2>1. ~ HasHwe(QemuOf(installed)) /\ ~ HasHwe(QemuOf(plan))
      BY <1>3 DEF QemuOf, HasHwe
    <2>2. target_variant(QemuOf(plan), QemuOf(installed)) = "none"
      BY <2>1 DEF target_variant
    <2>3. QED
      BY <2>2 DEF Queue
  <1>4. QED
    BY <1>1, <1>2, <1>3 DEF NoSwitch

\* A dependency on a host without -hwe packages brings base packages in, and
\* nothing has to go.
LEMMA DependBase ==
    ASSUME Host, Ask, cmd.do = "depend", ~ HasHwe(installed)
    PROVE  ~ HasHwe(installed \cup plan') /\ remove' = {}
  <1>1. /\ verdict = "running" /\ plan' \in Want(cmd) /\ remove' = Gone(cmd, plan')
        /\ cmd.of \subseteq Archive
    BY AskFacts
  <1>2. pc \in 1..Len(Program)
    BY <1>1, CmdTyped DEF Host
  <1>3. cmd.of \subseteq Stems \X {"base"}
    BY <1>2, ProgramShape DEF cmd
  <1>4. plan' = {} \/ plan' = Bring(cmd.of)
    BY <1>1 DEF Want, Solutions
  <1>5. \A p \in plan' : p[2] = "base"
    <2>1. \A p \in cmd.of : p[2] = "base"
      BY <1>3
    <2>2. /\ Bring(cmd.of) \subseteq Archive
          /\ \A p \in Bring(cmd.of) : p[1] \in Lone \/ p[2] = "base"
      BY <1>1, <2>1, BringFits DEF Variants
    <2>3. \A p \in Archive : p[1] \in Lone => p[2] = "base"
      BY PkgShape DEF Archive, Variants
    <2>4. QED
      BY <1>4, <2>2, <2>3
  <1>6. ~ HasHwe(installed \cup plan')
    BY <1>5 DEF HasHwe, is_hwe_pkg
  <1>7. remove' = Displaced(plan')
    BY <1>1 DEF Gone
  <1>8. \A q \in installed : q[2] = "base"
    <2>1. \A q \in installed : q \in Pkgs
      BY Constants DEF Host, IInv, TypeOK
    <2>2. QED
      BY <2>1, PkgShape DEF HasHwe, is_hwe_pkg
  <1>9. Displaced(plan') = {}
    BY <1>5, <1>8 DEF Displaced, Conflict
  <1>10. QED
    BY <1>6, <1>7, <1>9

\* The build dependencies of check-shdeps.sh bring in no QEMU package.
LEMMA DependLibvirt ==
    ASSUME Host, Ask, pc = SwitchEnd + 3
    PROVE  QemuOf(plan') = {}
  <1>1. plan' \in Want(cmd)
    BY AskFacts
  <1>2. cmd.do = "depend" /\ cmd.of = ShdepsNeeds \X {"base"}
    BY LineFacts DEF Facts, PairFacts, cmd
  <1>3. ASSUME NEW S, \A p \in S : p[1] \in ShdepsNeeds
        PROVE  \A q \in Bring(S) : q[1] \in Libvirt
    <2> TAKE q \in Bring(S)
    <2>1. CASE q \in S
      BY <1>3, <2>1, NeedsAssumption
    <2>2. CASE q \notin S
      <3>1. PICK p \in S : q \in Requires(p)
        BY <2>2 DEF Bring
      <3>2. q[1] \in Needs[p[1]]
        BY <3>1 DEF Requires
      <3>3. QED
        BY <1>3, <3>2, NeedsAssumption
    <2>3. QED
      BY <2>1, <2>2
  <1>4. \A p \in cmd.of : p[1] \in ShdepsNeeds
    BY <1>2
  <1>5. \A p \in Providers(cmd.of) : p[1] \in ShdepsNeeds
    BY <1>4 DEF Providers, Counterpart
  <1>6. plan' = {} \/ plan' = Bring(cmd.of) \/ plan' = Bring(Providers(cmd.of))
    BY <1>1, <1>2 DEF Want, Solutions
  <1>7. \A q \in plan' : q[1] \in Libvirt
    BY <1>3, <1>4, <1>5, <1>6
  <1>8. QED
    BY <1>7, StemsAssumption DEF QemuOf

\* Where the commands that run apt-get are.
LEMMA TransactionPlaces ==
    ASSUME NEW i \in 1..Len(Program), Program[i].do \in Transactions
    PROVE  \/ i = 2 /\ Program[i] = RemoveAll /\ Program[i].do = "remove"
           \/ i \in 3..(DefaultEnd - 1) /\ Program[i].do = "depend"
           \/ i = SwitchFrom + 2 /\ Program[i].do = "depend"
           \/ i = SwitchFrom + 4 /\ Program[i].do = "install"
           \/ i = SwitchEnd + 3 /\ Program[i].do = "depend"
           \/ /\ i > PairsFrom /\ Program[i].do \in {"remove", "install"}
              /\ Program[i].do = "install" => Program[i - 1] = RemoveAll
  <1>0. Facts
    BY LineFacts
  <1>1. i \in Nat /\ i >= 1 /\ i <= Len(Program)
    BY Numbers
  <1>2. CASE i <= 2
    <2>1. i = 1 \/ i = 2
      BY <1>1, <1>2
    <2>2. QED
      BY <1>0, <2>1 DEF Facts, DefaultFacts, Transactions, RemoveAll, Cmd
  <1>3. CASE i > 2 /\ i < DefaultEnd
    <2>1. i \in 3..(DefaultEnd - 1)
      BY <1>1, <1>3, Numbers
    <2>2. QED
      BY <1>0, <2>1 DEF Facts, DefaultFacts, Transactions
  <1>4. CASE i >= DefaultEnd /\ i < SwitchFrom + 6
    <2>1. i = DefaultEnd \/ i = SwitchFrom \/ i = SwitchFrom + 1 \/ i = SwitchFrom + 2
          \/ i = SwitchFrom + 3 \/ i = SwitchFrom + 4 \/ i = SwitchFrom + 5
      BY <1>1, <1>4, Numbers
    <2>2. QED
      BY <1>0, <2>1 DEF Facts, DefaultFacts, SwitchFacts, Transactions
  <1>5. CASE i >= SwitchFrom + 6 /\ i < SwitchEnd
    <2>1. i \in (SwitchFrom + 6)..(SwitchEnd - 1)
      BY <1>1, <1>5, Numbers
    <2>2. QED
      BY <1>0, <2>1 DEF Facts, SwitchFacts, Transactions
  <1>6. CASE i >= SwitchEnd /\ i <= PairsFrom
    <2>1. \/ i = SwitchEnd \/ i = SwitchEnd + 1 \/ i = SwitchEnd + 2 \/ i = SwitchEnd + 3
          \/ i = SwitchEnd + 4 \/ i = SwitchEnd + 5 \/ i = SwitchEnd + 6 \/ i = SwitchEnd + 7
          \/ i = SwitchEnd + 8
      BY <1>1, <1>6, Numbers
    <2>2. QED
      BY <1>0, <2>1 DEF Facts, SwitchFacts, PairFacts, Transactions
  <1>7. CASE i > PairsFrom
    <2>1. i \in (PairsFrom + 1)..Len(Program)
      BY <1>1, <1>7, Numbers
    <2>2. Follows(Program[i - 1], Program[i])
      BY <1>0, <2>1 DEF Facts, PairFacts
    <2>3. QED
      BY <1>7, <2>2 DEF Follows, Transactions
  <1>8. QED
    BY <1>1, <1>2, <1>3, <1>4, <1>5, <1>6, <1>7, Numbers

\* Where packages are removed, and what comes after.
LEMMA RemovePlaces ==
    ASSUME NEW i \in 1..Len(Program), Program[i].do = "remove"
    PROVE  (i = 2 \/ i > PairsFrom) /\ i \notin Loud /\ i + 1 \notin Loud
  <1>1. i = 2 \/ i > PairsFrom
    BY TransactionPlaces DEF Transactions
  <1>2. QED
    BY <1>1, Numbers DEF Loud

\* Nothing that went wrong is forgotten.
LEMMA FineBefore ==
    ASSUME Host, [ChecksNext]_allVars, Fine'
    PROVE  Fine
  <1>1. CASE Walk
    BY <1>1, WalkFacts DEF Fine
  <1>2. CASE Ask
    BY <1>2, AskFacts DEF Fine
  <1>3. CASE AptGetReturns
    BY <1>3, ReturnFacts DEF Fine
  <1>4. CASE HostStepsOn
    BY <1>4, HostFacts DEF Fine
  <1>5. QED
    BY <1>1, <1>2, <1>3, <1>4, StepCases

\* The end of an apt-get of a check where nothing went wrong.
LEMMA FineReturn ==
    ASSUME Host, AptGetReturns, Fine'
    PROVE  Fine /\ ok /\ pc' = pc + 1 /\ pc' - 1 = pc /\ pc' \in 1..Len(Program) /\ plan = {} /\ remove = {}
  <1>1. ok /\ Onward /\ hurt' = hurt
    BY ReturnFacts DEF Fine
  <1>2. pc' = pc + 1 /\ pc # Len(Program)
    BY <1>1 DEF Fine, Onward
  <1>3. QED
    BY <1>1, <1>2, ReturnFacts, Numbers DEF Fine

\* An apt-get that had nothing to do.
LEMMA AlreadyDone ==
    ASSUME Host, Walk, Fine', cmd.do \in Transactions
    PROVE  \E want \in Want(cmd) : want \cup Gone(cmd, want) = {}
  <1>1. AptGet
    BY DEF Walk, CheckStep, Update, Outside, Reset, Collect, Look, Note, Judge, At, Transactions
  <1>2. ~ CommandFails
    BY DEF CommandFails, Fine
  <1>3. UNCHANGED serial /\ serial \in Nat
    BY WalkFacts, Constants, BoundsAssumption DEF Host, IInv, TypeOK
  <1>4. \A want : ~ Request(want, Gone(cmd, want))
    BY <1>3 DEF Request
  <1>5. QED
    BY <1>1, <1>2, <1>4 DEF AptGet

\* A removal that had nothing to remove.
LEMMA NothingToRemove ==
    ASSUME Host, Walk, Fine', cmd = RemoveAll
    PROVE  installed = {}
  <1>1. RemoveAll.do = "remove" /\ RemoveAll.of = Pkgs
    BY DEF RemoveAll, Cmd
  <1>2. \E want \in Want(cmd) : want \cup Gone(cmd, want) = {}
    BY <1>1, AlreadyDone DEF Transactions
  <1>3. Pkgs \cap installed = {}
    BY <1>1, <1>2 DEF Gone
  <1>4. installed \subseteq Pkgs
    BY Constants DEF Host, IInv, TypeOK
  <1>5. QED
    BY <1>3, <1>4

\* A follow-up is under way only where check-idempotence.sh asks for one.
LEMMA CalmStep ==
    ASSUME Host, QuietInv, [ChecksNext]_allVars
    PROVE  Calm'
  <1> SUFFICES ASSUME Fine', pc' \notin Loud
               PROVE  /\ Alive' = {}
                      /\ Waiting' => /\ pending' = {} /\ missing' = {}
                                     /\ phase' = "pre" => NoSwitch'
    BY DEF Calm, Loud, DefaultEnd, SwitchFrom, SwitchEnd
  <1>0. Fine /\ verdict' = "running"
    BY FineBefore DEF Fine
  <1>1. CASE Walk
    <2>1. ~ Waiting' /\ Alive' = Alive
      BY <1>1, WalkFacts
    <2>2. pc' = pc + 1 /\ pc \in 1..Len(Program)
      BY <1>0, <1>1, WalkOn
    <2>3. CASE pc \in Loud
      <3>1. pc = SwitchEnd - 1
        BY <2>2, <2>3, Numbers DEF Loud
      <3>2. cmd.do = "gone"
        BY <3>1, LineFacts DEF Facts, SwitchFacts, cmd
      <3>3. Looks
        BY <1>1, <3>2, WalkFacts
      <3>4. Alive = {}
        BY <3>3 DEF Looks, Fine
      <3>5. QED
        BY <2>1, <3>4
    <2>4. CASE pc \notin Loud
      BY <1>0, <2>1, <2>4 DEF QuietInv, Calm
    <2>5. QED
      BY <2>3, <2>4
  <1>2. CASE Ask
    <2>1. /\ pc' = pc /\ Alive' = Alive /\ pending' = {} /\ missing' = {} /\ ~ Waiting
          /\ installed' = installed /\ plan' \in Want(cmd)
          /\ cmd.do \in {"install", "depend", "remove"}
          /\ cmd.do = "remove" => plan' = {}
      BY <1>2, AskFacts
    <2>2. Alive = {}
      BY <1>0, <2>1 DEF QuietInv, Calm
    <2>3. pc \in 1..Len(Program)
      BY <1>0, CmdTyped DEF Fine, Host
    <2>4. NoSwitch'
      <3>1. CASE cmd.do = "remove"
        BY <2>1, <3>1 DEF NoSwitch, QemuOf
      <3>2. CASE cmd.do = "depend"
        <4>0. pc \in 3..(DefaultEnd - 1) \/ pc = SwitchFrom + 2 \/ pc = SwitchEnd + 3
          <5>1. Program[pc].do = "depend" /\ Program[pc].do \in Transactions
            BY <3>2 DEF cmd, Transactions
          <5>2. QED
            BY <2>3, <5>1, TransactionPlaces
        <4>1. pc \in 3..DefaultEnd \/ pc = SwitchEnd + 3
          BY <2>1, <4>0, Numbers DEF Loud
        <4>2. CASE pc \in 3..DefaultEnd
          <5>1. ~ HasHwe(installed)
            BY <1>0, <4>2 DEF QuietInv, BaseOnly, HasHwe
          <5>2. ~ HasHwe(installed \cup plan')
            BY <1>2, <3>2, <5>1, DependBase
          <5>3. QED
            BY <2>1, <5>2 DEF NoSwitch, HasHwe, is_hwe_pkg
        <4>3. CASE pc = SwitchEnd + 3
          BY <1>2, <4>3, DependLibvirt DEF NoSwitch, QemuOf
        <4>4. QED
          BY <4>1, <4>2, <4>3
      <3>3. CASE cmd.do = "install"
        <4>0. pc = SwitchFrom + 4 \/ (pc > PairsFrom /\ Program[pc - 1] = RemoveAll)
          <5>1. Program[pc].do = "install" /\ Program[pc].do \in Transactions
            BY <3>3 DEF cmd, Transactions
          <5>2. QED
            BY <2>3, <5>1, TransactionPlaces
        <4>1. pc > PairsFrom /\ Program[pc - 1] = RemoveAll
          BY <2>1, <4>0, Numbers DEF Loud
        <4>2. installed = {}
          BY <1>0, <2>1, <2>3, <4>1, Numbers DEF QuietInv, Emptied
        <4>3. QED
          BY <2>1, <4>2 DEF NoSwitch
      <3>4. QED
        BY <2>1, <3>1, <3>2, <3>3
    <2>5. QED
      BY <2>1, <2>2, <2>4
  <1>3. CASE AptGetReturns
    <2>1. /\ Waiting /\ ~ Waiting' /\ Alive' = Alive /\ cmd.do \in Transactions
          /\ pc \in 1..Len(Program)
      BY <1>3, ReturnFacts
    <2>2. pc' = pc + 1
      BY <1>3, FineReturn
    <2>3. pc \notin Loud
      <3>1. pc # SwitchEnd - 1
        BY <2>1, LineFacts DEF Facts, SwitchFacts, cmd, Transactions
      <3>2. QED
        BY <2>1, <2>2, <3>1, Numbers DEF Loud
    <2>4. QED
      BY <1>0, <2>1, <2>3 DEF QuietInv, Calm
  <1>4. CASE HostStepsOn
    <2>1. pc' = pc /\ (Waiting' <=> Waiting)
      BY <1>4, HostFacts
    <2>2. /\ Alive = {}
          /\ Waiting => /\ pending = {} /\ missing = {}
                        /\ phase = "pre" => NoSwitch
      BY <1>0, <2>1 DEF QuietInv, Calm
    <2>3. CASE UNCHANGED <<installed, pending, phase, owner, plan, remove, ok, missing, jobState, intact>>
      BY <2>1, <2>2, <2>3 DEF Alive, NoSwitch, QemuOf, HasHwe, is_hwe_pkg
    <2>4. CASE Waiting /\ (\/ pre_mode \/ DpkgRemove \/ DpkgInstall \/ DpkgDone
                           \/ DpkgFail \/ post_mode \/ Spawn)
      <3>0. owner = User
        BY <2>2, NobodyElse
      <3>1. ~ Spawn
        BY <2>2, <2>4 DEF Spawn, Host, IInv, Bookkeeping
      <3>2. Alive' = Alive
        BY <2>4, <3>1 DEF pre_mode, DpkgRemove, DpkgInstall, DpkgDone, DpkgFail, post_mode,
                          jobVars, Alive
      <3>3. missing' = {} /\ phase' # "pre"
        BY <2>2, <2>4, <3>0, <3>1 DEF pre_mode, DpkgRemove, DpkgInstall, DpkgDone, DpkgFail,
                                post_mode
      <3>4. pending' = {}
        <4>1. CASE pre_mode
          BY <2>2, <2>4, <3>0, <4>1, NoSwitchNoQueue DEF pre_mode
        <4>2. CASE ~ pre_mode
          BY <2>2, <2>4, <3>0, <3>1, <4>2 DEF DpkgRemove, DpkgInstall, DpkgDone, DpkgFail,
                                         post_mode, fileVars
        <4>3. QED
          BY <4>1, <4>2
      <3>5. QED
        BY <2>2, <3>2, <3>3, <3>4
    <2>5. QED
      BY <1>4, <2>2, <2>3, <2>4, HostQuiet, HostWorks
  <1>5. QED
    BY <1>1, <1>2, <1>3, <1>4, StepCases

\* A removal leaves nothing of what it names.
LEMMA EmptiedStep ==
    ASSUME Host, QuietInv, [ChecksNext]_allVars
    PROVE  Emptied'
  <1> SUFFICES ASSUME Fine'
               PROVE  /\ Waiting' /\ cmd'.do = "remove" =>
                            plan' = {} /\ installed' \cap cmd'.of \subseteq remove'
                      /\ ~ Waiting' /\ pc' > 1 /\ Program[pc' - 1] = RemoveAll =>
                            installed' = {}
    BY DEF Emptied, RemoveAll, Cmd, Pkgs, Stems, Variants
  <1>0. Fine /\ verdict' = "running"
    BY FineBefore DEF Fine
  <1>01. RemoveAll.do = "remove" /\ RemoveAll.of = Pkgs /\ installed \subseteq Pkgs
    BY Constants DEF RemoveAll, Cmd, Host, IInv, TypeOK
  <1>1. CASE Walk
    <2>1. ~ Waiting' /\ installed' = installed
      BY <1>1, WalkFacts
    <2>2. pc' - 1 = pc
      BY <1>0, <1>1, WalkOn, Numbers
    <2>3. Program[pc' - 1] = RemoveAll => installed = {}
      BY <1>1, <2>2, NothingToRemove DEF cmd
    <2>4. QED
      BY <2>1, <2>3
  <1>2. CASE Ask
    <2>1. /\ Waiting' /\ cmd' = cmd /\ installed' = installed
          /\ cmd.do = "remove" => plan' = {} /\ installed \cap cmd.of \subseteq remove'
      BY <1>2, AskFacts
    <2>2. QED
      BY <2>1
  <1>3. CASE AptGetReturns
    <2>1. /\ Waiting /\ ~ Waiting' /\ installed' = installed
      BY <1>3, ReturnFacts
    <2>2. pc' - 1 = pc /\ remove = {}
      BY <1>3, FineReturn, Numbers
    <2>3. ASSUME Program[pc' - 1] = RemoveAll PROVE installed = {}
      <3>1. cmd = RemoveAll
        BY <2>2, <2>3 DEF cmd
      <3>2. installed \cap cmd.of \subseteq remove
        BY <1>0, <1>01, <2>1, <3>1 DEF QuietInv, Emptied
      <3>3. QED
        BY <1>01, <2>2, <3>1, <3>2
    <2>4. QED
      BY <2>1, <2>3
  <1>4. CASE HostStepsOn
    <2>1. pc' = pc /\ (Waiting' <=> Waiting) /\ cmd' = cmd
      BY <1>4, HostFacts
    <2>2. pc \in 1..Len(Program)
      BY <1>0, CmdTyped DEF Fine, Host
    <2>3. CASE Waiting /\ cmd.do = "remove"
      <3>1. Alive = {}
        <4>1. pc \notin Loud
          BY <2>2, <2>3, RemovePlaces DEF cmd
        <4>2. QED
          BY <1>0, <4>1 DEF QuietInv, Calm
      <3>2. plan = {} /\ installed \cap cmd.of \subseteq remove
        BY <1>0, <2>3 DEF QuietInv, Emptied
      <3>3. plan' = {} /\ installed' \cap cmd.of \subseteq remove'
        BY <1>4, <2>3, <3>1, <3>2, HostWorks
        DEF pre_mode, DpkgRemove, DpkgInstall, DpkgDone, DpkgFail, post_mode, Spawn, fileVars
      <3>4. QED
        BY <2>1, <2>3, <3>3
    <2>4. CASE ~ Waiting /\ pc > 1 /\ Program[pc - 1] = RemoveAll
      <3>1. pc - 1 \in 1..Len(Program) /\ pc = (pc - 1) + 1
        BY <2>2, <2>4, Numbers
      <3>2. pc \notin Loud
        BY <1>01, <2>4, <3>1, RemovePlaces
      <3>3. Alive = {} /\ installed = {}
        BY <1>0, <2>4, <3>2 DEF QuietInv, Calm, Emptied
      <3>4. installed' = {}
        BY <1>4, <2>4, <3>3, HostQuiet
      <3>5. QED
        BY <2>1, <2>4, <3>4
    <2>5. QED
      BY <2>1, <2>3, <2>4
  <1>5. QED
    BY <1>1, <1>2, <1>3, <1>4, StepCases

\* check-default.sh, from its removal on, brings in no -hwe package.
LEMMA BaseOnlyStep ==
    ASSUME Host, QuietInv, Emptied', [ChecksNext]_allVars
    PROVE  BaseOnly'
  <1> SUFFICES ASSUME Fine', pc' \in 3..DefaultEnd
               PROVE  ~ HasHwe(installed' \cup plan') /\ remove' = {}
    BY DEF BaseOnly, DefaultEnd, HasHwe, is_hwe_pkg
  <1>0. Fine /\ verdict' = "running"
    BY FineBefore DEF Fine
  <1>01. Program[2] = RemoveAll
    BY LineFacts DEF Facts, DefaultFacts
  <1>02. pc \in 1..Len(Program)
    BY <1>0, CmdTyped DEF Fine, Host
  <1>03. pc \notin Loud => Alive = {}
    BY <1>0 DEF QuietInv, Calm
  <1>04. pc \in 3..DefaultEnd => ~ HasHwe(installed \cup plan) /\ remove = {}
    BY <1>0 DEF QuietInv, BaseOnly
  <1>1. CASE Walk
    <2>1. /\ ~ Waiting /\ ~ Waiting' /\ UNCHANGED <<installed, plan, remove>>
      BY <1>1, WalkFacts
    <2>2. pc' = pc + 1
      BY <1>0, <1>1, WalkOn
    <2>3. CASE pc = 2
      <3>1. installed' = {}
        BY <1>01, <2>1, <2>2, <2>3 DEF Emptied, RemoveAll, Cmd, Pkgs, Stems, Variants
      <3>2. plan = {} /\ remove = {}
        BY <1>03, <2>1, <2>3, NobodyElse, Numbers DEF Loud
      <3>3. QED
        BY <2>1, <3>1, <3>2 DEF HasHwe
    <2>4. CASE pc # 2
      <3>1. pc \in 3..DefaultEnd
        BY <1>02, <2>2, <2>4, Numbers
      <3>2. QED
        BY <1>04, <2>1, <3>1
    <2>5. QED
      BY <2>3, <2>4
  <1>2. CASE Ask
    <2>1. pc' = pc /\ installed' = installed /\ cmd.do \in Transactions
      BY <1>2, AskFacts DEF Transactions
    <2>2. cmd.do = "depend"
      BY <1>02, <2>1, TransactionPlaces, Numbers DEF cmd
    <2>3. ~ HasHwe(installed)
      BY <1>04, <2>1 DEF HasHwe
    <2>4. QED
      BY <1>2, <2>1, <2>2, <2>3, DependBase
  <1>3. CASE AptGetReturns
    <2>1. /\ ~ Waiting' /\ installed' = installed /\ plan' = {} /\ remove' = {}
      BY <1>3, ReturnFacts
    <2>2. pc' = pc + 1
      BY <1>3, FineReturn
    <2>3. CASE pc = 2
      <3>1. installed' = {}
        BY <1>01, <2>1, <2>2, <2>3 DEF Emptied, RemoveAll, Cmd, Pkgs, Stems, Variants
      <3>2. QED
        BY <2>1, <3>1 DEF HasHwe
    <2>4. CASE pc # 2
      <3>1. pc \in 3..DefaultEnd
        BY <1>02, <2>2, <2>4, Numbers
      <3>2. QED
        BY <1>04, <2>1, <3>1 DEF HasHwe
    <2>5. QED
      BY <2>3, <2>4
  <1>4. CASE HostStepsOn
    <2>1. pc' = pc /\ (Waiting' <=> Waiting)
      BY <1>4, HostFacts
    <2>2. Alive = {} /\ ~ HasHwe(installed \cup plan) /\ remove = {}
      BY <1>03, <1>04, <2>1, Numbers DEF Loud
    <2>3. CASE UNCHANGED <<installed, pending, phase, owner, plan, remove, ok, missing, jobState, intact>>
      BY <2>2, <2>3
    <2>4. CASE \/ pre_mode \/ DpkgRemove \/ DpkgInstall \/ DpkgDone
               \/ DpkgFail \/ post_mode \/ Spawn
      <3>1. remove' = {} /\ installed' \cup plan' = installed \cup plan
        BY <2>2, <2>4 DEF pre_mode, DpkgRemove, DpkgInstall, DpkgDone, DpkgFail, post_mode,
                          Spawn, fileVars
      <3>2. QED
        BY <2>2, <3>1
    <2>5. QED
      BY <1>4, <2>2, <2>3, <2>4, HostQuiet, HostWorks
  <1>5. QED
    BY <1>1, <1>2, <1>3, <1>4, StepCases

\* The invariant holds where a check may be started.
LEMMA QuietInit ==
    ASSUME ChecksInit
    PROVE  QuietInv
  <1>1. pc \in {1, SwitchFrom, SwitchFrom + 1, SwitchEnd + 1, SwitchEnd + 5, PairsFrom}
    BY Numbers DEF ChecksInit
  <1>2. Alive = {} /\ ~ Waiting
    BY DEF ChecksInit, Init, Alive, Waiting
  <1>3. Calm
    BY <1>2 DEF Calm
  <1>4. ~ (pc > 1 /\ Program[pc - 1] = RemoveAll)
    <2>1. RemoveAll.do = "remove"
      BY DEF RemoveAll, Cmd
    <2>2. /\ Program[DefaultEnd].do = "judge" /\ Program[SwitchFrom].do = "outside"
          /\ Program[SwitchEnd].do = "judge" /\ Program[SwitchEnd + 4].do = "outside"
          /\ Program[SwitchEnd + 7].do = "outside"
      BY LineFacts DEF Facts, DefaultFacts, SwitchFacts, PairFacts
    <2>3. \/ pc = 1 \/ pc - 1 = DefaultEnd \/ pc - 1 = SwitchFrom \/ pc - 1 = SwitchEnd
          \/ pc - 1 = SwitchEnd + 4 \/ pc - 1 = SwitchEnd + 7
      BY <1>1, Numbers
    <2>4. QED
      BY <2>1, <2>2, <2>3
  <1>5. Emptied
    BY <1>2, <1>4 DEF Emptied
  <1>6. BaseOnly
    BY <1>1, Numbers DEF BaseOnly
  <1>7. QED
    BY <1>3, <1>5, <1>6 DEF QuietInv

\* The invariant by which the checks are quiet: outside check-idempotence.sh no follow-up is
\* under way as long as the apt-get commands succeed, remove_all_test_packages leaves nothing,
\* and check-default.sh has base packages only.
THEOREM QuietInvariance == ChecksSpec => []QuietInv
  <1>1. QuietInv /\ Host /\ [ChecksNext]_allVars => QuietInv'
    BY CalmStep, EmptiedStep, BaseOnlyStep DEF QuietInv
  <1>2. QED
    BY <1>1, QuietInit, HostHolds, PTL DEF ChecksSpec

\* check.sh takes every package away before it installs one of the other variant
\* (remove_all_test_packages), so that the hook takes none of its installs for a switch: no
\* follow-up is under way when it looks at the host.  This is so for any list of packages that
\* all have both variants; with others apt-get refuses to remove (Refused).
THEOREM PairsAreNoSwitchHolds == ChecksSpec => []PairsAreNoSwitch
  <1>1. ASSUME Host, QuietInv PROVE PairsAreNoSwitch
    <2> SUFFICES ASSUME verdict = "running", hurt = {}, cmd.do \in {"in", "out"}
                 PROVE  Alive = {} /\ pending = {}
      BY DEF PairsAreNoSwitch
    <2>1. pc \in 1..Len(Program)
      BY <1>1, CmdTyped DEF Host
    <2>2. pc \notin Loud
      <3>1. ASSUME pc \in Loud PROVE FALSE
        <4>1. pc = SwitchFrom + 2 \/ pc = SwitchFrom + 3 \/ pc = SwitchFrom + 4
              \/ pc = SwitchFrom + 5 \/ pc \in (SwitchFrom + 6)..(SwitchEnd - 1)
          BY <2>1, <3>1, Numbers DEF Loud
        <4>2. QED
          BY <4>1, LineFacts DEF Facts, SwitchFacts, cmd
      <3>2. QED
        BY <3>1
    <2>3. Alive = {}
      BY <1>1, <2>2 DEF QuietInv, Calm, Fine
    <2>4. ~ Waiting
      BY <1>1 DEF Host, Counted, Transactions
    <2>5. QED
      BY <1>1, <2>3, <2>4, NobodyElse
  <1>2. QED
    BY <1>1, QuietInvariance, HostHolds, PTL

----------------------------------------------------------------------------
(***************************************************************************)
(* What check-idempotence.sh has seen is not undone behind it.             *)
(***************************************************************************)

\* The package that check-idempotence.sh installs.
HweUtils == <<Utils, "hwe">>

\* The invariant behind SwitchSeen: there is a baseline only after its command, and
\* while had_error is not set and nothing came between, what was seen is so still.
Seen ==
    /\ baseline # {} => pc > SwitchFrom + 3
    /\ verdict # "failed" /\ pc \in (SwitchFrom + 6)..(SwitchEnd + 1) /\ intact = serial
       /\ baseline # {} /\ (pc <= SwitchEnd => ~ flag) =>
          \A k \in (SwitchFrom + 6)..(SwitchEnd - 1) : k < pc =>
             /\ Program[k].do = "base_in" =>
                   \A p \in Program[k].of : Counterpart(p) \in baseline => p \in installed
             /\ Program[k].do = "switched" => Program[k].of \subseteq installed

\* The baseline is collected in one place.
LEMMA CollectPlace ==
    ASSUME NEW i \in 1..Len(Program), Program[i].do = "collect"
    PROVE  i = SwitchFrom + 3
  <1>0. Facts /\ i \in Nat
    BY LineFacts, Numbers
  <1>1. Program[2].do = "remove"
    BY <1>0 DEF Facts, DefaultFacts, RemoveAll, Cmd
  <1>2. ASSUME i < SwitchFrom + 3 PROVE FALSE
    <2>1. i = 1 \/ i = 2 \/ i \in 3..(DefaultEnd - 1) \/ i = DefaultEnd
          \/ i = SwitchFrom \/ i = SwitchFrom + 1 \/ i = SwitchFrom + 2
      BY <1>0, <1>2, Numbers
    <2>2. QED
      BY <1>0, <1>1, <2>1 DEF Facts, DefaultFacts, SwitchFacts
  <1>3. ASSUME i > SwitchFrom + 3, i <= PairsFrom PROVE FALSE
    <2>1. i = SwitchFrom + 4 \/ i = SwitchFrom + 5 \/ i \in (SwitchFrom + 6)..(SwitchEnd - 1)
          \/ i = SwitchEnd \/ i = SwitchEnd + 1 \/ i = SwitchEnd + 2 \/ i = SwitchEnd + 3
          \/ i = SwitchEnd + 4 \/ i = SwitchEnd + 5 \/ i = SwitchEnd + 6
          \/ i = SwitchEnd + 7 \/ i = SwitchEnd + 8
      BY <1>0, <1>3, Numbers
    <2>2. QED
      BY <1>0, <2>1 DEF Facts, SwitchFacts, PairFacts
  <1>4. ASSUME i > PairsFrom PROVE FALSE
    <2>1. i \in (PairsFrom + 1)..Len(Program)
      BY <1>0, <1>4, Numbers
    <2>2. QED
      BY <1>0, <2>1 DEF Facts, PairFacts, Follows
  <1>5. QED
    BY <1>0, <1>2, <1>3, <1>4, Numbers

\* That something came between, or failed, is not forgotten before the next request.
LEMMA IntactBefore ==
    ASSUME Host, HostStepsOn, intact' = serial'
    PROVE  intact = serial
  <1>0. serial' = serial /\ serial \in Nat /\ intact \in {0, serial}
    BY HostFacts, Constants, BoundsAssumption DEF Host, IInv, TypeOK
  <1>1. serial = 0 => phase = "idle" /\ \A j \in Jobs : jobState[j] = "none"
    BY <1>0 DEF Host, IInv, Bookkeeping, Jobs
  <1>2. QED
    <2>1. CASE DpkgFail
      BY <1>0, <1>1, <2>1 DEF DpkgFail
    <2>2. ASSUME NEW j \in Jobs, JobGoesOn(j) PROVE intact = serial
      <3>1. CASE intact' = intact
        BY <1>0, <3>1
      <3>2. CASE intact' # intact
        <4>1. intact' = IF intact = j THEN j ELSE 0
          BY <2>2, <3>2 DEF JobGoesOn, JobStep, JobProbe, JobInstall, AptGetInstall, JobEnds,
                            historyVars
        <4>2. jobState[j] = "poll"
          BY <2>2 DEF JobGoesOn, JobStep, JobProbe, JobInstall
        <4>3. serial # 0
          BY <1>1, <4>2
        <4>4. QED
          BY <1>0, <3>2, <4>1, <4>3
      <3>3. QED
        BY <3>1, <3>2
    <2>3. CASE TxnGoesOn \/ Others \/ OthersEnd \/ UNCHANGED allVars
      <3>1. intact' = intact
        BY <2>3 DEF TxnGoesOn, Others, OthersEnd, OtherLock, OtherUnlock, allVars, vars,
                    pre_mode, DpkgRemove, DpkgInstall, DpkgDone, post_mode, Spawn, Exit,
                    historyVars
      <3>2. QED
        BY <1>0, <3>1
    <2>4. QED
      BY <2>1, <2>2, <2>3 DEF HostStepsOn, DpkgFails

\* A package that check-idempotence.sh has seen stays, while nothing comes between.
LEMMA HostKeeps ==
    ASSUME Host, Lone = {}, HostStepsOn, ~ Waiting, intact' = serial'
    PROVE  intact = serial /\ installed \subseteq installed'
  <1>1. serial = 0 => phase = "idle"
    BY DEF Host, IInv, Bookkeeping
  <1>2. intact = serial
    BY IntactBefore
  <1>3. ~ DpkgRemove
    <2> SUFFICES ASSUME DpkgRemove PROVE FALSE
      OBVIOUS
    <2>1. phase = "dpkg" /\ remove # {}
      BY DEF DpkgRemove
    <2>2. owner # User /\ intact # 0
      BY <1>1, <1>2, <2>1 DEF Waiting, User
    <2>3. NoLone
      BY DEF NoLone
    <2>4. Tracked
      BY <2>2, <2>3 DEF Host, IInv, Track
    <2>5. QED
      BY <2>1, <2>2, <2>4 DEF Tracked
  <1>4. installed \subseteq installed'
    <2>1. ASSUME NEW j \in Jobs, JobGoesOn(j) PROVE installed' = installed
      BY <2>1 DEF JobGoesOn, JobStep, JobProbe, JobInstall, AptGetInstall, JobEnds, fileVars
    <2>2. CASE TxnGoesOn \/ DpkgFails \/ Others \/ OthersEnd \/ UNCHANGED allVars
      BY <1>3, <2>2 DEF TxnGoesOn, DpkgFails, Others, OthersEnd, OtherLock, OtherUnlock, allVars,
                  vars, pre_mode, DpkgInstall, DpkgDone, DpkgFail, post_mode, Spawn, Exit,
                  fileVars
    <2>3. QED
      BY <2>1, <2>2 DEF HostStepsOn
  <1>5. QED
    BY <1>2, <1>4

\* The commands between the install of check-idempotence.sh and check.sh.
LEMMA LookingPlaces ==
    ASSUME NEW i \in (SwitchFrom + 5)..(SwitchEnd + 1)
    PROVE  /\ i \in 1..Len(Program)
           /\ Program[i].do \notin Transactions /\ Program[i].do # "collect"
           /\ i \in (SwitchFrom + 6)..(SwitchEnd - 1) =>
                 Program[i].do \in {"base_in", "base_out", "switched", "gone"}
  <1>0. i \in 1..Len(Program) /\ i \in Nat
    BY Numbers
  <1>1. i = SwitchFrom + 5 \/ i \in (SwitchFrom + 6)..(SwitchEnd - 1) \/ i = SwitchEnd
        \/ i = SwitchEnd + 1
    BY Numbers
  <1>2. SwitchFacts /\ PairFacts
    BY LineFacts DEF Facts
  <1>3. CASE i = SwitchFrom + 5
    <2>1. Program[i].do = "begin" /\ i \notin (SwitchFrom + 6)..(SwitchEnd - 1)
      BY <1>0, <1>2, <1>3, Numbers DEF SwitchFacts
    <2>2. QED
      BY <1>0, <2>1 DEF Transactions
  <1>4. CASE i \in (SwitchFrom + 6)..(SwitchEnd - 1)
    <2>1. Program[i].do \in {"base_in", "base_out", "switched", "gone"}
      BY <1>2, <1>4 DEF SwitchFacts
    <2>2. QED
      BY <1>0, <2>1 DEF Transactions
  <1>5. CASE i = SwitchEnd \/ i = SwitchEnd + 1
    <2>1. Program[i].do \in {"judge", "outside"}
      BY <1>2, <1>5 DEF SwitchFacts, PairFacts
    <2>2. i \notin (SwitchFrom + 6)..(SwitchEnd - 1)
      BY <1>5, Numbers
    <2>3. QED
      BY <1>0, <2>1, <2>2 DEF Transactions
  <1>6. QED
    BY <1>1, <1>3, <1>4, <1>5

\* What had_error says of the look just taken.
LEMMA NoteFacts ==
    ASSUME Host, Walk, ~ flag', cmd.do \in {"base_in", "base_out", "switched", "gone"},
           \E p : cmd.of = {p}
    PROVE  /\ ~ flag
           /\ cmd.do = "base_in" => \A p \in cmd.of : Counterpart(p) \in baseline => p \in installed
           /\ cmd.do = "switched" => cmd.of \subseteq installed
  <1>1. Note
    BY DEF Walk, CheckStep, Update, Outside, AptGet, Reset, Collect, Look, Judge, At
  <1>2. PICK p \in cmd.of :
          flag' = CASE cmd.do = "any" -> flag /\ ~ is_installed(p)
                    [] cmd.do = "base_in" ->
                          flag \/ (Counterpart(p) \in baseline /\ ~ is_installed(p))
                    [] cmd.do = "base_out" ->
                          flag \/ (p \in baseline /\ is_installed(p))
                    [] cmd.do = "switched" -> flag \/ ~ is_installed(p)
                    [] cmd.do = "gone"     -> flag \/ is_installed(p)
    BY <1>1 DEF Note
  <1>3. flag \in BOOLEAN /\ cmd.of = {p}
    BY <1>2 DEF Host, ChecksTypeOK
  <1>4. CASE cmd.do = "base_in"
    <2>1. flag' = (flag \/ (Counterpart(p) \in baseline /\ ~ is_installed(p)))
      BY <1>2, <1>4
    <2>2. ~ flag /\ (Counterpart(p) \in baseline => p \in installed)
      BY <2>1 DEF is_installed
    <2>3. QED
      BY <1>3, <1>4, <2>2
  <1>5. CASE cmd.do = "base_out"
    <2>1. flag' = (flag \/ (p \in baseline /\ is_installed(p)))
      BY <1>2, <1>5
    <2>2. QED
      BY <1>5, <2>1
  <1>6. CASE cmd.do = "switched"
    <2>1. flag' = (flag \/ ~ is_installed(p))
      BY <1>2, <1>6
    <2>2. ~ flag /\ p \in installed
      BY <2>1 DEF is_installed
    <2>3. QED
      BY <1>3, <1>6, <2>2
  <1>7. CASE cmd.do = "gone"
    <2>1. flag' = (flag \/ is_installed(p))
      BY <1>2, <1>7
    <2>2. QED
      BY <1>7, <2>1
  <1>8. QED
    BY <1>4, <1>5, <1>6, <1>7

\* BASELINE_PKGS is filled at its place.
LEMMA BaselineStep ==
    ASSUME Host, [ChecksNext]_allVars, baseline # {} => pc > SwitchFrom + 3
    PROVE  baseline' # {} => pc' > SwitchFrom + 3
  <1>1. CASE Walk
    <2>1. verdict = "running" /\ (Onward \/ Stops)
          /\ (cmd.do # "collect" => baseline' = baseline)
      BY <1>1, WalkFacts
    <2>2. pc \in 1..Len(Program) /\ pc \in Nat
      BY <2>1, CmdTyped DEF Host
    <2>3. CASE cmd.do = "collect"
      <3>1. pc = SwitchFrom + 3
        BY <2>2, <2>3, CollectPlace DEF cmd
      <3>2. Collect
        BY <1>1, <2>3 DEF Walk, CheckStep, Update, Outside, AptGet, Reset, Note, Look, Judge, At
      <3>3. baseline' # {} => pc' = pc + 1
        BY <3>2 DEF Collect, Onward
      <3>4. QED
        BY <2>2, <3>1, <3>3, Numbers
    <2>4. CASE cmd.do # "collect"
      <3>1. pc' = pc \/ pc' = pc + 1
        BY <2>1 DEF Onward, Stops
      <3>2. QED
        BY <2>1, <2>2, <2>4, <3>1, Numbers
    <2>5. QED
      BY <2>3, <2>4
  <1>2. CASE Ask
    BY <1>2, AskFacts
  <1>3. CASE AptGetReturns
    <2>1. baseline' = baseline /\ pc \in 1..Len(Program) /\ (Onward \/ Stops)
      BY <1>3, ReturnFacts
    <2>2. (pc' = pc \/ pc' = pc + 1) /\ pc \in Nat
      BY <2>1, Numbers DEF Onward, Stops
    <2>3. QED
      BY <2>1, <2>2, Numbers
  <1>4. CASE HostStepsOn
    BY <1>4, HostFacts
  <1>5. QED
    BY <1>1, <1>2, <1>3, <1>4, StepCases

\* What check-idempotence.sh has seen of the packages.
LEMMA SeenStep ==
    ASSUME Host, Host', Lone = {}, Seen, [ChecksNext]_allVars
    PROVE  Seen'
  <1> SUFFICES ASSUME verdict' # "failed", pc' \in (SwitchFrom + 6)..(SwitchEnd + 1),
                      intact' = serial', baseline' # {}, pc' <= SwitchEnd => ~ flag',
                      NEW k \in (SwitchFrom + 6)..(SwitchEnd - 1), k < pc'
               PROVE  /\ Program[k].do = "base_in" =>
                            \A p \in Program[k].of : Counterpart(p) \in baseline' => p \in installed'
                      /\ Program[k].do = "switched" => Program[k].of \subseteq installed'
    <2>1. baseline' # {} => pc' > SwitchFrom + 3
      BY BaselineStep DEF Seen
    <2>2. QED
      BY <2>1 DEF Seen, DefaultEnd, SwitchFrom, SwitchEnd, Counterpart, Other
  <1> DEFINE Kept == /\ Program[k].do = "base_in" =>
                            \A p \in Program[k].of : Counterpart(p) \in baseline => p \in installed
                     /\ Program[k].do = "switched" => Program[k].of \subseteq installed
  <1>0. /\ verdict # "failed" /\ pc \in (SwitchFrom + 6)..(SwitchEnd + 1) /\ intact = serial
        /\ k < pc /\ baseline # {}
        /\ pc <= SwitchEnd => ~ flag
        => Kept
    BY DEF Seen
  <1>1. CASE Walk
    <2>1. verdict = "running" /\ UNCHANGED <<installed, intact, serial>>
      BY <1>1, WalkFacts
    <2>01. intact = serial
      BY <2>1
    <2>2. Onward /\ pc' = pc + 1 /\ pc \in 1..Len(Program) /\ pc \in Nat /\ ~ Stops
      <3>1. verdict' = "running" \/ verdict' = "passed"
        BY DEF Host, ChecksTypeOK
      <3>2. QED
        BY <1>1, <3>1, WalkOn
    <2>3. pc \in (SwitchFrom + 5)..SwitchEnd
      BY <2>2, Numbers
    <2>4. pc \in (SwitchFrom + 5)..(SwitchEnd + 1)
      BY <2>3, Numbers
    <2>5. baseline' = baseline
      BY <1>1, <2>4, LookingPlaces, WalkFacts DEF cmd
    <2>6. CASE pc = SwitchFrom + 5
      BY <2>2, <2>6, Numbers
    <2>7. CASE pc \in (SwitchFrom + 6)..(SwitchEnd - 1)
      <3>1. ~ flag'
        BY <2>2, <2>7, Numbers
      <3>2. cmd.do \in {"base_in", "base_out", "switched", "gone"} /\ \E p : cmd.of = {p}
        BY <2>7, LineFacts DEF Facts, SwitchFacts, cmd
      <3>3. /\ ~ flag
            /\ cmd.do = "base_in" =>
                  \A p \in cmd.of : Counterpart(p) \in baseline => p \in installed
            /\ cmd.do = "switched" => cmd.of \subseteq installed
        BY <1>1, <3>1, <3>2, NoteFacts
      <3>4. CASE k = pc
        BY <2>1, <2>5, <3>3, <3>4 DEF cmd
      <3>5. CASE k # pc
        <4>1. k < pc
          BY <2>2, <3>5, Numbers
        <4>2. pc \in (SwitchFrom + 6)..(SwitchEnd + 1)
          BY <2>7, Numbers
        <4>3. Kept
          <5> HIDE DEF Kept
          <5> QED
            BY <1>0, <2>1, <2>01, <2>5, <3>3, <4>1, <4>2
        <4>4. QED
          BY <2>1, <2>5, <4>3
      <3>6. QED
        BY <3>4, <3>5
    <2>8. CASE pc = SwitchEnd
      <3>1. cmd.do = "judge"
        BY <2>8, LineFacts DEF Facts, SwitchFacts, cmd
      <3>2. Judge
        BY <1>1, <3>1 DEF Walk, CheckStep, Update, Outside, AptGet, Reset, Collect, Look, Note, At
      <3>3. ~ flag
        BY <2>2, <3>2 DEF Judge
      <3>4. pc \in (SwitchFrom + 6)..(SwitchEnd + 1) /\ k < pc
        BY <2>8, Numbers
      <3>5. Kept
        <4> HIDE DEF Kept
        <4> QED
          BY <1>0, <2>1, <2>01, <2>5, <3>3, <3>4
      <3>6. QED
        BY <2>1, <2>5, <3>5
    <2>9. pc = SwitchFrom + 5 \/ pc \in (SwitchFrom + 6)..(SwitchEnd - 1) \/ pc = SwitchEnd
      BY <2>3, Numbers
    <2>10. QED
      BY <2>6, <2>7, <2>8, <2>9
  <1>2. CASE Ask
    <2>1. pc' = pc /\ cmd.do \in Transactions
      BY <1>2, AskFacts DEF Transactions
    <2>2. pc \in (SwitchFrom + 5)..(SwitchEnd + 1)
      BY <2>1, Numbers
    <2>3. QED
      BY <2>1, <2>2, LookingPlaces DEF cmd
  <1>3. CASE AptGetReturns
    <2>1. cmd.do \in Transactions /\ pc \in 1..Len(Program) /\ Onward
      BY <1>3, ReturnFacts DEF Stops
    <2>2. pc \in (SwitchFrom + 5)..(SwitchEnd + 1)
      BY <2>1, Numbers DEF Onward
    <2>3. QED
      BY <2>1, <2>2, LookingPlaces DEF cmd
  <1>4. CASE HostStepsOn
    <2>1. UNCHANGED <<pc, baseline, flag, verdict, serial>>
      BY <1>4, HostFacts
    <2>2. pc \in (SwitchFrom + 5)..(SwitchEnd + 1)
      BY <2>1, Numbers
    <2>3. ~ Waiting
      <3>1. Waiting => cmd.do \in Transactions
        BY DEF Host, Counted
      <3>2. QED
        BY <2>2, <3>1, LookingPlaces DEF cmd
    <2>4. intact = serial /\ installed \subseteq installed'
      BY <1>4, <2>3, HostKeeps
    <2>5. Kept
      BY <1>0, <2>1, <2>4
    <2>6. QED
      BY <2>1, <2>4, <2>5
  <1>5. QED
    BY <1>1, <1>2, <1>3, <1>4, StepCases

\* A check starts with no baseline.
LEMMA SeenInit == ChecksInit => Seen
  <1> SUFFICES ASSUME ChecksInit PROVE Seen
    OBVIOUS
  <1>1. baseline = {}
    BY DEF ChecksInit
  <1>2. QED
    BY <1>1 DEF Seen

\* "Baseline package switch verification passed" of check-idempotence.sh is true when it is
\* printed: every base package of the baseline has its -hwe counterpart, and no base package is
\* left, although the packages were read one after another while the follow-up installed them.
\* The hypothesis: every package has both variants, as check.sh takes for granted of its list,
\* where it installs <package> and <package>-hwe for each name; packages that others need and
\* that have one variant only (seabios, qemu-efi-aarch64) are then not on the host.
THEOREM SwitchSeenHolds ==
    ASSUME Lone = {}
    PROVE  ChecksSpec => []SwitchSeen
  <1>1. Host /\ Host' /\ Seen /\ [ChecksNext]_allVars => Seen'
    BY SeenStep
  <1>2. ChecksSpec => []Seen
    BY <1>1, SeenInit, HostHolds, PTL DEF ChecksSpec
  <1>3. ASSUME Host, Seen PROVE SwitchSeen
    <2> SUFFICES ASSUME After("judge"), baseline # {}, intact = serial
                 PROVE  /\ \A p \in baseline : ~ is_hwe_pkg(p) => Counterpart(p) \in installed
                        /\ \A p \in installed : p[1] \notin Lone => is_hwe_pkg(p)
      BY DEF SwitchSeen
    <2>1. pc > SwitchFrom + 3 /\ verdict # "failed" /\ Program[pc - 1].do = "judge"
      BY <1>3 DEF Seen, After
    <2>2. pc \in Nat /\ pc - 1 \in 1..Len(Program) /\ (pc - 1) + 1 = pc
      BY <1>3, <2>1, Numbers DEF Host, ChecksTypeOK
    <2>3. pc - 1 \in {DefaultEnd, SwitchEnd}
      BY <2>1, <2>2, LineFacts DEF Facts, Judgements
    <2>4. pc = SwitchEnd + 1
      BY <2>1, <2>2, <2>3, Numbers
    <2>5. ASSUME NEW k \in (SwitchFrom + 6)..(SwitchEnd - 1)
          PROVE  /\ Program[k].do = "base_in" =>
                       \A p \in Program[k].of : Counterpart(p) \in baseline => p \in installed
                 /\ Program[k].do = "switched" => Program[k].of \subseteq installed
      <3>1. k < pc /\ pc \in (SwitchFrom + 6)..(SwitchEnd + 1) /\ ~ pc <= SwitchEnd
        BY <2>4, Numbers
      <3>2. QED
        BY <1>3, <2>1, <3>1 DEF Seen
    <2>6. HweUtils \in installed
      <3>1. SwitchEnd - 2 \in (SwitchFrom + 6)..(SwitchEnd - 1)
        BY Numbers
      <3>2. Program[SwitchEnd - 2].do = "switched" /\ Program[SwitchEnd - 2].of = {HweUtils}
        BY <3>1, LineFacts DEF Facts, SwitchFacts, HweUtils
      <3>3. QED
        BY <2>5, <3>1, <3>2
    <2>7. ASSUME NEW p \in installed PROVE is_hwe_pkg(p)
      <3>1. p \in Pkgs /\ p[2] \in {"base", "hwe"}
        BY <1>3, Constants, PkgShape DEF Host, IInv, TypeOK, Variants
      <3>2. ~ Conflict(p, HweUtils)
        BY <1>3, <2>6 DEF Host, IInv, Coherent, ConflictFree
      <3>3. QED
        BY <3>1, <3>2 DEF Conflict, HweUtils, is_hwe_pkg
    <2>8. ASSUME NEW p \in baseline, ~ is_hwe_pkg(p) PROVE Counterpart(p) \in installed
      <3>1. p \in Pkgs
        BY <1>3, Constants DEF Host, ChecksTypeOK
      <3>2. p = <<p[1], "base">> /\ p[1] \in Stems
        BY <2>8, <3>1, PkgShape DEF is_hwe_pkg, Variants
      <3>3. PICK k \in (SwitchFrom + 6)..(SwitchEnd - 1) :
               Program[k].do = "base_in" /\ Program[k].of = {<<p[1], "hwe">>}
        BY <3>2, LineFacts DEF Facts, SwitchFacts
      <3>4. Counterpart(<<p[1], "hwe">>) = p /\ Counterpart(p) = <<p[1], "hwe">>
        BY <3>2 DEF Counterpart, Other
      <3>5. QED
        BY <2>5, <3>3, <3>4
    <2>9. QED
      BY <2>7, <2>8
  <1>4. QED
    BY <1>2, <1>3, HostHolds, PTL

=============================================================================
