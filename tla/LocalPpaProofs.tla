--------------------------- MODULE LocalPpaProofs ---------------------------
(***************************************************************************)
(* Theorems about the local archive, for any packages, versions,           *)
(* directories and bounds.                                                 *)
(***************************************************************************)
EXTENDS LocalPpa, WellFoundedInduction, TLAPS

----------------------------------------------------------------------------
(***************************************************************************)
(* What dpkg-scanpackages lists.                                           *)
(***************************************************************************)
\* Of the versions of a package that are there, one is the newest.
LEMMA NewestExists ==
    ASSUME NEW V, V \subseteq Versions, V # {}
    PROVE  \E v \in V : \A w \in V : w <= v
  <1> DEFINE T == {n \in Nat : MaxVersion - n \in V}
             R == {ss \in Nat \X Nat : ss[1] < ss[2]}
  <1>1. V \subseteq 1..MaxVersion /\ MaxVersion \in Nat
    BY PpaAssumption DEF Versions
  <1>2. \A v \in V : v \in Int /\ MaxVersion - v \in T
    BY <1>1
  <1>3. T \subseteq Nat /\ T # {}
    BY <1>2
  <1>4. IsWellFoundedOn(R, Nat)
    BY NatLessThanWellFounded, Zenon DEF OpToRel
  <1>5. PICK x \in T : \A y \in T : ~ (<<y, x>> \in R)
    <2> HIDE DEF T, R
    <2> QED
      BY <1>3, <1>4, WFMin
  <1>6. ASSUME NEW y \in T
        PROVE  x <= y
    <2>1. <<y, x>> \in Nat \X Nat /\ <<y, x>> \notin R
      BY <1>3, <1>5
    <2>2. ~ (y < x)
      BY <2>1
    <2>3. QED
      BY <1>3, <2>2
  <1>7. MaxVersion - x \in V /\ x \in Nat
    OBVIOUS
  <1>8. ASSUME NEW w \in V
        PROVE  w <= MaxVersion - x
    <2>1. x <= MaxVersion - w
      BY <1>2, <1>6
    <2>2. QED
      BY <1>1, <1>2, <1>7, <2>1
  <1>9. QED
    BY <1>7, <1>8

\* The index of a set of files lists files of that set.
LEMMA NewestListed ==
    ASSUME NEW S
    PROVE  /\ Newest(S) \in Listing
           /\ \A p \in Pkgs : Newest(S)[p] # 0 => <<p, Newest(S)[p]>> \in S
  <1>1. ASSUME NEW p \in Pkgs
        PROVE  /\ Newest(S)[p] \in 0..MaxVersion
               /\ Newest(S)[p] # 0 => <<p, Newest(S)[p]>> \in S
    <2> DEFINE V == {v \in Versions : <<p, v>> \in S}
    <2>1. CASE V = {}
      <3>1. Newest(S)[p] = 0
        BY <2>1 DEF Newest
      <3>2. QED
        BY <3>1, PpaAssumption
    <2>2. CASE V # {}
      <3>1. \E v \in Versions :
                <<p, v>> \in S /\ \A w \in Versions : <<p, w>> \in S => w <= v
        BY <2>2, NewestExists, Zenon
      <3>2. /\ Newest(S)[p] \in Versions
            /\ <<p, Newest(S)[p]>> \in S
        BY <2>2, <3>1, Zenon DEF Newest
      <3>3. QED
        BY <3>2, PpaAssumption DEF Versions
    <2>3. QED
      BY <2>1, <2>2
  <1>2. Newest(S) = [p \in Pkgs |-> Newest(S)[p]]
    BY DEF Newest
  <1>3. QED
    BY <1>1, <1>2 DEF Listing
----------------------------------------------------------------------------
(***************************************************************************)
(* The inductive invariant.                                                *)
(***************************************************************************)
WholeIndex(S) == [st |-> "whole", of |-> Newest(S)]

\* Both index files of a directory agree with its files.
Indexed(d) == /\ broken[d] = {}
              /\ index[d] = WholeIndex(files[d]) /\ gz[d] = index[d]

\* A directory that no script has left unfinished was never indexed, or is
\* indexed.
Finished == \A d \in Dirs \ partial :
    (index[d] = NoIndex /\ gz[d] = NoIndex) \/ Indexed(d)

\* How far the running script has come.
Progress ==
    /\ pc # "idle" => wanted = {} /\ source # {}
    /\ pc = "clear" => todo = source
    /\ pc = "copy" => /\ source = files[dir] \cup todo
                      /\ todo = source \/ dir \in partial
    /\ pc \in {"scan", "gzip", "list", "update"} => files[dir] = source
    /\ pc \in {"scan", "gzip"} => dir \in partial
    /\ pc \in {"copy", "scan", "gzip"} => broken[dir] = {}
    /\ pc = "gzip" => index[dir] = WholeIndex(files[dir])
    /\ pc \in {"list", "update"} => Indexed(dir)
    /\ pc = "update" => list = dir

\* What the last script published is what apt and the directory hold.
Latest == wanted # {} =>
    /\ list = dir /\ files[dir] = wanted /\ Indexed(dir)
    /\ cache = [dir |-> dir, of |-> Newest(wanted)]

\* An unfinished directory has changed since apt read it, an incomplete file is
\* a file, and apt has no entries without a directory.
Marked ==
    /\ partial \subseteq dirty
    /\ \A d \in Dirs : broken[d] \subseteq files[d]
    /\ cache.dir = NoDir => cache.of = NoEntry

PpaInv == TypeOK /\ Finished /\ Progress /\ Latest /\ Marked /\ Offered

----------------------------------------------------------------------------
(***************************************************************************)
(* Type correctness.                                                       *)
(***************************************************************************)
\* What the steps write has its type.
LEMMA IndexesTyped ==
    /\ NoEntry \in Listing /\ NoIndex \in Indexes /\ Torn \in Indexes
    /\ \A S : WholeIndex(S) \in Indexes
    /\ \A x \in Indexes : x.of \in Listing
  <1>1. NoEntry \in Listing
    BY PpaAssumption DEF NoEntry, Listing
  <1>2. \A S : WholeIndex(S) \in Indexes
    BY NewestListed DEF WholeIndex, Indexes
  <1>3. QED
    BY <1>1, <1>2 DEF NoIndex, Torn, Indexes

\* The archive and apt's view of it keep their types.
ArchiveOK == /\ files \in [Dirs -> SUBSET Debs] /\ broken \in [Dirs -> SUBSET Debs]
             /\ index \in [Dirs -> Indexes] /\ gz \in [Dirs -> Indexes]

AptOK == /\ list \in Dirs \cup {NoDir}
         /\ cache \in [dir : Dirs \cup {NoDir}, of : Listing]

LoopOK == /\ pc \in {"idle", "clear", "copy", "scan", "gzip", "list", "update"}
          /\ script \in {"setup", "update"} /\ dir \in Dirs /\ skip \in BOOLEAN
          /\ todo \in SUBSET Debs

NotesOK == /\ wanted \in SUBSET Debs
           /\ partial \in SUBSET Dirs /\ dirty \in SUBSET Dirs

LimitsOK == /\ commands \in 0..MaxCommands /\ deliveries \in 0..MaxDeliveries
            /\ kills \in 0..MaxKills

SourceOK == source \in SUBSET Debs /\ bad \in SUBSET Debs

\* TypeOK is the conjunction of its parts, now and after a step.
LEMMA TypeParts ==
    /\ TypeOK <=> /\ SourceOK /\ ArchiveOK /\ AptOK
                  /\ LoopOK /\ NotesOK /\ LimitsOK
    /\ TypeOK' <=> /\ SourceOK' /\ ArchiveOK' /\ AptOK'
                   /\ LoopOK' /\ NotesOK' /\ LimitsOK'
  BY DEF TypeOK, SourceOK, ArchiveOK, AptOK, LoopOK, NotesOK, LimitsOK

\* The initial state is well typed.
LEMMA InitTyped ==
    ASSUME Init
    PROVE  TypeOK
  <1>1. ArchiveOK
    BY IndexesTyped DEF Init, ArchiveOK
  <1>2. AptOK
    BY IndexesTyped DEF Init, AptOK
  <1>3. LimitsOK
    BY PpaAssumption DEF Init, LimitsOK
  <1>4. SourceOK /\ NotesOK
    BY DEF Init, SourceOK, NotesOK
  <1>5. LoopOK
    BY DEF Init, LoopOK
  <1>6. QED
    BY <1>1, <1>2, <1>3, <1>4, <1>5, TypeParts

\* Every step keeps the types, part by part.
LEMMA StepTyped ==
    ASSUME TypeOK, [Next]_vars
    PROVE  TypeOK'
  <1> USE TypeParts
  <1>1. SourceOK'
    <2>1. CASE Deliver
      BY <2>1 DEF Deliver, SourceOK
    <2>2. CASE ~ Deliver
      BY <2>2 DEF Next, vars, Setup, Update, Command, Clear, Cleared, Copy, Copied, Scan,
                  Gzip, WriteList, Denied, AptGetUpdate, OtherUpdate, Kill, SourceOK
    <2>3. QED
      BY <2>1, <2>2
  <1>2. ArchiveOK'
    <2>0. ArchiveOK /\ LoopOK /\ SourceOK
      OBVIOUS
    <2>1. CASE Clear
      BY <2>0, <2>1, IndexesTyped DEF Clear, ArchiveOK, LoopOK
    <2>2. CASE Copy
      BY <2>0, <2>2 DEF Copy, ArchiveOK, LoopOK, SourceOK
    <2>3. CASE Copied \/ Gzip
      BY <2>0, <2>3, IndexesTyped DEF Copied, Gzip, ArchiveOK, LoopOK
    <2>4. CASE Scan
      BY <2>0, <2>4, IndexesTyped DEF Scan, ArchiveOK, LoopOK, WholeIndex
    <2>5. CASE Kill
      <3>1. CASE UNCHANGED index
        BY <2>0, <2>5, <3>1 DEF Kill, ArchiveOK, LoopOK
      <3>2. CASE \E S \in SUBSET Pkgs :
                    index' = [index EXCEPT ![dir].of =
                        [p \in Pkgs |-> IF p \in S THEN Newest(files[dir])[p] ELSE 0]]
        <4>1. PICK S \in SUBSET Pkgs :
                    index' = [index EXCEPT ![dir].of =
                        [p \in Pkgs |-> IF p \in S THEN Newest(files[dir])[p] ELSE 0]]
          BY <3>2
        <4>2. [p \in Pkgs |-> IF p \in S THEN Newest(files[dir])[p] ELSE 0] \in Listing
          BY NewestListed, PpaAssumption DEF Listing
        <4>3. index' \in [Dirs -> Indexes]
          BY <2>0, <4>1, <4>2 DEF ArchiveOK, Indexes
        <4>4. QED
          BY <2>0, <2>5, <4>3 DEF Kill, ArchiveOK, LoopOK
      <3>3. QED
        BY <2>5, <3>1, <3>2 DEF Kill
    <2>6. CASE UNCHANGED archiveVars
      BY <2>0, <2>6 DEF archiveVars, ArchiveOK
    <2>7. QED
      BY <2>1, <2>2, <2>3, <2>4, <2>5, <2>6
      DEF Next, vars, Deliver, Setup, Update, Command, Cleared, WriteList, Denied,
          AptGetUpdate, OtherUpdate
  <1>3. AptOK'
    <2>1. CASE UNCHANGED aptVars
      BY <2>1 DEF aptVars, AptOK
    <2>2. CASE WriteList
      BY <2>2 DEF WriteList, AptOK, LoopOK
    <2>3. CASE Read /\ UNCHANGED list
      <3>1. PICK x \in {index[list], gz[list]} : cache' = [dir |-> list, of |-> x.of]
        BY <2>3 DEF Read
      <3>2. list \in Dirs
        BY <2>3 DEF Read, AptOK
      <3>3. x.of \in Listing
        BY <3>2, IndexesTyped DEF ArchiveOK
      <3>4. QED
        BY <2>3, <3>1, <3>2, <3>3 DEF AptOK
    <2>4. QED
      BY <2>1, <2>2, <2>3
      DEF Next, vars, Deliver, Setup, Update, Command, Clear, Cleared, Copy, Copied, Scan,
          Gzip, Denied, AptGetUpdate, OtherUpdate, Kill
  <1>4. LoopOK'
    <2>1. CASE UNCHANGED runVars
      BY <2>1 DEF runVars, LoopOK
    <2>2. CASE Setup \/ Update
      BY <2>2 DEF Setup, Update, Command, LoopOK, SourceOK
    <2>3. CASE Cleared \/ Copy \/ Copied \/ Scan \/ Gzip \/ WriteList \/ Denied
      BY <2>3 DEF Cleared, Copy, Copied, Scan, Gzip, WriteList, Denied, Ends, LoopOK
    <2>4. CASE AptGetUpdate \/ Kill
      BY <2>4 DEF AptGetUpdate, Kill, Ends, LoopOK
    <2>5. QED
      BY <2>1, <2>2, <2>3, <2>4 DEF Next, vars, Deliver, Clear, OtherUpdate
  <1>5. NotesOK'
    <2>1. CASE AptGetUpdate \/ OtherUpdate
      BY <2>1 DEF AptGetUpdate, OtherUpdate, Read, NotesOK, SourceOK
    <2>2. CASE ~ (AptGetUpdate \/ OtherUpdate)
      BY <2>2
      DEF Next, vars, Deliver, Setup, Update, Command, Clear, Cleared, Copy, Copied, Scan,
          Gzip, WriteList, Denied, Kill, NotesOK, LoopOK
    <2>3. QED
      BY <2>1, <2>2
  <1>6. LimitsOK'
    BY PpaAssumption
    DEF Next, vars, limitVars, Deliver, Setup, Update, Command, Clear, Cleared, Copy, Copied,
        Scan, Gzip, WriteList, Denied, AptGetUpdate, OtherUpdate, Kill, LimitsOK
  <1>7. QED
    BY <1>1, <1>2, <1>3, <1>4, <1>5, <1>6

----------------------------------------------------------------------------
(***************************************************************************)
(* The invariant is preserved.                                             *)
(***************************************************************************)
\* The invariant holds at first.
LEMMA InitInv ==
    ASSUME Init
    PROVE  PpaInv
  <1>1. TypeOK
    BY InitTyped
  <1>2. Finished /\ Progress /\ Latest
    BY DEF Init, Finished, Progress, Latest
  <1>3. Marked
    BY DEF Init, Marked, NoDir
  <1>4. Offered
    BY DEF Init, Offered, NoEntry
  <1>5. QED
    BY <1>1, <1>2, <1>3, <1>4 DEF PpaInv

\* Steps that leave the archive and apt's copy of the index alone.
LEMMA ArchiveKept ==
    ASSUME PpaInv, UNCHANGED <<archiveVars, cache, partial, dirty>>
    PROVE  Finished' /\ Marked' /\ Offered'
  BY DEF PpaInv, archiveVars, Finished, Indexed, Marked, Offered, Fetchable

\* Steps that change one directory, and note it.
LEMMA DirChanged ==
    ASSUME PpaInv, dir \in Dirs, UNCHANGED cache,
           partial' = partial \cup {dir}, dirty' = dirty \cup {dir},
           \A d \in Dirs \ {dir} : /\ files'[d] = files[d] /\ broken'[d] = broken[d]
                                   /\ index'[d] = index[d] /\ gz'[d] = gz[d],
           broken'[dir] \subseteq files'[dir]
    PROVE  Finished' /\ Marked' /\ Offered'
  <1>1. Finished'
    BY DEF PpaInv, Finished, Indexed
  <1>2. Marked'
    BY DEF PpaInv, Marked
  <1>3. Offered'
    <2> SUFFICES ASSUME NEW p \in Pkgs, cache.of[p] # 0, cache.dir \notin dirty'
                 PROVE  Fetchable(p)'
      BY DEF Offered
    <2>1. Fetchable(p)
      BY DEF PpaInv, Offered
    <2>2. cache.dir # NoDir
      BY DEF PpaInv, Marked, NoEntry
    <2>3. cache.dir \in Dirs \ {dir}
      BY <2>2, TypeParts DEF PpaInv, AptOK
    <2>4. QED
      BY <2>1, <2>3 DEF Fetchable
  <1>4. QED
    BY <1>1, <1>2, <1>3

\* No script has published as long as one runs.
LEMMA NothingWanted ==
    ASSUME PpaInv, pc # "idle", UNCHANGED wanted
    PROVE  wanted' = {} /\ Latest'
  BY DEF PpaInv, Progress, Latest

\* A delivery, and the start of a script.
LEMMA CommandInv ==
    ASSUME PpaInv, Deliver \/ Setup \/ Update
    PROVE  Finished' /\ Progress' /\ Latest' /\ Marked' /\ Offered'
  <1>1. Finished' /\ Marked' /\ Offered'
    BY ArchiveKept DEF Deliver, Setup, Update, Command, aptVars
  <1>2. Progress'
    BY DEF PpaInv, Deliver, Setup, Update, Command, Progress, runVars
  <1>3. Latest'
    BY DEF PpaInv, Deliver, Setup, Update, Command, Latest, Indexed, runVars, aptVars,
           archiveVars
  <1>4. QED
    BY <1>1, <1>2, <1>3

\* rm.
LEMMA ClearInv ==
    ASSUME PpaInv, Clear \/ Cleared
    PROVE  Finished' /\ Progress' /\ Latest' /\ Marked' /\ Offered'
  <1>0. ArchiveOK /\ dir \in Dirs
    BY TypeParts DEF PpaInv, LoopOK
  <1>1. CASE Clear
    <2>1. \A d \in Dirs \ {dir} : /\ files'[d] = files[d] /\ broken'[d] = broken[d]
                                  /\ index'[d] = index[d] /\ gz'[d] = gz[d]
      BY <1>0, <1>1 DEF Clear, ArchiveOK
    <2>2. broken'[dir] \subseteq files'[dir]
      BY <1>0, <1>1 DEF PpaInv, Clear, Marked, ArchiveOK
    <2>3. Finished' /\ Marked' /\ Offered'
      BY <1>0, <1>1, <2>1, <2>2, DirChanged DEF Clear, aptVars
    <2>4. Progress' /\ Latest'
      BY <1>1, NothingWanted DEF PpaInv, Clear, Progress, runVars
    <2>5. QED
      BY <2>3, <2>4
  <1>2. CASE Cleared
    <2>1. broken[dir] = {}
      BY <1>0, <1>2 DEF PpaInv, Cleared, Marked
    <2>2. Progress' /\ Latest'
      BY <1>2, <2>1, NothingWanted DEF PpaInv, Cleared, Progress, archiveVars
    <2>3. QED
      BY <1>2, <2>2, ArchiveKept DEF Cleared, aptVars
  <1>3. QED
    BY <1>1, <1>2

\* cp, and the redirection that truncates Packages.
LEMMA CopyInv ==
    ASSUME PpaInv, Copy \/ Copied
    PROVE  Finished' /\ Progress' /\ Latest' /\ Marked' /\ Offered'
  <1>0. ArchiveOK /\ dir \in Dirs
    BY TypeParts DEF PpaInv, LoopOK
  <1>1. Latest' /\ wanted' = {}
    BY NothingWanted DEF Copy, Copied
  <1>2. CASE Copy
    <2>1. \A d \in Dirs \ {dir} : /\ files'[d] = files[d] /\ broken'[d] = broken[d]
                                  /\ index'[d] = index[d] /\ gz'[d] = gz[d]
      BY <1>0, <1>2 DEF Copy, ArchiveOK
    <2>2. broken'[dir] \subseteq files'[dir]
      BY <1>0, <1>2 DEF PpaInv, Copy, Marked, ArchiveOK
    <2>3. Finished' /\ Marked' /\ Offered'
      BY <1>0, <1>2, <2>1, <2>2, DirChanged DEF Copy, aptVars
    <2>4. source' = files'[dir] \cup todo' /\ dir' \in partial' /\ broken'[dir] = {}
      BY <1>0, <1>2 DEF PpaInv, Copy, Progress, ArchiveOK
    <2>5. Progress'
      BY <1>1, <1>2, <2>4 DEF PpaInv, Copy, Progress
    <2>6. QED
      BY <1>1, <2>3, <2>5
  <1>3. CASE Copied
    <2>1. dir \in partial /\ files[dir] = source
      BY <1>3 DEF PpaInv, Copied, Progress
    <2>2. dir \in dirty
      BY <2>1 DEF PpaInv, Marked
    <2>3. \A d \in Dirs \ {dir} : index'[d] = index[d]
      BY <1>0, <1>3 DEF Copied, ArchiveOK
    <2>4. partial' = partial \cup {dir} /\ dirty' = dirty \cup {dir}
      BY <1>3, <2>1, <2>2 DEF Copied
    <2>5. broken'[dir] \subseteq files'[dir]
      BY <1>0, <1>3 DEF PpaInv, Copied, Marked
    <2>6. Finished' /\ Marked' /\ Offered'
      BY <1>0, <1>3, <2>3, <2>4, <2>5, DirChanged DEF Copied, aptVars
    <2>7. Progress'
      BY <1>1, <1>3, <2>1 DEF PpaInv, Copied, Progress
    <2>8. QED
      BY <1>1, <2>6, <2>7
  <1>4. QED
    BY <1>2, <1>3

\* dpkg-scanpackages, which may stop.
LEMMA ScanInv ==
    ASSUME PpaInv, Scan
    PROVE  Finished' /\ Progress' /\ Latest' /\ Marked' /\ Offered'
  <1>0. ArchiveOK /\ dir \in Dirs
    BY TypeParts DEF PpaInv, LoopOK
  <1>1. Latest' /\ wanted' = {}
    BY NothingWanted DEF Scan
  <1>2. dir \in partial /\ files[dir] = source
    BY DEF PpaInv, Scan, Progress
  <1>3. dir \in dirty
    BY <1>2 DEF PpaInv, Marked
  <1>4. \A d \in Dirs \ {dir} : index'[d] = index[d] /\ gz'[d] = gz[d]
    BY <1>0 DEF Scan, ArchiveOK
  <1>5. partial' = partial \cup {dir} /\ dirty' = dirty \cup {dir}
    BY <1>2, <1>3 DEF Scan
  <1>6. broken'[dir] \subseteq files'[dir]
    BY <1>0 DEF PpaInv, Scan, Marked
  <1>7. Finished' /\ Marked' /\ Offered'
    BY <1>0, <1>4, <1>5, <1>6, DirChanged DEF Scan, aptVars
  <1>8. Progress'
    <2>1. CASE Ends
      BY <2>1 DEF Progress, Ends
    <2>2. CASE /\ index' = [index EXCEPT ![dir] = WholeIndex(files[dir])]
               /\ pc' = "gzip"
      <3>1. index'[dir] = WholeIndex(files[dir])
        BY <1>0, <2>2 DEF ArchiveOK
      <3>2. QED
        BY <1>1, <1>2, <2>2, <3>1 DEF PpaInv, Scan, Progress
    <2>3. QED
      BY <2>1, <2>2 DEF Scan, WholeIndex
  <1>9. QED
    BY <1>1, <1>7, <1>8

\* gzip: from here on the directory is finished.
LEMMA GzipInv ==
    ASSUME PpaInv, Gzip
    PROVE  Finished' /\ Progress' /\ Latest' /\ Marked' /\ Offered'
  <1>0. ArchiveOK /\ dir \in Dirs
    BY TypeParts DEF PpaInv, LoopOK
  <1>1. Latest' /\ wanted' = {}
    BY NothingWanted DEF Gzip
  <1>2. Indexed(dir)' /\ files[dir] = source
    BY <1>0 DEF PpaInv, Gzip, Progress, Indexed, ArchiveOK
  <1>3. \A d \in Dirs \ {dir} : gz'[d] = gz[d]
    BY <1>0 DEF Gzip, ArchiveOK
  <1>4. Finished'
    BY <1>2, <1>3 DEF PpaInv, Gzip, Finished, Indexed
  <1>5. Marked' /\ Offered'
    BY DEF PpaInv, Gzip, Marked, Offered, Fetchable, aptVars
  <1>6. Progress'
    BY <1>1, <1>2 DEF PpaInv, Gzip, Progress, Ends
  <1>7. QED
    BY <1>1, <1>4, <1>5, <1>6

\* local-ppa.list is written, or cannot be.
LEMMA ListInv ==
    ASSUME PpaInv, WriteList \/ Denied
    PROVE  Finished' /\ Progress' /\ Latest' /\ Marked' /\ Offered'
  <1>1. Latest' /\ wanted' = {}
    BY NothingWanted DEF WriteList, Denied
  <1>2. Finished' /\ Marked' /\ Offered'
    BY ArchiveKept DEF WriteList, Denied, aptVars
  <1>3. Progress'
    BY <1>1 DEF PpaInv, WriteList, Denied, Progress, Indexed, Ends, archiveVars
  <1>4. QED
    BY <1>1, <1>2, <1>3

\* apt reads an index.
LEMMA ReadInv ==
    ASSUME PpaInv, Read, UNCHANGED <<archiveVars, partial>>
    PROVE  /\ Finished' /\ Marked' /\ Offered'
           /\ Indexed(list) => cache' = [dir |-> list, of |-> Newest(files[list])]
  <1>0. list \in Dirs
    BY TypeParts DEF PpaInv, AptOK, Read
  <1>1. PICK x \in {index[list], gz[list]} :
            /\ x.st = "whole" \/ (x.st = "torn" /\ x = index[list])
            /\ cache' = [dir |-> list, of |-> x.of]
    BY DEF Read
  <1>2. Indexed(list) => cache' = [dir |-> list, of |-> Newest(files[list])]
    BY <1>1 DEF Indexed, WholeIndex
  <1>3. Finished'
    BY DEF PpaInv, Finished, Indexed, archiveVars
  <1>4. Marked'
    BY <1>0, <1>1, DirsAssumption DEF PpaInv, Marked, Read, archiveVars
  <1>5. Offered'
    <2>1. CASE list \in partial
      BY <1>1, <2>1 DEF PpaInv, Marked, Read, Offered
    <2>2. CASE list \notin partial
      <3>1. Indexed(list)
        BY <1>0, <1>1, <2>2 DEF PpaInv, Finished, NoIndex
      <3>2. ASSUME NEW p \in Pkgs, cache'.of[p] # 0
            PROVE  Fetchable(p)'
        BY <1>2, <3>1, <3>2, NewestListed DEF Fetchable, Indexed, archiveVars
      <3>3. QED
        BY <3>2 DEF Offered
    <2>3. QED
      BY <2>1, <2>2
  <1>6. QED
    BY <1>2, <1>3, <1>4, <1>5

\* apt-get update, of the script or of somebody else.
LEMMA UpdateInv ==
    ASSUME PpaInv, AptGetUpdate \/ OtherUpdate
    PROVE  Finished' /\ Progress' /\ Latest' /\ Marked' /\ Offered'
  <1>1. /\ Finished' /\ Marked' /\ Offered'
        /\ Indexed(list) => cache' = [dir |-> list, of |-> Newest(files[list])]
    BY ReadInv DEF AptGetUpdate, OtherUpdate
  <1>2. CASE AptGetUpdate
    <2>1. list = dir /\ Indexed(dir) /\ files[dir] = source
      BY <1>2 DEF PpaInv, AptGetUpdate, Progress
    <2>2. Latest'
      BY <1>1, <1>2, <2>1 DEF AptGetUpdate, Latest, Indexed, archiveVars
    <2>3. Progress'
      BY <1>2 DEF AptGetUpdate, Ends, Progress
    <2>4. QED
      BY <1>1, <2>2, <2>3
  <1>3. CASE OtherUpdate
    <2>1. Latest'
      BY <1>1, <1>3 DEF PpaInv, OtherUpdate, Latest, Indexed, archiveVars, runVars
    <2>2. Progress'
      BY <1>3 DEF PpaInv, OtherUpdate, Progress, Indexed, archiveVars, runVars
    <2>3. QED
      BY <1>1, <2>1, <2>2
  <1>4. QED
    BY <1>2, <1>3

\* A kill, between or inside two writes.
LEMMA KillInv ==
    ASSUME PpaInv, Kill
    PROVE  Finished' /\ Progress' /\ Latest' /\ Marked' /\ Offered'
  <1>0. ArchiveOK /\ dir \in Dirs
    BY TypeParts DEF PpaInv, LoopOK
  <1>1. Latest' /\ Progress'
    BY NothingWanted DEF Kill, Ends, Progress
  <1>2. CASE UNCHANGED <<files, broken, index, partial, dirty>>
    BY <1>1, <1>2, ArchiveKept DEF Kill, aptVars, archiveVars
  <1>3. CASE pc = "copy" /\ ~ UNCHANGED <<files, broken, index, partial, dirty>>
    <2>1. PICK f \in todo : /\ files' = [files EXCEPT ![dir] = @ \cup {f}]
                            /\ broken' = [broken EXCEPT ![dir] = @ \cup {f}]
                            /\ partial' = partial \cup {dir}
                            /\ dirty' = dirty \cup {dir}
                            /\ UNCHANGED index
      BY <1>3 DEF Kill
    <2>2. \A d \in Dirs \ {dir} : files'[d] = files[d] /\ broken'[d] = broken[d]
      BY <1>0, <2>1 DEF ArchiveOK
    <2>3. broken'[dir] \subseteq files'[dir]
      BY <1>0, <2>1 DEF PpaInv, Marked, ArchiveOK
    <2>4. Finished' /\ Marked' /\ Offered'
      BY <1>0, <2>1, <2>2, <2>3, DirChanged DEF Kill, aptVars
    <2>5. QED
      BY <1>1, <2>4
  <1>4. CASE pc = "scan" /\ ~ UNCHANGED <<files, broken, index, partial, dirty>>
    <2>1. PICK S \in SUBSET Pkgs :
              index' = [index EXCEPT ![dir].of =
                  [p \in Pkgs |-> IF p \in S THEN Newest(files[dir])[p] ELSE 0]]
      BY <1>4 DEF Kill
    <2>2. \A d \in Dirs \ {dir} : index'[d] = index[d]
      BY <1>0, <2>1 DEF ArchiveOK
    <2>3. UNCHANGED <<files, broken, gz, partial, dirty, cache>>
      BY <1>4 DEF Kill, aptVars
    <2>4. dir \in partial /\ dir \in dirty
      BY <1>4 DEF PpaInv, Progress, Marked
    <2>5. partial' = partial \cup {dir} /\ dirty' = dirty \cup {dir}
      BY <2>3, <2>4
    <2>6. broken'[dir] \subseteq files'[dir]
      BY <1>0, <2>3 DEF PpaInv, Marked
    <2>7. Finished' /\ Marked' /\ Offered'
      BY <1>0, <2>2, <2>3, <2>5, <2>6, DirChanged
    <2>8. QED
      BY <1>1, <2>7
  <1>5. QED
    BY <1>2, <1>3, <1>4 DEF Kill

----------------------------------------------------------------------------
(***************************************************************************)
(* The theorems.                                                           *)
(***************************************************************************)
\* The inductive invariant holds throughout.
THEOREM Invariance == Spec => []PpaInv
  <1>1. Init => PpaInv
    BY InitInv
  <1>2. PpaInv /\ [Next]_vars => PpaInv'
    <2> SUFFICES ASSUME PpaInv, [Next]_vars
                 PROVE  PpaInv'
      OBVIOUS
    <2>1. TypeOK'
      BY StepTyped DEF PpaInv
    <2>2. CASE Next
      BY <2>1, <2>2, CommandInv, ClearInv, CopyInv, ScanInv, GzipInv, ListInv, UpdateInv,
         KillInv
      DEF Next, PpaInv
    <2>3. CASE UNCHANGED vars
      BY <2>1, <2>3, ArchiveKept
      DEF PpaInv, vars, Progress, Latest, Indexed, archiveVars, aptVars, runVars
    <2>4. QED
      BY <2>2, <2>3
  <1>3. QED
    BY <1>1, <1>2, PTL DEF Spec

\* The archive, apt's state and the scripts are always well typed.
THEOREM TypeCorrect == Spec => []TypeOK
  <1>1. PpaInv => TypeOK
    BY DEF PpaInv
  <1>2. QED
    BY <1>1, Invariance, PTL

\* A script that went through leaves apt with the newest version of every
\* package it found, and each of them can be fetched as it was delivered.
THEOREM PublishedHolds == Spec => []Published
  <1>1. PpaInv => Published
    <2> SUFFICES ASSUME PpaInv, wanted # {}
                 PROVE  /\ cache.of = Newest(wanted)
                        /\ \A p \in Pkgs : cache.of[p] # 0 => Fetchable(p)
      BY DEF Published
    <2>1. /\ cache = [dir |-> dir, of |-> Newest(wanted)]
          /\ files[dir] = wanted /\ broken[dir] = {}
      BY DEF PpaInv, Latest, Indexed
    <2>2. QED
      BY <2>1, NewestListed DEF Fetchable
  <1>2. QED
    BY <1>1, Invariance, PTL

\* What apt offers can be fetched, unless the directory it knows was changed and
\* apt has not read its finished index since.
THEOREM OfferedHolds == Spec => []Offered
  <1>1. PpaInv => Offered
    BY DEF PpaInv
  <1>2. QED
    BY <1>1, Invariance, PTL
=============================================================================
