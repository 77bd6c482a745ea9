--------------------------- MODULE AptHookProofs ---------------------------
(***************************************************************************)
(* Machine-checked theorems about the APT hook, for every set of packages  *)
(* and every bound.                                                        *)
(***************************************************************************)
EXTENDS AptHookInv, TLAPS

----------------------------------------------------------------------------
(***************************************************************************)
(* Packages.                                                               *)
(***************************************************************************)

\* A package is the pair of its stem and its variant.
LEMMA PkgShape ==
    ASSUME NEW p \in Pkgs
    PROVE  p = <<p[1], p[2]>> /\ p[1] \in Stems /\ p[2] \in {"base", "hwe"}
BY DEF Pkgs, Variants

\* "${pkg}-hwe" and "${pkg%-hwe}" keep the stem, change the variant, and undo
\* each other.
LEMMA CounterpartShape ==
    ASSUME NEW p \in Pkgs
    PROVE  /\ Counterpart(p) \in Pkgs
           /\ Counterpart(p)[1] = p[1]
           /\ Counterpart(p)[2] = Other(p[2])
           /\ Other(p[2]) # p[2]
           /\ Counterpart(Counterpart(p)) = p
<1>1. p = <<p[1], p[2]>> /\ p[1] \in Stems /\ p[2] \in {"base", "hwe"}
  BY PkgShape
<1>2. Other(p[2]) \in {"base", "hwe"} /\ Other(p[2]) # p[2] /\ Other(Other(p[2])) = p[2]
  BY <1>1 DEF Other
<1> QED BY <1>1, <1>2 DEF Counterpart, Pkgs, Variants

\* The queue the pre hook writes consists of packages.
LEMMA QueueType ==
    ASSUME NEW a, NEW P, NEW S \in SUBSET Pkgs
    PROVE  Queue(a, P, S) \in SUBSET Pkgs
<1>1. ASSUME NEW t PROVE Missing(P, S, t) \in SUBSET Pkgs
  BY CounterpartShape DEF Missing
<1> QED BY <1>1 DEF Queue

----------------------------------------------------------------------------
(***************************************************************************)
(* Type correctness.                                                       *)
(***************************************************************************)

\* The counters and the job numbers are small naturals.
LEMMA Constants ==
    /\ Jobs \subseteq Nat /\ User \notin Jobs
    /\ 0..MaxTxns = Jobs \cup {0} /\ Go = 5
    /\ Archive \subseteq Pkgs
<1>1. Go = 5
  BY DEF Go, Locks
<1>2. Archive \subseteq Pkgs
  BY DEF Archive
<1> QED BY <1>1, <1>2, BoundsAssumption DEF Jobs, User

\* Every step of the hook, apt, dpkg, a job or a crash preserves the types.
LEMMA TypeStep == TypeOK /\ [Next]_vars => TypeOK'
<1> SUFFICES ASSUME TypeOK, [Next]_vars PROVE TypeOK'
  OBVIOUS
<1> USE Constants, BoundsAssumption DEF TypeOK
<1>1. CASE UserInstall
  BY <1>1 DEF UserInstall, Request, Begin, Displaced, Phases, fileVars, jobVars, User
<1>2. CASE UserRemove
  BY <1>2 DEF UserRemove, Request, Begin, Phases, fileVars, jobVars, User
<1>3. CASE OtherLock
  BY <1>3 DEF OtherLock, fileVars, txnVars, jobVars, historyVars
<1>4. CASE OtherUnlock
  BY <1>4 DEF OtherUnlock, fileVars, txnVars, jobVars, historyVars, countVars
<1>5. CASE pre_mode
  <2>1. QemuOf(installed) \in SUBSET Pkgs
    BY DEF QemuOf
  <2> QED BY <1>5, <2>1, QueueType DEF pre_mode, jobVars, historyVars, countVars, Phases
<1>6. CASE DpkgRemove \/ DpkgInstall \/ DpkgDone \/ DpkgFail
  BY <1>6 DEF DpkgRemove, DpkgInstall, DpkgDone, DpkgFail, fileVars, jobVars,
              historyVars, countVars, Phases
<1>7. CASE post_mode
  BY <1>7 DEF post_mode, jobVars, historyVars, countVars, Phases
<1>8. CASE Spawn
  <2>1. ASSUME NEW S, NEW f \in [Jobs -> S], NEW x \in S
        PROVE  [f EXCEPT ![serial] = x] \in [Jobs -> S]
    OBVIOUS
  <2>2. /\ jobState' \in [Jobs -> JobStates]
        /\ jobWant' \in [Jobs -> SUBSET Pkgs]
        /\ probe' \in [Jobs -> 1..Go]
    BY <1>8, <2>1 DEF Spawn, JobStates
  <2> QED BY <1>8, <2>2 DEF Spawn, fileVars, historyVars, countVars, Phases
<1>9. CASE Exit
  BY <1>9 DEF Exit, End, fileVars, historyVars, countVars, Phases, JobStates
<1>10. ASSUME NEW j \in Jobs, JobProbe(j) PROVE TypeOK'
  BY <1>10 DEF JobProbe, fileVars, txnVars, historyVars, countVars
<1>11. ASSUME NEW j \in Jobs, JobInstall(j) PROVE TypeOK'
  <2>1. ASSUME NEW st \in JobStates, JobEnds(j, st) PROVE TypeOK'
    BY <2>1 DEF JobEnds, fileVars, txnVars, historyVars, countVars
  <2>2. CASE JobEnds(j, "lockedout") \/ JobEnds(j, "failed") \/ JobEnds(j, "done")
    BY <2>1, <2>2 DEF JobStates
  <2>3. CASE /\ jobWant[j] \subseteq Archive
             /\ Begin(j, jobWant[j] \ installed, Displaced(jobWant[j]))
             /\ jobState' = [jobState EXCEPT ![j] = "running"]
             /\ intact' = IF intact = j THEN j ELSE 0
             /\ UNCHANGED <<fileVars, jobWant, probe, other, countVars, before, asked>>
    BY <2>3 DEF Begin, Displaced, fileVars, countVars, Phases, JobStates
  <2> QED BY <1>11, <2>2, <2>3 DEF JobInstall, AptGetInstall
<1>12. CASE Kill
  BY <1>12 DEF Kill, End, Phases, JobStates
<1>13. CASE Reboot
  BY <1>13 DEF Reboot, End, Phases, JobStates
<1>14. CASE UNCHANGED vars
  BY <1>14 DEF vars, fileVars, txnVars, jobVars, historyVars, countVars
<1> QED
  BY <1>1, <1>2, <1>3, <1>4, <1>5, <1>6, <1>7, <1>8, <1>9, <1>10, <1>11, <1>12,
     <1>13, <1>14 DEF Next, TxnStep, JobStep

\* The initial states are well typed.
LEMMA TypeInit == Init => TypeOK
BY Constants, BoundsAssumption DEF Init, TypeOK, Phases, JobStates, User

\* Type correctness holds in every reachable state, whatever the packages and
\* the bounds.
THEOREM TypeCorrect == Spec => []TypeOK
BY TypeInit, TypeStep, PTL DEF Spec

----------------------------------------------------------------------------
(***************************************************************************)
(* What the pre hook queues.                                               *)
(***************************************************************************)

\* Whatever pre_mode queues is the counterpart of an installed qemu* package
\* and neither installed nor planned.
LEMMA QueueOwes ==
    ASSUME NEW P \in SUBSET Pkgs, NEW S \in SUBSET Pkgs,
           NEW c \in Queue(FALSE, QemuOf(P), QemuOf(S))
    PROVE  c \in Pkgs /\ Counterpart(c) \in S /\ c \notin S \cup P
<1>1. PICK t : c \in Missing(QemuOf(P), QemuOf(S), t)
  BY DEF Queue
<1>2. PICK q \in QemuOf(S) : c = Counterpart(q)
  BY <1>1 DEF Missing
<1>3. q \in Pkgs /\ q \in S /\ q[1] \in Qemu \cup Lone
  BY <1>2 DEF QemuOf
<1>4. c \in Pkgs /\ c[1] = q[1] /\ Counterpart(c) = q
  BY <1>2, <1>3, CounterpartShape
<1>5. c \notin QemuOf(P) /\ c \notin QemuOf(S)
  BY <1>1 DEF Missing
<1> QED BY <1>3, <1>4, <1>5 DEF QemuOf

\* Without lone packages, what pre_mode queues for a request is what the
\* request owes.
LEMMA QueueIsOwed ==
    ASSUME TypeOK, ConflictFree(before), ConflictFree(asked), NoLone
    PROVE  Queue(FALSE, QemuOf(asked), QemuOf(before)) = Owed
<1> DEFINE P == QemuOf(asked)
           S == QemuOf(before)
<1>1. /\ P = {p \in asked : p[1] \in Qemu} /\ S = {q \in before : q[1] \in Qemu}
      /\ \A p \in asked \cup before : p[1] \notin Lone /\ p \in Pkgs
  BY Constants DEF NoLone, QemuOf, TypeOK
<1>2. \A p \in asked \cup before : p[2] \in {"base", "hwe"}
  BY <1>1, PkgShape
<1>3. \A p, q \in asked : p[2] = q[2]
  BY <1>1 DEF ConflictFree, Conflict
<1>4. \A p, q \in before : p[2] = q[2]
  BY <1>1 DEF ConflictFree, Conflict
<1>5. CASE P = {}
  BY <1>1, <1>5 DEF Queue, Owed
<1>6. ASSUME NEW p \in P, \A q \in S : q[2] = p[2]
      PROVE  Queue(FALSE, P, S) = Owed
  <2>1. target_variant(P, S) = "none"
    BY <1>1, <1>2, <1>3, <1>6 DEF target_variant, HasHwe, HasBase, is_hwe_pkg
  <2>2. ASSUME NEW c \in Owed PROVE FALSE
    <3>1. c \in Pkgs /\ c[1] \in Qemu /\ Counterpart(c) \in before
      BY <2>2 DEF Owed, Pkgs, Stems
    <3>2. PICK r \in asked : Conflict(r, Counterpart(c))
      BY <2>2 DEF Owed
    <3>3. Counterpart(c) \in S
      BY <1>1, <3>1, CounterpartShape
    <3> QED BY <1>1, <1>3, <1>6, <3>2, <3>3 DEF Conflict
  <2> QED BY <2>1, <2>2 DEF Queue
<1>7. ASSUME NEW p \in P, NEW r \in S, r[2] # p[2]
      PROVE  Queue(FALSE, P, S) = Owed
  <2>1. target_variant(P, S) = p[2]
    BY <1>1, <1>2, <1>3, <1>7 DEF target_variant, HasHwe, HasBase, is_hwe_pkg
  <2>2. Queue(FALSE, P, S) = Missing(P, S, p[2])
    BY <1>1, <1>2, <1>7, <2>1 DEF Queue
  <2>3. ASSUME NEW c \in Missing(P, S, p[2]) PROVE c \in Owed
    <3>1. PICK q \in S : q[2] # p[2] /\ c = Counterpart(q)
      BY <2>3 DEF Missing
    <3>2. c \in Pkgs /\ c[1] = q[1] /\ Counterpart(c) = q /\ q[1] \in Qemu
      BY <1>1, <3>1, CounterpartShape
    <3>3. c \notin asked
      BY <1>1, <2>3, <3>2 DEF Missing
    <3>4. c \in Qemu \X Variants
      BY <3>2, PkgShape DEF Variants
    <3>5. Conflict(p, Counterpart(c))
      BY <1>1, <3>1, <3>2 DEF Conflict
    <3> QED BY <1>1, <3>1, <3>2, <3>3, <3>4, <3>5 DEF Owed
  <2>4. ASSUME NEW c \in Owed PROVE c \in Missing(P, S, p[2])
    <3>1. c \in Pkgs /\ c[1] \in Qemu /\ Counterpart(c) \in before /\ c \notin asked
      BY <2>4 DEF Owed, Pkgs, Stems
    <3>2. PICK x \in asked : Conflict(x, Counterpart(c))
      BY <2>4 DEF Owed
    <3>3. /\ Counterpart(c) \in S /\ Counterpart(Counterpart(c)) = c
          /\ Counterpart(c)[2] # c[2]
      BY <1>1, <3>1, CounterpartShape
    <3>4. Counterpart(c)[2] # p[2]
      BY <1>1, <1>3, <3>2 DEF Conflict
    <3>5. c \notin P /\ c \notin S
      BY <1>1, <1>4, <3>1, <3>3
    <3> QED BY <3>3, <3>4, <3>5 DEF Missing
  <2> QED BY <2>2, <2>3, <2>4
<1> QED BY <1>5, <1>6, <1>7

----------------------------------------------------------------------------
(***************************************************************************)
(* The steps of the specification, in the form the proofs below use them.  *)
(***************************************************************************)

\* Job j's apt-get install gets the locks and begins a transaction.
JobStarts(j) ==
    /\ jobState[j] = "poll" /\ LocksFree
    /\ jobWant[j] \subseteq Archive /\ ConflictFree(jobWant[j])
    /\ Begin(j, jobWant[j] \ installed, Displaced(jobWant[j]))
    /\ jobState' = [jobState EXCEPT ![j] = "running"]
    /\ intact' = IF intact = j THEN j ELSE 0
    /\ UNCHANGED <<fileVars, jobWant, probe, other, countVars, before, asked>>

\* A job's install ends without a transaction, or begins one.
LEMMA JobInstallCases ==
    ASSUME NEW j \in Jobs, JobInstall(j)
    PROVE  \/ JobStarts(j)
           \/ \E st \in JobStates \ {"none", "poll", "running"} :
                 /\ jobState[j] = "poll"
                 /\ st = "done" => jobWant[j] \subseteq installed
                 /\ JobEnds(j, st)
BY DEF JobInstall, AptGetInstall, JobStarts, JobStates

\* A request names the packages to unpack and to remove, and has a new number.
LEMMA RequestCases ==
    ASSUME TypeOK, UserInstall \/ UserRemove
    PROVE  \E want, gone \in SUBSET Archive :
              /\ ConflictFree(want) /\ (want = {} \/ gone = Displaced(want))
              /\ LocksFree /\ Request(want, gone)
              /\ serial' \in Jobs /\ serial' = serial + 1
<1>1. CASE UserInstall
  <2>1. PICK want \in SUBSET Archive :
            ConflictFree(want) /\ Request(want, Displaced(want))
    BY <1>1 DEF UserInstall
  <2>2. Displaced(want) \in SUBSET Archive
    BY DEF Displaced, TypeOK
  <2> QED BY <1>1, <2>1, <2>2, BoundsAssumption DEF UserInstall, Request, TypeOK, Jobs
<1>2. CASE UserRemove
  <2>1. PICK gone \in SUBSET installed : Request({}, gone)
    BY <1>2 DEF UserRemove
  <2>2. LocksFree /\ serial' \in Jobs /\ serial' = serial + 1
    BY <1>2, <2>1, BoundsAssumption DEF UserRemove, Request, TypeOK, Jobs
  <2>3. ConflictFree({}) /\ gone \in SUBSET Archive
    BY DEF ConflictFree, TypeOK
  <2> QED BY <2>1, <2>2, <2>3
<1> QED BY <1>1, <1>2

\* Every step is one of these.
LEMMA NextCases ==
    ASSUME [Next]_vars
    PROVE  \/ UserInstall \/ UserRemove \/ OtherLock \/ OtherUnlock
           \/ pre_mode \/ DpkgRemove \/ DpkgInstall \/ DpkgDone \/ DpkgFail
           \/ post_mode \/ Spawn \/ Exit
           \/ \E j \in Jobs : JobProbe(j)
           \/ \E j \in Jobs : JobStarts(j)
           \/ \E j \in Jobs : \E st \in JobStates \ {"none", "poll", "running"} :
                 /\ jobState[j] = "poll"
                 /\ st = "done" => jobWant[j] \subseteq installed
                 /\ JobEnds(j, st)
           \/ Kill \/ Reboot \/ UNCHANGED vars
BY JobInstallCases DEF Next, TxnStep, JobStep

\* Every step preserves the bookkeeping.
LEMMA BookkeepingStep == IInv /\ [Next]_vars => Bookkeeping'
<1> SUFFICES ASSUME TypeOK, Bookkeeping, [Next]_vars PROVE Bookkeeping'
  BY DEF IInv
<1> USE Constants DEF TypeOK, Bookkeeping, User
<1>1. CASE UserInstall \/ UserRemove
  <2>1. PICK want, gone \in SUBSET Archive :
            /\ LocksFree /\ Request(want, gone)
            /\ serial' \in Jobs /\ serial' = serial + 1
    BY <1>1, RequestCases
  <2> QED BY <2>1 DEF Request, Begin, LocksFree, fileVars, jobVars
<1>3. CASE OtherLock \/ OtherUnlock
  BY <1>3 DEF OtherLock, OtherUnlock, fileVars, txnVars, jobVars, countVars, historyVars
<1>4. CASE pre_mode
  BY <1>4 DEF pre_mode, jobVars, countVars, historyVars
<1>5. CASE DpkgRemove
  BY <1>5 DEF DpkgRemove, jobVars, countVars, historyVars
<1>6. CASE DpkgInstall
  BY <1>6 DEF DpkgInstall, jobVars, countVars, historyVars
<1>7. CASE DpkgDone \/ DpkgFail
  BY <1>7 DEF DpkgDone, DpkgFail, fileVars, jobVars, countVars, historyVars
<1>8. CASE post_mode
  BY <1>8 DEF post_mode, jobVars, countVars, historyVars
<1>9. CASE Spawn
  BY <1>9 DEF Spawn, fileVars, countVars, historyVars
<1>10. CASE Exit
  BY <1>10 DEF Exit, End, fileVars, countVars, historyVars
<1>11. ASSUME NEW j \in Jobs, JobProbe(j) PROVE Bookkeeping'
  BY <1>11 DEF JobProbe, fileVars, txnVars, countVars, historyVars
<1>12. ASSUME NEW j \in Jobs, NEW st \in JobStates \ {"none", "poll", "running"}, jobState[j] = "poll",
             st = "done" => jobWant[j] \subseteq installed, JobEnds(j, st) PROVE Bookkeeping'
  BY <1>12 DEF JobEnds, fileVars, txnVars, countVars, historyVars
<1>13. ASSUME NEW j \in Jobs, JobStarts(j) PROVE Bookkeeping'
  BY <1>13 DEF JobStarts, Begin, LocksFree, fileVars, countVars
<1>14. CASE Kill
  BY <1>14 DEF Kill, End
<1>15. CASE Reboot
  BY <1>15 DEF Reboot, End
<1>16. CASE UNCHANGED vars
  BY <1>16 DEF vars, fileVars, txnVars, jobVars, countVars, historyVars
<1> QED
  BY <1>1, <1>3, <1>4, <1>5, <1>6, <1>7, <1>8, <1>9, <1>10, <1>11, <1>12,
     <1>13, <1>14, <1>15, <1>16, NextCases

\* Every step preserves the relation of the history to the state.
LEMMA RecordedStep == IInv /\ [Next]_vars => Recorded'
<1> SUFFICES ASSUME TypeOK, Bookkeeping, Recorded, [Next]_vars PROVE Recorded'
  BY DEF IInv
<1> USE Constants DEF TypeOK, Bookkeeping, Recorded, User
<1>1. CASE UserInstall \/ UserRemove
  <2>1. PICK want, gone \in SUBSET Archive :
            /\ LocksFree /\ Request(want, gone)
            /\ serial' \in Jobs /\ serial' = serial + 1
    BY <1>1, RequestCases
  <2> QED BY <2>1 DEF Request, Begin, LocksFree, fileVars, jobVars
<1>3. CASE OtherLock \/ OtherUnlock
  BY <1>3 DEF OtherLock, OtherUnlock, fileVars, txnVars, jobVars, countVars, historyVars
<1>4. CASE pre_mode
  BY <1>4 DEF pre_mode, jobVars, countVars, historyVars
<1>5. CASE DpkgRemove
  BY <1>5 DEF DpkgRemove, jobVars, countVars, historyVars
<1>6. CASE DpkgInstall
  BY <1>6 DEF DpkgInstall, jobVars, countVars, historyVars
<1>7. CASE DpkgDone \/ DpkgFail
  BY <1>7 DEF DpkgDone, DpkgFail, fileVars, jobVars, countVars, historyVars
<1>8. CASE post_mode
  BY <1>8 DEF post_mode, jobVars, countVars, historyVars
<1>9. CASE Spawn
  BY <1>9 DEF Spawn, fileVars, countVars, historyVars
<1>10. CASE Exit
  BY <1>10 DEF Exit, End, fileVars, countVars, historyVars
<1>11. ASSUME NEW j \in Jobs, JobProbe(j) PROVE Recorded'
  BY <1>11 DEF JobProbe, fileVars, txnVars, countVars, historyVars
<1>12. ASSUME NEW j \in Jobs, NEW st \in JobStates \ {"none", "poll", "running"}, jobState[j] = "poll",
             st = "done" => jobWant[j] \subseteq installed, JobEnds(j, st) PROVE Recorded'
  BY <1>12 DEF JobEnds, fileVars, txnVars, countVars, historyVars
<1>13. ASSUME NEW j \in Jobs, JobStarts(j) PROVE Recorded'
  BY <1>13 DEF JobStarts, Begin, LocksFree, fileVars, countVars
<1>14. CASE Kill
  BY <1>14 DEF Kill, End
<1>15. CASE Reboot
  BY <1>15 DEF Reboot, End
<1>16. CASE UNCHANGED vars
  BY <1>16 DEF vars, fileVars, txnVars, jobVars, countVars, historyVars
<1> QED
  BY <1>1, <1>3, <1>4, <1>5, <1>6, <1>7, <1>8, <1>9, <1>10, <1>11, <1>12,
     <1>13, <1>14, <1>15, <1>16, NextCases

\* Every step leaves the installed packages free of conflicts.
LEMMA CoherentStep == IInv /\ [Next]_vars => Coherent'
<1> SUFFICES ASSUME TypeOK, Coherent, [Next]_vars PROVE Coherent'
  BY DEF IInv
<1> USE DEF Coherent, ConflictFree
<1>1. CASE UserInstall \/ UserRemove
  <2>1. PICK want, gone \in SUBSET Archive :
            /\ ConflictFree(want) /\ (want = {} \/ gone = Displaced(want))
            /\ Request(want, gone)
    BY <1>1, RequestCases
  <2> QED BY <2>1 DEF Request, Begin, Displaced, fileVars, jobVars
<1>2. CASE OtherLock \/ OtherUnlock
  BY <1>2 DEF OtherLock, OtherUnlock, fileVars, txnVars, jobVars, countVars, historyVars
<1>3. CASE pre_mode
  BY <1>3 DEF pre_mode, jobVars, countVars, historyVars
<1>4. CASE DpkgRemove
  BY <1>4 DEF DpkgRemove, jobVars, countVars, historyVars
<1>5. CASE DpkgInstall
  <2>1. PICK p \in plan : installed' = installed \cup {p} /\ plan' = plan \ {p}
    BY <1>5 DEF DpkgInstall
  <2>2. \A q \in installed : ~ Conflict(p, q) /\ ~ Conflict(q, p)
    BY <1>5 DEF DpkgInstall, Conflict
  <2> QED BY <1>5, <2>1, <2>2 DEF DpkgInstall, Conflict, historyVars
<1>6. CASE DpkgDone \/ DpkgFail
  BY <1>6 DEF DpkgDone, DpkgFail, fileVars, jobVars, countVars, historyVars
<1>7. CASE post_mode
  BY <1>7 DEF post_mode, jobVars, countVars, historyVars
<1>8. CASE Spawn
  BY <1>8 DEF Spawn, fileVars, countVars, historyVars
<1>9. CASE Exit
  BY <1>9 DEF Exit, End, fileVars, countVars, historyVars
<1>10. ASSUME NEW j \in Jobs, JobProbe(j) PROVE Coherent'
  BY <1>10 DEF JobProbe, fileVars, txnVars, countVars, historyVars
<1>11. ASSUME NEW j \in Jobs, NEW st \in JobStates \ {"none", "poll", "running"},
             jobState[j] = "poll", st = "done" => jobWant[j] \subseteq installed,
             JobEnds(j, st)
      PROVE  Coherent'
  BY <1>11 DEF JobEnds, fileVars, txnVars, countVars, historyVars
<1>12. ASSUME NEW j \in Jobs, JobStarts(j) PROVE Coherent'
  BY <1>12 DEF JobStarts, Begin, Displaced, fileVars
<1>13. CASE Kill
  BY <1>13 DEF Kill, End
<1>14. CASE Reboot
  BY <1>14 DEF Reboot, End
<1>15. CASE UNCHANGED vars
  BY <1>15 DEF vars, fileVars, txnVars, jobVars, countVars, historyVars
<1> QED
  BY <1>1, <1>2, <1>3, <1>4, <1>5, <1>6, <1>7, <1>8, <1>9, <1>10, <1>11, <1>12,
     <1>13, <1>14, <1>15, NextCases

\* Every step keeps the queue the property of the transaction that wrote it.
LEMMA FreshQueueStep == IInv /\ [Next]_vars => FreshQueue'
<1> SUFFICES ASSUME TypeOK, Bookkeeping, Recorded, FreshQueue, [Next]_vars
             PROVE  FreshQueue'
  BY DEF IInv
<1> USE Constants DEF TypeOK, Bookkeeping, FreshQueue, OwedBy, User
<1>1. CASE UserInstall \/ UserRemove
  <2>1. PICK want, gone \in SUBSET Archive :
            /\ LocksFree /\ Request(want, gone)
            /\ serial' \in Jobs /\ serial' = serial + 1
    BY <1>1, RequestCases
  <2> QED BY <2>1 DEF Request, Begin, fileVars, jobVars
<1>2. CASE OtherLock \/ OtherUnlock
  BY <1>2 DEF OtherLock, OtherUnlock, fileVars, txnVars, jobVars, countVars, historyVars
<1>3. CASE pre_mode
  <2>1. ASSUME NEW c \in pending' PROVE owner = User /\ OwedBy(c)
    <3>1. c \in Queue(owner # User, QemuOf(plan), QemuOf(installed))
      BY <1>3, <2>1 DEF pre_mode
    <3>2. plan \in SUBSET Pkgs /\ installed \in SUBSET Pkgs
      OBVIOUS
    <3>3. owner = User /\ c \in Queue(FALSE, QemuOf(plan), QemuOf(installed))
      BY <3>1 DEF Queue
    <3>4. Counterpart(c) \in installed /\ c \notin installed \cup plan
      BY <3>2, <3>3, QueueOwes
    <3> QED BY <1>3, <3>3, <3>4 DEF pre_mode, Recorded
  <2> QED BY <1>3, <2>1 DEF pre_mode, jobVars, countVars, historyVars
<1>4. CASE DpkgRemove
  BY <1>4 DEF DpkgRemove, jobVars, countVars, historyVars
<1>5. CASE DpkgInstall
  BY <1>5 DEF DpkgInstall, jobVars, countVars, historyVars
<1>6. CASE DpkgDone \/ DpkgFail
  BY <1>6 DEF DpkgDone, DpkgFail, fileVars, jobVars, countVars, historyVars
<1>7. CASE post_mode
  BY <1>7 DEF post_mode, jobVars, countVars, historyVars
<1>8. CASE Spawn
  BY <1>8 DEF Spawn, fileVars, countVars, historyVars
<1>9. CASE Exit
  BY <1>9 DEF Exit, End, fileVars, countVars, historyVars
<1>10. ASSUME NEW j \in Jobs, JobProbe(j) PROVE FreshQueue'
  BY <1>10 DEF JobProbe, fileVars, txnVars, countVars, historyVars
<1>11. ASSUME NEW j \in Jobs, NEW st \in JobStates \ {"none", "poll", "running"},
             jobState[j] = "poll", st = "done" => jobWant[j] \subseteq installed,
             JobEnds(j, st)
      PROVE  FreshQueue'
  BY <1>11 DEF JobEnds, fileVars, txnVars, countVars, historyVars
<1>12. ASSUME NEW j \in Jobs, JobStarts(j) PROVE FreshQueue'
  BY <1>12 DEF JobStarts, Begin, LocksFree, fileVars, countVars
<1>13. CASE Kill
  BY <1>13 DEF Kill, End
<1>14. CASE Reboot
  BY <1>14 DEF Reboot, End
<1>15. CASE UNCHANGED vars
  BY <1>15 DEF vars, fileVars, txnVars, jobVars, countVars, historyVars
<1> QED
  BY <1>1, <1>2, <1>3, <1>4, <1>5, <1>6, <1>7, <1>8, <1>9, <1>10, <1>11, <1>12,
     <1>13, <1>14, <1>15, NextCases

\* Every step that is not a crash empties the queue with its transaction.
LEMMA DrainedStep == IInv /\ [Next]_vars => Drained'
<1> SUFFICES ASSUME TypeOK, FreshQueue, Drained, [Next]_vars PROVE Drained'
  BY DEF IInv
<1> USE DEF Drained, TypeOK
<1>1. CASE UserInstall \/ UserRemove
  <2>1. PICK want, gone \in SUBSET Archive : Request(want, gone)
    BY <1>1, RequestCases
  <2> QED BY <2>1 DEF Request, Begin
<1>2. CASE OtherLock \/ OtherUnlock
  BY <1>2 DEF OtherLock, OtherUnlock, fileVars, txnVars, jobVars, countVars, historyVars
<1>3. CASE pre_mode
  BY <1>3 DEF pre_mode, jobVars, countVars, historyVars
<1>4. CASE DpkgRemove
  BY <1>4 DEF DpkgRemove, jobVars, countVars, historyVars
<1>5. CASE DpkgInstall
  BY <1>5 DEF DpkgInstall, jobVars, countVars, historyVars
<1>6. CASE DpkgDone \/ DpkgFail
  BY <1>6 DEF DpkgDone, DpkgFail, fileVars, jobVars, countVars, historyVars
<1>7. CASE post_mode
  BY <1>7 DEF post_mode, countVars, FreshQueue
<1>8. CASE Spawn
  BY <1>8 DEF Spawn, fileVars, countVars, historyVars
<1>9. CASE Exit
  BY <1>9 DEF Exit, End, fileVars, countVars, historyVars
<1>10. ASSUME NEW j \in Jobs, JobProbe(j) PROVE Drained'
  BY <1>10 DEF JobProbe, fileVars, txnVars, countVars, historyVars
<1>11. ASSUME NEW j \in Jobs, NEW st \in JobStates \ {"none", "poll", "running"},
             jobState[j] = "poll", st = "done" => jobWant[j] \subseteq installed,
             JobEnds(j, st)
      PROVE  Drained'
  BY <1>11 DEF JobEnds, fileVars, txnVars, countVars, historyVars
<1>12. ASSUME NEW j \in Jobs, JobStarts(j) PROVE Drained'
  BY <1>12 DEF JobStarts, Begin, LocksFree, fileVars, countVars
<1>13. CASE Kill
  BY <1>13 DEF Kill, End
<1>14. CASE Reboot
  BY <1>14 DEF Reboot, End
<1>15. CASE UNCHANGED vars
  BY <1>15 DEF vars, fileVars, txnVars, jobVars, countVars, historyVars
<1> QED
  BY <1>1, <1>2, <1>3, <1>4, <1>5, <1>6, <1>7, <1>8, <1>9, <1>10, <1>11, <1>12,
     <1>13, <1>14, <1>15, NextCases

\* What a request owes has the variant of what it asked for.
LEMMA OwedFits ==
    ASSUME TypeOK, ConflictFree(asked), NoLone, NEW c \in Owed
    PROVE  /\ c \in Archive /\ c[1] \notin Lone /\ asked # {}
           /\ \A p \in asked : p[1] \notin Lone /\ p[2] = c[2]
<1>1. c \in Pkgs /\ c[1] \in Qemu
  BY DEF Owed, Pkgs, Stems
<1>2. c[1] \notin Lone /\ c \in Archive
  BY <1>1, StemsAssumption DEF Archive
<1>3. PICK r \in asked : Conflict(r, Counterpart(c))
  BY DEF Owed
<1>4. /\ c[2] \in {"base", "hwe"} /\ Counterpart(c)[2] # c[2]
      /\ Counterpart(c)[2] \in {"base", "hwe"}
  BY <1>1, PkgShape, CounterpartShape
<1>5. r[2] \in {"base", "hwe"}
  BY PkgShape, Constants DEF TypeOK
<1>6. r[2] = c[2] /\ r[1] \notin Lone
  BY <1>3, <1>4, <1>5 DEF Conflict
<1>7. \A p \in asked : p[1] \notin Lone /\ p[2] = r[2]
  BY <1>6 DEF NoLone, ConflictFree, Conflict
<1> QED BY <1>2, <1>6, <1>7

\* The debt changes only with the request.
LEMMA OwedSame ==
    ASSUME UNCHANGED <<before, asked>>
    PROVE  Owed' = Owed /\ NoLone' = NoLone
BY DEF Owed, NoLone, Counterpart, Conflict, Other

\* Every step keeps track of what the last request asked for and owes.
LEMMA TrackStep == IInv /\ [Next]_vars => Track'
<1> SUFFICES ASSUME IInv, [Next]_vars, intact' # 0, NoLone' PROVE Tracked'
  BY DEF Track
<1> USE Constants DEF IInv, TypeOK, Bookkeeping, Recorded, Track, Tracked, User
<1>1. CASE UserInstall \/ UserRemove
  <2>1. PICK want, gone \in SUBSET Archive :
            /\ ConflictFree(want) /\ (want = {} \/ gone = Displaced(want))
            /\ LocksFree /\ Request(want, gone)
            /\ serial' \in Jobs /\ serial' = serial + 1
    BY <1>1, RequestCases
  <2> QED BY <2>1 DEF Request, Begin, LocksFree, Displaced, fileVars, jobVars
<1>2. CASE OtherLock \/ OtherUnlock
  <2>1. Owed' = Owed /\ NoLone' = NoLone
    BY <1>2, OwedSame DEF OtherLock, OtherUnlock, fileVars, txnVars, jobVars, countVars, historyVars
  <2> QED BY <1>2, <2>1 DEF OtherLock, OtherUnlock, fileVars, txnVars, jobVars, countVars, historyVars
<1>3. CASE pre_mode
  <2>1. Owed' = Owed /\ NoLone' = NoLone
    BY <1>3, OwedSame DEF pre_mode, historyVars
  <2>2. ASSUME owner = User PROVE pending' = Owed
    <3>1. pending' = Queue(FALSE, QemuOf(asked), QemuOf(before))
      BY <1>3, <2>2 DEF pre_mode, Queue
    <3> QED BY <2>1, <3>1, QueueIsOwed DEF Coherent
  <2> QED BY <1>3, <2>1, <2>2 DEF pre_mode, jobVars, countVars, historyVars
<1>4. CASE DpkgRemove
  <2>1. Owed' = Owed /\ NoLone' = NoLone
    BY <1>4, OwedSame DEF DpkgRemove, jobVars, countVars, historyVars
  <2>2. owner = User /\ intact = serial /\ jobState[intact] = "none"
    BY <1>4, <2>1 DEF DpkgRemove, historyVars
  <2>3. PICK x \in remove : installed' = installed \ {x} /\ remove' = remove \ {x}
    BY <1>4 DEF DpkgRemove
  <2>4. x \notin asked
    BY <1>4, <2>1 DEF DpkgRemove, historyVars, Coherent, ConflictFree
  <2> QED BY <1>4, <2>1, <2>2, <2>3, <2>4 DEF DpkgRemove, jobVars, countVars, historyVars
<1>5. CASE DpkgInstall
  <2>1. Owed' = Owed /\ NoLone' = NoLone
    BY <1>5, OwedSame DEF DpkgInstall, historyVars
  <2>2. PICK x \in plan : installed' = installed \cup {x} /\ plan' = plan \ {x}
    BY <1>5 DEF DpkgInstall
  <2>3. ASSUME NEW p \in asked PROVE ~ Conflict(p, x)
    <3>1. CASE owner = User
      BY <1>5, <2>1, <2>2, <3>1 DEF DpkgInstall, Coherent, ConflictFree, historyVars
    <3>2. CASE owner # User
      BY <1>5, <2>1, <2>2, <3>2, OwedFits DEF DpkgInstall, Coherent, Conflict, historyVars
    <3> QED BY <3>1, <3>2
  <2> QED BY <1>5, <2>1, <2>2, <2>3 DEF DpkgInstall, jobVars, countVars, historyVars
<1>6. CASE DpkgDone \/ DpkgFail
  <2>1. Owed' = Owed /\ NoLone' = NoLone
    BY <1>6, OwedSame DEF DpkgDone, DpkgFail, fileVars, jobVars, countVars, historyVars
  <2> QED BY <1>6, <2>1 DEF DpkgDone, DpkgFail, fileVars, jobVars, countVars, historyVars
<1>7. CASE post_mode
  <2>1. Owed' = Owed /\ NoLone' = NoLone
    BY <1>7, OwedSame DEF post_mode, jobVars, countVars, historyVars
  <2> QED BY <1>7, <2>1 DEF post_mode, jobVars, countVars, historyVars
<1>8. CASE Spawn
  <2>1. Owed' = Owed /\ NoLone' = NoLone
    BY <1>8, OwedSame DEF Spawn, fileVars, countVars, historyVars
  <2> QED BY <1>8, <2>1 DEF Spawn, fileVars, countVars, historyVars
<1>9. CASE Exit
  <2>1. Owed' = Owed /\ NoLone' = NoLone
    BY <1>9, OwedSame DEF Exit, End, fileVars, countVars, historyVars
  <2> QED BY <1>9, <2>1 DEF Exit, End, fileVars, countVars, historyVars
<1>10. ASSUME NEW j \in Jobs, JobProbe(j) PROVE Tracked'
  <2>1. Owed' = Owed /\ NoLone' = NoLone
    BY <1>10, OwedSame DEF JobProbe, fileVars, txnVars, countVars, historyVars
  <2> QED BY <1>10, <2>1 DEF JobProbe, fileVars, txnVars, countVars, historyVars
<1>11. ASSUME NEW j \in Jobs, NEW st \in JobStates \ {"none", "poll", "running"},
             jobState[j] = "poll", st = "done" => jobWant[j] \subseteq installed,
             JobEnds(j, st)
      PROVE  Tracked'
  <2>1. Owed' = Owed /\ NoLone' = NoLone
    BY <1>11, OwedSame DEF JobEnds, fileVars, txnVars, countVars, historyVars
  <2>2. CASE intact # j
    BY <1>11, <2>1, <2>2 DEF JobEnds, fileVars, txnVars, countVars, historyVars
  <2>3. CASE intact = j
    <3>1. /\ jobState' = [jobState EXCEPT ![j] = st] /\ st # "none"
          /\ UNCHANGED <<fileVars, txnVars, jobWant, before, asked, intact>>
      BY <1>11 DEF JobEnds, historyVars
    <3>2. serial = j /\ Tracked
      BY <2>1, <2>3, <3>1
    <3>3. owner # User \/ phase \in {"idle", "exit"}
      BY <1>11, <3>2 DEF Phases
    <3>4. jobWant[j] = Owed
      BY <1>11, <2>3, <3>2, <3>3
    <3> QED BY <1>11, <2>1, <2>3, <3>1, <3>2, <3>4 DEF fileVars, txnVars
  <2> QED BY <2>2, <2>3
<1>12. ASSUME NEW j \in Jobs, JobStarts(j) PROVE Tracked'
  <2>1. Owed' = Owed /\ NoLone' = NoLone
    BY <1>12, OwedSame DEF JobStarts
  <2>2. intact = j /\ phase = "idle" /\ jobWant[j] = Owed /\ Tracked
    BY <1>12, <2>1 DEF JobStarts, LocksFree
  <2>3. Displaced(jobWant[j]) = {}
    BY <2>1, <2>2, OwedFits DEF Displaced, Conflict, Coherent
  <2> QED BY <1>12, <2>1, <2>2, <2>3 DEF JobStarts, Begin, fileVars, countVars
<1>13. CASE Kill
  <2>1. Owed' = Owed /\ NoLone' = NoLone
    BY <1>13, OwedSame DEF Kill, End
  <2> QED BY <1>13, <2>1 DEF Kill, End
<1>14. CASE Reboot
  <2>1. Owed' = Owed /\ NoLone' = NoLone
    BY <1>14, OwedSame DEF Reboot, End
  <2> QED BY <1>14, <2>1 DEF Reboot, End
<1>15. CASE UNCHANGED vars
  <2>1. Owed' = Owed /\ NoLone' = NoLone
    BY <1>15, OwedSame DEF vars, fileVars, txnVars, jobVars, countVars, historyVars
  <2> QED BY <1>15, <2>1 DEF vars, fileVars, txnVars, jobVars, countVars, historyVars
<1> QED
  BY <1>1, <1>2, <1>3, <1>4, <1>5, <1>6, <1>7, <1>8, <1>9, <1>10, <1>11, <1>12,
     <1>13, <1>14, <1>15, NextCases

----------------------------------------------------------------------------
(***************************************************************************)
(* The invariant, and the properties it implies.                           *)
(***************************************************************************)

\* The invariant holds initially.
LEMMA IInvInit == Init => IInv
<1> SUFFICES ASSUME Init PROVE IInv
  OBVIOUS
<1>1. TypeOK
  BY TypeInit
<1> QED
  BY <1>1, Constants DEF Init, IInv, Bookkeeping, Recorded, Coherent, ConflictFree,
                         FreshQueue, Drained, Track, User

\* The invariant is inductive.
THEOREM Invariance == Spec => []IInv
<1>1. IInv /\ [Next]_vars => IInv'
  BY TypeStep, BookkeepingStep, RecordedStep, CoherentStep, FreshQueueStep,
     DrainedStep, TrackStep DEF IInv
<1> QED BY <1>1, IInvInit, PTL DEF Spec

\* No post hook and no job ever acts on the queue of another transaction.
THEOREM QueueIsFresh == Spec => []FreshQueue
<1>1. IInv => FreshQueue
  BY DEF IInv
<1> QED BY <1>1, Invariance, PTL

\* Without a crash, no queue outlives its transaction.
THEOREM QueueIsDrained == Spec => []NothingLeftBehind
<1>1. IInv => NothingLeftBehind
  BY DEF IInv, NothingLeftBehind, Drained, Bookkeeping
<1> QED BY <1>1, Invariance, PTL

\* The pre hook queues exactly what the request owes.
THEOREM QueueIsExact == Spec => []QueueExact
<1>1. IInv => QueueExact
  BY Constants DEF IInv, QueueExact, Track, Tracked, Recorded, Bookkeeping, TypeOK
<1> QED BY <1>1, Invariance, PTL

\* An undisturbed follow-up never makes apt remove a package.
THEOREM FollowUpAdds == Spec => []FollowUpOnlyAdds
<1>1. IInv => FollowUpOnlyAdds
  BY Constants DEF IInv, FollowUpOnlyAdds, Track, Tracked, TypeOK, User
<1> QED BY <1>1, Invariance, PTL

\* An undisturbed switch ends with every QEMU package in the new variant.
THEOREM SwitchIsComplete == Spec => []SwitchComplete
<1>1. IInv => SwitchComplete
  <2> SUFFICES ASSUME IInv, phase = "idle", intact # 0, NoLone,
                      jobState[intact] \in {"none", "done"},
                      NEW p \in asked, NEW q \in before,
                      p[1] \in Qemu, q[1] \in Qemu
               PROVE  <<q[1], p[2]>> \in installed
    BY DEF SwitchComplete
  <2>1. Tracked /\ owner = User /\ plan = {} /\ remove = {}
    BY DEF IInv, Track, Bookkeeping
  <2>2. p \in Pkgs /\ q \in Pkgs
    BY Constants DEF IInv, TypeOK
  <2>3. /\ q = <<q[1], q[2]>> /\ q[2] \in {"base", "hwe"} /\ p[2] \in {"base", "hwe"}
        /\ p[1] \notin Lone /\ q[1] \notin Lone
    BY <2>2, PkgShape DEF NoLone
  <2>4. asked \subseteq installed /\ Owed \subseteq installed
    BY <2>1 DEF Tracked
  <2>5. CASE q[2] = p[2]
    <3>1. \A r \in asked : ~ Conflict(r, q)
      BY <2>3, <2>5 DEF IInv, Coherent, ConflictFree, Conflict
    <3> QED BY <2>1, <2>3, <2>5, <3>1 DEF Tracked
  <2>6. CASE q[2] # p[2]
    <3>1. Counterpart(q) = <<q[1], p[2]>>
      BY <2>3, <2>6 DEF Counterpart, Other
    <3>2. Counterpart(q) \in Pkgs /\ Counterpart(Counterpart(q)) = q
      BY <2>2, CounterpartShape
    <3>3. Conflict(p, q)
      BY <2>3, <2>6 DEF Conflict
    <3>4. Counterpart(q) \in asked \/ Counterpart(q) \in Owed
      <4>1. Counterpart(q) \in Qemu \X Variants
        BY <2>3, <3>1 DEF Variants
      <4> QED BY <3>2, <3>3, <4>1 DEF Owed
    <3> QED BY <2>4, <3>1, <3>4
  <2> QED BY <2>5, <2>6
<1> QED BY <1>1, Invariance, PTL
=============================================================================
