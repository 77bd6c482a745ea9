------------------------- MODULE AptHookRefinement -------------------------
(***************************************************************************)
(* The APT hook implements the follow-up protocol of module FollowUp.      *)
(***************************************************************************)
EXTENDS AptHookProofs

Statuses == {"none", "queued", "scheduled", "running", "closed"}

\* The follow-up of request n does not move, or is closed.
Keeps(n)  == StatusOf(n)' = StatusOf(n) /\ DebtOf(n)' = DebtOf(n)
Closes(n) == StatusOf(n) # "closed" /\ StatusOf(n)' = "closed"

\* The status of a follow-up is one of five, and a closed one owes nothing.
LEMMA StatusRange ==
    ASSUME NEW n \in Jobs
    PROVE  /\ StatusOf(n) \in Statuses
           /\ StatusOf(n) = "closed" => DebtOf(n) = {}
BY DEF StatusOf, DebtOf, Statuses

\* A step that moves no follow-up, or closes some, is a step of the protocol.
LEMMA CloseStep ==
    ASSUME \A n \in Jobs : Keeps(n) \/ Closes(n)
    PROVE  Abstract!Next
<1> DEFINE N == {n \in Jobs : Closes(n)}
<1>1. \A n \in N : StatusOf(n) \in Abstract!Open
  BY StatusRange DEF Abstract!Open, Statuses, Closes
<1>2. \A n \in Jobs : StatusOf(n)' = IF n \in N THEN "closed" ELSE StatusOf(n)
  BY DEF Keeps, Closes
<1>3. \A n \in Jobs : DebtOf(n)' = IF n \in N THEN {} ELSE DebtOf(n)
  <2>1. \A n \in Jobs : StatusOf(n)' = "closed" => DebtOf(n)' = {}
    BY DEF DebtOf
  <2> QED BY <2>1 DEF Keeps, Closes
<1>4. Abstract!Close(N)
  BY <1>1, <1>2, <1>3 DEF Abstract!Close
<1>5. N \in SUBSET Jobs
  OBVIOUS
<1> QED BY <1>4, <1>5 DEF Abstract!Next

\* Every step that is not a pre hook, a fork or the start of a job's install
\* moves no follow-up forward.
LEMMA QuietSteps ==
    ASSUME IInv, [Next]_vars, NEW n \in Jobs,
           ~ pre_mode, ~ Spawn, \A j \in Jobs : ~ JobStarts(j)
    PROVE  Keeps(n) \/ Closes(n)
<1> USE Constants DEF IInv, TypeOK, Bookkeeping, Keeps, Closes, User
<1>1. CASE UserInstall \/ UserRemove
  <2>1. PICK want, gone \in SUBSET Archive :
            /\ LocksFree /\ Request(want, gone)
            /\ serial' \in Jobs /\ serial' = serial + 1
    BY <1>1, RequestCases
  <2>2. /\ phase = "idle" /\ phase' = "pre" /\ owner' = User
        /\ UNCHANGED <<jobState, jobWant, pending>>
    BY <2>1 DEF Request, Begin, LocksFree, fileVars, jobVars
  <2>3. StatusOf(n)' = StatusOf(n) /\ StatusOf(n) # "queued"
    BY <2>1, <2>2 DEF StatusOf, Queued
  <2> QED BY <2>2, <2>3 DEF DebtOf
<1>2. CASE OtherLock \/ OtherUnlock \/ UNCHANGED vars \/ \E j \in Jobs : JobProbe(j)
  <2>1. UNCHANGED <<phase, owner, pending, missing, jobState, jobWant, serial>>
    BY <1>2 DEF OtherLock, OtherUnlock, JobProbe, vars, fileVars, txnVars, jobVars,
                countVars
  <2> QED BY <2>1 DEF StatusOf, DebtOf, Queued
<1>3. CASE DpkgRemove \/ DpkgInstall \/ DpkgDone \/ DpkgFail
  <2>1. /\ phase = "dpkg" /\ phase' \in {"dpkg", "post"}
        /\ UNCHANGED <<owner, pending, missing, jobState, jobWant, serial>>
    BY <1>3 DEF DpkgRemove, DpkgInstall, DpkgDone, DpkgFail, fileVars, jobVars,
                countVars
  <2> QED BY <2>1 DEF StatusOf, DebtOf, Queued
<1>4. CASE post_mode
  <2>1. /\ phase = "post" /\ missing = {}
        /\ UNCHANGED <<owner, jobState, jobWant, serial>>
    BY <1>4 DEF post_mode, jobVars, countVars
  <2>2. CASE owner # User \/ pending = {}
    <3>1. phase' = "exit" /\ pending' = pending /\ missing' = missing
      BY <1>4, <2>2 DEF post_mode
    <3> QED BY <2>1, <2>2, <3>1 DEF StatusOf, DebtOf, Queued
  <2>3. CASE owner = User /\ pending # {}
    <3>1. phase' = "spawn" /\ missing' = pending /\ pending' = {}
      BY <1>4, <2>3 DEF post_mode
    <3> QED BY <2>1, <2>3, <3>1 DEF StatusOf, DebtOf, Queued
  <2> QED BY <2>2, <2>3
<1>5. CASE Exit
  <2>1. /\ phase = "exit" /\ phase' = "idle" /\ owner' = User
        /\ jobState' = IF owner = User THEN jobState
                       ELSE [jobState EXCEPT ![owner] = IF ok THEN "done" ELSE "failed"]
        /\ UNCHANGED <<jobWant, serial>>
    BY <1>5 DEF Exit, End, countVars
  <2>2. CASE owner = n
    BY <2>1, <2>2 DEF StatusOf, Queued
  <2>3. CASE owner # n
    <3>1. jobState'[n] = jobState[n]
      BY <2>1, <2>3
    <3> QED BY <2>1, <3>1 DEF StatusOf, DebtOf, Queued
  <2> QED BY <2>2, <2>3
<1>6. ASSUME NEW j \in Jobs, NEW st \in JobStates \ {"none", "poll", "running"},
             jobState[j] = "poll", JobEnds(j, st)
      PROVE  Keeps(n) \/ Closes(n)
  <2>1. /\ jobState' = [jobState EXCEPT ![j] = st]
        /\ UNCHANGED <<phase, owner, pending, missing, jobWant, serial>>
    BY <1>6 DEF JobEnds, fileVars, txnVars, countVars
  <2>2. CASE j = n
    BY <1>6, <2>1, <2>2 DEF StatusOf, Queued
  <2>3. CASE j # n
    <3>1. jobState'[n] = jobState[n]
      BY <2>1, <2>3
    <3> QED BY <2>1, <3>1 DEF StatusOf, DebtOf, Queued
  <2> QED BY <2>2, <2>3
<1>7. CASE Kill
  <2>1. /\ phase # "idle" /\ phase' = "idle"
        /\ jobState' = IF owner = User THEN jobState
                       ELSE [jobState EXCEPT ![owner] = "failed"]
        /\ UNCHANGED <<jobWant, serial>>
    BY <1>7 DEF Kill, End
  <2>2. CASE owner = n
    BY <2>1, <2>2 DEF StatusOf, Queued
  <2>3. CASE owner # n
    <3>1. jobState'[n] = jobState[n]
      BY <2>1, <2>3
    <3>2. CASE n > serial
      BY <2>1, <3>1, <3>2 DEF StatusOf, DebtOf, Queued
    <3>3. CASE n <= serial
      BY <2>1, <3>1, <3>3 DEF StatusOf, DebtOf, Queued
    <3> QED BY <3>2, <3>3
  <2> QED BY <2>2, <2>3
<1>8. CASE Reboot
  <2>1. /\ phase' = "idle"
        /\ jobState'[n] = IF jobState[n] \in {"poll", "running"} THEN "killed"
                          ELSE jobState[n]
        /\ UNCHANGED <<jobWant, serial>>
    BY <1>8 DEF Reboot, End
  <2>2. CASE n > serial
    BY <2>1, <2>2 DEF StatusOf, DebtOf, Queued
  <2>3. CASE n <= serial
    BY <2>1, <2>3 DEF StatusOf, DebtOf, Queued
  <2> QED BY <2>2, <2>3
<1> QED
  BY <1>1, <1>2, <1>3, <1>4, <1>5, <1>6, <1>7, <1>8, NextCases

\* The pre hook queues the request's follow-up, or closes it when there is
\* nothing to do.
LEMMA PreModeStep ==
    ASSUME IInv, pre_mode PROVE Abstract!Next
<1> USE Constants DEF IInv, TypeOK, Bookkeeping, User
<1>1. /\ phase = "pre" /\ phase' = "dpkg" /\ missing = {} /\ serial > 0
      /\ UNCHANGED <<owner, missing, jobState, jobWant, serial>>
  BY DEF pre_mode, jobVars, countVars
<1>2. CASE owner = User /\ pending' # {}
  <2>1. serial \in Jobs /\ jobState[serial] = "none"
    BY <1>1, <1>2
  <2>2. /\ StatusOf(serial) = "none" /\ StatusOf(serial)' = "queued"
        /\ DebtOf(serial)' = pending'
    BY <1>1, <1>2, <2>1 DEF StatusOf, DebtOf, Queued
  <2>3. \A n \in Jobs \ {serial} : Keeps(n)
    BY <1>1 DEF StatusOf, DebtOf, Queued, Keeps
  <2>4. \A n \in Jobs : StatusOf(n) # "queued"
    BY <1>1 DEF StatusOf, Queued
  <2>5. pending' \in SUBSET Pkgs
    <3>1. [Next]_vars
      BY DEF Next, TxnStep
    <3>2. TypeOK'
      BY <3>1, TypeStep
    <3> QED BY <3>2
  <2>6. PICK S \in SUBSET Pkgs : S = pending'
    BY <2>5
  <2>7. /\ \A n \in Jobs : StatusOf(n)' = IF n = serial THEN "queued" ELSE StatusOf(n)
        /\ \A n \in Jobs : DebtOf(n)' = IF n = serial THEN S ELSE DebtOf(n)
    BY <1>1, <2>2, <2>3, <2>6 DEF Keeps
  <2>8. Abstract!Enqueue(serial, S)
    BY <1>2, <2>1, <2>2, <2>4, <2>6, <2>7 DEF Abstract!Enqueue
  <2> QED BY <2>1, <2>8 DEF Abstract!Next
<1>3. CASE owner # User \/ pending' = {}
  <2>1. \A n \in Jobs : Keeps(n) \/ Closes(n)
    BY <1>1, <1>3 DEF StatusOf, DebtOf, Queued, Keeps, Closes
  <2> QED BY <2>1, CloseStep
<1> QED BY <1>2, <1>3

\* The fork hands exactly the queue to the request's job.
LEMMA SpawnStep ==
    ASSUME IInv, Spawn PROVE Abstract!Next
<1> USE Constants DEF IInv, TypeOK, Bookkeeping, User
<1>1. /\ phase = "spawn" /\ phase' = "exit" /\ owner = User /\ serial \in Jobs
      /\ pending = {} /\ jobState[serial] = "none"
      /\ jobState' = [jobState EXCEPT ![serial] = "poll"]
      /\ jobWant' = [jobWant EXCEPT ![serial] = missing]
      /\ UNCHANGED <<owner, serial>>
  BY DEF Spawn, countVars
<1>2. /\ StatusOf(serial) = "queued" /\ StatusOf(serial)' = "scheduled"
      /\ DebtOf(serial)' = DebtOf(serial)
  BY <1>1 DEF StatusOf, DebtOf, Queued
<1>3. \A n \in Jobs \ {serial} : Keeps(n)
  BY <1>1 DEF StatusOf, DebtOf, Queued, Keeps
<1>4. Abstract!Schedule(serial)
  BY <1>1, <1>2, <1>3 DEF Abstract!Schedule, Abstract!Advance, Keeps
<1> QED BY <1>1, <1>4 DEF Abstract!Next

\* A job's install begins while no other one runs.
LEMMA RunStep ==
    ASSUME IInv, NEW j \in Jobs, JobStarts(j) PROVE Abstract!Next
<1> USE Constants DEF IInv, TypeOK, Bookkeeping, User
<1>1. /\ phase = "idle" /\ owner = User /\ phase' = "pre" /\ owner' = j
      /\ jobState[j] = "poll"
      /\ jobState' = [jobState EXCEPT ![j] = "running"]
      /\ UNCHANGED <<jobWant, serial>>
  BY DEF JobStarts, LocksFree, Begin, countVars
<1>2. /\ StatusOf(j) = "scheduled" /\ StatusOf(j)' = "running"
      /\ DebtOf(j)' = DebtOf(j)
  BY <1>1 DEF StatusOf, DebtOf
<1>3. \A n \in Jobs \ {j} : Keeps(n)
  BY <1>1 DEF StatusOf, DebtOf, Queued, Keeps
<1>4. \A n \in Jobs : StatusOf(n) # "running"
  BY <1>1 DEF StatusOf
<1>5. Abstract!Run(j)
  BY <1>2, <1>3, <1>4 DEF Abstract!Run, Abstract!Advance, Keeps
<1> QED BY <1>5 DEF Abstract!Next

\* The hook implements the follow-up protocol: at most one follow-up for each
\* request, of exactly what its pre hook queued, and none revived.
THEOREM HookImplementsFollowUp == Spec => ImplementsFollowUp
<1>1. Init => Abstract!Init
  BY Constants DEF Init, Abstract!Init, StatusOf, DebtOf, Queued, User
<1>2. IInv /\ [Next]_vars
        => [Abstract!Next]_<<[n \in Jobs |-> StatusOf(n)], [n \in Jobs |-> DebtOf(n)]>>
  BY QuietSteps, CloseStep, PreModeStep, SpawnStep, RunStep
<1> QED BY <1>1, <1>2, Invariance, PTL DEF Spec, ImplementsFollowUp, Abstract!Spec
=============================================================================
