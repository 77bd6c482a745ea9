------------------------------ MODULE AptHook ------------------------------
(***************************************************************************)
(* The APT hook of scripts/apt_hook_ubuntu_virt.sh, as installed by        *)
(* scripts/99-ubuntu-virt.conf.                                            *)
(*                                                                         *)
(* Every QEMU package exists in a base variant (X) and an hwe variant      *)
(* (X-hwe), and the two variants conflict through virt / virt-hwe.  When   *)
(* an apt transaction installs one package of the other variant, apt       *)
(* removes all the packages of the present one.  The --pre hook queues the *)
(* counterparts of what will be removed in a file; the --post hook takes   *)
(* the queue and starts a background job that waits until the four package *)
(* manager locks look free and then runs one apt-get install, with         *)
(* APT_QEMU_HOOK_AUTOFIX=1 so that the hooks of that install do nothing.   *)
(*                                                                         *)
(* apt and dpkg are external: they are modelled as the hook sees them, a   *)
(* transaction under a lock that runs the pre hook, removes and unpacks    *)
(* packages one at a time (and may fail half-way), and runs the post hook  *)
(* with the lock still held.                                               *)
(***************************************************************************)
EXTENDS Naturals, Sequences, FiniteSets

CONSTANTS Qemu,        \* qemu* packages that exist in both variants
          Libvirt,     \* packages of both variants whose name is not qemu*
          Lone,        \* qemu* packages outside the variants (qemu-efi-aarch64)
          MaxTxns,     \* bound: transactions the administrator starts
          MaxOther,    \* bound: other apt commands that take a single lock
          MaxCrashes   \* bound: kills and reboots

ASSUME StemsAssumption ==
    /\ Qemu \cap Libvirt = {}
    /\ Qemu \cap Lone = {}
    /\ Libvirt \cap Lone = {}

ASSUME BoundsAssumption ==
    /\ MaxTxns \in Nat \ {0}
    /\ MaxOther \in Nat
    /\ MaxCrashes \in Nat

----------------------------------------------------------------------------
(***************************************************************************)
(* Packages: a stem and a variant, <<X, "hwe">> being X-hwe.               *)
(***************************************************************************)
Stems    == Qemu \cup Libvirt \cup Lone
Variants == {"base", "hwe"}
Pkgs     == Stems \X Variants

\* The packages some archive offers: a lone package has no -hwe counterpart.
Archive  == Pkgs \ (Lone \X {"hwe"})

is_hwe_pkg(p) == p[2] = "hwe"

\* Mutant: the suffix is appended to a -hwe name too.
Other_AppendOnly(v) == IF v = "hwe" THEN "hwe-hwe" ELSE "hwe"

Other(v) == IF v = "hwe" THEN "base" ELSE "hwe"

\* "${pkg}-hwe" and "${pkg%-hwe}".
Counterpart(p) == <<p[1], Other(p[2])>>

\* Two packages that cannot be installed together: virt-hwe against virt.
Conflict(p, q) == p[1] \notin Lone /\ q[1] \notin Lone /\ p[2] # q[2]

ConflictFree(S) == \A p, q \in S : ~ Conflict(p, q)

\* The names the hook looks at: "qemu*".
QemuOf(S) == {p \in S : p[1] \in Qemu \cup Lone}

----------------------------------------------------------------------------
(***************************************************************************)
(* Transactions are numbered by the administrator's requests, and the job  *)
(* that the post hook of request n starts is job n: a request starts at    *)
(* most one.                                                               *)
(***************************************************************************)
Jobs == 1..MaxTxns
User == 0

Phases    == {"idle", "pre", "dpkg", "post", "spawn", "exit"}
JobStates == {"none", "poll", "running", "done", "failed", "lockedout", "killed"}

\* The locks, in the order the job's fuser calls test them.
Locks == <<"frontend", "dpkg", "lists", "archives">>
Go    == Len(Locks) + 1

VARIABLES
    installed,  \* packages dpkg reports as "installed"
    pending,    \* contents of PENDING_FILE
    phase,      \* progress of the transaction that holds lock-frontend
    owner,      \* who runs it: User, or the job (APT_QEMU_HOOK_AUTOFIX=1)
    plan,       \* archives still to unpack
    remove,     \* packages still to remove
    ok,         \* dpkg has not failed in this transaction
    missing,    \* post_mode's array between reading the file and forking
    jobState,   \* the background subshells
    jobWant,    \* the packages each subshell will install
    probe,      \* the fuser call each subshell makes next; Go: all were free
    other,      \* single locks held by apt-get update, apt-get clean
    serial,     \* requests started so far
    others,     \* single locks taken so far
    crashes,    \* kills and reboots so far
    \* History variables, read by no action.
    before,     \* what was installed when the last request started
    asked,      \* the archives the last request planned
    intact      \* the last request, while nothing failed and nobody but its
                \* own job has started a transaction since; otherwise 0

fileVars    == <<installed, pending>>
txnVars     == <<phase, owner, plan, remove, ok, missing>>
jobVars     == <<jobState, jobWant, probe>>
countVars   == <<serial, others, crashes>>
historyVars == <<before, asked, intact>>
vars == <<fileVars, txnVars, jobVars, other, countVars, historyVars>>

----------------------------------------------------------------------------
(***************************************************************************)
(* What pre_mode computes.                                                 *)
(***************************************************************************)
HasHwe(S)  == \E p \in S : is_hwe_pkg(p)
HasBase(S) == \E p \in S : ~ is_hwe_pkg(p)

target_variant(planned, present) ==
    CASE HasHwe(planned) /\ ~ HasBase(planned) /\ HasBase(present) -> "hwe"
      [] HasBase(planned) /\ ~ HasHwe(planned) /\ HasHwe(present)  -> "base"
      [] OTHER -> "none"

\* Mutant: the package is queued in place of its counterpart.
Missing_Itself(planned, present, target) ==
    {p \in present : p[2] # target /\ Counterpart(p) \notin planned \cup present}

\* Mutant: a counterpart that is planned anyway is queued too.
Missing_Planned(planned, present, target) ==
    {Counterpart(p) : p \in {q \in present : q[2] # target}} \ present

\* The counterparts, of the target variant, of the installed packages of the
\* other one, less those planned or installed already.
Missing(planned, present, target) ==
    {Counterpart(p) : p \in {q \in present : q[2] # target}}
        \ (planned \cup present)

\* Mutant: no recursion guard.
Queue_NoGuard(autofix, planned, present) ==
    LET target == target_variant(planned, present)
    IN  IF planned = {} \/ target = "none"
        THEN {}
        ELSE Missing(planned, present, target)

\* What the hook writes to PENDING_FILE; {} is the file truncated by ": >".
Queue(autofix, planned, present) ==
    LET target == target_variant(planned, present)
    IN  IF autofix \/ planned = {} \/ target = "none"
        THEN {}
        ELSE Missing(planned, present, target)

----------------------------------------------------------------------------
Init ==
    /\ installed \in {S \in SUBSET Archive : ConflictFree(S)}
    /\ pending = {}
    /\ phase = "idle" /\ owner = User /\ plan = {} /\ remove = {}
    /\ ok = TRUE /\ missing = {}
    /\ jobState = [j \in Jobs |-> "none"]
    /\ jobWant  = [j \in Jobs |-> {}]
    /\ probe    = [j \in Jobs |-> 1]
    /\ other = {}
    /\ serial = 0 /\ others = 0 /\ crashes = 0
    /\ before = {} /\ asked = {} /\ intact = 0

\* A transaction takes lock-frontend, the dpkg lock and the archives lock, and
\* gives up at once when it cannot.
LocksFree == phase = "idle" /\ "archives" \notin other

Displaced(want) == {q \in installed : \E p \in want : Conflict(p, q)}

\* A new transaction of process who: unpack want, remove gone.
Begin(who, want, gone) ==
    /\ phase' = "pre" /\ owner' = who /\ ok' = TRUE /\ missing' = {}
    /\ plan' = want /\ remove' = gone

\* The administrator's request number serial + 1.
Request(want, gone) ==
    /\ Begin(User, want, gone)
    /\ serial' = serial + 1
    /\ before' = installed /\ asked' = want /\ intact' = serial'
    /\ UNCHANGED <<fileVars, jobVars, other, others, crashes>>

\* apt-get install, upgrade or reinstall: apt solves it by removing every
\* package that conflicts with the ones it installs.
UserInstall ==
    /\ serial < MaxTxns /\ LocksFree
    /\ \E want \in SUBSET Archive :
          want # {} /\ ConflictFree(want) /\ Request(want, Displaced(want))

\* apt-get remove: no archive is planned.
UserRemove ==
    /\ serial < MaxTxns /\ LocksFree
    /\ \E gone \in SUBSET installed : gone # {} /\ Request({}, gone)

\* apt-get update, apt-get clean: one lock, no hook.
OtherLock ==
    /\ others < MaxOther
    /\ \E l \in {"lists", "archives"} \ other :
          /\ l = "archives" => phase = "idle"
          /\ other' = other \cup {l}
    /\ others' = others + 1
    /\ UNCHANGED <<fileVars, txnVars, jobVars, serial, crashes, historyVars>>

OtherUnlock ==
    /\ \E l \in other : other' = other \ {l}
    /\ UNCHANGED <<fileVars, txnVars, jobVars, countVars, historyVars>>

----------------------------------------------------------------------------
(***************************************************************************)
(* The steps of the transaction that holds the lock.                       *)
(***************************************************************************)
\* Mutant: the early returns leave the file as it is.
pre_mode_NoClear ==
    /\ phase = "pre"
    /\ LET queue == Queue(owner # User, QemuOf(plan), QemuOf(installed))
       IN  pending' = IF queue = {} THEN pending ELSE queue
    /\ phase' = "dpkg"
    /\ UNCHANGED <<installed, owner, plan, remove, ok, missing, jobVars, other,
                   countVars, historyVars>>

pre_mode ==
    /\ phase = "pre"
    /\ pending' = Queue(owner # User, QemuOf(plan), QemuOf(installed))
    /\ phase' = "dpkg"
    /\ UNCHANGED <<installed, owner, plan, remove, ok, missing, jobVars, other,
                   countVars, historyVars>>

DpkgRemove ==
    /\ phase = "dpkg"
    /\ \E p \in remove :
          installed' = installed \ {p} /\ remove' = remove \ {p}
    /\ UNCHANGED <<pending, phase, owner, plan, ok, missing, jobVars, other,
                   countVars, historyVars>>

\* dpkg unpacks a package once what conflicts with it is gone.
DpkgInstall ==
    /\ phase = "dpkg" /\ remove = {}
    /\ \E p \in plan :
          installed' = installed \cup {p} /\ plan' = plan \ {p}
    /\ UNCHANGED <<pending, phase, owner, remove, ok, missing, jobVars, other,
                   countVars, historyVars>>

DpkgDone ==
    /\ phase = "dpkg" /\ remove = {} /\ plan = {}
    /\ phase' = "post"
    /\ UNCHANGED <<fileVars, owner, plan, remove, ok, missing, jobVars, other,
                   countVars, historyVars>>

\* A maintainer script or an unpack fails: apt still runs Post-Invoke.
DpkgFail ==
    /\ phase = "dpkg" /\ remove \cup plan # {}
    /\ phase' = "post" /\ ok' = FALSE /\ intact' = 0
    /\ UNCHANGED <<fileVars, owner, plan, remove, missing, jobVars, other,
                   countVars, before, asked>>

\* Mutant: the file is truncated before it is read.
post_mode_TruncateFirst ==
    /\ phase = "post"
    /\ phase' = "exit" /\ UNCHANGED missing
    /\ pending' = IF owner # User THEN pending ELSE {}
    /\ UNCHANGED <<installed, owner, plan, remove, ok, jobVars, other,
                   countVars, historyVars>>

\* Up to and including ": > $PENDING_FILE".
post_mode ==
    /\ phase = "post"
    /\ IF owner # User \/ pending = {}
       THEN phase' = "exit" /\ UNCHANGED <<pending, missing>>
       ELSE phase' = "spawn" /\ missing' = pending /\ pending' = {}
    /\ UNCHANGED <<installed, owner, plan, remove, ok, jobVars, other,
                   countVars, historyVars>>

\* The subshell is forked into the background.
Spawn ==
    /\ phase = "spawn"
    /\ jobState' = [jobState EXCEPT ![serial] = "poll"]
    /\ jobWant'  = [jobWant EXCEPT ![serial] = missing]
    /\ probe'    = [probe EXCEPT ![serial] = 1]
    /\ phase' = "exit" /\ missing' = {}
    /\ UNCHANGED <<fileVars, owner, plan, remove, ok, other, countVars, historyVars>>

\* apt-get is gone, and so are its locks.
End ==
    /\ phase' = "idle" /\ owner' = User /\ plan' = {} /\ remove' = {}
    /\ ok' = TRUE /\ missing' = {}

\* Mutant: a job whose install failed tries again.
Exit_Retry ==
    /\ phase = "exit"
    /\ End
    /\ jobState' = IF owner = User THEN jobState
                   ELSE [jobState EXCEPT ![owner] = IF ok THEN "done" ELSE "poll"]
    /\ UNCHANGED <<fileVars, jobWant, probe, other, countVars, historyVars>>

\* apt-get exits; a job's subshell logs the result and ends.
Exit ==
    /\ phase = "exit"
    /\ End
    /\ jobState' = IF owner = User THEN jobState
                   ELSE [jobState EXCEPT ![owner] = IF ok THEN "done" ELSE "failed"]
    /\ UNCHANGED <<fileVars, jobWant, probe, other, countVars, historyVars>>

----------------------------------------------------------------------------
(***************************************************************************)
(* The background subshells.                                               *)
(***************************************************************************)
\* What a fuser call may find.  apt lends the dpkg lock to the dpkg it runs,
\* and in between nobody holds it.
MayBeHeld(l) ==
    CASE l \in {"frontend", "dpkg"} -> phase # "idle"
      [] l = "lists"                -> l \in other
      [] l = "archives"             -> phase # "idle" \/ l \in other

MayBeFree(l) == ~ MayBeHeld(l) \/ (l = "dpkg" /\ phase = "dpkg")

\* Mutant: the loop's condition is inverted.
JobProbe_Inverted(j) ==
    /\ jobState[j] = "poll" /\ probe[j] < Go
    /\ \/ /\ MayBeFree(Locks[probe[j]])
          /\ probe' = [probe EXCEPT ![j] = 1]
       \/ /\ MayBeHeld(Locks[probe[j]])
          /\ probe' = [probe EXCEPT ![j] = @ + 1]
    /\ UNCHANGED <<fileVars, txnVars, jobState, jobWant, other, countVars,
                   historyVars>>

\* One fuser call.  A held lock sends the job to sleep and back to the first.
JobProbe(j) ==
    /\ jobState[j] = "poll" /\ probe[j] < Go
    /\ \/ /\ MayBeHeld(Locks[probe[j]])
          /\ probe' = [probe EXCEPT ![j] = 1]
       \/ /\ MayBeFree(Locks[probe[j]])
          /\ probe' = [probe EXCEPT ![j] = @ + 1]
    /\ UNCHANGED <<fileVars, txnVars, jobState, jobWant, other, countVars,
                   historyVars>>

\* The apt-get install of job j ends before it begins a transaction.
JobEnds(j, state) ==
    /\ jobState' = [jobState EXCEPT ![j] = state]
    /\ UNCHANGED <<fileVars, txnVars, jobWant, probe, other, countVars, historyVars>>

\* apt-get install -y "${missing[@]}".
AptGetInstall(j) ==
    LET want  == jobWant[j]
        known == want \subseteq Archive /\ ConflictFree(want)
    IN  \/ ~ LocksFree /\ JobEnds(j, "lockedout")
        \/ LocksFree /\ ~ known /\ JobEnds(j, "failed")
        \/ LocksFree /\ known /\ want \subseteq installed /\ JobEnds(j, "done")
        \/ /\ LocksFree /\ known /\ ~ want \subseteq installed
           /\ Begin(j, want \ installed, Displaced(want))
           /\ jobState' = [jobState EXCEPT ![j] = "running"]
           /\ intact' = IF intact = j THEN j ELSE 0
           /\ UNCHANGED <<fileVars, jobWant, probe, other, countVars, before, asked>>

\* Mutant: the install does not wait for the locks.
JobInstall_NoWait(j) == jobState[j] = "poll" /\ AptGetInstall(j)

\* Once the loop has ended, a single attempt.
JobInstall(j) == jobState[j] = "poll" /\ probe[j] = Go /\ AptGetInstall(j)

----------------------------------------------------------------------------
(***************************************************************************)
(* Crashes.                                                                *)
(***************************************************************************)
\* apt-get and the hook it runs are killed; the kernel releases the locks.  A
\* redirection interrupted after it truncated the file leaves it empty.
Kill ==
    /\ phase # "idle" /\ crashes < MaxCrashes
    /\ crashes' = crashes + 1
    /\ pending' \in IF phase \in {"pre", "post"} THEN {pending, {}} ELSE {pending}
    /\ End
    /\ jobState' = IF owner = User THEN jobState
                   ELSE [jobState EXCEPT ![owner] = "failed"]
    /\ intact' = 0
    /\ UNCHANGED <<installed, jobWant, probe, other, serial, others, before, asked>>

\* Every process ends; the file survives unless /tmp is emptied at boot.
Reboot ==
    /\ crashes < MaxCrashes
    /\ crashes' = crashes + 1
    /\ pending' \in {pending, {}}
    /\ End /\ other' = {}
    /\ jobState' = [j \in Jobs |-> IF jobState[j] \in {"poll", "running"}
                                   THEN "killed" ELSE jobState[j]]
    /\ intact' = 0
    /\ UNCHANGED <<installed, jobWant, probe, serial, others, before, asked>>

----------------------------------------------------------------------------
TxnStep == \/ pre_mode \/ DpkgRemove \/ DpkgInstall \/ DpkgDone \/ DpkgFail
           \/ post_mode \/ Spawn \/ Exit

JobStep(j) == JobProbe(j) \/ JobInstall(j)

Next ==
    \/ UserInstall \/ UserRemove
    \/ OtherLock \/ OtherUnlock
    \/ TxnStep
    \/ \E j \in Jobs : JobStep(j)
    \/ Kill \/ Reboot

Spec == Init /\ [][Next]_vars

\* A running apt-get, a background subshell and a lock holder keep going; the
\* administrator and the crashes owe nothing.
Fairness ==
    /\ WF_vars(TxnStep)
    /\ WF_vars(OtherUnlock)
    /\ \A j \in Jobs : WF_vars(JobStep(j))

FairSpec == Spec /\ Fairness

----------------------------------------------------------------------------
(***************************************************************************)
(* Properties.                                                             *)
(***************************************************************************)
\* Type correctness of the file, the transaction, the subshells and the
\* history.
TypeOK ==
    /\ installed \in SUBSET Archive
    /\ pending \in SUBSET Pkgs
    /\ phase \in Phases
    /\ owner \in Jobs \cup {User}
    /\ plan \in SUBSET Archive
    /\ remove \in SUBSET Archive
    /\ ok \in BOOLEAN
    /\ missing \in SUBSET Pkgs
    /\ jobState \in [Jobs -> JobStates]
    /\ jobWant \in [Jobs -> SUBSET Pkgs]
    /\ probe \in [Jobs -> 1..Go]
    /\ other \in SUBSET {"lists", "archives"}
    /\ serial \in 0..MaxTxns
    /\ others \in 0..MaxOther
    /\ crashes \in 0..MaxCrashes
    /\ before \in SUBSET Archive
    /\ asked \in SUBSET Archive
    /\ intact \in {0, serial}

\* c is a counterpart that the last request left out.
OwedBy(c) == Counterpart(c) \in before /\ c \notin before \cup asked

\* The one global queue file is never read stale: whatever a post hook finds,
\* holds or has handed to the last request's job was queued by the pre hook of
\* that very transaction, even when an earlier apt-get was killed between its
\* two hooks and left its queue behind (pre_mode writes the file on every path).
FreshQueue ==
    /\ phase \in {"dpkg", "post", "spawn"} =>
          \A c \in pending \cup missing : owner = User /\ OwedBy(c)
    /\ \A j \in Jobs : serial = j /\ jobState[j] # "none" =>
          \A c \in jobWant[j] : OwedBy(c)

\* Without a crash, no queue survives the transaction that wrote it: not a
\* job's own install either, which may well be a variant switch itself when
\* the administrator has switched back in the meantime (the recursion guard of
\* pre_mode empties the file).
NothingLeftBehind ==
    phase = "idle" /\ crashes = 0 => pending = {} /\ missing = {}

NoLone == \A p \in before \cup asked : p[1] \notin Lone

\* A request that installs QEMU packages of one variant ends, when its own job
\* has ended well and nothing failed or came between, with every QEMU package
\* that was there before installed in that variant.
SwitchComplete ==
    /\ phase = "idle" /\ intact # 0 /\ NoLone
    /\ jobState[intact] \in {"none", "done"}
    => \A p \in asked, q \in before :
          p[1] \in Qemu /\ q[1] \in Qemu => <<q[1], p[2]>> \in installed

\* The follow-up install of a request that nothing came between only adds
\* packages: it never makes apt remove one.
FollowUpOnlyAdds ==
    owner # User /\ intact = owner /\ NoLone => remove = {}

\* The queue is exact: the counterparts of the installed QEMU packages that a
\* planned QEMU package displaces, and nothing else, as long as no lone package
\* is involved.
Owed == {c \in Qemu \X Variants :
            /\ Counterpart(c) \in before /\ c \notin asked
            /\ \E p \in asked : p[1] \in Qemu /\ Conflict(p, Counterpart(c))}

QueueExact == owner = User /\ phase = "dpkg" /\ NoLone => pending = Owed

\* 99-ubuntu-virt.conf: "If switching base<->hwe variant, missing counterparts
\* are queued": every owed counterpart is in the queue.
SwitchQueuesCounterparts == owner = User /\ phase = "dpkg" => Owed \subseteq pending

\* 99-ubuntu-virt.conf: "Post hook performs a follow-up apt-get install for
\* queued counterparts" - no job gives up because another process took a lock
\* between its last fuser call and its apt-get.
FollowUpGetsLock == \A j \in Jobs : jobState[j] # "lockedout"

\* Every background job comes to an end once the administrator rests.
JobsFinish ==
    \A j \in Jobs : jobState[j] = "poll" ~> jobState[j] \notin {"poll", "running"}

\* With nobody interfering, a started job installs all it was given.
QuietJobSucceeds ==
    \A j \in Jobs :
        (jobState[j] = "poll" /\ intact = j /\ NoLone)
            ~> (jobState[j] = "done" \/ intact # j \/ others > 0)
----------------------------------------------------------------------------
(***************************************************************************)
(* The hook implements the follow-up protocol.                             *)
(***************************************************************************)
\* The last request's pre hook has queued something that no job has taken yet.
Queued(n) ==
    /\ n = serial /\ owner = User
    /\ phase = "spawn" \/ (phase \in {"dpkg", "post"} /\ pending # {})

StatusOf(n) ==
    CASE jobState[n] = "poll"             -> "scheduled"
      [] jobState[n] = "running"          -> "running"
      [] jobState[n] = "none" /\ Queued(n) -> "queued"
      [] jobState[n] = "none" /\ (n > serial
            \/ (n = serial /\ owner = User /\ phase = "pre")) -> "none"
      [] OTHER                            -> "closed"

DebtOf(n) ==
    CASE StatusOf(n) = "queued"                   -> pending \cup missing
      [] StatusOf(n) \in {"scheduled", "running"} -> jobWant[n]
      [] OTHER                                    -> {}

Abstract == INSTANCE FollowUp
    WITH Requests <- Jobs, Items <- Pkgs,
         status <- [n \in Jobs |-> StatusOf(n)],
         debt   <- [n \in Jobs |-> DebtOf(n)]

\* Across kills, reboots, failed installs and lock races, a request gets at
\* most one follow-up, of exactly what its own pre hook queued, and a lost
\* follow-up is never revived by a later transaction.
ImplementsFollowUp == Abstract!Spec
=============================================================================
