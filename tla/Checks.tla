------------------------------- MODULE Checks -------------------------------
(***************************************************************************)
(* The installation checks that scripts/test.sh runs one after another on  *)
(* a host where the APT hook is active.  They install and remove packages  *)
(* with apt-get and look at the host with one dpkg-query per package,      *)
(* while the background jobs that the hook started for their own commands  *)
(* may still be waiting, running, or winning the lock that the next        *)
(* apt-get needs.                                                          *)
(*                                                                         *)
(* The checks are a straight line of commands: Program is that line, pc    *)
(* the command that comes next.  What they do apart from the packages      *)
(* (comparing files, cloning, building, copying .debs) is a command that   *)
(* may fail.  --ext-deps of check.sh is left out.                          *)
(***************************************************************************)
EXTENDS AptHook, SequencesExt

CONSTANTS PACKAGES,      \* the sequence of stems that check.sh goes through
          ExtPackages,   \* those that count as external (libvirt-...-qemu)
          ExtNeeds,      \* what debvm, genimage, ... of check-default.sh need
          FactoryNeeds,  \* what image-factory needs
          ShdepsNeeds,   \* what virt-top needs to be built: libvirt-dev
          Needs,         \* the stems a package depends on or recommends
          Utils,         \* qemu-utils
          MaxFaults      \* bound: failures of dpkg, locks taken by others

ASSUME ChecksAssumption ==
    /\ PACKAGES \in Seq(Stems)
    /\ \A s \in Stems : \E i \in 1..Len(PACKAGES) : PACKAGES[i] = s
    /\ ExtPackages \subseteq Stems
    /\ ExtNeeds \in Seq(SUBSET Stems)
    /\ FactoryNeeds \subseteq Stems
    /\ ShdepsNeeds \subseteq Stems
    /\ Utils \in Qemu
    /\ MaxFaults \in Nat

\* Dependencies are followed to the end.  What is outside the variants needs
\* nothing inside them, and building against libvirt needs no QEMU package.
ASSUME NeedsAssumption ==
    /\ Needs \in [Stems -> SUBSET Stems]
    /\ \A s \in Stems : \A t \in Needs[s] : Needs[t] \subseteq Needs[s]
    /\ \A s \in Lone : Needs[s] \subseteq Lone
    /\ \A s \in ShdepsNeeds : {s} \cup Needs[s] \subseteq Libvirt

VARIABLES
    pc,        \* the next command of Program
    baseline,  \* BASELINE_PKGS
    flag,      \* had_error of check-idempotence.sh, and the negation of
               \* installed_any_virt of check-default.sh
    verdict,   \* what test.sh makes of it
    faults,    \* failures of dpkg and locks taken by others so far
    \* History variable, read by no action.
    hurt       \* what went wrong: "command", a command of the checks was
               \* refused or failed; "early", a package was looked at
               \* while a follow-up was under way

checkVars == <<pc, baseline, flag, verdict, hurt, faults>>
allVars   == <<vars, checkVars>>

----------------------------------------------------------------------------
(***************************************************************************)
(* The commands.  An apt-get names packages (of), or the stems it depends  *)
(* on; one that may fail is followed by "|| true".                         *)
(***************************************************************************)
Cmd(do, of, mayFail) == [do |-> do, of |-> of, mayFail |-> mayFail]

update        == <<Cmd("update", {}, FALSE)>>
outside       == <<Cmd("outside", {}, FALSE)>>
install(S)    == <<Cmd("install", S, FALSE)>>
depend(S)     == <<Cmd("depend", S \X {"base"}, FALSE)>>
See(do, s, v) == <<Cmd(do, {<<s, v>>}, FALSE)>>

\* The name of every package and its -hwe name are on the command line.
remove_all_test_packages == <<Cmd("remove", Pkgs, TRUE)>>

remove_external_dep_packages == <<Cmd("remove", ExtPackages \X {"base"}, TRUE)>>

\* One piece of program per package of the list, in its order.
ForEach(piece) == FlattenSeq([i \in 1..Len(PACKAGES) |-> piece[PACKAGES[i]]])

\* No -hwe package, and some base package.
verify_only_base_variants ==
    LET look == [s \in Stems |-> See("out", s, "hwe") \o See("any", s, "base")]
    IN  <<Cmd("begin_any", {}, FALSE)>> \o ForEach(look)
            \o <<Cmd("judge", {}, FALSE)>>

CheckDefault ==
    update \o remove_all_test_packages
        \o FlattenSeq([n \in 1..Len(ExtNeeds) |-> depend(ExtNeeds[n])])
        \o verify_only_base_variants

\* Mutant: had_error is cleared for every package.
VerifySwitch_LastOnly ==
    LET look == [s \in Stems |->
            <<Cmd("begin", {}, FALSE)>> \o See("base_in", s, "hwe")
                \o See("base_out", s, "base")]
    IN  ForEach(look) \o See("switched", Utils, "hwe")
            \o See("gone", Utils, "base") \o <<Cmd("judge", {}, FALSE)>>

\* Every base package of the baseline has given way to its -hwe counterpart.
VerifySwitch ==
    LET look == [s \in Stems |->
            See("base_in", s, "hwe") \o See("base_out", s, "base")]
    IN  ForEach(look) \o See("switched", Utils, "hwe")
            \o See("gone", Utils, "base") \o <<Cmd("judge", {}, FALSE)>>

CheckIdempotence ==
    update \o depend(FactoryNeeds) \o <<Cmd("collect", {}, FALSE)>>
        \o install({<<Utils, "hwe">>})
        \o <<Cmd("begin", {}, FALSE)>> \o VerifySwitch

\* git clone, apt-get build-dep and dpkg-buildpackage, on a host that has git.
CheckShdeps == outside \o update \o depend(ShdepsNeeds) \o outside

\* The directories are there; update; the .debs of hwe-11.2 are copied.  The
\* rest of the script is commented out.
CheckUpgrade == outside \o update \o outside

\* Mutant: only the counterpart of the pair is looked at.
check_exclusive_state_Pair(s, v) ==
    LET look == [t \in Stems |-> See("out", s, Other(v))]
    IN  See("in", s, v) \o ForEach(look)

check_exclusive_state(s, v) ==
    LET look == [t \in Stems |-> See("out", t, Other(v))]
    IN  See("in", s, v) \o ForEach(look)

CheckPair(s) ==
    remove_external_dep_packages \o remove_all_test_packages
        \o install({<<s, "base">>}) \o check_exclusive_state(s, "base")
        \o remove_external_dep_packages \o remove_all_test_packages
        \o install({<<s, "hwe">>}) \o check_exclusive_state(s, "hwe")

\* test.sh stops at the first check that fails; check-deps.sh and check-diff.sh
\* come second and third.
Program == CheckDefault \o outside \o CheckIdempotence \o CheckShdeps
               \o CheckUpgrade \o update \o ForEach([s \in Stems |-> CheckPair(s)])

\* Every apt-get of the line can have a transaction of its own.
ASSUME ProgramFits ==
    Cardinality({i \in 1..Len(Program) :
                    Program[i].do \in {"install", "depend", "remove"}}) <= MaxTxns

\* Where each check begins: a check can also be run by hand.
Starts == {1, 1 + Len(CheckDefault), 2 + Len(CheckDefault),
           2 + Len(CheckDefault \o CheckIdempotence),
           2 + Len(CheckDefault \o CheckIdempotence \o CheckShdeps),
           2 + Len(CheckDefault \o CheckIdempotence \o CheckShdeps \o CheckUpgrade)}

----------------------------------------------------------------------------
(***************************************************************************)
(* apt (external) installs what the packages it is told to install depend  *)
(* on and recommend, in their own variant, and removes what needs a        *)
(* package it removes.                                                     *)
(***************************************************************************)
Requires(p) == {<<t, IF t \in Lone THEN "base" ELSE p[2]>> : t \in Needs[p[1]]}

Bring(S) == (S \cup UNION {Requires(p) : p \in S}) \ installed

\* test.sh, or the checks from one of them on, on any host.
ChecksInit ==
    /\ Init
    /\ \A p \in installed : Requires(p) \subseteq installed
    /\ pc \in Starts /\ baseline = {} /\ flag = FALSE
    /\ verdict = "running" /\ hurt = {} /\ faults = 0

\* The script waits for its own apt-get.
Waiting == phase # "idle" /\ owner = User

cmd == Program[pc]

At(doing) == verdict = "running" /\ ~ Waiting /\ cmd.do \in doing

\* The next command, and the verdict after the last one.
Onward ==
    /\ pc' = pc + 1
    /\ verdict' = IF pc = Len(Program) THEN "passed" ELSE "running"

Stops == verdict' = "failed" /\ UNCHANGED pc

\* "set -e", exit_with_failure or "|| true".
CommandFails ==
    /\ IF cmd.mayFail THEN Onward ELSE Stops
    /\ hurt' = hurt \cup {"command"} /\ UNCHANGED <<baseline, flag>>

CommandSucceeds == Onward /\ UNCHANGED <<baseline, flag, hurt>>

\* apt-get update wants the lists lock alone.
Update ==
    /\ At({"update"})
    /\ IF "lists" \in other THEN CommandFails ELSE CommandSucceeds
    /\ UNCHANGED <<vars, faults>>

\* A command that has nothing to do with the packages.
Outside ==
    /\ At({"outside"})
    /\ CommandSucceeds \/ CommandFails
    /\ UNCHANGED <<vars, faults>>

\* apt meets dependencies with what is installed or provides them, else with
\* the packages of those names or, on a host with -hwe packages, with the ones
\* that provide them.
Met(S) == \A p \in S : p \in installed \/ Counterpart(p) \in installed

Providers(S) == {IF p[1] \in Lone THEN p ELSE Counterpart(p) : p \in S}

Solutions(S) ==
    IF Met(S) THEN {{}}
    ELSE {Bring(S)} \cup (IF HasHwe(installed) THEN {Bring(Providers(S))} ELSE {})

\* apt-get install and apt-get remove give up at once without the locks, and
\* when they are told a name that no archive has.
Refused == ~ LocksFree \/ ~ cmd.of \subseteq Archive

Want(c) == CASE c.do = "install" -> {Bring(c.of)}
             [] c.do = "depend"  -> Solutions(c.of)
             [] OTHER            -> {{}}

Gone(c, want) ==
    IF c.do = "remove"
    THEN {p \in installed : ({p} \cup Requires(p)) \cap c.of # {}}
    ELSE Displaced(want)

AptGet ==
    /\ At({"install", "depend", "remove"})
    /\ \/ Refused /\ CommandFails /\ UNCHANGED <<vars, faults>>
       \/ /\ ~ Refused
          /\ \E want \in Want(cmd) :
                IF want \cup Gone(cmd, want) = {}
                THEN CommandSucceeds /\ UNCHANGED <<vars, faults>>
                ELSE Request(want, Gone(cmd, want)) /\ UNCHANGED checkVars

\* The apt-get of the script has ended.
AptGetReturns ==
    /\ owner = User /\ Exit
    /\ IF ok THEN CommandSucceeds ELSE CommandFails
    /\ UNCHANGED faults

----------------------------------------------------------------------------
(***************************************************************************)
(* Looking at the host, one dpkg-query at a time.                          *)
(***************************************************************************)
is_installed(p) == p \in installed

\* The follow-up jobs that have not ended.
Alive == {j \in Jobs : jobState[j] \in {"poll", "running"}}

Looks == hurt' = IF Alive = {} THEN hurt ELSE hurt \cup {"early"}

\* had_error=0, installed_any_virt=0.
Reset ==
    /\ At({"begin", "begin_any"})
    /\ flag' = (cmd.do = "begin_any")
    /\ Onward /\ UNCHANGED <<vars, baseline, hurt, faults>>

\* Mutant: the status column is read in place of the name.
Collect_Status ==
    /\ At({"collect"})
    /\ baseline' = {<<p, "installed">> : p \in installed}
    /\ IF installed = {} THEN Stops ELSE Onward
    /\ UNCHANGED <<vars, flag, hurt, faults>>

\* mapfile BASELINE_PKGS; an empty list is a failure.
Collect ==
    /\ At({"collect"})
    /\ baseline' = installed
    /\ IF installed = {} THEN Stops ELSE Onward
    /\ UNCHANGED <<vars, flag, hurt, faults>>

\* A look that ends the check when it fails.
Look ==
    /\ At({"in", "out"})
    /\ IF \A p \in cmd.of : is_installed(p) <=> cmd.do = "in" THEN Onward ELSE Stops
    /\ Looks /\ UNCHANGED <<vars, baseline, flag, faults>>

\* A look that is remembered until the judgement.
Note ==
    /\ At({"any", "base_in", "base_out", "switched", "gone"})
    /\ \E p \in cmd.of :
          flag' = CASE cmd.do = "any" -> flag /\ ~ is_installed(p)
                    [] cmd.do = "base_in" ->
                          flag \/ (Counterpart(p) \in baseline /\ ~ is_installed(p))
                    [] cmd.do = "base_out" ->
                          flag \/ (p \in baseline /\ is_installed(p))
                    [] cmd.do = "switched" -> flag \/ ~ is_installed(p)
                    [] cmd.do = "gone"     -> flag \/ is_installed(p)
    /\ Onward /\ Looks /\ UNCHANGED <<vars, baseline, faults>>

Judge ==
    /\ At({"judge"})
    /\ IF flag THEN Stops ELSE Onward
    /\ UNCHANGED <<vars, baseline, flag, hurt, faults>>

CheckStep == Update \/ Outside \/ AptGet \/ Reset \/ Collect \/ Look \/ Note \/ Judge

----------------------------------------------------------------------------
\* The transactions, jobs and other apt commands of the host.
TxnGoesOn ==
    /\ \/ pre_mode \/ DpkgRemove \/ DpkgInstall \/ DpkgDone
       \/ post_mode \/ Spawn \/ (owner # User /\ Exit)
    /\ UNCHANGED checkVars

Fault == faults < MaxFaults /\ faults' = faults + 1

DpkgFails == Fault /\ DpkgFail /\ UNCHANGED <<pc, baseline, flag, verdict, hurt>>

JobGoesOn(j) == JobStep(j) /\ UNCHANGED checkVars

Others ==
    /\ Fault /\ OtherLock
    /\ UNCHANGED <<pc, baseline, flag, verdict, hurt>>

OthersEnd == OtherUnlock /\ UNCHANGED checkVars

ChecksNext ==
    \/ CheckStep \/ AptGetReturns
    \/ TxnGoesOn \/ DpkgFails \/ Others \/ OthersEnd
    \/ \E j \in Jobs : JobGoesOn(j)

ChecksSpec == ChecksInit /\ [][ChecksNext]_allVars

----------------------------------------------------------------------------
(***************************************************************************)
(* Properties.                                                             *)
(***************************************************************************)
\* Type correctness of the checks' own state.
ChecksTypeOK ==
    /\ pc \in 1..Len(Program) + 1
    /\ baseline \in SUBSET Archive
    /\ flag \in BOOLEAN
    /\ verdict \in {"running", "failed", "passed"}
    /\ hurt \in SUBSET {"command", "early"}
    /\ faults \in 0..MaxFaults

\* The command just done was doing.
After(doing) == verdict # "failed" /\ pc > 1 /\ Program[pc - 1].do = doing

\* "Baseline package switch verification passed" is true when it is printed:
\* check-idempotence.sh reads one package after another while the follow-up
\* job installs them, and what it has read is not undone behind it, unless a
\* job of an earlier command has come between.
SwitchSeen ==
    After("judge") /\ baseline # {} /\ intact = serial =>
        /\ \A p \in baseline : ~ is_hwe_pkg(p) => Counterpart(p) \in installed
        /\ \A p \in installed : p[1] \notin Lone => is_hwe_pkg(p)

\* "Exclusivity check passed" is true when it is printed: check.sh reads one
\* package after another, with the follow-up jobs of commands whose removal was
\* swallowed by "|| true" about, and the package is there and everything else
\* is of its variant, unless a job of an earlier command has come between.
ExclusiveSeen ==
    \A i \in 1..Len(Program) :
        /\ Program[i].do = "in" /\ pc = i + 1 + Len(PACKAGES)
        /\ verdict # "failed" /\ ~ Waiting /\ intact = serial
        => \A p \in Program[i].of :
              p \in installed /\ \A q \in installed : q[2] = p[2]

\* check.sh takes every package away before it installs one of the other
\* variant, so that its installs are no switches: as long as its apt-get
\* commands succeed, no follow-up job of an earlier pair meets a later one.
PairsAreNoSwitch ==
    verdict = "running" /\ hurt = {} /\ cmd.do \in {"in", "out"} =>
        Alive = {} /\ pending = {}
=============================================================================
