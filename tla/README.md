# virt-hwe in TLA+

virt-hwe builds a second, "hardware enablement" variant (`X-hwe`) of every QEMU and
libvirt package `X`, publishes both variants in a local archive, and checks that a host can
be moved between them. This directory models the parts of it that keep state and can go
wrong over several steps, checks them with TLC and proves their safety properties with TLAPS.

## 1. Inventory

| Part | Code | State it keeps | Operations | What is hard |
|---|---|---|---|---|
| APT hook | `scripts/apt_hook_ubuntu_virt.sh`, `scripts/99-ubuntu-virt.conf` | the queue file `PENDING_FILE`; background subshells with a package list each | `--pre` queues counterparts, `--post` empties the queue and forks a job, the job probes four locks and runs one `apt-get install` | jobs interleave with later transactions, the lock test and the install are separate steps, a kill between two steps, one queue file for all transactions, the job's own apt-get runs the hooks again |
| Package pipeline | `pull_launchpad_qemu_debs.sh`, `pull_launchpad_libvirt_debs.sh`, `generate_hwe_11_2_controls.sh`, `pack_hwe_11_2.sh`, `prepare_debs.sh` | `.deb` files of the top directory and of `hwe-11.2`, control trees of `extracted/` and `hwe-11.2/` | pull, `--unpack`, `--pack`, generate, pack 11.2, prepare | source and output are the same file, output directories are reused, a kill or `set -e` exit between two writes, errors that are only printed |
| Control editors | `set_hwe_conflicts.sh`, `set_hwe_dependencies.sh`, `set_hwe_provides_counterpart.sh`, `set_virtual_conflicts.sh`, `set_virtual_provides.sh` | relation fields of the control files | merge a name into a field, rename dependencies | run in any order, again, half-way, after a new unpack; `virt-hwe` is both a package and the mark of a variant |
| Local archive | `scripts/setup.sh`, `scripts/update_local_ppa_from_dir.sh`, `scripts/setup-ppa.sh` | archive directory, index, apt source list, apt's cached metadata | publish, update | files and index change one after the other under apt's cached metadata |
| Source package tools | `create-hwe.py`, `gen-hwe.py`, `hwe-gencontrol.py`, `hwe-rename-maintscripts.py` | `debian/control`, maintainer scripts | rename the packages of a source, prepare its base packages, edit built trees, rename scripts | run in any order, again, on each other's output, after a kill |
| Container driver | `create_container.sh`, `scripts/entrypoint.sh`, `scripts/test.sh`, `Dockerfile` | staging directory | stage files, start the container, run setup and checks | two drivers, and a developer, change the same files |
| Installation checks | `scripts/check*.sh`, `check-virt-provider.sh` | none of their own; they install and remove packages | install and switch sequences | they look at the host while the follow-up job runs |
| Data | `extracted/`, `hwe-11.2/`, `*.deb` | | | input and output of the scripts |
| Release-upgrade demonstration | `simple/` | none | a straight line of external commands | |
| QEMU source | `gencontrol/qemu` | | | third-party test bed of the source package tools |

How the parts interact. The pull scripts fetch `.deb` files and unpack them to control
trees; the editors change the trees in place; `--pack`, generate and pack 11.2 turn them
into `.deb` files again (`prepare_debs.sh` chains these). `create_container.sh` calls
`prepare_debs.sh`, stages the files and starts a container in which `setup.sh` publishes
them as a local archive and copies the hook, and the checks install from it. The hook runs
inside every apt transaction of that host; the fields that the editors wrote decide what
such a transaction removes. At this commit `setup.sh:63` has the copy of
`99-ubuntu-virt.conf` commented out, so that the hook script is copied but apt is not told
of it; the models take the hook as the `.conf` file installs it.

Correctness, part by part:
- *hook*: a follow-up belongs to the transaction that queued it, happens at most once, is
  exactly what that transaction displaced, and completes the switch;
- *pipeline*: a `.deb` carries its own package's payload, prepare leaves the present trees
  packed and nothing older, no source is lost but where a write fails;
- *editors*: the variants exclude each other, packages within one variant do not, and
  the outcome depends only on which scripts have reached a file;
- *local archive*: a finished script leaves apt with exactly what it found; what apt offers
  can be fetched as it was delivered;
- *source tools*: a name in a control file gets one suffix, what depends on it follows, no file is lost;
- *container driver*: drivers that meet do not lose the sources, and do not spoil a later one;
- *checks*: when a check says that a host has switched, or is exclusive, it is so.

## 2. Modules

| Module | Models | Extends |
|---|---|---|
| `AptHook` | the hook, its jobs, and apt, dpkg, lock holders and crashes as it meets them | |
| `FollowUp` | abstract: the at-most-once follow-up protocol | |
| `AptHookInv` | the inductive invariant of the hook | `AptHook` |
| `AptHookProofs` | its safety theorems | `AptHookInv` |
| `AptHookRefinement` | the hook implements `FollowUp` | `AptHookProofs` |
| `MCAptHook` | instances | `AptHookInv` |
| `DebPipeline` | the five pipeline scripts | |
| `DebPipelineProofs` | its theorems | `DebPipeline` |
| `MCDebPipeline` | instances | `DebPipeline` |
| `ControlTrees` | the five editors | |
| `ControlTreesProofs` | its theorems | `ControlTrees` |
| `MCControlTrees` | instances | `ControlTrees` |
| `SourceControl` | the source package tools | |
| `SourceControlProofs` | its theorems | `SourceControl` |
| `MCSourceControl` | instance | `SourceControl` |
| `Drivers` | several `create_container.sh` in one checkout | |
| `DriversProofs` | its theorems | `Drivers` |
| `MCDrivers` | instance | `Drivers` |
| `LocalPpa` | the two publishing scripts, and apt's view of the archive | |
| `LocalPpaProofs` | its theorems | `LocalPpa` |
| `MCLocalPpa` | instance | `LocalPpa` |
| `Checks` | the checks of `test.sh`, composed with the hook | `AptHook` |
| `ChecksProofs` | its theorems | `Checks`, `AptHookProofs` |
| `MCChecks` | instance | `Checks` |

A definition whose name ends in `_Something` and whose comment begins with "Mutant" is a
plausible wrong version of the definition that follows it; with it in place TLC finds the
property that `PROJECT.json` names violated. No specification uses it.

### AptHook
A package is a stem and a variant. `pending` is the queue file, `missing` the array of
`post_mode` between reading the file and forking, `jobState`, `jobWant` and `probe` the
subshells: their state, the list they were forked with, and the `fuser` call they make next.
`phase`, `owner`, `plan`, `remove` and `ok` are the one transaction that can hold
`lock-frontend`; `owner` is the administrator or a job, which stands for
`APT_QEMU_HOOK_AUTOFIX=1`. `pre_mode`, `post_mode` and `Spawn` are the hook;
`JobProbe` is one `fuser` call and `JobInstall` the single attempt; `target_variant`,
`Missing` and `Queue` are what `pre_mode` computes, with its early returns, each of which
truncates the file.

apt and dpkg are external: `UserInstall` takes any conflict-free set of archives and removes
whatever conflicts with it, dpkg removes and unpacks one package at a time and may fail,
after which apt still runs Post-Invoke. apt lends the dpkg lock to dpkg, so a `fuser` call may
find it free during that phase. `Kill` ends apt-get and the hook it runs, and may catch a
redirection that has truncated the file; `Reboot` ends every process and may empty `/tmp`.
`OtherLock` is an `apt-get update` or `clean`, which holds one lock. Logging, the
unknown-mode error and failures of coreutils inside the hook are left out.

`before`, `asked` and `intact` are history: what was installed and asked for at the last
request, and whether anything failed or came between since.

### DebPipeline
A `.deb` is absent, torn (cut short) or whole, with the stem whose `data.tar` it carries and
the control tree it was packed from; a tree has an edit count and the Package and Version it
declares. A command runs a range of the stages in `Order`; `at`, `todo`, `step`, `cur`, `hold`
are the running script: stage, what its loop has still to visit, where the loop's body is, the
package, and `pack_deb`'s temporary directory. Every write to a file is an action of its own, so
that a kill falls between any two, and `Tear` leaves the file in question partial. The errors of
`set -e` are told apart by what they leave: an input that cannot be read ends a command with `failed`,
before it has touched the output; `PackWriteFail`, an `ar` that fails after `rm -f`, ends it with
`aborted` and the output gone or cut short. Abstractions:
the two architectures of a package are one; directories are the scripts' defaults; missing
tools, wrong arguments and printed counts are left out. `Init` is a checkout (trees and
the 11.2 files present) or an empty work directory, with any of the source files fetched.

### ControlTrees
A control file is its relation fields, each a list of names with or without a version
restriction. `merge_item` compares whole items, as the scripts do; `rewrite_field` renames whole
words. `Visit` is one file read and rewritten, `Kill` a script killed after `write_text` has
truncated the file, `Unpack` the replacement of both trees of a package. Alternatives
(`a | b`), line folding and the remaining dependency fields, which are treated like
Depends, are left out. Names are whole: that one can be a prefix of another, which the patterns of
`set_hwe_dependencies.sh:86` have to tell apart, is not modelled. `Upstream` has no Conflicts and no Provides of its own: an upstream
name there would be kept as it is by every script. The meaning of the fields to apt is
`Rejects`: an unversioned conflict with a name the other package has or provides. `Marked` is the one
package that can fall out with its own variant: `virt-hwe`, once it provides `virt`.

### SourceControl
`create-hwe.py`, `gen-hwe.py`, both `hwe-gencontrol.py` (the one at the top adds relations to built
base trees, the one under `debian/` renames built trees) and `hwe-rename-maintscripts.py`. A name is
a stem and the number of its `-hwe` suffixes. `text` is `debian/control` and the file that `-o`
names, each a set of stanzas with a suffix and relations each; `build` is the built trees, `maint` the
maintainer files. `CreateHwe` and `GenHwe` read a file, with the early return for a source that is
renamed already, and `Write` writes what they computed; `Patch`, `Rewrite` and `Rename` are one
iteration of a loop over trees or files, with the refusal to overwrite. `Kill` may cut a write
anywhere: between stanzas, between two fields (`Above` says which fields of a stanza stand above
which), between two names, or inside a word, which may then have lost its `-hwe`; `cut` is the stanza on
which such a file ends. The suffix is added once in control files, not in built trees: a
source renamed by `create-hwe.py`, built, and given to `debian/hwe-gencontrol.py` has packages
with two. `Build`, `Checkout` and `AddFile` are the developer's. Versions, alternatives,
comments and line folding are left out; the fields that are only renamed are represented by
Depends. `wrote`, `rewritten`, `moved` and `made` are history.

### Drivers
Here the scripts of `DebPipeline` run more than once at a time, so the model keeps only what
matters then: a file's content is the number of the edit it was packed from. `pc`, `todo`, `cur` and
`hold` are each driver's stage, loop, package and temporary directory, `staged` its staging
directory. `ArOpen` and `ArClose` are the two ends of `ar`, between which others read a partial file;
`clash` are drivers whose file another one opened meanwhile: the outcome is one of the contents or a
partial file. `PackFail`, `ArFail` and `Fail112` are the exits of `set -e` when a file or a directory
has gone; an `ar` that fails for want of space counts as a kill. Packages are QEMU packages
throughout, since `pack_hwe_11_2.sh` packs no others. A driver that started alone and met no other and no edit is in the history variable
`alone`. docker is external: once `docker run` is reached, a driver is over.

### LocalPpa
`files` and `broken` are the archive directories' files, whole or partial; `index` and `gz` the two index
files; `list` the directory apt is pointed at; `cache` apt's copy of an index and where it came
from. `Clear`, `Copy`, `Scan`, `Gzip`, `WriteList` and `AptGetUpdate` are the steps of both
scripts, one write each. `dpkg-scanpackages` reads the control member only: a partial `.deb` may make
it fail, after it has truncated the index, or is listed like any other. `bad` are files that were
delivered incomplete: the scripts do not look into them, and apt fetches them as they are. `Denied` is the exit when the list file cannot be written, `OtherUpdate` anyone else's
`apt-get update`. One script runs at a time.

### Checks
The checks are straight lines, so `Program` is the sequence of their commands in the order in which
`test.sh` runs them, and `pc` the next one; `Starts` are the places at which a check can be
started by hand. `AptGet` is an `apt-get install`, `build-dep` or `remove` and starts a transaction of
`AptHook`; `Collect`, `Look` and `Note` are one `dpkg-query` each, `Judge` the exit of a check. `Outside` is
what a check does apart from the packages, and may fail: `check-deps.sh` and `check-diff.sh`, the clone and the
build of `check-shdeps.sh`, and the directories and the copy of `check-upgrade.sh`, whose remaining steps are
commented out. `check-shdeps.sh` runs on a host that has git. Everything else - hooks,
dpkg, jobs, lock holders - is `AptHook`'s, at any pace.

apt's solver is external. `Needs` are the packages a package depends on or recommends, to the end: an
install brings them, in its own variant, and a removal takes away what needs the removed. A dependency of a package
from outside the list is met by an installed package or by one that provides it; otherwise the base package is
taken or, on an hwe host, the hwe one. `Lone` are packages of the list that have no `-hwe` counterpart
(`qemu-efi-aarch64`, `seabios`, `ovmf`). The hook takes those whose names begin with `qemu` for base
packages, and does not look at the others; the model has the first kind. A name that no archive has makes the
whole `apt-get` fail, the `remove` of the clean-up included, so that with such a package `check.sh` removes nothing, and,
since it counts such a package as one of the base variant, no `-hwe` package that needs one can pass it.
A follow-up installs the packages it was given; what they need was on the host in the other variant, and is
among them. A kill of the checks ends them without a verdict, and the kills and reboots of
`AptHook` are left to its own runs. `hurt` is history.

## 3. Runs

Passing runs:

| Run | Instance | Shows |
|---|---|---|
| `hook_kinds` | 2 QEMU, 1 libvirt package, 1 `qemu*` package without variants, 2 requests, 1 crash | the queue is exact (`QueueExact`), never read stale (`FreshQueue`) and never left behind (`NothingLeftBehind`); an undisturbed follow-up removes nothing (`FollowUpOnlyAdds`) and completes the switch (`SwitchComplete`) |
| `hook_live` | 2 QEMU packages, 2 requests, 1 lock holder, 1 crash | `ImplementsFollowUp`, `JobsFinish`, `QuietJobSucceeds` |
| `pipeline_both` | 1 QEMU, 1 libvirt package, 3 commands, 1 edit, 1 kill | payloads cannot be mixed up (`PayloadKept`); `PrepareComplete`, `Fresh112`, `LibvirtNames`; a command that finishes or gives up on an input loses no source, a failing `ar` or a kill those of one package (`SourcesSurvive`) |
| `controls_scripts` | 2 packages, one depending on the other, 3 runs, 1 kill, 1 unpack | `Exclusive`; no two packages of a variant exclude each other (`Coinstallable`, `DependenciesFit`; the exception they make for `virt-hwe` is met in `controls_virt` and proved); `FieldsExact`, `NoRepeats` |
| `source_tools` | 2 packages and `ubuntu-virt`, 1 kind of maintainer file, 3 commands, 1 new file, 1 kill | names in control files get one suffix (`SuffixOnce`), together but for the stanza a cut file ends on (`RenamedTogether`); dependencies and files follow, and a package provides and replaces its old name (`RelationsFollow`, `FilesFollow`); a package depends on what it conflicts with only where two tools met (`OneSided`); `RewriteComplete` heals a killed run; `NothingLost` |
| `drivers_two` | 2 drivers, 1 package, 3 starts, 1 edit, 1 kill | drivers that meet lose no source unless one is killed or trees are edited (`SourcesKept`); a driver alone stages the present trees, whatever it found (`AloneStages`) |
| `ppa_archive` | 1 package, 2 versions, 2 archive directories, 3 scripts, 1 delivery, 1 kill | `Published`, `Offered` |
| `checks_host` | 3 QEMU packages, two of which need the first, 1 libvirt package, 1 package without variants that one needs, the whole line of `test.sh`, 1 fault | `SwitchSeen`; `ExclusiveSeen`, where no removal works and the installs of `check.sh` are switches |

Why the bounds are enough. *Hook*: two QEMU packages are needed for one to be requested and the
other to be owed; the libvirt package lets a transaction displace QEMU packages that are not
planned; the package without variants
gives a job a counterpart that no archive has; two requests give a stale queue a reader and a
job a competitor; one crash leaves a queue behind, and a second one can only remove it. More
requests, jobs and crashes are covered by the proofs of section 4. Symmetry is over the QEMU
packages and is used only for invariants. *Pipeline*: three commands are a
kill, a command that builds on what it left, and the prepare that is judged; any two
packages are enough for a mixed-up temporary directory. *Editors*: the scripts treat each file by
itself, and the properties relate two files, so two packages of two variants have all pairs;
a dependency falls out with a conflict only after three scripts, hence three runs; trees for `virt`
itself and more runs are left to the proofs. *Source tools*: two packages give a relation between
packages of one source; three commands are a tool, another on its output, and either of them again.
*Drivers*: two meet, and a third start runs alone on what they left. *Local archive*: the scripts
treat all packages alike and one at a time, so that one package with two versions has an old file and
an old entry to confuse with the new; two directories are the two defaults; three scripts are a kill
or a skipped update, a script elsewhere, and one that heals. *Checks*: a follow-up has a package to
install under the check's eyes, beside the ones that were asked for, and the package without variants makes both
kinds of switch that the hook reads wrongly; `MaxTxns` is at least the
`apt-get` commands of the line (`ProgramFits`), so that it cuts nothing; one fault (of dpkg, or a lock) makes
any one command fail that the others rely on, and the jobs of the checks take locks besides.
The deadlock check is off in all runs: once the bounded requests, commands or runs are used up and
every process has ended, the system is at rest, as the real one is.

Fairness. `FairSpec` of the hook assumes weak fairness of a running apt-get, of each
background subshell and of a lock holder's release: these are processes the kernel schedules
and that wait for nobody. The administrator and crashes owe nothing. No other part has a liveness
property: the remaining scripts are loops over finite lists, and whether they end is up to the
commands they run (`curl` has no time limit).

Runs that show a disagreement between the code and what the repository says of it:

| Run | What the repository says | What the code does |
|---|---|---|
| `hook_lockrace` | `99-ubuntu-virt.conf:7` "Post hook performs a follow-up apt-get install for queued counterparts" | a process that takes a lock after the last `fuser` call makes the only attempt fail; the queue is gone |
| `hook_mixed` | `99-ubuntu-virt.conf:6` "If switching base<->hwe variant, missing counterparts are queued" | a plan that also holds a `qemu*` package without `-hwe` suffix is not taken for a switch |
| `pipeline_rebuilds` | `pull_launchpad_qemu_debs.sh:49` "Rebuild .deb from modified control/ folders (also *-hwe)" | a partial `X-hwe` file hides the complete base `.deb` from every later `--pack` |
| `controls_virt` | `check.sh:13, 393-394`: every `-hwe` package can be installed; `Depends: virt-hwe` | with trees for `virt` itself, `virt-hwe` provides `virt`, with which every `-hwe` package conflicts (`VariantFits`) |

More disagreements are visible in the code without a run. `prepare_debs.sh:17-18` says
that it pulls missing source files, but both pulls are commented out (lines 72-73, 83-84):
without sources it prints "Deb preparation finished." and builds nothing. And the reading of the
plan behind `hook_mixed` has a second effect: on an hwe host, installing only a `qemu*` package
without variants makes `target_variant` base and queues base packages.
`create-hwe.py:281-283` says that Conflicts gets the package's base name, but line 247 adds only
`ubuntu-virt`; `RelationsFollow` says nothing of Conflicts. The usage of `check-upgrade.sh` (93-103) describes a five-step upgrade, but lines
367-421 are commented out: it updates the package lists, copies the `.deb` files of `hwe-11.2` to the
workspace, and fails only if the directories are missing, there are no such files, or one of these commands fails. `check.sh:310` calls
`log_installed_qemu_packages` under `--ext-deps`, a function of `check-upgrade.sh` that `check.sh` does not
have. In `test.sh`,
`check-default.sh` leaves `libvirt-daemon-driver-qemu` installed, so that the baseline of
`check-idempotence.sh` has a libvirt package for which the hook queues nothing, and the check fails on a host
without any fault. So does `check.sh` for `qemu-system-x86-hwe`, which needs `seabios`, a name of its list (115, 232-236).
That a check fails only for a reason is therefore not a property of this code, and none is stated. And
`intact = serial` in `SwitchSeen` and `ExclusiveSeen` is needed: a job of an earlier
command that gets the lock between two looks makes the check report what was undone.

## 4. Proofs

All theorems hold for every set of packages and every value of the bounds. They assume what the
modules assume of the constants: the kinds of packages are disjoint (`StemsAssumption`,
`NamesAssumption`), there is at least one package (pipeline, drivers, source tools) and one archive
directory (`DirsAssumption`), `ubuntu-virt` and the source stanza are not among the packages
(`StemsAssumption`, `SourceAssumption` of `SourceControl`), the fields of a stanza stand in some order
(`FieldsAssumption`), the bounds are natural numbers, dependencies
are lists of known packages (`RequiresAssumption`), the list of the checks names every package
(`ChecksAssumption`), needs are followed to the end, packages without variants need no others and the build of
`check-shdeps.sh` needs libvirt packages only (`NeedsAssumption`), and there are as many transactions as the
checks have `apt-get` commands
(`ProgramFits`). Two theorems, `NoRepeatsHolds` and `SwitchSeenHolds`, have a hypothesis of their own.

**Hook** (`AptHookProofs`). `Invariance: Spec => []IInv`. The properties are not inductive.
`FreshQueue` needs to know that a job exists only for a past request and that the array
of `post_mode` is used only between two adjacent steps (`Bookkeeping`), and that a request's
history is what the state was when it began (`Recorded`). `SwitchComplete` and
`FollowUpOnlyAdds` need that no two installed packages conflict and that dpkg is told to remove
whatever stands in the way (`Coherent`), and an account of where everything the request
asked for or owes is - installed, planned, queued, or with the job (`Track`).
`NothingLeftBehind` needs that the file is empty outside the hooks (`Drained`). From `IInv` follow
`TypeCorrect`, `QueueIsFresh`, `QueueIsDrained`, `QueueIsExact`, `FollowUpAdds` and
`SwitchIsComplete`.

**Refinement** (`AptHookRefinement`). `HookImplementsFollowUp: Spec => ImplementsFollowUp`.
The mapping reads a request's status off the phase, the queue and the job; each action is shown
to be one abstract step or a stutter, using `IInv`.

**Pipeline** (`DebPipelineProofs`). `PipelineInv` is `TypeOK`, `Ordered` (a command stays within
its stages, the last of which visits `-hwe` trees only: without it the version under which a file
is written need not exist), `PayloadKept` and `Gathered` (between `rm` and the end of `ar`, when the
only copy of a payload may be the temporary directory, that directory holds the payload of the
package in question). Results: `Invariance`, `TypeCorrect`, `PayloadIsKept`.
The other properties need more, which `WorkInv` has. `PhaseInv`: what the body of a loop is about is
still to be visited, and the temporary directory holds the tree that is being packed.
`NamesInv`: without kills a libvirt tree declares its own name, except between the copy of a tree and its
renaming. `SourcesInv`: a package that had a whole source has one all along, if the members in the
temporary directory stand for the file that was removed; where `ar` fails or a kill strikes, these are lost, and
the packages whose source is gone are those of the one stem that was being packed. `PrepareInv`: what `prepare_debs.sh` has done by
each stage, for the packages its loop has passed - top-level files packed, trees of `hwe-11.2` removed, copied
and given the new version, older files gone, files packed from them. Results: `WorkInvariance`,
`LibvirtNamesHold`, `SourcesSurviveHolds`, `Fresh112Holds`, `PrepareCompleteHolds`.

**Editors** (`ControlTreesProofs`). `ControlsInv` says of every file what its fields may name,
and what they must name given the scripts that have visited it (`Conforms`). Results:
`TypeCorrect`; `ExclusionHolds`, because what one variant conflicts with is what the other
provides; `SameVariantInstallable` (a conflict names the other variant, and a package provides such a
name only if it is its own counterpart, or is `virt-hwe` and `Marked`) and
`RewrittenDependenciesFit`, for any packages, `virt` among them. The run `controls_virt` shows that the
exception is real. `ExactInv` makes it an equality: a field is what was unpacked, unless a kill emptied the file,
and what the scripts that came by add, each once, and Depends is the unpacked list rewritten at most once.
This is `Exactness`, and gives `FieldsExactHolds`; `NoRepeatsHolds` has the hypothesis that no package comes
with a dependency listed twice, since the scripts do not tidy what they find.

**Source tools** (`SourceControlProofs`). `SourceInv` has four parts besides the types. The properties of
the control files hold of the text that a tool has computed and not yet written, and of each part of it
that a killed write may leave, a part that ends inside a word included, with the stanza it ends on set
aside (`TextsInv`, with who wrote the file, which `OneSided` needs). Names that come
from one control file have one suffix, so that replacing them once leaves none (`Coherent`), and the trees
`debian/hwe-gencontrol.py` has passed have none of the old ones (`TreesInv`). A file that is still to be renamed is
in the loop of the running tool (`MaintInv`), and `LoopInv` types the loops. Results: `Invariance`, `TypeCorrect`,
`SuffixOnceHolds`, `RenamedTogetherHolds`, `RelationsFollowHolds`, `OneSidedHolds`, `RewriteCompleteHolds`,
`NothingLostHolds`, `FilesFollowHolds`.

**Drivers** (`DriversProofs`). `KeptInv`: without kills and edits there is only one content to write, so that no
two writers clash, and a missing base file is in the hands of a driver that writes it; this is
`SourcesKeptHolds`, for any number of drivers. `AloneInv`: a driver that met no other has done every stage
behind it (`Phase`), or there is a file that nothing will ever mend (`Broken`: torn, or a base file that is
missing, and nobody about to write it). The alternative is needed because a driver passes over a
package without a usable source; it is stable, which makes the invariant inductive, and excluded by
the hypothesis of `AloneStages`. Results: `TypeCorrect`, `SourcesKeptHolds`, `AloneStagesHolds`.

**Local archive** (`LocalPpaProofs`). `PpaInv`: outside an unfinished script the two index files of a directory
agree with its files, or there are none (`Finished`); how much of it holds at each step of a running
script (`Progress`); what the last script published is what apt and the directory hold (`Latest`); and an
unfinished directory is one that changed since apt read it (`Marked`). None of it depends on whether
`dpkg-scanpackages` lists an incomplete file or stops at it. That the index of a set of files lists
files of that set needs the newest version to exist, by well-foundedness of the natural numbers
(`NewestExists`). Results: `Invariance`, `TypeCorrect`, `PublishedHolds`, `OfferedHolds`.

**Checks** (`ChecksProofs`). The line of commands is put together with `FlattenSeq`, package by
package. The lemma `ProgramShape` says what it looks like for any list: packages are installed one by
one, only base packages are depended on, every start is in it; so that what an `apt-get` brings, needs included, is of one
variant (`WantsFit`). This is an induction over
the number of pieces, done with the least counterexample (`Upwards`, from the library's `WFMin`), first that
the recursive function exists (`JoinExists`), then that what it joins has the shape (`JoinClosed`). `Counted`
says that the transactions so far are at most the `apt-get` commands so far, so that an `apt-get` of
the checks always has one left. Results: `ChecksInvariance`, `ChecksTypeCorrect`, and
`ChecksUseTheHook: ChecksSpec => Spec`, by which every theorem about the hook, its refinement of `FollowUp` included,
holds while the checks run.

Two properties of the checks themselves are proved, and depend on what comes before what in that line.
The lemma `LineFacts` says it for any list: where the scripts begin and end, which `apt-get` commands are in
each, that there is a look at every package between `begin` and `judge`, and that an `install` of
`check.sh` comes right after the removal of all packages. It is proved by the same inductions, over the
loops that put the line together. `Host` gathers what
the checks may use of the hook: `IInv`, the types, `Counted`, and that the host does not crash.
- `QuietInv` says, by region of the line, what is on the host. Outside `check-idempotence.sh` no follow-up
  is under way and none is owed (`Calm`): for that one must know that the host is empty right after
  `remove_all_test_packages` (`Emptied`) and has base packages only while `check-default.sh` runs
  (`BaseOnly`), so that `target_variant` never differs from what is installed; and that what `check-shdeps.sh`
  brings are libvirt packages, for which the hook queues nothing. Results: `QuietInvariance`,
  `PairsAreNoSwitchHolds`.
- `Seen` is the account of a judgement that is not finished: while `had_error` is not set, and no job of an
  earlier command came between, every package looked at so far is still what the check found it to be. Result: `SwitchSeenHolds`.
`SwitchSeenHolds` has the hypothesis that every package has both variants (`Lone = {}`), and
`PairsAreNoSwitchHolds` says something for such lists only: with others `apt-get` refuses the removal. `check.sh` takes
it for granted, since it installs both for each name of its list, but `seabios` and `qemu-efi-aarch64` are names of
that list. The proof of `SwitchSeenHolds` needs it because it goes through the hook's account `Track`; the run
`checks_host` has a package without variants, and shows the property there.

`PairsAreNoSwitch` is in no run, as on the instance of `checks_host` its hypothesis is never met. Only
model-checked: liveness under fairness (`JobsFinish`, `QuietJobSucceeds`), which is
out of this prover's reach, and `ExclusiveSeen`, which matters where the removals of `check.sh` fail, and
needs an account of follow-ups under way in its part of the line that `Track` does not give for a host with `Lone`
packages. Every other invariant of a passing run is the subject of a theorem.

## 5. Plan

Done: the hook with its refinement, the pipeline, the editors, the source package tools, the container
drivers, the local archive, and the checks composed with the hook; theorems about all of them. Next, in
this order:

1. `Trees`: a composition of `ControlTrees` and `DebPipeline`, so that a packed file carries the
   fields the editors wrote.
2. `SwitchSeenHolds` without `Lone = {}`, and `ExclusiveSeen`, with an account of a switch in which the
   packages without variants stay where they are.
3. `--ext-deps` of `check.sh`, once line 310 names a function that exists.

## 6. Not modelled

The release-upgrade demonstration and `setup-ppa.sh` are straight lines of external commands.
`hwe-grep-base-packages.py`, `check-virt-provider.sh` and what `check-deps.sh` and `check-diff.sh` compare only
report; in `Checks` the latter two are commands that may fail. The data directories are inputs and outputs. The QEMU source under
`gencontrol/qemu`, some six million lines and by far the largest part of the tree, is third-party and
neither built nor called by the scripts of this repository: it is the input on which the source
package tools are tried out, and its one own file, `debian/hwe-gencontrol.py`, is in `SourceControl`.
Drivers that are given one staging directory for both (`STAGING_DIR`) are left out. docker,
apt, dpkg, Launchpad and the kernel are external and appear only as the scripts meet them.
