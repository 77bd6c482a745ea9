----------------------------- MODULE AptHookInv -----------------------------
(***************************************************************************)
(* The inductive invariant behind the safety properties of AptHook.        *)
(***************************************************************************)
EXTENDS AptHook

\* How the transaction, the jobs and the counters hang together.
Bookkeeping ==
    /\ phase # "idle" => serial > 0
    /\ phase = "idle" => owner = User /\ plan = {} /\ remove = {}
    /\ phase # "spawn" => missing = {}
    /\ phase = "spawn" => owner = User /\ pending = {} /\ missing # {}
    /\ \A j \in Jobs : jobState[j] = "running" <=> owner = j
    /\ \A j \in Jobs : j > serial => jobState[j] = "none"
    /\ owner = User /\ phase \in {"pre", "dpkg", "post", "spawn"}
          => jobState[serial] = "none"

\* What the history variables record.
Recorded ==
    /\ owner = User /\ phase = "pre" => installed = before /\ plan = asked
    /\ owner = User /\ phase \in {"pre", "dpkg"} => intact = serial
    /\ owner # User /\ intact # 0 => owner = intact
    /\ intact # 0 => ok
    /\ ok /\ phase \in {"post", "spawn", "exit"} => plan = {} /\ remove = {}

\* No two conflicting packages, and dpkg is told to remove what stands in the
\* way of what it installs.
Coherent ==
    /\ ConflictFree(installed) /\ ConflictFree(before) /\ ConflictFree(asked)
    /\ phase \in {"pre", "dpkg"} =>
          /\ ConflictFree(plan)
          /\ \A p \in plan, q \in installed : Conflict(p, q) => q \in remove

\* The queue file is empty outside the hooks of a transaction, before any crash.
Drained == crashes = 0 /\ phase \in {"idle", "spawn", "exit"} => pending = {}

\* What the last request asked for and what it owes are installed, planned,
\* queued or with its job ...
Tracked ==
    /\ owner = User => plan \subseteq asked /\ asked \subseteq installed \cup plan
    /\ owner # User => /\ asked \subseteq installed
                       /\ remove = {} /\ plan \subseteq Owed
                       /\ Owed \subseteq installed \cup plan
    /\ \A p \in asked, q \in installed : Conflict(p, q) => q \in remove
    /\ asked # {} => \A q \in remove : \E p \in asked : Conflict(p, q)
    /\ asked # {} => \A q \in before :
          q \in installed \/ \E p \in asked : Conflict(p, q)
    /\ owner = User /\ phase \in {"dpkg", "post"} => pending = Owed
    /\ phase = "spawn" => missing = Owed
    /\ owner # User \/ phase \in {"idle", "exit"} =>
          IF jobState[intact] = "none" THEN Owed = {} ELSE jobWant[intact] = Owed
    /\ jobState[intact] = "done" => Owed \subseteq installed

\* ... while nothing came between the request and its job.
Track == intact # 0 /\ NoLone => Tracked

IInv == /\ TypeOK /\ Bookkeeping /\ Recorded /\ Coherent
        /\ FreshQueue /\ Drained /\ Track
=============================================================================
