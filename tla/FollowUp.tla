------------------------------ MODULE FollowUp ------------------------------
(***************************************************************************)
(* What the APT hook promises about follow-up installs, whatever           *)
(* interleaving, failure or crash happens: each request has at most one    *)
(* follow-up; it installs exactly what was queued for that request; the    *)
(* queue belongs to one request at a time, follow-ups run one at a time,   *)
(* and one that is closed (completed, failed, given up or lost in a crash) *)
(* is never revived.                                                       *)
(***************************************************************************)
CONSTANTS Requests,   \* the administrator's requests
          Items       \* what a follow-up may install

VARIABLES status,     \* the progress of each request's follow-up
          debt        \* what is still owed to each request

Open == {"none", "queued", "scheduled", "running"}

Init == /\ status = [n \in Requests |-> "none"]
        /\ debt = [n \in Requests |-> {}]

\* n moves from one status to the next and its debt stays.
Advance(n, from, to) ==
    /\ status[n] = from
    /\ status' = [status EXCEPT ![n] = to]
    /\ UNCHANGED debt

Enqueue(n, S) ==
    /\ status[n] = "none" /\ S # {}
    /\ \A m \in Requests : status[m] # "queued"
    /\ status' = [status EXCEPT ![n] = "queued"]
    /\ debt' = [debt EXCEPT ![n] = S]

Schedule(n) == Advance(n, "queued", "scheduled")

Run(n) == /\ \A m \in Requests : status[m] # "running"
          /\ Advance(n, "scheduled", "running")

\* A crash may close several at once.
Close(N) ==
    /\ \A n \in N : status[n] \in Open
    /\ status' = [n \in Requests |-> IF n \in N THEN "closed" ELSE status[n]]
    /\ debt' = [n \in Requests |-> IF n \in N THEN {} ELSE debt[n]]

Next == \/ \E n \in Requests : \/ \E S \in SUBSET Items : Enqueue(n, S)
                               \/ Schedule(n)
                               \/ Run(n)
        \/ \E N \in SUBSET Requests : Close(N)

Spec == Init /\ [][Next]_<<status, debt>>
=============================================================================
