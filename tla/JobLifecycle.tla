---------------------------- MODULE JobLifecycle ----------------------------
(***************************************************************************)
(* What the job queue promises of every job, whoever runs it: the states a *)
(* job may go through, and how often it may be attempted.  RF-020 of the   *)
(* master specification and DEC-068 put it in words: a temporary error     *)
(* uses up the attempts before the job is failed, a job that ended is only *)
(* run again when an administrator asks, and then with a fresh set of      *)
(* attempts.                                                               *)
(*                                                                         *)
(* One step may move several jobs, because one transaction of the queue    *)
(* does: a claim sweeps the abandoned jobs and starts another, and the     *)
(* success of an ingestion creates its follow-up jobs.                     *)
(***************************************************************************)
EXTENDS Naturals

CONSTANTS
    JobIds,         \* every job that may ever exist
    MaxAttempts     \* how many times a job may be started before it is failed

VARIABLE
    life            \* the state of each job and the attempts it has used

Absent == [state |-> "absent", attempts |-> 0]
Fresh == [state |-> "pending", attempts |-> 0]

Init == life = [id \in JobIds |-> Absent]

-----------------------------------------------------------------------------

Create(old, new) == old = Absent /\ new = Fresh

\* A start uses an attempt; the job of a worker that vanished is started over.
Start(id, old, new) ==
    /\ old.state \in {"pending", "running"}
    /\ old.attempts < MaxAttempts[id]
    /\ new = [state |-> "running", attempts |-> old.attempts + 1]

\* A retry waits for another start, so there must be an attempt left.
Retry(id, old, new) ==
    /\ old.state = "running"
    /\ old.attempts < MaxAttempts[id]
    /\ new = [old EXCEPT !.state = "pending"]

Finish(old, new) ==
    /\ old.state = "running"
    /\ new \in {[old EXCEPT !.state = s] : s \in {"succeeded", "failed", "cancelled"}}

Withdraw(old, new) ==
    /\ old.state = "pending"
    /\ new = [old EXCEPT !.state = "cancelled"]

Requeue(old, new) ==
    /\ old.state \in {"failed", "cancelled"}
    /\ new = Fresh

Move(id, old, new) ==
    \/ Create(old, new)
    \/ Start(id, old, new)
    \/ Retry(id, old, new)
    \/ Finish(old, new)
    \/ Withdraw(old, new)
    \/ Requeue(old, new)

Next ==
    /\ life' = [id \in JobIds |-> life'[id]]
    /\ \A id \in JobIds : life'[id] = life[id] \/ Move(id, life[id], life'[id])

Spec == Init /\ [][Next]_life
=============================================================================
