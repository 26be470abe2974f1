------------------------------ MODULE JobQueue ------------------------------
(***************************************************************************)
(* The job queue of Codice: a table in PostgreSQL whose state machine is a *)
(* set of SQL functions (migrations 00005, 00006 and 00019), the loops     *)
(* that take jobs from it (worker/runner.py in Python, internal/jobs in    *)
(* Go), the administration that enqueues, cancels and reruns, and the      *)
(* media status of a work, which the Python worker writes in transactions  *)
(* of its own around an ingestion.                                         *)
(*                                                                         *)
(* Each SQL function is one transaction, so one step.  Between two calls   *)
(* of a worker anything may happen: the clock runs past a lease, another   *)
(* worker takes the job over, an administrator cancels it, the process     *)
(* dies, the database does not answer.                                     *)
(*                                                                         *)
(* Time is abstracted to what the functions compare with now(): a lease    *)
(* has expired or not, a waiting time has elapsed or not.                  *)
(***************************************************************************)
EXTENDS Naturals, FiniteSets

CONSTANTS
    Types,          \* the kinds of job
    Ingest,         \* the kind that analyses a file and writes the media status
    FollowUps,      \* the kinds the success of an ingestion enqueues
    Priority,       \* [Types -> Nat], the priority the kind is enqueued with
    MaxAttempts,    \* [Types -> Nat], the column max_attempts
    Works,
    NoWork,         \* the work_id of a job about no work in particular
    Serials,        \* bound: the jobs of one kind that one work may ever have
    Requests,       \* the <<kind, work>> pairs that people and scans enqueue
    Workers,        \* the loops that run one job at a time
    Process,        \* [Workers -> process], the process a loop belongs to
    Python,         \* the loops that are the JobRunner of worker/runner.py
    Handles,        \* [Workers -> SUBSET Types], the kinds a loop asks for
    MaxRunning,     \* [Workers -> Nat], the limit a loop claims with
    MaxCrashes,     \* bound: how many times each process dies
    MaxReruns,      \* bound: how many times an administrator reruns
    NoOwner, NoJob, Nobody, None

Processes == {Process[w] : w \in Workers}
JobIds == [type : Types, work : Works \cup {NoWork}, nth : Serials]
ErrorKinds == {"temporary", "permanent"}
Statuses == {"UNKNOWN", "QUEUED", "ANALYZING", "READY", "ERROR"}

ASSUME KindsAssumption ==
    /\ Ingest \in Types
    /\ FollowUps \subseteq Types \ {Ingest}
    /\ Priority \in [Types -> Nat]
    /\ MaxAttempts \in [Types -> Nat \ {0}]
    /\ Serials \subseteq Nat
    /\ NoWork \notin Works
    /\ Requests \subseteq Types \X (Works \cup {NoWork})
    /\ <<Ingest, NoWork>> \notin Requests

ASSUME WorkersAssumption ==
    /\ Python \subseteq Workers
    /\ Handles \in [Workers -> SUBSET Types]
    /\ MaxRunning \in [Workers -> Nat]
    /\ NoOwner \notin Processes \X Nat
    /\ NoJob \notin JobIds
    /\ Nobody \notin Workers
    /\ None \notin ErrorKinds \cup Statuses

VARIABLES
    jobs,           \* the table
    media,          \* works.media_status
    run,            \* what each loop is doing: its local variables
    incarnation,    \* how many times each process was restarted
    holder,         \* history: the loop that claimed each job last
    reruns          \* bound: how many times an administrator reran

vars == <<jobs, media, run, incarnation, holder, reruns>>

-----------------------------------------------------------------------------
(* The table. *)

States == {"absent", "pending", "running", "succeeded", "failed", "cancelled"}

Owners == Processes \X Nat

Job == [state : States, attempts : Nat, due : BOOLEAN, owner : Owners \cup {NoOwner},
        expired : BOOLEAN, cancel : BOOLEAN, kind : ErrorKinds \cup {None}]

NewJob == [state |-> "pending", attempts |-> 0, due |-> TRUE, owner |-> NoOwner,
           expired |-> FALSE, cancel |-> FALSE, kind |-> None]

\* The owner name is unique per process: a restarted one has another.
Owner(w) == <<Process[w], incarnation[Process[w]]>>

Live(table, type, work) ==
    \E n \in Serials :
        table[[type |-> type, work |-> work, nth |-> n]].state \in {"pending", "running"}

\* The unique index jobs_one_active_per_work; NULLs are all different.
Taken(table, type, work) == work # NoWork /\ Live(table, type, work)

Abandoned(job) == job.state = "running" /\ job.expired

\* The id a new job of a kind gets: ids only grow.
IsNextId(table, id) ==
    /\ table[id].state = "absent"
    /\ \A n \in Serials : n < id.nth => table[[id EXCEPT !.nth = n]].state # "absent"

\* INSERT ... ON CONFLICT (type, work_id) DO NOTHING, for each of the types.
Inserted(table, types, work) ==
    [id \in JobIds |->
        IF id.type \in types /\ id.work = work /\ ~Taken(table, id.type, work) /\ IsNextId(table, id)
        THEN NewJob
        ELSE table[id]]

\* Bound: there is a serial left for every job that would be inserted.
HasRoom(table, types, work) ==
    \A t \in types :
        \/ Taken(table, t, work)
        \/ \E n \in Serials : table[[type |-> t, work |-> work, nth |-> n]].state = "absent"

Closed(job, state, kind) ==
    [job EXCEPT !.state = state, !.kind = kind, !.owner = NoOwner, !.expired = FALSE]

\* The trigger jobs_organize_after_ingest runs in the transaction that completes.
Completed(id) ==
    LET done == [jobs EXCEPT ![id] = Closed(@, "succeeded", None)]
    IN  IF id.type = Ingest THEN Inserted(done, FollowUps, id.work) ELSE done

-----------------------------------------------------------------------------
(* The loops.  One run of a job goes from the claim to "idle" again. *)

Idle == [pc |-> "idle", job |-> NoJob, flag |-> "ok", arg |-> None]

Runs == [pc : {"idle", "starting", "working", "completing", "failing", "acking", "reporting"},
         job : JobIds \cup {NoJob},
         flag : {"ok", "cancel", "lost"},      \* what the heartbeat thread learned
         arg : ErrorKinds \cup Statuses \cup {None}]    \* what the next call carries

Busy(w) == run[w].pc # "idle"

\* Mutants: the owner is not compared; an expired lease counts as lost.
OwnsAnyRunning(w) == Busy(w) /\ jobs[run[w].job].state = "running"
OwnsUnexpired(w) ==
    /\ OwnsAnyRunning(w)
    /\ jobs[run[w].job].owner = Owner(w)
    /\ ~jobs[run[w].job].expired

\* WHERE id = p_id AND lease_owner = p_owner AND state = 'running'
Owns(w) ==
    /\ Busy(w)
    /\ jobs[run[w].job].state = "running"
    /\ jobs[run[w].job].owner = Owner(w)

\* Only a Python loop reports the outcome of an ingestion as a media status.
Reports(w) == w \in Python /\ run[w].job.type = Ingest

At(w, pc) == run[w].pc = pc

Goto(w, pc, arg) == run' = [run EXCEPT ![w].pc = pc, ![w].arg = arg]
Return(w) == run' = [run EXCEPT ![w] = Idle]

ReportOrReturn(w, status) == IF Reports(w) THEN Goto(w, "reporting", status) ELSE Return(w)

-----------------------------------------------------------------------------
(* jobs_claim: the sweeps, the limit, the choice and the start, in one     *)
(* transaction under an advisory lock.                                     *)

\* Mutant: the sweep of the jobs without attempts left is missing.
SweptCancelledOnly ==
    [id \in JobIds |->
        IF Abandoned(jobs[id]) /\ jobs[id].cancel
        THEN Closed(jobs[id], "cancelled", jobs[id].kind)
        ELSE jobs[id]]

Swept ==
    [id \in JobIds |->
        IF Abandoned(jobs[id]) /\ jobs[id].cancel
        THEN Closed(jobs[id], "cancelled", jobs[id].kind)
        ELSE IF Abandoned(jobs[id]) /\ jobs[id].attempts >= MaxAttempts[id.type]
        THEN Closed(jobs[id], "failed", "temporary")
        ELSE jobs[id]]

LeasedOf(table, types) ==
    {id \in JobIds : id.type \in types /\ table[id].state = "running" /\ ~table[id].expired}

LimitReached(w) == Cardinality(LeasedOf(Swept, Handles[w])) >= MaxRunning[w]

\* Mutant: an abandoned job is not taken over.
ClaimablePending(w) ==
    {id \in JobIds : id.type \in Handles[w] /\ Swept[id].state = "pending" /\ Swept[id].due}

Claimable(w) ==
    {id \in JobIds :
        /\ id.type \in Handles[w]
        /\ (Swept[id].state = "pending" /\ Swept[id].due) \/ Abandoned(Swept[id])}

\* ORDER BY priority DESC; the order within a priority is left open.
First(ids) == {id \in ids : \A other \in ids : Priority[other.type] <= Priority[id.type]}

Started(job, w) ==
    [job EXCEPT !.state = "running", !.attempts = @ + 1, !.owner = Owner(w),
                !.expired = FALSE, !.due = TRUE]

\* Python begins with on_start, which writes a status; Go with the handler.
BeginRun(w, id) ==
    [Idle EXCEPT !.job = id,
                 !.pc = IF w \in Python THEN "starting" ELSE "working"]

\* The claim commits; its answer reaches the loop, or is lost on the way.
Claim(w) ==
    /\ ~Busy(w)
    /\ ~LimitReached(w)
    /\ \E id \in First(Claimable(w)) :
        /\ jobs' = [Swept EXCEPT ![id] = Started(@, w)]
        /\ run' \in {[run EXCEPT ![w] = BeginRun(w, id)], run}
        /\ holder' = [holder EXCEPT ![id] = w]
    /\ UNCHANGED <<media, incarnation, reruns>>

\* Nothing to take: the sweeps stay.
ClaimNothing(w) ==
    /\ ~Busy(w)
    /\ LimitReached(w) \/ Claimable(w) = {}
    /\ jobs' = Swept
    /\ UNCHANGED <<media, run, incarnation, holder, reruns>>

-----------------------------------------------------------------------------
(* The heartbeat, on a thread of its own while the run lasts.  It renews a *)
(* lease that has expired too, as long as nobody took the job over.        *)

Heartbeat(w) ==
    /\ Busy(w)
    /\ run[w].flag = "ok" \/ (run[w].flag = "cancel" /\ w \in Python)
    /\ IF Owns(w)
       THEN /\ jobs' = [jobs EXCEPT ![run[w].job].expired = FALSE]
            /\ run' = IF jobs[run[w].job].cancel
                      THEN [run EXCEPT ![w].flag = "cancel"]
                      ELSE run
       ELSE /\ run' = [run EXCEPT ![w].flag = "lost"]
            /\ UNCHANGED jobs
    /\ UNCHANGED <<media, incarnation, holder, reruns>>

-----------------------------------------------------------------------------
(* The run of a job. *)

\* on_start: an ingestion says that its work is being analysed.
OnStart(w) ==
    /\ At(w, "starting")
    /\ media' = IF Reports(w) THEN [media EXCEPT ![run[w].job.work] = "ANALYZING"] ELSE media
    /\ Goto(w, "working", None)
    /\ UNCHANGED <<jobs, incarnation, holder, reruns>>

\* A checkpoint (Python) or the end of the handler (Go) sees what the heartbeat
\* learned: a lost lease ends the run, a cancel request is acknowledged.
Stop(w) ==
    /\ At(w, "working")
    /\ \/ run[w].flag = "lost" /\ Return(w)
       \/ run[w].flag = "cancel" /\ Goto(w, "acking", None)
    /\ UNCHANGED <<jobs, media, incarnation, holder, reruns>>

\* Mutant: on_success runs before jobs_complete has answered.
WorkEndsWithSuccess(w) ==
    /\ At(w, "working")
    /\ run[w].flag = "ok"
    /\ ReportOrReturn(w, "READY")
    /\ UNCHANGED <<jobs, media, incarnation, holder, reruns>>

\* The work is done and the last look at the flags found nothing.
WorkEnds(w) ==
    /\ At(w, "working")
    /\ run[w].flag = "ok"
    /\ Goto(w, "completing", None)
    /\ UNCHANGED <<jobs, media, incarnation, holder, reruns>>

\* The work raises.  Python reports the error whatever the flags say; Go looks
\* at them first.
WorkFails(w, kind) ==
    /\ At(w, "working")
    /\ w \in Python \/ run[w].flag = "ok"
    /\ Goto(w, "failing", kind)
    /\ UNCHANGED <<jobs, media, incarnation, holder, reruns>>

-----------------------------------------------------------------------------
(* The calls that end a run. *)

\* jobs_complete, with the trigger on the success of an ingestion.
Complete(w) ==
    /\ At(w, "completing")
    /\ IF Owns(w)
       THEN /\ run[w].job.type = Ingest => HasRoom(jobs, FollowUps, run[w].job.work)
            /\ jobs' = Completed(run[w].job)
            /\ ReportOrReturn(w, "READY")
       ELSE Return(w) /\ UNCHANGED jobs
    /\ UNCHANGED <<media, incarnation, holder, reruns>>

IsFinal(w) ==
    \/ run[w].arg = "permanent"
    \/ jobs[run[w].job].attempts >= MaxAttempts[run[w].job.type]

\* jobs_fail: a permanent error, or no attempts left, ends the job; a temporary
\* one sends it back to wait.
Fail(w) ==
    /\ At(w, "failing")
    /\ IF ~Owns(w)
       THEN Return(w) /\ UNCHANGED jobs
       ELSE \/ /\ IsFinal(w)
               /\ jobs' = [jobs EXCEPT ![run[w].job] = Closed(@, "failed", run[w].arg)]
               /\ ReportOrReturn(w, "ERROR")
            \/ /\ ~IsFinal(w)
               /\ jobs' = [jobs EXCEPT ![run[w].job] =
                              [Closed(@, "pending", "temporary") EXCEPT !.due = FALSE]]
               /\ ReportOrReturn(w, "QUEUED")
    /\ UNCHANGED <<media, incarnation, holder, reruns>>

\* jobs_cancel_ack; the status of the work is left as it is.
CancelAck(w) ==
    /\ At(w, "acking")
    /\ jobs' = IF Owns(w)
               THEN [jobs EXCEPT ![run[w].job] = Closed(@, "cancelled", @.kind)]
               ELSE jobs
    /\ Return(w)
    /\ UNCHANGED <<media, incarnation, holder, reruns>>

\* on_success, on_failure and on_retry: a transaction of their own.
Report(w) ==
    /\ At(w, "reporting")
    /\ media' = [media EXCEPT ![run[w].job.work] = run[w].arg]
    /\ Return(w)
    /\ UNCHANGED <<jobs, incarnation, holder, reruns>>

\* The database does not answer.  An error in on_start or in jobs_complete is an
\* error of the work to run_one; every other call is given up.
Unreachable(w) ==
    /\ run[w].pc \in {"starting", "completing", "failing", "acking", "reporting"}
    /\ IF w \in Python /\ run[w].pc \in {"starting", "completing"}
       THEN Goto(w, "failing", "temporary")
       ELSE Return(w)
    /\ UNCHANGED <<jobs, media, incarnation, holder, reruns>>

-----------------------------------------------------------------------------
(* The clock and the processes. *)

LeaseExpires(id) ==
    /\ jobs[id].state = "running"
    /\ ~jobs[id].expired
    /\ jobs' = [jobs EXCEPT ![id].expired = TRUE]
    /\ UNCHANGED <<media, run, incarnation, holder, reruns>>

BackoffElapses(id) ==
    /\ jobs[id].state = "pending"
    /\ ~jobs[id].due
    /\ jobs' = [jobs EXCEPT ![id].due = TRUE]
    /\ UNCHANGED <<media, run, incarnation, holder, reruns>>

\* The process dies with every loop in it, and starts again under a new name.
Crash(p) ==
    /\ incarnation[p] < MaxCrashes
    /\ incarnation' = [incarnation EXCEPT ![p] = @ + 1]
    /\ run' = [w \in Workers |-> IF Process[w] = p THEN Idle ELSE run[w]]
    /\ UNCHANGED <<jobs, media, holder, reruns>>

-----------------------------------------------------------------------------
(* The administration. *)

\* jobs.Enqueue: a second request while one is live is the same request.
Enqueue(type, work) ==
    /\ HasRoom(jobs, {type}, work)
    /\ jobs' = Inserted(jobs, {type}, work)
    /\ media' = IF type = Ingest /\ media[work] \in {"UNKNOWN", "ERROR"}
                THEN [media EXCEPT ![work] = "QUEUED"]
                ELSE media
    /\ UNCHANGED <<run, incarnation, holder, reruns>>

Cancel(id) ==
    /\ \/ /\ jobs[id].state = "pending"
          /\ jobs' = [jobs EXCEPT ![id].state = "cancelled", ![id].cancel = TRUE]
       \/ /\ jobs[id].state = "running"
          /\ jobs' = [jobs EXCEPT ![id].cancel = TRUE]
    /\ UNCHANGED <<media, run, incarnation, holder, reruns>>

\* A job whose work has another live one of its kind breaks the unique index:
\* the statement fails and nothing changes.
Rerun(id) ==
    /\ reruns < MaxReruns
    /\ jobs[id].state \in {"failed", "cancelled"}
    /\ ~Taken(jobs, id.type, id.work)
    /\ jobs' = [jobs EXCEPT ![id] = NewJob]
    /\ reruns' = reruns + 1
    /\ UNCHANGED <<media, run, incarnation, holder>>

\* Mutant: DISTINCT ON is dropped, every failed job comes back.
RerunEveryFailed ==
    {id \in JobIds :
        jobs[id].state = "failed" /\ id.work # NoWork /\ ~Live(jobs, id.type, id.work)}

\* Of the failed jobs of a work and a kind, the newest, unless one is live.
RerunCandidates ==
    {id \in JobIds :
        /\ jobs[id].state = "failed"
        /\ id.work # NoWork
        /\ ~Live(jobs, id.type, id.work)
        /\ \A n \in Serials : n > id.nth => jobs[[id EXCEPT !.nth = n]].state # "failed"}

RerunFailed ==
    /\ reruns < MaxReruns
    /\ RerunCandidates # {}
    /\ jobs' = [id \in JobIds |-> IF id \in RerunCandidates THEN NewJob ELSE jobs[id]]
    /\ reruns' = reruns + 1
    /\ UNCHANGED <<media, run, incarnation, holder>>

-----------------------------------------------------------------------------

Init ==
    /\ jobs = [id \in JobIds |-> [NewJob EXCEPT !.state = "absent"]]
    /\ media = [work \in Works |-> "UNKNOWN"]
    /\ run = [w \in Workers |-> Idle]
    /\ incarnation = [p \in Processes |-> 0]
    /\ holder = [id \in JobIds |-> Nobody]
    /\ reruns = 0

Poll(w) == Claim(w) \/ ClaimNothing(w)

\* A run goes on to its next call, or gives it up.
Advance(w) ==
    \/ OnStart(w)
    \/ Stop(w)
    \/ WorkEnds(w)
    \/ \E kind \in ErrorKinds : WorkFails(w, kind)
    \/ Complete(w)
    \/ Fail(w)
    \/ CancelAck(w)
    \/ Report(w)
    \/ Unreachable(w)

Administration ==
    \/ \E request \in Requests : Enqueue(request[1], request[2])
    \/ \E id \in JobIds : Cancel(id) \/ Rerun(id)
    \/ RerunFailed

Clock == \E id \in JobIds : LeaseExpires(id) \/ BackoffElapses(id)

Next ==
    \/ \E w \in Workers : Poll(w) \/ Heartbeat(w) \/ Advance(w)
    \/ Clock
    \/ \E p \in Processes : Crash(p)
    \/ Administration

Spec == Init /\ [][Next]_vars

\* A lease that nobody renews any more runs out.
Unattended(id) == \A w \in Workers : ~(Owns(w) /\ run[w].job = id)

\* A loop that is not dead keeps polling and its runs end; time passes.  Nothing
\* is assumed of heartbeats, of the administration or of crashes.
Fairness ==
    /\ \A w \in Workers : WF_vars(Poll(w)) /\ WF_vars(Advance(w))
    /\ \A id \in JobIds :
        /\ WF_vars(BackoffElapses(id))
        /\ WF_vars(Unattended(id) /\ LeaseExpires(id))

FairSpec == Spec /\ Fairness

-----------------------------------------------------------------------------
(* Properties. *)

TypeOK ==
    /\ jobs \in [JobIds -> Job]
    /\ media \in [Works -> Statuses]
    /\ run \in [Workers -> Runs]
    /\ incarnation \in [Processes -> Nat]
    /\ holder \in [JobIds -> Workers \cup {Nobody}]
    /\ reruns \in Nat
    /\ \A w \in Workers : Busy(w) => run[w].job \in JobIds

\* "At most one live job of a kind per work" (00005): requests are held to it by
\* the unique index; "try them all again" chooses its jobs by a query of its own,
\* which must never ask for two of a kind at once.
OneLivePerKind ==
    \A type \in Types, work \in Works :
        \A m, n \in Serials :
            /\ jobs[[type |-> type, work |-> work, nth |-> m]].state \in {"pending", "running"}
            /\ jobs[[type |-> type, work |-> work, nth |-> n]].state \in {"pending", "running"}
            => m = n

\* RF-020: a temporary error uses up the attempts before a job is failed, whether
\* the worker reported it or stopped answering.
TemporaryUsesAllAttempts ==
    \A id \in JobIds :
        jobs[id].state = "failed" /\ jobs[id].kind = "temporary"
            => jobs[id].attempts = MaxAttempts[id.type]

\* A worker that is told its lease is lost really lost it: the job is over, waits
\* again, or was claimed by another.  It stops and writes nothing on that word.
LostMeansLost ==
    \A w \in Workers :
        Busy(w) /\ run[w].flag = "lost"
            => \/ jobs[run[w].job].state # "running"
               \/ holder[run[w].job] # w

\* A work is only said to be READY when an ingestion of it succeeded, although
\* the status is written in a transaction of its own, by a worker that may have
\* lost the job in between.
ReadyMeansIngested ==
    \A work \in Works :
        media[work] = "READY"
            => \E n \in Serials :
                   jobs[[type |-> Ingest, work |-> work, nth |-> n]].state = "succeeded"

Stale(w) == Busy(w) /\ holder[run[w].job] # w

\* "A worker that lost its lease cannot overwrite the result of whoever took
\* over" (00005): no step of a worker touches the job another has claimed since.
StaleWorkerIsFenced ==
    [][\A w \in Workers :
        Stale(w) /\ run'[w] # run[w] => jobs'[run[w].job] = jobs[run[w].job]]_vars

\* When an ingestion succeeds every follow-up kind has a live job for the work, in
\* the same transaction: a crash cannot lose them.
IngestFeedsPipeline ==
    [][\A id \in JobIds :
        /\ id.type = Ingest
        /\ jobs[id].state # "succeeded"
        /\ jobs'[id].state = "succeeded"
        => \A type \in FollowUps : Live(jobs', type, id.work)]_vars

\* Every job goes through the life JobLifecycle describes.
Lifecycle == INSTANCE JobLifecycle WITH
    MaxAttempts <- [id \in JobIds |-> MaxAttempts[id.type]],
    life <- [id \in JobIds |-> [state |-> jobs[id].state, attempts |-> jobs[id].attempts]]

ImplementsLifecycle == Lifecycle!Spec

\* Whatever dies, hangs up or fails on the way, a job that is asked for ends:
\* succeeded, failed or cancelled.
EveryJobEnds ==
    \A id \in JobIds :
        jobs[id].state \in {"pending", "running"}
            ~> jobs[id].state \in {"succeeded", "failed", "cancelled"}

-----------------------------------------------------------------------------
(* What comments of the repository say and the code does not do. *)

\* "At most p_max_running jobs run at once" (00005).
RunningWithinLimit ==
    \A w \in Workers : Cardinality(LeasedOf(jobs, Handles[w])) <= MaxRunning[w]

\* Cancel "asks a running one to stop" (jobs.go): it does not wait to run again.
CancelIsNotRetried ==
    \A id \in JobIds : jobs[id].state = "pending" => ~jobs[id].cancel

\* "UNKNOWN, ANALYZING, READY or ERROR" (README): when the only ingestion of a work
\* was cancelled and its loop is done, the work is no longer being analysed.
CancelledIsSettled ==
    \A id \in JobIds :
        /\ id.type = Ingest
        /\ jobs[id].state = "cancelled"
        /\ \A w \in Workers : ~Busy(w)
        /\ ~Live(jobs, Ingest, id.work)
        => media[id.work] # "ANALYZING"
=============================================================================
