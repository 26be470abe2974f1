--------------------------- MODULE JobQueueProofs ---------------------------
(***************************************************************************)
(* Proofs about JobQueue, for any number of jobs, works, loops, processes, *)
(* attempts, crashes and reruns.                                           *)
(***************************************************************************)
EXTENDS JobQueue, WellFoundedInduction, TLAPS

-----------------------------------------------------------------------------
(* The operators on the table. *)

LEMMA ClosedType ==
    ASSUME NEW job \in Job, NEW state \in States, NEW kind \in ErrorKinds \cup {None}
    PROVE  Closed(job, state, kind) \in Job
BY DEF Closed, Job

LEMMA NewJobType == NewJob \in Job
BY DEF NewJob, Job, States

LEMMA OwnerType ==
    ASSUME TypeOK, NEW w \in Workers
    PROVE  Owner(w) \in Owners
BY DEF TypeOK, Owner, Owners, Processes

LEMMA SweptType ==
    ASSUME TypeOK
    PROVE  Swept \in [JobIds -> Job]
<1> SUFFICES ASSUME NEW id \in JobIds
             PROVE  /\ Closed(jobs[id], "cancelled", jobs[id].kind) \in Job
                    /\ Closed(jobs[id], "failed", "temporary") \in Job
                    /\ jobs[id] \in Job
    BY DEF Swept
<1>1. jobs[id] \in Job /\ jobs[id].kind \in ErrorKinds \cup {None}
    BY DEF TypeOK, Job
<1> QED BY <1>1, ClosedType DEF States, ErrorKinds

LEMMA InsertedType ==
    ASSUME NEW table \in [JobIds -> Job], NEW types, NEW work
    PROVE  Inserted(table, types, work) \in [JobIds -> Job]
BY NewJobType DEF Inserted

LEMMA CompletedType ==
    ASSUME TypeOK, NEW id \in JobIds
    PROVE  Completed(id) \in [JobIds -> Job]
<1> DEFINE done == [jobs EXCEPT ![id] = Closed(@, "succeeded", None)]
<1>1. done \in [JobIds -> Job]
    BY ClosedType DEF TypeOK, States
<1> QED BY <1>1, InsertedType DEF Completed

LEMMA StartedType ==
    ASSUME TypeOK, NEW w \in Workers, NEW job \in Job
    PROVE  Started(job, w) \in Job
<1>1. Owner(w) \in Owners
    BY OwnerType
<1>2. job.attempts + 1 \in Nat
    BY DEF Job
<1> QED BY <1>1, <1>2 DEF Started, Job, States

LEMMA IdleType == Idle \in Runs
BY DEF Idle, Runs

LEMMA SomeTypes ==
    /\ "pending" \in States /\ "running" \in States /\ "succeeded" \in States
    /\ "failed" \in States /\ "cancelled" \in States /\ "absent" \in States
    /\ "temporary" \in ErrorKinds
BY DEF States, ErrorKinds

-----------------------------------------------------------------------------
(* Types.  The run of a loop carries what its next call needs: an error    *)
(* kind when it will fail, a status and an ingestion when it will report.  *)

RunShape ==
    /\ run \in [Workers -> Runs]
    /\ \A w \in Workers :
        /\ Busy(w) => run[w].job \in JobIds
        /\ At(w, "failing") => run[w].arg \in ErrorKinds
        /\ At(w, "reporting") => run[w].arg \in Statuses /\ Reports(w)

LEMMA ReturnShape ==
    ASSUME RunShape, NEW w \in Workers, Return(w)
    PROVE  RunShape'
BY IdleType DEF RunShape, Return, Idle, Busy, At, Reports

LEMMA GotoShape ==
    ASSUME RunShape, NEW w \in Workers, Busy(w),
           NEW pc \in {"working", "completing", "failing", "acking", "reporting"},
           NEW arg \in ErrorKinds \cup Statuses \cup {None},
           pc = "failing" => arg \in ErrorKinds,
           pc = "reporting" => arg \in Statuses /\ Reports(w),
           Goto(w, pc, arg)
    PROVE  RunShape'
<1>1. run'[w] = [run[w] EXCEPT !.pc = pc, !.arg = arg] /\ run[w] \in Runs
    BY DEF Goto, RunShape
<1>2. run'[w] \in Runs /\ run'[w].job = run[w].job /\ run'[w].pc = pc /\ run'[w].arg = arg
    BY <1>1 DEF Runs
<1>3. \A v \in Workers : v # w => run'[v] = run[v]
    BY DEF Goto, RunShape
<1>4. run' \in [Workers -> Runs]
    BY <1>2, <1>3 DEF Goto, RunShape
<1> QED BY <1>2, <1>3, <1>4 DEF RunShape, Busy, At, Reports

LEMMA ReportOrReturnShape ==
    ASSUME RunShape, NEW w \in Workers, Busy(w), NEW status \in Statuses,
           ReportOrReturn(w, status)
    PROVE  RunShape'
<1>1. CASE Reports(w)
    BY <1>1, GotoShape DEF ReportOrReturn
<1>2. CASE ~Reports(w)
    BY <1>2, ReturnShape DEF ReportOrReturn
<1> QED BY <1>1, <1>2

LEMMA SameShape ==
    ASSUME RunShape, UNCHANGED run
    PROVE  RunShape'
BY DEF RunShape, Busy, At, Reports

LEMMA InitTypes == Init => TypeOK /\ RunShape
<1> SUFFICES ASSUME Init PROVE TypeOK /\ RunShape
    OBVIOUS
<1>1. [NewJob EXCEPT !.state = "absent"] \in Job
    BY DEF NewJob, Job, States
<1>2. jobs \in [JobIds -> Job]
    BY <1>1 DEF Init
<1>3. RunShape /\ (\A w \in Workers : Busy(w) => run[w].job \in JobIds)
    BY IdleType DEF Init, RunShape, Idle, Busy, At, Reports
<1> QED BY <1>2, <1>3 DEF Init, TypeOK, RunShape, Statuses

LEMMA NextShape ==
    ASSUME TypeOK, RunShape, [Next]_vars
    PROVE  RunShape'
<1>1. ASSUME NEW w \in Workers, Claim(w)
      PROVE  RunShape'
    <2>1. PICK id \in JobIds : run' \in {[run EXCEPT ![w] = BeginRun(w, id)], run}
        BY <1>1 DEF Claim, First, Claimable
    <2>2. BeginRun(w, id) \in Runs /\ BeginRun(w, id).job = id
          /\ BeginRun(w, id).pc \in {"starting", "working"}
        BY DEF BeginRun, Idle, Runs
    <2>3. CASE run' = run
        BY <2>3, SameShape
    <2>4. CASE run' = [run EXCEPT ![w] = BeginRun(w, id)]
        BY <2>2, <2>4 DEF RunShape, Busy, At, Reports
    <2> QED BY <2>1, <2>3, <2>4
<1>2. ASSUME NEW w \in Workers, Heartbeat(w)
      PROVE  RunShape'
    <2>1. PICK flag \in {"ok", "cancel", "lost"} : run' = [run EXCEPT ![w].flag = flag]
        <3>1. run = [run EXCEPT ![w].flag = run[w].flag] /\ run[w].flag \in {"ok", "cancel", "lost"}
            BY DEF RunShape, Runs
        <3> QED BY <1>2, <3>1 DEF Heartbeat
    <2>2. run'[w] = [run[w] EXCEPT !.flag = flag] /\ run[w] \in Runs
        BY <2>1 DEF RunShape
    <2>3. run'[w] \in Runs /\ run'[w].job = run[w].job /\ run'[w].pc = run[w].pc
          /\ run'[w].arg = run[w].arg
        BY <2>2 DEF Runs
    <2>4. \A v \in Workers : v # w => run'[v] = run[v]
        BY <2>1 DEF RunShape
    <2> QED BY <2>1, <2>3, <2>4 DEF RunShape, Busy, At, Reports
<1>3. ASSUME NEW w \in Workers, OnStart(w)
      PROVE  RunShape'
    BY <1>3, GotoShape DEF OnStart, At, Busy
<1>4. ASSUME NEW w \in Workers, Stop(w)
      PROVE  RunShape'
    BY <1>4, GotoShape, ReturnShape DEF Stop, At, Busy
<1>5. ASSUME NEW w \in Workers, WorkEnds(w)
      PROVE  RunShape'
    BY <1>5, GotoShape DEF WorkEnds, At, Busy
<1>6. ASSUME NEW w \in Workers, NEW kind \in ErrorKinds, WorkFails(w, kind)
      PROVE  RunShape'
    BY <1>6, GotoShape DEF WorkFails, At, Busy
<1>7. ASSUME NEW w \in Workers, Complete(w)
      PROVE  RunShape'
    BY <1>7, ReturnShape, ReportOrReturnShape DEF Complete, At, Busy, Statuses
<1>8. ASSUME NEW w \in Workers, Fail(w)
      PROVE  RunShape'
    BY <1>8, ReturnShape, ReportOrReturnShape DEF Fail, At, Busy, Statuses
<1>9. ASSUME NEW w \in Workers, CancelAck(w) \/ Report(w)
      PROVE  RunShape'
    BY <1>9, ReturnShape DEF CancelAck, Report
<1>10. ASSUME NEW w \in Workers, Unreachable(w)
       PROVE  RunShape'
    BY <1>10, ReturnShape, GotoShape, SomeTypes DEF Unreachable, Busy
<1>11. ASSUME NEW p \in Processes, Crash(p)
       PROVE  RunShape'
    BY <1>11, IdleType DEF Crash, RunShape, Idle, Busy, At, Reports
<1>12. ASSUME UNCHANGED run
       PROVE  RunShape'
    BY <1>12, SameShape
<1> QED
    BY <1>1, <1>2, <1>3, <1>4, <1>5, <1>6, <1>7, <1>8, <1>9, <1>10, <1>11, <1>12
    DEF Next, Poll, Advance, Clock, Administration, ClaimNothing, LeaseExpires, BackoffElapses,
        Enqueue, Cancel, Rerun, RerunFailed, vars
LEMMA TableUpdateType ==
    ASSUME TypeOK, NEW id \in JobIds, NEW job \in Job, jobs' = [jobs EXCEPT ![id] = job]
    PROVE  jobs' \in [JobIds -> Job]
BY DEF TypeOK

LEMMA NextTable ==
    ASSUME TypeOK, RunShape, [Next]_vars
    PROVE  jobs' \in [JobIds -> Job]
<1>1. ASSUME NEW w \in Workers, Claim(w)
      PROVE  jobs' \in [JobIds -> Job]
    <2>1. PICK id \in JobIds : jobs' = [Swept EXCEPT ![id] = Started(Swept[id], w)]
        BY <1>1, SweptType DEF Claim, First, Claimable
    <2>2. Started(Swept[id], w) \in Job
        BY SweptType, StartedType
    <2> QED BY <2>1, <2>2, SweptType
<1>2. ASSUME NEW w \in Workers, Heartbeat(w)
      PROVE  jobs' \in [JobIds -> Job]
    <2>1. run[w].job \in JobIds /\ jobs[run[w].job] \in Job
        BY <1>2 DEF Heartbeat, TypeOK
    <2>2. [jobs[run[w].job] EXCEPT !.expired = FALSE] \in Job
        BY <2>1 DEF Job
    <2> QED BY <1>2, <2>1, <2>2 DEF Heartbeat, TypeOK
<1>3. ASSUME NEW w \in Workers, Complete(w)
      PROVE  jobs' \in [JobIds -> Job]
    BY <1>3, CompletedType DEF Complete, At, Busy, TypeOK
<1>4. ASSUME NEW w \in Workers, Fail(w)
      PROVE  jobs' \in [JobIds -> Job]
    <2> DEFINE id == run[w].job
    <2>1. id \in JobIds /\ jobs[id] \in Job /\ run[w].arg \in ErrorKinds
        BY <1>4 DEF Fail, At, Busy, TypeOK, RunShape
    <2>2. Closed(jobs[id], "failed", run[w].arg) \in Job
        BY <2>1, ClosedType, SomeTypes
    <2>3. Closed(jobs[id], "pending", "temporary") \in Job
        BY <2>1, ClosedType, SomeTypes
    <2>4. [Closed(jobs[id], "pending", "temporary") EXCEPT !.due = FALSE] \in Job
        BY <2>3 DEF Job
    <2> QED BY <1>4, <2>1, <2>2, <2>4 DEF Fail, TypeOK
<1>5. ASSUME NEW w \in Workers, CancelAck(w)
      PROVE  jobs' \in [JobIds -> Job]
    <2>1. run[w].job \in JobIds /\ jobs[run[w].job] \in Job
        BY <1>5 DEF CancelAck, At, Busy, TypeOK
    <2>2. Closed(jobs[run[w].job], "cancelled", jobs[run[w].job].kind) \in Job
        BY <2>1, ClosedType, SomeTypes DEF Job
    <2> QED BY <1>5, <2>1, <2>2 DEF CancelAck, TypeOK
<1>6. ASSUME NEW id \in JobIds, LeaseExpires(id) \/ BackoffElapses(id)
      PROVE  jobs' \in [JobIds -> Job]
    <2>1. /\ [jobs[id] EXCEPT !.expired = TRUE] \in Job
          /\ [jobs[id] EXCEPT !.due = TRUE] \in Job
        BY DEF TypeOK, Job
    <2> QED BY <1>6, <2>1 DEF LeaseExpires, BackoffElapses, TypeOK
<1>7. ASSUME NEW type, NEW work, Enqueue(type, work)
      PROVE  jobs' \in [JobIds -> Job]
    BY <1>7, InsertedType DEF Enqueue, TypeOK
<1>8. ASSUME NEW id \in JobIds, Cancel(id)
      PROVE  jobs' \in [JobIds -> Job]
    <2>1. /\ [jobs[id] EXCEPT !.state = "cancelled", !.cancel = TRUE] \in Job
          /\ [jobs[id] EXCEPT !.cancel = TRUE] \in Job
        BY SomeTypes DEF TypeOK, Job
    <2> QED BY <1>8, <2>1 DEF Cancel, TypeOK
<1>9. ASSUME (\E id \in JobIds : Rerun(id)) \/ RerunFailed
      PROVE  jobs' \in [JobIds -> Job]
    BY <1>9, NewJobType DEF Rerun, RerunFailed, TypeOK
<1>10. ASSUME NEW w \in Workers, ClaimNothing(w)
       PROVE  jobs' \in [JobIds -> Job]
    BY <1>10, SweptType DEF ClaimNothing
<1>11. ASSUME UNCHANGED jobs
       PROVE  jobs' \in [JobIds -> Job]
    BY <1>11 DEF TypeOK
<1> QED
    BY <1>1, <1>2, <1>3, <1>4, <1>5, <1>6, <1>7, <1>8, <1>9, <1>10, <1>11
    DEF Next, Poll, Advance, Clock, Administration, OnStart, Stop, WorkEnds, WorkFails,
        Report, Unreachable, Crash, vars

LEMMA NextTypes ==
    ASSUME TypeOK, RunShape, [Next]_vars
    PROVE  TypeOK'
<1>1. jobs' \in [JobIds -> Job]
    BY NextTable
<1>2. RunShape'
    BY NextShape
<1>3. media' \in [Works -> Statuses]
    BY DEF Next, Poll, Claim, ClaimNothing, Heartbeat, Advance, OnStart, Stop, WorkEnds, WorkFails,
        Complete, Fail, CancelAck, Report, Unreachable, Clock, LeaseExpires, BackoffElapses, Crash,
        Administration, Enqueue, Cancel, Rerun, RerunFailed, TypeOK, RunShape, Statuses, vars
<1>4. holder' \in [JobIds -> Workers \cup {Nobody}]
    BY DEF Next, Poll, Claim, First, Claimable, ClaimNothing, Heartbeat, Advance, OnStart, Stop,
        WorkEnds, WorkFails, Complete, Fail, CancelAck, Report, Unreachable, Clock, LeaseExpires,
        BackoffElapses, Crash, Administration, Enqueue, Cancel, Rerun, RerunFailed, TypeOK, vars
<1>5. incarnation' \in [Processes -> Nat]
    <2>1. ASSUME NEW p \in Processes, Crash(p)
          PROVE  incarnation' \in [Processes -> Nat]
        BY <2>1 DEF Crash, TypeOK
    <2>2. ASSUME UNCHANGED incarnation
          PROVE  incarnation' \in [Processes -> Nat]
        BY <2>2 DEF TypeOK
    <2> QED BY <2>1, <2>2
        DEF Next, Poll, Claim, ClaimNothing, Heartbeat, Advance, OnStart, Stop, WorkEnds, WorkFails,
            Complete, Fail, CancelAck, Report, Unreachable, Clock, LeaseExpires, BackoffElapses,
            Administration, Enqueue, Cancel, Rerun, RerunFailed, vars
<1>6. reruns' \in Nat
    <2>1. reruns' \in {reruns, reruns + 1}
        BY DEF Next, Poll, Claim, ClaimNothing, Heartbeat, Advance, OnStart, Stop, WorkEnds,
            WorkFails, Complete, Fail, CancelAck, Report, Unreachable, Clock, LeaseExpires,
            BackoffElapses, Crash, Administration, Enqueue, Cancel, Rerun, RerunFailed, vars
    <2> QED BY <2>1 DEF TypeOK
<1> QED BY <1>1, <1>2, <1>3, <1>4, <1>5, <1>6 DEF TypeOK, RunShape

\* Every reachable state is well typed: no call of a loop is made with an argument
\* another call left behind, no step leaves the table.
THEOREM Types_Correct == Spec => []TypeOK
<1>1. TypeOK /\ RunShape /\ [Next]_vars => (TypeOK /\ RunShape)'
    BY NextTypes, NextShape
<1> QED BY <1>1, InitTypes, PTL DEF Spec
-----------------------------------------------------------------------------
(* What one step may do to one job.  Every later argument about the table  *)
(* rests on this case split, so that no other proof looks at the actions   *)
(* one by one again.                                                       *)

Kept(id) ==
    /\ jobs'[id].state = jobs[id].state
    /\ jobs'[id].attempts = jobs[id].attempts
    /\ jobs'[id].owner = jobs[id].owner
    /\ jobs'[id].kind = jobs[id].kind
    /\ holder'[id] = holder[id]

Queued(id) ==
    /\ jobs[id].state \in {"absent", "failed", "cancelled"}
    /\ jobs'[id] = NewJob
    /\ holder'[id] = holder[id]

Withdrawn(id) ==
    /\ jobs[id].state = "pending"
    /\ jobs'[id].state = "cancelled"
    /\ jobs'[id].attempts = jobs[id].attempts
    /\ holder'[id] = holder[id]

Ended(id) ==
    /\ jobs[id].state = "running"
    /\ jobs'[id].state \in {"pending", "succeeded", "failed", "cancelled"}
    /\ jobs'[id].attempts = jobs[id].attempts
    /\ jobs'[id].state = "pending" => jobs[id].attempts < MaxAttempts[id.type]
    /\ jobs'[id].state = "failed" /\ jobs'[id].kind = "temporary"
           => jobs[id].attempts >= MaxAttempts[id.type]
    /\ holder'[id] = holder[id]

StartedBy(w, id) ==
    /\ jobs[id].state \in {"pending", "running"}
    /\ jobs[id].state = "running" => jobs[id].attempts < MaxAttempts[id.type]
    /\ jobs'[id].state = "running"
    /\ jobs'[id].attempts = jobs[id].attempts + 1
    /\ jobs'[id].owner = Owner(w)
    /\ holder'[id] = w

JobStep(id) ==
    \/ Kept(id)
    \/ Queued(id)
    \/ Withdrawn(id)
    \/ Ended(id)
    \/ \E w \in Workers : Claim(w) /\ StartedBy(w, id)

LEMMA ClosedFields ==
    ASSUME NEW job \in Job, NEW state \in States, NEW kind \in ErrorKinds \cup {None}
    PROVE  /\ Closed(job, state, kind).state = state
           /\ Closed(job, state, kind).kind = kind
           /\ Closed(job, state, kind).attempts = job.attempts
BY DEF Closed, Job

LEMMA AttemptsCompare ==
    ASSUME TypeOK, NEW id \in JobIds
    PROVE  /\ jobs[id].attempts \in Nat
           /\ MaxAttempts[id.type] \in Nat \ {0}
           /\ ~(jobs[id].attempts >= MaxAttempts[id.type]) <=> jobs[id].attempts < MaxAttempts[id.type]
<1>1. id.type \in Types
    BY DEF JobIds
<1>2. jobs[id].attempts \in Nat
    BY DEF TypeOK, Job
<1>3. MaxAttempts[id.type] \in Nat \ {0}
    BY <1>1, KindsAssumption
<1> QED BY <1>2, <1>3

\* The sweeps end abandoned jobs; what they leave abandoned has an attempt left.
LEMMA SweptCases ==
    ASSUME TypeOK, NEW id \in JobIds
    PROVE  \/ /\ Swept[id] = jobs[id]
              /\ Abandoned(jobs[id]) => jobs[id].attempts < MaxAttempts[id.type]
           \/ /\ jobs[id].state = "running"
              /\ Swept[id].state \in {"cancelled", "failed"}
              /\ Swept[id].attempts = jobs[id].attempts
              /\ Swept[id].state = "failed" => jobs[id].attempts >= MaxAttempts[id.type]
<1>1. jobs[id] \in Job /\ jobs[id].kind \in ErrorKinds \cup {None}
    BY DEF TypeOK, Job
<1>2. CASE Abandoned(jobs[id]) /\ jobs[id].cancel
    BY <1>1, <1>2, ClosedFields, SomeTypes DEF Swept, Abandoned
<1>3. CASE Abandoned(jobs[id]) /\ ~jobs[id].cancel /\ jobs[id].attempts >= MaxAttempts[id.type]
    BY <1>1, <1>3, ClosedFields, SomeTypes DEF Swept, Abandoned
<1>4. CASE ~Abandoned(jobs[id])
    BY <1>4 DEF Swept
<1>5. CASE Abandoned(jobs[id]) /\ ~jobs[id].cancel /\ ~(jobs[id].attempts >= MaxAttempts[id.type])
    BY <1>5, AttemptsCompare DEF Swept
<1> QED BY <1>2, <1>3, <1>4, <1>5

LEMMA SweptStep ==
    ASSUME TypeOK, NEW id \in JobIds, jobs'[id] = Swept[id], holder'[id] = holder[id]
    PROVE  Kept(id) \/ Ended(id)
BY SweptCases DEF Kept, Ended

LEMMA InsertedCases ==
    ASSUME NEW table, NEW types, NEW work, NEW id \in JobIds
    PROVE  \/ Inserted(table, types, work)[id] = table[id]
           \/ /\ Inserted(table, types, work)[id] = NewJob
              /\ table[id].state = "absent"
BY DEF Inserted, IsNextId

LEMMA EveryJobSteps ==
    ASSUME TypeOK, RunShape, [Next]_vars, NEW id \in JobIds
    PROVE  JobStep(id)
<1> USE DEF JobStep
<1>1. ASSUME NEW w \in Workers, Claim(w)
      PROVE  JobStep(id)
    <2>1. PICK chosen \in JobIds :
              /\ chosen \in Claimable(w)
              /\ jobs' = [Swept EXCEPT ![chosen] = Started(Swept[chosen], w)]
              /\ holder' = [holder EXCEPT ![chosen] = w]
        BY <1>1 DEF Claim, First, Claimable
    <2>2. CASE id # chosen
        <3>1. jobs'[id] = Swept[id] /\ holder'[id] = holder[id]
            BY <2>1, <2>2, SweptType DEF TypeOK
        <3> QED BY <3>1, SweptStep
    <2>3. CASE id = chosen
        <3>1. jobs'[id] = Started(Swept[id], w) /\ holder'[id] = w /\ Swept[id] \in Job
            BY <2>1, <2>3, SweptType DEF TypeOK
        <3>2. Swept[id].state = "pending" \/ Abandoned(Swept[id])
            BY <2>1, <2>3 DEF Claimable
        <3>3. /\ Swept[id] = jobs[id]
              /\ Abandoned(jobs[id]) => jobs[id].attempts < MaxAttempts[id.type]
            BY <3>2, SweptCases DEF Abandoned
        <3>4. /\ jobs'[id].state = "running"
              /\ jobs'[id].attempts = jobs[id].attempts + 1
              /\ jobs'[id].owner = Owner(w)
            BY <3>1, <3>3 DEF Started, Job
        <3> QED BY <1>1, <3>1, <3>2, <3>3, <3>4 DEF StartedBy, Abandoned
    <2> QED BY <2>2, <2>3
<1>2. ASSUME NEW w \in Workers, ClaimNothing(w)
      PROVE  JobStep(id)
    BY <1>2, SweptStep DEF ClaimNothing
<1>3. ASSUME NEW w \in Workers, Heartbeat(w)
      PROVE  JobStep(id)
    BY <1>3 DEF Heartbeat, Kept, TypeOK, Job
<1>4. ASSUME NEW w \in Workers, Complete(w)
      PROVE  JobStep(id)
    <2>1. CASE UNCHANGED jobs
        BY <1>4, <2>1 DEF Complete, Kept
    <2>2. CASE Owns(w) /\ jobs' = Completed(run[w].job)
        <3> DEFINE mine == run[w].job
                   done == [jobs EXCEPT ![mine] = Closed(@, "succeeded", None)]
        <3>1. mine \in JobIds /\ jobs[mine].state = "running"
            BY <2>2 DEF Owns, TypeOK
        <3>2. Closed(jobs[mine], "succeeded", None).state = "succeeded"
              /\ Closed(jobs[mine], "succeeded", None).attempts = jobs[mine].attempts
            BY <3>1, ClosedFields, SomeTypes DEF TypeOK
        <3>3. jobs'[id] = done[id] \/ (jobs'[id] = NewJob /\ done[id].state = "absent")
            <4>1. CASE mine.type = Ingest
                <5>1. jobs' = Inserted(done, FollowUps, mine.work)
                    BY <2>2, <4>1 DEF Completed
                <5> HIDE DEF done
                <5> QED BY <5>1, InsertedCases
            <4>2. CASE mine.type # Ingest
                BY <2>2, <4>2 DEF Completed
            <4> QED BY <4>1, <4>2
        <3>4. CASE id = mine
            BY <1>4, <3>1, <3>2, <3>3, <3>4 DEF Complete, Ended, TypeOK
        <3>5. CASE id # mine
            <4>1. done[id] = jobs[id]
                BY <3>5 DEF TypeOK
            <4> QED BY <1>4, <3>3, <4>1 DEF Complete, Kept, Queued
        <3> QED BY <3>4, <3>5
    <2> QED BY <1>4, <2>1, <2>2 DEF Complete
<1>5. ASSUME NEW w \in Workers, Fail(w)
      PROVE  JobStep(id)
    <2>1. CASE UNCHANGED jobs
        BY <1>5, <2>1 DEF Fail, Kept
    <2>2. CASE Owns(w) /\ ~UNCHANGED jobs
        <3> DEFINE mine == run[w].job
        <3>1. /\ mine \in JobIds /\ jobs[mine].state = "running" /\ jobs[mine] \in Job
              /\ run[w].arg \in ErrorKinds
            BY <1>5, <2>2 DEF Fail, Owns, TypeOK, RunShape
        <3>2. CASE id # mine
            BY <1>5, <2>2, <3>2 DEF Fail, Kept, TypeOK
        <3>3. CASE id = mine /\ IsFinal(w) /\ jobs'[id] = Closed(jobs[id], "failed", run[w].arg)
            <4>1. /\ jobs'[id].state = "failed"
                  /\ jobs'[id].kind = run[w].arg
                  /\ jobs'[id].attempts = jobs[id].attempts
                BY <3>1, <3>3, ClosedFields, SomeTypes
            <4> QED BY <1>5, <3>1, <3>3, <4>1 DEF Fail, Ended, IsFinal
        <3>4. CASE /\ id = mine /\ ~IsFinal(w)
                   /\ jobs'[id] = [Closed(jobs[id], "pending", "temporary") EXCEPT !.due = FALSE]
            <4>1. Closed(jobs[id], "pending", "temporary") \in Job
                BY <3>1, <3>4, ClosedType, SomeTypes
            <4>2. jobs'[id].state = "pending" /\ jobs'[id].attempts = jobs[id].attempts
                BY <3>1, <3>4, <4>1, ClosedFields, SomeTypes DEF Job
            <4>3. jobs[id].attempts < MaxAttempts[id.type]
                BY <3>4, AttemptsCompare DEF IsFinal
            <4> QED BY <1>5, <3>1, <3>4, <4>2, <4>3 DEF Fail, Ended
        <3> QED BY <1>5, <2>2, <3>1, <3>2, <3>3, <3>4 DEF Fail, TypeOK
    <2> QED BY <1>5, <2>1, <2>2 DEF Fail
<1>6. ASSUME NEW w \in Workers, CancelAck(w)
      PROVE  JobStep(id)
    <2>1. CASE jobs' = jobs
        BY <1>6, <2>1 DEF CancelAck, Kept
    <2>2. CASE Owns(w) /\ jobs' # jobs
        <3> DEFINE mine == run[w].job
        <3>1. mine \in JobIds /\ jobs[mine].state = "running" /\ jobs[mine] \in Job
            BY <2>2 DEF Owns, TypeOK
        <3>2. /\ Closed(jobs[mine], "cancelled", jobs[mine].kind).state = "cancelled"
              /\ Closed(jobs[mine], "cancelled", jobs[mine].kind).attempts = jobs[mine].attempts
            BY <3>1, ClosedFields, SomeTypes DEF Job
        <3> QED BY <1>6, <2>2, <3>1, <3>2 DEF CancelAck, Ended, Kept, TypeOK
    <2> QED BY <1>6, <2>1, <2>2 DEF CancelAck
<1>7. ASSUME NEW other \in JobIds, LeaseExpires(other) \/ BackoffElapses(other)
      PROVE  JobStep(id)
    BY <1>7 DEF LeaseExpires, BackoffElapses, Kept, TypeOK, Job
<1>8. ASSUME NEW type, NEW work, Enqueue(type, work)
      PROVE  JobStep(id)
    BY <1>8, InsertedCases DEF Enqueue, Kept, Queued
<1>9. ASSUME NEW other \in JobIds, Cancel(other)
      PROVE  JobStep(id)
    BY <1>9 DEF Cancel, Kept, Withdrawn, TypeOK, Job
<1>10. ASSUME NEW other \in JobIds, Rerun(other)
       PROVE  JobStep(id)
    BY <1>10 DEF Rerun, Kept, Queued, TypeOK
<1>11. ASSUME RerunFailed
       PROVE  JobStep(id)
    BY <1>11 DEF RerunFailed, RerunCandidates, Kept, Queued
<1>12. ASSUME UNCHANGED <<jobs, holder>>
       PROVE  JobStep(id)
    BY <1>12 DEF Kept
<1> QED
    BY <1>1, <1>2, <1>3, <1>4, <1>5, <1>6, <1>7, <1>8, <1>9, <1>10, <1>11, <1>12
    DEF Next, Poll, Advance, Clock, Administration, OnStart, Stop, WorkEnds, WorkFails,
        Report, Unreachable, Crash, vars
-----------------------------------------------------------------------------
(* Attempts, and the refinement of JobLifecycle.                           *)

AttemptsBounded ==
    \A id \in JobIds :
        /\ jobs[id].state = "absent" => jobs[id].attempts = 0
        /\ jobs[id].state = "pending" => jobs[id].attempts < MaxAttempts[id.type]
        /\ jobs[id].state = "running" => jobs[id].attempts <= MaxAttempts[id.type]

LEMMA InitAttempts == Init => AttemptsBounded /\ TemporaryUsesAllAttempts
BY DEF Init, AttemptsBounded, TemporaryUsesAllAttempts, NewJob

LEMMA NewJobFields == NewJob.state = "pending" /\ NewJob.attempts = 0 /\ NewJob.owner = NoOwner
BY DEF NewJob

LEMMA NextAttempts ==
    ASSUME TypeOK, RunShape, AttemptsBounded, TemporaryUsesAllAttempts, [Next]_vars
    PROVE  AttemptsBounded' /\ TemporaryUsesAllAttempts'
<1> SUFFICES ASSUME NEW id \in JobIds
             PROVE  /\ jobs'[id].state = "absent" => jobs'[id].attempts = 0
                    /\ jobs'[id].state = "pending" => jobs'[id].attempts < MaxAttempts[id.type]
                    /\ jobs'[id].state = "running" => jobs'[id].attempts <= MaxAttempts[id.type]
                    /\ jobs'[id].state = "failed" /\ jobs'[id].kind = "temporary"
                           => jobs'[id].attempts = MaxAttempts[id.type]
    BY DEF AttemptsBounded, TemporaryUsesAllAttempts
<1>1. JobStep(id)
    BY EveryJobSteps
<1>2. jobs[id].attempts \in Nat /\ MaxAttempts[id.type] \in Nat \ {0}
    BY AttemptsCompare
<1>3. CASE Kept(id)
    BY <1>3 DEF Kept, AttemptsBounded, TemporaryUsesAllAttempts
<1>4. CASE Queued(id)
    BY <1>2, <1>4, NewJobFields DEF Queued
<1>5. CASE Withdrawn(id)
    BY <1>5 DEF Withdrawn
<1>6. CASE Ended(id)
    BY <1>2, <1>6 DEF Ended, AttemptsBounded
<1>7. CASE \E w \in Workers : StartedBy(w, id)
    BY <1>2, <1>7 DEF StartedBy, AttemptsBounded
<1> QED BY <1>1, <1>3, <1>4, <1>5, <1>6, <1>7 DEF JobStep

CountInv == TypeOK /\ RunShape /\ AttemptsBounded /\ TemporaryUsesAllAttempts

LEMMA AttemptsInvariant == Spec => []CountInv
<1>1. Init => CountInv
    BY InitTypes, InitAttempts DEF CountInv
<1>2. CountInv /\ [Next]_vars => CountInv'
    BY NextTypes, NextShape, NextAttempts DEF CountInv
<1> QED BY <1>1, <1>2, PTL DEF Spec

\* A job that failed for a temporary reason was really started as often as it may
\* be, whether a worker reported the failure or a claim found its lease expired.
THEOREM Attempts_Used == Spec => []TemporaryUsesAllAttempts
BY AttemptsInvariant, PTL DEF CountInv

LifeOf(table) == [id \in JobIds |-> [state |-> table[id].state, attempts |-> table[id].attempts]]

\* The queue implements the abstract life of a job: whatever the loops, the clock
\* and the administration do, each job only moves as JobLifecycle says.
THEOREM Queue_Implements_Lifecycle == Spec => ImplementsLifecycle
<1>1. Init => Lifecycle!Init
    BY DEF Init, Lifecycle!Init, Lifecycle!Absent, NewJob
<1>2. CountInv /\ [Next]_vars => [Lifecycle!Next]_(LifeOf(jobs))
    <2> SUFFICES ASSUME CountInv, [Next]_vars
                 PROVE  Lifecycle!Next
        BY DEF LifeOf
    <2>1. ASSUME NEW id \in JobIds
          PROVE  \/ LifeOf(jobs')[id] = LifeOf(jobs)[id]
                 \/ Lifecycle!Move(id, LifeOf(jobs)[id], LifeOf(jobs')[id])
        <3> DEFINE old == [state |-> jobs[id].state, attempts |-> jobs[id].attempts]
                   new == [state |-> jobs'[id].state, attempts |-> jobs'[id].attempts]
        <3>1. JobStep(id)
            BY EveryJobSteps DEF CountInv
        <3>2. jobs[id].attempts \in Nat /\ MaxAttempts[id.type] \in Nat \ {0}
            BY AttemptsCompare DEF CountInv
        <3>3. CASE Kept(id)
            BY <3>3 DEF Kept, LifeOf
        <3>4. CASE Queued(id)
            <4>1. new = [state |-> "pending", attempts |-> 0]
                BY <3>4, NewJobFields DEF Queued
            <4>2. jobs[id].state = "absent" => old = [state |-> "absent", attempts |-> 0]
                BY DEF CountInv, AttemptsBounded
            <4> QED BY <3>4, <4>1, <4>2
                DEF Queued, LifeOf, Lifecycle!Move, Lifecycle!Create, Lifecycle!Requeue,
                    Lifecycle!Fresh, Lifecycle!Absent
        <3>5. CASE Withdrawn(id)
            BY <3>5 DEF Withdrawn, LifeOf, Lifecycle!Move, Lifecycle!Withdraw
        <3>6. CASE Ended(id)
            BY <3>6 DEF Ended, LifeOf, Lifecycle!Move, Lifecycle!Finish, Lifecycle!Retry
        <3>7. CASE \E w \in Workers : StartedBy(w, id)
            BY <3>2, <3>7
            DEF StartedBy, LifeOf, Lifecycle!Move, Lifecycle!Start, CountInv, AttemptsBounded
        <3> QED BY <3>1, <3>3, <3>4, <3>5, <3>6, <3>7 DEF JobStep
    <2> QED BY <2>1 DEF Lifecycle!Next, LifeOf
<1> QED BY <1>1, <1>2, AttemptsInvariant, PTL DEF Spec, ImplementsLifecycle, Lifecycle!Spec, LifeOf
-----------------------------------------------------------------------------
(* Leases.  A running job carries the name of the process of the loop that *)
(* claimed it last, and as long as that loop is at work on it, the name it *)
(* has now.                                                                *)

Leases ==
    /\ \A id \in JobIds :
        jobs[id].state = "running"
            => /\ holder[id] \in Workers
               /\ jobs[id].owner[1] = Process[holder[id]]
    /\ \A w \in Workers :
        /\ Busy(w)
        /\ jobs[run[w].job].state = "running"
        /\ holder[run[w].job] = w
        => jobs[run[w].job].owner = Owner(w)

\* What one step may do to the run of one loop.
Continues(w) ==
    /\ Busy(w)
    /\ run'[w].job = run[w].job
    /\ Owner(w)' = Owner(w)
    /\ run'[w].flag = "lost" => run[w].flag = "lost" \/ ~Owns(w)

Begins(w) ==
    /\ Claim(w)
    /\ run'[w].flag = "ok"
    /\ run'[w].job \in JobIds
    /\ holder'[run'[w].job] = w
    /\ jobs'[run'[w].job].owner = Owner(w)
    /\ Owner(w)' = Owner(w)

LEMMA EveryRunSteps ==
    ASSUME TypeOK, RunShape, [Next]_vars, NEW w \in Workers
    PROVE  ~Busy(w)' \/ Continues(w) \/ Begins(w)
<1> SUFFICES ASSUME Busy(w)'
             PROVE  Continues(w) \/ Begins(w)
    OBVIOUS
<1>1. run \in [Workers -> Runs] /\ Process[w] \in Processes
    BY DEF RunShape, Processes
<1>2. ASSUME NEW v \in Workers, Claim(v)
      PROVE  Continues(w) \/ Begins(w)
    <2>1. PICK id \in JobIds :
              /\ id \in Claimable(v)
              /\ jobs' = [Swept EXCEPT ![id] = Started(Swept[id], v)]
              /\ run' \in {[run EXCEPT ![v] = BeginRun(v, id)], run}
              /\ holder' = [holder EXCEPT ![id] = v]
        BY <1>2 DEF Claim, First, Claimable
    <2>2. Owner(w)' = Owner(w)
        BY <1>2 DEF Claim, Owner
    <2>3. CASE run'[w] = run[w]
        BY <2>2, <2>3 DEF Continues, Busy
    <2>4. CASE v = w /\ run'[w] = BeginRun(w, id)
        <3>1. run'[w].flag = "ok" /\ run'[w].job = id
            BY <2>4 DEF BeginRun, Idle
        <3>2. jobs'[id].owner = Owner(w) /\ holder'[id] = w
            BY <2>1, <2>4, SweptType DEF Started, Job, TypeOK
        <3> QED BY <1>2, <2>2, <2>4, <3>1, <3>2 DEF Begins
    <2> QED BY <1>1, <2>1, <2>3, <2>4
<1>3. ASSUME NEW v \in Workers, Heartbeat(v)
      PROVE  Continues(w)
    <2>1. Owner(w)' = Owner(w)
        BY <1>3 DEF Heartbeat, Owner
    <2>2. CASE v = w
        <3>1. run'[w].job = run[w].job /\ Busy(w)
            BY <1>1, <1>3, <2>2 DEF Heartbeat, Runs
        <3>2. run'[w].flag = "lost" => run[w].flag = "lost" \/ ~Owns(w)
            BY <1>1, <1>3, <2>2 DEF Heartbeat, Runs
        <3> QED BY <2>1, <3>1, <3>2 DEF Continues
    <2>3. CASE v # w
        <3>1. run'[w] = run[w]
            BY <1>1, <1>3, <2>3 DEF Heartbeat
        <3> QED BY <2>1, <3>1 DEF Continues, Busy
    <2> QED BY <2>2, <2>3
<1>4. ASSUME NEW v \in Workers, Advance(v)
      PROVE  Continues(w)
    <2>1. Owner(w)' = Owner(w)
        BY <1>4 DEF Advance, OnStart, Stop, WorkEnds, WorkFails, Complete, Fail, CancelAck, Report,
                Unreachable, Owner
    <2>2. PICK pc, arg : Goto(v, pc, arg) \/ Return(v)
        BY <1>4 DEF Advance, OnStart, Stop, WorkEnds, WorkFails, Complete, Fail, CancelAck, Report,
                Unreachable, ReportOrReturn
    <2>3. Busy(v)
        BY <1>4 DEF Advance, OnStart, Stop, WorkEnds, WorkFails, Complete, Fail, CancelAck, Report,
                Unreachable, At, Busy
    <2>4. CASE v = w
        <3>1. run'[w].job = run[w].job /\ run'[w].flag = run[w].flag
            <4>1. CASE Goto(w, pc, arg)
                BY <1>1, <4>1 DEF Goto, Runs
            <4>2. CASE Return(w)
                BY <1>1, <4>2 DEF Return, Idle, Busy
            <4> QED BY <2>2, <2>4, <4>1, <4>2
        <3> QED BY <2>1, <2>3, <2>4, <3>1 DEF Continues
    <2>5. CASE v # w
        <3>1. run'[w] = run[w]
            BY <1>1, <2>2, <2>5 DEF Goto, Return
        <3> QED BY <2>1, <3>1 DEF Continues, Busy
    <2> QED BY <2>4, <2>5
<1>5. ASSUME NEW p \in Processes, Crash(p)
      PROVE  Continues(w)
    <2>1. Process[w] # p /\ run'[w] = run[w]
        BY <1>5 DEF Crash, Busy, Idle
    <2>2. Owner(w)' = Owner(w)
        BY <1>5, <2>1 DEF Crash, Owner
    <2> QED BY <2>1, <2>2 DEF Continues, Busy
<1>6. ASSUME UNCHANGED <<run, incarnation>>
      PROVE  Continues(w)
    BY <1>6 DEF Continues, Busy, Owner
<1> QED
    BY <1>2, <1>3, <1>4, <1>5, <1>6
    DEF Next, Poll, Clock, Administration, ClaimNothing, LeaseExpires, BackoffElapses, Enqueue,
        Cancel, Rerun, RerunFailed, vars

LEMMA InitLeases == Init => Leases /\ LostMeansLost
BY DEF Init, Leases, LostMeansLost, NewJob, Idle, Busy

LEMMA NextLeases ==
    ASSUME TypeOK, RunShape, Leases, [Next]_vars
    PROVE  Leases'
<1>1. ASSUME NEW id \in JobIds, jobs'[id].state = "running"
      PROVE  holder'[id] \in Workers /\ jobs'[id].owner[1] = Process[holder'[id]]
    <2>1. CASE Kept(id)
        BY <1>1, <2>1 DEF Kept, Leases
    <2>2. CASE \E w \in Workers : StartedBy(w, id)
        BY <1>1, <2>2 DEF StartedBy, Owner
    <2>3. ~Queued(id) /\ ~Withdrawn(id) /\ ~Ended(id)
        BY <1>1, NewJobFields DEF Queued, Withdrawn, Ended
    <2> QED BY <2>1, <2>2, <2>3, EveryJobSteps DEF JobStep
<1>2. ASSUME NEW w \in Workers, Busy(w)', jobs'[run'[w].job].state = "running",
             holder'[run'[w].job] = w
      PROVE  jobs'[run'[w].job].owner = Owner(w)'
    <2>1. CASE Begins(w)
        BY <2>1 DEF Begins
    <2>2. CASE Continues(w)
        <3> DEFINE id == run[w].job
        <3>1. id \in JobIds /\ run'[w].job = id /\ Owner(w)' = Owner(w) /\ Busy(w)
            BY <2>2 DEF Continues, RunShape
        <3>2. CASE Kept(id)
            BY <1>2, <3>1, <3>2 DEF Kept, Leases
        <3>3. ~StartedBy(w, id) \/ ~Claim(w)
            BY <3>1 DEF Claim
        <3>4. CASE \E v \in Workers : Claim(v) /\ StartedBy(v, id)
            BY <1>2, <3>1, <3>3, <3>4 DEF StartedBy
        <3>5. ~Queued(id) /\ ~Withdrawn(id) /\ ~Ended(id)
            BY <1>2, <3>1, NewJobFields DEF Queued, Withdrawn, Ended
        <3> QED BY <3>1, <3>2, <3>4, <3>5, EveryJobSteps DEF JobStep
    <2> QED BY <1>2, <2>1, <2>2, EveryRunSteps
<1> QED BY <1>1, <1>2 DEF Leases

LEMMA NextLost ==
    ASSUME TypeOK, RunShape, Leases, LostMeansLost, [Next]_vars
    PROVE  LostMeansLost'
<1> SUFFICES ASSUME NEW w \in Workers, Busy(w)', run'[w].flag = "lost",
                    jobs'[run'[w].job].state = "running", holder'[run'[w].job] = w
             PROVE  FALSE
    BY DEF LostMeansLost
<1> DEFINE id == run[w].job
<1>1. Continues(w)
    BY EveryRunSteps DEF Begins
<1>2. id \in JobIds /\ run'[w].job = id /\ Busy(w)
    BY <1>1 DEF Continues, RunShape
<1>3. jobs[id].state # "running" \/ holder[id] # w
    BY <1>1, <1>2 DEF Continues, LostMeansLost, Leases, Owns
<1>4. ~Kept(id) /\ ~Queued(id) /\ ~Withdrawn(id) /\ ~Ended(id)
    BY <1>2, <1>3, NewJobFields DEF Kept, Queued, Withdrawn, Ended
<1>5. ~(\E v \in Workers : Claim(v) /\ StartedBy(v, id))
    BY <1>2 DEF Claim, StartedBy
<1> QED BY <1>2, <1>4, <1>5, EveryJobSteps DEF JobStep

LeaseInv == TypeOK /\ RunShape /\ Leases /\ LostMeansLost

LEMMA LeaseInvariant == Spec => []LeaseInv
<1>1. Init => LeaseInv
    BY InitTypes, InitLeases DEF LeaseInv
<1>2. LeaseInv /\ [Next]_vars => LeaseInv'
    BY NextTypes, NextShape, NextLeases, NextLost DEF LeaseInv
<1> QED BY <1>1, <1>2, PTL DEF Spec

\* A loop that is told "lost" is never still the rightful one: stopping without a
\* word on that answer cannot abandon a job that is its own.
THEOREM Lost_Means_Lost == Spec => []LostMeansLost
BY LeaseInvariant, PTL DEF LeaseInv

\* When no two loops share a process (and so an owner name), a loop whose job was
\* claimed by another since cannot change it: its heartbeat, its completion, its
\* failure and its acknowledgement all find another owner.
THEOREM Stale_Workers_Are_Fenced ==
    ASSUME \A v, w \in Workers : Process[v] = Process[w] => v = w
    PROVE  Spec => StaleWorkerIsFenced
<1>1. LeaseInv /\ [Next]_vars
          => [\A w \in Workers :
                 Stale(w) /\ run'[w] # run[w] => jobs'[run[w].job] = jobs[run[w].job]]_vars
    <2> SUFFICES ASSUME LeaseInv, Next, NEW w \in Workers, Stale(w), run'[w] # run[w]
                 PROVE  jobs'[run[w].job] = jobs[run[w].job]
        OBVIOUS
    <2>1. ~Owns(w)
        <3> SUFFICES ASSUME Owns(w)
                     PROVE  FALSE
            OBVIOUS
        <3>1. /\ jobs[run[w].job].state = "running"
              /\ jobs[run[w].job].owner[1] = Process[w]
              /\ run[w].job \in JobIds
            BY DEF Owns, Owner, LeaseInv, RunShape
        <3>2. holder[run[w].job] \in Workers /\ Process[holder[run[w].job]] = Process[w]
            BY <3>1 DEF LeaseInv, Leases
        <3> QED BY <3>2 DEF Stale
    <2>2. run \in [Workers -> Runs] /\ Busy(w)
        BY DEF LeaseInv, RunShape, Stale
    <2>3. ASSUME NEW v \in Workers, Claim(v)
          PROVE  run'[w] = run[w]
        BY <2>2, <2>3 DEF Claim
    <2>4. ASSUME NEW v \in Workers, Heartbeat(v)
          PROVE  jobs' = jobs
        <3>1. v = w
            BY <2>2, <2>4 DEF Heartbeat
        <3> QED BY <2>1, <2>4, <3>1 DEF Heartbeat
    <2>5. ASSUME NEW v \in Workers, Complete(v) \/ Fail(v) \/ CancelAck(v)
          PROVE  jobs' = jobs
        <3>1. v = w
            BY <2>2, <2>5 DEF Complete, Fail, CancelAck, ReportOrReturn, Return, Goto
        <3> QED BY <2>1, <2>5, <3>1 DEF Complete, Fail, CancelAck
    <2>6. ASSUME UNCHANGED jobs
          PROVE  jobs'[run[w].job] = jobs[run[w].job]
        BY <2>6
    <2>7. ASSUME UNCHANGED run
          PROVE  FALSE
        BY <2>7
    <2> QED BY <2>3, <2>4, <2>5, <2>6, <2>7
        DEF Next, Poll, Advance, Clock, Administration, ClaimNothing, OnStart, Stop, WorkEnds,
            WorkFails, Report, Unreachable, LeaseExpires, BackoffElapses, Crash, Enqueue, Cancel,
            Rerun, RerunFailed
<1> QED BY <1>1, LeaseInvariant, PTL DEF Spec, StaleWorkerIsFenced
-----------------------------------------------------------------------------
(* One live job per kind and work.                                         *)

IsLive(table, id) == table[id].state \in {"pending", "running"}

SameKind(a, b) == a.type = b.type /\ a.work = b.work /\ a.work \in Works

LEMMA KindIds ==
    ASSUME NEW a \in JobIds, NEW b \in JobIds, SameKind(a, b)
    PROVE  /\ a.nth \in Serials /\ b.nth \in Serials
           /\ a = [type |-> a.type, work |-> a.work, nth |-> a.nth]
           /\ b = [type |-> a.type, work |-> a.work, nth |-> b.nth]
           /\ b = [a EXCEPT !.nth = b.nth]
           /\ a # b => a.nth # b.nth
BY DEF JobIds, SameKind

LEMMA OneLiveByIds ==
    OneLivePerKind <=> \A a, b \in JobIds :
                           SameKind(a, b) /\ IsLive(jobs, a) /\ IsLive(jobs, b) => a = b
<1>1. ASSUME OneLivePerKind, NEW a \in JobIds, NEW b \in JobIds,
             SameKind(a, b), IsLive(jobs, a), IsLive(jobs, b)
      PROVE  a = b
    BY <1>1, KindIds DEF OneLivePerKind, IsLive, SameKind, JobIds
<1>2. ASSUME \A a, b \in JobIds : SameKind(a, b) /\ IsLive(jobs, a) /\ IsLive(jobs, b) => a = b,
             NEW type \in Types, NEW work \in Works, NEW m \in Serials, NEW n \in Serials,
             IsLive(jobs, [type |-> type, work |-> work, nth |-> m]),
             IsLive(jobs, [type |-> type, work |-> work, nth |-> n])
      PROVE  m = n
    BY <1>2 DEF SameKind, JobIds
<1> QED BY <1>1, <1>2 DEF OneLivePerKind, IsLive

LEMMA NotTaken ==
    ASSUME NEW table, NEW a \in JobIds, NEW b \in JobIds, SameKind(a, b),
           ~Taken(table, a.type, a.work)
    PROVE  ~IsLive(table, b)
BY KindIds, KindsAssumption DEF Taken, Live, IsLive, SameKind

LEMMA InsertedAlone ==
    ASSUME NEW table, NEW types, NEW work,
           NEW a \in JobIds, NEW b \in JobIds, SameKind(a, b), a # b,
           Inserted(table, types, work)[a] # table[a]
    PROVE  ~IsLive(Inserted(table, types, work), b)
<1>1. /\ ~Taken(table, a.type, a.work)
      /\ IsNextId(table, a)
    BY DEF Inserted, SameKind
<1>2. ~IsLive(table, b)
    BY <1>1, NotTaken
<1>3. CASE Inserted(table, types, work)[b] = table[b]
    BY <1>2, <1>3 DEF IsLive
<1>4. CASE IsNextId(table, b)
    <2>1. a.nth \in Nat /\ b.nth \in Nat /\ a.nth # b.nth
        BY KindIds, KindsAssumption
    <2>2. a.nth < b.nth \/ b.nth < a.nth
        BY <2>1
    <2>3. SameKind(b, a)
        BY DEF SameKind
    <2>4. a = [b EXCEPT !.nth = a.nth] /\ b = [a EXCEPT !.nth = b.nth]
        BY <2>3, KindIds
    <2> QED BY <1>1, <1>4, <2>2, <2>4, KindIds DEF IsNextId
<1> QED BY <1>3, <1>4 DEF Inserted

\* A job that becomes live becomes the only live one of its kind.
LEMMA BecomesLiveAlone ==
    ASSUME TypeOK, RunShape, [Next]_vars,
           NEW a \in JobIds, NEW b \in JobIds, SameKind(a, b), a # b,
           ~IsLive(jobs, a), IsLive(jobs', a)
    PROVE  ~IsLive(jobs', b)
<1>1. Queued(a)
    BY EveryJobSteps DEF JobStep, Kept, Withdrawn, Ended, StartedBy, IsLive
<1>2. jobs'[a] # jobs[a]
    BY <1>1, NewJobFields DEF Queued
<1>3. ASSUME NEW type, NEW work, Enqueue(type, work)
      PROVE  ~IsLive(jobs', b)
    BY <1>2, <1>3, InsertedAlone DEF Enqueue
<1>4. ASSUME NEW w \in Workers, Complete(w)
      PROVE  ~IsLive(jobs', b)
    <2> DEFINE mine == run[w].job
               done == [jobs EXCEPT ![mine] = Closed(@, "succeeded", None)]
    <2>1. jobs' = Completed(mine) /\ mine \in JobIds /\ jobs[mine].state = "running"
        BY <1>2, <1>4 DEF Complete, Owns, TypeOK
    <2>2. a # mine
        BY <2>1 DEF IsLive
    <2>3. done[a] = jobs[a]
        BY <2>2 DEF TypeOK
    <2>4. jobs' = Inserted(done, FollowUps, mine.work)
        BY <1>2, <2>1, <2>3 DEF Completed
    <2> HIDE DEF done
    <2> QED BY <1>2, <2>3, <2>4, InsertedAlone
<1>5. ASSUME NEW id \in JobIds, Rerun(id)
      PROVE  ~IsLive(jobs', b)
    <2>1. id = a
        BY <1>2, <1>5 DEF Rerun, TypeOK
    <2>2. ~IsLive(jobs, b)
        BY <1>5, <2>1, NotTaken DEF Rerun
    <2> QED BY <1>5, <2>1, <2>2 DEF Rerun, IsLive, TypeOK
<1>6. ASSUME RerunFailed
      PROVE  ~IsLive(jobs', b)
    <2>1. a \in RerunCandidates
        BY <1>2, <1>6 DEF RerunFailed
    <2>2. ~IsLive(jobs, b)
        BY <2>1, KindIds DEF RerunCandidates, Live, IsLive, SameKind
    <2>3. b \notin RerunCandidates
        <3>1. a.nth \in Nat /\ b.nth \in Nat /\ a.nth # b.nth
            BY KindIds, KindsAssumption
        <3>2. SameKind(b, a)
            BY DEF SameKind
        <3>3. a = [b EXCEPT !.nth = a.nth] /\ b = [a EXCEPT !.nth = b.nth]
            BY <3>2, KindIds
        <3> QED BY <2>1, <3>1, <3>3, KindIds DEF RerunCandidates
    <2> QED BY <1>6, <2>2, <2>3 DEF RerunFailed, IsLive
<1>7. ASSUME NEW w \in Workers, Poll(w) \/ Heartbeat(w) \/ Fail(w) \/ CancelAck(w)
      PROVE  FALSE
    <2>1. ASSUME NEW id \in JobIds, Swept[id] = NewJob
          PROVE  jobs[id].state = "pending"
        BY <2>1, SweptCases, NewJobFields
    <2>2. CASE ClaimNothing(w)
        BY <1>1, <2>1, <2>2 DEF ClaimNothing, Queued
    <2>3. CASE Claim(w)
        <3>1. PICK id \in JobIds : jobs' = [Swept EXCEPT ![id] = Started(Swept[id], w)]
            BY <2>3 DEF Claim, First, Claimable
        <3>2. CASE id # a
            BY <1>1, <2>1, <3>1, <3>2, SweptType DEF Queued
        <3>3. CASE id = a
            <4>1. jobs'[a].state = "running"
                BY <3>1, <3>3, SweptType DEF Started, Job
            <4> QED BY <1>1, <4>1, NewJobFields DEF Queued
        <3> QED BY <3>2, <3>3
    <2>4. CASE Heartbeat(w)
        BY <1>1, <1>2, <2>4, NewJobFields DEF Heartbeat, Owns, Queued, TypeOK
    <2>5. CASE Fail(w) \/ CancelAck(w)
        BY <1>1, <1>2, <2>5, NewJobFields DEF Fail, CancelAck, Owns, Queued, TypeOK
    <2> QED BY <1>7, <2>2, <2>3, <2>4, <2>5 DEF Poll
<1>8. ASSUME NEW id \in JobIds, LeaseExpires(id) \/ BackoffElapses(id) \/ Cancel(id)
      PROVE  FALSE
    BY <1>1, <1>2, <1>8, NewJobFields DEF LeaseExpires, BackoffElapses, Cancel, Queued, TypeOK
<1>9. ASSUME UNCHANGED jobs
      PROVE  FALSE
    BY <1>2, <1>9
<1> QED
    BY <1>3, <1>4, <1>5, <1>6, <1>7, <1>8, <1>9
    DEF Next, Advance, Clock, Administration, OnStart, Stop, WorkEnds, WorkFails, Report,
        Unreachable, Crash, vars

LEMMA NextOneLive ==
    ASSUME TypeOK, RunShape, OneLivePerKind, [Next]_vars
    PROVE  OneLivePerKind'
<1>1. ASSUME NEW a \in JobIds, NEW b \in JobIds, SameKind(a, b), a # b,
             IsLive(jobs', a), IsLive(jobs', b)
      PROVE  FALSE
    <2>1. SameKind(b, a)
        BY <1>1 DEF SameKind
    <2>2. IsLive(jobs, a) /\ IsLive(jobs, b)
        BY <1>1, <2>1, BecomesLiveAlone
    <2> QED BY <1>1, <2>2, OneLiveByIds
<1>2. ASSUME NEW type \in Types, NEW work \in Works, NEW m \in Serials, NEW n \in Serials,
             IsLive(jobs', [type |-> type, work |-> work, nth |-> m]),
             IsLive(jobs', [type |-> type, work |-> work, nth |-> n])
      PROVE  m = n
    BY <1>1, <1>2 DEF SameKind, JobIds
<1> QED BY <1>2 DEF OneLivePerKind, IsLive

\* The bulk rerun never asks the unique index for two live jobs of one kind and
\* work, nor does any other step make them.
THEOREM One_Live_Per_Kind == Spec => []OneLivePerKind
<1>1. Init => OneLivePerKind
    BY DEF Init, OneLivePerKind, JobIds, NewJob
<1>2. TypeOK /\ RunShape /\ OneLivePerKind /\ [Next]_vars => (TypeOK /\ RunShape /\ OneLivePerKind)'
    BY NextTypes, NextShape, NextOneLive
<1> QED BY <1>1, <1>2, InitTypes, PTL DEF Spec
-----------------------------------------------------------------------------
(* READY means ingested.                                                   *)

SaysReady(w) == At(w, "reporting") /\ run[w].arg = "READY"

ReportsTrue ==
    \A w \in Workers : SaysReady(w) => Reports(w) /\ jobs[run[w].job].state = "succeeded"

LEMMA SucceededStays ==
    ASSUME TypeOK, RunShape, [Next]_vars, NEW id \in JobIds, jobs[id].state = "succeeded"
    PROVE  jobs'[id].state = "succeeded"
BY EveryJobSteps DEF JobStep, Kept, Queued, Withdrawn, Ended, StartedBy

LEMMA NextReports ==
    ASSUME TypeOK, RunShape, ReportsTrue, [Next]_vars
    PROVE  ReportsTrue'
<1> SUFFICES ASSUME NEW w \in Workers, SaysReady(w)'
             PROVE  Reports(w)' /\ jobs'[run'[w].job].state = "succeeded"
    BY DEF ReportsTrue
<1>1. run \in [Workers -> Runs]
    BY DEF RunShape
<1>2. ASSUME run'[w].pc = run[w].pc, run'[w].job = run[w].job, run'[w].arg = run[w].arg
      PROVE  Reports(w)' /\ jobs'[run'[w].job].state = "succeeded"
    <2>1. SaysReady(w) /\ run[w].job \in JobIds
        BY <1>2 DEF SaysReady, At, RunShape, Busy
    <2> QED BY <1>2, <2>1, SucceededStays DEF ReportsTrue, Reports
<1>3. ASSUME NEW v \in Workers, Complete(v)
      PROVE  Reports(w)' /\ jobs'[run'[w].job].state = "succeeded"
    <2>1. CASE v # w
        <3>1. run'[w] = run[w]
            BY <1>1, <1>3, <2>1 DEF Complete, ReportOrReturn, Goto, Return
        <3> QED BY <1>2, <3>1
    <2>2. CASE v = w
        <3> DEFINE mine == run[w].job
        <3>1. Owns(w) /\ Reports(w) /\ jobs' = Completed(mine) /\ Goto(w, "reporting", "READY")
            BY <1>1, <1>3, <2>2 DEF Complete, ReportOrReturn, Return, Idle, SaysReady, At
        <3>2. mine \in JobIds /\ run'[w].job = mine
            BY <1>1, <3>1 DEF Owns, TypeOK, Goto, Runs
        <3>3. Closed(jobs[mine], "succeeded", None).state = "succeeded"
            BY <3>2, ClosedFields, SomeTypes DEF TypeOK
        <3>4. Completed(mine)[mine].state = "succeeded"
            BY <3>2, <3>3 DEF Completed, Inserted, IsNextId, TypeOK
        <3> QED BY <3>1, <3>2, <3>4 DEF Reports
    <2> QED BY <2>1, <2>2
<1>4. ASSUME NEW v \in Workers,
             Claim(v) \/ OnStart(v) \/ Stop(v) \/ WorkEnds(v)
                \/ (\E kind \in ErrorKinds : WorkFails(v, kind)) \/ Fail(v) \/ CancelAck(v) \/ Report(v)
                \/ Unreachable(v)
      PROVE  Reports(w)' /\ jobs'[run'[w].job].state = "succeeded"
    <2>1. CASE v = w
        <3>1. CASE Claim(w)
            <4>1. \A id : BeginRun(w, id).pc # "reporting"
                BY DEF BeginRun, Idle
            <4>2. run'[w] = run[w]
                BY <1>1, <3>1, <4>1 DEF Claim, SaysReady, At
            <4> QED BY <1>2, <4>2
        <3>2. CASE Return(w)
            BY <1>1, <3>2 DEF Return, Idle, SaysReady, At
        <3>3. CASE \E pc, arg : Goto(w, pc, arg) /\ ~(pc = "reporting" /\ arg = "READY")
            BY <1>1, <3>3 DEF Goto, Runs, SaysReady, At
        <3> QED BY <1>4, <2>1, <3>1, <3>2, <3>3
            DEF OnStart, Stop, WorkEnds, WorkFails, Fail, CancelAck, Report, Unreachable, ReportOrReturn
    <2>2. CASE v # w
        <3>1. run'[w] = run[w]
            BY <1>1, <1>4, <2>2
            DEF Claim, OnStart, Stop, WorkEnds, WorkFails, Fail, CancelAck, Report, Unreachable,
                ReportOrReturn, Goto, Return
        <3> QED BY <1>2, <3>1
    <2> QED BY <2>1, <2>2
<1>5. ASSUME NEW v \in Workers, Heartbeat(v)
      PROVE  run'[w].pc = run[w].pc /\ run'[w].job = run[w].job /\ run'[w].arg = run[w].arg
    BY <1>1, <1>5 DEF Heartbeat, Runs
<1>6. ASSUME NEW p \in Processes, Crash(p)
      PROVE  run'[w] = run[w]
    BY <1>6 DEF Crash, SaysReady, At, Idle
<1>7. ASSUME UNCHANGED run
      PROVE  Reports(w)' /\ jobs'[run'[w].job].state = "succeeded"
    BY <1>2, <1>7
<1> QED
    BY <1>2, <1>3, <1>4, <1>5, <1>6, <1>7
    DEF Next, Poll, Advance, Clock, Administration, ClaimNothing, LeaseExpires, BackoffElapses,
        Enqueue, Cancel, Rerun, RerunFailed, vars

LEMMA NextReady ==
    ASSUME TypeOK, RunShape, ReportsTrue, ReadyMeansIngested, [Next]_vars
    PROVE  ReadyMeansIngested'
<1> SUFFICES ASSUME NEW work \in Works, media'[work] = "READY"
             PROVE  \E n \in Serials :
                        jobs'[[type |-> Ingest, work |-> work, nth |-> n]].state = "succeeded"
    BY DEF ReadyMeansIngested
<1>1. CASE media[work] = "READY"
    <2>1. PICK n \in Serials : jobs[[type |-> Ingest, work |-> work, nth |-> n]].state = "succeeded"
        BY <1>1 DEF ReadyMeansIngested
    <2>2. [type |-> Ingest, work |-> work, nth |-> n] \in JobIds
        BY KindsAssumption DEF JobIds
    <2> QED BY <2>1, <2>2, SucceededStays
<1>2. CASE media[work] # "READY"
    <2>1. PICK w \in Workers : Report(w) /\ run[w].job.work = work /\ run[w].arg = "READY"
        BY <1>2 DEF Next, Poll, Claim, ClaimNothing, Heartbeat, Advance, OnStart, Stop, WorkEnds,
            WorkFails, Complete, Fail, CancelAck, Report, Unreachable, Clock, LeaseExpires,
            BackoffElapses, Crash, Administration, Enqueue, Cancel, Rerun, RerunFailed, TypeOK, vars
    <2>2. Reports(w) /\ jobs[run[w].job].state = "succeeded" /\ run[w].job \in JobIds
        BY <2>1 DEF Report, ReportsTrue, SaysReady, RunShape, At, Busy
    <2>3. run[w].job = [type |-> Ingest, work |-> work, nth |-> run[w].job.nth]
          /\ run[w].job.nth \in Serials
        BY <2>1, <2>2 DEF Reports, JobIds
    <2> QED BY <2>2, <2>3, SucceededStays
<1> QED BY <1>1, <1>2

\* READY is only ever written for a work whose ingestion the queue accepted as
\* succeeded, although a crash, a takeover or a rerun may come between the two.
THEOREM Ready_Means_Ingested == Spec => []ReadyMeansIngested
<1> DEFINE I == TypeOK /\ RunShape /\ ReportsTrue /\ ReadyMeansIngested
<1>1. Init => I
    BY InitTypes DEF Init, ReportsTrue, SaysReady, At, Idle, ReadyMeansIngested
<1>2. I /\ [Next]_vars => I'
    BY NextTypes, NextShape, NextReports, NextReady
<1> QED BY <1>1, <1>2, PTL DEF Spec
-----------------------------------------------------------------------------
(* The follow-up jobs of an ingestion.                                     *)

LEMMA SmallestOf ==
    ASSUME NEW T, T \subseteq Nat, T # {}
    PROVE  \E x \in T : \A y \in T : ~(y < x)
<1> DEFINE R == OpToRel(<, Nat)
<1>1. IsWellFoundedOn(R, Nat)
    BY NatLessThanWellFounded
<1>2. \A x, y \in Nat : y < x => <<y, x>> \in R
    BY DEF OpToRel
<1> HIDE DEF R
<1>3. \E x \in T : \A y \in T : ~(<<y, x>> \in R)
    BY <1>1, WFMin
<1> QED BY <1>2, <1>3

\* With room for it, an insertion leaves every one of its kinds with a live job.
LEMMA InsertedFeeds ==
    ASSUME NEW table, NEW types, types \subseteq Types, NEW work \in Works, NEW type \in types,
           HasRoom(table, types, work)
    PROVE  Live(Inserted(table, types, work), type, work)
<1> DEFINE id(n) == [type |-> type, work |-> work, nth |-> n]
<1>1. \A n \in Serials : id(n) \in JobIds
    BY DEF JobIds
<1>2. CASE Taken(table, type, work)
    <2>1. PICK n \in Serials : table[id(n)].state \in {"pending", "running"}
        BY <1>2 DEF Taken, Live
    <2>2. Inserted(table, types, work)[id(n)] = table[id(n)]
        BY <1>1, <1>2 DEF Inserted
    <2> QED BY <2>1, <2>2 DEF Live
<1>3. CASE ~Taken(table, type, work)
    <2> DEFINE T == {n \in Serials : table[id(n)].state = "absent"}
    <2>1. T # {} /\ T \subseteq Nat
        BY <1>3, KindsAssumption DEF HasRoom
    <2>2. PICK n \in T : \A m \in T : ~(m < n)
        BY <2>1, SmallestOf
    <2>3. IsNextId(table, id(n))
        BY <2>2 DEF IsNextId
    <2>4. Inserted(table, types, work)[id(n)] = NewJob
        BY <1>1, <1>3, <2>2, <2>3 DEF Inserted
    <2> QED BY <2>2, <2>4, NewJobFields DEF Live
<1> QED BY <1>2, <1>3

\* An ingestion is about a work: it is never enqueued without one.
IngestionsHaveWorks ==
    \A id \in JobIds : id.type = Ingest /\ jobs[id].state # "absent" => id.work \in Works

LEMMA NextIngestions ==
    ASSUME TypeOK, RunShape, IngestionsHaveWorks, [Next]_vars
    PROVE  IngestionsHaveWorks'
<1> SUFFICES ASSUME NEW id \in JobIds, id.type = Ingest, jobs[id].state = "absent",
                    jobs'[id].state # "absent"
             PROVE  id.work \in Works
    BY DEF IngestionsHaveWorks
<1>1. jobs'[id] = NewJob /\ jobs'[id] # jobs[id]
    BY EveryJobSteps, NewJobFields DEF JobStep, Kept, Queued, Withdrawn, Ended, StartedBy
<1>2. ASSUME NEW type, NEW work, <<type, work>> \in Requests, Enqueue(type, work)
      PROVE  id.work \in Works
    <2>1. type = Ingest /\ work = id.work
        BY <1>1, <1>2 DEF Enqueue, Inserted
    <2> QED BY <1>2, <2>1, KindsAssumption
<1>3. ASSUME NEW w \in Workers, Complete(w)
      PROVE  FALSE
    <2> DEFINE mine == run[w].job
               done == [jobs EXCEPT ![mine] = Closed(@, "succeeded", None)]
    <2>1. jobs' = Completed(mine) /\ mine \in JobIds /\ jobs[mine].state = "running"
        BY <1>1, <1>3 DEF Complete, Owns, TypeOK
    <2>2. done[id] = jobs[id]
        BY <2>1 DEF TypeOK
    <2>3. jobs' = Inserted(done, FollowUps, mine.work)
        BY <1>1, <2>1, <2>2 DEF Completed
    <2>4. Inserted(done, FollowUps, mine.work)[id] = done[id]
        BY KindsAssumption DEF Inserted
    <2> QED BY <1>1, <2>2, <2>3, <2>4
<1>4. \A w \in Workers : Owns(w) => run[w].job # id
    BY DEF Owns
<1>5. ASSUME NEW w \in Workers, Heartbeat(w) \/ Fail(w) \/ CancelAck(w)
      PROVE  FALSE
    BY <1>1, <1>4, <1>5 DEF Heartbeat, Fail, CancelAck, TypeOK
<1>6. ASSUME NEW w \in Workers, Poll(w)
      PROVE  FALSE
    <2>1. Swept[id] = jobs[id]
        BY SweptCases
    <2>2. id \notin Claimable(w)
        BY <2>1 DEF Claimable, Abandoned
    <2> QED BY <1>1, <1>6, <2>1, <2>2, SweptType DEF Poll, Claim, ClaimNothing, First
<1>7. ASSUME NEW other \in JobIds,
             LeaseExpires(other) \/ BackoffElapses(other) \/ Cancel(other) \/ Rerun(other)
      PROVE  FALSE
    BY <1>1, <1>7 DEF LeaseExpires, BackoffElapses, Cancel, Rerun, TypeOK
<1>8. ~RerunFailed
    BY <1>1 DEF RerunFailed, RerunCandidates
<1> QED
    BY <1>1, <1>2, <1>3, <1>5, <1>6, <1>7, <1>8, KindsAssumption
    DEF Next, Advance, Clock, Administration, OnStart, Stop, WorkEnds, WorkFails, Report,
        Unreachable, Crash, vars
\* Only jobs_complete ends a job in success: every other step leaves it
\* otherwise, so a success is the success of a run that owns the job.
LEMMA SuccessIsCompletion ==
    ASSUME TypeOK, RunShape, [Next]_vars, NEW id \in JobIds,
           jobs[id].state # "succeeded", jobs'[id].state = "succeeded"
    PROVE  \E w \in Workers : Complete(w) /\ Owns(w) /\ run[w].job = id
<1>1. jobs[id].state = "running" /\ jobs'[id] # NewJob /\ ~Kept(id)
    BY EveryJobSteps, NewJobFields DEF JobStep, Kept, Queued, Withdrawn, Ended, StartedBy
<1>2. ASSUME NEW w \in Workers, Complete(w)
      PROVE  Owns(w) /\ run[w].job = id
    <2> DEFINE mine == run[w].job
               done == [jobs EXCEPT ![mine] = Closed(@, "succeeded", None)]
    <2>1. Owns(w) /\ jobs' = Completed(mine)
        BY <1>1, <1>2 DEF Complete
    <2>2. SUFFICES ASSUME mine # id PROVE FALSE
        BY <2>1
    <2>3. done[id] = jobs[id]
        BY <2>2 DEF TypeOK
    <2>4. jobs' = done \/ jobs' = Inserted(done, FollowUps, mine.work)
        BY <2>1 DEF Completed
    <2>5. jobs'[id] = done[id] \/ jobs'[id] = NewJob
        <3> HIDE DEF done
        <3> QED BY <2>4, InsertedCases
    <2> QED BY <1>1, <2>3, <2>5
<1>3. ASSUME NEW w \in Workers, Fail(w) \/ CancelAck(w)
      PROVE  FALSE
    <2> DEFINE mine == run[w].job
    <2>1. jobs[id] \in Job /\ jobs[id].kind \in ErrorKinds \cup {None}
        BY DEF TypeOK, Job
    <2>2. \A kind : /\ Closed(jobs[id], "failed", kind).state = "failed"
                   /\ Closed(jobs[id], "cancelled", kind).state = "cancelled"
                   /\ [Closed(jobs[id], "pending", kind) EXCEPT !.due = FALSE].state = "pending"
        BY <2>1 DEF Closed, Job
    <2>3. \/ jobs' = jobs
          \/ jobs' = [jobs EXCEPT ![mine] = Closed(jobs[mine], "failed", run[w].arg)]
          \/ jobs' = [jobs EXCEPT ![mine] =
                          [Closed(jobs[mine], "pending", "temporary") EXCEPT !.due = FALSE]]
          \/ jobs' = [jobs EXCEPT ![mine] = Closed(jobs[mine], "cancelled", jobs[mine].kind)]
        BY <1>3 DEF Fail, CancelAck
    <2>4. CASE mine = id
        BY <1>1, <2>2, <2>3, <2>4 DEF TypeOK
    <2>5. CASE mine # id
        BY <1>1, <2>3, <2>5 DEF TypeOK
    <2> QED BY <2>4, <2>5
<1>4. ASSUME NEW w \in Workers, Poll(w)
      PROVE  FALSE
    <2>1. Swept[id].state # "succeeded" /\ Swept[id] \in Job
        BY <1>1, SweptCases, SweptType
    <2>2. Started(Swept[id], w).state = "running"
        BY <2>1 DEF Started, Job
    <2>3. CASE ClaimNothing(w)
        BY <1>1, <2>1, <2>3 DEF ClaimNothing
    <2>4. CASE Claim(w)
        <3>1. PICK chosen \in JobIds : jobs' = [Swept EXCEPT ![chosen] = Started(Swept[chosen], w)]
            BY <2>4 DEF Claim, First, Claimable
        <3>2. jobs'[id] = Swept[id] \/ jobs'[id] = Started(Swept[id], w)
            BY <3>1, SweptType
        <3> QED BY <1>1, <2>1, <2>2, <3>2
    <2> QED BY <1>4, <2>3, <2>4 DEF Poll
<1>5. ASSUME NEW w \in Workers, Heartbeat(w)
      PROVE  FALSE
    BY <1>1, <1>5 DEF Heartbeat, TypeOK, Job
<1>6. ASSUME NEW other \in JobIds,
             LeaseExpires(other) \/ BackoffElapses(other) \/ Cancel(other) \/ Rerun(other)
      PROVE  FALSE
    BY <1>1, <1>6 DEF LeaseExpires, BackoffElapses, Cancel, Rerun, TypeOK, Job
<1>7. ASSUME NEW type, NEW work, Enqueue(type, work)
      PROVE  FALSE
    BY <1>1, <1>7, InsertedCases DEF Enqueue
<1>8. ~RerunFailed
    BY <1>1 DEF RerunFailed
<1> QED
    BY <1>1, <1>2, <1>3, <1>4, <1>5, <1>6, <1>7, <1>8
    DEF Next, Advance, Clock, Administration, OnStart, Stop, WorkEnds, WorkFails, Report,
        Unreachable, Crash, vars

LEMMA StepFeeds ==
    ASSUME TypeOK, RunShape, IngestionsHaveWorks, [Next]_vars, NEW id \in JobIds,
           id.type = Ingest, jobs[id].state # "succeeded", jobs'[id].state = "succeeded",
           NEW type \in FollowUps
    PROVE  Live(jobs', type, id.work)
<1>1. PICK w \in Workers : Complete(w) /\ Owns(w) /\ run[w].job = id
    BY SuccessIsCompletion
<1> DEFINE done == [jobs EXCEPT ![id] = Closed(@, "succeeded", None)]
<1>2. jobs' = Inserted(done, FollowUps, id.work) /\ HasRoom(jobs, FollowUps, id.work)
    BY <1>1 DEF Complete, Completed
<1>3. id.work \in Works
    BY <1>1 DEF IngestionsHaveWorks, Owns
<1>4. \A t \in FollowUps, n \in Serials :
          LET other == [type |-> t, work |-> id.work, nth |-> n]
          IN  other \in JobIds /\ done[other] = jobs[other]
    BY <1>3, KindsAssumption DEF JobIds, TypeOK
<1>5. HasRoom(done, FollowUps, id.work)
    <2> HIDE DEF done
    <2> QED BY <1>2, <1>4 DEF HasRoom, Taken, Live
<1> HIDE DEF done
<1> QED BY <1>2, <1>3, <1>5, InsertedFeeds, KindsAssumption

\* When an ingestion succeeds, every follow-up kind has a live job in the same
\* transaction, whoever completes it and whatever the table holds.
THEOREM Ingest_Feeds_Pipeline == Spec => IngestFeedsPipeline
<1> DEFINE I == TypeOK /\ RunShape /\ IngestionsHaveWorks
<1>1. Init => I
    BY InitTypes DEF Init, IngestionsHaveWorks, NewJob
<1>2. I /\ [Next]_vars => I'
    BY NextTypes, NextShape, NextIngestions
<1>3. I /\ [Next]_vars
      => \A id \in JobIds :
             /\ id.type = Ingest
             /\ jobs[id].state # "succeeded"
             /\ jobs'[id].state = "succeeded"
             => \A type \in FollowUps : Live(jobs', type, id.work)
    BY StepFeeds
<1> QED BY <1>1, <1>2, <1>3, PTL DEF Spec, IngestFeedsPipeline
=============================================================================
