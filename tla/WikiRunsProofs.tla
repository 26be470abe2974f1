-------------------------- MODULE WikiRunsProofs ---------------------------
(***************************************************************************)
(* Proofs about the safety of WikiRuns, for any series, works, workers,    *)
(* runs and faults.                                                        *)
(***************************************************************************)
EXTENDS WikiRuns, WellFoundedInduction, FiniteSetTheorems, TLAPS

-----------------------------------------------------------------------------
(* The operators on a run. *)

States == Live \cup Settled

LEMMA LeftIs ==
    ASSUME NEW run \in Run, NEW state \in States
    PROVE  /\ Left(run, state) \in Run
           /\ Left(run, state).state = state
           /\ Left(run, state).unit = run.unit
           /\ Left(run, state).owner = NoOwner
           /\ Left(run, state).cancel = run.cancel
BY DEF Left, Run, States

LEMMA ClaimedIs ==
    ASSUME NEW run \in Run, NEW w \in Workers
    PROVE  /\ ClaimedBy(run, w) \in Run
           /\ ClaimedBy(run, w).state = "running"
           /\ ClaimedBy(run, w).unit = run.unit
           /\ ClaimedBy(run, w).owner = w
           /\ ClaimedBy(run, w).cancel = run.cancel
BY DEF ClaimedBy, Run, Live

LEMMA NewIs ==
    ASSUME NEW u \in Units, NEW origin \in {"manual", "batch", "new_book"}
    PROVE  /\ NewRun(u, origin) \in Run
           /\ NewRun(u, origin).state = "queued"
           /\ NewRun(u, origin).unit = u
           /\ NewRun(u, origin).owner = NoOwner
BY DEF NewRun, Run, Live

LEMMA SmallestOf ==
    ASSUME NEW T, T \subseteq Nat, T # {}
    PROVE  \E x \in T : \A y \in T : ~(y < x)
<1> DEFINE R == OpToRel(<, Nat)
<1>1. IsWellFoundedOn(R, Nat)
    BY NatLessThanWellFounded
<1>2. \A x, y \in Nat : y < x => <<y, x>> \in R
    BY DEF OpToRel
<1> HIDE DEF R
<1>3. \E x \in T : \A y \in T : ~(<<y, x>> \in R)
    BY <1>1, WFMin
<1> QED BY <1>2, <1>3

LEMMA OldestIn ==
    ASSUME NEW S \in SUBSET Ids, S # {}
    PROVE  Oldest(S) \in S
<1>1. S \subseteq Nat
    BY RunsAssumption DEF Ids
<1>2. PICK r \in S : \A q \in S : ~(q < r)
    BY <1>1, SmallestOf
<1>3. \A q \in S : r <= q
    BY <1>1, <1>2
<1> QED BY <1>3 DEF Oldest

-----------------------------------------------------------------------------
(* The inductive invariant: the types, what the model says of them nowhere *)
(* else, and the three reasons why the properties hold.                    *)

Idling == {"idle", "tick", "asked"}
Busy == {"claimed", "started", "loaded", "going", "paused", "pausing", "cancelled", "cancelling", "lost", "bundled", "begun"}
Work == [pc : Idling \cup Busy, run : Ids \cup {0}, books : SUBSET Works, asked : BOOLEAN]
Importing == [pc : {"idle", "taken", "stored", "refused", "closed"}, run : Ids \cup {0}]

Shapes ==
    /\ runs \in [Ids -> Run \cup {NoRun}]
    /\ bundles \in [Ids -> (SUBSET Works) \cup {NoBundle}]
    /\ work \in [Workers -> Work] /\ \A w \in Workers : work[w].pc \in Busy => work[w].run # 0
    /\ imp \in Importing /\ (imp.pc # "idle" => imp.run # 0)

\* A bundle that is being closed as done is stored.
StoredFirst == imp.pc = "stored" => imp.run \in stored

\* What was asked of a run stays asked of it while the worker that took it holds it, ...
StaysAsked ==
    \A w \in Workers : work[w].run # 0 /\ work[w].asked /\ runs[work[w].run].owner = w => runs[work[w].run].cancel

\* ... so that it does not go on.
GoesOnUnasked == \A w \in Workers : work[w].pc = "going" => ~work[w].asked

IInv == TypeOK /\ Shapes /\ DoneMeansStored /\ StoredFirst /\ StaysAsked /\ GoesOnUnasked

\* The run of a worker, and of the importer, is a row.
LEMMA MineIs ==
    ASSUME IInv, NEW w \in Workers, work[w].run # 0
    PROVE  Mine(w) \in Ids /\ runs[Mine(w)] \in Run /\ Mine(w) \in Rows
BY DEF IInv, TypeOK, Shapes, Mine, Rows, Work

LEMMA ImportedIs ==
    ASSUME IInv, imp.pc # "idle"
    PROVE  imp.run \in Ids /\ runs[imp.run] \in Run /\ imp.run \in Rows
BY DEF IInv, TypeOK, Shapes, Rows, Importing

LEMMA RowIs ==
    ASSUME IInv, NEW r \in Rows
    PROVE  r \in Ids /\ runs[r] \in Run
BY DEF IInv, Shapes, Rows

-----------------------------------------------------------------------------
(* What a step does to the rows.  Most steps leave every row as it is,     *)
(* keep it in its state, or make it leave the state it is in; one claims a *)
(* run, and two begin some.                                                *)

Keeps(r) ==
    /\ runs[r] \in Run /\ runs'[r] \in Run
    /\ runs'[r].unit = runs[r].unit /\ runs'[r].state = runs[r].state
    /\ runs[r].cancel => runs'[r].cancel
    /\ runs'[r].owner # runs[r].owner => runs[r].state = "running" /\ runs'[r].owner \in {Importer, Gone}

Leaves(r) ==
    /\ runs[r] \in Run /\ runs'[r] \in Run
    /\ runs'[r].unit = runs[r].unit /\ runs'[r].owner = NoOwner
    /\ runs'[r].state # "running"
    /\ runs'[r].state = "done" => imp.pc = "stored" /\ imp.run = r
    /\ runs'[r].state \in Live /\ runs[r].state \notin Live =>
         LiveOf(runs[r].unit) \subseteq {r} /\ \A q \in Ids \ {r} : runs'[q] = runs[q]

Changes == \A r \in Ids : runs'[r] = runs[r] \/ Keeps(r) \/ Leaves(r)

IsClaimed(w, r) ==
    /\ runs[r] \in Run /\ In("running") = {}
    /\ runs[r].state = "queued"
    /\ runs' = [runs EXCEPT ![r] = ClaimedBy(runs[r], w)]
    /\ work' = [work EXCEPT ![w] = [pc |-> "claimed", run |-> r, books |-> {}, asked |-> runs[r].cancel]]

Claimed == \E w \in Workers, r \in Ids : IsClaimed(w, r)

Begun(N, unit) ==
    /\ \A r \in N : LiveOf(unit[r]) = {} /\ \E origin \in {"manual", "batch", "new_book"} : runs'[r] = NewRun(unit[r], origin)
    /\ \A q, r \in N : unit[q] = unit[r] => q = r
    /\ \A r \in Ids \ N : runs'[r] = runs[r]

Begins == \E N \in SUBSET Ids : \E unit \in [N -> Units] : Begun(N, unit)

LEMMA KeptIs ==
    ASSUME NEW run \in Run, NEW stage \in {"none", "pages", "import"}, NEW owner \in Workers \cup {Importer, Gone, NoOwner},
           NEW flag \in BOOLEAN
    PROVE  /\ [run EXCEPT !.stage = stage] \in Run
           /\ [run EXCEPT !.stage = stage, !.stale = FALSE] \in Run
           /\ [run EXCEPT !.owner = owner] \in Run
           /\ [run EXCEPT !.owner = owner, !.stale = FALSE] \in Run
           /\ [run EXCEPT !.stale = flag] \in Run
           /\ [run EXCEPT !.pause = flag] \in Run
           /\ [run EXCEPT !.cancel = flag] \in Run
BY DEF Run

LEMMA OneKept ==
    ASSUME IInv, NEW r \in Ids, runs[r] \in Run, NEW new \in Run, SetRun(r, new),
           new.unit = runs[r].unit, new.state = runs[r].state, runs[r].cancel => new.cancel,
           new.owner # runs[r].owner => runs[r].state = "running" /\ new.owner \in {Importer, Gone}
    PROVE  Changes
BY DEF Changes, Keeps, SetRun, IInv, Shapes

LEMMA OneLeft ==
    ASSUME IInv, NEW r \in Ids, runs[r] \in Run, NEW new \in Run, SetRun(r, new),
           new.unit = runs[r].unit, new.owner = NoOwner, new.state # "running",
           new.state = "done" => imp.pc = "stored" /\ imp.run = r,
           new.state \in Live /\ runs[r].state \notin Live => LiveOf(runs[r].unit) \subseteq {r}
    PROVE  Changes
BY DEF Changes, Leaves, SetRun, IInv, Shapes

LEMMA RunsRest ==
    ASSUME UNCHANGED runs
    PROVE  Changes
BY DEF Changes

\* A run leaves its state for one in which it is not running.
LEMMA LeftChanges ==
    ASSUME IInv, NEW r \in Ids, runs[r] \in Run, NEW state \in States \ {"running", "done"},
           SetRun(r, Left(runs[r], state)),
           state \in Live /\ runs[r].state \notin Live => LiveOf(runs[r].unit) \subseteq {r}
    PROVE  Changes
<1> DEFINE new == Left(runs[r], state)
<1>1. new \in Run /\ new.state = state /\ new.unit = runs[r].unit /\ new.owner = NoOwner
    BY LeftIs
<1>2. SetRun(r, new)
    OBVIOUS
<1> HIDE DEF new
<1> QED BY <1>1, <1>2, OneLeft

LEMMA FlushedIs ==
    ASSUME IInv, NEW w \in Workers, work[w].run # 0, NEW stage \in {"pages", "import"}
    PROVE  /\ Flushed(w, stage) \in Run
           /\ Flushed(w, stage).unit = runs[Mine(w)].unit
           /\ Flushed(w, stage).state = runs[Mine(w)].state
           /\ Flushed(w, stage).cancel = runs[Mine(w)].cancel
           /\ Flushed(w, stage).owner = runs[Mine(w)].owner
<1>1. runs[Mine(w)] \in Run
    BY MineIs
<1> DEFINE run == runs[Mine(w)]
           new == [run EXCEPT !.stage = stage]
<1>2. new \in Run /\ new.unit = run.unit /\ new.state = run.state /\ new.cancel = run.cancel /\ new.owner = run.owner
    BY <1>1 DEF Run
<1>3. Flushed(w, stage) \in {run, new}
    BY DEF Flushed
<1> QED BY <1>1, <1>2, <1>3

LEMMA FlushedChanges ==
    ASSUME IInv, NEW w \in Workers, work[w].run # 0, NEW stage \in {"pages", "import"}, SetRun(Mine(w), Flushed(w, stage))
    PROVE  Changes
BY FlushedIs, MineIs, OneKept

-----------------------------------------------------------------------------
(* The staff. *)

LEMMA StaffRuns ==
    ASSUME IInv, Staff
    PROVE  (Changes \/ Begins) /\ UNCHANGED <<work, imp, bundles, wiki, stored>>
<1>1. ASSUME NEW u \in Units, Enqueue(u)
      PROVE  Begins
    <2> DEFINE N == {NextId}
               unit == [r \in N |-> u]
    <2>1. N \in SUBSET Ids /\ unit \in [N -> Units]
        BY <1>1 DEF Enqueue
    <2>2. Begun(N, unit)
        BY <1>1 DEF Enqueue, Begun, IInv, Shapes
    <2> QED BY <2>1, <2>2 DEF Begins
<1>2. ASSUME EnqueueAll
      PROVE  Begins
    <2> DEFINE todo == {u \in Units : Eligible(u) /\ wiki[u] = {} /\ u \notin excluded /\ LiveOf(u) = {}}
               rows == Cardinality(Rows)
               n == Cardinality(todo)
    <2>1. PICK f \in [1..n -> todo] :
              /\ \A u \in todo : \E i \in DOMAIN f : f[i] = u
              /\ runs' = [r \in Ids |-> IF r - rows \in DOMAIN f THEN NewRun(f[r - rows], "batch") ELSE runs[r]]
        BY <1>2 DEF EnqueueAll
    <2>2. n \in Nat /\ IsFiniteSet(todo)
        <3>1. IsFiniteSet(Units)
            <4>1. IsFiniteSet(Loners)
                BY RunsAssumption, FS_Subset DEF Works
            <4> QED BY <4>1, FS_Singleton, FS_Union DEF Units
        <3> QED BY <3>1, FS_Subset, FS_CardinalityType
    <2>3. rows \in Nat
        <3>1. IsFiniteSet(Ids)
            BY RunsAssumption, FS_Interval DEF Ids
        <3> QED BY <3>1, FS_Subset, FS_CardinalityType DEF Rows
    <2>4. \A i, j \in 1..n : f[i] = f[j] => i = j
        <3>1. f \in Surjection(1..n, todo)
            BY <2>1 DEF Surjection
        <3>2. IsFiniteSet(1..n) /\ Cardinality(1..n) = n
            BY <2>2, FS_Interval
        <3>3. f \in Injection(1..n, todo)
            BY <3>1, <3>2, FS_SurjSameCardinalityImpliesInj
        <3> QED BY <3>3 DEF Injection, IsInjective
    <2> DEFINE N == {r \in Ids : r - rows \in 1..n}
               unit == [r \in N |-> f[r - rows]]
    <2>5. N \in SUBSET Ids /\ unit \in [N -> Units]
        BY <2>1
    <2>6. Begun(N, unit)
        <3>1. \A r \in N : LiveOf(unit[r]) = {} /\ runs'[r] = NewRun(unit[r], "batch")
            BY <2>1
        <3>2. ASSUME NEW q \in N, NEW r \in N, unit[q] = unit[r]
              PROVE  q = r
            <4>1. q \in Nat /\ r \in Nat
                BY RunsAssumption DEF Ids
            <4>2. q - rows = r - rows
                BY <2>4, <3>2
            <4> QED BY <2>3, <4>1, <4>2
        <3>3. \A r \in Ids \ N : runs'[r] = runs[r]
            BY <2>1
        <3> QED BY <3>1, <3>2, <3>3 DEF Begun
    <2> QED BY <2>5, <2>6 DEF Begins
<1>3. ASSUME NEW r \in Rows, Pause(r)
      PROVE  Changes
    <2>1. r \in Ids /\ runs[r] \in Run
        BY RowIs
    <2>2. CASE runs[r].state = "queued" /\ SetRun(r, Left(runs[r], "paused"))
        BY <2>1, <2>2, LeftChanges DEF States, Live, Settled
    <2>3. CASE runs[r].state = "running" /\ SetRun(r, [runs[r] EXCEPT !.pause = TRUE])
        <3>1. [runs[r] EXCEPT !.pause = TRUE] \in Run
            BY <2>1 DEF Run
        <3> QED BY <2>1, <2>3, <3>1, OneKept DEF Run
    <2> QED BY <1>3, <2>2, <2>3 DEF Pause
<1>4. ASSUME NEW r \in Rows, Resume(r)
      PROVE  Changes
    <2>1. r \in Ids /\ runs[r] \in Run
        BY RowIs
    <2> QED BY <1>4, <2>1, LeftChanges DEF Resume, States, Live, Settled
<1>5. ASSUME NEW r \in Rows, Cancel(r)
      PROVE  Changes
    <2>1. r \in Ids /\ runs[r] \in Run
        BY RowIs
    <2>2. CASE runs[r].state = "running" /\ SetRun(r, [runs[r] EXCEPT !.cancel = TRUE])
        <3>1. [runs[r] EXCEPT !.cancel = TRUE] \in Run
            BY <2>1 DEF Run
        <3> QED BY <2>1, <2>2, <3>1, OneKept DEF Run
    <2>3. CASE SetRun(r, [Left(runs[r], "cancelled") EXCEPT !.cancel = FALSE])
        <3> DEFINE left == Left(runs[r], "cancelled")
                   new == [left EXCEPT !.cancel = FALSE]
        <3>1. left \in Run /\ left.state = "cancelled" /\ left.unit = runs[r].unit /\ left.owner = NoOwner
            BY <2>1, LeftIs DEF States, Settled
        <3> HIDE DEF left
        <3>2. new \in Run /\ new.state = "cancelled" /\ new.unit = runs[r].unit /\ new.owner = NoOwner
            BY <3>1 DEF Run
        <3>3. SetRun(r, new)
            BY <2>3 DEF left
        <3> HIDE DEF new
        <3> QED BY <2>1, <3>2, <3>3, OneLeft DEF Live
    <2> QED BY <1>5, <2>2, <2>3 DEF Cancel
<1>6. CASE (\E u \in Units : SetExcluded(u)) \/ SetProvider
    BY <1>6, RunsRest DEF SetExcluded, SetProvider
<1>7. UNCHANGED <<work, imp, bundles, wiki, stored>>
    BY DEF Staff, Enqueue, EnqueueAll, Pause, Resume, Cancel, SetExcluded, SetProvider
<1> QED BY <1>1, <1>2, <1>3, <1>4, <1>5, <1>6, <1>7 DEF Staff
-----------------------------------------------------------------------------
(* The workers.  A step leaves what a worker knows of its run, ends it, or *)
(* takes a run up; one goes on only on a run that is its own and that      *)
(* nobody asked to cancel.                                                 *)

WorkShape == work \in [Workers -> Work] /\ \A w \in Workers : work[w].pc \in Busy => work[w].run # 0

GoesOn(w) == work[w].pc = "going" \/ (runs[work[w].run].owner = w /\ ~runs[work[w].run].cancel)

Remains(w) ==
    /\ work'[w].run = work[w].run /\ work'[w].asked = work[w].asked
    /\ work'[w].pc = "going" => work[w].run # 0 /\ GoesOn(w)

Ends(w) == work'[w].run = 0 /\ work'[w].pc # "going"

WorkStep ==
    /\ WorkShape'
    /\ \A w \in Workers : Remains(w) \/ Ends(w) \/ \E r \in Ids : IsClaimed(w, r)

RunsStep == Changes \/ Claimed \/ Begins

LEMMA WorkRests ==
    ASSUME IInv, UNCHANGED work
    PROVE  WorkStep
BY DEF WorkStep, WorkShape, Remains, IInv, Shapes, GoesOn, Busy

LEMMA WorkMoves ==
    ASSUME IInv, NEW w \in Workers, NEW pc \in Idling \cup Busy, pc \in Busy => work[w].run # 0,
           pc = "going" => GoesOn(w), SetWork(w, [work[w] EXCEPT !.pc = pc])
    PROVE  WorkStep
<1> DEFINE new == [work[w] EXCEPT !.pc = pc]
<1>1. new \in Work /\ new.pc = pc /\ new.run = work[w].run /\ new.asked = work[w].asked
    BY DEF IInv, Shapes, Work
<1>2. work' = [work EXCEPT ![w] = new]
    BY DEF SetWork
<1> HIDE DEF new
<1>3. WorkShape'
    BY <1>1, <1>2 DEF WorkShape, IInv, Shapes
<1>4. Remains(w)
    BY <1>1, <1>2 DEF Remains, IInv, Shapes, Busy
<1>5. ASSUME NEW v \in Workers, v # w
      PROVE  Remains(v)
    BY <1>2, <1>5 DEF Remains, IInv, Shapes, GoesOn, Busy
<1> QED BY <1>3, <1>4, <1>5 DEF WorkStep

LEMMA WorkEnds ==
    ASSUME IInv, NEW w \in Workers, SetWork(w, Idle)
    PROVE  WorkStep
<1>1. Idle \in Work /\ Idle.run = 0 /\ Idle.pc = "idle"
    BY DEF Idle, Work, Idling
<1>2. WorkShape'
    BY <1>1 DEF WorkShape, IInv, Shapes, SetWork, Busy
<1>3. Ends(w)
    BY <1>1 DEF Ends, IInv, Shapes, SetWork
<1>4. ASSUME NEW v \in Workers, v # w
      PROVE  Remains(v)
    BY <1>4 DEF Remains, IInv, Shapes, GoesOn, SetWork, Busy
<1> QED BY <1>2, <1>3, <1>4 DEF WorkStep

LEMMA BusyHas ==
    ASSUME IInv, NEW w \in Workers, work[w].pc \in Busy
    PROVE  work[w].run # 0 /\ Mine(w) \in Ids /\ runs[Mine(w)] \in Run /\ Mine(w) \in Rows
BY MineIs DEF IInv, Shapes

LEMMA FailedChanges ==
    ASSUME IInv, NEW r \in Ids, runs[r] \in Run, Failed(r)
    PROVE  Changes
BY LeftChanges DEF Failed, States, Live, Settled

LEMMA ClaimStep ==
    ASSUME IInv, NEW w \in Workers, Claims(w)
    PROVE  RunsStep /\ WorkStep
<1>1. CASE provider /\ In("queued") # {} /\ In("running") = {}
    <2> DEFINE r == Oldest(In("queued"))
               new == [pc |-> "claimed", run |-> r, books |-> {}, asked |-> runs[r].cancel]
    <2>1. r \in In("queued")
        BY <1>1, OldestIn DEF In, Rows
    <2>2. r \in Ids /\ runs[r] \in Run /\ runs[r].state = "queued"
        BY <2>1, RowIs DEF In, Rows
    <2>3. IsClaimed(w, r)
        BY <1>1, <2>2 DEF Claims, IsClaimed, SetRun, SetWork
    <2>4. new \in Work /\ new.run # 0 /\ work' = [work EXCEPT ![w] = new]
        BY <2>2, <2>3, RunsAssumption DEF Work, Busy, Run, Ids, IsClaimed
    <2> HIDE DEF r, new
    <2>5. WorkShape'
        BY <2>4 DEF WorkShape, IInv, Shapes
    <2>6. ASSUME NEW v \in Workers, v # w
          PROVE  Remains(v)
        BY <2>4, <2>6 DEF Remains, IInv, Shapes, GoesOn, Busy
    <2> QED BY <2>2, <2>3, <2>5, <2>6 DEF WorkStep, RunsStep, Claimed
<1>2. CASE ~(provider /\ In("queued") # {} /\ In("running") = {})
    BY <1>2, RunsRest, WorkEnds DEF Claims, RunsStep
<1> QED BY <1>1, <1>2

LEMMA ExecuteStep ==
    ASSUME IInv, NEW w \in Workers, Execute(w)
    PROVE  RunsStep /\ WorkStep
<1>1. CASE Starts(w)
    <2>1. work[w].run # 0 /\ Mine(w) \in Ids /\ runs[Mine(w)] \in Run
        BY <1>1, BusyHas DEF Starts, At, Busy
    <2>2. CASE provider
        BY <1>1, <2>1, <2>2, RunsRest, WorkMoves DEF Starts, RunsStep, Busy
    <2>3. CASE ~provider
        <3>1. SetWork(w, Idle)
            BY <1>1, <2>3 DEF Starts
        <3>2. CASE LiveOf(runs[Mine(w)].unit) \subseteq {Mine(w)}
            <4>1. SetRun(Mine(w), Left(runs[Mine(w)], "queued"))
                BY <1>1, <2>3, <3>2 DEF Starts
            <4> QED BY <2>1, <3>1, <3>2, <4>1, WorkEnds, LeftChanges DEF RunsStep, States, Live
        <3>3. CASE ~(LiveOf(runs[Mine(w)].unit) \subseteq {Mine(w)})
            BY <1>1, <2>1, <2>3, <3>1, <3>3, WorkEnds, FailedChanges DEF Starts, RunsStep
        <3> QED BY <3>2, <3>3
    <2> QED BY <2>2, <2>3
<1>2. CASE Loads(w)
    <2>1. work[w].run # 0 /\ Mine(w) \in Ids /\ runs[Mine(w)] \in Run
        BY <1>2, BusyHas DEF Loads, At, Busy
    <2> DEFINE books == readable \cap Books(runs[Mine(w)].unit)
    <2>2. CASE books = {}
        BY <1>2, <2>1, <2>2, FailedChanges, WorkEnds DEF Loads, RunsStep
    <2>3. CASE books # {}
        <3> DEFINE new == [work[w] EXCEPT !.pc = "loaded", !.books = books]
        <3>1. work' = [work EXCEPT ![w] = new] /\ SetRun(Mine(w), Flushed(w, "pages"))
            BY <1>2, <2>3 DEF Loads, SetWork
        <3>2. books \in SUBSET Works
            BY DEF IInv, TypeOK
        <3>3. new \in Work /\ new.pc = "loaded" /\ new.run = work[w].run /\ new.asked = work[w].asked
            BY <3>2 DEF IInv, Shapes, Work, Busy
        <3> HIDE DEF new
        <3>4. WorkShape'
            BY <2>1, <3>1, <3>3 DEF WorkShape, IInv, Shapes
        <3>5. Remains(w)
            BY <3>1, <3>3 DEF Remains, IInv, Shapes
        <3>6. ASSUME NEW v \in Workers, v # w
              PROVE  Remains(v)
            BY <3>1, <3>6 DEF Remains, IInv, Shapes, GoesOn, Busy
        <3> QED BY <2>1, <3>1, <3>4, <3>5, <3>6, FlushedChanges DEF WorkStep, RunsStep
    <2> QED BY <2>2, <2>3
<1>3. CASE Checks(w)
    <2>1. work[w].run # 0
        BY <1>3, BusyHas DEF Checks, Busy
    <2> DEFINE run == runs[Mine(w)]
               lost == run.state # "running" \/ run.owner # w
               pc == IF lost THEN "lost" ELSE IF run.cancel THEN "cancelled" ELSE IF run.pause THEN "paused" ELSE "going"
    <2>2. pc \in Busy /\ (pc = "going" => GoesOn(w))
        BY DEF Busy, GoesOn, Mine
    <2>3. SetWork(w, [work[w] EXCEPT !.pc = pc]) /\ UNCHANGED runs
        BY <1>3 DEF Checks
    <2> HIDE DEF pc
    <2> QED BY <2>1, <2>2, <2>3, RunsRest, WorkMoves DEF RunsStep
<1>4. CASE Says(w)
    <2>1. work[w].run # 0
        BY <1>4, BusyHas DEF Says, Moves, At, Busy
    <2>2. CASE Moves(w, "paused", "pausing") \/ Moves(w, "cancelled", "cancelling")
        <3>1. PICK pc \in {"pausing", "cancelling"} : SetWork(w, [work[w] EXCEPT !.pc = pc])
            BY <2>2 DEF Moves
        <3>2. pc \in Busy /\ pc # "going"
            BY DEF Busy
        <3>3. SetRun(Mine(w), Flushed(w, "pages"))
            BY <1>4 DEF Says
        <3> QED BY <2>1, <3>1, <3>2, <3>3, FlushedChanges, WorkMoves DEF RunsStep
    <2>3. CASE At(w, "lost") /\ SetWork(w, Idle)
        BY <1>4, <2>1, <2>3, FlushedChanges, WorkEnds DEF Says, RunsStep
    <2> QED BY <1>4, <2>2, <2>3 DEF Says
<1>5. CASE Stops(w)
    <2>1. work[w].run # 0 /\ Mine(w) \in Ids /\ runs[Mine(w)] \in Run
        BY <1>5, BusyHas DEF Stops, Busy
    <2>2. CASE runs[Mine(w)].owner # w
        BY <1>5, <2>2, RunsRest, WorkEnds DEF Stops, RunsStep
    <2>3. CASE runs[Mine(w)].owner = w
        <3>1. PICK state \in {"paused", "cancelled"} : SetRun(Mine(w), Left(runs[Mine(w)], state)) /\ SetWork(w, Idle)
            BY <1>5, <2>3 DEF Stops
        <3>2. runs[Mine(w)].state = "running"
            BY <2>1, <2>3, MineIs, RunsAssumption DEF IInv, TypeOK
        <3>3. state \in States \ {"running", "done"} /\ runs[Mine(w)].state \in Live
            BY <3>2 DEF States, Live, Settled
        <3> QED BY <2>1, <3>1, <3>3, LeftChanges, WorkEnds DEF RunsStep
    <2> QED BY <2>2, <2>3
<1>6. CASE Bundles(w)
    <2>1. work[w].run # 0
        BY <1>6, BusyHas DEF Bundles, Moves, At, Busy
    <2> QED BY <1>6, <2>1, RunsRest, WorkMoves DEF Bundles, Moves, RunsStep, Busy
<1>7. CASE BeginsImport(w)
    <2>1. work[w].run # 0
        BY <1>7, BusyHas DEF BeginsImport, Moves, At, Busy
    <2> QED BY <1>7, <2>1, FlushedChanges, WorkMoves DEF BeginsImport, Moves, RunsStep, Busy
<1>8. CASE HandsOver(w)
    <2>1. work[w].run # 0 /\ Mine(w) \in Ids /\ runs[Mine(w)] \in Run
        BY <1>8, BusyHas DEF HandsOver, At, Busy
    <2> DEFINE new == [runs[Mine(w)] EXCEPT !.stage = "import", !.stale = FALSE]
    <2>2. /\ new \in Run /\ new.unit = runs[Mine(w)].unit /\ new.state = runs[Mine(w)].state
          /\ new.cancel = runs[Mine(w)].cancel /\ new.owner = runs[Mine(w)].owner
        BY <2>1 DEF Run
    <2>3. SetRun(Mine(w), new) /\ SetWork(w, Idle)
        BY <1>8 DEF HandsOver
    <2> HIDE DEF new
    <2> QED BY <2>1, <2>2, <2>3, OneKept, WorkEnds DEF RunsStep
<1> QED BY <1>1, <1>2, <1>3, <1>4, <1>5, <1>6, <1>7, <1>8 DEF Execute

LEMMA WorkerStep ==
    ASSUME IInv, NEW w \in Workers, Worker(w)
    PROVE  RunsStep /\ WorkStep
<1>1. CASE TakesUp(w)
    <2>1. WorkStep
        <3>1. "tick" \in Idling /\ "tick" \notin Busy /\ "tick" # "going"
            BY DEF Idling, Busy
        <3>2. SetWork(w, [work[w] EXCEPT !.pc = "tick"])
            BY <1>1 DEF TakesUp, Moves
        <3> QED BY <3>1, <3>2, WorkMoves
    <2> DEFINE left == {r \in In("running") : runs[r].stage # "import" /\ runs[r].stale}
    <2>2. runs' = [r \in Ids |-> IF r \in left THEN Left(runs[r], "queued") ELSE runs[r]]
        BY <1>1 DEF TakesUp
    <2>3. ASSUME NEW r \in left
          PROVE  Leaves(r)
        <3>1. r \in Ids /\ runs[r] \in Run /\ runs[r].state = "running"
            BY RowIs DEF In, Rows
        <3>2. runs'[r] = Left(runs[r], "queued")
            BY <2>2, <3>1
        <3> QED BY <3>1, <3>2, LeftIs DEF Leaves, States, Live
    <2>4. \A r \in Ids \ left : runs'[r] = runs[r]
        BY <2>2
    <2>5. Changes
        BY <2>3, <2>4 DEF Changes
    <2> QED BY <2>1, <2>5 DEF RunsStep
<1>2. CASE EnqueueNewBooks(w)
    <2>1. WorkStep
        <3>1. "asked" \in Idling /\ "asked" \notin Busy /\ "asked" # "going"
            BY DEF Idling, Busy
        <3>2. SetWork(w, [work[w] EXCEPT !.pc = "asked"])
            BY <1>2 DEF EnqueueNewBooks, Moves
        <3> QED BY <3>1, <3>2, WorkMoves
    <2>2. CASE UNCHANGED runs
        BY <2>1, <2>2, RunsRest DEF RunsStep
    <2>3. CASE LiveOf(Series) = {} /\ NextId \in Ids /\ runs' = [runs EXCEPT ![NextId] = NewRun(Series, "new_book")]
        <3> DEFINE N == {NextId}
                   unit == [r \in N |-> Series]
        <3>1. N \in SUBSET Ids /\ unit \in [N -> Units]
            BY <2>3 DEF Units
        <3>2. Begun(N, unit)
            BY <2>3 DEF Begun, IInv, Shapes
        <3> QED BY <2>1, <3>1, <3>2 DEF Begins, RunsStep
    <2> QED BY <1>2, <2>2, <2>3 DEF EnqueueNewBooks
<1>3. CASE Claims(w)
    BY <1>3, ClaimStep
<1>4. CASE Execute(w)
    BY <1>4, ExecuteStep
<1>5. CASE Flushes(w)
    <2>1. work[w].run # 0
        BY <1>5, BusyHas DEF Flushes, Busy
    <2> QED BY <1>5, <2>1, FlushedChanges, WorkRests DEF Flushes, RunsStep
<1>6. CASE GivesUp(w)
    <2>1. work[w].run # 0
        BY <1>6, BusyHas DEF GivesUp, Moves, At, Busy
    <2> QED BY <1>6, <2>1, RunsRest, WorkMoves DEF GivesUp, Moves, RunsStep, Busy
<1>7. CASE Fails(w)
    BY <1>7, BusyHas, FailedChanges, WorkEnds DEF Fails, RunsStep, Busy
<1>8. CASE Beats(w)
    <2> DEFINE new == [runs[Mine(w)] EXCEPT !.stale = FALSE]
    <2>1. Mine(w) \in Ids /\ runs[Mine(w)] \in Run
        BY <1>8, MineIs DEF Beats
    <2>2. /\ new \in Run /\ new.unit = runs[Mine(w)].unit /\ new.state = runs[Mine(w)].state
          /\ new.cancel = runs[Mine(w)].cancel /\ new.owner = runs[Mine(w)].owner
        BY <2>1 DEF Run
    <2>3. SetRun(Mine(w), new) /\ UNCHANGED work
        BY <1>8 DEF Beats
    <2> HIDE DEF new
    <2> QED BY <2>1, <2>2, <2>3, OneKept, WorkRests DEF RunsStep
<1> QED BY <1>1, <1>2, <1>3, <1>4, <1>5, <1>6, <1>7, <1>8 DEF Worker
-----------------------------------------------------------------------------
(* The importer. *)

ImportShape ==
    /\ imp \in Importing /\ (imp.pc # "idle" => imp.run \in Rows)
    /\ imp.run \in Rows \cup {0}

LEMMA ImportRuns ==
    ASSUME IInv, Import
    PROVE  RunsStep /\ WorkStep
<1>0. UNCHANGED work
    BY DEF Import, Takes, Imports, Closes, DropsBundle
<1>1. CASE Takes
    <2> DEFINE r == Oldest(Waiting)
               new == [runs[r] EXCEPT !.owner = Importer, !.stale = FALSE]
    <2>1. r \in Waiting
        BY <1>1, OldestIn DEF Takes, Waiting, InHandOver, In, Rows
    <2>2. r \in Ids /\ runs[r] \in Run /\ runs[r].state = "running"
        BY <2>1, RowIs DEF Waiting, InHandOver, In, Rows
    <2>3. SetRun(r, new)
        BY <1>1 DEF Takes
    <2> HIDE DEF r
    <2>4. /\ new \in Run /\ new.unit = runs[r].unit /\ new.state = runs[r].state
          /\ new.cancel = runs[r].cancel /\ new.owner = Importer
        BY <2>2 DEF Run
    <2> HIDE DEF new
    <2> QED BY <1>0, <2>2, <2>3, <2>4, OneKept, WorkRests DEF RunsStep
<1>2. CASE Imports \/ DropsBundle
    BY <1>0, <1>2, RunsRest, WorkRests DEF Imports, DropsBundle, RunsStep
<1>3. CASE Closes
    <2> DEFINE r == imp.run
               new == Left(runs[r], Outcome)
    <2>1. r \in Ids /\ runs[r] \in Run
        BY <1>3, ImportedIs DEF Closes
    <2>2. Outcome \in {"done", "failed"} /\ (Outcome = "done" => imp.pc = "stored")
        BY DEF Outcome
    <2>3. new \in Run /\ new.state = Outcome /\ new.unit = runs[r].unit /\ new.owner = NoOwner
        BY <2>1, <2>2, LeftIs DEF States, Settled
    <2>4. SetRun(r, new)
        BY <1>3 DEF Closes
    <2> HIDE DEF new
    <2>5. Changes
        BY <2>1, <2>2, <2>3, <2>4, OneLeft DEF Live
    <2> QED BY <1>0, <2>5, WorkRests DEF RunsStep
<1> QED BY <1>1, <1>2, <1>3 DEF Import

-----------------------------------------------------------------------------
(* Time and deaths. *)

LEMMA TimeStep ==
    ASSUME IInv, NEW r \in Rows, Lapses(r) \/ Stalls(r)
    PROVE  RunsStep /\ WorkStep
<1> DEFINE new == [runs[r] EXCEPT !.stale = TRUE]
<1>1. r \in Ids /\ runs[r] \in Run
    BY RowIs
<1>2. /\ new \in Run /\ new.unit = runs[r].unit /\ new.state = runs[r].state
      /\ new.cancel = runs[r].cancel /\ new.owner = runs[r].owner
    BY <1>1 DEF Run
<1>3. SetRun(r, new) /\ UNCHANGED work
    BY DEF Lapses, Stalls
<1> HIDE DEF new
<1> QED BY <1>1, <1>2, <1>3, OneKept, WorkRests DEF RunsStep

LEMMA DeathStep ==
    ASSUME IInv, NEW w \in Workers, WorkerDies(w)
    PROVE  RunsStep /\ WorkStep
<1>1. WorkStep
    BY WorkEnds DEF WorkerDies
<1>2. ASSUME NEW r \in Ids
      PROVE  runs'[r] = runs[r] \/ Keeps(r)
    <2>1. CASE r \in Rows /\ runs[r].owner = w
        <3>1. runs[r] \in Run /\ runs[r].state = "running"
            <4>1. w # NoOwner
                BY RunsAssumption
            <4> QED BY <2>1, <4>1, RowIs DEF IInv, TypeOK
        <3>2. runs'[r] = [runs[r] EXCEPT !.owner = Gone]
            BY <2>1 DEF WorkerDies
        <3> QED BY <3>1, <3>2 DEF Keeps, Run
    <2>2. CASE ~(r \in Rows /\ runs[r].owner = w)
        BY <2>2 DEF WorkerDies
    <2> QED BY <2>1, <2>2
<1> QED BY <1>1, <1>2 DEF Changes, RunsStep

LEMMA NextStep ==
    ASSUME IInv, [Next]_vars
    PROVE  RunsStep /\ WorkStep
<1>1. CASE UNCHANGED vars
    BY <1>1, RunsRest, WorkRests DEF vars, RunsStep
<1>2. CASE Staff
    BY <1>2, StaffRuns, WorkRests DEF RunsStep
<1>3. CASE Import
    BY <1>3, ImportRuns
<1>4. CASE BackendDies \/ \E b \in Works : TextIsReady(b)
    BY <1>4, RunsRest, WorkRests DEF BackendDies, TextIsReady, RunsStep
<1>5. CASE \E w \in Workers : Worker(w) \/ WorkerDies(w)
    BY <1>5, WorkerStep, DeathStep
<1>6. CASE \E r \in Rows : Lapses(r) \/ Stalls(r)
    BY <1>6, TimeStep
<1> QED BY <1>1, <1>2, <1>3, <1>4, <1>5, <1>6 DEF Next

-----------------------------------------------------------------------------
(* What the three kinds of steps keep of the rows. *)

RunsTyped == runs \in [Ids -> Run \cup {NoRun}]
OneRuns == \A q, r \in In("running") : q = r
OneLives == \A u \in Units : \A q, r \in LiveOf(u) : q = r
OnlyRunnersHeld == \A r \in Rows : runs[r].owner # NoOwner => runs[r].state = "running"

LEMMA ChangesKeep ==
    ASSUME IInv, RunsStep, RunsTyped'
    PROVE  Rows \subseteq Rows'
<1> SUFFICES ASSUME NEW r \in Rows
             PROVE  runs'[r] # NoRun
    BY DEF Rows
<1>1. r \in Ids /\ runs[r] \in Run
    BY RowIs
<1>2. CASE Changes
    <2>1. runs'[r] = runs[r] \/ runs'[r] \in Run
        BY <1>1, <1>2 DEF Changes, Keeps, Leaves
    <2> QED BY <1>1, <2>1, NoRunAssumption
<1>3. CASE Claimed
    <2> PICK w \in Workers, q \in Ids : IsClaimed(w, q)
        BY <1>3 DEF Claimed
    <2>1. ClaimedBy(runs[q], w) \in Run
        BY ClaimedIs DEF IsClaimed
    <2>2. runs'[r] = runs[r] \/ runs'[r] \in Run
        BY <1>1, <2>1 DEF IsClaimed, IInv, Shapes
    <2> QED BY <1>1, <2>2, NoRunAssumption
<1>4. CASE Begins
    <2> PICK N \in SUBSET Ids : \E unit \in [N -> Units] : Begun(N, unit)
        BY <1>4 DEF Begins
    <2> PICK unit \in [N -> Units] : Begun(N, unit)
        OBVIOUS
    <2>1. runs'[r] = runs[r] \/ runs'[r] \in Run
        BY <1>1, NewIs DEF Begun
    <2> QED BY <1>1, <2>1, NoRunAssumption
<1> QED BY <1>2, <1>3, <1>4 DEF RunsStep
LEMMA SetRunIs ==
    ASSUME IInv, NEW r, NEW new, SetRun(r, new)
    PROVE  runs' = [q \in Ids |-> runs'[q]]
BY DEF SetRun, IInv, Shapes

LEMMA RunsAreRows ==
    ASSUME IInv, [Next]_vars
    PROVE  runs' = [q \in Ids |-> runs'[q]]
<1>1. CASE UNCHANGED runs
    BY <1>1 DEF IInv, Shapes
<1>2. CASE Staff
    <2>1. CASE EnqueueAll
        BY <2>1 DEF EnqueueAll
    <2>2. CASE ~EnqueueAll
        <3>1. \/ UNCHANGED runs \/ runs' = [runs EXCEPT ![NextId] = runs'[NextId]]
              \/ \E r, new : SetRun(r, new)
            <4>1. ASSUME NEW u \in Units, Enqueue(u)
                  PROVE  runs' = [runs EXCEPT ![NextId] = runs'[NextId]]
                BY <4>1 DEF Enqueue, IInv, Shapes
            <4>2. ASSUME NEW r \in Rows, Pause(r) \/ Resume(r) \/ Cancel(r)
                  PROVE  \E new : SetRun(r, new)
                BY <4>2 DEF Pause, Resume, Cancel
            <4>3. ASSUME NEW u \in Units, SetExcluded(u) \/ SetProvider
                  PROVE  UNCHANGED runs
                BY <4>3 DEF SetExcluded, SetProvider
            <4>4. CASE SetProvider
                BY <4>4 DEF SetProvider
            <4> QED BY <1>2, <2>2, <4>1, <4>2, <4>3, <4>4 DEF Staff
        <3> QED BY <1>1, <3>1, SetRunIs DEF IInv, Shapes
    <2> QED BY <2>1, <2>2
<1>3. CASE Import
    BY <1>1, <1>3, SetRunIs DEF Import, Takes, Imports, Closes, DropsBundle
<1>4. CASE BackendDies \/ \E b \in Works : TextIsReady(b)
    BY <1>1, <1>4 DEF BackendDies, TextIsReady
<1>5. ASSUME NEW w \in Workers, Worker(w)
      PROVE  runs' = [q \in Ids |-> runs'[q]]
    <2>1. CASE TakesUp(w)
        BY <2>1 DEF TakesUp
    <2>2. CASE EnqueueNewBooks(w)
        BY <1>1, <2>2 DEF EnqueueNewBooks, IInv, Shapes
    <2>3. CASE Claims(w) \/ Flushes(w) \/ GivesUp(w) \/ Fails(w) \/ Beats(w)
        BY <1>1, <2>3, SetRunIs DEF Claims, Flushes, GivesUp, Fails, Failed, Beats
    <2>4. CASE Execute(w)
        BY <1>1, <2>4, SetRunIs DEF Execute, Starts, Loads, Checks, Says, Stops, Bundles, BeginsImport, HandsOver, Failed
    <2> QED BY <1>5, <2>1, <2>2, <2>3, <2>4 DEF Worker
<1>6. CASE \E w \in Workers : WorkerDies(w)
    BY <1>6 DEF WorkerDies
<1>7. CASE \E r \in Rows : Lapses(r) \/ Stalls(r)
    BY <1>7, SetRunIs DEF Lapses, Stalls
<1>8. CASE UNCHANGED vars
    BY <1>1, <1>8 DEF vars
<1> QED BY <1>2, <1>3, <1>4, <1>5, <1>6, <1>7, <1>8 DEF Next

LEMMA RunsKept ==
    ASSUME IInv, RunsStep, runs' = [q \in Ids |-> runs'[q]]
    PROVE  /\ RunsTyped' /\ OneRuns' /\ OneLives' /\ OnlyRunnersHeld'
           /\ \A r \in In("done")' : r \in In("done") \/ (imp.pc = "stored" /\ r = imp.run)
<1>0. RunsTyped /\ OneRuns /\ OneLives /\ OnlyRunnersHeld
    BY DEF IInv, TypeOK, Shapes, RunsTyped, OneRuns, OneLives, OnlyRunnersHeld
<1>1. CASE Changes
    <2>1. RunsTyped'
        <3>1. \A r \in Ids : runs'[r] \in Run \cup {NoRun}
            BY <1>0, <1>1 DEF Changes, Keeps, Leaves, RunsTyped
        <3> QED BY <3>1 DEF RunsTyped
    <2>2. ASSUME NEW r \in Rows'
          PROVE  r \in Rows /\ runs[r] \in Run /\ (runs'[r] = runs[r] \/ Keeps(r) \/ Leaves(r))
        BY <1>0, <1>1, NoRunAssumption DEF Changes, Keeps, Leaves, RunsTyped, Rows
    <2>3. ASSUME NEW r \in Rows', runs'[r].state = "running"
          PROVE  r \in Rows /\ runs[r].state = "running"
        BY <2>2, <2>3 DEF Keeps, Leaves
    <2>4. OneRuns'
        BY <1>0, <2>3 DEF OneRuns, In
    <2>5. OnlyRunnersHeld'
        BY <1>0, <2>2 DEF OnlyRunnersHeld, Keeps, Leaves
    <2>6. ASSUME NEW r \in In("done")'
          PROVE  r \in In("done") \/ (imp.pc = "stored" /\ r = imp.run)
        BY <2>2, <2>6 DEF In, Keeps, Leaves
    <2>7. OneLives'
        <3> SUFFICES ASSUME NEW u \in Units, NEW q \in LiveOf(u)', NEW r \in LiveOf(u)', q # r
                     PROVE  FALSE
            BY DEF OneLives
        <3>1. q \in Rows /\ r \in Rows /\ q \in Ids /\ r \in Ids /\ runs[q].unit = u /\ runs[r].unit = u
            BY <2>2 DEF LiveOf, Rows, Keeps, Leaves
        <3>2. runs[q].state \notin Live \/ runs[r].state \notin Live
            BY <1>0, <3>1 DEF OneLives, LiveOf
        <3>3. ASSUME NEW x \in LiveOf(u)', NEW y \in LiveOf(u)', x # y, runs[x].state \notin Live,
                     x \in Rows, y \in Rows, runs[x].unit = u, runs[y].unit = u
              PROVE  FALSE
            <4>1. runs'[x].state \in Live /\ runs'[y].state \in Live /\ x \in Rows' /\ y \in Ids
                BY DEF LiveOf, Rows
            <4>2. Leaves(x)
                BY <2>2, <3>3, <4>1 DEF Keeps
            <4>3. LiveOf(u) \subseteq {x} /\ runs'[y] = runs[y]
                BY <3>3, <4>1, <4>2 DEF Leaves
            <4>4. y \in LiveOf(u)
                BY <3>3, <4>1, <4>3 DEF LiveOf
            <4> QED BY <3>3, <4>3, <4>4
        <3> QED BY <3>1, <3>2, <3>3
    <2> QED BY <2>1, <2>4, <2>5, <2>6, <2>7
<1>2. CASE Claimed
    <2> PICK w \in Workers, c \in Ids : IsClaimed(w, c)
        BY <1>2 DEF Claimed
    <2> DEFINE new == ClaimedBy(runs[c], w)
    <2>1. /\ new \in Run /\ new.state = "running" /\ new.unit = runs[c].unit
          /\ runs' = [runs EXCEPT ![c] = new] /\ runs[c] \in Run /\ runs[c].state = "queued" /\ In("running") = {}
        BY ClaimedIs DEF IsClaimed
    <2> HIDE DEF new
    <2>2. runs'[c] = new /\ \A r \in Ids \ {c} : runs'[r] = runs[r]
        BY <1>0, <2>1 DEF RunsTyped
    <2>3. RunsTyped'
        BY <1>0, <2>1 DEF RunsTyped
    <2>4. Rows' = Rows /\ c \in Rows
        BY <1>0, <2>1, <2>2, NoRunAssumption DEF RunsTyped, Rows
    <2>5. In("running")' = {c}
        BY <2>1, <2>2, <2>4 DEF In, Rows
    <2>6. \A u \in Units : LiveOf(u)' = LiveOf(u)
        BY <2>1, <2>2, <2>4 DEF LiveOf, Rows, Live
    <2>7. OnlyRunnersHeld'
        BY <1>0, <2>1, <2>2, <2>4 DEF OnlyRunnersHeld, Rows
    <2>8. In("done")' = In("done")
        BY <2>1, <2>2, <2>4 DEF In, Rows
    <2> QED BY <1>0, <2>3, <2>5, <2>6, <2>7, <2>8 DEF OneRuns, OneLives
<1>3. CASE Begins
    <2> PICK N \in SUBSET Ids : \E unit \in [N -> Units] : Begun(N, unit)
        BY <1>3 DEF Begins
    <2> PICK unit \in [N -> Units] : Begun(N, unit)
        OBVIOUS
    <2>1. ASSUME NEW r \in N
          PROVE  /\ LiveOf(unit[r]) = {} /\ runs'[r] \in Run
                 /\ runs'[r].state = "queued" /\ runs'[r].unit = unit[r] /\ runs'[r].owner = NoOwner
        BY NewIs DEF Begun
    <2>2. \A r \in Ids \ N : runs'[r] = runs[r]
        BY DEF Begun
    <2>3. RunsTyped'
        <3>1. \A r \in Ids : runs'[r] \in Run \cup {NoRun}
            BY <1>0, <2>1, <2>2 DEF RunsTyped
        <3> QED BY <3>1 DEF RunsTyped
    <2>4. ASSUME NEW r \in Rows', r \notin N
          PROVE  r \in Rows /\ runs'[r] = runs[r]
        BY <2>2, <2>4 DEF Rows
    <2>5. OneRuns'
        <3>1. In("running")' \subseteq In("running")
            BY <2>1, <2>4 DEF In
        <3> QED BY <1>0, <3>1 DEF OneRuns
    <2>6. OnlyRunnersHeld'
        BY <1>0, <2>1, <2>4 DEF OnlyRunnersHeld
    <2>7. In("done")' \subseteq In("done")
        BY <2>1, <2>4 DEF In
    <2>8. OneLives'
        <3> SUFFICES ASSUME NEW u \in Units, NEW q \in LiveOf(u)', NEW r \in LiveOf(u)'
                     PROVE  q = r
            BY DEF OneLives
        <3>1. q \in Rows' /\ r \in Rows'
            BY DEF LiveOf
        <3>2. ASSUME NEW x \in LiveOf(u)', x \notin N
              PROVE  x \in LiveOf(u)
            BY <2>4, <3>2 DEF LiveOf
        <3>3. ASSUME NEW x \in LiveOf(u)', x \in N
              PROVE  unit[x] = u /\ LiveOf(u) = {}
            BY <2>1, <3>3 DEF LiveOf
        <3>4. CASE q \in N /\ r \in N
            BY <3>3, <3>4 DEF Begun
        <3>5. CASE q \notin N /\ r \notin N
            BY <1>0, <3>2, <3>5 DEF OneLives
        <3> QED BY <3>2, <3>3, <3>4, <3>5
    <2> QED BY <2>3, <2>5, <2>6, <2>7, <2>8
<1> QED BY <1>1, <1>2, <1>3 DEF RunsStep
-----------------------------------------------------------------------------
(* The other variables. *)

RestShape ==
    /\ bundles \in [Ids -> (SUBSET Works) \cup {NoBundle}]
    /\ provider \in BOOLEAN /\ excluded \subseteq Units /\ readable \subseteq Works
    /\ \A s \in DOMAIN wiki : wiki[s] \subseteq Works
    /\ imp \in Importing /\ (imp.pc # "idle" => imp.run # 0)
    /\ imp.run \in Rows \cup {0} /\ stored \subseteq Rows

LEMMA RestKept ==
    ASSUME IInv, [Next]_vars, Rows \subseteq Rows'
    PROVE  RestShape' /\ StoredFirst' /\ stored \subseteq stored'
<1>0. RestShape /\ StoredFirst
    BY DEF IInv, TypeOK, Shapes, RestShape
<1>1. CASE UNCHANGED vars
    BY <1>0, <1>1 DEF vars, RestShape, StoredFirst, Rows
<1>2. CASE Staff
    <2>1. provider' \in BOOLEAN /\ excluded' \subseteq Units /\ UNCHANGED readable
        BY <1>0, <1>2 DEF Staff, Enqueue, EnqueueAll, Pause, Resume, Cancel, SetExcluded, SetProvider, RestShape, desk
    <2> QED BY <1>0, <1>2, <2>1, StaffRuns DEF RestShape, StoredFirst
<1>3. ASSUME NEW b \in Works, TextIsReady(b)
      PROVE  RestShape' /\ StoredFirst' /\ stored \subseteq stored'
    BY <1>0, <1>3 DEF TextIsReady, RestShape, StoredFirst, Rows
<1>4. CASE BackendDies
    <2>1. NoImport \in Importing /\ NoImport.pc = "idle" /\ NoImport.run = 0
        BY DEF NoImport, Importing
    <2> QED BY <1>0, <1>4, <2>1 DEF BackendDies, RestShape, StoredFirst, desk, Rows
<1>5. ASSUME NEW w \in Workers, Worker(w) \/ WorkerDies(w)
      PROVE  RestShape' /\ StoredFirst' /\ stored \subseteq stored'
    <2>1. UNCHANGED <<desk, wiki, imp, stored>>
        BY <1>5 DEF Worker, Execute, TakesUp, EnqueueNewBooks, Claims, Starts, Loads, Checks, Says, Stops, Bundles,
                    BeginsImport, HandsOver, Flushes, GivesUp, Fails, Beats, WorkerDies
    <2>2. bundles' \in [Ids -> (SUBSET Works) \cup {NoBundle}]
        <3>1. CASE Bundles(w)
            <4>1. work[w].books \in SUBSET Works
                BY DEF IInv, Shapes, Work
            <4>2. bundles' = [bundles EXCEPT ![Mine(w)] = work[w].books]
                BY <3>1 DEF Bundles
            <4> QED BY <1>0, <4>1, <4>2 DEF RestShape
        <3>2. CASE ~Bundles(w)
            BY <1>0, <1>5, <3>2
               DEF Worker, Execute, TakesUp, EnqueueNewBooks, Claims, Starts, Loads, Checks, Says, Stops,
                   BeginsImport, HandsOver, Flushes, GivesUp, Fails, Beats, WorkerDies, RestShape
        <3> QED BY <3>1, <3>2
    <2> QED BY <1>0, <2>1, <2>2 DEF desk, RestShape, StoredFirst
<1>6. ASSUME NEW r \in Rows, Lapses(r) \/ Stalls(r)
      PROVE  RestShape' /\ StoredFirst' /\ stored \subseteq stored'
    BY <1>0, <1>6 DEF Lapses, Stalls, desk, RestShape, StoredFirst
<1>7. CASE Takes
    <2> DEFINE r == Oldest(Waiting)
    <2>1. r \in Waiting
        BY <1>7, OldestIn DEF Takes, Waiting, InHandOver, In, Rows
    <2>2. r \in Rows /\ r \in Ids /\ r # 0
        BY <2>1, RunsAssumption DEF Waiting, InHandOver, In, Rows, Ids
    <2>3. imp' = [pc |-> "taken", run |-> r]
        BY <1>7 DEF Takes
    <2> HIDE DEF r
    <2>4. imp' \in Importing /\ imp'.pc = "taken" /\ imp'.run = r
        BY <2>2, <2>3 DEF Importing
    <2> QED BY <1>0, <1>7, <2>2, <2>4 DEF Takes, desk, RestShape, StoredFirst
<1>8. CASE Imports
    <2>1. imp.run \in Ids /\ imp.run \in Rows /\ imp.run # 0
        BY <1>8, ImportedIs DEF Imports, IInv, Shapes
    <2>2. ASSUME NEW pc \in {"stored", "refused"}, imp' = [imp EXCEPT !.pc = pc]
          PROVE  imp' \in Importing /\ imp'.pc = pc /\ imp'.run = imp.run
        BY <1>0, <2>2 DEF RestShape, Importing
    <2>3. CASE /\ bundles[imp.run] # NoBundle
               /\ wiki' = [wiki EXCEPT ![ScopeOf(bundles[imp.run])] = bundles[imp.run]]
               /\ stored' = stored \cup {imp.run}
               /\ imp' = [imp EXCEPT !.pc = "stored"]
        <3>1. bundles[imp.run] \subseteq Works
            BY <1>0, <2>1, <2>3 DEF RestShape
        <3>2. \A s \in DOMAIN wiki' : wiki'[s] \subseteq Works
            <4> DEFINE scope == ScopeOf(bundles[imp.run])
            <4>1. wiki' = [wiki EXCEPT ![scope] = bundles[imp.run]]
                BY <2>3
            <4> HIDE DEF scope
            <4>2. DOMAIN wiki' = DOMAIN wiki /\ \A s \in DOMAIN wiki : wiki'[s] \in {wiki[s], bundles[imp.run]}
                BY <4>1
            <4> QED BY <1>0, <3>1, <4>2 DEF RestShape
        <3>3. stored' \subseteq Rows' /\ imp'.run \in stored' /\ stored \subseteq stored'
            BY <1>0, <2>1, <2>2, <2>3 DEF RestShape
        <3> QED BY <1>0, <1>8, <2>1, <2>2, <2>3, <3>2, <3>3 DEF Imports, desk, RestShape, StoredFirst
    <2>4. CASE imp' = [imp EXCEPT !.pc = "refused"] /\ UNCHANGED <<wiki, stored>>
        BY <1>0, <1>8, <2>1, <2>2, <2>4 DEF Imports, desk, RestShape, StoredFirst
    <2> QED BY <1>8, <2>3, <2>4 DEF Imports
<1>9. CASE Closes
    <2>1. imp.run \in Rows /\ imp.run # 0
        BY <1>9, ImportedIs DEF Closes, IInv, Shapes
    <2>2. imp' \in Importing /\ imp'.pc = "closed" /\ imp'.run = imp.run
        BY <1>0, <1>9 DEF Closes, RestShape, Importing
    <2> QED BY <1>0, <1>9, <2>1, <2>2 DEF Closes, desk, RestShape, StoredFirst
<1>10. CASE DropsBundle
    <2>1. NoImport \in Importing /\ NoImport.pc = "idle" /\ NoImport.run = 0
        BY DEF NoImport, Importing
    <2>2. bundles' \in [Ids -> (SUBSET Works) \cup {NoBundle}]
        BY <1>0, <1>10 DEF DropsBundle, RestShape
    <2> QED BY <1>0, <1>10, <2>1, <2>2 DEF DropsBundle, desk, RestShape, StoredFirst
<1> QED BY <1>1, <1>2, <1>3, <1>4, <1>5, <1>6, <1>7, <1>8, <1>9, <1>10 DEF Next, Import

-----------------------------------------------------------------------------
(* What was asked. *)

LEMMA AskedKept ==
    ASSUME IInv, RunsStep, WorkStep
    PROVE  StaysAsked'
<1> SUFFICES ASSUME NEW w \in Workers, work'[w].run # 0, work'[w].asked, runs'[work'[w].run].owner = w
             PROVE  runs'[work'[w].run].cancel
    BY DEF StaysAsked
<1> DEFINE r == work'[w].run
<1>0. r \in Ids /\ w \notin {Importer, Gone, NoOwner}
    BY RunsAssumption DEF WorkStep, WorkShape, Work
<1>1. CASE \E q \in Ids : IsClaimed(w, q)
    <2> PICK q \in Ids : IsClaimed(w, q)
        BY <1>1
    <2>1. r = q /\ work'[w].asked = runs[q].cancel
        BY DEF IsClaimed, IInv, Shapes
    <2>2. runs'[q] = ClaimedBy(runs[q], w)
        BY DEF IsClaimed, IInv, Shapes
    <2> QED BY <2>1, <2>2, ClaimedIs DEF IsClaimed
<1>2. CASE Remains(w) /\ ~\E q \in Ids : IsClaimed(w, q)
    <2>1. r = work[w].run /\ work[w].asked
        BY <1>2 DEF Remains
    <2>2. runs[r].owner = w => runs[r].cancel
        BY <2>1 DEF IInv, StaysAsked
    <2>3. CASE Changes
        BY <1>0, <2>2, <2>3 DEF Changes, Keeps, Leaves
    <2>4. CASE Claimed
        <3> PICK v \in Workers, q \in Ids : IsClaimed(v, q)
            BY <2>4 DEF Claimed
        <3>1. v # w
            BY <1>2
        <3>2. CASE r = q
            <4>1. runs'[r] = ClaimedBy(runs[q], v)
                BY <3>2 DEF IsClaimed, IInv, Shapes
            <4> QED BY <3>1, <4>1, ClaimedIs DEF IsClaimed
        <3>3. CASE r # q
            BY <1>0, <2>2, <3>3 DEF IsClaimed, IInv, Shapes
        <3> QED BY <3>2, <3>3
    <2>5. CASE Begins
        <3> PICK N \in SUBSET Ids : \E unit \in [N -> Units] : Begun(N, unit)
            BY <2>5 DEF Begins
        <3> PICK unit \in [N -> Units] : Begun(N, unit)
            OBVIOUS
        <3>1. r \notin N
            BY <1>0, NewIs DEF Begun
        <3> QED BY <1>0, <2>2, <3>1 DEF Begun
    <2> QED BY <2>3, <2>4, <2>5 DEF RunsStep
<1>3. CASE Ends(w)
    BY <1>3 DEF Ends
<1> QED BY <1>1, <1>2, <1>3 DEF WorkStep

LEMMA UnaskedKept ==
    ASSUME IInv, WorkStep
    PROVE  GoesOnUnasked'
<1> SUFFICES ASSUME NEW w \in Workers, work'[w].pc = "going"
             PROVE  ~work'[w].asked
    BY DEF GoesOnUnasked
<1>1. CASE \E q \in Ids : IsClaimed(w, q)
    BY <1>1 DEF IsClaimed, IInv, Shapes
<1>2. CASE Remains(w)
    BY <1>2 DEF Remains, GoesOn, IInv, StaysAsked, GoesOnUnasked
<1>3. CASE Ends(w)
    BY <1>3 DEF Ends
<1> QED BY <1>1, <1>2, <1>3 DEF WorkStep

-----------------------------------------------------------------------------
(* The theorems. *)

LEMMA InitIInv == Init => IInv
<1> SUFFICES ASSUME Init
             PROVE  IInv
    OBVIOUS
<1>1. Rows = {}
    BY DEF Init, Rows
<1>2. Shapes
    <2>1. Idle \in Work /\ Idle.pc = "idle" /\ "idle" \notin Busy
        BY DEF Idle, Work, Idling, Busy
    <2>2. NoImport \in Importing /\ NoImport.pc = "idle"
        BY DEF NoImport, Importing
    <2> QED BY <2>1, <2>2 DEF Init, Shapes
<1>3. \A w \in Workers : work[w] = Idle /\ Idle.run = 0 /\ Idle.books = {} /\ Idle.pc = "idle"
    BY DEF Init, Idle
<1>4. \A s \in DOMAIN wiki : wiki[s] \subseteq Works
    <2> PICK had \in {{}, IF Cardinality(ReadableAtFirst \cap Volumes) > 1 THEN ReadableAtFirst \cap Volumes ELSE {}} :
            wiki = [s \in {Series} \cup Works |-> IF s = Series THEN had ELSE {}]
        BY DEF Init
    <2>1. had \subseteq Works
        BY DEF Works
    <2> QED BY <2>1
<1>5. imp.run = 0 /\ imp.pc = "idle"
    BY DEF Init, NoImport
<1>6. TypeOK
    <2>1. \A r \in Ids : runs[r] = NoRun /\ bundles[r] = NoBundle
        BY DEF Init
    <2>2. \A state : In(state) = {}
        BY <1>1 DEF In
    <2>3. \A u : LiveOf(u) = {}
        BY <1>1 DEF LiveOf
    <2>4. provider \in BOOLEAN /\ excluded \subseteq Units /\ readable \subseteq Works /\ stored = {}
        BY RunsAssumption DEF Init
    <2> QED BY <1>1, <1>3, <1>4, <1>5, <2>1, <2>2, <2>3, <2>4 DEF TypeOK
<1>7. DoneMeansStored /\ StoredFirst /\ StaysAsked /\ GoesOnUnasked
    BY <1>1, <1>3, <1>5 DEF DoneMeansStored, In, StoredFirst, StaysAsked, GoesOnUnasked
<1> QED BY <1>2, <1>6, <1>7 DEF IInv

LEMMA NextIInv ==
    ASSUME IInv, [Next]_vars
    PROVE  IInv'
<1>1. RunsStep /\ WorkStep /\ runs' = [q \in Ids |-> runs'[q]]
    BY NextStep, RunsAreRows
<1>2. /\ RunsTyped' /\ OneRuns' /\ OneLives' /\ OnlyRunnersHeld'
      /\ \A r \in In("done")' : r \in In("done") \/ (imp.pc = "stored" /\ r = imp.run)
    BY <1>1, RunsKept
<1>3. Rows \subseteq Rows'
    BY <1>1, <1>2, ChangesKeep
<1>4. RestShape' /\ StoredFirst' /\ stored \subseteq stored'
    BY <1>3, RestKept
<1>5. StaysAsked' /\ GoesOnUnasked'
    BY <1>1, AskedKept, UnaskedKept
<1>6. DoneMeansStored'
    BY <1>2, <1>4 DEF IInv, DoneMeansStored, StoredFirst
<1>7. Shapes'
    BY <1>1, <1>2, <1>4 DEF Shapes, RunsTyped, WorkStep, WorkShape, RestShape
<1>8. \A w \in Workers : work'[w].run \in Rows' \cup {0} /\ work'[w].books \subseteq Works
    <2> SUFFICES ASSUME NEW w \in Workers
                 PROVE  work'[w].run \in Rows' \cup {0} /\ work'[w].books \subseteq Works
        OBVIOUS
    <2>1. work'[w] \in Work
        BY <1>7 DEF Shapes
    <2>2. work'[w].run \in Rows \cup {0}
        <3>1. CASE \E r \in Ids : IsClaimed(w, r)
            <4> PICK r \in Ids : IsClaimed(w, r)
                BY <3>1
            <4>1. work'[w].run = r /\ runs[r] \in Run
                BY DEF IsClaimed, IInv, Shapes
            <4> QED BY <4>1, NoRunAssumption DEF Rows
        <3>2. CASE Remains(w) \/ Ends(w)
            BY <3>2 DEF Remains, Ends, IInv, TypeOK
        <3> QED BY <1>1, <3>1, <3>2 DEF WorkStep
    <2> QED BY <1>3, <2>1, <2>2 DEF Work
<1>9. TypeOK'
    <2>1. \A r \in Ids : (runs'[r] = NoRun \/ runs'[r] \in Run) /\ (bundles'[r] = NoBundle \/ bundles'[r] \in SUBSET Works)
        BY <1>2, <1>4 DEF RunsTyped, RestShape
    <2> QED BY <1>2, <1>4, <1>8, <2>1 DEF TypeOK, OneRuns, OneLives, OnlyRunnersHeld, RestShape
<1> QED BY <1>5, <1>4, <1>6, <1>7, <1>9 DEF IInv

LEMMA Invariant == Spec => []IInv
<1>1. Init => IInv
    BY InitIInv
<1>2. IInv /\ [Next]_vars => IInv'
    BY NextIInv
<1> QED BY <1>1, <1>2, PTL DEF Spec

\* The types; one run at most is running, one at most of a work or series is live, and
\* only the one that runs is held.
THEOREM Typed == Spec => []TypeOK
<1>1. IInv => TypeOK
    BY DEF IInv
<1> QED BY <1>1, Invariant, PTL

\* A run is done only when its bundle became a wiki, whoever closed it and whatever a
\* worker that lost it wrote.
THEOREM DoneStored == Spec => []DoneMeansStored
<1>1. IInv => DoneMeansStored
    BY DEF IInv
<1> QED BY <1>1, Invariant, PTL

\* A run that was asked to cancel before a worker took it up is not bundled by that worker.
THEOREM CancelObeyed == Spec => CancelIsObeyed
<1>1. IInv => [\A w \in Workers : work[w].pc = "going" /\ work'[w].pc = "bundled" => ~work[w].asked]_vars
    BY DEF IInv, GoesOnUnasked
<1> QED BY <1>1, Invariant, PTL DEF CancelIsObeyed
=============================================================================
