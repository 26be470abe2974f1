------------------------------ MODULE WikiRuns ------------------------------
(***************************************************************************)
(* The queue of wiki generations: the staff asks (runs.go), the thread of  *)
(* each worker process takes one run at a time and leaves a bundle         *)
(* (service.py), and the importer of the backend stores it and closes the  *)
(* run (importer.go).                                                      *)
(*                                                                         *)
(* One statement on wiki_runs is one step: nothing else holds the two      *)
(* sides together.  Series has the books Volumes; Loners are the works in  *)
(* none.  The stages text to pages are one, "pages"; the words of the      *)
(* progress, the cache of answers and the audit are left out.              *)
(***************************************************************************)
EXTENDS Naturals, FiniteSets

CONSTANTS
    Series, Volumes, Loners,
    ReadableAtFirst,    \* when the runs begin, with or without a wiki of the series
    Workers, Importer,
    Gone,           \* the owner a dead worker was: a new process has a new name
    NoOwner, NoRun, NoBundle,
    MaxRuns,        \* bound: rows of wiki_runs
    MaxFaults       \* bound: deaths of workers and of the backend, and lapses of
                    \* the heartbeat of a worker that lives

Ids == 1..MaxRuns
Works == Volumes \cup Loners
Units == {Series} \cup Loners
Books(u) == IF u = Series THEN Volumes ELSE {u}

ASSUME RunsAssumption ==
    /\ IsFiniteSet(Works) /\ Loners \cap Volumes = {} /\ ReadableAtFirst \subseteq Works /\ Series \notin Works
    /\ {Importer, Gone, NoOwner} \cap Workers = {}
    /\ MaxRuns \in Nat /\ MaxFaults \in Nat

VARIABLES
    runs,       \* wiki_runs
    bundles,    \* wiki_run_bundles: the books of each
    provider,   \* wiki.provider is set
    excluded,   \* wiki_exclusions
    readable,   \* the works with an EPUB whose text was extracted
    wiki,       \* wiki_projects, by their scope, and their wiki_books
    work,       \* what the thread of each worker is doing
    imp,        \* what the importer is doing
    stored,     \* history: the runs whose bundle became a wiki
    stalls, deaths

vars == <<runs, bundles, provider, excluded, readable, wiki, work, imp, stored, stalls, deaths>>
desk == <<provider, excluded, readable>>

-----------------------------------------------------------------------------

Live == {"queued", "running", "paused"}
Settled == {"done", "failed", "cancelled"}

Run == [unit : Units, origin : {"manual", "batch", "new_book"}, state : Live \cup Settled,
        stage : {"none", "pages", "import"}, pause : BOOLEAN, cancel : BOOLEAN,
        owner : Workers \cup {Importer, Gone, NoOwner},
        stale : BOOLEAN]    \* heartbeat_at is older than STALE, or than importLease

ASSUME NoRunAssumption == NoRun \notin Run

NewRun(u, origin) == [unit |-> u, origin |-> origin, state |-> "queued", stage |-> "none", pause |-> FALSE,
                      cancel |-> FALSE, owner |-> NoOwner, stale |-> FALSE]

\* Out of "running" a run has no owner; its heartbeat and what it was asked to pause
\* are read only of a run that runs, and set again when it is claimed.
Left(run, state) == [run EXCEPT !.state = state, !.owner = NoOwner, !.stale = FALSE, !.pause = FALSE]

Rows == {r \in Ids : runs[r] # NoRun}
In(state) == {r \in Rows : runs[r].state = state}
LiveOf(u) == {r \in Rows : runs[r].unit = u /\ runs[r].state \in Live}
Oldest(S) == CHOOSE r \in S : \A q \in S : r <= q
NextId == Cardinality(Rows) + 1

\* asked: the run had been asked to stop when the worker took it.
Idle == [pc |-> "idle", run |-> 0, books |-> {}, asked |-> FALSE]
NoImport == [pc |-> "idle", run |-> 0]

-----------------------------------------------------------------------------
(* The administration. *)

Eligible(u) == readable \cap Books(u) # {}

\* Enqueue; of a live run it only says the id.
Enqueue(u) ==
    /\ provider /\ Eligible(u) /\ LiveOf(u) = {}
    /\ NextId \in Ids
    /\ runs' = [runs EXCEPT ![NextId] = NewRun(u, "manual")]
    /\ UNCHANGED <<bundles, desk, wiki, work, imp, stored, stalls, deaths>>

\* EnqueueAll, in the order of the titles.
EnqueueAll ==
    LET todo == {u \in Units : Eligible(u) /\ wiki[u] = {} /\ u \notin excluded /\ LiveOf(u) = {}}
    IN  /\ provider /\ todo # {}
        /\ Cardinality(Rows) + Cardinality(todo) <= MaxRuns
        /\ \E f \in [1..Cardinality(todo) -> todo] :
              /\ \A u \in todo : \E i \in DOMAIN f : f[i] = u
              /\ runs' = [r \in Ids |-> IF r - Cardinality(Rows) \in DOMAIN f
                                        THEN NewRun(f[r - Cardinality(Rows)], "batch") ELSE runs[r]]
        /\ UNCHANGED <<bundles, desk, wiki, work, imp, stored, stalls, deaths>>

SetRun(r, new) == runs' = [runs EXCEPT ![r] = new]

\* Control, the three actions.
Pause(r) ==
    /\ \/ /\ runs[r].state = "queued" /\ SetRun(r, Left(runs[r], "paused"))
       \/ /\ runs[r].state = "running" /\ SetRun(r, [runs[r] EXCEPT !.pause = TRUE])
    /\ UNCHANGED <<bundles, desk, wiki, work, imp, stored, stalls, deaths>>

Resume(r) ==
    /\ runs[r].state = "paused"
    /\ SetRun(r, Left(runs[r], "queued"))
    /\ UNCHANGED <<bundles, desk, wiki, work, imp, stored, stalls, deaths>>

Cancel(r) ==
    /\ \/ /\ runs[r].state = "running" /\ SetRun(r, [runs[r] EXCEPT !.cancel = TRUE])
       \/ /\ runs[r].state \in {"queued", "paused"} /\ SetRun(r, [Left(runs[r], "cancelled") EXCEPT !.cancel = FALSE])
    /\ UNCHANGED <<bundles, desk, wiki, work, imp, stored, stalls, deaths>>

SetExcluded(u) ==
    /\ excluded' \in {excluded \cup {u}, excluded \ {u}}
    /\ UNCHANGED <<runs, bundles, provider, readable, wiki, work, imp, stored, stalls, deaths>>

\* SaveProvider, DeleteProvider
SetProvider ==
    /\ provider' = ~provider
    /\ UNCHANGED <<runs, bundles, excluded, readable, wiki, work, imp, stored, stalls, deaths>>

\* A text extraction ends.
TextIsReady(b) ==
    /\ readable' = readable \cup {b}
    /\ UNCHANGED <<runs, bundles, provider, excluded, wiki, work, imp, stored, stalls, deaths>>

-----------------------------------------------------------------------------
(* A worker: tick, then execute. *)

SetWork(w, new) == work' = [work EXCEPT ![w] = new]
At(w, pc) == work[w].pc = pc
Mine(w) == work[w].run
Moves(w, from, to) == At(w, from) /\ SetWork(w, [work[w] EXCEPT !.pc = to])

\* What a dead worker left goes back to the queue, what it was asked with it.
TakesUp(w) ==
    /\ Moves(w, "idle", "tick")
    /\ LET left == {r \in In("running") : runs[r].stage # "import" /\ runs[r].stale}
       IN  runs' = [r \in Ids |-> IF r \in left THEN Left(runs[r], "queued") ELSE runs[r]]
    /\ UNCHANGED <<bundles, desk, wiki, imp, stored, stalls, deaths>>

\* enqueue_new_books; a day may have passed since the last one that failed.
EnqueueNewBooks(w) ==
    /\ Moves(w, "tick", "asked")
    /\ \/ /\ wiki[Series] # {} /\ Series \notin excluded /\ LiveOf(Series) = {}
          /\ (readable \cap Volumes) \ wiki[Series] # {}
          /\ NextId \in Ids
          /\ runs' = [runs EXCEPT ![NextId] = NewRun(Series, "new_book")]
       \/ UNCHANGED runs
    /\ UNCHANGED <<bundles, desk, wiki, imp, stored, stalls, deaths>>

\* Mutant: a run that is taken up starts anew, with nothing asked of it.
ClaimedAnew(run, w) == [run EXCEPT !.state = "running", !.owner = w, !.cancel = FALSE]

ClaimedBy(run, w) == [run EXCEPT !.state = "running", !.owner = w]

\* The oldest of the queue; wiki_runs_one_running refuses a second one that runs.
Claims(w) ==
    /\ At(w, "asked")
    /\ IF provider /\ In("queued") # {} /\ In("running") = {}
       THEN LET r == Oldest(In("queued"))
            IN  /\ SetRun(r, ClaimedBy(runs[r], w))
                /\ SetWork(w, [pc |-> "claimed", run |-> r, books |-> {}, asked |-> runs[r].cancel])
       ELSE SetWork(w, Idle) /\ UNCHANGED runs
    /\ UNCHANGED <<bundles, desk, wiki, imp, stored, stalls, deaths>>

\* fail: of the run, whoever holds it.
Failed(r) == SetRun(r, Left(runs[r], "failed"))

\* The provider is asked again; without one the run goes back, whatever became of it,
\* unless its work or series has another live run.
Starts(w) ==
    /\ At(w, "claimed")
    /\ IF provider THEN SetWork(w, [work[w] EXCEPT !.pc = "started"]) /\ UNCHANGED runs
       ELSE /\ SetWork(w, Idle)
            /\ IF LiveOf(runs[Mine(w)].unit) \subseteq {Mine(w)}
               THEN SetRun(Mine(w), Left(runs[Mine(w)], "queued"))
               ELSE Failed(Mine(w))
    /\ UNCHANGED <<bundles, desk, wiki, imp, stored, stalls, deaths>>

\* Progress.flush: the stage of this worker, on a run that runs.
Flushed(w, stage) == IF runs[Mine(w)].state = "running" THEN [runs[Mine(w)] EXCEPT !.stage = stage] ELSE runs[Mine(w)]

\* The stage text: load_books.
Loads(w) ==
    /\ At(w, "started")
    /\ LET books == readable \cap Books(runs[Mine(w)].unit)
       IN  IF books = {}
           THEN SetWork(w, Idle) /\ Failed(Mine(w))
           ELSE /\ SetWork(w, [work[w] EXCEPT !.pc = "loaded", !.books = books])
                /\ SetRun(Mine(w), Flushed(w, "pages"))
    /\ UNCHANGED <<bundles, desk, wiki, imp, stored, stalls, deaths>>

\* Control.__call__: before every request, and at least once.
Checks(w) ==
    /\ work[w].pc \in {"loaded", "going"}
    /\ LET run == runs[Mine(w)]
           lost == run.state # "running" \/ run.owner # w
       IN  SetWork(w, [work[w] EXCEPT !.pc = IF lost THEN "lost" ELSE IF run.cancel THEN "cancelled"
                                             ELSE IF run.pause THEN "paused" ELSE "going"])
    /\ UNCHANGED <<runs, bundles, desk, wiki, imp, stored, stalls, deaths>>

\* The server of the model does not answer: the run pauses, instead of being lost.
GivesUp(w) ==
    /\ Moves(w, "going", "paused")
    /\ UNCHANGED <<runs, bundles, desk, wiki, imp, stored, stalls, deaths>>

Flushes(w) ==
    /\ work[w].pc \in {"loaded", "going"}
    /\ SetRun(Mine(w), Flushed(w, "pages"))
    /\ UNCHANGED <<bundles, desk, wiki, work, imp, stored, stalls, deaths>>

\* A Stop: what it says is written first.  Of a run that is lost nothing else is.
Says(w) ==
    /\ \/ Moves(w, "paused", "pausing")
       \/ Moves(w, "cancelled", "cancelling")
       \/ At(w, "lost") /\ SetWork(w, Idle)
    /\ SetRun(Mine(w), Flushed(w, "pages"))
    /\ UNCHANGED <<bundles, desk, wiki, imp, stored, stalls, deaths>>

\* Then the run is left as was asked, if it is still held.
Stops(w) ==
    /\ work[w].pc \in {"pausing", "cancelling"}
    /\ SetWork(w, Idle)
    /\ IF runs[Mine(w)].owner # w THEN UNCHANGED runs
       ELSE SetRun(Mine(w), Left(runs[Mine(w)], IF At(w, "pausing") THEN "paused" ELSE "cancelled"))
    /\ UNCHANGED <<bundles, desk, wiki, imp, stored, stalls, deaths>>

\* An error of the provider, of the books or of the generator.
Fails(w) ==
    /\ work[w].pc \in {"claimed", "started", "loaded", "going", "bundled", "begun"}
    /\ SetWork(w, Idle) /\ Failed(Mine(w))
    /\ UNCHANGED <<bundles, desk, wiki, imp, stored, stalls, deaths>>

Bundles(w) ==
    /\ Moves(w, "going", "bundled")
    /\ bundles' = [bundles EXCEPT ![Mine(w)] = work[w].books]
    /\ UNCHANGED <<runs, desk, wiki, imp, stored, stalls, deaths>>

\* begin('import')
BeginsImport(w) ==
    /\ Moves(w, "bundled", "begun")
    /\ SetRun(Mine(w), Flushed(w, "import"))
    /\ UNCHANGED <<bundles, desk, wiki, imp, stored, stalls, deaths>>

\* "from here the backend takes it"
HandsOver(w) ==
    /\ At(w, "begun") /\ SetWork(w, Idle)
    /\ SetRun(Mine(w), [runs[Mine(w)] EXCEPT !.stage = "import", !.stale = FALSE])
    /\ UNCHANGED <<bundles, desk, wiki, imp, stored, stalls, deaths>>

Beats(w) ==
    /\ work[w].run # 0 /\ runs[Mine(w)].owner = w
    /\ SetRun(Mine(w), [runs[Mine(w)] EXCEPT !.stale = FALSE])
    /\ UNCHANGED <<bundles, desk, wiki, work, imp, stored, stalls, deaths>>

-----------------------------------------------------------------------------
(* The importer of the backend. *)

InHandOver == {r \in In("running") : runs[r].stage = "import" /\ bundles[r] # NoBundle}

\* Mutant: what an importer holds is its own for good.
NeverTaken == {r \in InHandOver : runs[r].owner # Importer}

\* Nobody imports it, or who did died more than importLease ago.
Waiting == {r \in InHandOver : runs[r].owner # Importer \/ runs[r].stale}

\* ImportNext: the oldest run of those.
Takes ==
    /\ imp.pc = "idle" /\ Waiting # {}
    /\ SetRun(Oldest(Waiting), [runs[Oldest(Waiting)] EXCEPT !.owner = Importer, !.stale = FALSE])
    /\ imp' = [pc |-> "taken", run |-> Oldest(Waiting)]
    /\ UNCHANGED <<bundles, desk, wiki, work, stored, stalls, deaths>>

\* scope: a bundle of one book is of the work, whatever the run was asked of.
ScopeOf(books) == IF Cardinality(books) = 1 THEN CHOOSE b \in books : TRUE ELSE Series

\* Import, or what goes wrong in it.
Imports ==
    /\ imp.pc = "taken"
    /\ \/ /\ bundles[imp.run] # NoBundle
          /\ wiki' = [wiki EXCEPT ![ScopeOf(bundles[imp.run])] = bundles[imp.run]]
          /\ stored' = stored \cup {imp.run}
          /\ imp' = [imp EXCEPT !.pc = "stored"]
       \/ imp' = [imp EXCEPT !.pc = "refused"] /\ UNCHANGED <<wiki, stored>>
    /\ UNCHANGED <<runs, bundles, desk, work, stalls, deaths>>

\* Mutant: a refused import closes its run as the others.
AlwaysDone == "done"

Outcome == IF imp.pc = "stored" THEN "done" ELSE "failed"

\* closeRun, then the DELETE of the bundle.
Closes ==
    /\ imp.pc \in {"stored", "refused"}
    /\ SetRun(imp.run, Left(runs[imp.run], Outcome))
    /\ imp' = [imp EXCEPT !.pc = "closed"]
    /\ UNCHANGED <<bundles, desk, wiki, work, stored, stalls, deaths>>

DropsBundle ==
    /\ imp.pc = "closed"
    /\ bundles' = [bundles EXCEPT ![imp.run] = NoBundle]
    /\ imp' = NoImport
    /\ UNCHANGED <<runs, desk, wiki, work, stored, stalls, deaths>>

-----------------------------------------------------------------------------
(* Time and deaths. *)

\* The process that holds the run says it is alive: beat, or an import that is going on.
HeldAlive(r) ==
    \/ runs[r].owner \in Workers /\ work[runs[r].owner].run = r
    \/ runs[r].owner = Importer /\ imp.run = r

Lapses(r) ==
    /\ runs[r].state = "running" /\ ~runs[r].stale /\ ~HeldAlive(r)
    /\ SetRun(r, [runs[r] EXCEPT !.stale = TRUE])
    /\ UNCHANGED <<bundles, desk, wiki, work, imp, stored, stalls, deaths>>

\* A worker that was suspended, or could not reach the database.
Stalls(r) ==
    /\ stalls + deaths < MaxFaults /\ stalls' = stalls + 1
    /\ runs[r].state = "running" /\ ~runs[r].stale /\ runs[r].owner \in Workers
    /\ SetRun(r, [runs[r] EXCEPT !.stale = TRUE])
    /\ UNCHANGED <<bundles, desk, wiki, work, imp, stored, deaths>>

WorkerDies(w) ==
    /\ stalls + deaths < MaxFaults /\ deaths' = deaths + 1
    /\ work[w].run # 0 /\ SetWork(w, Idle)
    /\ runs' = [r \in Ids |-> IF r \in Rows /\ runs[r].owner = w THEN [runs[r] EXCEPT !.owner = Gone] ELSE runs[r]]
    /\ UNCHANGED <<bundles, desk, wiki, imp, stored, stalls>>

BackendDies ==
    /\ stalls + deaths < MaxFaults /\ deaths' = deaths + 1
    /\ imp.pc # "idle" /\ imp' = NoImport
    /\ UNCHANGED <<runs, bundles, desk, wiki, work, stored, stalls>>

-----------------------------------------------------------------------------

Init ==
    /\ runs = [r \in Ids |-> NoRun] /\ bundles = [r \in Ids |-> NoBundle]
    /\ provider = TRUE /\ excluded = {}
    /\ readable = ReadableAtFirst
    /\ \E had \in {{}, IF Cardinality(ReadableAtFirst \cap Volumes) > 1 THEN ReadableAtFirst \cap Volumes ELSE {}} :
          wiki = [s \in {Series} \cup Works |-> IF s = Series THEN had ELSE {}]
    /\ work = [w \in Workers |-> Idle] /\ imp = NoImport
    /\ stored = {} /\ stalls = 0 /\ deaths = 0

Staff ==
    \/ \E u \in Units : Enqueue(u) \/ SetExcluded(u)
    \/ EnqueueAll \/ SetProvider
    \/ \E r \in Rows : Pause(r) \/ Resume(r) \/ Cancel(r)

Execute(w) ==
    \/ Starts(w) \/ Loads(w) \/ Checks(w) \/ Says(w) \/ Stops(w)
    \/ Bundles(w) \/ BeginsImport(w) \/ HandsOver(w)

Worker(w) ==
    \/ TakesUp(w) \/ EnqueueNewBooks(w) \/ Claims(w)
    \/ Execute(w) \/ Flushes(w) \/ GivesUp(w) \/ Fails(w) \/ Beats(w)

Import == Takes \/ Imports \/ Closes \/ DropsBundle

Next ==
    \/ Staff \/ Import \/ BackendDies
    \/ \E b \in Works : TextIsReady(b)
    \/ \E w \in Workers : Worker(w) \/ WorkerDies(w)
    \/ \E r \in Rows : Lapses(r) \/ Stalls(r)

\* The loops of the workers and of the importer go on, a generation asks for finitely
\* many answers, and time passes.
Fairness ==
    /\ \A w \in Workers :
          /\ WF_vars(TakesUp(w)) /\ WF_vars(EnqueueNewBooks(w)) /\ WF_vars(Claims(w))
          /\ WF_vars(Execute(w)) /\ WF_vars(Bundles(w))
    /\ WF_vars(Import)
    /\ \A r \in Ids : WF_vars(r \in Rows /\ Lapses(r))

Spec == Init /\ [][Next]_vars /\ Fairness

-----------------------------------------------------------------------------

\* Every variable has its type; one run at most is running, one at most of a work or
\* series is live, and only the one that runs has an owner.
TypeOK ==
    /\ \A r \in Ids : (runs[r] = NoRun \/ runs[r] \in Run) /\ (bundles[r] = NoBundle \/ bundles[r] \in SUBSET (Works))
    /\ \A q, r \in In("running") : q = r
    /\ \A u \in Units : \A q, r \in LiveOf(u) : q = r
    /\ \A r \in Rows : runs[r].owner # NoOwner => runs[r].state = "running"
    /\ provider \in BOOLEAN /\ excluded \subseteq Units /\ readable \subseteq Works
    /\ \A s \in DOMAIN wiki : wiki[s] \subseteq Works
    /\ \A w \in Workers : work[w].run \in Rows \cup {0} /\ work[w].books \subseteq Works
    /\ imp.run \in Rows \cup {0} /\ stored \subseteq Rows

\* The administration is told that a run is done only when its bundle became a wiki,
\* whoever closed it and whatever a worker that lost it wrote.
DoneMeansStored == \A r \in In("done") : r \in stored

\* A run that was asked to cancel and whose worker died keeps being asked: the worker
\* that takes it up never hands it over (service.py, Control; runs.go, Control).
CancelIsObeyed ==
    [][\A w \in Workers : work[w].pc = "going" /\ work'[w].pc = "bundled" => ~work[w].asked]_vars

\* "A worker that dies leaves it behind, and the next one takes it up" (service.py): no
\* run runs for ever, so that the others of the queue have their turn.
NoRunHoldsTheQueue == \A r \in Ids : r \in In("running") ~> r \notin In("running")

\* The same, while no worker comes back to a run that another one took up.
RunsStop == [](stalls = 0) => NoRunHoldsTheQueue
=============================================================================
