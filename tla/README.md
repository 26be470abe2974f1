# Codice in TLA+

Specifications of the parts of Codice whose correctness depends on the order in which
things happen: who holds a job, a file, an account, a place in a book, a wiki or a
collection while somebody else changes it. Paths below are relative to `src/`; Go paths
omit `backend/internal/` where that is clear.

- [The system](#the-system): the parts, their state and what is hard about them
- The models: [job queue](#the-job-queue) (`JobQueue`, `JobLifecycle`), [managed storage](#the-managed-storage)
  (`Storage`), [referenced files](#the-referenced-files) (`Referenced`), [accounts](#accounts)
  (`Accounts`), [reading](#reading) (`Reading`), [the wiki](#the-wiki) (`Wiki`),
  [its runs](#the-runs-of-the-wiki) (`WikiRuns`), [series and collections](#series-and-collections)
  (`Series`),
  [texts](#the-text-of-a-book) (`Texts`), [backups](#backups) (`Backups`, `Retention`),
  [people](#the-people) (`People`)
- [The runs](#the-runs), [Findings](#findings), [Refuted and kept out of the runs](#refuted-and-kept-out-of-the-runs)
- [Proofs](#proofs), [Not modelled](#not-modelled), [What is left](#what-is-left)

## The system

Codice is a self-hosted library: a Go API server (`backend/`), a Python worker
(`worker/`), PostgreSQL, Redis and a web front end. The two programs only meet in the
database: the server enqueues jobs and runs some of them itself (organize, transfer,
scan, dedupe, backup, export), the worker runs the others (ingestion, extraction of
text, embeddings) and, in a thread of its own, the generations of wikis. Redis only
wakes the worker earlier than its poll would.

| Part | State it keeps | Operations | What is hard, what must hold |
| --- | --- | --- | --- |
| **Job queue** (`migrations/00005,00006,00019`, `jobs/`, `worker/runner.py`) | `jobs`; the local state of every loop; `works.media_status` | enqueue, claim, heartbeat, complete, fail, acknowledge a cancel, cancel, rerun, rerun all failed, trigger of follow-ups | Leases expire while their holder still works; answers are lost; processes die. One live job per kind and work; an old holder cannot touch a job another took; every job ends |
| **Managed storage** (`storage/mover.go`, `storage/trash.go`) | `storage_locations`, `trash_items`, the files on disk | move, recover, trash, restore, delete, purge | Disk and database change in separate steps, a crash between any two. No bytes are lost or mixed up; the database can be brought in step again |
| **Referenced files** (`storage/transfer.go`, `scanner.go`, `handlers/upload.go`) | `storage_roots`, referenced locations, `storage_cleanups` | scan, transfer, import, remove the originals, retry, purge | Other people change the directory meanwhile. Only an original whose copy is stored is removed |
| **Accounts, ownership, sessions** (`ownership/`, `sessions/`, `handlers/auth.go`, `users.go`, `invitations.go`, `password_resets.go`, `identity/`) | accounts, sessions, tokens, invitations, resets, transfers, tickets | sign in, reset, invite, promote, block, delete, transfer the ownership, join with a directory | A request is let in by a state that is old when it acts. One owner; a link works once; nothing older than a reset works |
| **Reading** (`handlers/progress.go`, `completion.go`, `kosync*.go`) | positions with revisions, what each device saw, finished marks, completions | save, mark, reopen, send, fetch | Late and reordered saves of tabs and devices. No place is lost in silence; each finish counts once |
| **Wiki** (`wiki/`, `worker/wikigen/`) | the wiki of a work or series, what the staff decided about it, runs and bundles | generate, import, hide, review, join, write by hand, delete; start, pause, cancel, hand over | A generation takes hours and replaces everything; the staff decides meanwhile. The queue of runs has a fence of its own, with holes |
| **Series and collections** (`handlers/collections_admin.go`, `metadata.go`, `upload_series.go`, `worker/analyzer.py`, `migrations/00052`) | series of the works, collections, names, members | edit, accept, analyse, upload, create, rename, add, remove, retire, restore | A trigger keeps the membership in transactions that do not see each other |
| **Text** (`worker/textindex/`, `ocr.py`, `comic_ocr.py`, `embeddings.py`, `migrations/00019`) | generations of segments, pages read, vectors | extract, recognise, embed, publish, reread | Three processes write one file's text, each after losing its job too. A search sees a whole text, and vectors that are of it |
| **Backups** (`backup/`) | packages, the database and its copies, managed files, pictures | create, restore, prune | The library changes while it is copied; a restore dies between any two renames. Nothing that was there is lost, and what is restored can be trusted |
| **People** (`people/`, `work_contributors.go`, `metadata.go`, `profiles.py`) | authors of works, pairs, aliases, identifiers, profiles | edit, add, remove, order, accept, merge, link, read | A merge holds no work. Works and names follow the person who stays |
| Not modelled: see [below](#not-modelled) | | | |

`PROJECT.json` lists every part with its sources and status, and the hazards at their
lines with the properties that are about them.

## The job queue

### What is modelled

`JobQueue.tla` holds the whole queue in one module, because its parts share one table.

| In the model | In the code |
| --- | --- |
| `jobs[id]`: state, attempts, due, owner, expired, cancel, kind | the columns `state`, `attempts`, `run_after <= now()`, `lease_owner`, `lease_until < now()`, `cancel_requested`, `error_kind` of `jobs` |
| `JobIds`: kind, work, serial | `type`, `work_id`, and the order of the ids of jobs with the same kind and work |
| `media` | `works.media_status` |
| `run[w]`: pc, job, flag, arg | the local variables of `JobRunner.run_one` and `Runner.RunOnce`; `flag` is what the heartbeat thread or goroutine tells the run (`cancelled`, `lost`) |
| `incarnation`, `Owner(w)` | `new_owner_name`: a restarted process has another owner name |
| `holder` | history: who claimed the job last; no action reads it |

One action per SQL function, each one transaction: `Claim` and `ClaimNothing` are
`jobs_claim` (both sweeps, the limit, the choice, the start), `Heartbeat`, `Complete`
(with the trigger `jobs_organize_after_ingest` in the same step), `Fail`, `CancelAck`.
Around them are the steps of a run: `OnStart`, `WorkEnds`, `WorkFails`, `Stop` (a
checkpoint sees the flag), `Report` (`on_success`, `on_failure`, `on_retry`, each a
transaction of its own) and `Unreachable` (the call fails and the code does what it
does on such an error). `Claim` may also lose its answer. `Crash` ends every loop of a
process and starts it again. `Enqueue`, `Cancel`, `Rerun` and `RerunFailed` are the
administration; `Enqueue` also resets the media status as `jobs.Enqueue` does.

Python and Go loops differ where their code does: Python writes the media status,
looks at the flags only at checkpoints and reports an error of `on_start` or
`jobs_complete` as a failure of the work; Go looks at the flags when its handler ends
and its heartbeat stops at the first cancel. The loops of one `LoopPool` share a
process and so an owner name: `Process` says which loops do.

Abstractions. Time is what the SQL compares with `now()`: a lease has expired or not, a
back-off has elapsed or not, and either may happen at any moment. The order among jobs
of equal priority is open (the code orders by age). `FOR UPDATE SKIP LOCKED` and the
advisory lock make calls of the claim serial, so they are steps. Payloads, progress,
messages and Redis are left out. A handler that does not exist is a permanent failure
of the work. `MaxRunning` does not change. The deletion of a work with its jobs is left
out, as are `versions.go`, which gives a split work its status without an ingestion,
and a backup restore; the `INSERT`s of `bulk_import.py` are `Enqueue`.

### The abstract specification

`JobLifecycle.tla` says what the queue promises about one job: it is created, started
with one attempt more while it has attempts, sent back, ended, withdrawn while it
waits, and asked for again when it failed or was cancelled. `JobQueue` implements it
(`ImplementsLifecycle`) with `life` mapped to the state and the attempts of every job,
several jobs moving in one step because the sweeps and "try them all again" do.

### Fairness

`FairSpec` assumes weak fairness of each loop's poll (`Loop` and `poll_once` wake up by
a timer, whatever happened before), of the steps of a run (handlers return: a handler
that hangs for ever keeps its job by its heartbeats, in the code too), of back-offs,
and of the expiry of a lease *that nobody attends to*. Nothing is assumed of
heartbeats, of the administration, of crashes, or of whether work succeeds. A lease
that is attended may expire, may be renewed late, or never expire.

## The managed storage

`Storage.tla`: `loc[f]` is the managed location of a file (state, path, `moving_to`),
`item[f]` its item in the trash, `disk[q]` whose bytes lie at a place, `op[t]` what a
goroutine is doing and the values it read, `serving` whether the process has started.
A rename replaces what is at its destination, as `os.Rename` does.

`Move` is `PlanMove` (`plan`, at some time before), `BeginMove` (the transaction that
checks and announces), `MoveFile` (the rename, or its failure), `ConfirmMove`
(`finalize`, refused by the unique index when another file has the path) or `Revert`.
`RecoverRow` is one row of `Recover`; `StartServing` follows when it is done or has met
an error, as `startFileJobs` does. `TrashFile` is `ReadForTrash`, `RenameToTrash`,
`RecordTrash`, and `RenameBack` when recording fails; `Restore` is `ReadForRestore`,
`RenameFromTrash`, `RecordRestore` and `RenameBack`. `Delete` is `ReadForDelete`,
`RemoveBytes`, `Erase`; `PurgeExpired` is `ListExpired` and `CheckExpired` before the
last two. `Fails` is any call that returns an error, a request whose client went away
included (its context is the context of the statements), and `Crash` may come between
any two steps.

The reads of an operation before its first change are one step; where the code waits
between two of them (planning and moving, listing and checking) they are two. A commit
that took effect but reported an error is not modelled. Left out: orphans, retired
works and covers, empty folders.

`clashed` is history: whether two tasks have come in each other's way (`Clash`). They have
when both are at work (`Engaged`: they have looked at the rows and act on what they saw) on
one file, or on their way to one path, or when a restore is on its way to the name it falls
back to and that is another file's path. No lock and no index of the code prevents it: the
row lock of `Move` ends with the announcement, `Trash` takes none, and the check before a move does not
look at announced destinations. The properties of this component are about behaviours up to the first clash
(`InStep`, `Recoverable`, `PathHoldsItsOwn`, `OverwritesOnlyInAClash`); a planned move and a
listed item are no clash, as both are looked at again. What happens in one:

- two movers on their way to one path: a file is overwritten (`storage_overwrite`, a finding);
- move and trash on one file: `TrashFile` reads `ok`, the move announces itself,
  `TrashFile` renames the file to the trash: the location is `moving` and the bytes are at neither
  end (`Recoverable`; a crash here ends in `missing`). If nobody dies, the rename of the move fails, `TrashFile`
  records `trashed`, and the revert of the move sets the location back to `ok`, with the
  bytes and an item in the trash; the item can still be restored;
- restore and delete of one item: the record of a restored file is erased (`RestoredIsKept`).

`TrashFile` that dies after its rename leaves `ok` with the bytes in the trash folder and
no item: they are still where the id of the file leads, which is why `InStep` names both places.
## The referenced files

`Referenced.tla`: `bytes[q]` whose bytes lie at each place (the authorised directory, the
managed places), `entry[c]` the file with these bytes and its location, `cleanup`
`storage_cleanups`, `work[p]` the local variables of the loop of file jobs and of each
request, `stamp` size and time of an original by the number of its change.

| Actions | Code |
| --- | --- |
| `BeginTransfer`, `Copy`, `CheckTarget`, `Publish`, `Switch`, `Undo` | `Transferrer.MoveToManaged`: the copy beside the target with its sum, the comparison with the recorded one, the free name, the rename, `switchToManaged`, the removal of a copy nobody points at |
| `Verify`, `Unlink`, `ForgetCleanup` | `RemoveVerifiedOrigin`: size and time compared again, the sum of the copy and of the original, `os.Remove`, the row of the cleanup |
| `BeginRetry`, `RetryOne` | the retry of the staff (`storage_admin.go`): the list it read, one row after the other |
| `BeginImport`, `StoreUpload`, `InsertUpload` | `handlers/upload.go` (the bulk import), `ingest.go`: stored (and converted to UTF-8), inserted or removed again, the original removed |
| `BeginScan`, `HashNew`, `Recheck`, `Catalogue`, `MarkMissing` | `Scanner.Scan` |
| `AddRoot`, `RemoveRoot`, `Purge`, `DeleteForGood`, `Ask` | the administration |
| `Change`, `GivesUp`, `Restart` | the people of the directory; any call that returns an error; a death |

A file is known by its bytes, so two originals with the same bytes are the same file of
the catalogue, as the unique sum makes them. The names inside the managed storage are
those of `Storage`; here a target is the layout's, or the one with the suffix. `origin`,
`destroyed` and `untouched` are history.

What the model does not hold against the code: a commit that took effect and reported an error
(`transfer.go:182`, `ingest.go:199`), after which the undo would remove the copy the row
points at (here a commit either takes effect or fails, so `ManagedHolds` says nothing of it); an original that is
put back, and transferred again, while the removal of the one before it has unlinked it and not yet
deleted its row of `storage_cleanups` (by path, `transfer.go:213`): that DELETE takes the new row,
and `Switch` excepts it from `OriginalsTracked` (`RemovalOpen`); an edit in the instant between the sum and
`os.Remove` is lost (nothing in a file system prevents it); a change that keeps size and
time is not noticed by a recheck (`Recheck` compares the stamp only, as the code does); a
crash after the rename and before the switch leaves a copy nothing refers to, and two such
crashes leave both targets taken, so that the transfer fails until somebody looks. With
two loops of file jobs, the undo of one could remove the copy another has just switched
to: the code has one loop, and so has the model. An import that converts its text removes
an original that is also catalogued as referenced: its row points at nothing until the
next scan.

## Accounts

`Accounts.tla` has the accounts (`account[u]`: role, blocked, password, directory entry),
sessions and app tokens (`cred`), invitations, password resets (`link`), the transfer of
ownership that is pending, the tickets of the first sign-in through a directory, and
`request[q]`: what a request in progress learnt before its transaction. A handler that is
one transaction over rows it locks is one action; its admission (`Admit`, `LoginLocal`,
`LoginLinked`, `LoginUnknown`, `ProvePassword`, `MayInvite`) is a step of its own, before
it, by values that may be old when they are used.

| Actions | Code |
| --- | --- |
| `Admit`, `LoginLocal`, `LoginLinked`, `LoginUnknown`, `OpenSession`, `FirstLogin`, `LinkWithTicket` | `middleware`, `handlers/auth.go`, `identity/`, `sessions/store.go` |
| `Register`, `SetupMasterAdmin` | the public registration and the set-up |
| `EndOwnSessions`, `EndSessionsFor`, `CreateAppToken`, `RevokeAppToken`, `SessionExpires`, `ChangePassword` | `sessions/`, `handlers/auth.go` |
| `CreateInvitation`, `RevokeInvitation`, `RedeemInvitation`; `AskReset`, `DecideReset`, `RedeemReset` | `handlers/invitations.go`, `password_resets.go` |
| `UpdateRole`, `Block`, `Unblock`, `Delete` | `handlers/users.go` |
| `StartTransfer`, `DecideTransfer`, `AcceptTransfer`, `TransferExpires`, `RecoverAccess`, `RecoverTransfer` | `ownership/` and the local command |
| `DirectoryChanges`, `Sweep` | the directory's answers and the sweep that blocks who left it |

`Swap` includes the trigger that refuses an owner with a directory entry, because
`accept` reads whether there is one from a snapshot older than the row lock. History:
`era` counts the resets of an account and each credential keeps the era of the password
that opened it (`era`) and of the account at that moment (`born`). Deadlines pass at any time. Names, e-mails, notices, the
audit log, the two rate limits and resource tokens are left out.

What a decision about a reset and the withdrawal of an invitation read of who asks is not locked
(`password_resets.go:163`, `invitations.go:191`), so it may be the role of when the request came in or that of
now (`RoleRead`); of the account a reset is for, which `lockRequest` reads with the request
and does not lock, the model has the values of the decision. An account may have several entries of the directory (no index forbids it,
`00002:280`); the model keeps the last one, so `OnePersonOneAccount` is about that one.

## Reading

`Reading.tla` is about one person and the files of one work: `row[f]` the position, its
revision, its finished mark and the device that said it, `apart` the place of a device
kept apart for the person to choose (`kosync_pending`), `seen` the revision each device
saw, `workFinished` the mark of the work, `completions` the count. A single statement is a
step; a handler of several statements without a transaction is several (`Put` and then
`ReopenWork`; `PutFirst` and `InsertFirst` of a device with no row to lock; the answer of a
device after `MarkSeen`). Tabs follow the protocol of the front end: a save from a revision
that is no longer the newest is refused with the newest, and the tab either loads it or
saves over it (`AnswerConflict`, `LoadSaved`).

A place is the number of the save that brought it, so that no two are alike; `heard` is
the places each client was sent, or sent. The conversion of places between EPUB readers,
the time spent and the pairing of devices are left out.

## The wiki

`Wiki.tla` has one wiki with two names that the books may write of as one entity or two.
`project` is the row of `wiki_projects` with everything that hangs from it: which names
each slug answers to, which texts are where, which are hidden, whether they are to be
reviewed, what is suggested; `rules` (`wiki_identity_rules`) and `items`
(`wiki_manual_items`) outlive it. A generation reads the rules (`BeginGeneration`) and
leaves a bundle (`FinishGeneration`). An import is three steps, `Reads` (what it carries over
from the wiki it replaces), `Applies` (what it writes: the bundle, the joins, the rules,
what is by hand, the hidden sentences, the review) and `Commits`; the importer of the runs
and an upload of a bundle may be at it together. `Hide`, `Approve`, `Undo`, `DecideSame`,
`DecideDistinct`, `ForgetRule`, `CreateManual`, `UpdateManual`, `DeleteManual`, `Delete`
are the staff, one transaction each, under the lock the code takes (`Alone`, `Free`, `Unlocked`).
What touches no row of the project waits for nobody: a rule, or an item of an entity the
wiki does not show, may change between what an import reads (`imp[m].rules`,
`imp[m].items`) and its commit. A decision is two steps: `Considers` loads the project and
the two entities without a lock (`identity.go:254-285`), and `DecideSame` or
`DecideDistinct` saves the rule and acts on the entities that were loaded, which may be gone:
no statement of `mergeEntities` minds that it finds no row (`Joins`), except that what it
gives to an entity that is gone has nothing to refer to, and the decision fails.

An entity may answer to the name of the other (an alias of the generator's). `find` leads
to an entity only when one alone answers to the name; so a rule is applied, and an item shown, only then (`Finds`,
`Known`, `TwoFound`). Bounds: what a generation may find (`Findings`), both
entities, both with one that answers to both names, or one; who people write about
(`Subjects`); one decision at a time. A third entity, made by hand under a name two carry
(`applyManual` makes one), is left out: with `Names` two it has no slug.

Of the two entities that are joined, which one stays is left open (the code compares pages
and chapters). What the model makes visible and the properties allow: an entity made by
hand that the staff joined comes back as its own, because `applyRules` runs before
`applyManualItems` (so `SameIsOne` is about entities of the books, each found by its name); `mergeEntities` drops
the by-hand sections of the dropped entity where the other has the same key; a rule saved
while an import is past `applyRules` is not applied to that wiki (`late` names it, `SameIsOne`
excepts it, `SameIsAlwaysOne` does not); an item changed while an import is past reading them is stored as
it was (`ShownAsWritten`), so `WrittenByHandIsBack` is about the items as the import read them; an item taken away then makes the import fail, as its rows refer to it; a rule forgotten during a
generation is still followed by it; after a crash between the commit of an import and the
close of its run the bundle is imported again, over itself.

## The runs of the wiki

`WikiRuns.tla` is the second queue of the system, without the SQL functions of the first:
`wiki_runs` is changed by single statements of the staff (`runs.go`: `Enqueue`,
`EnqueueAll`, `Pause`, `Resume`, `Cancel`, `SetExcluded`, `SetProvider`), of the thread of
each worker (`service.py`: `TakesUp`, `EnqueueNewBooks`, `Claims`, `Starts`, `Loads`,
`Checks`, `Flushes`, `Says`, `Stops`, `Fails`, `GivesUp`, `Bundles`, `BeginsImport`, `HandsOver`,
`Beats`) and of the importer (`importer.go`: `Takes`, `Imports`, `Closes`, `DropsBundle`).
`Lapses` lets a heartbeat grow old, of a holder that is dead, or, `Stalls`, of one that
lives; `WorkerDies` and `BackendDies` are the deaths. The stages from text to pages are one.

Fairness (part of `Spec`): the worker's timer and its steps (`TakesUp`, `EnqueueNewBooks`,
`Claims`, `Execute`, `Bundles`), the importer, and the ageing of a heartbeat nobody keeps;
nothing of the staff, of deaths or of stalls. `RunsStop` says that under it no run stays
`running` for ever, so that the others, of which one may run at a time, have their turn.
It holds as long as no live worker is silent for longer than `STALE`; with a silent one
it does not, which is the finding `wiki_queue`.

Seen in the model and left as it is: `fail()` and the update that gives a run back compare
no owner, so a worker that was silent can turn a done run failed or queued; a bundle it
inserts after `closeRun` stays for ever; a pause that comes from the language model leaves
a run that was asked to cancel paused.

## Series and collections

`Series.tla`: the series of each work with its lock and its source, the official
collections with the keys of names that lead to them (`leads`, `collection_keys`), which
of them were put away, and the membership `in`. `tx[p]` is the transaction a process is
in: the works it wrote and holds, those the trigger has run for and where it put them, the
collection the trigger made, the advisory locks. All of PostgreSQL's READ COMMITTED that
matters is there: a write is visible at `Commit`, a row or an advisory lock is waited for,
a read without a lock is of the moment.

`Load`, `Fill`, `RecordSource` are the analysis of a file (`save_metadata`: three calls of
the database, three transactions), `Edit` and `Accept` a person, `Upload` an upload into a
series, `AddWork`, `RemoveWork`, `Order`, `Rename`, `Create`, `Retire`, `BeginRestore` and
`CommitRestore` the management. `Writes` writes one work and runs the trigger
(`Synced`) for it, `Commit` makes it visible.

`overtaken` is history: the works that were written, or put back, by a transaction that
overlapped with the retirement or the return of their collection. `FollowsSeries` excepts
them, because the trigger reads `retired_at` without a lock and the list of `Restore` is a
snapshot: see `RetiredIsEmpty` among the refuted. The numbers in the series, the other
fields, the state of suggestions, personal collections and works in the trash are left
out; so two uploads by two names of one collection that take different `series-upload:`
locks (`upload_series.go:145`) are a hazard without a property.

## The text of a book

`Texts.tla`: for one file, `text` the published generation (`text_extractions`), `segs` the
segments of all generations, `vectors` and `embedded` the vectors and the generation the
status names, `pages` what OCR read of each page, `decided` the language of a PDF,
`choice` the setting, `queue` the job of each kind, `doing[r]` what a worker process has
in its variables. Every call of `db.py` is a transaction, so every statement is a step.

| Actions | Code |
| --- | --- |
| `TextClaims`, `BeginsText`, `FetchesPages`, `WritesText`, `PublishesText`, `CannotRead` | `TextIndexer` (`textindex/store.py`) and the three functions of `00019` and `00021` |
| `OcrClaims`, `KeepsLanguage`, `DetectsLanguage`, `DecidesLanguage`, `LooksBeforeFile`, `ListsPages`, `LooksAtChoice`, `SavesPage` | `OcrIndexer` and `ComicOcrIndexer`, which end by making the text |
| `EmbedClaims`, `ReadsSegments`, `StoresVectors`, `RecordsVectors` | `EmbeddingIndexer` |
| `AskText`, `RetryPages`, `SetLanguage`, `Choose`, `Reread`, `OcrEnqueues`, `EmbedEnqueues` | the requests of people, and `enqueue_missing` |
| `Completes`, `FailsFor`, `Interrupted`, `Lapses` | the queue, as far as a loop that lost its job goes on working |

The queue is that of `JobQueue` reduced to one job of each kind and its owner. `crossed` is
history: the generations two readings were writing at once, which happens when an OCR job
and a text job, or a job and the one that took it over, overlap. `WholeAlone` and
`EmbeddedIsWhole` except them, because nothing in the code keeps the two apart: see
`WholeText` among the refuted.

A run that prepared the model and finds another one chosen leaves the file (`LooksBeforeFile`, `comic_ocr.py:335`)
and ends well without a text. What it read itself was nothing, but a run before it, which
died, may have saved pages; the retried job then succeeds and they stay out of the text. If
no page is left to read under the new choice, `enqueue_missing` asks for no other job. `OcrReachesText` excepts
that job (`left`); a job that finds the choice changed between two pages makes the text of what it has, and is held to it.

## Backups

`Backups.tla`: `database` the one under its name, `scratch` and `aside` the ones beside it,
`shelf` the bytes at the managed paths, `pictures` what was sent by hand, `maker` and
`restorer` the variables of a backup and of a restore, `packages`. A library at work
(`WritesPicture`, `SavesPicture`, `ResetsPicture`, `DropsPicture`, `Reshelves`) changes
between `TakesSnapshot`, `DumpsDatabase`, `IncludesFile`, `ListsCovers`, `IncludesCover` and
`PublishesPackage` (`create.go`). A restore (`restore.go`) is `ReadsPackage`,
`LooksAtTarget`, `ComparesFiles`, `InstallsFile` and `InstallsCover`, `ChecksFiles`, then
`LoadsDatabase` into an empty database or `LoadsScratch`, `SetsAside` and `PutsInPlace`, and
`Finishes`; `PutsBack` is the second rename that fails. `Dies` may come anywhere and
`LosesInstance` is what a package is for. `before` is history, the instance a restore found.

The API and the worker are taken to be stopped while a restore runs, as its command asks;
that somebody is connected is looked at twice, in `LooksAtTarget` and by the rename itself.

`Retention.tla` is `Prune`: the walk of `pick`, the removals one at a time that may stop, and
the rounds that follow on what was left. `PrunedAsOnce` compares the folder with what one
pruning of all that was ever made would have kept (`LastOfEach`, said without a walk).

## The people

`People.tla`: `credit[t]` the authors of a work and their places, `fixed` and `origin` the lock
and the source of the author, `persons`, `alias`, `holds` (identifiers), `profile`, `pairs` the
pairs that may be one person, `merging[p]` the merge a request is in, `analysis` and `reader`
the two passes of the worker.

A change of the credits locks the work first (`lockWork`, `readWorkFields`) and is one step:
`SetAuthor`, `AddContributor`, `AcceptContributor`, `RemoveContributor`, `OrderContributors`,
`SetLock`. A merge (`people.Merge`) locks the pair and the rows it moves and nothing else, so
it is two steps: what it copied (`BeginMerge`), and the deletion of the other person with all
that still refers to it (`CommitMerge`), which waits for whoever holds a reference. The
analysis is four transactions (`LoadAuthor`, `ResolveAuthor`, `RemoveFirst`, `InsertFirst`,
`RecordAuthor`). `BeginRead` and `KeepProfile` are the request to Wikidata and what is kept of
it; `Identify`, `WriteProfile`, `ResetProfile` the staff; `Share` the statement
that copies a profile to another who holds the identifier. A choice of identifier
(`LinkProfile`) is three steps, `BeginLink`, `DropProfile` and `CommitLink`, and nobody sees
the first two: it locks the row of the profile, which a person need not have, so `_KEEP`
and `_SHARE` do not always wait for it. They are two steps too: what the statement sees of
`person_authority` (`KeepProfile`, `Share`), and the rows it writes (`WriteRows`), which wait for a
profile that is locked and fail if a person is gone. `missed` is history: whose
profile was written by a statement while a choice of their identifier was open or had
committed since the statement looked. `ProfileIsTheirs` excepts them, and `ProfileIsAlwaysTheirs`, without the exception,
is refuted. One choice is open at a time. An insert of another contributor does not wait for a
merge of the work (`RowsFree`): only who touches the rows of the two people does.

`crossed` of a merge is history: the works whose credits others changed while it was open.

## The runs

| Run | Instance | Properties | Shows |
| --- | --- | --- | --- |
| `queue_workers` | two Python loops of two processes, one work, two jobs each of ingestion and organize, two attempts, one rerun | `OneLivePerKind`, `LostMeansLost`, `ReadyMeansIngested`, `StaleWorkerIsFenced` | two workers that take jobs from each other, as leases lapse and are revived and calls are lost, do no harm to the jobs or to the status |
| `queue_live` | a Python and a Go loop, each dying once, one rerun | `EveryJobEnds` (under `FairSpec`), `ImplementsLifecycle` | whatever fails, a job ends, and by a path the abstract life allows |
| `files`, a behaviour of one of four components: | | | |
| ... `Storage` | two movers of two files whose metadata asks for the same two paths, and a task that trashes, restores, deletes and purges one of them, twice over; one crash; up to the first clash (`Orderly`) | `InStep`, `Recoverable`, `PathHoldsItsOwn`, `OverwritesOnlyInAClash` | disk and database agree or `Recover` can make them; nothing is overwritten or mixed up |
| ... `Referenced` | two contents, one of which an import converts; one origin, one request that may be an import, a change by people, a deletion, a crash | `ManagedHolds`, `OriginalsTracked`, `RemovesOnlyCopies` | a managed row has its bytes; no original is removed that was not stored |
| ... `Backups` | two files on three paths, one of which is moved; one work with a picture sent; one package, two restores, one death or loss | `AsItWas`, `FilesAccounted` | what a restore found is there when it ends, however it ends; what it restored knows which of its files it has |
| ... `Retention` | eight instants, in days of two, weeks of four, months of six; two days, one week, one month kept | `PrunedAsOnce` | rounds that stop half way lose nothing one pruning would have kept |
| `accounts` | two accounts, one session, token, invitation, ticket, directory entry and reset, two requests in progress, four admissions | `OneLocalOwner`, `PendingIsOwners`, `NothingOlderThanReset`, `OnePersonOneAccount`, `OwnerStays`, `AuthorityIsCurrent` | between any two steps of set-up, sign-in, reset, promotion, blocking, deletion, transfer and recovery nobody has more than the database grants |
| `reading` | two tabs, one device, one file, three saves, one mark by hand | `CompletionsCounted`, `PendingIsOthers`, `TabOverwritesHeard` | nothing a tab was not sent is overwritten by it; each finish counts once |
| `wiki` | two names one entity may carry both, two section keys, two generations, one thing by hand, both importers | `SameIsOne`, `NothingOfADeletedItem`, `WrittenByHandIsBack`, `ReplacesWhatItRead` | what the staff decided is on the new wiki, whenever it was decided |
| `wiki_runs` | a series of three books, two of them readable, two workers, one run, one fault | `DoneMeansStored`, `CancelIsObeyed`, `RunsStop` | a run ends, and says done only with its wiki stored |
| `catalogue`, a behaviour of one of three components: | | | |
| ... `Series` | one work, two names with a key each, two collections, the analysis and two requests | `FollowsSeries`, `NameLeadsHome` | the membership follows the series and a name leads to its collection |
| ... `People` | two works of three authors who are all alike, two identifiers, two requests of the staff at once | `AbsorbedIsFound`, `CreditsFollow`, `ProfileIsTheirs` | works, names and identifiers follow the person who stays; a profile is of its person |
| ... `Texts` | a scan and a comic read by a text and an OCR process, and a book that is embedded; one request, one mishap | `WholeAlone`, `EmbeddedIsWhole`, `OcrReachesText` | a text written by one reading at a time is whole, has what OCR read, and its vectors |
| `storage_overwrite`, `wiki_queue`, `series_lock`, `people_author` | smallest instance each | one each | a finding, below |

Bounds, all of them CONSTANTS. Queue: `Serials` (jobs of a kind a work may ever have) 2
where several jobs of a kind matter and 1 where one does, as a rerun uses the same row;
`MaxAttempts` 2, one that is retried and one that is the last; `MaxCrashes` 1, the lease of
a dead process and a second owner name. Two loops: the holder and the one that takes over;
a third would take over from the second in the same way. Storage: `MaxTrashings` 2, an
item and the next one of the same file, which a purge may take for the first; two files, the one that
goes and the one that wants its place; `MaxCrashes` 1, as a move that no crash cut short stays open
when its confirmation fails. The constraint `Orderly` stops at a clash, after which the properties promise nothing. Referenced: `MaxChanges` 1, an
original that is replaced while it is copied, verified or listed. Backups: `MaxRestores` 2, a
restore over what a failed one left; `MaxDisasters` 1, a death or a loss; `MaxReshelved` 1, a
file that moves between the snapshot and the copy. People: two requests, a merge and what
happens during it, two merges, or a choice of identifier and what is read for a person meanwhile. Texts: `MaxAsked` 1 and `MaxMishaps` 1, what is asked and what
goes wrong while a page is read; a second page or a second mishap repeats the same windows. Accounts: `MaxAdmissions` 4, two requests that
overlap with two before them; a session that ended leaves its name to another, so one name
is many sessions in turn. Reading: `MaxSaves` 3, the place that was read, the one that came
between and the one that overwrites. Wiki: `MaxGenerations` 2, the wiki that is replaced and
the one that replaces it; `MaxItems` 1. `MaxFaults` 1 of the wiki's runs: a death or a silence.

Components that share no state share a run: a behaviour of `files` or `catalogue` is one of one
component with the others at rest, so what is checked of each is what a run of its own would
check. What a theorem states and no run needs to repeat (the types, `TemporaryUsesAllAttempts`,
`IngestFeedsPipeline`, `SettledStays`, `DevicesNeverReopen`) is proved and in no `.cfg`; each was
checked by TLC before it was proved.

Deadlock is checked where the timers never stop (`queue_workers`, `queue_live`, `series_lock`);
elsewhere the system rests when nothing is asked of it, or a bound is used up.

## Findings

Each is a run that violates one property, and an entry under `findings` with the quotation.

- `storage_overwrite`: the check before a move looks at the paths of other locations and
  at the disk, not at the destinations that others have announced. The organize job and a
  reorganization that planned the same free name both pass, and one file is renamed over
  the other.
- `wiki_queue`: a worker that was silent gives back, by `id` alone, a run that the importer
  is closing. The second generation's bundle is deleted with the first, and the run stays
  running for ever, which keeps every other run waiting.
- `people_author`: naming the third author of a work as its author deletes the first and
  leaves the named one where it was, so the second leads; the field is locked as confirmed.
- `series_lock`: the analysis of a file reads the locks of a work in one transaction and
  writes the fields in another, by `id` alone. What a person sets in between, and locks by
  it, is overwritten.

## Refuted and kept out of the runs

These are definitions of the modules that TLC refutes too. Put one in the `.cfg` it names
in place of the properties there to see the trace.

| Property | Module, cfg | Trace |
| --- | --- | --- |
| `RunningWithinLimit` | JobQueue, `queue_workers` with two kinds of text and `SYMMETRY` as it is | the limit counts unexpired leases (`00006:38`) and a late heartbeat renews an expired one (`00005:91`): claim, the lease lapses, another loop claims, the first beats |
| `CancelIsNotRetried` | JobQueue, `queue_live` | asked to cancel, then fails for the moment: `jobs_fail` (`00005:142`) sends it back, and it runs again before it is dropped |
| `StaleWorkerIsFenced` | JobQueue, `queue_live` with two Go loops of one process | the loops of a `LoopPool` share an owner name (`runner.go:204`): one whose lease lapsed completes the job the other claimed |
| `CancelledIsSettled` | JobQueue, `queue_live` | a cancelled ingestion is only acknowledged (`runner.py:140`): the work stays `ANALYZING` |
| `RestoredIsKept` | Storage, `files` with `Does <- Anything`, `purge` among the tasks and no `CONSTRAINT` | the purge has removed nothing yet, the restore succeeds, the purge then erases the record (`trash.go:298`) |
| `ResetEndsAccess` | Accounts, `accounts` | a password was compared before the reset, its session is inserted after it (`auth.go:250`, `store.go:83`) |
| `OwnerResetOnlyByCommand` | Accounts, `accounts` | a reset is approved, the account becomes the owner, the link is used (`password_resets.go:308`) |
| `DeviceOverwritesHeard` | Reading, `reading` | the first send of a device finds no row to lock and is written over what came between (`kosync.go:204`); or `markSeen` commits and the answer is lost (`:338`) |
| `SameIsAlwaysOne` | Wiki, `wiki` | a decision to join loads the wiki and its entities, an import puts another wiki in its place, the decision saves the rule and joins nothing (`identity.go:254-285`, `:134`): the two are shown apart until the next generation |
| `ShownAsWritten` | Wiki, `wiki` | a section is not shown, as two entities answer to its name; an import reads the items; the section is changed, which waits for no row of the project (`manual.go:496`); the import shows the old one |
| `WrongStaysHidden` | Wiki, `wiki` | a sentence is marked wrong after the import read the list and before it deletes (`store.go:222`, `:252`) |
| `ReferencedIsKept` | Referenced, `Converted <- AsItComes`, no importers, no change, one deletion | transferred with the removal of the original left to do, deleted for good, found again by the scan, and then removed by the retry (`transfer.go:256`) |
| `RootsAreAuthorised` | Referenced, `files` | a scan that began before `RemoveRoot` catalogues after it |
| `RetiredIsEmpty` | Series, `catalogue` | the trigger ran, the collection is put away, the transaction commits (`00052:84`) |
| `RemovesFromIt` | Series, `catalogue` | the look at the collection and the change are two steps: the work that leaves has moved to another meanwhile |
| `WholeText` | Texts, `catalogue` | a second reading begins the generation the first is writing: `begin` (`00019:66`) clears what is there, the first goes on with the rest and publishes it: half a text |
| `PhotosTravel` | Backups, `files` with `Photographed = {work}` | `isManualCover` (`create.go:351`) knows the names of covers only: without the files, the photo of a person sent by hand is not in the package and the restored row names a picture that is not there |
| `ReadIsKept` | People, `catalogue` | the profile of an identifier is written by hand while it is being read: `_KEEP` keeps nothing, `_REMEMBER` says done, and the next person with the identifier is never asked for |
| `ProfileIsAlwaysTheirs` | People, `catalogue` | a person without a profile is given another identifier; before the commit (`people_profile_search.go:256`) `_KEEP` (`profiles.py:251`) sees the old one and keeps its profile, which the DELETE (`:238`) has already passed |
| `WorksFollow` | People, `catalogue` | of two merges that meet in one person, the deletion of one takes the credits the other has just given it |

## Proofs

The theorems hold for every value of the constants that satisfies the named assumptions of
the modules; TLC evaluates these assumptions in every run.

**`JobQueueProofs`**, from `KindsAssumption` and `WorkersAssumption`:

| Theorem | States | Rests on |
| --- | --- | --- |
| `Types_Correct` | `TypeOK` | `RunShape`: what a run holds at each of its points |
| `Attempts_Used` | `TemporaryUsesAllAttempts` | `AttemptsBounded`: no job has more attempts than it is allowed, a waiting one has fewer |
| `Queue_Implements_Lifecycle` | `ImplementsLifecycle` | the same, and a case split of what any step does to one job |
| `Lost_Means_Lost` | `LostMeansLost` | `Leases`: a running job carries the name of its holder's process, and the present one as long as the holder is at work on it |
| `Stale_Workers_Are_Fenced` | `StaleWorkerIsFenced` | `Leases`, and that every loop is a process of its own |
| `One_Live_Per_Kind` | `OneLivePerKind` | inductive as it stands, with the types |
| `Ready_Means_Ingested` | `ReadyMeansIngested` | `ReportsTrue`: a run that is about to report `READY` has a success in the table, and no rerun takes a success away |
| `Ingest_Feeds_Pipeline` | `IngestFeedsPipeline` | `IngestionsHaveWorks`, and that only a completion makes a success |

Most go through one fact, that every step leaves a job alone or is one of a few *job
steps* (`JobStep`: created, swept, started, renewed, closed, sent back, ...): an
invariant about a job is then proved once per job step and not once per action and job.
`TypeOK` is not inductive by itself: `Report` writes `run[w].arg` into the media status,
which is a status only because the run is at `reporting`; hence `RunShape`.
`StaleWorkerIsFenced` is false when two loops share an owner name, so its theorem assumes
that `Process` is injective and says so in its statement.

**`AccountsProofs`**, from `AccountsAssumption`: `Typed` (`TypeOK`), `OneOwner`
(`OneLocalOwner`), `OwnerAlways` (`OwnerStays`), `Authority` (`AuthorityIsCurrent`),
`Settled` (`SettledStays`), `Pending` (`PendingIsOwners`), `NothingOlder`
(`NothingOlderThanReset`), `OneAccount` (`OnePersonOneAccount`). The invariant has three
layers: the types with `Named` (the rows that are in use name an account), the one owner,
local and not blocked (`Sole`), and on top of them the promises. One lemma per variable
(`AccountsStep`, `CredsStep`, `LinksStep`, ...) says what any step of the forty may do to
it; each promise is then proved from the lemmas of the variables it names. `OneLocalOwner`
needs the trigger of the schema: without `TriggerAllows` an owner with a directory entry
can be made.

**`ReadingProofs`**, from `ReadingAssumption`: `Typed` (`TypeOK`), `Counted`
(`CompletionsCounted`), `NeverReopened` (`DevicesNeverReopen`), `PendingOfOthers`
(`PendingIsOthers`, strengthened by what a handler of a device holds, `OfDevices`),
`OverwritesHeard` (`TabOverwritesHeard`, from `Knows`: the place of the revision a tab is
based on is one it was sent).

**`WikiRunsProofs`**, from `RunsAssumption` and `NoRunAssumption`: `Typed` (`TypeOK`), `DoneStored`
(`DoneMeansStored`), `CancelObeyed` (`CancelIsObeyed`). The invariant adds the shapes of
the two local states, that the importer stores before it closes (`StoredFirst`), and that a
run asked to cancel keeps being asked (`StaysAsked`, `GoesOnUnasked`).

**`FilesProofs`**, about `Storage`, `Backups` and `Retention`.

`Storage`, from `StorageAssumption`: `StaysInStep` (`InStep`), `IsRecoverable` (`Recoverable`),
`PathIsItsOwn` (`PathHoldsItsOwn`), `NothingIsOverwritten` (`OverwritesOnlyInAClash`), for any tasks,
each of which may be asked anything about any file. Nothing is assumed of who works on what: what the tasks
do in a behaviour decides how far the promise goes, to the first clash. The invariant
`OrderlyInv` says that without a clash so far `StorageInv` holds and there is none now. `StorageInv`: what the row and the item of a file say of where its
bytes are, state by state (`Sound`); the bytes of a file lie at one place at most
(`OnePlace`); the paths of two files differ (`PathsApart`); and, for each point of a task, what
it has read and what it has done (`Fits`). The argument is `TaskStep`: a task changes
only the row and the bytes of its own file and brings them only to a place that is free of
everybody else, so that what is said of the other files stays. Why the place is free depends on the rename
(`TargetFree` for a move and a restore, `OwnPathFree` for what is undone, `BinFree` for the trash). A task that
only planned or listed something relies on nothing (`Fits`), so others may change its file meanwhile.
The fields of `StorageAssumption` say that the names are paths and that the folder of the trash is none of
them, as the layout starts no path with a dot.

`Backups`, from `BackupsAssumption`: `FoundAsItWas` (`AsItWas`), `FilesAccountedFor`
(`FilesAccounted`). The invariant: the list of every package is the files of its dump (`Listed`), a backup at
work holds what its steps so far have read (`MakerFits`), a restore has what it compared, brought and
set aside (`RestorerFits`), and what a restore that ended left is so until the next
one (`RestoredFits`).

`Retention`, from `RetentionAssumption`: `RoundsKeepWhatOneWould` (`PrunedAsOnce`). The invariant
`RetentionInv` says that what pruning once would keep of all that was ever made is in the folder
and is not among what is still to be removed. It rests on two lemmas. `PickKeepsTheLast`: the walk of `pick` keeps
exactly `LastOfEach`, for any folder, limit and buckets, monotonic or not; it follows the recursive
function of `Picked` from the newest instant to the oldest (`StepFits`), and as the library's
induction takes an operator, it is proved from the first instant at which it would fail
(`LeastNumber`). `LastOfFewer`: what would be kept of many is kept of fewer, if it is one of them.

**`ReferencedProofs`**, from `ReferencedAssumption`: `Typed` (`ReferencedTypeOK`),
`HeldWhereItSays` (`ManagedHolds`), `NotLostTrackOf` (`OriginalsTracked`),
`OnlyCopiesRemoved` (`RemovesOnlyCopies`). None is inductive by itself. The invariant adds
what each process knows at each of its points (`Fits`): a transfer has a target no row
points at until its `Switch`, so that neither its rename nor its `Undo` takes bytes a row
needs (`TransferFits`); an import stores under a name of its own (`RequestFits`); only the
original of what is kept is looked at in order to be removed (`RemovalFits`), which a retry has from
the list of cleanups (`CleanupKept`). `OriginalsTracked` is strengthened to `Tracked`: no
removal of an original that is as it was has passed its unlink and is about to be recorded.

**`CatalogueProofs`**, about `Series` and `People`.

`Series`, from `SeriesAssumption`: `SeriesTyped` (`TypeOK`), `NamesLeadHome`
(`NameLeadsHome`), `Follows` (`FollowsSeries`). The difficulty is in the open
transactions: `Open` says of each where it will put its works, as things are by now (`Placed`), that the name it
gives or makes leads nowhere else (`Renames`, `Makes`), what series the works had (`Had`), and of
any two that they hold different rows, keys and collections (`Apart`), which the row and advisory locks are for.

`People`, from `PeopleAssumption`: `PeopleTyped` (`PeopleTypeOK`), `AbsorbedFound`
(`AbsorbedIsFound`), `ProfilesTheirs` (`ProfileIsTheirs`), `CreditFollows` (`CreditsFollow`).
The invariant says of an open merge that the names it copied are those the person had, and
that a work nobody else changed credits the person only if it is to be moved or credits the one who stays
too (`CopiesHold`); that everybody it, a pair, an identifier or the analysis names exists
(`There`); and of profiles that whoever has one holds its identifier, those who are gone included (`Theirs`), unless `missed`, and of the rows a statement is about to write that they are of identifiers the person holds, unless a choice crossed it or the person is gone (`ReadingFits`).
The assumption says that the marks "none" and "manual" are no identifiers and that the
authors the works start with are names.

**`ContentProofs`**, about `Texts` and `Wiki`.

`Texts`, from `TextsAssumption` (a file has finitely many pages): `TextsAreTyped`
(`TextsTypeOK`), `WhatIsPublishedIsWhole` (`WholeAlone`), `WhatIsEmbeddedIsWhole`
(`EmbeddedIsWhole`), `PagesReachTheText` (`OcrReachesText`). `TextsInv` says of a reading
that met no other that it makes the generation after the published one and has written exactly what it has not left to
write (`WriterFits`), that two readings that write at once are both marked as met (`WritersMeet`), and
what an embedder holds of a text that is still the published one (`EmbedderFits`). `OcrInv` adds that
who is about to write or publish has a piece for each page that was read (`Covers`), and
so has, after an OCR job, every reading that may still publish (`OcrFits`). `PagesReachTheText` assumes one OCR process
(`OneOcr`): `docker-compose.full.yml:218` runs one service for each of the two kinds. With two the property is
false: one whose lease ran out saves a page while the other is making the text. That `InOrder(S)` lists all of
`S` needs an order to exist for every finite set, an induction over data after all: a set of which it fails
has a smallest subset of which it fails (`SmallestSet`, from the library's well-founded
orders), so no operator has to be passed to a theorem.

`Wiki`, from `WikiAssumption`: `WikiIsTyped` (`TypeOK`), `WhatIsJoinedStaysJoined` (`SameIsOne`),
`WhatIsTakenAwayIsGone` (`NothingOfADeletedItem`), `WhatIsWrittenByHandIsBack` (`WrittenByHandIsBack`),
`AnImportReplacesWhatItRead` (`ReplacesWhatItRead`). Lemmas say what each operator makes of a project: `MergedIs`,
`RuledIs`, `WithItemsIs`, `WithoutIs`, `ImportedIs` and, for what an import stores, `DecidedIs`. `WikiInv` adds the
imports (`ImportsFit`): one at most is between its first and its last statement, the project it
replaces is still the one it read, and, once it has read the rules, a rule that joins and is still
there is among them, unless `late` says it was saved too late: a decision that was to join
something in this wiki waits. That is why a wiki is joined
although the generator was told nothing. `DecisionFits` says of a decision that it
read a project of the past, and that what the books wrote of it was so then. That only the commit changes the project while one is at
work (`StoredIsCommitted`) gives the two action properties. The assumption says that the mark of a wiki that is
not there is no project.
Only model-checked:

- `EveryJobEnds` and `RunsStop`: liveness under fairness is out of the prover's reach.
- The properties that are violated.

## Not modelled

- **Duplicates, versions, equivalence**: single transactions over relations; what is hard in
  them is numeric, the similarity of names, titles and texts.
- **Layout of the library** (`storage/layout.go`): pure formatting of paths; the moves only
  need to know that a target was chosen and whether it was free.
- **Data export**: one row per export and one job of the queue, no two writers.
- **Dictionary, notes, graph, search**: queries and single-statement edits.
- **OPDS, catalogue, web front end**: read-only views and a user interface.
- **Process wiring, health, mail**: configuration and start-up.
Of the modelled parts: orphans of the storage (`FindOrphans` reads the disk and the two
tables in three statements, so a move confirmed between the first and the last is reported
as an orphan; nothing is removed by it without a person), retired works and covers, empty
folders; the Redis wake-up; the deletion of a work with its jobs; the pages the readers of a wiki see,
aliases, ties and quotes; the requests to the language model and the cache of answers.

## What is left

1. The composition of `Referenced` and `Storage` at the destination of a transfer, where
   both choose a free name, and of `Series` with the trash and personal collections.
2. What still holds after a clash that is harmless: two restores or two deletions of one item,
   where the second finds nothing left to do.
