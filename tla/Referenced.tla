----------------------------- MODULE Referenced -----------------------------
(***************************************************************************)
(* Files the library only points at: the scan that catalogues them where   *)
(* they are, their transfer into the managed storage, the import of a      *)
(* directory, and the removal of the originals that were copied, at once   *)
(* or by a later retry (scanner.go, transfer.go, upload.go).               *)
(*                                                                         *)
(* The jobs run in one loop, the requests beside it, and the people whose  *)
(* directory it is change it at any time.  No transaction spans disk and   *)
(* database.  A file is known by its bytes, which no two files of the      *)
(* catalogue share; a managed path that another goroutine may want for     *)
(* another file is the matter of Storage.  A commit takes effect or fails: *)
(* one that took effect and reported an error is left out.                 *)
(***************************************************************************)
EXTENDS Naturals, FiniteSets

CONSTANTS
    Contents,       \* the bytes a file may have
    Converted,      \* [Contents -> Contents], what an import stores of them: text in UTF-8
    Origins,        \* the places of the authorised directory
    Jobs,           \* the loop of the file jobs
    Requests,       \* requests that may be in progress at once
    Importers,      \* those among them that may be an import
    MaxChanges,     \* bound: changes people make to the directory
    MaxDeletions,   \* bound: files deleted for good
    MaxRestarts,     \* bound
    Nothing, NoPlace

Layout == <<"layout">>
ById(c) == <<"suffixed", c>>
Upload(q, c) == <<"upload", q, c>>
Managed == {Layout} \cup {ById(c) : c \in Contents} \cup {Upload(q, c) : q \in Requests, c \in Contents}
Everywhere == Origins \cup Managed
Processes == {Jobs} \cup Requests

ASSUME ReferencedAssumption ==
    /\ Converted \in [Contents -> Contents]
    /\ Nothing \notin Contents /\ NoPlace \notin Everywhere /\ Jobs \notin Requests
    /\ Origins \cap Managed = {} /\ Importers \subseteq Requests
    /\ MaxChanges \in Nat /\ MaxDeletions \in Nat /\ MaxRestarts \in Nat

VARIABLES
    bytes,       \* whose bytes lie at each place
    stamp,      \* size and time of each original, by the number of the change
    entry,        \* the file with these bytes and its location
    cleanup,    \* storage_cleanups: the bytes whose original may be removed, by path
    authorised, \* the directory is in storage_roots
    asked,      \* the files of the transfer jobs that did not end
    work,       \* the local variables of the loop and of the requests
    origin,     \* history: where a file was transferred from, while the original is as it was
    destroyed,  \* history: the bytes that were deleted for good
    untouched,  \* history: nobody but the server changed the original since it was catalogued
    changes, deletions, restarts

referencedVars == <<bytes, stamp, entry, cleanup, authorised, asked, work, origin, destroyed, untouched, changes, deletions, restarts>>
bounds == <<changes, deletions, restarts>>
history == <<origin, destroyed, untouched>>

-----------------------------------------------------------------------------

Row == [mode : {"none", "referenced", "managed"}, at : Everywhere \cup {NoPlace},
        state : {"ok", "missing", "conflict"}]
NoRow == [mode |-> "none", at |-> NoPlace, state |-> "ok"]

\* A stamp of 0 is none: the retry compares the bytes only.
Work == [pc : {"idle", "copying", "checking", "renaming", "switching", "undoing",
               "verifying", "unlinking", "forgetting", "retrying",
               "storing", "inserting", "scanning", "cataloguing", "marking"},
         file : Contents \cup {Nothing}, copied : Contents \cup {Nothing}, from : Origins \cup {NoPlace}, to : Managed \cup {NoPlace},
         stamp : Nat, todo : SUBSET (Origins \X (Contents \cup {Nothing}))]
NoWork == [pc |-> "idle", file |-> Nothing, copied |-> Nothing, from |-> NoPlace, to |-> NoPlace, stamp |-> 0, todo |-> {}]

Stands(p, pc) == work[p].pc = pc
SetWork(p, w) == work' = [work EXCEPT ![p] = w]
Steps(p, pc) == SetWork(p, [work[p] EXCEPT !.pc = pc])
Leaves(p) == SetWork(p, NoWork)

\* A retry goes on with the next of its list.
GoesOn(p) == SetWork(p, IF work[p].todo = {} THEN NoWork ELSE [NoWork EXCEPT !.pc = "retrying", !.todo = work[p].todo])

Present(q) == bytes[q] # Nothing
Referenced(c) == entry[c].mode = "referenced"
HasPath(q) == \E c \in Contents : entry[c].mode = "managed" /\ entry[c].at = q
\* A transfer job ends for good, or is tried again.
JobEnds(c) == asked' = asked \ {c}
JobFails(c) == asked' \in {asked, asked \ {c}}

-----------------------------------------------------------------------------
(* Transfer. *)

\* MoveToManaged of storage_admin.go: a job, for a file that is available.
Ask(c) ==
    /\ Referenced(c) /\ entry[c].state = "ok"
    /\ asked' = asked \cup {c}
    /\ UNCHANGED <<bytes, stamp, entry, cleanup, authorised, work, history, bounds>>

\* plan: the layout path, or the one with a suffix of the id.
Occupied(q) == HasPath(q) \/ Present(q)
Targets(c) == IF ~Occupied(Layout) THEN {Layout} ELSE {ById(c)} \ {q \in Managed : Occupied(q)}

\* MoveToManaged of transfer.go, up to the copy: what it reads.
BeginTransfer(c) ==
    /\ Stands(Jobs, "idle") /\ c \in asked
    /\ LET o == entry[c].at
       IN  IF Referenced(c) /\ entry[c].state = "ok" /\ Present(o)
           THEN \/ /\ \E q \in Targets(c) :
                        SetWork(Jobs, [NoWork EXCEPT !.pc = "copying", !.file = c, !.from = o, !.to = q, !.stamp = stamp[o]])
                   /\ UNCHANGED asked
                \/ Targets(c) = {} /\ JobFails(c) /\ UNCHANGED work
           ELSE JobEnds(c) /\ UNCHANGED work
    /\ UNCHANGED <<bytes, stamp, entry, cleanup, authorised, history, bounds>>

\* Mutant: the sum of the copy is not compared.
CopiedAnyhow(p) == Present(work[p].from)

\* The bytes that were copied are those that were catalogued.
Catalogued(p) == bytes[work[p].from] = work[p].file

\* The copy to the staging folder, and its sum.
Copy ==
    /\ Stands(Jobs, "copying")
    /\ LET c == work[Jobs].file
           o == work[Jobs].from
       IN  IF Catalogued(Jobs)
           THEN /\ SetWork(Jobs, [work[Jobs] EXCEPT !.pc = "checking", !.copied = bytes[o]])
                /\ UNCHANGED <<entry, asked>>
           ELSE /\ entry' = IF Present(o) /\ Referenced(c) THEN [entry EXCEPT ![c].state = "conflict"] ELSE entry
                /\ Leaves(Jobs) /\ JobEnds(c)
    /\ UNCHANGED <<bytes, stamp, cleanup, authorised, history, bounds>>

\* "An existing file is never overwritten."
CheckTarget ==
    /\ Stands(Jobs, "checking")
    /\ IF Present(work[Jobs].to)
       THEN Leaves(Jobs) /\ JobFails(work[Jobs].file)
       ELSE Steps(Jobs, "renaming") /\ UNCHANGED asked
    /\ UNCHANGED <<bytes, stamp, entry, cleanup, authorised, history, bounds>>

Publish ==
    /\ Stands(Jobs, "renaming")
    /\ bytes' = [bytes EXCEPT ![work[Jobs].to] = work[Jobs].copied]
    /\ SetWork(Jobs, [work[Jobs] EXCEPT !.pc = "switching", !.copied = Nothing])
    /\ UNCHANGED <<stamp, entry, cleanup, authorised, asked, history, bounds>>

\* Mutant: the original is listed by a statement of its own, later.
NotListed(o, c) == cleanup

\* In the same transaction, the original waits to be removed.
Listed(o, c) == [cleanup EXCEPT ![o] = c]

\* A removal of what was at o before is still to be recorded.
RemovalOpen(o) == \E p \in Processes : Stands(p, "forgetting") /\ work[p].from = o

\* switchToManaged
Switch ==
    /\ Stands(Jobs, "switching")
    /\ LET c == work[Jobs].file
           o == work[Jobs].from
           q == work[Jobs].to
       IN  IF Referenced(c) /\ ~HasPath(q)
           THEN /\ entry' = [entry EXCEPT ![c] = [mode |-> "managed", at |-> q, state |-> "ok"]]
                /\ cleanup' = Listed(o, c)
                /\ origin' = [origin EXCEPT ![c] = IF bytes[o] = c /\ ~RemovalOpen(o) THEN o ELSE NoPlace]
                /\ Steps(Jobs, "verifying")
           ELSE Steps(Jobs, "undoing") /\ UNCHANGED <<entry, cleanup, origin>>
    /\ UNCHANGED <<bytes, stamp, authorised, asked, destroyed, untouched, bounds>>

\* undo; os.Remove may fail, which nobody looks at.
Undo ==
    /\ Stands(Jobs, "undoing")
    /\ bytes' \in {bytes, [bytes EXCEPT ![work[Jobs].to] = Nothing]}
    /\ Leaves(Jobs) /\ JobFails(work[Jobs].file)
    /\ UNCHANGED <<stamp, entry, cleanup, authorised, history, bounds>>

-----------------------------------------------------------------------------
(* RemoveVerifiedOrigin, of a transfer, of an import and of a retry. *)

\* After the removal the job of a transfer succeeds.
RemovalEnds(p) ==
    /\ GoesOn(p)
    /\ IF p = Jobs THEN JobEnds(work[p].file) ELSE UNCHANGED asked

Forgotten(o) == [cleanup EXCEPT ![o] = Nothing]

\* pend: the first sum of a path stays.
Pending(o, c) == IF cleanup[o] = Nothing THEN [cleanup EXCEPT ![o] = c] ELSE cleanup

\* Mutant: only the time and the size are compared, which a retry does not know.
StampSame(p, o) == work[p].stamp \in {0, stamp[o]}

\* The same file as when it was read, and the same bytes.
Unchanged(p, o) == work[p].stamp \in {0, stamp[o]} /\ bytes[o] = work[p].file

Verify(p) ==
    /\ Stands(p, "verifying")
    /\ LET o == work[p].from
       IN  \/ ~Present(o) /\ Steps(p, "forgetting") /\ UNCHANGED <<cleanup, asked>>
           \/ /\ Present(o) /\ ~Unchanged(p, o)
              /\ cleanup' \in {cleanup, Pending(o, work[p].file)}
              /\ RemovalEnds(p)
           \/ /\ Present(o) /\ Unchanged(p, o)
              /\ Steps(p, "unlinking")
              /\ UNCHANGED <<cleanup, asked>>
    /\ UNCHANGED <<bytes, stamp, entry, authorised, history, bounds>>

\* os.Remove, or its failure.
Unlink(p) ==
    /\ Stands(p, "unlinking")
    /\ LET o == work[p].from
       IN  \/ /\ bytes' = [bytes EXCEPT ![o] = Nothing]
              /\ origin' = [c \in Contents |-> IF origin[c] = o THEN NoPlace ELSE origin[c]]
              /\ Steps(p, "forgetting")
              /\ UNCHANGED <<cleanup, asked>>
           \/ /\ cleanup' \in {cleanup, Pending(o, work[p].file)}
              /\ RemovalEnds(p)
              /\ UNCHANGED <<bytes, origin>>
    /\ UNCHANGED <<stamp, entry, authorised, destroyed, untouched, bounds>>

ForgetCleanup(p) ==
    /\ Stands(p, "forgetting")
    /\ cleanup' \in {cleanup, Forgotten(work[p].from)}
    /\ RemovalEnds(p)
    /\ UNCHANGED <<bytes, stamp, entry, authorised, history, bounds>>

\* RetryCleanups: the list is read once.
BeginRetry(q) ==
    /\ Stands(q, "idle")
    /\ LET todo == {<<o, cleanup[o]>> : o \in {x \in Origins : cleanup[x] # Nothing}}
       IN  todo # {} /\ SetWork(q, [NoWork EXCEPT !.pc = "retrying", !.todo = todo])
    /\ UNCHANGED <<bytes, stamp, entry, cleanup, authorised, asked, history, bounds>>

RetryOne(q) ==
    /\ Stands(q, "retrying")
    /\ \E t \in work[q].todo :
          SetWork(q, [NoWork EXCEPT !.pc = "verifying", !.from = t[1], !.file = t[2], !.todo = work[q].todo \ {t}])
    /\ UNCHANGED <<bytes, stamp, entry, cleanup, authorised, asked, history, bounds>>

-----------------------------------------------------------------------------
(* HandleBulkImport, of one file, with removeOriginals. *)

\* The walk, the copy and its sum.  A file that is there already is left alone.
BeginImport(q, o) ==
    /\ Stands(q, "idle") /\ q \in Importers
    /\ Present(o)
    /\ entry[Converted[bytes[o]]].mode = "none"
    /\ SetWork(q, [NoWork EXCEPT !.pc = "storing", !.file = bytes[o], !.from = o, !.to = Upload(q, Converted[bytes[o]]), !.stamp = stamp[o]])
    /\ UNCHANGED <<bytes, stamp, entry, cleanup, authorised, asked, history, bounds>>

\* ingest: the file is published under a name nobody else has, ...
StoreUpload(q) ==
    /\ Stands(q, "storing")
    /\ bytes' = [bytes EXCEPT ![work[q].to] = Converted[work[q].file]]
    /\ Steps(q, "inserting")
    /\ UNCHANGED <<stamp, entry, cleanup, authorised, asked, history, bounds>>

\* ... and the row is inserted, or the file removed: the same bytes may have come meanwhile.
InsertUpload(q) ==
    /\ Stands(q, "inserting")
    /\ LET c == Converted[work[q].file]
       IN  \/ /\ entry[c].mode = "none"
              /\ entry' = [entry EXCEPT ![c] = [mode |-> "managed", at |-> work[q].to, state |-> "ok"]]
              /\ Steps(q, "verifying")
              /\ UNCHANGED bytes
           \/ /\ bytes' = [bytes EXCEPT ![work[q].to] = Nothing]
              /\ Leaves(q)
              /\ UNCHANGED entry
    /\ UNCHANGED <<stamp, cleanup, authorised, asked, history, bounds>>

-----------------------------------------------------------------------------
(* Scan. *)

\* The job needs an authorised directory when it begins.
BeginScan ==
    /\ Stands(Jobs, "idle") /\ authorised
    /\ SetWork(Jobs, [NoWork EXCEPT !.pc = "scanning"])
    /\ UNCHANGED <<bytes, stamp, entry, cleanup, authorised, asked, history, bounds>>

Visited(o) == \E t \in work[Jobs].todo : t[1] = o
Seen(o) == SetWork(Jobs, [work[Jobs] EXCEPT !.todo = @ \cup {<<o, bytes[o]>>}])
CataloguedAt(o) == {c \in Contents : Referenced(c) /\ entry[c].at = o}

\* visit of what is catalogued: recheck.  A change that keeps the size is not noticed.
Recheck(o) ==
    /\ Stands(Jobs, "scanning") /\ Present(o) /\ ~Visited(o)
    /\ \E c \in CataloguedAt(o) :
          \/ bytes[o] # c /\ entry[c].state # "conflict" /\ entry' = [entry EXCEPT ![c].state = "conflict"]
          \/ entry' = IF entry[c].state = "missing" THEN [entry EXCEPT ![c].state = "ok"] ELSE entry
    /\ Seen(o)
    /\ UNCHANGED <<bytes, stamp, cleanup, authorised, asked, history, bounds>>

\* visit of what is not: its sum, ...
HashNew(o) ==
    /\ Stands(Jobs, "scanning") /\ Present(o) /\ ~Visited(o)
    /\ CataloguedAt(o) = {}
    /\ IF entry[bytes[o]].mode = "none"
       THEN SetWork(Jobs, [work[Jobs] EXCEPT !.pc = "cataloguing", !.file = bytes[o], !.from = o, !.todo = @ \cup {<<o, bytes[o]>>}])
       ELSE Seen(o)
    /\ UNCHANGED <<bytes, stamp, entry, cleanup, authorised, asked, history, bounds>>

\* ... and the rows of a new work, unless the same bytes were catalogued meanwhile.
Catalogue ==
    /\ Stands(Jobs, "cataloguing")
    /\ LET c == work[Jobs].file
           o == work[Jobs].from
       IN  \/ /\ entry[c].mode = "none"
              /\ entry' = [entry EXCEPT ![c] = [mode |-> "referenced", at |-> o, state |-> "ok"]]
              /\ untouched' = IF bytes[o] = c THEN untouched \cup {c} ELSE untouched \ {c}
           \/ UNCHANGED <<entry, untouched>>
    /\ SetWork(Jobs, [work[Jobs] EXCEPT !.pc = "scanning", !.file = Nothing, !.from = NoPlace])
    /\ UNCHANGED <<bytes, stamp, cleanup, authorised, asked, origin, destroyed, bounds>>

\* markMissing: of the rows that are there when the walk is over.  A request that
\* went away, or an error, ends the scan before.
MarkMissing ==
    /\ Stands(Jobs, "scanning")
    /\ \A o \in Origins : Present(o) => Visited(o)
    /\ entry' = [c \in Contents |-> IF Referenced(c) /\ entry[c].state = "ok" /\ ~Visited(entry[c].at)
                                  THEN [entry[c] EXCEPT !.state = "missing"] ELSE entry[c]]
    /\ Leaves(Jobs)
    /\ UNCHANGED <<bytes, stamp, cleanup, authorised, asked, history, bounds>>

-----------------------------------------------------------------------------
(* The directories and the catalogue. *)

AddRoot ==
    /\ ~authorised /\ authorised' = TRUE
    /\ UNCHANGED <<bytes, stamp, entry, cleanup, asked, work, history, bounds>>

\* "It refuses while catalogued files still point into it."
RemoveRoot ==
    /\ authorised /\ authorised' = FALSE
    /\ \A c \in Contents : ~Referenced(c)
    /\ UNCHANGED <<bytes, stamp, entry, cleanup, asked, work, history, bounds>>

\* PurgeRetired: the records of a retired work go, its files in the directory stay.
Purge(c) ==
    /\ deletions < MaxDeletions /\ deletions' = deletions + 1
    /\ Referenced(c)
    /\ entry' = [entry EXCEPT ![c] = NoRow]
    /\ UNCHANGED <<bytes, stamp, cleanup, authorised, asked, work, history, changes, restarts>>

\* Delete of trash.go, of a file that is in the trash, as Storage has it step by step.
\* Its row goes; storage_cleanups keeps the original without it.
DeleteForGood(c) ==
    /\ deletions < MaxDeletions /\ deletions' = deletions + 1
    /\ entry[c].mode = "managed"
    /\ entry' = [entry EXCEPT ![c] = NoRow]
    /\ bytes' = [bytes EXCEPT ![entry[c].at] = Nothing]
    /\ destroyed' = destroyed \cup {c}
    /\ origin' = [origin EXCEPT ![c] = NoPlace]
    /\ UNCHANGED <<stamp, cleanup, authorised, asked, work, untouched, changes, restarts>>

\* The people of the directory write, replace, remove or put back a file.
Change(o, c) ==
    /\ changes < MaxChanges /\ changes' = changes + 1
    /\ bytes' = [bytes EXCEPT ![o] = c]
    /\ stamp' = [stamp EXCEPT ![o] = changes + 2]
    /\ origin' = [d \in Contents |-> IF origin[d] = o THEN NoPlace ELSE origin[d]]
    /\ untouched' = {d \in untouched : entry[d].at # o}
    /\ UNCHANGED <<entry, cleanup, authorised, asked, work, destroyed, deletions, restarts>>

-----------------------------------------------------------------------------
(* Failures. *)

\* A call to the database or to the file system fails.
GivesUp(p) ==
    /\ \/ Stands(p, "switching") /\ Steps(p, "undoing") /\ UNCHANGED asked
       \/ Stands(p, "scanning") /\ Leaves(p) /\ UNCHANGED asked
       \/ work[p].pc \in {"copying", "checking", "renaming"} /\ Leaves(p) /\ JobFails(work[p].file)
       \/ Stands(p, "storing") /\ Leaves(p) /\ UNCHANGED asked
    /\ UNCHANGED <<bytes, stamp, entry, cleanup, authorised, history, bounds>>

Restart ==
    /\ restarts < MaxRestarts /\ restarts' = restarts + 1
    /\ work' = [p \in Processes |-> NoWork]
    /\ UNCHANGED <<bytes, stamp, entry, cleanup, authorised, asked, history, changes, deletions>>

-----------------------------------------------------------------------------

ReferencedInit ==
    /\ bytes \in [Everywhere -> Contents \cup {Nothing}] /\ \A q \in Managed : bytes[q] = Nothing
    /\ stamp = [o \in Origins |-> 1]
    /\ entry = [c \in Contents |-> NoRow]
    /\ cleanup = [o \in Origins |-> Nothing]
    /\ authorised = FALSE /\ asked = {}
    /\ work = [p \in Processes |-> NoWork]
    /\ origin = [c \in Contents |-> NoPlace] /\ destroyed = {} /\ untouched = {}
    /\ changes = 0 /\ deletions = 0 /\ restarts = 0

Transfer ==
    \/ \E c \in Contents : BeginTransfer(c)
    \/ Copy \/ CheckTarget \/ Publish \/ Switch \/ Undo

Removal(p) == Verify(p) \/ Unlink(p) \/ ForgetCleanup(p)

Scan ==
    \/ BeginScan \/ Catalogue \/ MarkMissing
    \/ \E o \in Origins : Recheck(o) \/ HashNew(o)

Request(q) ==
    \/ BeginRetry(q) \/ RetryOne(q)
    \/ \E o \in Origins : BeginImport(q, o)
    \/ StoreUpload(q) \/ InsertUpload(q)

ReferencedNext ==
    \/ Transfer \/ Scan
    \/ \E p \in Processes : Removal(p) \/ GivesUp(p)
    \/ \E q \in Requests : Request(q)
    \/ AddRoot \/ RemoveRoot
    \/ \E c \in Contents : Ask(c) \/ Purge(c) \/ DeleteForGood(c)
    \/ \E o \in Origins, c \in Contents \cup {Nothing} : Change(o, c)
    \/ Restart

ReferencedSpec == ReferencedInit /\ [][ReferencedNext]_referencedVars

-----------------------------------------------------------------------------
(* Properties. *)

ReferencedTypeOK ==
    /\ bytes \in [Everywhere -> Contents \cup {Nothing}]
    /\ stamp \in [Origins -> Nat]
    /\ entry \in [Contents -> Row]
    /\ cleanup \in [Origins -> Contents \cup {Nothing}]
    /\ authorised \in BOOLEAN /\ asked \subseteq Contents
    /\ work \in [Processes -> Work]
    /\ origin \in [Contents -> Origins \cup {NoPlace}]
    /\ destroyed \subseteq Contents /\ untouched \subseteq Contents
    /\ changes \in Nat /\ deletions \in Nat /\ restarts \in Nat

\* A managed file has its bytes where its row says, whatever transfers, imports,
\* restarts and undone copies came before ("a failure at any point keeps at least one
\* valid copy", transfer.go).
ManagedHolds == \A c \in Contents : entry[c].mode = "managed" => bytes[entry[c].at] = c

\* The bytes, or what an import makes of them, are in the managed storage, or were and
\* somebody deleted them for good.
Stored(c) ==
    \E d \in {c, Converted[c]} :
        \/ entry[d].mode = "managed" /\ bytes[entry[d].at] = d
        \/ d \in destroyed

\* An original is found fit for removal only while the managed storage has the bytes it
\* has then, whether the transfer, an import or a retry weeks later looks at it
\* ("only if it has not changed since it was read").
RemovesOnlyCopies ==
    [][\A p \in Processes :
          Stands(p, "verifying") /\ work'[p].pc = "unlinking" => Stored(bytes[work[p].from])]_referencedVars

\* "A crash between the two cannot lose track of the original" (00008): an original that
\* was copied and is still as it was is on the list of those to remove.  Excepted is one
\* that people put back, and a second transfer listed, while the removal of the one before
\* it has yet to delete its row by the path (transfer.go:213; see Switch).
OriginalsTracked == \A c \in Contents : origin[c] # NoPlace => cleanup[origin[c]] = c

\* "It never moves, renames or changes those files" (scanner.go): a referenced file that
\* nobody else touched since it was catalogued is where its row says.  A retry removes
\* the original of a file that was deleted for good and then catalogued again.
ReferencedIsKept == \A c \in Contents : Referenced(c) /\ c \in untouched => bytes[entry[c].at] = c

\* "Those would be left with a location nobody may read" (storage_admin.go): files are
\* referenced only in an authorised directory.  A scan that began before the directory
\* was removed catalogues in it.
RootsAreAuthorised == (\E c \in Contents : Referenced(c)) => authorised
=============================================================================
