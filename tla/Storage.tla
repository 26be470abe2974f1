------------------------------- MODULE Storage -------------------------------
(***************************************************************************)
(* The managed storage of Codice: where the database says that the bytes   *)
(* of a file are (storage_locations, trash_items) and where they are on    *)
(* disk.  No transaction spans the two, so every operation is a sequence   *)
(* of steps: Move of mover.go announces, renames and confirms; TrashFile,  *)
(* Restore and Delete of trash.go touch the disk first and record it       *)
(* afterwards.  The organize loop, the requests of administrators and the  *)
(* hourly purge run them at once in one process, which may die between any *)
(* two steps; Recover settles the interrupted moves when it starts again.  *)
(*                                                                         *)
(* A file has one managed location.  Bytes are known by the file they were *)
(* stored for, so what a rename overwrites is lost.  Folders, orphans and  *)
(* the deletion of retired works are left out.                             *)
(***************************************************************************)
EXTENDS Naturals, FiniteSets

CONSTANTS
    Files,
    Paths,          \* the managed paths outside the trash folder
    Home,           \* [Files -> Paths], where an upload was stored
    Layouts,        \* [Files -> SUBSET Paths], the paths its metadata may ask for
    Suffixed,       \* [Files -> Paths], the layout path with a suffix of its id
    Beside,         \* [Files -> Paths], the name Restore falls back to
    Tasks,          \* the goroutines that work on the storage
    Does,           \* [Tasks -> SUBSET (Operations \X Files)], what each may be asked
    MaxTrashings,   \* bound: how many times each file goes to the trash
    MaxCrashes,     \* bound: how many times the process dies
    NoFile, NoPath

Operations == {"move", "trash", "restore", "delete", "purge"}

\* .trash/<file id>/<name>
Bin(f) == <<".trash", f>>
Places == Paths \cup {Bin(f) : f \in Files}

ASSUME StorageAssumption ==
    /\ Home \in [Files -> Paths]
    /\ \A f, g \in Files : Home[f] = Home[g] => f = g
    /\ Layouts \in [Files -> SUBSET Paths]
    /\ Suffixed \in [Files -> Paths]
    /\ Beside \in [Files -> Paths]
    /\ Does \in [Tasks -> SUBSET (Operations \X Files)]
    /\ NoFile \notin Files
    /\ NoPath \notin Places
    /\ \A f \in Files : Bin(f) \notin Paths

\* What a move of a file may ask for, and every path it may come to have.
Destinations(f) == Layouts[f] \cup {Suffixed[f]}
PathsOf(f) == {Home[f], Beside[f]} \cup Destinations(f)

VARIABLES
    loc,        \* the managed location of each file
    item,       \* its item in the trash
    disk,       \* whose bytes lie at each place
    op,         \* what each task is doing: its local variables
    serving,    \* FALSE while the process starts
    crashes,    \* bound: how many times it died
    clashed     \* history: two tasks have come in each other's way

vars == <<loc, item, disk, op, serving, crashes, clashed>>

-----------------------------------------------------------------------------

\* A deleted file has no row any more: "gone".
Location == [state : {"ok", "moving", "trashed", "conflict", "missing", "gone"},
             path : Paths, to : Paths \cup {NoPath}]

\* The id is kept when the row is deleted: the next item has the next one.
Item == [there : BOOLEAN, id : Nat, original : Paths \cup {NoPath}, due : BOOLEAN]

Idle == [pc |-> "idle", file |-> NoFile, from |-> NoPath, to |-> NoPath, id |-> 0]

Ops == [pc : {"idle", "planned", "moving", "reverting", "confirming",
              "trashing", "recording", "untrashing",
              "restoring", "restored", "unrestoring",
              "expired", "removing", "erasing"},
        file : Files \cup {NoFile},
        from : Places \cup {NoPath},
        to : Places \cup {NoPath},
        id : Nat]

At(t, pc) == serving /\ op[t].pc = pc
Goto(t, pc) == op' = [op EXCEPT ![t].pc = pc]
Return(t) == op' = [op EXCEPT ![t] = Idle]

Starts(t, operation, f) == At(t, "idle") /\ <<operation, f>> \in Does[t]

Begin(t, pc, f, from, to) ==
    op' = [op EXCEPT ![t] = [pc |-> pc, file |-> f, from |-> from, to |-> to, id |-> item[f].id]]

OnDisk(q) == disk[q] # NoFile

\* os.Rename replaces what is at the destination.
Renamed(from, to) == [disk EXCEPT ![to] = disk[from], ![from] = NoFile]

\* Mutant: the place of a file in the trash counts as free.
HeldByOtherLive(f, p) ==
    \E g \in Files \ {f} : loc[g].state \notin {"gone", "trashed"} /\ loc[g].path = p

\* The unique index storage_locations_path_key.
HeldByOther(f, p) == \E g \in Files \ {f} : loc[g].state # "gone" /\ loc[g].path = p

\* UPDATE storage_locations of a file: nothing, when its row is gone.
Updated(f, row) == IF loc[f].state = "gone" THEN loc ELSE [loc EXCEPT ![f] = row]

-----------------------------------------------------------------------------
(* Move. *)

Busy(f, p) == p # loc[f].path /\ (HeldByOther(f, p) \/ OnDisk(p))

Resolve(f, p) == IF Busy(f, p) THEN Suffixed[f] ELSE p

\* plan: the destination is chosen some time before the move.
PlanMove(t, f) ==
    /\ Starts(t, "move", f)
    /\ loc[f].state = "ok"
    /\ \E p \in Layouts[f] :
        LET target == Resolve(f, p)
        IN  /\ ~Busy(f, target)
            /\ target # loc[f].path
            /\ Begin(t, "planned", f, NoPath, target)
    /\ UNCHANGED <<loc, item, disk, serving, crashes>>

\* Mutant: the look that the plan had at the destination is trusted.
MovableAsPlanned(f, target) ==
    /\ loc[f].state = "ok"
    /\ loc[f].path # target
    /\ OnDisk(loc[f].path)

Movable(f, target) ==
    /\ loc[f].state = "ok"
    /\ loc[f].path # target
    /\ ~HeldByOther(f, target)
    /\ ~OnDisk(target)
    /\ OnDisk(loc[f].path)

\* Say what is about to happen.
BeginMove(t) ==
    LET f == op[t].file
    IN  /\ At(t, "planned")
        /\ IF Movable(f, op[t].to)
           THEN /\ loc' = [loc EXCEPT ![f].state = "moving", ![f].to = op[t].to]
                /\ op' = [op EXCEPT ![t].pc = "moving", ![t].from = loc[f].path]
           ELSE Return(t) /\ UNCHANGED loc
        /\ UNCHANGED <<item, disk, serving, crashes>>

\* Mutant: the file is copied.
MoveFileCopied(t) ==
    /\ At(t, "moving")
    /\ \/ /\ OnDisk(op[t].from)
          /\ disk' = [disk EXCEPT ![op[t].to] = disk[op[t].from]]
          /\ Goto(t, "confirming")
       \/ Goto(t, "reverting") /\ UNCHANGED disk
    /\ UNCHANGED <<loc, item, serving, crashes>>

\* Move the file.  The source may be gone, or the file system refuse.
MoveFile(t) ==
    /\ At(t, "moving")
    /\ \/ /\ OnDisk(op[t].from)
          /\ disk' = Renamed(op[t].from, op[t].to)
          /\ Goto(t, "confirming")
       \/ Goto(t, "reverting") /\ UNCHANGED disk
    /\ UNCHANGED <<loc, item, serving, crashes>>

Reverted(f) == [loc[f] EXCEPT !.state = "ok", !.to = NoPath]

Finalized(f, target) == [state |-> "ok", path |-> target, to |-> NoPath]

Revert(t) ==
    /\ At(t, "reverting")
    /\ loc' = Updated(op[t].file, Reverted(op[t].file))
    /\ Return(t)
    /\ UNCHANGED <<item, disk, serving, crashes>>

\* finalize: the unique index refuses a path another file has.
ConfirmMove(t) ==
    LET f == op[t].file
    IN  /\ At(t, "confirming")
        /\ loc' = IF HeldByOther(f, op[t].to) THEN loc ELSE Updated(f, Finalized(f, op[t].to))
        /\ Return(t)
        /\ UNCHANGED <<item, disk, serving, crashes>>

\* Mutant: what arrived is undone, what never left is finished.
SettledSwapped(f) ==
    IF OnDisk(loc[f].to) /\ ~OnDisk(loc[f].path) THEN Reverted(f)
    ELSE IF OnDisk(loc[f].path) /\ ~OnDisk(loc[f].to) THEN Finalized(f, loc[f].to)
    ELSE [loc[f] EXCEPT !.state = "conflict"]

\* What Recover makes of an interrupted move, from what is on disk.
Settled(f) ==
    CASE OnDisk(loc[f].to) /\ ~OnDisk(loc[f].path) -> Finalized(f, loc[f].to)
      [] OnDisk(loc[f].path) /\ ~OnDisk(loc[f].to) -> Reverted(f)
      [] OnDisk(loc[f].path) /\ OnDisk(loc[f].to) -> [loc[f] EXCEPT !.state = "conflict"]
      [] OTHER -> [loc[f] EXCEPT !.state = "missing", !.to = NoPath]

RecoverRow(f) ==
    /\ ~serving
    /\ loc[f].state = "moving"
    /\ ~HeldByOther(f, Settled(f).path)
    /\ loc' = [loc EXCEPT ![f] = Settled(f)]
    /\ UNCHANGED <<item, disk, op, serving, crashes>>

\* An error ends Recover, and the server starts all the same.
StartServing ==
    /\ ~serving
    /\ serving' = TRUE
    /\ UNCHANGED <<loc, item, disk, op, crashes>>

-----------------------------------------------------------------------------
(* TrashFile. *)

ReadForTrash(t, f) ==
    /\ Starts(t, "trash", f)
    /\ item[f].id < MaxTrashings
    /\ loc[f].state = "ok"
    /\ Begin(t, "trashing", f, loc[f].path, Bin(f))
    /\ UNCHANGED <<loc, item, disk, serving, crashes>>

RenameToTrash(t) ==
    /\ At(t, "trashing")
    /\ IF OnDisk(op[t].from)
       THEN disk' = Renamed(op[t].from, op[t].to) /\ Goto(t, "recording")
       ELSE Return(t) /\ UNCHANGED disk
    /\ UNCHANGED <<loc, item, serving, crashes>>

\* One item per file, and none for a file that is gone.
RecordTrash(t) ==
    LET f == op[t].file
    IN  /\ At(t, "recording")
        /\ IF item[f].there \/ loc[f].state = "gone"
           THEN Goto(t, "untrashing") /\ UNCHANGED <<loc, item>>
           ELSE /\ item[f].id < MaxTrashings
                /\ loc' = [loc EXCEPT ![f].state = "trashed"]
                /\ item' = [item EXCEPT ![f] = [there |-> TRUE, id |-> @.id + 1,
                                                original |-> op[t].from, due |-> FALSE]]
                /\ Return(t)
        /\ UNCHANGED <<disk, serving, crashes>>

\* The purge date is reached, or an administrator applies a shorter policy.
Expires(f) ==
    /\ item[f].there
    /\ ~item[f].due
    /\ item' = [item EXCEPT ![f].due = TRUE]
    /\ UNCHANGED <<loc, disk, op, serving, crashes>>

-----------------------------------------------------------------------------
(* Restore. *)

RestoreTarget(f) ==
    IF \/ \E g \in Files : loc[g].state \notin {"gone", "trashed"} /\ loc[g].path = item[f].original
       \/ OnDisk(item[f].original)
    THEN Beside[f]
    ELSE item[f].original

ReadForRestore(t, f) ==
    /\ Starts(t, "restore", f)
    /\ item[f].there
    /\ OnDisk(Bin(f))
    /\ ~OnDisk(RestoreTarget(f))
    /\ Begin(t, "restoring", f, Bin(f), RestoreTarget(f))
    /\ UNCHANGED <<loc, item, disk, serving, crashes>>

RenameFromTrash(t) ==
    /\ At(t, "restoring")
    /\ IF OnDisk(op[t].from)
       THEN disk' = Renamed(op[t].from, op[t].to) /\ Goto(t, "restored")
       ELSE Return(t) /\ UNCHANGED disk
    /\ UNCHANGED <<loc, item, serving, crashes>>

\* DELETE FROM trash_items WHERE id = ...: nothing, if that item is gone.
WithoutItem(t) ==
    LET f == op[t].file
    IN  IF item[f].id = op[t].id THEN [item EXCEPT ![f].there = FALSE] ELSE item

RecordRestore(t) ==
    LET f == op[t].file
    IN  /\ At(t, "restored")
        /\ IF HeldByOther(f, op[t].to)
           THEN Goto(t, "unrestoring") /\ UNCHANGED <<loc, item>>
           ELSE /\ loc' = Updated(f, [loc[f] EXCEPT !.state = "ok", !.path = op[t].to])
                /\ item' = WithoutItem(t)
                /\ Return(t)
        /\ UNCHANGED <<disk, serving, crashes>>

\* undo, of TrashFile and of Restore: the file is renamed back.
RenameBack(t) ==
    /\ At(t, "untrashing") \/ At(t, "unrestoring")
    /\ disk' = IF OnDisk(op[t].to) THEN Renamed(op[t].to, op[t].from) ELSE disk
    /\ Return(t)
    /\ UNCHANGED <<loc, item, serving, crashes>>

-----------------------------------------------------------------------------
(* Delete, and PurgeExpired, which calls it. *)

ReadForDelete(t, f) ==
    /\ Starts(t, "delete", f)
    /\ item[f].there
    /\ Begin(t, "removing", f, Bin(f), NoPath)
    /\ UNCHANGED <<loc, item, disk, serving, crashes>>

ListExpired(t, f) ==
    /\ Starts(t, "purge", f)
    /\ item[f].there
    /\ item[f].due
    /\ Begin(t, "expired", f, Bin(f), NoPath)
    /\ UNCHANGED <<loc, item, disk, serving, crashes>>

\* An item is checked again just before it is deleted.
CheckExpired(t) ==
    LET f == op[t].file
    IN  /\ At(t, "expired")
        /\ IF item[f].there /\ item[f].due /\ item[f].id = op[t].id
           THEN Goto(t, "removing")
           ELSE Return(t)
        /\ UNCHANGED <<loc, item, disk, serving, crashes>>

\* os.Remove; that there is nothing to remove is not an error.
RemoveBytes(t) ==
    /\ At(t, "removing")
    /\ disk' = [disk EXCEPT ![op[t].from] = NoFile]
    /\ Goto(t, "erasing")
    /\ UNCHANGED <<loc, item, serving, crashes>>

\* The row of the file goes, and takes its location and its item with it.
Erase(t) ==
    LET f == op[t].file
    IN  /\ At(t, "erasing")
        /\ loc' = [loc EXCEPT ![f].state = "gone", ![f].to = NoPath]
        /\ item' = [item EXCEPT ![f].there = FALSE]
        /\ Return(t)
        /\ UNCHANGED <<disk, serving, crashes>>

-----------------------------------------------------------------------------
(* Failures. *)

\* A call to the database or to the file system fails.  The two operations of the
\* trash that already renamed the file rename it back.
Fails(t) ==
    /\ \/ At(t, "recording") /\ Goto(t, "untrashing")
       \/ At(t, "restored") /\ Goto(t, "unrestoring")
       \/ serving /\ op[t].pc \notin {"idle", "moving", "recording", "restored"} /\ Return(t)
    /\ UNCHANGED <<loc, item, disk, serving, crashes>>

Crash ==
    /\ crashes < MaxCrashes
    /\ crashes' = crashes + 1
    /\ serving' = FALSE
    /\ op' = [t \in Tasks |-> Idle]
    /\ UNCHANGED <<loc, item, disk>>

-----------------------------------------------------------------------------

Init ==
    /\ loc = [f \in Files |-> [state |-> "ok", path |-> Home[f], to |-> NoPath]]
    /\ item = [f \in Files |-> [there |-> FALSE, id |-> 0, original |-> NoPath, due |-> FALSE]]
    /\ disk = [q \in Places |-> IF \E f \in Files : Home[f] = q
                                THEN CHOOSE f \in Files : Home[f] = q
                                ELSE NoFile]
    /\ op = [t \in Tasks |-> Idle]
    /\ serving = FALSE
    /\ crashes = 0
    /\ clashed = FALSE

Move(t) ==
    \/ \E f \in Files : PlanMove(t, f)
    \/ BeginMove(t)
    \/ MoveFile(t)
    \/ Revert(t)
    \/ ConfirmMove(t)

Trash(t) ==
    \/ \E f \in Files : ReadForTrash(t, f)
    \/ RenameToTrash(t)
    \/ RecordTrash(t)

Restore(t) ==
    \/ \E f \in Files : ReadForRestore(t, f)
    \/ RenameFromTrash(t)
    \/ RecordRestore(t)
    \/ RenameBack(t)

Delete(t) ==
    \/ \E f \in Files : ReadForDelete(t, f) \/ ListExpired(t, f)
    \/ CheckExpired(t)
    \/ RemoveBytes(t)
    \/ Erase(t)

Start ==
    \/ \E f \in Files : RecoverRow(f)
    \/ StartServing

\* A task looked at the rows of its file and acts on what it saw.  A move that is only
\* planned, and an item that is only listed for the purge, are looked at again.
Engaged(t) == op[t].pc \notin {"idle", "planned", "expired"}

\* No lock and no index keeps two tasks from working on one file at once, or from being on
\* their way to one path; and the name that a restore falls back to, made with the sum of
\* two ids, may be another file's.
Clash ==
    \E t \in Tasks :
        /\ Engaged(t)
        /\ \/ \E u \in Tasks \ {t} :
                /\ Engaged(u)
                /\ op[u].file = op[t].file \/ (op[u].to = op[t].to /\ op[t].to \in Paths)
           \/ op[t].to = Beside[op[t].file] /\ HeldByOther(op[t].file, op[t].to)

TaskSteps ==
    \/ \E t \in Tasks : Move(t) \/ Trash(t) \/ Restore(t) \/ Delete(t) \/ Fails(t)
    \/ \E f \in Files : Expires(f)
    \/ Start
    \/ Crash

Next == TaskSteps /\ clashed' = (clashed \/ Clash')

Spec == Init /\ [][Next]_vars

-----------------------------------------------------------------------------
(* Properties. *)

TypeOK ==
    /\ loc \in [Files -> Location]
    /\ item \in [Files -> Item]
    /\ disk \in [Places -> Files \cup {NoFile}]
    /\ op \in [Tasks -> Ops]
    /\ serving \in BOOLEAN
    /\ crashes \in Nat
    /\ clashed \in BOOLEAN
    /\ \A t \in Tasks : op[t].pc # "idle" => op[t].file \in Files

InFlight(f) == \E t \in Tasks : op[t].pc # "idle" /\ op[t].file = f

\* Mover "keeps the database and the disk in step, even if the process dies half
\* way" (mover.go), as long as no two tasks came in each other's way: when no task is at
\* work on a file, and its location is ok, its bytes are at its path; or, if a crash cut
\* short its way to or from the trash, in the folder of the trash with its id.
InStep ==
    ~clashed =>
        \A f \in Files : loc[f].state = "ok" /\ ~InFlight(f) => f \in {disk[loc[f].path], disk[Bin(f)]}

\* An interrupted move can always be settled, as long as no two tasks came in each other's
\* way: the bytes are at one of the two ends, even if another file came to lie at the other
\* one in the meantime, and Recover never has to say that they are missing.
Recoverable ==
    ~clashed =>
        \A f \in Files :
            /\ loc[f].state # "missing"
            /\ loc[f].state \in {"moving", "conflict"}
                => (disk[loc[f].path] = f) # (disk[loc[f].to] = f)

\* Bytes come to lie where others lay.
Overwrites == \E q \in Places : OnDisk(q) /\ disk'[q] \notin {disk[q], NoFile}

\* "An existing file is never overwritten" (mover.go): whatever two tasks do at once, no
\* step puts bytes where others lie.
NeverOverwrites == [][~Overwrites]_vars

\* The same until two tasks come in each other's way: although every rename, those that
\* undo included, is done some time after the look at its destination, and other tasks
\* move, trash and restore files in between, a place is emptied before other bytes come
\* to lie there.
OverwritesOnlyInAClash == [][Overwrites => clashed]_vars

\* Who asks for a file never gets the bytes of another one, as long as no two tasks came
\* in each other's way.
PathHoldsItsOwn ==
    ~clashed => \A f \in Files : loc[f].state # "gone" => disk[loc[f].path] \in {f, NoFile}

\* "One that was restored a moment ago is never touched" (trash.go): a file that is
\* out of the trash does not lose its record to a delete that began before.
RestoredIsKept ==
    [][\A f \in Files : loc[f].state = "ok" => loc'[f].state # "gone"]_vars
=============================================================================
