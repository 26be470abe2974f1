------------------------------- MODULE Backups -------------------------------
(***************************************************************************)
(* Backup and restore (internal/backup, codice-admin): a package is the    *)
(* dump of one snapshot of the database, the list of the files it knew,    *)
(* the managed files when they are asked for, and the pictures of the      *)
(* covers directory, read one by one while the library goes on changing.   *)
(* A restore reads a package whole, looks at the instance, brings the      *)
(* files in, loads the dump beside the database that is there and swaps    *)
(* their names; no transaction spans any two of these.                     *)
(*                                                                         *)
(* The API and the worker are stopped for a restore and started when it    *)
(* is over, as its command says.  Ciphers, sums, versions and referenced   *)
(* files, which never travel, are left out.                                *)
(***************************************************************************)
EXTENDS Naturals, FiniteSets

CONSTANTS
    Volumes,        \* the managed files
    Shelves,        \* the managed paths
    Owners,         \* works, collections and people that may have a picture sent by hand
    Photographed,   \* those among them that are people
    MaxPictures,    \* bound: pictures sent
    MaxReshelved,   \* bound: files moved by the organizer
    MaxPackages,    \* bound
    MaxRestores,    \* bound
    MaxDisasters,   \* bound: deaths of the processes, and losses of what is on disk
    Vacant

ASSUME BackupsAssumption ==
    /\ Photographed \subseteq Owners
    /\ Vacant \notin Volumes \cup Shelves
    /\ MaxPictures \in Nat /\ MaxReshelved \in Nat /\ MaxPackages \in Nat
    /\ MaxRestores \in Nat /\ MaxDisasters \in Nat

VARIABLES
    database,   \* the database under its name
    scratch,    \* the one a restore loads beside it
    aside,      \* databases kept under another name
    shelf,      \* whose bytes lie at each managed path
    pictures,   \* pictures sent by hand that are in the covers directory
    running,    \* the API and the worker
    staff,      \* a request that sends or takes back a picture
    maker,      \* the backup that is being made
    packages,
    restorer,   \* the restore that is running
    last,       \* how the last one ended, until the instance is started
    before,     \* history: the instance as that restore found it
    sent, reshelved, restores, disasters

backupsVars == <<database, scratch, aside, shelf, pictures, running, staff, maker, packages,
                 restorer, last, before, sent, reshelved, restores, disasters>>
instance == <<database, scratch, aside, shelf, pictures>>
counts == <<sent, reshelved, restores, disasters>>

-----------------------------------------------------------------------------

\* A database without tables, or none of that name; or what it says of files and pictures.
Tables(d) == d.there = "tables"
NoDatabase == [there |-> "no"]
NoTables == [there |-> "empty"]
Fresh == [there |-> "tables", data |-> FALSE, at |-> [v \in Volumes |-> Vacant], missing |-> {},
          picture |-> [o \in Owners |-> 0], told |-> FALSE]
HasData(d) == Tables(d) /\ d.data

Pictured(d) == {<<o, d.picture[o]>> : o \in {x \in Owners : d.picture[x] # 0}}
Emptied == [p \in Shelves |-> Vacant]

NoRequest == [pc |-> "idle", owner |-> Vacant, picture |-> 0]
NoMaker == [pc |-> "idle"]
NoRestorer == [pc |-> "idle"]
NeverRan == [outcome |-> "none"]
Unknown == [database |-> NoDatabase, shelf |-> Emptied]

MakerAt(pc) == maker.pc = pc
RestorerAt(pc) == restorer.pc = pc
MakerGoes(pc) == maker' = [maker EXCEPT !.pc = pc]
RestorerGoes(pc) == restorer' = [restorer EXCEPT !.pc = pc]
UnchangedByMaker == UNCHANGED <<instance, running, staff, restorer, last, before, counts>>

-----------------------------------------------------------------------------
(* The instance at work. *)

\* A commit of a picture between the snapshot and the copy of the covers.
Crossed == IF MakerAt("idle") THEN maker ELSE [maker EXCEPT !.apart = TRUE]

\* Set of a cover or SetPhoto: the file first, ...
WritesPicture(o) ==
    /\ running /\ HasData(database) /\ staff.pc = "idle"
    /\ sent < MaxPictures /\ sent' = sent + 1
    /\ pictures' = pictures \cup {<<o, sent + 1>>}
    /\ staff' = [pc |-> "saving", owner |-> o, picture |-> sent + 1]
    /\ UNCHANGED <<database, scratch, aside, shelf, running, maker, packages, restorer, last, before,
                   reshelved, restores, disasters>>

\* ... then the row, which names the one there was, or the file goes again.
SavesPicture ==
    /\ staff.pc = "saving"
    /\ LET o == staff.owner
       IN  \/ /\ database' = [database EXCEPT !.picture[o] = staff.picture]
              /\ staff' = [pc |-> "dropping", owner |-> o, picture |-> database.picture[o]]
              /\ maker' = Crossed
              /\ UNCHANGED pictures
           \/ /\ pictures' = pictures \ {<<o, staff.picture>>}
              /\ staff' = NoRequest
              /\ UNCHANGED <<database, maker>>
    /\ UNCHANGED <<scratch, aside, shelf, running, packages, restorer, last, before, counts>>

\* Reset of a cover, or ResetProfile.
ResetsPicture(o) ==
    /\ running /\ HasData(database) /\ staff.pc = "idle"
    /\ database.picture[o] # 0
    /\ database' = [database EXCEPT !.picture[o] = 0]
    /\ staff' = [pc |-> "dropping", owner |-> o, picture |-> database.picture[o]]
    /\ maker' = Crossed
    /\ UNCHANGED <<scratch, aside, shelf, pictures, running, packages, restorer, last, before, counts>>

\* dropManual
DropsPicture ==
    /\ staff.pc = "dropping"
    /\ pictures' = pictures \ {<<staff.owner, staff.picture>>}
    /\ staff' = NoRequest
    /\ UNCHANGED <<database, scratch, aside, shelf, running, maker, packages, restorer, last, before, counts>>

\* A move of the organizer, which Storage has step by step.
Reshelves(v, p) ==
    /\ running /\ HasData(database)
    /\ reshelved < MaxReshelved /\ reshelved' = reshelved + 1
    /\ LET q == database.at[v]
       IN  /\ q \in Shelves /\ shelf[q] = v /\ shelf[p] = Vacant
           /\ shelf' = [shelf EXCEPT ![q] = Vacant, ![p] = v]
    /\ database' = [database EXCEPT !.at[v] = p]
    /\ UNCHANGED <<scratch, aside, pictures, running, staff, maker, packages, restorer, last, before,
                   sent, restores, disasters>>

-----------------------------------------------------------------------------
(* Create. *)

\* snapshotFacts: the list of the files, of the snapshot that is held open.
TakesSnapshot(includes) ==
    /\ MakerAt("idle") /\ Tables(database)
    /\ Cardinality(packages) < MaxPackages
    /\ maker' = [pc |-> "dumping", includes |-> includes, snapshot |-> database, dump |-> database, todo |-> {},
                 carried |-> Emptied, covers |-> {}, apart |-> ~(Pictured(database) \subseteq pictures)]
    /\ UNCHANGED packages /\ UnchangedByMaker

\* Mutant: pg_dump without --snapshot.
DumpOfThePresent == database

DumpOfTheSnapshot == maker.snapshot

DumpsDatabase ==
    /\ MakerAt("dumping")
    /\ maker' = [maker EXCEPT !.pc = "copying", !.dump = DumpOfTheSnapshot,
                              !.todo = IF maker.includes THEN {v \in Volumes : maker.snapshot.at[v] # Vacant} ELSE {}]
    /\ UNCHANGED packages /\ UnchangedByMaker

\* includeFiles: what lies now where the snapshot says; a file that is not there is a warning.
IncludesFile(v) ==
    /\ MakerAt("copying") /\ v \in maker.todo
    /\ LET p == maker.snapshot.at[v]
       IN  maker' = [maker EXCEPT !.todo = @ \ {v}, !.carried[p] = shelf[p]]
    /\ UNCHANGED packages /\ UnchangedByMaker

\* isManualCover: the names of works and of collections; the photos of people have others.
ManualCover(o) == o \notin Photographed

\* includeCovers: the directory is listed, ...
ListsCovers ==
    /\ MakerAt("copying") /\ maker.todo = {}
    /\ maker' = [maker EXCEPT !.pc = "covering",
                              !.todo = {c \in pictures : maker.includes \/ ManualCover(c[1])}]
    /\ UNCHANGED packages /\ UnchangedByMaker

\* ... and each is opened; one that went away meanwhile is left out.
IncludesCover ==
    /\ MakerAt("covering")
    /\ \E c \in maker.todo :
          maker' = [maker EXCEPT !.todo = @ \ {c}, !.covers = @ \cup ({c} \cap pictures)]
    /\ UNCHANGED packages /\ UnchangedByMaker

\* CreateFile: the package is written aside, and takes its name when it is whole.
PublishesPackage ==
    /\ MakerAt("covering") /\ maker.todo = {}
    /\ packages' = packages \cup {[dump |-> maker.dump, list |-> maker.snapshot.at, carried |-> maker.carried,
                                   covers |-> maker.covers, apart |-> maker.apart]}
    /\ maker' = NoMaker
    /\ UnchangedByMaker

\* A call fails, and no file is left.
BackupFails ==
    /\ ~MakerAt("idle") /\ maker' = NoMaker
    /\ UNCHANGED packages /\ UnchangedByMaker

-----------------------------------------------------------------------------
(* Restore. *)

Ends(outcome) ==
    /\ last' = [outcome |-> outcome, package |-> restorer.package]
    /\ restorer' = NoRestorer

\* Read, into temporary places.
ReadsPackage(k, overwrite) ==
    /\ RestorerAt("idle")
    /\ restores < MaxRestores /\ restores' = restores + 1
    /\ restorer' = [pc |-> "looking", package |-> k, overwrite |-> overwrite,
                    todo |-> {}, covers |-> {}, missing |-> {}]
    /\ last' = NeverRan /\ before' = Unknown
    /\ UNCHANGED <<instance, running, staff, maker, packages, sent, reshelved, disasters>>

Connected == running \/ ~MakerAt("idle")

\* ErrNotEmpty and ErrBusy.
LooksAtTarget ==
    /\ RestorerAt("looking")
    /\ IF database # NoDatabase /\ (Connected \/ (HasData(database) /\ ~restorer.overwrite))
       THEN Ends("refused") /\ UNCHANGED before
       ELSE RestorerGoes("comparing") /\ before' = [database |-> database, shelf |-> shelf] /\ UNCHANGED last
    /\ UNCHANGED <<instance, running, staff, maker, packages, counts>>

Carried(k) == {p \in Shelves : k.carried[p] # Vacant}

\* Another file has come to lie where one of the package belongs.
Conflicts(k) == {p \in Carried(k) : shelf[p] \notin {Vacant, k.carried[p]}}

\* installStaged compares first: "nothing is moved on a conflict"
ComparesFiles ==
    /\ RestorerAt("comparing")
    /\ LET k == restorer.package
       IN  IF Conflicts(k) # {}
           THEN Ends("failed")
           ELSE /\ restorer' = [restorer EXCEPT !.pc = "installing", !.covers = k.covers \ pictures,
                                                !.todo = {p \in Carried(k) : shelf[p] = Vacant}]
                /\ UNCHANGED last
    /\ UNCHANGED <<instance, running, staff, maker, packages, before, counts>>

InstallsFile(p) ==
    /\ RestorerAt("installing") /\ p \in restorer.todo
    /\ restorer' = [restorer EXCEPT !.todo = @ \ {p}]
    /\ shelf' = [shelf EXCEPT ![p] = restorer.package.carried[p]]
    /\ UNCHANGED <<database, scratch, aside, pictures, running, staff, maker, packages, last, before, counts>>

InstallsCover ==
    /\ RestorerAt("installing")
    /\ \E c \in restorer.covers :
          /\ restorer' = [restorer EXCEPT !.covers = @ \ {c}]
          /\ pictures' = pictures \cup {c}
    /\ UNCHANGED <<database, scratch, aside, shelf, running, staff, maker, packages, last, before, counts>>

\* checkFiles: who is not where the list says.  Other bytes in its place are only counted.
Absent(k) == {v \in Volumes : k.list[v] \in Shelves /\ shelf[k.list[v]] = Vacant}

ChecksFiles ==
    /\ RestorerAt("installing") /\ restorer.todo = {} /\ restorer.covers = {}
    /\ restorer' = [restorer EXCEPT !.pc = "loading", !.missing = Absent(restorer.package)]
    /\ UNCHANGED <<instance, running, staff, maker, packages, last, before, counts>>

CreatesDatabase ==
    /\ RestorerAt("loading") /\ database = NoDatabase
    /\ database' = NoTables
    /\ UNCHANGED <<scratch, aside, shelf, pictures, running, staff, maker, packages, restorer, last, before, counts>>

\* Mutant: the tables that are there are replaced where they are.
InPlace == TRUE

\* restoreInto the database itself, in one transaction, only while it has no table.
HasRoom == database = NoTables

LoadsDatabase ==
    /\ RestorerAt("loading") /\ database # NoDatabase /\ HasRoom
    /\ database' = restorer.package.dump
    /\ RestorerGoes("finishing")
    /\ UNCHANGED <<scratch, aside, shelf, pictures, running, staff, maker, packages, last, before, counts>>

\* Or into a new one, which is compared with the counts of the manifest.
LoadsScratch ==
    /\ RestorerAt("loading") /\ database # NoDatabase /\ ~HasRoom
    /\ scratch' = restorer.package.dump
    /\ RestorerGoes("swapping")
    /\ UNCHANGED <<database, aside, shelf, pictures, running, staff, maker, packages, last, before, counts>>

SetsAside ==
    /\ RestorerAt("swapping") /\ ~Connected
    /\ aside' = aside \cup {database} /\ database' = NoDatabase
    /\ RestorerGoes("naming")
    /\ UNCHANGED <<scratch, shelf, pictures, running, staff, maker, packages, last, before, counts>>

PutsInPlace ==
    /\ RestorerAt("naming")
    /\ database' = scratch /\ scratch' = NoDatabase
    /\ RestorerGoes("finishing")
    /\ UNCHANGED <<aside, shelf, pictures, running, staff, maker, packages, last, before, counts>>

\* The second rename fails; the first is undone, if that does not fail too.
PutsBack ==
    /\ RestorerAt("naming")
    /\ \/ database' = before.database /\ aside' = aside \ {before.database}
       \/ UNCHANGED <<database, aside>>
    /\ scratch' = NoDatabase
    /\ Ends("failed")
    /\ UNCHANGED <<shelf, pictures, running, staff, maker, packages, before, counts>>

\* Migrate and afterRestore, in one transaction of their own.
Finishes ==
    /\ RestorerAt("finishing")
    /\ database' = [database EXCEPT !.missing = @ \cup restorer.missing, !.told = TRUE]
    /\ Ends("restored")
    /\ UNCHANGED <<scratch, aside, shelf, pictures, running, staff, maker, packages, before, counts>>

\* An error before the swap drops the database that was loaded.  One after it leaves the
\* restored database as it is in the package.
RestoreFails ==
    /\ restorer.pc \in {"comparing", "installing", "loading", "swapping", "finishing"}
    /\ scratch' = NoDatabase
    /\ Ends(IF RestorerAt("finishing") THEN "unfinished" ELSE "failed")
    /\ UNCHANGED <<database, aside, shelf, pictures, running, staff, maker, packages, before, counts>>

-----------------------------------------------------------------------------
(* Starts, stops and losses. *)

\* The API brings the schema forward, and an instance without a person asks for the first.
StartsInstance ==
    /\ ~running /\ RestorerAt("idle") /\ database # NoDatabase
    /\ running' = TRUE
    /\ database' = IF database = NoTables THEN Fresh ELSE database
    /\ last' = NeverRan /\ before' = Unknown
    /\ UNCHANGED <<scratch, aside, shelf, pictures, staff, maker, packages, restorer, counts>>

StopsInstance ==
    /\ running /\ staff.pc = "idle"
    /\ running' = FALSE
    /\ UNCHANGED <<instance, staff, maker, packages, restorer, last, before, counts>>

FirstPerson ==
    /\ running /\ ~HasData(database)
    /\ database' = [database EXCEPT !.data = TRUE]
    /\ UNCHANGED <<scratch, aside, shelf, pictures, running, staff, maker, packages, restorer, last, before, counts>>

HappensOnce == disasters < MaxDisasters /\ disasters' = disasters + 1 /\ UNCHANGED <<sent, reshelved, restores>>

\* The machine stops.
Dies ==
    /\ HappensOnce
    /\ running' = FALSE /\ staff' = NoRequest /\ maker' = NoMaker /\ restorer' = NoRestorer
    /\ last' = IF RestorerAt("idle") THEN last ELSE [outcome |-> "died", package |-> restorer.package]
    /\ UNCHANGED <<instance, packages, before>>

\* The library is lost, or its database, or both: what a package is for.
LosesInstance ==
    /\ HappensOnce /\ RestorerAt("idle") /\ MakerAt("idle") /\ ~running
    /\ \/ database' \in {NoDatabase, NoTables} /\ aside' = {} /\ UNCHANGED <<shelf, pictures>>
       \/ database' \in {database, NoDatabase, NoTables} /\ aside' = {} /\ shelf' = Emptied /\ pictures' = {}
    /\ last' = NeverRan /\ before' = Unknown
    /\ UNCHANGED <<scratch, running, staff, maker, packages, restorer>>

-----------------------------------------------------------------------------

BackupsInit ==
    /\ \E place \in [Volumes -> Shelves] :
          /\ \A v, w \in Volumes : place[v] = place[w] => v = w
          /\ database = [Fresh EXCEPT !.data = TRUE, !.at = place]
          /\ shelf = [p \in Shelves |-> IF \E v \in Volumes : place[v] = p
                                        THEN CHOOSE v \in Volumes : place[v] = p ELSE Vacant]
    /\ scratch = NoDatabase /\ aside = {} /\ pictures = {}
    /\ running = TRUE /\ staff = NoRequest /\ maker = NoMaker /\ packages = {}
    /\ restorer = NoRestorer /\ last = NeverRan /\ before = Unknown
    /\ sent = 0 /\ reshelved = 0 /\ restores = 0 /\ disasters = 0

AtWork ==
    \/ \E o \in Owners : WritesPicture(o) \/ ResetsPicture(o)
    \/ SavesPicture \/ DropsPicture
    \/ \E v \in Volumes, p \in Shelves : Reshelves(v, p)
    \/ StartsInstance \/ StopsInstance \/ FirstPerson

Creates ==
    \/ \E includes \in BOOLEAN : TakesSnapshot(includes)
    \/ DumpsDatabase
    \/ \E v \in Volumes : IncludesFile(v)
    \/ ListsCovers \/ IncludesCover \/ PublishesPackage \/ BackupFails

Restores ==
    \/ \E k \in packages, overwrite \in BOOLEAN : ReadsPackage(k, overwrite)
    \/ LooksAtTarget \/ ComparesFiles
    \/ \E p \in Shelves : InstallsFile(p)
    \/ InstallsCover \/ ChecksFiles
    \/ CreatesDatabase \/ LoadsDatabase \/ LoadsScratch \/ SetsAside \/ PutsInPlace \/ PutsBack
    \/ Finishes \/ RestoreFails

BackupsNext == AtWork \/ Creates \/ Restores \/ Dies \/ LosesInstance

BackupsSpec == BackupsInit /\ [][BackupsNext]_backupsVars

-----------------------------------------------------------------------------
(* Properties. *)

\* "A failure before the swap leaves the instance exactly as it was" (restore.go): what a
\* restore found on disk is there when it ends, however it ends; a database with data is
\* under its name or set aside, whatever failed or died on the way; and one that failed
\* left it under its name, unless neither rename could be done.
AsItWas ==
    /\ \A p \in Shelves : before.shelf[p] # Vacant => shelf[p] = before.shelf[p]
    /\ HasData(before.database) => before.database \in {database} \cup aside
    /\ last.outcome = "failed" =>
          \/ database = before.database
          \/ before.database = NoDatabase /\ database = NoTables
          \/ database = NoDatabase /\ before.database \in aside

Restored == last.outcome = "restored"

\* A restored database can be trusted about its files: something is at the place of each, or
\* it is marked as missing, and what travelled is there with its bytes, although the library changed while the package was made and
\* the instance is not the one it was made of.
FilesAccounted ==
    Restored => \A v \in Volumes :
        LET p == database.at[v]
        IN  p \in Shelves =>
              /\ shelf[p] # Vacant \/ v \in database.missing
              /\ v \in database.missing \ last.package.dump.missing => shelf[p] = Vacant
              /\ last.package.carried[p] # Vacant => shelf[p] = last.package.carried[p]

PicturesTravel(owners) ==
    Restored /\ ~last.package.apart =>
        \A o \in owners : database.picture[o] # 0 => <<o, database.picture[o]>> \in pictures

\* And so does a photo of a person, which nothing can make again either.
PhotosTravel == PicturesTravel(Owners)
=============================================================================
