----------------------------- MODULE FilesProofs -----------------------------
(***************************************************************************)
(* What holds of the managed files, of the backups and their restores, and *)
(* of the packages that are pruned, for any number of files, pictures,     *)
(* packages, restores and disasters.                                       *)
(***************************************************************************)
EXTENDS Storage, Backups, Retention, FiniteSetTheorems, FunctionTheorems, WellFoundedInduction, TLAPS

-----------------------------------------------------------------------------
(* Backups: the inductive invariant. *)

Library == [there : {"tables"}, data : BOOLEAN, at : [Volumes -> Shelves \cup {Vacant}], missing : SUBSET Volumes,
            picture : [Owners -> Nat], told : BOOLEAN]
Databases == {NoDatabase, NoTables} \cup Library
Shelving == [Shelves -> Volumes \cup {Vacant}]
Picture == Owners \X Nat

Package == [dump : Library, list : [Volumes -> Shelves \cup {Vacant}], carried : Shelving,
            covers : SUBSET Picture, apart : BOOLEAN]
Making == [pc : {"dumping", "copying", "covering"}, includes : BOOLEAN, snapshot : Library, dump : Library,
           todo : SUBSET (Volumes \cup Picture), carried : Shelving, covers : SUBSET Picture, apart : BOOLEAN]
Restoring == [pc : {"looking", "comparing", "installing", "loading", "swapping", "naming", "finishing"},
              package : Package, overwrite : BOOLEAN, todo : SUBSET Shelves,
              covers : SUBSET Picture, missing : SUBSET Volumes]

Typing ==
    /\ database \in Databases /\ scratch \in Databases /\ shelf \in Shelving /\ pictures \subseteq Picture
    /\ running \in BOOLEAN /\ sent \in Nat
    /\ maker \in Making \cup {NoMaker} /\ restorer \in Restoring \cup {NoRestorer}
    /\ packages \subseteq Package
    /\ before \in [database : Databases, shelf : Shelving]

\* A package lists the files of the snapshot that its dump is of.
Listed(k) == k.list = k.dump.at

MakerFits ==
    /\ maker # NoMaker /\ ~MakerAt("dumping") => maker.dump = maker.snapshot
    /\ MakerAt("copying") => \A v \in maker.todo : v \in Volumes /\ maker.snapshot.at[v] # Vacant

Bringing == {"comparing", "installing"}
Swapping == {"loading", "swapping", "naming", "finishing"}

\* The files of the package are brought in where nothing was, and what is missing when
\* that is done is what the restore says is missing.
FilesFit ==
    /\ RestorerAt("installing") =>
          /\ restorer.todo \subseteq {p \in Carried(restorer.package) : shelf[p] = Vacant}
          /\ \A p \in Carried(restorer.package) \ restorer.todo : shelf[p] = restorer.package.carried[p]
    /\ restorer.pc \in Swapping =>
          /\ restorer.missing = Absent(restorer.package)
          /\ \A p \in Carried(restorer.package) : shelf[p] = restorer.package.carried[p]

\* The database that was found stays until it is set aside.
DatabaseFits ==
    /\ restorer.pc \in Bringing \cup {"swapping"} => database = before.database
    /\ RestorerAt("loading") => database = before.database \/ (before.database = NoDatabase /\ database = NoTables)
    /\ RestorerAt("naming") => database = NoDatabase /\ before.database \in aside
    /\ restorer.pc \in {"swapping", "naming"} => scratch = restorer.package.dump
    /\ RestorerAt("finishing") =>
          /\ HasData(before.database) => before.database \in aside
          /\ database = restorer.package.dump

RestorerFits ==
    /\ restorer # NoRestorer => Listed(restorer.package) /\ last = NeverRan
    /\ restorer.pc \in Bringing \cup Swapping => ~running
    /\ FilesFit /\ DatabaseFits

\* While the instance runs, no restore is at work on it and the last one is history.
RunningFits ==
    /\ running => before = Unknown /\ last.outcome \in {"none", "refused"} /\ database \in Library
    /\ staff # NoRequest => running /\ staff.pc \in {"saving", "dropping"} /\ staff.owner \in Owners /\ staff.picture \in Nat

RestoredFits == Restored => restorer = NoRestorer /\ last.package \in Package /\ Listed(last.package) /\ database \in Library

BackupsInv ==
    /\ Typing /\ \A k \in packages : Listed(k)
    /\ MakerFits /\ RestorerFits /\ RunningFits /\ RestoredFits
    /\ AsItWas /\ FilesAccounted

-----------------------------------------------------------------------------
(* Backups: what the steps share. *)

LEMMA DatabasesApart ==
    /\ NoDatabase # NoTables
    /\ ~HasData(NoDatabase) /\ ~HasData(NoTables)
    /\ \A d \in Library : d # NoDatabase /\ d # NoTables
  <1>1. NoDatabase.there = "no" /\ NoTables.there = "empty" BY DEF NoDatabase, NoTables
  <1>2. \A d \in Library : d.there = "tables" BY DEF Library
  <1> QED BY <1>1, <1>2 DEF HasData, Tables

LEMMA AtRest ==
    /\ NoMaker.pc = "idle" /\ NoRestorer.pc = "idle" /\ NoRequest.pc = "idle"
    /\ NeverRan.outcome = "none"
    /\ Unknown.database = NoDatabase /\ Unknown.shelf = Emptied
    /\ Unknown \in [database : Databases, shelf : Shelving]
  BY DEF NoMaker, NoRestorer, NoRequest, NeverRan, Unknown, Databases, Shelving, Emptied

LEMMA MakingFields ==
    ASSUME NEW m \in Making
    PROVE  /\ m.pc \in {"dumping", "copying", "covering"} /\ m.snapshot \in Library /\ m.dump \in Library
           /\ m.todo \in SUBSET (Volumes \cup Picture) /\ m.carried \in Shelving /\ m.covers \in SUBSET Picture
           /\ m.apart \in BOOLEAN /\ m # NoMaker
  <1>1. m.pc # NoMaker.pc BY AtRest DEF Making
  <1> QED BY <1>1 DEF Making

LEMMA RestoringFields ==
    ASSUME NEW r \in Restoring
    PROVE  /\ r.pc \in {"looking"} \cup Bringing \cup Swapping /\ r.package \in Package
           /\ r.todo \in SUBSET Shelves /\ r.covers \in SUBSET Picture /\ r.missing \in SUBSET Volumes
           /\ r # NoRestorer
  <1>1. r.pc # NoRestorer.pc BY AtRest DEF Restoring
  <1> QED BY <1>1 DEF Restoring, Bringing, Swapping

\* An instance of which nothing is remembered is as it was.
LEMMA NothingRemembered ==
    ASSUME before = Unknown, last.outcome # "failed", last.outcome # "restored"
    PROVE  AsItWas /\ FilesAccounted /\ RestoredFits
  <1>1. \A p \in Shelves : before.shelf[p] = Vacant BY AtRest DEF Emptied
  <1>2. ~HasData(before.database) BY AtRest, DatabasesApart
  <1> QED BY <1>1, <1>2 DEF AsItWas, FilesAccounted, RestoredFits, Restored

\* What the instance does while it runs.
LEMMA InstanceWorks ==
    ASSUME BackupsInv, running, running', database' \in Library, shelf' \in Shelving, pictures' \subseteq Picture,
           sent' \in Nat, maker' \in Making \cup {NoMaker}, MakerFits',
           staff' = NoRequest \/ (staff'.pc \in {"saving", "dropping"} /\ staff'.owner \in Owners /\ staff'.picture \in Nat),
           UNCHANGED <<scratch, running, packages, restorer, last, before>>
    PROVE  BackupsInv'
  <1>1. before = Unknown /\ last.outcome \in {"none", "refused"} BY DEF BackupsInv, RunningFits
  <1>2. restorer.pc \notin Bringing \cup Swapping BY DEF BackupsInv, RestorerFits
  <1>3. Typing' BY DEF BackupsInv, Typing, Databases
  <1>4. RestorerFits'
    BY <1>2 DEF BackupsInv, RestorerFits, FilesFit, DatabaseFits, RestorerAt, Listed, Bringing, Swapping
  <1>5. RunningFits' BY <1>1 DEF RunningFits
  <1>6. (AsItWas /\ FilesAccounted /\ RestoredFits)'
    <2>1. (before = Unknown /\ last.outcome # "failed" /\ last.outcome # "restored")' BY <1>1
    <2>2. (\A p \in Shelves : before.shelf[p] = Vacant)' BY <2>1, AtRest DEF Emptied
    <2>3. ~HasData(before'.database) BY <2>1, AtRest, DatabasesApart
    <2> QED BY <2>1, <2>2, <2>3 DEF AsItWas, FilesAccounted, RestoredFits, Restored, HasData, Tables
  <1> QED BY <1>3, <1>4, <1>5, <1>6 DEF BackupsInv, Listed

\* A backup reads, and publishes what it read.
LEMMA MakerStep ==
    ASSUME BackupsInv, UnchangedByMaker, maker' \in Making \cup {NoMaker}, MakerFits',
           packages' \subseteq Package, \A k \in packages' : Listed(k)
    PROVE  BackupsInv'
  <1>1. UNCHANGED <<database, scratch, aside, shelf, pictures, running, staff, restorer, last, before, sent>>
    BY DEF UnchangedByMaker, instance, counts
  <1>2. Typing' BY <1>1 DEF BackupsInv, Typing
  <1>3. RestorerFits'
    BY <1>1 DEF BackupsInv, RestorerFits, FilesFit, DatabaseFits, RestorerAt, Listed, Bringing, Swapping,
                Carried, Absent, HasData, Tables
  <1>4. RunningFits' /\ RestoredFits' BY <1>1 DEF BackupsInv, RunningFits, RestoredFits, Restored, Listed
  <1>5. AsItWas' /\ FilesAccounted'
    BY <1>1 DEF BackupsInv, AsItWas, FilesAccounted, Restored, HasData, Tables
  <1> QED BY <1>2, <1>3, <1>4, <1>5 DEF BackupsInv, Listed

-----------------------------------------------------------------------------
(* Backups: the instance at work. *)

LEMMA CrossedFits ==
    ASSUME Typing, MakerFits, maker' \in {maker, Crossed}
    PROVE  maker' \in Making \cup {NoMaker} /\ MakerFits'
  <1>1. CASE maker' = maker BY <1>1 DEF Typing, MakerFits, MakerAt
  <1>2. CASE maker' # maker
    <2>1. maker' = [maker EXCEPT !.apart = TRUE] /\ maker # NoMaker
      BY <1>2, AtRest DEF Crossed, MakerAt
    <2>2. maker \in Making BY <2>1 DEF Typing
    <2>3. /\ maker' \in Making /\ maker'.pc = maker.pc /\ maker'.snapshot = maker.snapshot
          /\ maker'.dump = maker.dump /\ maker'.todo = maker.todo
      BY <2>1, <2>2 DEF Making
    <2> QED BY <2>1, <2>3 DEF MakerFits, MakerAt
  <1> QED BY <1>1, <1>2

LEMMA PictureRow ==
    ASSUME NEW d \in Library, NEW o \in Owners, NEW n \in Nat
    PROVE  [d EXCEPT !.picture[o] = n] \in Library /\ d.picture[o] \in Nat
  BY DEF Library

LEMMA PicturesStep ==
    ASSUME BackupsInv, (\E o \in Owners : WritesPicture(o) \/ ResetsPicture(o)) \/ SavesPicture \/ DropsPicture
    PROVE  BackupsInv'
  <1>1. /\ Typing /\ MakerFits /\ RunningFits BY DEF BackupsInv
  <1>2. shelf \in Shelving /\ pictures \subseteq Picture /\ sent \in Nat BY <1>1 DEF Typing
  <1>3. ASSUME NEW o \in Owners, WritesPicture(o) PROVE BackupsInv'
    <2>1. database \in Library BY <1>1, <1>3 DEF RunningFits, WritesPicture
    <2>2. maker' \in Making \cup {NoMaker} /\ MakerFits' BY <1>1, <1>3, CrossedFits DEF WritesPicture
    <2>3. sent' \in Nat /\ pictures' \subseteq Picture BY <1>2, <1>3 DEF WritesPicture, Picture
    <2>4. staff'.pc = "saving" /\ staff'.owner \in Owners /\ staff'.picture \in Nat BY <1>2, <1>3 DEF WritesPicture
    <2> QED BY <1>2, <1>3, <2>1, <2>2, <2>3, <2>4, InstanceWorks DEF WritesPicture
  <1>4. ASSUME NEW o \in Owners, ResetsPicture(o) PROVE BackupsInv'
    <2>1. database \in Library BY <1>1, <1>4 DEF RunningFits, ResetsPicture
    <2>2. database' \in Library /\ database.picture[o] \in Nat BY <1>4, <2>1, PictureRow DEF ResetsPicture
    <2>3. maker' \in Making \cup {NoMaker} /\ MakerFits' BY <1>1, <1>4, CrossedFits DEF ResetsPicture
    <2>4. staff'.pc = "dropping" /\ staff'.owner \in Owners /\ staff'.picture \in Nat BY <1>4, <2>2 DEF ResetsPicture
    <2>5. sent' = sent /\ running BY <1>4 DEF ResetsPicture, counts
    <2> QED BY <1>2, <1>4, <2>2, <2>3, <2>4, <2>5, InstanceWorks DEF ResetsPicture
  <1>5. ASSUME SavesPicture PROVE BackupsInv'
    <2>1. /\ running /\ database \in Library /\ staff.owner \in Owners /\ staff.picture \in Nat
      BY <1>1, <1>5, AtRest DEF RunningFits, SavesPicture
    <2>2. database' \in Library /\ database.picture[staff.owner] \in Nat
      BY <1>5, <2>1, PictureRow DEF SavesPicture
    <2>3. maker' \in Making \cup {NoMaker} /\ MakerFits' BY <1>1, <1>5, CrossedFits DEF SavesPicture
    <2>4. staff' = NoRequest \/ (staff'.pc = "dropping" /\ staff'.owner \in Owners /\ staff'.picture \in Nat)
      BY <1>5, <2>1, <2>2 DEF SavesPicture
    <2>5. sent' = sent /\ pictures' \subseteq Picture BY <1>2, <1>5 DEF SavesPicture, counts
    <2> QED BY <1>2, <1>5, <2>1, <2>2, <2>3, <2>4, <2>5, InstanceWorks DEF SavesPicture
  <1>6. ASSUME DropsPicture PROVE BackupsInv'
    <2>1. running /\ database \in Library BY <1>1, <1>6, AtRest DEF RunningFits, DropsPicture
    <2>2. maker' \in Making \cup {NoMaker} /\ MakerFits' BY <1>1, <1>6, CrossedFits DEF DropsPicture
    <2>3. sent' = sent /\ pictures' \subseteq Picture BY <1>2, <1>6 DEF DropsPicture, counts
    <2> QED BY <1>2, <1>6, <2>1, <2>2, <2>3, InstanceWorks DEF DropsPicture
  <1> QED BY <1>3, <1>4, <1>5, <1>6

LEMMA StaffStays ==
    ASSUME RunningFits
    PROVE  staff = NoRequest \/ (staff.pc \in {"saving", "dropping"} /\ staff.owner \in Owners /\ staff.picture \in Nat)
  BY DEF RunningFits

LEMMA ReshelvesStep ==
    ASSUME BackupsInv, NEW v \in Volumes, NEW p \in Shelves, Reshelves(v, p)
    PROVE  BackupsInv'
  <1>1. /\ Typing /\ MakerFits /\ RunningFits BY DEF BackupsInv
  <1>2. database \in Library BY <1>1 DEF RunningFits, Reshelves
  <1>3. database' \in Library BY <1>2 DEF Reshelves, Library
  <1>4. shelf' \in Shelving BY <1>1 DEF Typing, Reshelves, Shelving
  <1>5. maker' \in Making \cup {NoMaker} /\ MakerFits' BY <1>1, CrossedFits DEF Reshelves
  <1>6. pictures' \subseteq Picture /\ sent' \in Nat BY <1>1 DEF Typing, Reshelves
  <1> QED BY <1>1, <1>3, <1>4, <1>5, <1>6, StaffStays, InstanceWorks DEF Reshelves

LEMMA FirstPersonStep ==
    ASSUME BackupsInv, FirstPerson
    PROVE  BackupsInv'
  <1>1. /\ Typing /\ MakerFits /\ RunningFits BY DEF BackupsInv
  <1>2. database \in Library BY <1>1 DEF RunningFits, FirstPerson
  <1>3. database' \in Library BY <1>2 DEF FirstPerson, Library
  <1>4. maker' \in Making \cup {NoMaker} /\ MakerFits' BY <1>1, CrossedFits DEF FirstPerson
  <1>5. shelf' \in Shelving /\ pictures' \subseteq Picture /\ sent' \in Nat BY <1>1 DEF Typing, FirstPerson, counts
  <1> QED BY <1>1, <1>3, <1>4, <1>5, StaffStays, InstanceWorks DEF FirstPerson

-----------------------------------------------------------------------------
(* Backups: a package is made. *)

LEMMA MakerTyped ==
    ASSUME BackupsInv, ~MakerAt("idle")
    PROVE  maker \in Making /\ maker # NoMaker
  BY AtRest DEF BackupsInv, Typing, MakerAt

LEMMA CreatesStep ==
    ASSUME BackupsInv, Creates
    PROVE  BackupsInv'
  <1>1. /\ Typing /\ MakerFits /\ packages \subseteq Package /\ \A k \in packages : Listed(k)
        /\ shelf \in Shelving /\ pictures \subseteq Picture
    BY DEF BackupsInv, Typing
  <1>2. ASSUME NEW includes \in BOOLEAN, TakesSnapshot(includes) PROVE BackupsInv'
    <2>1. database \in Library
      BY <1>1, <1>2, DatabasesApart DEF Typing, Databases, TakesSnapshot, Tables, NoDatabase, NoTables
    <2>2. Emptied \in Shelving BY DEF Emptied, Shelving
    <2>3. maker' \in Making /\ maker'.pc = "dumping" BY <1>2, <2>1, <2>2 DEF TakesSnapshot, Making
    <2>4. MakerFits' BY <2>3 DEF MakerFits, MakerAt
    <2> QED BY <1>1, <1>2, <2>3, <2>4, MakerStep DEF TakesSnapshot
  <1>3. ASSUME DumpsDatabase PROVE BackupsInv'
    <2>1. maker \in Making BY <1>3, MakerTyped DEF DumpsDatabase, MakerAt
    <2> DEFINE todo == IF maker.includes THEN {v \in Volumes : maker.snapshot.at[v] # Vacant} ELSE {}
    <2>2. /\ maker' \in Making /\ maker'.pc = "copying" /\ maker'.snapshot = maker.snapshot
          /\ maker'.dump = maker.snapshot /\ maker'.todo = todo
      BY <1>3, <2>1 DEF DumpsDatabase, DumpOfTheSnapshot, Making
    <2>3. MakerFits' BY <2>2 DEF MakerFits, MakerAt
    <2> QED BY <1>1, <1>3, <2>2, <2>3, MakerStep DEF DumpsDatabase
  <1>4. ASSUME NEW v \in Volumes, IncludesFile(v) PROVE BackupsInv'
    <2>1. maker \in Making /\ maker # NoMaker BY <1>4, MakerTyped DEF IncludesFile, MakerAt
    <2>2. PICK p \in Shelves : maker' = [maker EXCEPT !.todo = @ \ {v}, !.carried[p] = shelf[p]]
      <3>1. maker.snapshot \in Library /\ maker.snapshot.at[v] # Vacant
        BY <1>1, <1>4, <2>1, MakingFields DEF IncludesFile, MakerFits
      <3>2. maker.snapshot.at[v] \in Shelves BY <3>1 DEF Library
      <3> QED BY <1>4, <3>2 DEF IncludesFile
    <2>3. shelf[p] \in Volumes \cup {Vacant} BY <1>1 DEF Shelving
    <2>4. maker.carried \in Shelving /\ [maker.carried EXCEPT ![p] = shelf[p]] \in Shelving
      BY <2>1, <2>3, MakingFields DEF Shelving
    <2>5. /\ maker' \in Making /\ maker'.pc = maker.pc /\ maker'.snapshot = maker.snapshot
          /\ maker'.dump = maker.dump /\ maker'.todo = maker.todo \ {v}
      BY <2>1, <2>2, <2>4 DEF Making
    <2>6. MakerFits' BY <1>1, <2>1, <2>5 DEF MakerFits, MakerAt
    <2> QED BY <1>1, <1>4, <2>5, <2>6, MakerStep DEF IncludesFile
  <1>5. ASSUME ListsCovers PROVE BackupsInv'
    <2>1. maker \in Making /\ maker # NoMaker BY <1>5, MakerTyped DEF ListsCovers, MakerAt
    <2>2. /\ maker' \in Making /\ maker'.pc = "covering" /\ maker'.snapshot = maker.snapshot
          /\ maker'.dump = maker.dump
      BY <1>1, <1>5, <2>1 DEF ListsCovers, Making
    <2>3. MakerFits' BY <1>1, <1>5, <2>1, <2>2 DEF MakerFits, MakerAt, ListsCovers
    <2> QED BY <1>1, <1>5, <2>2, <2>3, MakerStep DEF ListsCovers
  <1>6. ASSUME IncludesCover PROVE BackupsInv'
    <2>1. maker \in Making /\ maker # NoMaker BY <1>6, MakerTyped DEF IncludesCover, MakerAt
    <2>2. PICK c \in maker.todo : maker' = [maker EXCEPT !.todo = @ \ {c}, !.covers = @ \cup ({c} \cap pictures)]
      BY <1>6 DEF IncludesCover
    <2>3. /\ maker' \in Making /\ maker'.pc = maker.pc /\ maker'.snapshot = maker.snapshot
          /\ maker'.dump = maker.dump
      BY <1>1, <2>1, <2>2 DEF Making
    <2>4. MakerFits' BY <1>1, <1>6, <2>1, <2>3 DEF MakerFits, MakerAt, IncludesCover
    <2> QED BY <1>1, <1>6, <2>3, <2>4, MakerStep DEF IncludesCover
  <1>7. ASSUME PublishesPackage PROVE BackupsInv'
    <2> DEFINE k == [dump |-> maker.dump, list |-> maker.snapshot.at, carried |-> maker.carried,
                     covers |-> maker.covers, apart |-> maker.apart]
    <2>1. maker \in Making /\ maker # NoMaker BY <1>7, MakerTyped DEF PublishesPackage, MakerAt
    <2>2. maker.dump = maker.snapshot BY <1>1, <1>7, <2>1 DEF PublishesPackage, MakerFits, MakerAt
    <2>3. maker.snapshot.at \in [Volumes -> Shelves \cup {Vacant}] BY <2>1, MakingFields DEF Library
    <2>4. k \in Package /\ Listed(k) BY <2>1, <2>2, <2>3, MakingFields DEF Package, Listed
    <2>5. packages' = packages \cup {k} /\ maker' = NoMaker BY <1>7 DEF PublishesPackage
    <2> HIDE DEF k
    <2>6. MakerFits' BY <2>5, AtRest DEF MakerFits, MakerAt
    <2> QED BY <1>1, <1>7, <2>4, <2>5, <2>6, MakerStep DEF PublishesPackage
  <1>8. ASSUME BackupFails PROVE BackupsInv'
    <2>1. maker' = NoMaker /\ packages' = packages BY <1>8 DEF BackupFails
    <2>2. MakerFits' BY <2>1, AtRest DEF MakerFits, MakerAt
    <2> QED BY <1>1, <1>8, <2>1, <2>2, MakerStep DEF BackupFails
  <1> QED BY <1>2, <1>3, <1>4, <1>5, <1>6, <1>7, <1>8 DEF Creates

-----------------------------------------------------------------------------
(* Backups: a package is restored. *)

Remembered == [database : Databases, shelf : Shelving]

\* What a step of a restore keeps of the types.
RestorerTypes ==
    /\ database' \in Databases /\ scratch' \in Databases /\ shelf' \in Shelving /\ pictures' \subseteq Picture
    /\ before' \in Remembered
    /\ UNCHANGED <<running, staff, maker, packages, sent>>

LEMMA AtWorkOnIt ==
    ASSUME BackupsInv, restorer.pc # "idle"
    PROVE  /\ restorer \in Restoring /\ restorer # NoRestorer /\ Listed(restorer.package)
           /\ last = NeverRan /\ last.outcome = "none"
           /\ restorer.package \in Package /\ restorer.package.carried \in Shelving
           /\ restorer.package.dump \in Library /\ restorer.package.covers \subseteq Picture
           /\ restorer.pc # "looking" => ~running
  <1>1. restorer \in Restoring /\ restorer # NoRestorer BY AtRest DEF BackupsInv, Typing
  <1>2. restorer.package \in Package /\ restorer.pc \in {"looking"} \cup Bringing \cup Swapping
    BY <1>1, RestoringFields
  <1>3. Listed(restorer.package) /\ last = NeverRan BY <1>1 DEF BackupsInv, RestorerFits
  <1>4. restorer.pc # "looking" => ~running BY <1>2 DEF BackupsInv, RestorerFits
  <1> QED BY <1>1, <1>2, <1>3, <1>4, AtRest DEF Package

LEMMA KeptByRestore ==
    ASSUME BackupsInv, RestorerTypes, ~running
    PROVE  /\ MakerFits' /\ RunningFits' /\ ~running' /\ \A k \in packages' : Listed(k)
           /\ database' \in Databases /\ scratch' \in Databases /\ shelf' \in Shelving /\ pictures' \subseteq Picture
           /\ running' \in BOOLEAN /\ sent' \in Nat /\ maker' \in Making \cup {NoMaker}
           /\ packages' \subseteq Package /\ before' \in [database : Databases, shelf : Shelving]
  <1>1. Typing /\ MakerFits /\ RunningFits /\ \A k \in packages : Listed(k) BY DEF BackupsInv
  <1>2. UNCHANGED <<running, staff, maker, packages, sent>> BY DEF RestorerTypes
  <1>3. MakerFits' BY <1>1, <1>2 DEF MakerFits, MakerAt
  <1>4. RunningFits' BY <1>1, <1>2 DEF RunningFits
  <1> QED BY <1>1, <1>2, <1>3, <1>4 DEF Typing, RestorerTypes, Remembered

\* A step of a restore that goes on after it.
LEMMA GoesOn ==
    ASSUME BackupsInv, RestorerTypes, ~running, last = NeverRan, last' = last,
           restorer' \in Restoring, Listed(restorer'.package), FilesFit', DatabaseFits',
           \A p \in Shelves : before'.shelf[p] # Vacant => shelf'[p] = before'.shelf[p],
           HasData(before'.database) => before'.database \in {database'} \cup aside'
    PROVE  BackupsInv'
  <1>1. Typing' BY KeptByRestore DEF Typing
  <1>2. RestorerFits' BY KeptByRestore DEF RestorerFits
  <1>3. last'.outcome = "none" BY AtRest
  <1>4. AsItWas' BY <1>3 DEF AsItWas, HasData, Tables
  <1>5. FilesAccounted' /\ RestoredFits' BY <1>3 DEF FilesAccounted, RestoredFits, Restored
  <1> QED BY <1>1, <1>2, <1>4, <1>5, KeptByRestore DEF BackupsInv, Listed

\* The last step of one.
LEMMA ItEnds ==
    ASSUME BackupsInv, RestorerTypes, ~running, restorer' = NoRestorer,
           \A p \in Shelves : before'.shelf[p] # Vacant => shelf'[p] = before'.shelf[p],
           HasData(before'.database) => before'.database \in {database'} \cup aside',
           last'.outcome = "failed" =>
              \/ database' = before'.database
              \/ before'.database = NoDatabase /\ database' = NoTables
              \/ database' = NoDatabase /\ before'.database \in aside',
           RestoredFits', FilesAccounted'
    PROVE  BackupsInv'
  <1>1. Typing' BY KeptByRestore DEF Typing
  <1>2. RestorerFits'
    <2>1. (restorer.pc = "idle")' BY AtRest
    <2>2. FilesFit' BY <2>1 DEF FilesFit, RestorerAt, Swapping
    <2>3. DatabaseFits' BY <2>1 DEF DatabaseFits, RestorerAt, Swapping, Bringing
    <2>4. (restorer.pc \notin Bringing \cup Swapping)' BY <2>1 DEF Swapping, Bringing
    <2> QED BY <2>2, <2>3, <2>4 DEF RestorerFits
  <1>3. AsItWas' BY DEF AsItWas, HasData, Tables
  <1> QED BY <1>1, <1>2, <1>3, KeptByRestore DEF BackupsInv, Listed

Stages == {"looking"} \cup Bringing \cup Swapping

LEMMA NextStage ==
    ASSUME NEW r \in Restoring, NEW pc \in Stages
    PROVE  /\ [r EXCEPT !.pc = pc] \in Restoring /\ [r EXCEPT !.pc = pc].pc = pc
           /\ [r EXCEPT !.pc = pc].package = r.package /\ [r EXCEPT !.pc = pc].todo = r.todo
           /\ [r EXCEPT !.pc = pc].covers = r.covers /\ [r EXCEPT !.pc = pc].missing = r.missing
  BY DEF Restoring, Stages, Bringing, Swapping

LEMMA StillMissing ==
    ASSUME FilesFit, restorer.pc \in Swapping, restorer'.pc \in Swapping, shelf' = shelf,
           restorer'.package = restorer.package, restorer'.missing = restorer.missing
    PROVE  FilesFit'
  BY DEF FilesFit, Swapping, RestorerAt, Absent, Carried

LEMMA ReadsPackageStep ==
    ASSUME BackupsInv, NEW k \in packages, NEW overwrite \in BOOLEAN, ReadsPackage(k, overwrite)
    PROVE  BackupsInv'
  <1>1. /\ Typing /\ MakerFits /\ RunningFits /\ \A j \in packages : Listed(j) BY DEF BackupsInv
  <1>2. UNCHANGED <<database, scratch, aside, shelf, pictures, running, staff, maker, packages, sent>>
    BY DEF ReadsPackage, instance
  <1>3. k \in Package /\ Listed(k) BY <1>1 DEF Typing
  <1>4. restorer' \in Restoring /\ restorer'.pc = "looking" /\ restorer'.package = k
    BY <1>3 DEF ReadsPackage, Restoring
  <1>5. before' = Unknown /\ last' = NeverRan /\ last'.outcome = "none" BY AtRest DEF ReadsPackage
  <1>6. Typing' BY <1>1, <1>2, <1>4, <1>5, AtRest DEF Typing
  <1>7. MakerFits' BY <1>1, <1>2 DEF MakerFits, MakerAt
  <1>8. RunningFits' BY <1>1, <1>2, <1>5 DEF RunningFits
  <1>9. RestorerFits'
    BY <1>3, <1>4, <1>5 DEF RestorerFits, FilesFit, DatabaseFits, RestorerAt, Bringing, Swapping, Listed
  <1>10. (AsItWas /\ FilesAccounted /\ RestoredFits)'
    <2>1. \A p \in Shelves : before'.shelf[p] = Vacant BY <1>5, AtRest DEF Emptied
    <2>2. ~HasData(before'.database) BY <1>5, AtRest, DatabasesApart
    <2> QED BY <1>5, <2>1, <2>2 DEF AsItWas, FilesAccounted, RestoredFits, Restored, HasData, Tables
  <1> QED BY <1>1, <1>2, <1>6, <1>7, <1>8, <1>9, <1>10 DEF BackupsInv, Listed

LEMMA LooksAtTargetStep ==
    ASSUME BackupsInv, LooksAtTarget
    PROVE  BackupsInv'
  <1>1. Typing /\ MakerFits /\ RunningFits /\ (\A j \in packages : Listed(j)) BY DEF BackupsInv
  <1>2. UNCHANGED <<database, scratch, aside, shelf, pictures, running, staff, maker, packages, sent>>
    BY DEF LooksAtTarget, instance, counts
  <1>3. /\ restorer \in Restoring /\ Listed(restorer.package) /\ last = NeverRan /\ last.outcome = "none"
    BY AtWorkOnIt DEF LooksAtTarget, RestorerAt
  <1>4. CASE Ends("refused") /\ UNCHANGED before
    <2>1. restorer' = NoRestorer /\ last'.outcome = "refused" /\ restorer'.pc = "idle" BY <1>4, AtRest DEF Ends
    <2>2. Typing' BY <1>1, <1>2, <1>4, <2>1 DEF Typing
    <2>3. MakerFits' BY <1>1, <1>2 DEF MakerFits, MakerAt
    <2>4. RunningFits' BY <1>1, <1>2, <1>4, <2>1 DEF RunningFits
    <2>5. RestorerFits' BY <2>1 DEF RestorerFits, FilesFit, DatabaseFits, RestorerAt, Bringing, Swapping
    <2>6. AsItWas' BY <1>2, <1>4, <2>1 DEF BackupsInv, AsItWas, HasData, Tables
    <2>7. FilesAccounted' /\ RestoredFits' BY <2>1 DEF FilesAccounted, RestoredFits, Restored
    <2> QED BY <1>1, <1>2, <2>2, <2>3, <2>4, <2>5, <2>6, <2>7 DEF BackupsInv, Listed
  <1>5. CASE ~(Ends("refused") /\ UNCHANGED before)
    <2>1. /\ ~(database # NoDatabase /\ (Connected \/ (HasData(database) /\ ~restorer.overwrite)))
          /\ restorer' = [restorer EXCEPT !.pc = "comparing"]
          /\ before' = [database |-> database, shelf |-> shelf] /\ last' = last
      BY <1>5 DEF LooksAtTarget, RestorerGoes
    <2>2. ~running
      <3>1. running => database \in Library BY <1>1 DEF RunningFits
      <3> QED BY <2>1, <3>1, DatabasesApart DEF Connected
    <2>3. RestorerTypes BY <1>1, <1>2, <2>1 DEF RestorerTypes, Typing, Remembered
    <2>4. "comparing" \in Stages BY DEF Stages, Bringing
    <2>5. restorer' \in Restoring /\ restorer'.pc = "comparing" /\ Listed(restorer'.package)
      BY <1>3, <2>1, <2>4, NextStage
    <2>6. before'.database = database /\ before'.shelf = shelf BY <2>1
    <2>7. FilesFit' /\ DatabaseFits'
      BY <1>2, <2>5, <2>6 DEF FilesFit, DatabaseFits, RestorerAt, Swapping, Bringing
    <2> QED BY <1>2, <1>3, <2>1, <2>2, <2>3, <2>5, <2>6, <2>7, GoesOn
  <1> QED BY <1>4, <1>5

\* What a restore relies on once it has looked.
LEMMA PastLooking ==
    ASSUME BackupsInv, restorer.pc \in Bringing \cup Swapping
    PROVE  /\ restorer \in Restoring /\ Listed(restorer.package) /\ last = NeverRan /\ last.outcome = "none"
           /\ restorer.package \in Package /\ restorer.package.carried \in Shelving
           /\ restorer.package.dump \in Library /\ restorer.package.covers \subseteq Picture
           /\ ~running /\ FilesFit /\ DatabaseFits
           /\ database \in Databases /\ scratch \in Databases /\ shelf \in Shelving /\ pictures \subseteq Picture
           /\ before \in Remembered
           /\ \A p \in Shelves : before.shelf[p] # Vacant => shelf[p] = before.shelf[p]
           /\ HasData(before.database) => before.database \in {database} \cup aside
  <1>1. restorer.pc # "idle" /\ restorer.pc # "looking" BY DEF Bringing, Swapping
  <1>2. FilesFit /\ DatabaseFits BY DEF BackupsInv, RestorerFits
  <1>3. /\ database \in Databases /\ scratch \in Databases /\ shelf \in Shelving /\ pictures \subseteq Picture
        /\ before \in Remembered
    BY DEF BackupsInv, Typing, Remembered
  <1>4. /\ \A p \in Shelves : before.shelf[p] # Vacant => shelf[p] = before.shelf[p]
        /\ HasData(before.database) => before.database \in {database} \cup aside
    BY DEF BackupsInv, AsItWas
  <1> QED BY <1>1, <1>2, <1>3, <1>4, AtWorkOnIt

LEMMA NotRestored ==
    ASSUME last'.outcome # "restored"
    PROVE  RestoredFits' /\ FilesAccounted'
  BY DEF RestoredFits, FilesAccounted, Restored

LEMMA ComparesFilesStep ==
    ASSUME BackupsInv, ComparesFiles
    PROVE  BackupsInv'
  <1>1. restorer.pc = "comparing" BY DEF ComparesFiles, RestorerAt
  <1>2. /\ restorer \in Restoring /\ Listed(restorer.package) /\ last = NeverRan
        /\ restorer.package \in Package /\ restorer.package.carried \in Shelving
        /\ restorer.package.covers \subseteq Picture
        /\ ~running /\ DatabaseFits
        /\ database \in Databases /\ scratch \in Databases /\ shelf \in Shelving /\ pictures \subseteq Picture
        /\ before \in Remembered
        /\ \A p \in Shelves : before.shelf[p] # Vacant => shelf[p] = before.shelf[p]
    BY <1>1, PastLooking DEF Bringing
  <1>3. UNCHANGED <<database, scratch, aside, shelf, pictures, running, staff, maker, packages, before, sent>>
    BY DEF ComparesFiles, instance, counts
  <1>4. RestorerTypes BY <1>2, <1>3 DEF RestorerTypes
  <1>5. database = before.database BY <1>1, <1>2 DEF DatabaseFits, Bringing
  <1>6. CASE Conflicts(restorer.package) # {}
    <2>1. restorer' = NoRestorer /\ last'.outcome = "failed" BY <1>6 DEF ComparesFiles, Ends
    <2> QED BY <1>2, <1>3, <1>4, <1>5, <2>1, NotRestored, ItEnds
  <1>7. CASE Conflicts(restorer.package) = {}
    <2> DEFINE k == restorer.package
               todo == {p \in Carried(k) : shelf[p] = Vacant}
    <2>1. restorer' = [restorer EXCEPT !.pc = "installing", !.covers = k.covers \ pictures, !.todo = todo] /\ last' = last
      BY <1>7 DEF ComparesFiles
    <2>2. todo \in SUBSET Shelves /\ k.covers \ pictures \in SUBSET Picture BY <1>2 DEF Carried
    <2>3. restorer' \in Restoring /\ restorer'.pc = "installing" /\ restorer'.package = k /\ restorer'.todo = todo
      BY <1>2, <2>1, <2>2 DEF Restoring
    <2>4. \A p \in Carried(k) \ todo : shelf[p] = k.carried[p] BY <1>7 DEF Conflicts, Carried
    <2>5. FilesFit' BY <1>3, <2>3, <2>4 DEF FilesFit, RestorerAt, Swapping, Carried
    <2>6. DatabaseFits' BY <1>3, <1>5, <2>3 DEF DatabaseFits, RestorerAt, Swapping, Bringing
    <2>7. Listed(restorer'.package) BY <1>2, <2>3
    <2> QED BY <1>2, <1>3, <1>4, <1>5, <2>1, <2>3, <2>5, <2>6, <2>7, GoesOn
  <1> QED BY <1>6, <1>7

LEMMA InstallsFileStep ==
    ASSUME BackupsInv, NEW p \in Shelves, InstallsFile(p)
    PROVE  BackupsInv'
  <1> DEFINE k == restorer.package
  <1>1. restorer.pc = "installing" BY DEF InstallsFile, RestorerAt
  <1>2. /\ restorer \in Restoring /\ Listed(k) /\ last = NeverRan /\ k.carried \in Shelving
        /\ ~running /\ FilesFit /\ DatabaseFits
        /\ database \in Databases /\ scratch \in Databases /\ shelf \in Shelving /\ pictures \subseteq Picture
        /\ before \in Remembered
        /\ \A q \in Shelves : before.shelf[q] # Vacant => shelf[q] = before.shelf[q]
    BY <1>1, PastLooking DEF Bringing
  <1>3. UNCHANGED <<database, scratch, aside, pictures, running, staff, maker, packages, last, before, sent>>
    BY DEF InstallsFile, counts
  <1>4. shelf' = [shelf EXCEPT ![p] = k.carried[p]] /\ p \in restorer.todo BY DEF InstallsFile
  <1>5. k.carried[p] \in Volumes \cup {Vacant} BY <1>2 DEF Shelving
  <1>6. shelf' \in Shelving BY <1>2, <1>4, <1>5 DEF Shelving
  <1>7. RestorerTypes BY <1>2, <1>3, <1>6 DEF RestorerTypes
  <1>8. /\ restorer' \in Restoring /\ restorer'.pc = "installing" /\ restorer'.package = k
        /\ restorer'.todo = restorer.todo \ {p}
    BY <1>1, <1>2 DEF InstallsFile, Restoring
  <1>9. restorer.todo \subseteq {q \in Carried(k) : shelf[q] = Vacant} /\
        \A q \in Carried(k) \ restorer.todo : shelf[q] = k.carried[q]
    BY <1>1, <1>2 DEF FilesFit, RestorerAt
  <1>10. \A q \in Shelves : before.shelf[q] # Vacant => shelf'[q] = before.shelf[q]
    BY <1>2, <1>4, <1>9 DEF Shelving
  <1>11. shelf'[p] = k.carried[p] /\ \A q \in Shelves \ {p} : shelf'[q] = shelf[q]
    BY <1>2, <1>4 DEF Shelving
  <1>12. FilesFit'
    <2>1. \A q \in Carried(k) \ restorer'.todo : shelf'[q] = k.carried[q] BY <1>8, <1>9, <1>11 DEF Carried
    <2>2. restorer'.todo \subseteq {q \in Carried(k) : shelf'[q] = Vacant} BY <1>8, <1>9, <1>11 DEF Carried
    <2> QED BY <1>8, <2>1, <2>2 DEF FilesFit, RestorerAt, Swapping, Carried
  <1>13. database = before.database BY <1>1, <1>2 DEF DatabaseFits, Bringing
  <1>14. DatabaseFits' BY <1>3, <1>8, <1>13 DEF DatabaseFits, RestorerAt, Swapping, Bringing
  <1>15. Listed(restorer'.package) BY <1>2, <1>8
  <1> QED BY <1>2, <1>3, <1>7, <1>8, <1>10, <1>12, <1>13, <1>14, <1>15, GoesOn

LEMMA InstallsCoverStep ==
    ASSUME BackupsInv, InstallsCover
    PROVE  BackupsInv'
  <1> DEFINE k == restorer.package
  <1>1. restorer.pc = "installing" BY DEF InstallsCover, RestorerAt
  <1>2. /\ restorer \in Restoring /\ Listed(k) /\ last = NeverRan
        /\ ~running /\ FilesFit /\ DatabaseFits
        /\ database \in Databases /\ scratch \in Databases /\ shelf \in Shelving /\ pictures \subseteq Picture
        /\ before \in Remembered
        /\ \A q \in Shelves : before.shelf[q] # Vacant => shelf[q] = before.shelf[q]
    BY <1>1, PastLooking DEF Bringing
  <1>3. UNCHANGED <<database, scratch, aside, shelf, running, staff, maker, packages, last, before, sent>>
    BY DEF InstallsCover, counts
  <1>4. PICK c \in restorer.covers : restorer' = [restorer EXCEPT !.covers = @ \ {c}] /\ pictures' = pictures \cup {c}
    BY DEF InstallsCover
  <1>5. pictures' \subseteq Picture BY <1>2, <1>4, RestoringFields
  <1>6. RestorerTypes BY <1>2, <1>3, <1>5 DEF RestorerTypes
  <1>7. /\ restorer' \in Restoring /\ restorer'.pc = "installing" /\ restorer'.package = k
        /\ restorer'.todo = restorer.todo
    BY <1>1, <1>2, <1>4 DEF Restoring
  <1>8. FilesFit' BY <1>1, <1>2, <1>3, <1>7 DEF FilesFit, RestorerAt, Swapping, Carried
  <1>9. database = before.database BY <1>1, <1>2 DEF DatabaseFits, Bringing
  <1>10. DatabaseFits' BY <1>3, <1>7, <1>9 DEF DatabaseFits, RestorerAt, Swapping, Bringing
  <1>11. Listed(restorer'.package) BY <1>2, <1>7
  <1> QED BY <1>2, <1>3, <1>6, <1>7, <1>8, <1>9, <1>10, <1>11, GoesOn

LEMMA ChecksFilesStep ==
    ASSUME BackupsInv, ChecksFiles
    PROVE  BackupsInv'
  <1> DEFINE k == restorer.package
  <1>1. restorer.pc = "installing" /\ restorer.todo = {} BY DEF ChecksFiles, RestorerAt
  <1>2. /\ restorer \in Restoring /\ Listed(k) /\ last = NeverRan
        /\ ~running /\ FilesFit /\ DatabaseFits
        /\ database \in Databases /\ scratch \in Databases /\ shelf \in Shelving /\ pictures \subseteq Picture
        /\ before \in Remembered
        /\ \A q \in Shelves : before.shelf[q] # Vacant => shelf[q] = before.shelf[q]
    BY <1>1, PastLooking DEF Bringing
  <1>3. UNCHANGED <<database, scratch, aside, shelf, pictures, running, staff, maker, packages, last, before, sent>>
    BY DEF ChecksFiles, instance, counts
  <1>4. RestorerTypes BY <1>2, <1>3 DEF RestorerTypes
  <1>5. Absent(k) \in SUBSET Volumes BY DEF Absent
  <1>6. /\ restorer' \in Restoring /\ restorer'.pc = "loading" /\ restorer'.package = k
        /\ restorer'.missing = Absent(k)
    <2>1. restorer' = [restorer EXCEPT !.pc = "loading", !.missing = Absent(k)] BY DEF ChecksFiles
    <2> HIDE DEF k
    <2>2. restorer' \in Restoring BY <1>2, <1>5, <2>1 DEF Restoring
    <2>3. restorer'.package = restorer.package /\ restorer'.pc = "loading" /\ restorer'.missing = Absent(k)
      BY <1>2, <2>1 DEF Restoring
    <2> QED BY <2>2, <2>3 DEF k
  <1>7. \A p \in Carried(k) : shelf[p] = k.carried[p] BY <1>1, <1>2 DEF FilesFit, RestorerAt
  <1>8. FilesFit' BY <1>3, <1>6, <1>7 DEF FilesFit, RestorerAt, Swapping, Carried, Absent
  <1>9. database = before.database BY <1>1, <1>2 DEF DatabaseFits, Bringing
  <1>10. DatabaseFits' BY <1>3, <1>6, <1>9 DEF DatabaseFits, RestorerAt, Swapping, Bringing
  <1>11. Listed(restorer'.package) BY <1>2, <1>6
  <1> QED BY <1>2, <1>3, <1>4, <1>6, <1>8, <1>9, <1>10, <1>11, GoesOn

LEMMA LoadingStep ==
    ASSUME BackupsInv, CreatesDatabase \/ LoadsDatabase \/ LoadsScratch
    PROVE  BackupsInv'
  <1> DEFINE k == restorer.package
  <1>1. restorer.pc = "loading" BY DEF CreatesDatabase, LoadsDatabase, LoadsScratch, RestorerAt
  <1>2. /\ restorer \in Restoring /\ Listed(k) /\ last = NeverRan /\ k.dump \in Library
        /\ ~running /\ FilesFit /\ DatabaseFits
        /\ database \in Databases /\ scratch \in Databases /\ shelf \in Shelving /\ pictures \subseteq Picture
        /\ before \in Remembered
        /\ \A q \in Shelves : before.shelf[q] # Vacant => shelf[q] = before.shelf[q]
        /\ HasData(before.database) => before.database \in {database} \cup aside
    BY <1>1, PastLooking DEF Swapping
  <1>3. UNCHANGED <<aside, shelf, pictures, running, staff, maker, packages, last, before, sent>>
    BY DEF CreatesDatabase, LoadsDatabase, LoadsScratch, counts
  <1>4. database = before.database \/ (before.database = NoDatabase /\ database = NoTables)
    BY <1>1, <1>2 DEF DatabaseFits, RestorerAt
  <1>5. NoTables \in Databases /\ k.dump \in Databases BY <1>2 DEF Databases
  <1>6. ASSUME CreatesDatabase PROVE BackupsInv'
    <2>1. database = NoDatabase /\ database' = NoTables /\ UNCHANGED <<scratch, restorer>> BY <1>6 DEF CreatesDatabase
    <2>2. before.database = NoDatabase BY <1>4, <2>1, DatabasesApart
    <2>3. RestorerTypes BY <1>2, <1>3, <1>5, <2>1 DEF RestorerTypes
    <2>4. FilesFit' BY <1>1, <1>2, <1>3, <2>1, StillMissing DEF Swapping
    <2>5. DatabaseFits' BY <1>1, <1>3, <2>1, <2>2 DEF DatabaseFits, RestorerAt, Bringing
    <2>6. ~HasData(before.database) BY <2>2, DatabasesApart
    <2>7. Listed(restorer'.package) /\ restorer' \in Restoring BY <1>2, <2>1
    <2> QED BY <1>2, <1>3, <2>3, <2>4, <2>5, <2>6, <2>7, GoesOn
  <1>7. ASSUME LoadsDatabase PROVE BackupsInv'
    <2>1. database = NoTables /\ database' = k.dump /\ scratch' = scratch BY <1>7 DEF LoadsDatabase, HasRoom
    <2>2. ~HasData(before.database) BY <1>4, <2>1, DatabasesApart
    <2>3. RestorerTypes BY <1>2, <1>3, <1>5, <2>1 DEF RestorerTypes
    <2>4. /\ restorer' \in Restoring /\ restorer'.pc = "finishing" /\ restorer'.package = k
          /\ restorer'.missing = restorer.missing
      BY <1>2, <1>7, NextStage DEF LoadsDatabase, RestorerGoes, Stages, Swapping
    <2>5. FilesFit' BY <1>1, <1>2, <1>3, <2>4, StillMissing DEF Swapping
    <2>6. DatabaseFits' BY <1>3, <2>1, <2>2, <2>4 DEF DatabaseFits, RestorerAt, Bringing, HasData, Tables
    <2>7. Listed(restorer'.package) BY <1>2, <2>4
    <2> QED BY <1>2, <1>3, <2>2, <2>3, <2>4, <2>5, <2>6, <2>7, GoesOn
  <1>8. ASSUME LoadsScratch PROVE BackupsInv'
    <2>1. database # NoTables /\ database' = database /\ scratch' = k.dump BY <1>8 DEF LoadsScratch, HasRoom
    <2>2. database = before.database BY <1>4, <2>1
    <2>3. RestorerTypes BY <1>2, <1>3, <1>5, <2>1 DEF RestorerTypes
    <2>4. /\ restorer' \in Restoring /\ restorer'.pc = "swapping" /\ restorer'.package = k
          /\ restorer'.missing = restorer.missing
      BY <1>2, <1>8, NextStage DEF LoadsScratch, RestorerGoes, Stages, Swapping
    <2>5. FilesFit' BY <1>1, <1>2, <1>3, <2>4, StillMissing DEF Swapping
    <2>6. DatabaseFits' BY <1>3, <2>1, <2>2, <2>4 DEF DatabaseFits, RestorerAt, Bringing
    <2>7. Listed(restorer'.package) BY <1>2, <2>4
    <2> QED BY <1>2, <1>3, <2>1, <2>2, <2>3, <2>4, <2>5, <2>6, <2>7, GoesOn
  <1> QED BY <1>6, <1>7, <1>8

LEMMA SwappingStep ==
    ASSUME BackupsInv, SetsAside \/ PutsInPlace \/ PutsBack
    PROVE  BackupsInv'
  <1> DEFINE k == restorer.package
  <1>1. restorer.pc \in {"swapping", "naming"} BY DEF SetsAside, PutsInPlace, PutsBack, RestorerAt
  <1>2. /\ restorer \in Restoring /\ Listed(k) /\ last = NeverRan /\ k.dump \in Library
        /\ ~running /\ FilesFit /\ DatabaseFits
        /\ database \in Databases /\ scratch \in Databases /\ shelf \in Shelving /\ pictures \subseteq Picture
        /\ before \in Remembered
        /\ \A q \in Shelves : before.shelf[q] # Vacant => shelf[q] = before.shelf[q]
    BY <1>1, PastLooking DEF Swapping
  <1>3. UNCHANGED <<shelf, pictures, running, staff, maker, packages, before, sent>>
    BY DEF SetsAside, PutsInPlace, PutsBack, counts
  <1>4. NoDatabase \in Databases /\ before.database \in Databases BY <1>2 DEF Databases, Remembered
  <1>5. scratch = k.dump BY <1>1, <1>2 DEF DatabaseFits
  <1>6. ASSUME SetsAside PROVE BackupsInv'
    <2>1. restorer.pc = "swapping" BY <1>6 DEF SetsAside, RestorerAt
    <2>2. database = before.database BY <1>2, <2>1 DEF DatabaseFits
    <2>3. /\ aside' = aside \cup {database} /\ database' = NoDatabase /\ UNCHANGED <<scratch, last>>
      BY <1>6 DEF SetsAside
    <2>4. RestorerTypes BY <1>2, <1>3, <1>4, <2>3 DEF RestorerTypes
    <2>5. /\ restorer' \in Restoring /\ restorer'.pc = "naming" /\ restorer'.package = k
          /\ restorer'.missing = restorer.missing
      BY <1>2, <1>6, NextStage DEF SetsAside, RestorerGoes, Stages, Swapping
    <2>6. FilesFit' BY <1>1, <1>2, <1>3, <2>5, StillMissing DEF Swapping
    <2>7. DatabaseFits' BY <1>3, <1>5, <2>2, <2>3, <2>5 DEF DatabaseFits, RestorerAt, Bringing
    <2>8. Listed(restorer'.package) BY <1>2, <2>5
    <2> QED BY <1>2, <1>3, <2>2, <2>3, <2>4, <2>5, <2>6, <2>7, <2>8, GoesOn
  <1>7. ASSUME PutsInPlace PROVE BackupsInv'
    <2>1. restorer.pc = "naming" BY <1>7 DEF PutsInPlace, RestorerAt
    <2>2. before.database \in aside BY <1>2, <2>1 DEF DatabaseFits, RestorerAt
    <2>3. database' = scratch /\ scratch' = NoDatabase /\ UNCHANGED <<aside, last>> BY <1>7 DEF PutsInPlace
    <2>4. RestorerTypes BY <1>2, <1>3, <1>4, <2>3 DEF RestorerTypes
    <2>5. /\ restorer' \in Restoring /\ restorer'.pc = "finishing" /\ restorer'.package = k
          /\ restorer'.missing = restorer.missing
      BY <1>2, <1>7, NextStage DEF PutsInPlace, RestorerGoes, Stages, Swapping
    <2>6. FilesFit' BY <1>1, <1>2, <1>3, <2>5, StillMissing DEF Swapping
    <2>7. DatabaseFits' BY <1>3, <1>5, <2>2, <2>3, <2>5 DEF DatabaseFits, RestorerAt, Bringing
    <2>8. Listed(restorer'.package) BY <1>2, <2>5
    <2> QED BY <1>2, <1>3, <2>2, <2>3, <2>4, <2>5, <2>6, <2>7, <2>8, GoesOn
  <1>8. ASSUME PutsBack PROVE BackupsInv'
    <2>1. restorer.pc = "naming" BY <1>8 DEF PutsBack, RestorerAt
    <2>2. database = NoDatabase /\ before.database \in aside BY <1>2, <2>1 DEF DatabaseFits, RestorerAt
    <2>3. \/ database' = before.database
          \/ database' = NoDatabase /\ before.database \in aside'
      BY <1>8, <2>2 DEF PutsBack
    <2>4. scratch' = NoDatabase /\ restorer' = NoRestorer /\ last'.outcome = "failed" BY <1>8 DEF PutsBack, Ends
    <2>5. RestorerTypes BY <1>2, <1>3, <1>4, <2>3, <2>4 DEF RestorerTypes
    <2> QED BY <1>2, <1>3, <2>3, <2>4, <2>5, NotRestored, ItEnds
  <1> QED BY <1>6, <1>7, <1>8

LEMMA FinishesStep ==
    ASSUME BackupsInv, Finishes
    PROVE  BackupsInv'
  <1>1. restorer.pc = "finishing" BY DEF Finishes, RestorerAt
  <1>2. /\ restorer \in Restoring /\ Listed(restorer.package) /\ restorer.package.dump \in Library
        /\ restorer.package \in Package
        /\ ~running /\ FilesFit /\ DatabaseFits
        /\ scratch \in Databases /\ shelf \in Shelving /\ pictures \subseteq Picture
        /\ before \in Remembered
        /\ \A q \in Shelves : before.shelf[q] # Vacant => shelf[q] = before.shelf[q]
    BY <1>1, PastLooking DEF Swapping
  <1>3. UNCHANGED <<scratch, aside, shelf, pictures, running, staff, maker, packages, before, sent>>
    BY DEF Finishes, counts
  <1>4. PICK k \in Package, gone \in SUBSET Volumes :
            /\ k = restorer.package /\ gone = restorer.missing
    BY <1>2, RestoringFields
  <1>5. k.dump \in Library /\ k.list = k.dump.at /\ Listed(k) BY <1>2, <1>4 DEF Listed
  <1>6. database = k.dump /\ (HasData(before.database) => before.database \in aside)
    BY <1>1, <1>2, <1>4 DEF DatabaseFits, RestorerAt
  <1>7. gone = {v \in Volumes : k.list[v] \in Shelves /\ shelf[k.list[v]] = Vacant}
    BY <1>1, <1>2, <1>4 DEF FilesFit, Swapping, Absent
  <1>8. \A p \in Shelves : k.carried[p] # Vacant => shelf[p] = k.carried[p]
    BY <1>1, <1>2, <1>4 DEF FilesFit, Swapping, Carried
  <1>9. database' = [k.dump EXCEPT !.missing = @ \cup gone, !.told = TRUE] BY <1>4, <1>6 DEF Finishes
  <1>10. /\ database' \in Library /\ database'.at = k.dump.at
         /\ database'.missing = k.dump.missing \cup gone
    BY <1>4, <1>5, <1>9 DEF Library
  <1>11. restorer' = NoRestorer /\ last'.outcome = "restored" /\ last'.package = k BY <1>4 DEF Finishes, Ends
  <1>12. RestorerTypes BY <1>2, <1>3, <1>10 DEF RestorerTypes, Databases
  <1>13. RestoredFits' BY <1>5, <1>10, <1>11 DEF RestoredFits, Listed
  <1>14. FilesAccounted'
    <2> SUFFICES ASSUME NEW v \in Volumes, NEW p \in Shelves, p = k.list[v]
                 PROVE  /\ shelf[p] # Vacant \/ v \in database'.missing
                        /\ v \in database'.missing \ k.dump.missing => shelf[p] = Vacant
                        /\ k.carried[p] # Vacant => shelf[p] = k.carried[p]
      BY <1>3, <1>5, <1>10, <1>11 DEF FilesAccounted
    <2> QED BY <1>7, <1>8, <1>10
  <1> QED BY <1>2, <1>3, <1>6, <1>11, <1>12, <1>13, <1>14, ItEnds

LEMMA RestoreFailsStep ==
    ASSUME BackupsInv, RestoreFails
    PROVE  BackupsInv'
  <1>1. restorer.pc \in {"comparing", "installing", "loading", "swapping", "finishing"} BY DEF RestoreFails
  <1>2. /\ ~running /\ DatabaseFits
        /\ database \in Databases /\ shelf \in Shelving /\ pictures \subseteq Picture
        /\ before \in Remembered
        /\ \A q \in Shelves : before.shelf[q] # Vacant => shelf[q] = before.shelf[q]
        /\ HasData(before.database) => before.database \in {database} \cup aside
    BY <1>1, PastLooking DEF Bringing, Swapping
  <1>3. UNCHANGED <<database, aside, shelf, pictures, running, staff, maker, packages, before, sent>>
    BY DEF RestoreFails, counts
  <1>4. /\ scratch' = NoDatabase /\ restorer' = NoRestorer
        /\ last'.outcome = IF RestorerAt("finishing") THEN "unfinished" ELSE "failed"
    BY DEF RestoreFails, Ends
  <1>5. NoDatabase \in Databases BY DEF Databases
  <1>6. RestorerTypes BY <1>2, <1>3, <1>4, <1>5 DEF RestorerTypes
  <1>7. last'.outcome = "failed" =>
           database = before.database \/ (before.database = NoDatabase /\ database = NoTables)
    BY <1>1, <1>2, <1>4 DEF DatabaseFits, RestorerAt, Bringing
  <1>8. last'.outcome # "restored" BY <1>4
  <1> QED BY <1>2, <1>3, <1>4, <1>6, <1>7, <1>8, NotRestored, ItEnds

-----------------------------------------------------------------------------
(* Backups: starts, stops and losses. *)

LEMMA NothingGoesOn ==
    ASSUME BackupsInv, restorer' = NoRestorer, maker' \in {maker, NoMaker},
           UNCHANGED <<scratch, packages, sent>>,
           database' \in Databases, shelf' \in Shelving, pictures' \subseteq Picture, running' \in BOOLEAN,
           before' \in Remembered, RunningFits', RestoredFits', AsItWas', FilesAccounted'
    PROVE  BackupsInv'
  <1>1. Typing /\ MakerFits /\ \A k \in packages : Listed(k) BY DEF BackupsInv
  <1>2. Typing' BY <1>1 DEF Typing, Remembered
  <1>3. MakerFits' BY <1>1, AtRest DEF MakerFits, MakerAt
  <1>4. (restorer.pc = "idle")' BY AtRest
  <1>5. RestorerFits'
    BY <1>4 DEF RestorerFits, FilesFit, DatabaseFits, RestorerAt, Bringing, Swapping
  <1> QED BY <1>1, <1>2, <1>3, <1>5 DEF BackupsInv, Listed

LEMMA NoneRuns ==
    ASSUME Typing, RestorerAt("idle")
    PROVE  restorer = NoRestorer
  <1>1. ASSUME restorer \in Restoring PROVE FALSE
    <2>1. restorer.pc \in {"looking"} \cup Bringing \cup Swapping BY <1>1, RestoringFields
    <2> QED BY <2>1 DEF RestorerAt, Bringing, Swapping
  <1> QED BY <1>1 DEF Typing

LEMMA FreshIsOne == Fresh \in Library
  BY DEF Fresh, Library

\* An instance that is started, or lost, remembers nothing of a restore.
LEMMA Forgets ==
    ASSUME before' = Unknown, last' = NeverRan
    PROVE  RestoredFits' /\ AsItWas' /\ FilesAccounted' /\ before' \in Remembered
  <1>1. last'.outcome = "none" BY AtRest
  <1>2. \A p \in Shelves : before'.shelf[p] = Vacant BY AtRest DEF Emptied
  <1>3. ~HasData(before'.database) BY AtRest, DatabasesApart
  <1> QED BY <1>1, <1>2, <1>3, AtRest DEF AsItWas, FilesAccounted, RestoredFits, Restored, HasData, Tables, Remembered

LEMMA StartsInstanceStep ==
    ASSUME BackupsInv, StartsInstance
    PROVE  BackupsInv'
  <1>1. Typing /\ RunningFits BY DEF BackupsInv
  <1>2. restorer' = NoRestorer BY <1>1, NoneRuns DEF StartsInstance
  <1>3. database' \in Library
    <2>1. database \in Databases /\ database # NoDatabase BY <1>1 DEF Typing, StartsInstance
    <2> QED BY <2>1, FreshIsOne DEF StartsInstance, Databases
  <1>4. staff = NoRequest /\ staff' = staff BY <1>1 DEF RunningFits, StartsInstance
  <1>5. before' = Unknown /\ last' = NeverRan /\ last'.outcome = "none" BY AtRest DEF StartsInstance
  <1>6. RunningFits' BY <1>3, <1>4, <1>5 DEF RunningFits
  <1>7. shelf' \in Shelving /\ pictures' \subseteq Picture BY <1>1 DEF Typing, StartsInstance
  <1> QED BY <1>2, <1>3, <1>5, <1>6, <1>7, Forgets, NothingGoesOn DEF StartsInstance, counts, Databases

LEMMA StopsInstanceStep ==
    ASSUME BackupsInv, StopsInstance
    PROVE  BackupsInv'
  <1>1. Typing /\ MakerFits /\ RunningFits /\ RestorerFits /\ RestoredFits /\ (\A k \in packages : Listed(k))
    BY DEF BackupsInv
  <1>2. /\ UNCHANGED <<database, scratch, aside, shelf, pictures, staff, maker, packages, restorer, last, before, sent>>
        /\ running' = FALSE
    BY DEF StopsInstance, instance, counts
  <1>3. staff = NoRequest BY <1>1 DEF RunningFits, StopsInstance
  <1>4. Typing' BY <1>1, <1>2 DEF Typing
  <1>5. MakerFits' BY <1>1, <1>2 DEF MakerFits, MakerAt
  <1>6. RunningFits' BY <1>2, <1>3 DEF RunningFits
  <1>7. RestorerFits'
    BY <1>1, <1>2 DEF RestorerFits, FilesFit, DatabaseFits, RestorerAt, Listed, Carried, Absent, HasData, Tables
  <1>8. RestoredFits' BY <1>1, <1>2 DEF RestoredFits, Restored, Listed
  <1>9. AsItWas' /\ FilesAccounted'
    BY <1>2 DEF BackupsInv, AsItWas, FilesAccounted, Restored, HasData, Tables
  <1> QED BY <1>1, <1>2, <1>4, <1>5, <1>6, <1>7, <1>8, <1>9 DEF BackupsInv, Listed

LEMMA DiesStep ==
    ASSUME BackupsInv, Dies
    PROVE  BackupsInv'
  <1>1. Typing /\ RestoredFits /\ AsItWas /\ FilesAccounted BY DEF BackupsInv
  <1>2. /\ UNCHANGED <<database, scratch, aside, shelf, pictures, packages, before, sent>>
        /\ running' = FALSE /\ staff' = NoRequest /\ maker' = NoMaker /\ restorer' = NoRestorer
    BY DEF Dies, HappensOnce, instance
  <1>3. RunningFits' BY <1>2 DEF RunningFits
  <1>4. (AsItWas /\ FilesAccounted /\ RestoredFits)'
    <2>1. CASE RestorerAt("idle")
      <3>1. last' = last BY <2>1 DEF Dies
      <3>2. AsItWas' BY <1>1, <1>2, <3>1 DEF AsItWas, HasData, Tables
      <3>3. FilesAccounted' BY <1>1, <1>2, <3>1 DEF FilesAccounted, Restored
      <3>4. RestoredFits' BY <1>1, <1>2, <3>1 DEF RestoredFits, Restored, Listed
      <3> QED BY <3>2, <3>3, <3>4
    <2>2. CASE ~RestorerAt("idle")
      <3>1. last'.outcome = "died" BY <2>2 DEF Dies
      <3>2. AsItWas' BY <1>1, <1>2, <3>1 DEF AsItWas, HasData, Tables
      <3> QED BY <3>1, <3>2, NotRestored
    <2> QED BY <2>1, <2>2
  <1>5. /\ database' \in Databases /\ shelf' \in Shelving /\ pictures' \subseteq Picture /\ before' \in Remembered
    BY <1>1, <1>2 DEF Typing, Remembered
  <1> QED BY <1>2, <1>3, <1>4, <1>5, NothingGoesOn

LEMMA LosesInstanceStep ==
    ASSUME BackupsInv, LosesInstance
    PROVE  BackupsInv'
  <1>1. Typing /\ RunningFits BY DEF BackupsInv
  <1>2. restorer' = NoRestorer BY <1>1, NoneRuns DEF LosesInstance
  <1>3. /\ ~running /\ before' = Unknown /\ last' = NeverRan /\ UNCHANGED <<scratch, running, staff, maker, packages, sent>>
    BY DEF LosesInstance, HappensOnce
  <1>4. RunningFits' BY <1>1, <1>3 DEF RunningFits
  <1>5. Emptied \in Shelving BY DEF Emptied, Shelving
  <1>6. /\ database' \in Databases /\ shelf' \in Shelving /\ pictures' \subseteq Picture
    BY <1>1, <1>5 DEF Typing, LosesInstance, Databases
  <1>7. running' \in BOOLEAN BY <1>1, <1>3 DEF Typing
  <1> QED BY <1>2, <1>3, <1>4, <1>6, <1>7, Forgets, NothingGoesOn

-----------------------------------------------------------------------------
(* Backups: the theorems. *)

LEMMA BackupsInvInit ==
    ASSUME BackupsInit
    PROVE  BackupsInv
  <1>1. PICK place \in [Volumes -> Shelves] :
            /\ database = [Fresh EXCEPT !.data = TRUE, !.at = place]
            /\ shelf = [p \in Shelves |-> IF \E v \in Volumes : place[v] = p
                                          THEN CHOOSE v \in Volumes : place[v] = p ELSE Vacant]
    BY DEF BackupsInit
  <1>2. database \in Library BY <1>1, FreshIsOne DEF Library
  <1>3. shelf \in Shelving BY <1>1 DEF Shelving
  <1>4. /\ scratch = NoDatabase /\ pictures = {} /\ running = TRUE /\ staff = NoRequest /\ maker = NoMaker
        /\ packages = {} /\ restorer = NoRestorer /\ last = NeverRan /\ before = Unknown /\ sent = 0
    BY DEF BackupsInit
  <1>5. Typing BY <1>2, <1>3, <1>4, AtRest DEF Typing, Databases
  <1>6. MakerFits BY <1>4, AtRest DEF MakerFits, MakerAt
  <1>7. restorer.pc = "idle" /\ last.outcome = "none" BY <1>4, AtRest
  <1>8. RestorerFits BY <1>4, <1>7 DEF RestorerFits, FilesFit, DatabaseFits, RestorerAt, Bringing, Swapping
  <1>9. RunningFits BY <1>2, <1>4, <1>7 DEF RunningFits
  <1>10. AsItWas /\ FilesAccounted /\ RestoredFits BY <1>4, <1>7, NothingRemembered
  <1> QED BY <1>4, <1>5, <1>6, <1>8, <1>9, <1>10 DEF BackupsInv

LEMMA NothingHappens ==
    ASSUME BackupsInv, UNCHANGED backupsVars
    PROVE  BackupsInv'
  <1>1. Typing /\ MakerFits /\ RunningFits /\ RestorerFits /\ RestoredFits /\ (\A k \in packages : Listed(k))
    BY DEF BackupsInv
  <1>2. /\ UNCHANGED <<database, scratch, aside, shelf, pictures, staff, maker, packages, restorer, last, before, sent>>
        /\ running' = running
    BY DEF backupsVars
  <1>3. Typing' BY <1>1, <1>2 DEF Typing
  <1>4. MakerFits' BY <1>1, <1>2 DEF MakerFits, MakerAt
  <1>5. RunningFits' BY <1>1, <1>2 DEF RunningFits
  <1>6. RestorerFits'
    BY <1>1, <1>2 DEF RestorerFits, FilesFit, DatabaseFits, RestorerAt, Listed, Carried, Absent, HasData, Tables
  <1>7. RestoredFits' BY <1>1, <1>2 DEF RestoredFits, Restored, Listed
  <1>8. AsItWas' /\ FilesAccounted'
    BY <1>2 DEF BackupsInv, AsItWas, FilesAccounted, Restored, HasData, Tables
  <1> QED BY <1>1, <1>2, <1>3, <1>4, <1>5, <1>6, <1>7, <1>8 DEF BackupsInv, Listed

LEMMA BackupsInductive == BackupsInv /\ [BackupsNext]_backupsVars => BackupsInv'
  <1> SUFFICES ASSUME BackupsInv, [BackupsNext]_backupsVars
               PROVE  BackupsInv'
    OBVIOUS
  <1>1. CASE UNCHANGED backupsVars BY <1>1, NothingHappens
  <1>2. CASE AtWork
    BY <1>2, PicturesStep, ReshelvesStep, FirstPersonStep, StartsInstanceStep, StopsInstanceStep DEF AtWork
  <1>3. CASE Creates BY <1>3, CreatesStep
  <1>4. CASE Restores
    BY <1>4, ReadsPackageStep, LooksAtTargetStep, ComparesFilesStep, InstallsFileStep, InstallsCoverStep,
       ChecksFilesStep, LoadingStep, SwappingStep, FinishesStep, RestoreFailsStep
    DEF Restores
  <1>5. CASE Dies BY <1>5, DiesStep
  <1>6. CASE LosesInstance BY <1>6, LosesInstanceStep
  <1> QED BY <1>1, <1>2, <1>3, <1>4, <1>5, <1>6 DEF BackupsNext

LEMMA BackupsAlways == BackupsSpec => []BackupsInv
  BY BackupsInvInit, BackupsInductive, PTL DEF BackupsSpec

\* "A failure before the swap leaves the instance exactly as it was" (restore.go): no file a
\* restore found is moved or written over, a database with data keeps a name whatever failed
\* or died on the way, and a restore that failed left it under its own.
THEOREM FoundAsItWas == BackupsSpec => []AsItWas
  <1>1. BackupsInv => AsItWas BY DEF BackupsInv
  <1> QED BY <1>1, BackupsAlways, PTL

\* checkFiles and afterRestore: of a restored database something lies at the place of each file, or it is marked as
\* missing, the marks a restore adds are true, and what travelled lies where the list says,
\* whatever the library did while the package was made and whatever instance it comes to.
THEOREM FilesAccountedFor == BackupsSpec => []FilesAccounted
  <1>1. BackupsInv => FilesAccounted BY DEF BackupsInv
  <1> QED BY <1>1, BackupsAlways, PTL

-----------------------------------------------------------------------------
(* Storage: the inductive invariant, until two tasks come in each other's way. *)

Moves == {"planned", "moving", "reverting", "confirming"}
Trashings == {"trashing", "recording", "untrashing"}
Restorings == {"restoring", "restored", "unrestoring"}
Deletions == {"expired", "removing", "erasing"}

\* What the database and the disk say of a file.  An item is in the trash as long as its
\* location says so; its bytes are under its own path, in its own bin, or on their way.
Sound(f) ==
    /\ loc[f].path \in PathsOf(f)
    /\ loc[f].state # "missing"
    /\ item[f].there <=> loc[f].state = "trashed"
    /\ item[f].there => item[f].original = loc[f].path
    /\ loc[f].state = "ok" => f \in {disk[loc[f].path], disk[Bin(f)]}
    /\ loc[f].state \in {"moving", "conflict"} =>
          /\ loc[f].to \in Destinations(f) \ {loc[f].path}
          /\ (disk[loc[f].path] = f) # (disk[loc[f].to] = f)
    /\ loc[f].state # "gone" => disk[loc[f].path] \in {f, NoFile}
    /\ disk[Bin(f)] \in {f, NoFile}

\* A path is one file's, and the bytes of a file are at one place.
PathsApart ==
    \A f, g \in Files : f # g /\ loc[f].state # "gone" /\ loc[g].state # "gone" => loc[f].path # loc[g].path
OnePlace(f) == \A q, r \in Places : disk[q] = f /\ disk[r] = f => q = r

\* What a task that does o relies on: the state of its file, where the bytes are, and that
\* nobody came to the place it looked at.
Fits(o) ==
    o.pc # "idle" =>
        /\ o.file \in Files
        /\ o.pc \in Moves => o.to \in Destinations(o.file)
        /\ o.pc \in {"moving", "reverting", "confirming"} =>
              loc[o.file].state = "moving" /\ loc[o.file].to = o.to /\ loc[o.file].path = o.from
        /\ o.pc \in {"moving", "reverting"} => disk[o.from] = o.file
        /\ o.pc \in {"moving", "restoring"} => disk[o.to] = NoFile
        /\ o.pc \in {"confirming", "restored", "unrestoring"} => disk[o.to] = o.file
        /\ o.pc \in {"moving", "confirming"} => ~HeldByOther(o.file, o.to)
        /\ o.pc \in Trashings => loc[o.file].state = "ok"
        /\ o.pc \in Trashings => o.from = loc[o.file].path /\ o.to = Bin(o.file)
        /\ o.pc \in {"recording", "untrashing"} => disk[Bin(o.file)] = o.file
        /\ o.pc \in Restorings \cup Deletions => o.from = Bin(o.file)
        /\ o.pc \in (Restorings \cup Deletions) \ {"expired"} =>
              loc[o.file].state = "trashed" /\ o.id = item[o.file].id
        /\ o.pc \in Restorings => o.to \in {loc[o.file].path, Beside[o.file]}
        /\ o.pc = "restoring" => disk[Bin(o.file)] = o.file

\* TypeOK, of what is not history.
RowsTyped ==
    /\ loc \in [Files -> Location] /\ item \in [Files -> Item] /\ disk \in [Places -> Files \cup {NoFile}]
    /\ op \in [Tasks -> Ops] /\ serving \in BOOLEAN /\ crashes \in Nat
    /\ \A t \in Tasks : op[t].pc # "idle" => op[t].file \in Files

StorageInv ==
    /\ RowsTyped /\ PathsApart
    /\ \A f \in Files : Sound(f) /\ OnePlace(f)
    /\ \A t \in Tasks : Fits(op[t])
    /\ ~serving => \A t \in Tasks : op[t] = Idle

-----------------------------------------------------------------------------
(* Storage: what the steps share. *)

LEMMA PathsAndBins ==
    /\ \A f \in Files : PathsOf(f) \subseteq Places /\ Bin(f) \in Places
    /\ \A f \in Files : Destinations(f) \subseteq PathsOf(f) /\ Home[f] \in PathsOf(f) /\ Beside[f] \in PathsOf(f)
    /\ \A f, g \in Files : Bin(f) \notin PathsOf(g)
    /\ \A f, g \in Files : f # g => Bin(f) # Bin(g)
    /\ \A f \in Files : f # NoFile
  <1>1. \A f \in Files : PathsOf(f) \subseteq Paths BY StorageAssumption DEF PathsOf, Destinations
  <1>2. \A f \in Files : Bin(f) \in Places /\ Bin(f) \notin Paths BY StorageAssumption DEF Places
  <1>3. \A f, g \in Files : f # g => Bin(f) # Bin(g) BY DEF Bin
  <1> QED BY <1>1, <1>2, <1>3, StorageAssumption DEF Places, PathsOf

\* q is no other file's path, and no other task is on its way there.
Free(t, f, q) ==
    /\ \A g \in Files \ {f} : (loc[g].state # "gone" => loc[g].path # q) /\ q # Bin(g)
    /\ \A u \in Tasks \ {t} : op[u].pc \in {"moving", "confirming", "restoring"} => op[u].to # q

\* A task works on its file, and brings its bytes, or its path, where no one else is.
OnlyIts(t, f) ==
    /\ \A g \in Files \ {f} : loc'[g] = loc[g] /\ item'[g] = item[g]
    /\ \A q \in Places : disk'[q] # disk[q] =>
          disk[q] \in {f, NoFile} /\ disk'[q] \in {f, NoFile} /\ (disk'[q] = f => Free(t, f, q))
    /\ loc'[f].state # "gone" =>
          loc[f].state # "gone" /\ (loc'[f].path = loc[f].path \/ Free(t, f, loc'[f].path))

LEMMA OthersSound ==
    ASSUME StorageInv, NEW t \in Tasks, NEW f \in Files, OnlyIts(t, f), NEW g \in Files, g # f
    PROVE  Sound(g)' /\ OnePlace(g)'
  <1>1. Sound(g) /\ OnePlace(g) BY DEF StorageInv
  <1>2. loc'[g] = loc[g] /\ item'[g] = item[g] BY DEF OnlyIts
  <1>3. \A q \in Places : (disk'[q] = g <=> disk[q] = g) BY PathsAndBins DEF OnlyIts
  <1>4. \A q \in Places : disk[q] \in {g, NoFile} /\ ((loc[g].state # "gone" /\ loc[g].path = q) \/ q = Bin(g))
                            => disk'[q] \in {g, NoFile}
    BY DEF OnlyIts, Free
  <1>5. /\ loc[g].path \in Places /\ Bin(g) \in Places
        /\ loc[g].state \in {"moving", "conflict"} => loc[g].to \in Places
    BY <1>1, PathsAndBins DEF Sound
  <1>6. OnePlace(g)' BY <1>1, <1>3 DEF OnePlace
  <1>7. Sound(g)'
    <2>1. (loc[g].state = "ok" => g \in {disk[loc[g].path], disk[Bin(g)]})' BY <1>1, <1>2, <1>3, <1>5 DEF Sound
    <2>2. (loc[g].state \in {"moving", "conflict"} =>
             /\ loc[g].to \in Destinations(g) \ {loc[g].path}
             /\ (disk[loc[g].path] = g) # (disk[loc[g].to] = g))'
      <3>1. disk'[loc[g].path] = g <=> disk[loc[g].path] = g BY <1>3, <1>5
      <3>2. loc[g].state \in {"moving", "conflict"} => (disk'[loc[g].to] = g <=> disk[loc[g].to] = g) BY <1>3, <1>5
      <3> QED BY <1>1, <1>2, <3>1, <3>2 DEF Sound
    <2>3. (loc[g].state # "gone" => disk[loc[g].path] \in {g, NoFile})' BY <1>1, <1>2, <1>4, <1>5 DEF Sound
    <2>4. (disk[Bin(g)] \in {g, NoFile})' BY <1>1, <1>4, <1>5 DEF Sound
    <2> QED BY <1>1, <1>2, <2>1, <2>2, <2>3, <2>4 DEF Sound
  <1> QED BY <1>6, <1>7

\* The places a task relies on are places, and its file is no other task's.
LEMMA FitsPlaces ==
    ASSUME NEW o \in Ops, Fits(o), o.pc # "idle", Sound(o.file)
    PROVE  /\ o.pc \in Moves \cup Restorings => o.to \in PathsOf(o.file) /\ o.to \in Places
           /\ o.pc \in {"moving", "reverting"} => o.from \in Places
           /\ Bin(o.file) \in Places
  BY PathsAndBins DEF Fits, Sound, Moves, Restorings

\* No other task is at work on the file.
WorksAlone(t, f) == \A u \in Tasks \ {t} : Engaged(u) => op[u].file # f

LEMMA OthersFit ==
    ASSUME StorageInv, NEW t \in Tasks, NEW f \in Files, OnlyIts(t, f), WorksAlone(t, f),
           NEW u \in Tasks, u # t, NEW o \in Ops, o = op[u]
    PROVE  Fits(o)'
  <1>0. CASE ~Engaged(u)
    <2>1. o.pc \in {"idle", "planned", "expired"} /\ Fits(o) BY <1>0 DEF Engaged, StorageInv
    <2> QED BY <2>1 DEF Fits, Moves, Trashings, Restorings, Deletions
  <1> SUFFICES ASSUME Engaged(u) PROVE Fits(o)'
    BY <1>0
  <1> USE DEF Engaged
  <1>1. Fits(o) BY DEF StorageInv
  <1>2. PICK g \in Files : g = o.file BY <1>1 DEF Fits
  <1>3. g # f BY <1>2 DEF WorksAlone
  <1>4. Sound(g) BY DEF StorageInv
  <1>5. loc'[g] = loc[g] /\ item'[g] = item[g] BY <1>3 DEF OnlyIts
  <1>6. \A q \in Places : (disk'[q] = g <=> disk[q] = g) BY <1>3, PathsAndBins DEF OnlyIts
  <1>7. o.pc \in {"moving", "restoring"} => disk'[o.to] = NoFile
    <2> SUFFICES ASSUME o.pc \in {"moving", "restoring"} PROVE disk'[o.to] = NoFile
      OBVIOUS
    <2>1. o.to \in Places BY <1>1, <1>2, <1>4, FitsPlaces DEF Moves, Restorings
    <2>2. disk[o.to] = NoFile BY <1>1 DEF Fits
    <2>3. ~Free(t, f, o.to) BY DEF Free
    <2> QED BY <2>1, <2>2, <2>3 DEF OnlyIts
  <1>8. o.pc \in {"moving", "confirming"} => ~HeldByOther(g, o.to)'
    <2> SUFFICES ASSUME o.pc \in {"moving", "confirming"}, NEW h \in Files, h # g, loc'[h].state # "gone",
                        loc'[h].path = o.to
                 PROVE  FALSE
      BY DEF HeldByOther
    <2>1. ~HeldByOther(g, o.to) BY <1>1, <1>2 DEF Fits
    <2>2. ~Free(t, f, o.to) BY DEF Free
    <2>3. CASE h = f BY <2>1, <2>2, <2>3, <1>3 DEF OnlyIts, HeldByOther
    <2>4. CASE h # f BY <2>1, <2>4 DEF OnlyIts, HeldByOther
    <2> QED BY <2>3, <2>4
  <1>9. /\ o.pc \in {"moving", "reverting"} => disk'[o.from] = g
        /\ o.pc \in {"confirming", "restored", "unrestoring"} => disk'[o.to] = g
        /\ o.pc \in {"recording", "untrashing", "restoring"} => disk'[Bin(g)] = g
    <2>1. /\ o.pc \in Moves \cup Restorings => o.to \in Places
          /\ o.pc \in {"moving", "reverting"} => o.from \in Places
          /\ Bin(g) \in Places
      BY <1>1, <1>2, <1>4, FitsPlaces
    <2>2. /\ o.pc \in {"moving", "reverting"} => disk[o.from] = g
          /\ o.pc \in {"confirming", "restored", "unrestoring"} => disk[o.to] = g
          /\ o.pc \in {"recording", "untrashing", "restoring"} => disk[Bin(g)] = g
      BY <1>1, <1>2 DEF Fits
    <2> QED BY <1>6, <2>1, <2>2 DEF Moves, Restorings
  <1> QED BY <1>1, <1>2, <1>5, <1>7, <1>8, <1>9 DEF Fits

LEMMA TaskStep ==
    ASSUME StorageInv, NEW t \in Tasks, NEW f \in Files, NEW o \in Ops, OnlyIts(t, f), WorksAlone(t, f),
           op' = [op EXCEPT ![t] = o], serving, UNCHANGED <<serving, crashes>>,
           loc' \in [Files -> Location], item' \in [Files -> Item], disk' \in [Places -> Files \cup {NoFile}],
           Sound(f)', OnePlace(f)', Fits(o)'
    PROVE  StorageInv'
  <1>1. op \in [Tasks -> Ops] BY DEF StorageInv, RowsTyped
  <1>2. op'[t] = o /\ \A u \in Tasks \ {t} : op'[u] = op[u] BY <1>1
  <1>3. \A u \in Tasks : Fits(op[u])'
    <2> TAKE u \in Tasks
    <2>1. CASE u = t
      <3>1. op'[u] = o BY <1>2, <2>1
      <3> QED BY <2>1, <3>1 DEF Fits, HeldByOther
    <2>2. CASE u # t
      <3>1. PICK w \in Ops : w = op[u] BY <1>1
      <3>2. Fits(w)' BY <2>2, <3>1, OthersFit
      <3>3. op'[u] = w BY <1>2, <2>2, <3>1
      <3> QED BY <3>2, <3>3 DEF Fits, HeldByOther
    <2> QED BY <2>1, <2>2
  <1>4. \A g \in Files : Sound(g)' /\ OnePlace(g)' BY OthersSound
  <1>5. RowsTyped'
    <2>1. op' \in [Tasks -> Ops] BY <1>1
    <2>2. \A u \in Tasks : op'[u].pc # "idle" => op'[u].file \in Files BY <1>3 DEF Fits
    <2>3. crashes' \in Nat /\ serving' \in BOOLEAN BY DEF StorageInv, RowsTyped
    <2> QED BY <2>1, <2>2, <2>3 DEF RowsTyped
  <1>6. PathsApart'
    <2> SUFFICES ASSUME NEW g \in Files, NEW h \in Files, g # h, loc'[g].state # "gone", loc'[h].state # "gone",
                        loc'[g].path = loc'[h].path
                 PROVE  FALSE
      BY DEF PathsApart
    <2>1. \A x \in Files \ {f} : loc'[x].state # "gone" => loc'[x].path # loc'[f].path \/ loc'[f].state = "gone"
      BY DEF OnlyIts, Free, StorageInv, PathsApart
    <2>2. \A x \in Files \ {f} : loc'[x] = loc[x] BY DEF OnlyIts
    <2> QED BY <2>1, <2>2 DEF StorageInv, PathsApart
  <1> QED BY <1>3, <1>4, <1>5, <1>6 DEF StorageInv

\* What a task that is at work may take for granted.
LEMMA AtWorkOnFile ==
    ASSUME StorageInv, NEW t \in Tasks, serving, op[t].pc # "idle"
    PROVE  /\ op[t] \in Ops /\ op[t].file \in Files /\ Fits(op[t]) /\ Sound(op[t].file) /\ OnePlace(op[t].file)
           /\ loc[op[t].file] \in Location /\ item[op[t].file] \in Item
           /\ loc \in [Files -> Location] /\ item \in [Files -> Item] /\ disk \in [Places -> Files \cup {NoFile}]
  BY DEF StorageInv, RowsTyped, Fits

LEMMA EngagedAlone ==
    ASSUME ~Clash, NEW t \in Tasks, op[t].pc \notin {"idle", "planned", "expired"}
    PROVE  WorksAlone(t, op[t].file)
  BY DEF Clash, WorksAlone, Engaged

\* A step that changes nothing but what its task knows.
LEMMA OnlyKnows ==
    ASSUME StorageInv, NEW t \in Tasks, NEW o \in Ops, op' = [op EXCEPT ![t] = o], serving,
           UNCHANGED <<loc, item, disk, serving, crashes>>, Fits(o)
    PROVE  StorageInv'
  <1>1. RowsTyped /\ op \in [Tasks -> Ops] BY DEF StorageInv, RowsTyped
  <1>2. op'[t] = o /\ \A u \in Tasks \ {t} : op'[u] = op[u] BY <1>1
  <1>3. \A u \in Tasks : Fits(op[u])'
    <2> SUFFICES ASSUME NEW u \in Tasks PROVE Fits(op[u])'
      OBVIOUS
    <2>1. PICK w \in Ops : w = op'[u] /\ Fits(w) BY <1>1, <1>2 DEF StorageInv
    <2>2. Fits(w)' BY <2>1 DEF Fits, HeldByOther
    <2> QED BY <2>1, <2>2 DEF Fits, HeldByOther
  <1>4. RowsTyped'
    <2>1. op' \in [Tasks -> Ops] BY <1>1
    <2>2. \A u \in Tasks : op'[u].pc # "idle" => op'[u].file \in Files BY <1>3 DEF Fits
    <2> QED BY <1>1, <2>1, <2>2 DEF RowsTyped
  <1>5. \A f \in Files : Sound(f)' /\ OnePlace(f)' BY DEF StorageInv, Sound, OnePlace
  <1>6. PathsApart' BY DEF StorageInv, PathsApart
  <1> QED BY <1>3, <1>4, <1>5, <1>6 DEF StorageInv

LEMMA IdleFits == Idle \in Ops /\ Fits(Idle)
  BY DEF Idle, Ops, Fits

\* No two tasks are in each other's way: what that means for a task at work.
LEMMA NoClash ==
    ASSUME ~Clash, NEW t \in Tasks, Engaged(t)
    PROVE  /\ WorksAlone(t, op[t].file)
           /\ op[t].to \in Paths => \A u \in Tasks \ {t} : Engaged(u) => op[u].to # op[t].to
           /\ op[t].to = Beside[op[t].file] => ~HeldByOther(op[t].file, op[t].to)
  BY DEF Clash, WorksAlone

Heading == {"moving", "confirming", "restoring"}

LEMMA HeadingIsEngaged ==
    ASSUME NEW u \in Tasks, op[u].pc \in Heading
    PROVE  Engaged(u)
  BY DEF Heading, Engaged

\* The path that a file has: nobody is on its way there.
LEMMA OwnPathFree ==
    ASSUME StorageInv, ~Clash, NEW t \in Tasks, NEW f \in Files, WorksAlone(t, f), loc[f].state # "gone"
    PROVE  Free(t, f, loc[f].path)
  <1>1. loc[f].path \in PathsOf(f) BY DEF StorageInv, Sound
  <1>2. \A g \in Files \ {f} : (loc[g].state # "gone" => loc[g].path # loc[f].path) /\ loc[f].path # Bin(g)
    BY <1>1, PathsAndBins DEF StorageInv, PathsApart
  <1>3. ASSUME NEW u \in Tasks \ {t}, op[u].pc \in {"moving", "confirming", "restoring"}, op[u].to = loc[f].path
        PROVE  FALSE
    <2>1. Fits(op[u]) /\ Engaged(u) BY <1>3, HeadingIsEngaged DEF StorageInv, Heading
    <2>2. PICK g \in Files : g = op[u].file BY <1>3, <2>1 DEF Fits
    <2>3. g # f BY <2>1, <2>2 DEF WorksAlone
    <2>4. HeldByOther(g, op[u].to) BY <1>3, <2>3 DEF HeldByOther
    <2>5. CASE op[u].pc \in {"moving", "confirming"} BY <2>1, <2>2, <2>4, <2>5 DEF Fits
    <2>6. CASE op[u].pc = "restoring"
      <3>1. op[u].to \in {loc[g].path, Beside[g]} /\ loc[g].state = "trashed"
        BY <2>1, <2>2, <2>6 DEF Fits, Restorings
      <3>2. op[u].to # loc[g].path BY <1>2, <1>3, <2>3, <3>1
      <3> QED BY <2>1, <2>2, <2>4, <3>1, <3>2, NoClash
    <2> QED BY <1>3, <2>5, <2>6
  <1> QED BY <1>2, <1>3 DEF Free

\* The place that a move or a restore is on its way to.
LEMMA TargetFree ==
    ASSUME StorageInv, ~Clash, NEW t \in Tasks, NEW f \in Files, f = op[t].file,
           op[t].pc \in {"moving", "confirming", "restoring", "restored"}
    PROVE  Free(t, f, op[t].to)
  <1>1. Fits(op[t]) /\ Sound(f) /\ Engaged(t) BY DEF StorageInv, Engaged
  <1>2. op[t].to \in PathsOf(f) BY <1>1, PathsAndBins DEF Fits, Sound, Moves, Restorings
  <1>3. op[t].to \in Paths BY <1>2, StorageAssumption DEF PathsOf, Destinations
  <1>4. ~HeldByOther(f, op[t].to)
    <2>1. CASE op[t].pc \in {"moving", "confirming"} BY <1>1, <2>1 DEF Fits
    <2>2. CASE op[t].pc \in {"restoring", "restored"}
      <3>1. op[t].to \in {loc[f].path, Beside[f]} /\ loc[f].state = "trashed"
        BY <1>1, <2>2 DEF Fits, Restorings
      <3>2. CASE op[t].to = loc[f].path BY <3>1, <3>2 DEF HeldByOther, StorageInv, PathsApart
      <3>3. CASE op[t].to = Beside[f] BY <1>1, <3>3, NoClash
      <3> QED BY <3>1, <3>2, <3>3
    <2> QED BY <2>1, <2>2
  <1>5. \A g \in Files \ {f} : (loc[g].state # "gone" => loc[g].path # op[t].to) /\ op[t].to # Bin(g)
    BY <1>2, <1>4, PathsAndBins DEF HeldByOther
  <1>6. \A u \in Tasks \ {t} : op[u].pc \in {"moving", "confirming", "restoring"} => op[u].to # op[t].to
    BY <1>1, <1>3, NoClash, HeadingIsEngaged DEF Heading
  <1> QED BY <1>5, <1>6 DEF Free

\* Nobody but the tasks of its file is on its way to the bin of a file.
LEMMA BinFree ==
    ASSUME StorageInv, NEW t \in Tasks, NEW f \in Files
    PROVE  Free(t, f, Bin(f))
  <1>1. \A g \in Files \ {f} : loc[g].path # Bin(f) /\ Bin(f) # Bin(g)
    BY PathsAndBins DEF StorageInv, Sound
  <1>2. ASSUME NEW u \in Tasks \ {t}, op[u].pc \in {"moving", "confirming", "restoring"}, op[u].to = Bin(f)
        PROVE  FALSE
    <2>1. Fits(op[u]) BY DEF StorageInv
    <2>2. PICK g \in Files : g = op[u].file BY <1>2, <2>1 DEF Fits
    <2>3. op[u].to \in PathsOf(g)
      BY <1>2, <2>1, <2>2, PathsAndBins DEF Fits, Moves, Restorings, StorageInv, Sound
    <2> QED BY <1>2, <2>3, PathsAndBins
  <1> QED BY <1>1, <1>2 DEF Free

\* The bytes of f are renamed to an empty place: they are there, and nowhere else.
LEMMA RenamesOwn ==
    ASSUME disk \in [Places -> Files \cup {NoFile}], NEW f \in Files, NEW from \in Places, NEW to \in Places,
           disk[from] = f, disk[to] = NoFile, OnePlace(f), disk' = Renamed(from, to)
    PROVE  /\ disk' \in [Places -> Files \cup {NoFile}] /\ from # to
           /\ disk'[to] = f /\ disk'[from] = NoFile
           /\ \A q \in Places \ {from, to} : disk'[q] = disk[q] /\ disk[q] # f
           /\ OnePlace(f)'
  <1>1. from # to BY PathsAndBins
  <1>2. \A q \in Places : disk'[q] = IF q = from THEN NoFile ELSE IF q = to THEN f ELSE disk[q] BY <1>1 DEF Renamed
  <1>3. disk' \in [Places -> Files \cup {NoFile}] BY DEF Renamed
  <1>4. \A q \in Places : disk[q] = f => q = from BY DEF OnePlace
  <1>5. OnePlace(f)' BY <1>2, <1>4, PathsAndBins DEF OnePlace
  <1> QED BY <1>1, <1>2, <1>3, <1>4, <1>5

LEMMA RenameIsItsOwn ==
    ASSUME StorageInv, NEW t \in Tasks, NEW f \in Files, NEW from \in Places, NEW to \in Places,
           disk[from] = f, disk[to] = NoFile, disk' = Renamed(from, to), UNCHANGED <<loc, item>>, Free(t, f, to)
    PROVE  /\ OnlyIts(t, f) /\ OnePlace(f)' /\ disk'[to] = f /\ disk'[from] = NoFile
           /\ disk' \in [Places -> Files \cup {NoFile}]
           /\ \A q \in Places \ {from, to} : disk'[q] = disk[q] /\ disk[q] # f
  <1>1. disk \in [Places -> Files \cup {NoFile}] /\ OnePlace(f) BY DEF StorageInv, RowsTyped
  <1>2. /\ disk' \in [Places -> Files \cup {NoFile}] /\ from # to
        /\ disk'[to] = f /\ disk'[from] = NoFile
        /\ \A q \in Places \ {from, to} : disk'[q] = disk[q] /\ disk[q] # f
        /\ OnePlace(f)'
    BY <1>1, RenamesOwn
  <1>3. OnlyIts(t, f) BY <1>2, PathsAndBins DEF OnlyIts
  <1> QED BY <1>2, <1>3

Pcs == {"idle"} \cup Moves \cup Trashings \cup Restorings \cup Deletions

LEMMA PointsAre ==
    /\ {"planned", "moving", "reverting", "confirming"} \subseteq Pcs
    /\ {"trashing", "recording", "untrashing"} \subseteq Pcs
    /\ {"restoring", "restored", "unrestoring"} \subseteq Pcs
    /\ {"expired", "removing", "erasing"} \subseteq Pcs
  BY DEF Pcs, Moves, Trashings, Restorings, Deletions

LEMMA Begins ==
    ASSUME NEW t \in Tasks, NEW pc \in Pcs, NEW f \in Files, NEW from \in Places \cup {NoPath},
           NEW to \in Places \cup {NoPath}, item[f].id \in Nat, Begin(t, pc, f, from, to)
    PROVE  \E o \in Ops : /\ op' = [op EXCEPT ![t] = o] /\ o.pc = pc /\ o.file = f
                          /\ o.from = from /\ o.to = to /\ o.id = item[f].id
  <1> DEFINE o == [pc |-> pc, file |-> f, from |-> from, to |-> to, id |-> item[f].id]
  <1>1. o \in Ops BY DEF Ops, Pcs, Moves, Trashings, Restorings, Deletions
  <1>2. op' = [op EXCEPT ![t] = o] BY DEF Begin
  <1>3. o.pc = pc /\ o.file = f /\ o.from = from /\ o.to = to /\ o.id = item[f].id OBVIOUS
  <1> HIDE DEF o
  <1> QED BY <1>1, <1>2, <1>3

GotoFrom(t, pc, from) == op' = [op EXCEPT ![t].pc = pc, ![t].from = from]

LEMMA GoesFrom ==
    ASSUME StorageInv, NEW t \in Tasks, NEW pc \in Pcs, NEW from \in Places \cup {NoPath}, GotoFrom(t, pc, from)
    PROVE  \E o \in Ops : /\ op' = [op EXCEPT ![t] = o] /\ o.pc = pc /\ o.file = op[t].file
                          /\ o.from = from /\ o.to = op[t].to /\ o.id = op[t].id
  <1> DEFINE o == [op[t] EXCEPT !.pc = pc, !.from = from]
  <1>1. op \in [Tasks -> Ops] BY DEF StorageInv, RowsTyped
  <1>2. o \in Ops BY <1>1 DEF Ops, Pcs, Moves, Trashings, Restorings, Deletions
  <1>3. op' = [op EXCEPT ![t] = o] BY <1>1 DEF GotoFrom
  <1>4. o.pc = pc /\ o.file = op[t].file /\ o.from = from /\ o.to = op[t].to /\ o.id = op[t].id BY <1>1 DEF Ops
  <1> HIDE DEF o
  <1> QED BY <1>2, <1>3, <1>4

LEMMA GoesTo ==
    ASSUME StorageInv, NEW t \in Tasks, NEW pc \in Pcs, Goto(t, pc)
    PROVE  \E o \in Ops : /\ op' = [op EXCEPT ![t] = o] /\ o.pc = pc /\ o.file = op[t].file
                          /\ o.from = op[t].from /\ o.to = op[t].to /\ o.id = op[t].id
  <1> DEFINE o == [op[t] EXCEPT !.pc = pc]
  <1>1. op \in [Tasks -> Ops] BY DEF StorageInv, RowsTyped
  <1>2. o \in Ops BY <1>1 DEF Ops, Pcs, Moves, Trashings, Restorings, Deletions
  <1>3. op' = [op EXCEPT ![t] = o] BY <1>1 DEF Goto
  <1>4. /\ o.pc = pc /\ o.file = op[t].file /\ o.from = op[t].from /\ o.to = op[t].to /\ o.id = op[t].id
    BY <1>1 DEF Ops
  <1> HIDE DEF o
  <1> QED BY <1>2, <1>3, <1>4

-----------------------------------------------------------------------------
(* Storage: a file is moved. *)

LEMMA PlanMoveStep ==
    ASSUME StorageInv, NEW t \in Tasks, NEW f \in Files, PlanMove(t, f)
    PROVE  StorageInv'
  <1>1. PICK p \in Layouts[f] :
            LET target == Resolve(f, p)
            IN  ~Busy(f, target) /\ target # loc[f].path /\ Begin(t, "planned", f, NoPath, target)
    BY DEF PlanMove
  <1>2. PICK target \in Destinations(f) : Begin(t, "planned", f, NoPath, target)
    BY <1>1 DEF Resolve, Destinations
  <1>3. target \in Places \cup {NoPath} BY PathsAndBins
  <1>4. item[f].id \in Nat BY DEF StorageInv, RowsTyped, Item
  <1>5. PICK o \in Ops : op' = [op EXCEPT ![t] = o] /\ o.pc = "planned" /\ o.file = f /\ o.to = target
    BY <1>2, <1>3, <1>4, Begins, PointsAre
  <1>6. /\ serving /\ loc[f].state = "ok"
        /\ UNCHANGED <<loc, item, disk, serving, crashes>>
    BY DEF PlanMove, Starts, At
  <1>7. Fits(o) BY <1>5, <1>6 DEF Fits, Moves, Trashings, Restorings, Deletions
  <1> QED BY <1>5, <1>6, <1>7, OnlyKnows

LEMMA BeginMoveStep ==
    ASSUME StorageInv, ~Clash', NEW t \in Tasks, BeginMove(t)
    PROVE  StorageInv'
  <1>1. serving /\ op[t].pc = "planned" /\ UNCHANGED <<item, disk, serving, crashes>> BY DEF BeginMove, At
  <1>2. PICK f \in Files, w \in Ops : f = op[t].file /\ w = op[t] BY <1>1, AtWorkOnFile
  <1>3. /\ Fits(w) /\ Sound(f) /\ OnePlace(f)
        /\ loc[f] \in Location /\ loc \in [Files -> Location]
        /\ item \in [Files -> Item] /\ disk \in [Places -> Files \cup {NoFile}]
    BY <1>1, <1>2, AtWorkOnFile
  <1>4. CASE ~Movable(f, w.to)
    <2>1. op' = [op EXCEPT ![t] = Idle] /\ loc' = loc BY <1>2, <1>4 DEF BeginMove, Return
    <2> QED BY <1>1, <1>3, <2>1, IdleFits, OnlyKnows
  <1>5. CASE Movable(f, w.to)
    <2>1. /\ loc' = [loc EXCEPT ![f].state = "moving", ![f].to = w.to]
          /\ op' = [op EXCEPT ![t].pc = "moving", ![t].from = loc[f].path]
      BY <1>2, <1>5 DEF BeginMove
    <2>2. w.to \in Destinations(f) BY <1>1, <1>2, <1>3 DEF Fits, Moves
    <2>3. loc[f].path \in Places /\ w.to \in Paths BY <1>3, <2>2, PathsAndBins, StorageAssumption DEF Sound, Destinations
    <2>4. PICK o \in Ops : op' = [op EXCEPT ![t] = o] /\ o.pc = "moving" /\ o.file = f /\ o.to = w.to /\ o.from = loc[f].path
      <3>1. PICK from \in Places \cup {NoPath} : from = loc[f].path BY <2>3
      <3>2. GotoFrom(t, "moving", from) BY <2>1, <3>1 DEF GotoFrom
      <3>3. "moving" \in Pcs BY DEF Pcs, Moves
      <3>4. \E o \in Ops : /\ op' = [op EXCEPT ![t] = o] /\ o.pc = "moving" /\ o.file = op[t].file
                           /\ o.from = from /\ o.to = op[t].to /\ o.id = op[t].id
        BY <3>2, <3>3, GoesFrom
      <3> QED BY <1>2, <3>1, <3>4
    <2>5. /\ loc' \in [Files -> Location] /\ loc'[f].state = "moving" /\ loc'[f].to = w.to
          /\ loc'[f].path = loc[f].path /\ \A g \in Files \ {f} : loc'[g] = loc[g]
      BY <1>3, <2>1, <2>3 DEF Location
    <2>6. /\ loc[f].state = "ok" /\ loc[f].path # w.to /\ ~HeldByOther(f, w.to)
          /\ disk[w.to] = NoFile /\ disk[loc[f].path] = f
      BY <1>3, <1>5 DEF Movable, OnDisk, Sound
    <2>7. OnlyIts(t, f) BY <1>1, <2>5, <2>6 DEF OnlyIts
    <2>8. Sound(f)' BY <1>1, <1>3, <2>2, <2>5, <2>6, PathsAndBins DEF Sound
    <2>9. OnePlace(f)' BY <1>1, <1>3 DEF OnePlace
    <2>10. ~HeldByOther(f, w.to)' BY <2>5, <2>6 DEF HeldByOther
    <2>11. Fits(o)'
      <3>1. ~HeldByOther(o.file, o.to)' BY <2>4, <2>10
      <3> QED BY <1>1, <1>3, <2>2, <2>4, <2>5, <2>6, <3>1 DEF Fits, Moves, Trashings, Restorings, Deletions
    <2>12. WorksAlone(t, f)
      <3>1. op'[t].file = f /\ op'[t].pc = "moving" /\ \A u \in Tasks \ {t} : op'[u] = op[u]
        BY <2>4 DEF StorageInv, RowsTyped
      <3> QED BY <3>1 DEF Clash, Engaged, WorksAlone
    <2> QED BY <1>1, <1>3, <2>4, <2>5, <2>7, <2>8, <2>9, <2>11, <2>12, TaskStep
  <1> QED BY <1>4, <1>5

LEMMA MoveFileStep ==
    ASSUME StorageInv, ~Clash, NEW t \in Tasks, MoveFile(t)
    PROVE  StorageInv'
  <1>1. serving /\ op[t].pc = "moving" /\ UNCHANGED <<loc, item, serving, crashes>> BY DEF MoveFile, At
  <1>2. PICK f \in Files, w \in Ops : f = op[t].file /\ w = op[t] BY <1>1, AtWorkOnFile
  <1>3. /\ Fits(w) /\ Sound(f) /\ OnePlace(f) /\ WorksAlone(t, f)
        /\ loc \in [Files -> Location] /\ item \in [Files -> Item] /\ disk \in [Places -> Files \cup {NoFile}]
    BY <1>1, <1>2, AtWorkOnFile, EngagedAlone
  <1>4. /\ w.to \in Destinations(f) /\ ~HeldByOther(f, w.to)
        /\ loc[f].state = "moving" /\ loc[f].to = w.to /\ loc[f].path = w.from
        /\ disk[w.from] = f /\ disk[w.to] = NoFile
    BY <1>1, <1>2, <1>3 DEF Fits, Moves
  <1>5. w.from \in Places /\ w.to \in Places /\ w.from # Bin(f) /\ w.to # Bin(f) /\ Bin(f) \in Places
    BY <1>3, <1>4, PathsAndBins DEF Sound
  <1>6. ASSUME disk' = Renamed(op[t].from, op[t].to), Goto(t, "confirming") PROVE StorageInv'
    <2>1. Free(t, f, w.to) BY <1>1, <1>2, TargetFree
    <2>2. /\ OnlyIts(t, f) /\ OnePlace(f)' /\ disk'[w.to] = f /\ disk'[w.from] = NoFile
          /\ disk' \in [Places -> Files \cup {NoFile}]
          /\ \A q \in Places \ {w.from, w.to} : disk'[q] = disk[q] /\ disk[q] # f
      BY <1>1, <1>2, <1>4, <1>5, <1>6, <2>1, RenameIsItsOwn
    <2>3. PICK o \in Ops : op' = [op EXCEPT ![t] = o] /\ o.pc = "confirming" /\ o.file = f /\ o.to = w.to /\ o.from = w.from
      BY <1>2, <1>6, GoesTo, PointsAre
    <2>4. Sound(f)' BY <1>1, <1>3, <1>4, <1>5, <2>2, PathsAndBins DEF Sound
    <2>5. Fits(o)'
      <3>1. ~HeldByOther(o.file, o.to)' BY <1>1, <1>4, <2>3 DEF HeldByOther
      <3> QED BY <1>1, <1>3, <1>4, <2>2, <2>3, <3>1 DEF Fits, Moves, Trashings, Restorings, Deletions
    <2> QED BY <1>1, <1>3, <2>2, <2>3, <2>4, <2>5, TaskStep
  <1>7. ASSUME disk' = disk, Goto(t, "reverting") PROVE StorageInv'
    <2>1. PICK o \in Ops : op' = [op EXCEPT ![t] = o] /\ o.pc = "reverting" /\ o.file = f /\ o.to = w.to /\ o.from = w.from
      BY <1>2, <1>7, GoesTo, PointsAre
    <2>2. Fits(o) BY <1>3, <1>4, <2>1 DEF Fits, Moves, Trashings, Restorings, Deletions
    <2> QED BY <1>1, <1>3, <1>7, <2>1, <2>2, OnlyKnows
  <1> QED BY <1>6, <1>7 DEF MoveFile

\* The row of f changes and its bytes do not.
LEMMA OnlyRow ==
    ASSUME StorageInv, NEW t \in Tasks, NEW f \in Files, WorksAlone(t, f), serving,
           Return(t), UNCHANGED <<disk, serving, crashes>>,
           loc' \in [Files -> Location], item' \in [Files -> Item],
           \A g \in Files \ {f} : loc'[g] = loc[g] /\ item'[g] = item[g],
           loc'[f].state # "gone" => loc[f].state # "gone" /\ (loc'[f].path = loc[f].path \/ Free(t, f, loc'[f].path)),
           Sound(f)'
    PROVE  StorageInv'
  <1>1. OnlyIts(t, f) BY DEF OnlyIts
  <1>2. OnePlace(f) /\ disk \in [Places -> Files \cup {NoFile}] BY DEF StorageInv, RowsTyped
  <1>3. OnePlace(f)' BY <1>2 DEF OnePlace
  <1>4. Fits(Idle)' BY DEF Idle, Fits
  <1> QED BY <1>1, <1>2, <1>3, <1>4, IdleFits, TaskStep DEF Return

LEMMA RevertStep ==
    ASSUME StorageInv, ~Clash, NEW t \in Tasks, Revert(t)
    PROVE  StorageInv'
  <1>1. serving /\ op[t].pc = "reverting" /\ Return(t) /\ UNCHANGED <<item, disk, serving, crashes>> BY DEF Revert, At
  <1>2. PICK f \in Files, w \in Ops : f = op[t].file /\ w = op[t] BY <1>1, AtWorkOnFile
  <1>3. /\ Fits(w) /\ Sound(f) /\ WorksAlone(t, f)
        /\ loc \in [Files -> Location] /\ item \in [Files -> Item] /\ disk \in [Places -> Files \cup {NoFile}]
    BY <1>1, <1>2, AtWorkOnFile, EngagedAlone
  <1>4. loc[f].state = "moving" /\ loc[f].path = w.from /\ disk[w.from] = f BY <1>1, <1>2, <1>3 DEF Fits
  <1>5. loc' = [loc EXCEPT ![f] = [loc[f] EXCEPT !.state = "ok", !.to = NoPath]]
    BY <1>2, <1>4 DEF Revert, Updated, Reverted
  <1>6. /\ loc' \in [Files -> Location] /\ loc'[f].state = "ok" /\ loc'[f].path = loc[f].path
        /\ \A g \in Files \ {f} : loc'[g] = loc[g]
    BY <1>3, <1>5 DEF Location
  <1>7. Sound(f)' BY <1>1, <1>3, <1>4, <1>6 DEF Sound
  <1> QED BY <1>1, <1>3, <1>4, <1>6, <1>7, OnlyRow

LEMMA ConfirmMoveStep ==
    ASSUME StorageInv, ~Clash, NEW t \in Tasks, ConfirmMove(t)
    PROVE  StorageInv'
  <1>1. serving /\ op[t].pc = "confirming" /\ Return(t) /\ UNCHANGED <<item, disk, serving, crashes>>
    BY DEF ConfirmMove, At
  <1>2. PICK f \in Files, w \in Ops : f = op[t].file /\ w = op[t] BY <1>1, AtWorkOnFile
  <1>3. /\ Fits(w) /\ Sound(f) /\ OnePlace(f) /\ WorksAlone(t, f)
        /\ loc \in [Files -> Location] /\ item \in [Files -> Item] /\ disk \in [Places -> Files \cup {NoFile}]
    BY <1>1, <1>2, AtWorkOnFile, EngagedAlone
  <1>4. /\ loc[f].state = "moving" /\ w.to \in Destinations(f) /\ disk[w.to] = f /\ ~HeldByOther(f, w.to)
       
    BY <1>1, <1>2, <1>3 DEF Fits, Moves
  <1>5. loc' = [loc EXCEPT ![f] = [state |-> "ok", path |-> w.to, to |-> NoPath]]
    BY <1>2, <1>4 DEF ConfirmMove, Updated, Finalized
  <1>6. w.to \in Paths /\ w.to \in PathsOf(f) BY <1>4, PathsAndBins, StorageAssumption DEF Destinations
  <1>7. /\ loc' \in [Files -> Location] /\ loc'[f].state = "ok" /\ loc'[f].path = w.to
        /\ \A g \in Files \ {f} : loc'[g] = loc[g]
    BY <1>3, <1>5, <1>6 DEF Location
  <1>8. Free(t, f, w.to) BY <1>1, <1>2, TargetFree
  <1>9. Sound(f)' BY <1>1, <1>3, <1>4, <1>6, <1>7 DEF Sound
  <1> QED BY <1>1, <1>3, <1>4, <1>7, <1>8, <1>9, OnlyRow

-----------------------------------------------------------------------------
(* Storage: a file goes to the trash. *)

LEMMA ReadForTrashStep ==
    ASSUME StorageInv, NEW t \in Tasks, NEW f \in Files, ReadForTrash(t, f)
    PROVE  StorageInv'
  <1>1. /\ serving /\ loc[f].state = "ok"
        /\ Begin(t, "trashing", f, loc[f].path, Bin(f)) /\ UNCHANGED <<loc, item, disk, serving, crashes>>
    BY DEF ReadForTrash, Starts, At
  <1>2. PICK from \in Places : from = loc[f].path BY PathsAndBins DEF StorageInv, Sound
  <1>3. item[f].id \in Nat /\ Bin(f) \in Places BY PathsAndBins DEF StorageInv, RowsTyped, Item
  <1>4. PICK o \in Ops : op' = [op EXCEPT ![t] = o] /\ o.pc = "trashing" /\ o.file = f /\ o.from = from /\ o.to = Bin(f)
    BY <1>1, <1>2, <1>3, Begins, PointsAre
  <1>5. Fits(o) BY <1>1, <1>2, <1>4 DEF Fits, Moves, Trashings, Restorings, Deletions
  <1> QED BY <1>1, <1>4, <1>5, OnlyKnows

LEMMA RenameToTrashStep ==
    ASSUME StorageInv, ~Clash, NEW t \in Tasks, RenameToTrash(t)
    PROVE  StorageInv'
  <1>1. serving /\ op[t].pc = "trashing" /\ UNCHANGED <<loc, item, serving, crashes>> BY DEF RenameToTrash, At
  <1>2. PICK f \in Files, w \in Ops : f = op[t].file /\ w = op[t] BY <1>1, AtWorkOnFile
  <1>3. /\ Fits(w) /\ Sound(f) /\ OnePlace(f) /\ WorksAlone(t, f)
        /\ loc \in [Files -> Location] /\ item \in [Files -> Item] /\ disk \in [Places -> Files \cup {NoFile}]
    BY <1>1, <1>2, AtWorkOnFile, EngagedAlone
  <1>4. w.from = loc[f].path /\ w.to = Bin(f) /\ loc[f].state = "ok"
    BY <1>1, <1>2, <1>3 DEF Fits, Trashings
  <1>5. w.from \in Places /\ w.from # Bin(f) /\ Bin(f) \in Places BY <1>3, <1>4, PathsAndBins DEF Sound
  <1>6. CASE OnDisk(w.from)
    <2>1. disk[w.from] = f BY <1>3, <1>4, <1>6 DEF Sound, OnDisk
    <2>2. disk[Bin(f)] = NoFile BY <1>3, <1>5, <2>1 DEF Sound, OnePlace
    <2>3. Free(t, f, Bin(f)) BY BinFree
    <2>4. disk' = Renamed(w.from, Bin(f)) /\ Goto(t, "recording") BY <1>2, <1>4, <1>6 DEF RenameToTrash
    <2>5. /\ OnlyIts(t, f) /\ OnePlace(f)' /\ disk'[Bin(f)] = f /\ disk'[w.from] = NoFile
          /\ disk' \in [Places -> Files \cup {NoFile}]
      BY <1>1, <1>5, <2>1, <2>2, <2>3, <2>4, RenameIsItsOwn
    <2>6. PICK o \in Ops : op' = [op EXCEPT ![t] = o] /\ o.pc = "recording" /\ o.file = f /\ o.to = w.to /\ o.from = w.from
      BY <1>2, <2>4, GoesTo, PointsAre
    <2>7. Sound(f)' BY <1>1, <1>3, <1>4, <1>5, <2>5 DEF Sound
    <2>8. Fits(o)' BY <1>1, <1>3, <1>4, <2>5, <2>6 DEF Fits, Moves, Trashings, Restorings, Deletions
    <2> QED BY <1>1, <1>3, <2>5, <2>6, <2>7, <2>8, TaskStep
  <1>7. CASE ~OnDisk(w.from)
    <2>1. op' = [op EXCEPT ![t] = Idle] /\ disk' = disk BY <1>2, <1>7 DEF RenameToTrash, Return
    <2> QED BY <1>1, <1>3, <2>1, IdleFits, OnlyKnows
  <1> QED BY <1>6, <1>7

LEMMA RecordTrashStep ==
    ASSUME StorageInv, ~Clash, NEW t \in Tasks, RecordTrash(t)
    PROVE  StorageInv'
  <1>1. serving /\ op[t].pc = "recording" /\ UNCHANGED <<disk, serving, crashes>> BY DEF RecordTrash, At
  <1>2. PICK f \in Files, w \in Ops : f = op[t].file /\ w = op[t] BY <1>1, AtWorkOnFile
  <1>3. /\ Fits(w) /\ Sound(f) /\ OnePlace(f) /\ WorksAlone(t, f)
        /\ loc \in [Files -> Location] /\ item \in [Files -> Item] /\ disk \in [Places -> Files \cup {NoFile}]
    BY <1>1, <1>2, AtWorkOnFile, EngagedAlone
  <1>4. w.from = loc[f].path /\ loc[f].state = "ok" BY <1>1, <1>2, <1>3 DEF Fits, Trashings
  <1>5. ~item[f].there BY <1>3, <1>4 DEF Sound
  <1>6. /\ loc' = [loc EXCEPT ![f].state = "trashed"] /\ Return(t)
        /\ item' = [item EXCEPT ![f] = [there |-> TRUE, id |-> @.id + 1, original |-> w.from, due |-> FALSE]]
    BY <1>2, <1>4, <1>5 DEF RecordTrash
  <1>7. loc[f].path \in Paths BY <1>3 DEF Location
  <1>8. /\ loc' \in [Files -> Location] /\ item' \in [Files -> Item]
        /\ loc'[f].state = "trashed" /\ loc'[f].path = loc[f].path /\ item'[f].there /\ item'[f].original = loc[f].path
        /\ \A g \in Files \ {f} : loc'[g] = loc[g] /\ item'[g] = item[g]
    BY <1>3, <1>4, <1>6, <1>7 DEF Location, Item
  <1>9. Sound(f)' BY <1>1, <1>3, <1>4, <1>8 DEF Sound
  <1> QED BY <1>1, <1>3, <1>4, <1>6, <1>8, <1>9, OnlyRow

-----------------------------------------------------------------------------
(* Storage: a file is restored. *)

LEMMA ReadForRestoreStep ==
    ASSUME StorageInv, NEW t \in Tasks, NEW f \in Files, ReadForRestore(t, f)
    PROVE  StorageInv'
  <1>1. /\ serving /\ item[f].there /\ OnDisk(Bin(f)) /\ ~OnDisk(RestoreTarget(f))
        /\ Begin(t, "restoring", f, Bin(f), RestoreTarget(f)) /\ UNCHANGED <<loc, item, disk, serving, crashes>>
    BY DEF ReadForRestore, Starts, At
  <1>2. Sound(f) /\ loc[f] \in Location BY DEF StorageInv, RowsTyped
  <1>3. loc[f].state = "trashed" /\ item[f].original = loc[f].path BY <1>1, <1>2 DEF Sound
  <1>4. PICK to \in Places : to = RestoreTarget(f) /\ to \in {loc[f].path, Beside[f]}
    BY <1>2, <1>3, PathsAndBins DEF RestoreTarget, Sound
  <1>5. item[f].id \in Nat /\ Bin(f) \in Places BY PathsAndBins DEF StorageInv, RowsTyped, Item
  <1>6. PICK o \in Ops : /\ op' = [op EXCEPT ![t] = o] /\ o.pc = "restoring" /\ o.file = f
                         /\ o.from = Bin(f) /\ o.to = to /\ o.id = item[f].id
    BY <1>1, <1>4, <1>5, Begins, PointsAre
  <1>7. disk[Bin(f)] = f /\ disk[to] = NoFile BY <1>1, <1>2, <1>4 DEF Sound, OnDisk
  <1>8. Fits(o) BY <1>1, <1>3, <1>4, <1>6, <1>7 DEF Fits, Moves, Trashings, Restorings, Deletions
  <1> QED BY <1>1, <1>6, <1>8, OnlyKnows

LEMMA RenameFromTrashStep ==
    ASSUME StorageInv, ~Clash, NEW t \in Tasks, RenameFromTrash(t)
    PROVE  StorageInv'
  <1>1. serving /\ op[t].pc = "restoring" /\ UNCHANGED <<loc, item, serving, crashes>> BY DEF RenameFromTrash, At
  <1>2. PICK f \in Files, w \in Ops : f = op[t].file /\ w = op[t] BY <1>1, AtWorkOnFile
  <1>3. /\ Fits(w) /\ Sound(f) /\ OnePlace(f) /\ WorksAlone(t, f)
        /\ loc \in [Files -> Location] /\ item \in [Files -> Item] /\ disk \in [Places -> Files \cup {NoFile}]
    BY <1>1, <1>2, AtWorkOnFile, EngagedAlone
  <1>4. /\ w.from = Bin(f) /\ w.to \in {loc[f].path, Beside[f]} /\ loc[f].state = "trashed" /\ w.id = item[f].id
        /\ disk[Bin(f)] = f /\ disk[w.to] = NoFile
    BY <1>1, <1>2, <1>3 DEF Fits, Restorings
  <1>5. w.to \in PathsOf(f) /\ w.to \in Places /\ w.to # Bin(f) /\ Bin(f) \in Places /\ f # NoFile
        /\ loc[f].path \in Places /\ loc[f].path # Bin(f)
    BY <1>3, <1>4, PathsAndBins DEF Sound
  <1>6. Free(t, f, w.to) BY <1>1, <1>2, TargetFree
  <1>7. disk' = Renamed(Bin(f), w.to) /\ Goto(t, "restored") BY <1>2, <1>4, <1>5 DEF RenameFromTrash, OnDisk
  <1>8. /\ OnlyIts(t, f) /\ OnePlace(f)' /\ disk'[w.to] = f /\ disk'[Bin(f)] = NoFile
        /\ disk' \in [Places -> Files \cup {NoFile}]
        /\ \A q \in Places \ {Bin(f), w.to} : disk'[q] = disk[q] /\ disk[q] # f
    BY <1>1, <1>4, <1>5, <1>6, <1>7, RenameIsItsOwn
  <1>9. PICK o \in Ops : /\ op' = [op EXCEPT ![t] = o] /\ o.pc = "restored" /\ o.file = f
                         /\ o.to = w.to /\ o.from = w.from /\ o.id = w.id
    BY <1>2, <1>7, GoesTo, PointsAre
  <1>10. Sound(f)' BY <1>1, <1>3, <1>4, <1>5, <1>8 DEF Sound
  <1>11. Fits(o)' BY <1>1, <1>3, <1>4, <1>8, <1>9 DEF Fits, Moves, Trashings, Restorings, Deletions
  <1> QED BY <1>1, <1>3, <1>8, <1>9, <1>10, <1>11, TaskStep

LEMMA RecordRestoreStep ==
    ASSUME StorageInv, ~Clash, NEW t \in Tasks, RecordRestore(t)
    PROVE  StorageInv'
  <1>1. serving /\ op[t].pc = "restored" /\ UNCHANGED <<disk, serving, crashes>> BY DEF RecordRestore, At
  <1>2. PICK f \in Files, w \in Ops : f = op[t].file /\ w = op[t] BY <1>1, AtWorkOnFile
  <1>3. /\ Fits(w) /\ Sound(f) /\ OnePlace(f) /\ WorksAlone(t, f)
        /\ loc \in [Files -> Location] /\ item \in [Files -> Item] /\ disk \in [Places -> Files \cup {NoFile}]
    BY <1>1, <1>2, AtWorkOnFile, EngagedAlone
  <1>4. /\ w.to \in {loc[f].path, Beside[f]} /\ loc[f].state = "trashed" /\ w.id = item[f].id /\ disk[w.to] = f
    BY <1>1, <1>2, <1>3 DEF Fits, Restorings
  <1>5. Free(t, f, w.to) BY <1>1, <1>2, TargetFree
  <1>6. ~HeldByOther(f, w.to) BY <1>5 DEF HeldByOther, Free
  <1>7. /\ loc' = [loc EXCEPT ![f] = [loc[f] EXCEPT !.state = "ok", !.path = w.to]]
        /\ item' = [item EXCEPT ![f].there = FALSE] /\ Return(t)
    BY <1>2, <1>4, <1>6 DEF RecordRestore, Updated, WithoutItem
  <1>8. w.to \in PathsOf(f) /\ w.to \in Paths
    BY <1>3, <1>4, PathsAndBins, StorageAssumption DEF Sound, Location
  <1>9. /\ loc' \in [Files -> Location] /\ item' \in [Files -> Item]
        /\ loc'[f].state = "ok" /\ loc'[f].path = w.to /\ ~item'[f].there
        /\ \A g \in Files \ {f} : loc'[g] = loc[g] /\ item'[g] = item[g]
    BY <1>3, <1>7, <1>8 DEF Location, Item
  <1>10. Sound(f)' BY <1>1, <1>3, <1>4, <1>8, <1>9 DEF Sound
  <1> QED BY <1>1, <1>3, <1>4, <1>5, <1>7, <1>9, <1>10, OnlyRow

LEMMA RenameBackStep ==
    ASSUME StorageInv, ~Clash, NEW t \in Tasks, RenameBack(t)
    PROVE  StorageInv'
  <1>1. /\ serving /\ op[t].pc \in {"untrashing", "unrestoring"} /\ UNCHANGED <<loc, item, serving, crashes>>
        /\ op' = [op EXCEPT ![t] = Idle]
    BY DEF RenameBack, At, Return
  <1>2. PICK f \in Files, w \in Ops : f = op[t].file /\ w = op[t] BY <1>1, AtWorkOnFile
  <1>3. /\ Fits(w) /\ Sound(f) /\ OnePlace(f) /\ WorksAlone(t, f)
        /\ loc \in [Files -> Location] /\ item \in [Files -> Item] /\ disk \in [Places -> Files \cup {NoFile}]
    BY <1>1, <1>2, AtWorkOnFile, EngagedAlone
  <1>4. Bin(f) \in Places /\ loc[f].path \in Places /\ loc[f].path # Bin(f) /\ Beside[f] \in Places /\ Beside[f] # Bin(f)
        /\ f # NoFile
    BY <1>3, PathsAndBins DEF Sound
  <1>5. Fits(Idle)' BY DEF Idle, Fits
  <1>6. CASE w.pc = "untrashing"
    <2>1. w.from = loc[f].path /\ w.to = Bin(f) /\ disk[Bin(f)] = f /\ loc[f].state = "ok"
      BY <1>3, <1>6, <1>2 DEF Fits, Trashings
    <2>2. disk[loc[f].path] = NoFile BY <1>3, <1>4, <2>1 DEF Sound, OnePlace
    <2>3. Free(t, f, loc[f].path) BY <1>3, <2>1, OwnPathFree
    <2>4. disk' = Renamed(Bin(f), loc[f].path) BY <1>2, <1>4, <2>1 DEF RenameBack, OnDisk
    <2>5. /\ OnlyIts(t, f) /\ OnePlace(f)' /\ disk'[loc[f].path] = f /\ disk'[Bin(f)] = NoFile
          /\ disk' \in [Places -> Files \cup {NoFile}]
      BY <1>1, <1>4, <2>1, <2>2, <2>3, <2>4, RenameIsItsOwn
    <2>6. Sound(f)' BY <1>1, <1>3, <2>1, <2>5 DEF Sound
    <2> QED BY <1>1, <1>3, <1>5, <2>5, <2>6, IdleFits, TaskStep
  <1>7. CASE w.pc = "unrestoring"
    <2>1. w.from = Bin(f) /\ w.to \in {loc[f].path, Beside[f]} /\ disk[w.to] = f /\ loc[f].state = "trashed"
      BY <1>2, <1>3, <1>7 DEF Fits, Restorings
    <2>2. w.to \in Places /\ w.to # Bin(f) BY <1>4, <2>1
    <2>3. disk[Bin(f)] = NoFile BY <1>3, <1>4, <2>1, <2>2 DEF Sound, OnePlace
    <2>4. Free(t, f, Bin(f)) BY BinFree
    <2>5. disk' = Renamed(w.to, Bin(f)) BY <1>2, <1>4, <2>1 DEF RenameBack, OnDisk
    <2>6. /\ OnlyIts(t, f) /\ OnePlace(f)' /\ disk'[Bin(f)] = f /\ disk'[w.to] = NoFile
          /\ disk' \in [Places -> Files \cup {NoFile}]
          /\ \A q \in Places \ {w.to, Bin(f)} : disk'[q] = disk[q] /\ disk[q] # f
      BY <1>1, <1>4, <2>1, <2>2, <2>3, <2>4, <2>5, RenameIsItsOwn
    <2>7. disk'[loc[f].path] \in {f, NoFile} BY <1>3, <1>4, <2>1, <2>6 DEF Sound
    <2>8. Sound(f)' BY <1>1, <1>3, <2>1, <2>6, <2>7 DEF Sound
    <2> QED BY <1>1, <1>3, <1>5, <2>6, <2>8, IdleFits, TaskStep
  <1> QED BY <1>1, <1>2, <1>6, <1>7

-----------------------------------------------------------------------------
(* Storage: a file is deleted. *)

LEMMA ReadForDeleteStep ==
    ASSUME StorageInv, NEW t \in Tasks, NEW f \in Files, ReadForDelete(t, f) \/ ListExpired(t, f)
    PROVE  StorageInv'
  <1>1. /\ serving /\ item[f].there
        /\ UNCHANGED <<loc, item, disk, serving, crashes>>
        /\ \E pc \in {"removing", "expired"} : Begin(t, pc, f, Bin(f), NoPath)
    BY DEF ReadForDelete, ListExpired, Starts, At
  <1>2. PICK pc \in {"removing", "expired"} : Begin(t, pc, f, Bin(f), NoPath) BY <1>1
  <1>3. loc[f].state = "trashed" BY <1>1 DEF StorageInv, Sound
  <1>4. item[f].id \in Nat /\ Bin(f) \in Places BY PathsAndBins DEF StorageInv, RowsTyped, Item
  <1>5. PICK o \in Ops : /\ op' = [op EXCEPT ![t] = o] /\ o.pc = pc /\ o.file = f
                         /\ o.from = Bin(f) /\ o.id = item[f].id
    BY <1>2, <1>4, Begins, PointsAre
  <1>6. Fits(o) BY <1>1, <1>2, <1>3, <1>5 DEF Fits, Moves, Trashings, Restorings, Deletions
  <1> QED BY <1>1, <1>5, <1>6, OnlyKnows

\* What the purge listed is looked at again: only an item that is still there, and still the
\* same one, is removed.
LEMMA CheckExpiredStep ==
    ASSUME StorageInv, NEW t \in Tasks, CheckExpired(t)
    PROVE  StorageInv'
  <1>1. serving /\ op[t].pc = "expired" /\ UNCHANGED <<loc, item, disk, serving, crashes>> BY DEF CheckExpired, At
  <1>2. PICK f \in Files, w \in Ops : f = op[t].file /\ w = op[t] BY <1>1, AtWorkOnFile
  <1>3. Fits(w) /\ Sound(f) BY <1>1, <1>2, AtWorkOnFile
  <1>4. CASE item[f].there /\ item[f].due /\ item[f].id = w.id
    <2>1. loc[f].state = "trashed" BY <1>3, <1>4 DEF Sound
    <2>2. Goto(t, "removing") BY <1>2, <1>4 DEF CheckExpired
    <2>3. PICK o \in Ops : /\ op' = [op EXCEPT ![t] = o] /\ o.pc = "removing" /\ o.file = f
                           /\ o.to = w.to /\ o.from = w.from /\ o.id = w.id
      BY <1>2, <2>2, GoesTo, PointsAre
    <2>4. Fits(o) BY <1>1, <1>2, <1>3, <1>4, <2>1, <2>3 DEF Fits, Moves, Trashings, Restorings, Deletions
    <2> QED BY <1>1, <2>3, <2>4, OnlyKnows
  <1>5. CASE ~(item[f].there /\ item[f].due /\ item[f].id = w.id)
    <2>1. op' = [op EXCEPT ![t] = Idle] BY <1>2, <1>5 DEF CheckExpired, Return
    <2> QED BY <1>1, <2>1, IdleFits, OnlyKnows
  <1> QED BY <1>4, <1>5

LEMMA RemoveBytesStep ==
    ASSUME StorageInv, ~Clash, NEW t \in Tasks, RemoveBytes(t)
    PROVE  StorageInv'
  <1>1. serving /\ op[t].pc = "removing" /\ Goto(t, "erasing") /\ UNCHANGED <<loc, item, serving, crashes>>
    BY DEF RemoveBytes, At
  <1>2. PICK f \in Files, w \in Ops : f = op[t].file /\ w = op[t] BY <1>1, AtWorkOnFile
  <1>3. /\ Fits(w) /\ Sound(f) /\ OnePlace(f) /\ WorksAlone(t, f)
        /\ loc \in [Files -> Location] /\ item \in [Files -> Item] /\ disk \in [Places -> Files \cup {NoFile}]
    BY <1>1, <1>2, AtWorkOnFile, EngagedAlone
  <1>4. w.from = Bin(f) /\ loc[f].state = "trashed" /\ w.id = item[f].id
    BY <1>1, <1>2, <1>3 DEF Fits, Deletions
  <1>5. /\ Bin(f) \in Places /\ f # NoFile /\ loc[f].path \in Places /\ loc[f].path # Bin(f)
    BY <1>3, PathsAndBins DEF Sound
  <1>6. disk' = [disk EXCEPT ![Bin(f)] = NoFile] BY <1>2, <1>4 DEF RemoveBytes
  <1>7. /\ disk' \in [Places -> Files \cup {NoFile}] /\ disk'[Bin(f)] = NoFile
        /\ \A q \in Places \ {Bin(f)} : disk'[q] = disk[q]
    BY <1>3, <1>5, <1>6
  <1>8. disk[Bin(f)] \in {f, NoFile} BY <1>3 DEF Sound
  <1>9. OnlyIts(t, f) BY <1>1, <1>5, <1>7, <1>8 DEF OnlyIts
  <1>10. OnePlace(f)' BY <1>3, <1>5, <1>7 DEF OnePlace
  <1>11. Sound(f)' BY <1>1, <1>3, <1>4, <1>5, <1>7 DEF Sound
  <1>12. PICK o \in Ops : /\ op' = [op EXCEPT ![t] = o] /\ o.pc = "erasing" /\ o.file = f
                          /\ o.to = w.to /\ o.from = w.from /\ o.id = w.id
    BY <1>1, <1>2, GoesTo, PointsAre
  <1>13. Fits(o)' BY <1>1, <1>3, <1>4, <1>12 DEF Fits, Moves, Trashings, Restorings, Deletions
  <1> QED BY <1>1, <1>3, <1>7, <1>9, <1>10, <1>11, <1>12, <1>13, TaskStep

LEMMA EraseStep ==
    ASSUME StorageInv, ~Clash, NEW t \in Tasks, Erase(t)
    PROVE  StorageInv'
  <1>1. serving /\ op[t].pc = "erasing" /\ Return(t) /\ UNCHANGED <<disk, serving, crashes>> BY DEF Erase, At
  <1>2. PICK f \in Files, w \in Ops : f = op[t].file /\ w = op[t] BY <1>1, AtWorkOnFile
  <1>3. /\ Sound(f) /\ WorksAlone(t, f)
        /\ loc \in [Files -> Location] /\ item \in [Files -> Item] /\ disk \in [Places -> Files \cup {NoFile}]
    BY <1>1, <1>2, AtWorkOnFile, EngagedAlone
  <1>4. loc' = [loc EXCEPT ![f].state = "gone", ![f].to = NoPath] /\ item' = [item EXCEPT ![f].there = FALSE]
    BY <1>2 DEF Erase
  <1>5. /\ loc' \in [Files -> Location] /\ item' \in [Files -> Item]
        /\ loc'[f].state = "gone" /\ loc'[f].path = loc[f].path /\ ~item'[f].there
        /\ \A g \in Files \ {f} : loc'[g] = loc[g] /\ item'[g] = item[g]
    <2>1. /\ loc' \in [Files -> Location] /\ loc'[f].state = "gone" /\ loc'[f].path = loc[f].path
          /\ \A g \in Files \ {f} : loc'[g] = loc[g]
      BY <1>3, <1>4 DEF Location
    <2>2. item' \in [Files -> Item] /\ ~item'[f].there /\ \A g \in Files \ {f} : item'[g] = item[g]
      BY <1>3, <1>4 DEF Item
    <2> QED BY <2>1, <2>2
  <1>6. Sound(f)' BY <1>1, <1>3, <1>5 DEF Sound
  <1> QED BY <1>1, <1>3, <1>5, <1>6, OnlyRow

-----------------------------------------------------------------------------
(* Storage: failures, deaths and starts. *)

LEMMA FailsStep ==
    ASSUME StorageInv, NEW t \in Tasks, Fails(t)
    PROVE  StorageInv'
  <1>1. serving /\ op[t].pc # "idle" /\ UNCHANGED <<loc, item, disk, serving, crashes>> BY DEF Fails, At
  <1>2. PICK f \in Files, w \in Ops : f = op[t].file /\ w = op[t] BY <1>1, AtWorkOnFile
  <1>3. Fits(w) BY <1>1, <1>2, AtWorkOnFile
  <1>4. ASSUME w.pc = "recording", Goto(t, "untrashing") PROVE StorageInv'
    <2>1. PICK o \in Ops : /\ op' = [op EXCEPT ![t] = o] /\ o.pc = "untrashing" /\ o.file = f
                           /\ o.to = w.to /\ o.from = w.from /\ o.id = w.id
      BY <1>2, <1>4, GoesTo, PointsAre
    <2>2. Fits(o) BY <1>2, <1>3, <1>4, <2>1 DEF Fits, Moves, Trashings, Restorings, Deletions
    <2> QED BY <1>1, <1>3, <2>1, <2>2, OnlyKnows
  <1>5. ASSUME w.pc = "restored", Goto(t, "unrestoring") PROVE StorageInv'
    <2>1. PICK o \in Ops : /\ op' = [op EXCEPT ![t] = o] /\ o.pc = "unrestoring" /\ o.file = f
                           /\ o.to = w.to /\ o.from = w.from /\ o.id = w.id
      BY <1>2, <1>5, GoesTo, PointsAre
    <2>2. Fits(o) BY <1>2, <1>3, <1>5, <2>1 DEF Fits, Moves, Trashings, Restorings, Deletions
    <2> QED BY <1>1, <1>3, <2>1, <2>2, OnlyKnows
  <1>6. ASSUME Return(t) PROVE StorageInv'
    <2>1. op' = [op EXCEPT ![t] = Idle] BY <1>6 DEF Return
    <2> QED BY <1>1, <1>3, <2>1, IdleFits, OnlyKnows
  <1> QED BY <1>2, <1>4, <1>5, <1>6 DEF Fails, At

LEMMA CrashStep ==
    ASSUME StorageInv, Crash
    PROVE  StorageInv'
  <1>1. /\ op' = [t \in Tasks |-> Idle] /\ serving' = FALSE /\ UNCHANGED <<loc, item, disk>> /\ crashes' \in Nat
    BY DEF Crash, StorageInv, RowsTyped
  <1>2. \A t \in Tasks : op'[t] = Idle BY <1>1
  <1>3. \A t \in Tasks : Fits(op[t])'
    <2>1. \A t \in Tasks : op'[t].pc = "idle" BY <1>2 DEF Idle
    <2> QED BY <2>1 DEF Fits
  <1>4. RowsTyped' BY <1>1, <1>2, IdleFits DEF StorageInv, RowsTyped, Idle
  <1>5. \A f \in Files : Sound(f)' /\ OnePlace(f)' BY <1>1 DEF StorageInv, Sound, OnePlace
  <1>6. PathsApart' BY <1>1 DEF StorageInv, PathsApart
  <1> QED BY <1>2, <1>3, <1>4, <1>5, <1>6 DEF StorageInv

\* Nobody is at work while the process starts.
LEMMA NobodyWorks ==
    ASSUME StorageInv, ~serving, op' = op
    PROVE  \A t \in Tasks : op[t].pc = "idle" /\ Fits(op[t])'
  BY DEF StorageInv, Idle, Fits

LEMMA RecoverRowStep ==
    ASSUME StorageInv, NEW f \in Files, RecoverRow(f)
    PROVE  StorageInv'
  <1>1. /\ ~serving /\ loc[f].state = "moving" /\ ~HeldByOther(f, Settled(f).path)
        /\ loc' = [loc EXCEPT ![f] = Settled(f)] /\ UNCHANGED <<item, disk, op, serving, crashes>>
    BY DEF RecoverRow
  <1>2. /\ RowsTyped /\ Sound(f) /\ PathsApart /\ (\A t \in Tasks : op[t] = Idle)
        /\ loc \in [Files -> Location] /\ loc[f] \in Location
    BY <1>1 DEF StorageInv, RowsTyped
  <1>3. PICK row \in Location : row = loc[f] BY <1>2
  <1>4. /\ row.to \in Destinations(f) \ {row.path} /\ (disk[row.path] = f) # (disk[row.to] = f)
        /\ disk[row.path] \in {f, NoFile} /\ row.path \in PathsOf(f) /\ disk[Bin(f)] \in {f, NoFile}
        /\ ~item[f].there
    BY <1>1, <1>2, <1>3 DEF Sound
  <1>5. row.to \in Paths /\ row.to \in PathsOf(f) /\ f # NoFile
    BY <1>4, PathsAndBins, StorageAssumption DEF Destinations
  <1>6. PICK new \in Location :
            /\ new = Settled(f) /\ new.state \in {"ok", "conflict"} /\ new.path \in {row.path, row.to}
            /\ new.state = "ok" => disk[new.path] = f
            /\ new.state = "conflict" => new = [row EXCEPT !.state = "conflict"]
    <2>1. CASE OnDisk(row.to) /\ ~OnDisk(row.path)
      <3> DEFINE new == [state |-> "ok", path |-> row.to, to |-> NoPath]
      <3>1. Settled(f) = new BY <1>3, <2>1 DEF Settled, Finalized
      <3>2. new \in Location BY <1>5 DEF Location
      <3>3. disk[row.to] = f BY <1>4, <1>5, <2>1 DEF OnDisk
      <3> QED BY <3>1, <3>2, <3>3
    <2>2. CASE OnDisk(row.path) /\ ~OnDisk(row.to)
      <3> DEFINE new == [row EXCEPT !.state = "ok", !.to = NoPath]
      <3>1. Settled(f) = new BY <1>3, <2>2 DEF Settled, Reverted
      <3>2. new \in Location /\ new.state = "ok" /\ new.path = row.path BY DEF Location
      <3>3. disk[row.path] = f BY <1>4, <1>5, <2>2 DEF OnDisk
      <3> QED BY <3>1, <3>2, <3>3
    <2>3. CASE OnDisk(row.path) /\ OnDisk(row.to)
      <3> DEFINE new == [row EXCEPT !.state = "conflict"]
      <3>1. Settled(f) = new BY <1>3, <2>3 DEF Settled
      <3>2. new \in Location /\ new.state = "conflict" /\ new.path = row.path BY DEF Location
      <3> QED BY <3>1, <3>2
    <2>4. OnDisk(row.path) \/ OnDisk(row.to) BY <1>4, <1>5 DEF OnDisk
    <2> QED BY <2>1, <2>2, <2>3, <2>4
  <1>7. loc'[f] = new /\ \A g \in Files \ {f} : loc'[g] = loc[g] BY <1>1, <1>2, <1>6
  <1>8. Sound(f)'
    <2>1. CASE new.state = "ok" BY <1>1, <1>4, <1>5, <1>6, <1>7, <2>1 DEF Sound
    <2>2. CASE new.state = "conflict"
      <3>1. new.path = row.path /\ new.to = row.to BY <1>6, <2>2 DEF Location
      <3> QED BY <1>1, <1>4, <1>7, <2>2, <3>1 DEF Sound
    <2> QED BY <1>6, <2>1, <2>2
  <1>9. \A g \in Files : Sound(g)' /\ OnePlace(g)'
    <2>1. \A g \in Files \ {f} : Sound(g)' BY <1>1, <1>7 DEF StorageInv, Sound
    <2>2. \A g \in Files : OnePlace(g)' BY <1>1 DEF StorageInv, OnePlace
    <2> QED BY <1>8, <2>1, <2>2
  <1>10. PathsApart'
    <2>1. \A g \in Files \ {f} : loc[g].state # "gone" => loc[g].path # new.path
      BY <1>1, <1>6 DEF HeldByOther
    <2> QED BY <1>2, <1>7, <2>1 DEF PathsApart
  <1>11. RowsTyped'
    <2>1. loc' \in [Files -> Location] BY <1>1, <1>2, <1>6
    <2> QED BY <1>1, <1>2, <2>1 DEF RowsTyped
  <1> QED BY <1>1, <1>2, <1>9, <1>10, <1>11, NobodyWorks DEF StorageInv

\* A step that changes neither the rows' places nor the disk.
LEMMA NothingMoves ==
    ASSUME StorageInv, UNCHANGED <<loc, disk, op, crashes>>, item' \in [Files -> Item], serving' \in BOOLEAN,
           serving => serving',
           \A f \in Files : /\ item'[f].there = item[f].there /\ item'[f].original = item[f].original
                            /\ item'[f].id = item[f].id
    PROVE  StorageInv'
  <1>1. RowsTyped' BY DEF StorageInv, RowsTyped
  <1>2. \A f \in Files : Sound(f)' /\ OnePlace(f)' BY DEF StorageInv, Sound, OnePlace
  <1>3. PathsApart' BY DEF StorageInv, PathsApart
  <1>4. \A t \in Tasks : Fits(op[t])'
    <2> TAKE t \in Tasks
    <2>1. Fits(op[t]) BY DEF StorageInv
    <2>2. CASE op[t].pc = "idle" BY <2>2 DEF Fits
    <2>3. CASE op[t].pc # "idle"
      <3>1. op[t].file \in Files BY <2>1, <2>3 DEF Fits
      <3>2. item'[op[t].file].id = item[op[t].file].id BY <3>1
      <3> QED BY <2>1, <3>1, <3>2 DEF Fits, HeldByOther
    <2> QED BY <2>2, <2>3
  <1> QED BY <1>1, <1>2, <1>3, <1>4 DEF StorageInv

-----------------------------------------------------------------------------
(* Storage: the theorems. *)

LEMMA StorageInvInit ==
    ASSUME Init
    PROVE  StorageInv
  <1>1. \A f, g \in Files : Home[f] = Home[g] => f = g BY StorageAssumption
  <1>2. \A f \in Files : Home[f] \in Paths /\ Home[f] \in Places /\ Home[f] \in PathsOf(f)
    BY PathsAndBins, StorageAssumption
  <1>3. \A f \in Files : /\ loc[f].state = "ok" /\ loc[f].path = Home[f] /\ ~item[f].there
                         /\ loc[f] \in Location /\ item[f] \in Item
    BY <1>2 DEF Init, Location, Item
  <1>4. \A q \in Places : IF \E f \in Files : Home[f] = q
                          THEN disk[q] \in Files /\ Home[disk[q]] = q
                          ELSE disk[q] = NoFile
    BY DEF Init
  <1>5. \A f \in Files : disk[Home[f]] = f BY <1>1, <1>2, <1>4
  <1>6. \A f \in Files : disk[Bin(f)] = NoFile
    <2> TAKE f \in Files
    <2>1. Bin(f) \in Places /\ \A g \in Files : Home[g] # Bin(f) BY <1>2, PathsAndBins
    <2> QED BY <1>4, <2>1
  <1>7. \A f \in Files : OnePlace(f)
    <2> SUFFICES ASSUME NEW f \in Files, NEW q \in Places, disk[q] = f PROVE q = Home[f]
      BY DEF OnePlace
    <2>1. disk[q] # NoFile BY PathsAndBins
    <2> QED BY <1>4, <2>1
  <1>8. \A f \in Files : Sound(f) BY <1>2, <1>3, <1>5, <1>6 DEF Sound
  <1>9. PathsApart BY <1>1, <1>3 DEF PathsApart
  <1>10. op = [t \in Tasks |-> Idle] /\ \A t \in Tasks : op[t] = Idle BY DEF Init
  <1>11. \A t \in Tasks : Fits(op[t]) BY <1>10, IdleFits
  <1>12. RowsTyped
    <2>1. loc \in [Files -> Location] /\ item \in [Files -> Item] BY <1>3 DEF Init
    <2>2. disk \in [Places -> Files \cup {NoFile}] BY DEF Init
    <2>3. op \in [Tasks -> Ops] /\ \A t \in Tasks : op[t].pc = "idle" BY <1>10, IdleFits DEF Idle
    <2> QED BY <2>1, <2>2, <2>3 DEF RowsTyped, Init
  <1> QED BY <1>7, <1>8, <1>9, <1>10, <1>11, <1>12 DEF StorageInv

LEMMA StorageInductive ==
    ASSUME StorageInv, ~Clash, ~Clash', TaskSteps \/ UNCHANGED vars
    PROVE  StorageInv'
  <1>1. ASSUME UNCHANGED vars PROVE StorageInv'
    <2>1. UNCHANGED <<loc, item, disk, op, serving, crashes>> BY <1>1 DEF vars
    <2>2. item \in [Files -> Item] /\ serving \in BOOLEAN BY DEF StorageInv, RowsTyped
    <2> QED BY <2>1, <2>2, NothingMoves
  <1>2. ASSUME NEW t \in Tasks, Move(t) PROVE StorageInv'
    BY <1>2, PlanMoveStep, BeginMoveStep, MoveFileStep, RevertStep, ConfirmMoveStep DEF Move
  <1>3. ASSUME NEW t \in Tasks, Trash(t) PROVE StorageInv'
    BY <1>3, ReadForTrashStep, RenameToTrashStep, RecordTrashStep DEF Trash
  <1>4. ASSUME NEW t \in Tasks, Restore(t) PROVE StorageInv'
    BY <1>4, ReadForRestoreStep, RenameFromTrashStep, RecordRestoreStep, RenameBackStep DEF Restore
  <1>5. ASSUME NEW t \in Tasks, Delete(t) PROVE StorageInv'
    BY <1>5, ReadForDeleteStep, CheckExpiredStep, RemoveBytesStep, EraseStep DEF Delete
  <1>6. ASSUME NEW t \in Tasks, Fails(t) PROVE StorageInv'
    BY <1>6, FailsStep
  <1>7. ASSUME NEW f \in Files, Expires(f) PROVE StorageInv'
    <2>1. item \in [Files -> Item] /\ serving \in BOOLEAN BY DEF StorageInv, RowsTyped
    <2>2. item' = [item EXCEPT ![f].due = TRUE] /\ UNCHANGED <<loc, disk, op, serving, crashes>> BY <1>7 DEF Expires
    <2>3. /\ item' \in [Files -> Item]
          /\ \A g \in Files : /\ item'[g].there = item[g].there /\ item'[g].original = item[g].original
                              /\ item'[g].id = item[g].id
      BY <2>1, <2>2 DEF Item
    <2> QED BY <2>1, <2>2, <2>3, NothingMoves
  <1>8. ASSUME Start PROVE StorageInv'
    <2>1. ASSUME StartServing PROVE StorageInv'
      <3>1. UNCHANGED <<loc, item, disk, op, crashes>> /\ serving' = TRUE BY <2>1 DEF StartServing
      <3>2. item \in [Files -> Item] BY DEF StorageInv, RowsTyped
      <3> QED BY <3>1, <3>2, NothingMoves
    <2> QED BY <1>8, <2>1, RecoverRowStep DEF Start
  <1>9. ASSUME Crash PROVE StorageInv' BY <1>9, CrashStep
  <1> QED BY <1>1, <1>2, <1>3, <1>4, <1>5, <1>6, <1>7, <1>8, <1>9 DEF TaskSteps

\* Until two tasks come in each other's way.
OrderlyInv == ~clashed => StorageInv /\ ~Clash

LEMMA StorageAlways == Spec => []OrderlyInv
  <1>1. Init => OrderlyInv
    <2>1. ASSUME Init PROVE ~Clash
      <3>1. \A t \in Tasks : op[t].pc = "idle" BY <2>1 DEF Init, Idle
      <3> QED BY <3>1 DEF Clash, Engaged
    <2> QED BY <2>1, StorageInvInit DEF OrderlyInv
  <1>2. OrderlyInv /\ [Next]_vars => OrderlyInv'
    <2> SUFFICES ASSUME OrderlyInv, [Next]_vars, ~clashed' PROVE StorageInv' /\ ~Clash'
      BY DEF OrderlyInv
    <2>1. CASE Next
      <3>1. TaskSteps /\ ~clashed /\ ~Clash' BY <2>1 DEF Next
      <3> QED BY <3>1, StorageInductive DEF OrderlyInv
    <2>2. CASE UNCHANGED vars
      <3>1. ~clashed /\ UNCHANGED <<loc, op>> BY <2>2 DEF vars
      <3>2. ~Clash' BY <3>1 DEF OrderlyInv, Clash, Engaged, HeldByOther
      <3> QED BY <2>2, <3>1, <3>2, StorageInductive DEF OrderlyInv
    <2> QED BY <2>1, <2>2
  <1> QED BY <1>1, <1>2, PTL DEF Spec

\* Where the location of a file is ok and no task is at work on it, its bytes are at its path
\* or in its folder of the trash, wherever the process died, until two tasks come in each
\* other's way.
THEOREM StaysInStep == Spec => []InStep
  <1>1. OrderlyInv => InStep BY DEF OrderlyInv, StorageInv, Sound, InStep
  <1> QED BY <1>1, StorageAlways, PTL

\* Move and Recover: the bytes of a file that was being moved are at one end and not at the
\* other, however often the process died, and Recover never calls them missing, until two
\* tasks come in each other's way.
THEOREM IsRecoverable == Spec => []Recoverable
  <1>1. OrderlyInv => Recoverable BY DEF OrderlyInv, StorageInv, Sound, Recoverable
  <1> QED BY <1>1, StorageAlways, PTL

\* At the path of a file lie its own bytes or none: who asks for it never gets another one,
\* until two tasks come in each other's way.
THEOREM PathIsItsOwn == Spec => []PathHoldsItsOwn
  <1>1. OrderlyInv => PathHoldsItsOwn BY DEF OrderlyInv, StorageInv, Sound, PathHoldsItsOwn
  <1> QED BY <1>1, StorageAlways, PTL

LEMMA EmptyAhead ==
    ASSUME StorageInv, NEW t \in Tasks, serving
    PROVE  /\ op[t].pc \in {"moving", "restoring"} => disk[op[t].to] = NoFile
           /\ op[t].pc = "trashing" /\ OnDisk(op[t].from) => disk[op[t].to] = NoFile
           /\ op[t].pc \in {"untrashing", "unrestoring"} => disk[op[t].from] = NoFile
  <1> SUFFICES ASSUME op[t].pc # "idle"
               PROVE  /\ op[t].pc \in {"moving", "restoring"} => disk[op[t].to] = NoFile
                      /\ op[t].pc = "trashing" /\ OnDisk(op[t].from) => disk[op[t].to] = NoFile
                      /\ op[t].pc \in {"untrashing", "unrestoring"} => disk[op[t].from] = NoFile
    OBVIOUS
  <1>1. PICK f \in Files, w \in Ops : f = op[t].file /\ w = op[t] BY AtWorkOnFile
  <1>2. Fits(w) /\ Sound(f) /\ OnePlace(f) BY <1>1, AtWorkOnFile
  <1>3. w.pc \in {"moving", "restoring"} => disk[w.to] = NoFile BY <1>1, <1>2 DEF Fits
  <1>4. Bin(f) \in Places /\ loc[f].path \in Places /\ Beside[f] \in Places /\ f # NoFile
        /\ loc[f].path # Bin(f) /\ Beside[f] # Bin(f)
    BY <1>2, PathsAndBins DEF Sound
  <1>5. w.pc = "trashing" /\ OnDisk(w.from) => disk[w.to] = NoFile
    <2> SUFFICES ASSUME w.pc = "trashing", OnDisk(w.from) PROVE disk[w.to] = NoFile
      OBVIOUS
    <2>1. w.from = loc[f].path /\ w.to = Bin(f) /\ loc[f].state = "ok" BY <1>1, <1>2 DEF Fits, Trashings
    <2>2. disk[loc[f].path] = f BY <1>2, <2>1 DEF Sound, OnDisk
    <2> QED BY <1>2, <1>4, <2>1, <2>2 DEF Sound, OnePlace
  <1>6. w.pc = "untrashing" => disk[w.from] = NoFile
    <2> SUFFICES ASSUME w.pc = "untrashing" PROVE disk[w.from] = NoFile
      OBVIOUS
    <2>1. w.from = loc[f].path /\ disk[Bin(f)] = f /\ loc[f].state = "ok" BY <1>1, <1>2 DEF Fits, Trashings
    <2> QED BY <1>2, <1>4, <2>1 DEF Sound, OnePlace
  <1>7. w.pc = "unrestoring" => disk[w.from] = NoFile
    <2> SUFFICES ASSUME w.pc = "unrestoring" PROVE disk[w.from] = NoFile
      OBVIOUS
    <2>1. w.from = Bin(f) /\ w.to \in {loc[f].path, Beside[f]} /\ disk[w.to] = f
      BY <1>1, <1>2 DEF Fits, Restorings
    <2> QED BY <1>2, <1>4, <2>1 DEF Sound, OnePlace
  <1> QED BY <1>1, <1>3, <1>5, <1>6, <1>7

\* "An existing file is never overwritten" (mover.go): although every rename, those that undo
\* included, is done some time after the look at its destination, no step puts bytes where
\* others lie until two tasks come in each other's way.
THEOREM NothingIsOverwritten == Spec => OverwritesOnlyInAClash
  <1> DEFINE Kind == \A q \in Places : OnDisk(q) => disk'[q] \in {disk[q], NoFile}
  <1>1. StorageInv /\ TaskSteps => Kind
    <2> SUFFICES ASSUME StorageInv, TaskSteps PROVE Kind
      OBVIOUS
    <2>1. disk \in [Places -> Files \cup {NoFile}] BY DEF StorageInv, RowsTyped
    <2>2. ASSUME disk' = disk PROVE Kind BY <2>2
    <2>3. ASSUME NEW from, NEW to, disk[to] = NoFile, disk' = Renamed(from, to) PROVE Kind
      BY <2>1, <2>3 DEF Renamed, OnDisk
    <2>4. ASSUME NEW t \in Tasks, MoveFile(t) PROVE Kind
      BY <2>2, <2>3, <2>4, EmptyAhead DEF MoveFile, At
    <2>5. ASSUME NEW t \in Tasks, RenameToTrash(t) PROVE Kind
      BY <2>2, <2>3, <2>5, EmptyAhead DEF RenameToTrash, At
    <2>6. ASSUME NEW t \in Tasks, RenameFromTrash(t) PROVE Kind
      BY <2>2, <2>3, <2>6, EmptyAhead DEF RenameFromTrash, At
    <2>7. ASSUME NEW t \in Tasks, RenameBack(t) PROVE Kind
      BY <2>2, <2>3, <2>7, EmptyAhead DEF RenameBack, At
    <2>8. ASSUME NEW t \in Tasks, RemoveBytes(t) PROVE Kind
      BY <2>1, <2>8 DEF RemoveBytes
    <2> HIDE DEF Kind
    <2>9. ASSUME NEW t \in Tasks, Move(t) \/ Trash(t) \/ Restore(t) \/ Delete(t) \/ Fails(t) PROVE Kind
      BY <2>2, <2>4, <2>5, <2>6, <2>7, <2>8, <2>9
      DEF Move, Trash, Restore, Delete, Fails, PlanMove, BeginMove, Revert, ConfirmMove, ReadForTrash, RecordTrash,
          ReadForRestore, RecordRestore, ReadForDelete, ListExpired, CheckExpired, Erase
    <2>10. ASSUME (\E f \in Files : Expires(f)) \/ Start \/ Crash PROVE disk' = disk
      BY <2>10 DEF Expires, Start, RecoverRow, StartServing, Crash
    <2> QED BY <2>2, <2>9, <2>10 DEF TaskSteps
  <1> HIDE DEF Kind
  <1>2. OrderlyInv /\ [Next]_vars => [Overwrites => clashed]_vars
    <2> SUFFICES ASSUME OrderlyInv, Next, ~clashed PROVE ~Overwrites
      OBVIOUS
    <2>1. Kind BY <1>1 DEF OrderlyInv, Next
    <2> QED BY <2>1 DEF Kind, Overwrites
  <1> QED BY <1>2, StorageAlways, PTL DEF Spec, OverwritesOnlyInAClash

-----------------------------------------------------------------------------
(* Retention: what pick keeps.  What holds at every point of a walk is proved  *)
(* from a first point at which it would not.                                   *)

\* A set of numbers has a smallest one.
LEMMA LeastNumber ==
    ASSUME NEW S \in SUBSET Nat, S # {}
    PROVE  \E m \in S : \A n \in S : m <= n
  <1>1. PICK m \in S : \A n \in S : <<n, m>> \notin OpToRel(<, Nat)
    BY NatLessThanWellFounded, WFMin
  <1>2. ASSUME NEW n \in S PROVE m <= n
    <2>1. n \in Nat /\ m \in Nat OBVIOUS
    <2>2. ~(n < m) BY <1>1, <2>1 DEF OpToRel
    <2> QED BY <2>1, <2>2
  <1> QED BY <1>2

\* Some of the instants have a newest one.
LEMMA NewestIs ==
    ASSUME NEW S \in SUBSET Instants, S # {}
    PROVE  Newest(S) \in S /\ \A u \in S : u <= Newest(S)
  <1> DEFINE ages == {Latest - t : t \in S}
  <1>1. Latest \in Nat /\ \A t \in S : t \in Nat /\ t <= Latest BY RetentionAssumption DEF Instants
  <1>2. ages \in SUBSET Nat /\ ages # {} BY <1>1
  <1> HIDE DEF ages
  <1>3. PICK low \in ages : \A age \in ages : low <= age BY <1>2, LeastNumber
  <1>4. PICK t \in S : low = Latest - t BY <1>3 DEF ages
  <1>5. ASSUME NEW u \in S PROVE u <= t
    <2>1. low <= Latest - u BY <1>3 DEF ages
    <2> QED BY <1>1, <1>4, <2>1
  <1> QED BY <1>5 DEF Newest

Newer(S, t) == {u \in S : u > t}
BucketsOf(S, bucket) == {bucket[u] : u \in S}

\* There are finitely many buckets, and the more packages, the more of them.
LEMMA BucketsAre ==
    ASSUME NEW E \in SUBSET Instants, NEW S \in SUBSET E, NEW bucket \in [Instants -> Nat]
    PROVE  /\ IsFiniteSet(BucketsOf(S, bucket)) /\ Cardinality(BucketsOf(S, bucket)) \in Nat
           /\ BucketsOf(S, bucket) \subseteq BucketsOf(E, bucket)
           /\ Cardinality(BucketsOf(S, bucket)) <= Cardinality(BucketsOf(E, bucket))
           /\ Cardinality(BucketsOf(E, bucket)) \in Nat
  <1>1. ASSUME NEW U \in SUBSET Instants PROVE IsFiniteSet(BucketsOf(U, bucket))
    <2> DEFINE f == [u \in U |-> bucket[u]]
    <2>0. IsFiniteSet(Instants)
      <3>1. 1 \in Int /\ Latest \in Int BY RetentionAssumption
      <3> QED BY <3>1, FS_Interval DEF Instants
    <2>1. IsFiniteSet(U) BY <2>0, FS_Subset
    <2>2. f \in Surjection(U, BucketsOf(U, bucket)) BY DEF Surjection, BucketsOf
    <2> QED BY <2>1, <2>2, FS_Surjection
  <1>2. IsFiniteSet(BucketsOf(S, bucket)) /\ IsFiniteSet(BucketsOf(E, bucket)) BY <1>1
  <1>3. BucketsOf(S, bucket) \in SUBSET BucketsOf(E, bucket) BY DEF BucketsOf
  <1> QED BY <1>2, <1>3, FS_Subset, FS_CardinalityType

\* The newest of a bucket is kept if there are few buckets with newer packages.
Last(S, bucket, limit, t) ==
    /\ t \in S /\ bucket[t] \notin BucketsOf(Newer(S, t), bucket)
    /\ Cardinality(BucketsOf(Newer(S, t), bucket)) < limit

LEMMA LastIs ==
    ASSUME NEW S \in SUBSET Instants, NEW bucket \in [Instants -> Nat], NEW limit \in Nat
    PROVE  LastOfEach(S, bucket, limit) = {t \in S : Last(S, bucket, limit, t)}
  <1>1. ASSUME NEW t \in S PROVE t \in LastOfEach(S, bucket, limit) <=> Last(S, bucket, limit, t)
    <2>0. \A u \in S : u \in Nat BY DEF Instants
    <2>1. {bucket[u] : u \in {x \in S : x > t}} = BucketsOf(Newer(S, t), bucket) BY DEF BucketsOf, Newer
    <2>2. (\A u \in S : bucket[u] = bucket[t] => u <= t) <=> bucket[t] \notin BucketsOf(Newer(S, t), bucket)
      BY <2>0 DEF BucketsOf, Newer
    <2>3. bucket[t] \notin BucketsOf(Newer(S, t), bucket)
          => BucketsOf(Newer(S, t), bucket) \ {bucket[t]} = BucketsOf(Newer(S, t), bucket) OBVIOUS
    <2> QED BY <2>1, <2>2, <2>3 DEF LastOfEach, Last
  <1> QED BY <1>1 DEF LastOfEach

\* What pruning the packages that were ever made would keep is kept of fewer, if it is one of them.
LEMMA LastOfFewer ==
    ASSUME NEW E \in SUBSET Instants, NEW S \in SUBSET E, NEW bucket \in [Instants -> Nat], NEW limit \in Nat,
           NEW t \in S, t \in LastOfEach(E, bucket, limit)
    PROVE  t \in LastOfEach(S, bucket, limit)
  <1>1. Last(E, bucket, limit, t) BY LastIs
  <1>2. Newer(E, t) \in SUBSET Instants /\ Newer(S, t) \in SUBSET Newer(E, t) BY DEF Newer
  <1>3. /\ BucketsOf(Newer(S, t), bucket) \subseteq BucketsOf(Newer(E, t), bucket)
        /\ Cardinality(BucketsOf(Newer(S, t), bucket)) <= Cardinality(BucketsOf(Newer(E, t), bucket))
        /\ Cardinality(BucketsOf(Newer(S, t), bucket)) \in Nat /\ Cardinality(BucketsOf(Newer(E, t), bucket)) \in Nat
    BY <1>2, BucketsAre
  <1>4. Last(S, bucket, limit, t) BY <1>1, <1>3 DEF Last
  <1>5. S \in SUBSET Instants OBVIOUS
  <1> QED BY <1>4, <1>5, LastIs

\* What the walk knows when it has seen the packages that are newer than t.
RoundFits(round, S, bucket, limit, t) ==
    /\ round = [seen |-> round.seen, keep |-> round.keep, over |-> round.over]
    /\ round.keep = {u \in Newer(S, t) : Last(S, bucket, limit, u)}
    /\ \/ round.over = FALSE /\ round.seen = BucketsOf(Newer(S, t), bucket)
       \/ round.over = TRUE /\ Cardinality(BucketsOf(Newer(S, t), bucket)) >= limit

LEMMA StepFits ==
    ASSUME NEW S \in SUBSET Instants, NEW bucket \in [Instants -> Nat], NEW limit \in Nat,
           NEW t \in Instants, NEW round, RoundFits(round, S, bucket, limit, t)
    PROVE  RoundFits(IF t \in S THEN Step(round, t, bucket, limit) ELSE round, S, bucket, limit, t - 1)
  <1> DEFINE newer == Newer(S, t)
             next == Newer(S, t - 1)
             n == Cardinality(BucketsOf(newer, bucket))
             m == Cardinality(BucketsOf(next, bucket))
  <1>0. t \in Nat /\ \A u \in S : u \in Nat BY DEF Instants
  <1>a. \A u \in S : u > t - 1 <=> u > t \/ u = t BY <1>0
  <1>1. CASE t \notin S
    <2>1. next = newer BY <1>a, <1>1 DEF Newer
    <2> QED BY <1>1, <2>1 DEF RoundFits
  <1>2. CASE t \in S
    <2>1. next = newer \cup {t} /\ t \notin newer
      <3>1. ~(t > t) BY <1>0
      <3> QED BY <1>a, <1>2, <3>1 DEF Newer
    <2>2. BucketsOf(next, bucket) = BucketsOf(newer, bucket) \cup {bucket[t]} BY <2>1 DEF BucketsOf
    <2>3. newer \in SUBSET next /\ next \in SUBSET Instants BY <2>1 DEF Newer
    <2>4. n \in Nat /\ m \in Nat /\ n <= m BY <2>3, BucketsAre
    <2>5. round.keep = {u \in newer : Last(S, bucket, limit, u)} BY DEF RoundFits
    <2>6. Last(S, bucket, limit, t) <=> bucket[t] \notin BucketsOf(newer, bucket) /\ n < limit
      BY <1>2 DEF Last
    <2>7. {u \in next : Last(S, bucket, limit, u)}
          = IF Last(S, bucket, limit, t) THEN round.keep \cup {t} ELSE round.keep
      BY <2>1, <2>5
    <2> DEFINE after == Step(round, t, bucket, limit)
    <2> HIDE DEF newer, next, n, m
    <2>8. RoundFits(after, S, bucket, limit, t - 1)
      <3>1. CASE round.over = TRUE
        <4>1. after = round /\ n >= limit BY <3>1 DEF Step, RoundFits, n, newer
        <4>2. m >= limit /\ ~Last(S, bucket, limit, t) BY <4>1, <2>4, <2>6
        <4> QED BY <3>1, <4>1, <4>2, <2>7 DEF RoundFits, m, next
      <3>2. CASE round.over = FALSE /\ bucket[t] \in round.seen
        <4>1. after = round /\ round.seen = BucketsOf(newer, bucket) BY <3>2 DEF Step, RoundFits, newer
        <4>2. BucketsOf(next, bucket) = BucketsOf(newer, bucket) /\ ~Last(S, bucket, limit, t) BY <3>2, <4>1, <2>2, <2>6
        <4> QED BY <3>2, <4>1, <4>2, <2>7 DEF RoundFits, next
      <3>3. CASE round.over = FALSE /\ bucket[t] \notin round.seen
        <4>1. round.seen = BucketsOf(newer, bucket) /\ Cardinality(round.seen) = n BY <3>3 DEF RoundFits, newer, n
        <4>2. CASE n >= limit
          <5>1. after = [round EXCEPT !.over = TRUE] BY <3>3, <4>1, <4>2 DEF Step
          <5>2. after = [seen |-> round.seen, keep |-> round.keep, over |-> TRUE] BY <5>1 DEF RoundFits
          <5>3. m >= limit /\ ~Last(S, bucket, limit, t) BY <4>2, <2>4, <2>6
          <5> QED BY <5>2, <5>3, <2>7 DEF RoundFits, m, next
        <4>3. CASE n < limit
          <5>1. after = [round EXCEPT !.seen = @ \cup {bucket[t]}, !.keep = @ \cup {t}] BY <3>3, <4>1, <4>3, <2>4 DEF Step
          <5>2. after = [seen |-> round.seen \cup {bucket[t]}, keep |-> round.keep \cup {t}, over |-> FALSE]
            BY <3>3, <5>1 DEF RoundFits
          <5>3. Last(S, bucket, limit, t) BY <3>3, <4>1, <4>3, <2>6
          <5> QED BY <5>2, <5>3, <4>1, <2>2, <2>7 DEF RoundFits, next
        <4> QED BY <4>2, <4>3, <2>4
      <3> QED BY <3>1, <3>2, <3>3 DEF RoundFits
    <2> QED BY <1>2, <2>8
  <1> QED BY <1>1, <1>2

\* The walk of pick as a function of how far it is: it is there, however far it goes.
Walked(S, bucket, limit, n, round) ==
    IF Latest + 1 - n \in S THEN Step(round, Latest + 1 - n, bucket, limit) ELSE round
IsWalk(f, S, bucket, limit, N) ==
    f = [n \in 0..N |-> IF n = 0 THEN [seen |-> {}, keep |-> {}, over |-> FALSE]
                        ELSE Walked(S, bucket, limit, n, f[n - 1])]

LEMMA WalkExists ==
    ASSUME NEW S, NEW bucket, NEW limit, NEW N \in Nat
    PROVE  \E f : IsWalk(f, S, bucket, limit, N)
  <1> DEFINE Bad == {n \in Nat : ~(\E f : IsWalk(f, S, bucket, limit, n))}
  <1>1. ASSUME Bad # {} PROVE FALSE
    <2>1. PICK m \in Bad : \A n \in Bad : m <= n
      <3>1. Bad \in SUBSET Nat OBVIOUS
      <3> HIDE DEF Bad
      <3> QED BY <1>1, <3>1, LeastNumber
    <2>2. m \in Nat /\ ~(\E f : IsWalk(f, S, bucket, limit, m)) OBVIOUS
    <2>3. CASE m = 0
      <3> DEFINE f == [n \in 0..0 |-> [seen |-> {}, keep |-> {}, over |-> FALSE]]
      <3>1. IsWalk(f, S, bucket, limit, 0) BY DEF IsWalk
      <3> QED BY <2>2, <2>3, <3>1
    <2>4. CASE m # 0
      <3>1. m - 1 \in Nat /\ m - 1 \notin Bad BY <2>1, <2>2, <2>4
      <3>2. PICK g : IsWalk(g, S, bucket, limit, m - 1) BY <3>1
      <3> DEFINE f == [n \in 0..m |-> IF n = m THEN Walked(S, bucket, limit, m, g[m - 1]) ELSE g[n]]
                 now(n) == IF n = 0 THEN [seen |-> {}, keep |-> {}, over |-> FALSE]
                           ELSE Walked(S, bucket, limit, n, f[n - 1])
      <3>3. ASSUME NEW n \in 0..m PROVE f[n] = now(n)
        <4>1. CASE n = m
          <5>1. m - 1 \in 0..m /\ m - 1 # m BY <2>2, <3>1
          <5>2. f[m - 1] = g[m - 1] BY <5>1
          <5> HIDE DEF f
          <5>3. now(m) = Walked(S, bucket, limit, m, g[m - 1]) BY <2>4, <5>2
          <5>4. f[m] = Walked(S, bucket, limit, m, g[m - 1]) BY <2>2 DEF f
          <5> QED BY <4>1, <5>3, <5>4
        <4>2. CASE n # m
          <5>1. n \in 0..m - 1 BY <2>2, <4>2
          <5>2. f[n] = g[n] BY <4>2
          <5>3. g[n] = IF n = 0 THEN [seen |-> {}, keep |-> {}, over |-> FALSE]
                       ELSE Walked(S, bucket, limit, n, g[n - 1])
            BY <3>2, <5>1 DEF IsWalk
          <5>4. CASE n = 0 BY <5>2, <5>3, <5>4
          <5>5. CASE n # 0
            <6>1. n - 1 \in 0..m /\ n - 1 # m BY <2>2, <5>1, <5>5
            <6>2. f[n - 1] = g[n - 1] BY <6>1
            <6> HIDE DEF f
            <6> QED BY <5>2, <5>3, <5>5, <6>2
          <5> QED BY <5>4, <5>5
        <4> QED BY <4>1, <4>2
      <3>4. f = [n \in 0..m |-> f[n]] OBVIOUS
      <3> HIDE DEF f
      <3>5. f = [n \in 0..m |-> now(n)] BY <3>3, <3>4
      <3>6. IsWalk(f, S, bucket, limit, m) BY <3>5 DEF IsWalk
      <3> QED BY <2>2, <3>6
    <2> QED BY <2>3, <2>4
  <1> QED BY <1>1

LEMMA WalkIs ==
    ASSUME NEW S, NEW bucket, NEW limit
    PROVE  \E f : IsWalk(f, S, bucket, limit, Latest) /\ Picked(S, bucket, limit) = f[Latest].keep
  <1>1. \E f : IsWalk(f, S, bucket, limit, Latest) BY WalkExists, RetentionAssumption
  <1> DEFINE walk == CHOOSE f : IsWalk(f, S, bucket, limit, Latest)
  <1>2. IsWalk(walk, S, bucket, limit, Latest) BY <1>1
  <1>3. Picked(S, bucket, limit) = walk[Latest].keep BY DEF Picked, IsWalk, Walked
  <1> QED BY <1>2, <1>3

\* pick keeps the newest of each of the last limit buckets, of any folder and for any
\* buckets: the walk, with what it has seen, and the definition without it agree.
THEOREM PickKeepsTheLast ==
    ASSUME NEW S \in SUBSET Instants, NEW bucket \in [Instants -> Nat], NEW limit \in Nat
    PROVE  Picked(S, bucket, limit) = LastOfEach(S, bucket, limit)
  <1>0. Latest \in Nat BY RetentionAssumption
  <1>1. PICK walk : IsWalk(walk, S, bucket, limit, Latest) /\ Picked(S, bucket, limit) = walk[Latest].keep
    BY WalkIs
  <1>2. walk[0] = [seen |-> {}, keep |-> {}, over |-> FALSE] BY <1>0, <1>1 DEF IsWalk
  <1>3. ASSUME NEW n \in 1..Latest PROVE walk[n] = Walked(S, bucket, limit, n, walk[n - 1])
    <2>1. n \in 0..Latest /\ n # 0 BY <1>0
    <2> QED BY <1>1, <2>1 DEF IsWalk
  <1> DEFINE Bad == {n \in 0..Latest : ~RoundFits(walk[n], S, bucket, limit, Latest - n)}
  <1>4. 0 \notin Bad
    <2>1. Newer(S, Latest) = {}
      <3>1. \A u \in S : ~(u > Latest) BY <1>0 DEF Instants
      <3> QED BY <3>1 DEF Newer
    <2>2. BucketsOf(Newer(S, Latest), bucket) = {} BY <2>1 DEF BucketsOf
    <2>3. Latest - 0 = Latest BY <1>0
    <2>4. RoundFits(walk[0], S, bucket, limit, Latest) BY <1>2, <2>1, <2>2 DEF RoundFits
    <2> QED BY <2>3, <2>4
  <1>5. ASSUME Bad # {} PROVE FALSE
    <2>1. PICK m \in Bad : \A n \in Bad : m <= n
      <3>1. Bad \in SUBSET Nat OBVIOUS
      <3> HIDE DEF Bad
      <3> QED BY <1>5, <3>1, LeastNumber
    <2>2. m \in 1..Latest /\ m - 1 \in 0..Latest /\ m - 1 \notin Bad BY <1>0, <1>4, <2>1
    <2>3. PICK t \in Instants : t = Latest + 1 - m BY <1>0, <2>2 DEF Instants
    <2>4. Latest - (m - 1) = t /\ Latest - m = t - 1 BY <1>0, <2>2, <2>3
    <2>5. RoundFits(walk[m - 1], S, bucket, limit, t) BY <2>2, <2>4
    <2>6. walk[m] = IF t \in S THEN Step(walk[m - 1], t, bucket, limit) ELSE walk[m - 1]
      BY <1>3, <2>2, <2>3 DEF Walked
    <2>7. RoundFits(walk[m], S, bucket, limit, t - 1) BY <2>5, <2>6, StepFits
    <2> QED BY <2>4, <2>7
  <1>6. Latest \in 0..Latest /\ Latest - Latest = 0 BY <1>0
  <1>7. RoundFits(walk[Latest], S, bucket, limit, 0) BY <1>5, <1>6
  <1>8. Newer(S, 0) = S
    <2>1. \A u \in S : u > 0 BY <1>0 DEF Instants
    <2> QED BY <2>1 DEF Newer
  <1>9. walk[Latest].keep = {u \in S : Last(S, bucket, limit, u)} BY <1>7, <1>8 DEF RoundFits
  <1> QED BY <1>1, <1>9, LastIs

\* Pruning: the packages that pruning once would keep are there, and none of them is to be removed.
Spared(bucket, limit) == LastOfEach(everMade, bucket, limit) \subseteq folder \ doomed

RetentionInv ==
    /\ folder \subseteq everMade /\ doomed \subseteq everMade /\ everMade \subseteq Instants
    /\ Spared(Daily, Policy["daily"]) /\ Spared(Weekly, Policy["weekly"]) /\ Spared(Monthly, Policy["monthly"])
    /\ everMade # {} => Newest(everMade) \in folder \ doomed

\* How many are kept is the same for the days, the weeks and the months.
LEMMA WindowsAre ==
    /\ Daily \in [Instants -> Nat] /\ Weekly \in [Instants -> Nat] /\ Monthly \in [Instants -> Nat]
    /\ Policy["daily"] \in Nat /\ Policy["weekly"] \in Nat /\ Policy["monthly"] \in Nat
  BY RetentionAssumption

LEMMA MakesSpares ==
    ASSUME RetentionInv, NEW t \in Instants, MakesPackage(t),
           NEW bucket \in [Instants -> Nat], NEW limit \in Nat, Spared(bucket, limit)
    PROVE  Spared(bucket, limit)'
  <1>1. everMade' \in SUBSET Instants /\ everMade \in SUBSET everMade' BY DEF RetentionInv, MakesPackage
  <1>2. ASSUME NEW u \in LastOfEach(everMade', bucket, limit), u # t PROVE u \in folder \ doomed
    <2>1. u \in everMade BY <1>2 DEF LastOfEach, MakesPackage
    <2>2. u \in LastOfEach(everMade, bucket, limit) BY <1>1, <1>2, <2>1, LastOfFewer
    <2> QED BY <2>2 DEF Spared
  <1>3. t \in folder' /\ t \notin doomed' /\ folder \subseteq folder' /\ doomed' = doomed
    BY DEF RetentionInv, MakesPackage
  <1> QED BY <1>2, <1>3 DEF Spared

\* The folder is read, and what is kept of it holds what would be kept of all.
LEMMA BeginsSpares ==
    ASSUME RetentionInv, BeginsPrune, NEW bucket \in [Instants -> Nat], NEW limit \in Nat,
           Spared(bucket, limit), Picked(folder, bucket, limit) \subseteq Kept(folder)
    PROVE  Spared(bucket, limit)'
  <1>1. everMade \in SUBSET Instants /\ folder \in SUBSET everMade /\ folder \in SUBSET Instants BY DEF RetentionInv
  <1>2. LastOfEach(everMade, bucket, limit) \subseteq LastOfEach(folder, bucket, limit)
    <2>1. ASSUME NEW t \in LastOfEach(everMade, bucket, limit) PROVE t \in LastOfEach(folder, bucket, limit)
      <3>1. t \in folder BY DEF Spared
      <3> QED BY <1>1, <3>1, LastOfFewer
    <2> QED BY <2>1
  <1>3. LastOfEach(everMade, bucket, limit) \subseteq Kept(folder) BY <1>1, <1>2, PickKeepsTheLast
  <1> QED BY <1>3 DEF Spared, BeginsPrune

LEMMA RemovesSpares ==
    ASSUME RemovesOne \/ StopsPruning, NEW bucket, NEW limit, Spared(bucket, limit), doomed \subseteq Instants
    PROVE  Spared(bucket, limit)'
  <1>1. CASE RemovesOne
    <2>1. Newest(doomed) \in doomed BY <1>1, NewestIs DEF RemovesOne
    <2> QED BY <1>1, <2>1 DEF RemovesOne, Spared
  <1>2. CASE StopsPruning BY <1>2 DEF StopsPruning, Spared
  <1> QED BY <1>1, <1>2

\* The newest of all that were made stays.
LEMMA NewestStays ==
    ASSUME RetentionInv, RetentionNext
    PROVE  everMade' # {} => Newest(everMade)' \in folder' \ doomed'
  <1>0. everMade \in SUBSET Instants /\ folder \in SUBSET everMade BY DEF RetentionInv
  <1>1. ASSUME NEW t \in Instants, MakesPackage(t) PROVE Newest(everMade') \in folder' \ doomed'
    <2>1. everMade' = everMade \cup {t} /\ folder' = folder \cup {t} /\ doomed' = doomed /\ t \notin everMade
      BY <1>1 DEF MakesPackage
    <2>2. PICK new : new = Newest(everMade') OBVIOUS
    <2>3. new \in everMade' /\ \A u \in everMade' : u <= new BY <1>0, <2>1, <2>2, NewestIs
    <2>4. CASE new = t BY <2>1, <2>2, <2>4 DEF RetentionInv
    <2>5. CASE new # t
      <3>1. new \in everMade /\ \A u \in everMade : u <= new BY <2>1, <2>3, <2>5
      <3>2. PICK old : old = Newest(everMade) OBVIOUS
      <3>3. old \in everMade /\ \A u \in everMade : u <= old BY <1>0, <3>1, <3>2, NewestIs
      <3>4. old = new /\ old \in Nat BY <1>0, <3>1, <3>3 DEF Instants
      <3> QED BY <2>1, <2>2, <3>1, <3>2, <3>4 DEF RetentionInv
    <2> QED BY <2>4, <2>5
  <1>2. CASE BeginsPrune
    <2>1. everMade' = everMade /\ folder' = folder /\ doomed' = folder \ Kept(folder) BY <1>2 DEF BeginsPrune
    <2>2. ASSUME everMade # {} PROVE Newest(everMade) \in Kept(folder)
      <3>1. Newest(everMade) \in everMade /\ \A u \in everMade : u <= Newest(everMade) BY <1>0, <2>2, NewestIs
      <3>2. Newest(everMade) \in folder BY <2>2 DEF RetentionInv
      <3> QED BY <1>0, <3>1, <3>2 DEF Kept
    <2> QED BY <2>1, <2>2 DEF RetentionInv
  <1>3. CASE RemovesOne
    <2>1. Newest(doomed) \in doomed BY <1>3, NewestIs DEF RemovesOne, RetentionInv
    <2> QED BY <1>3, <2>1 DEF RemovesOne, RetentionInv
  <1>4. CASE StopsPruning BY <1>4 DEF StopsPruning, RetentionInv
  <1> QED BY <1>1, <1>2, <1>3, <1>4 DEF RetentionNext

LEMMA RetentionStep == RetentionInv /\ [RetentionNext]_retentionVars => RetentionInv'
  <1> SUFFICES ASSUME RetentionInv, [RetentionNext]_retentionVars PROVE RetentionInv' OBVIOUS
  <1>0. doomed \subseteq Instants BY DEF RetentionInv
  <1>1. CASE UNCHANGED retentionVars BY <1>1 DEF retentionVars, RetentionInv, Spared
  <1>2. CASE RetentionNext
    <2>1. folder' \subseteq everMade' /\ doomed' \subseteq everMade' /\ everMade' \subseteq Instants
      BY <1>2 DEF RetentionNext, RetentionInv, MakesPackage, BeginsPrune, RemovesOne, StopsPruning
    <2>2. ASSUME NEW bucket \in [Instants -> Nat], NEW limit \in Nat, Spared(bucket, limit),
                 Picked(folder, bucket, limit) \subseteq Kept(folder)
          PROVE  Spared(bucket, limit)'
      BY <1>0, <1>2, <2>2, MakesSpares, BeginsSpares, RemovesSpares DEF RetentionNext
    <2>3. Spared(Daily, Policy["daily"])' BY <2>2, WindowsAre DEF RetentionInv, Kept
    <2>4. Spared(Weekly, Policy["weekly"])' BY <2>2, WindowsAre DEF RetentionInv, Kept
    <2>5. Spared(Monthly, Policy["monthly"])' BY <2>2, WindowsAre DEF RetentionInv, Kept
    <2>6. everMade' # {} => Newest(everMade)' \in folder' \ doomed' BY <1>2, NewestStays
    <2> QED BY <2>1, <2>3, <2>4, <2>5, <2>6 DEF RetentionInv
  <1> QED BY <1>1, <1>2

LEMMA RetentionStart == RetentionInit => RetentionInv
  BY DEF RetentionInit, RetentionInv, Spared, LastOfEach

\* Pruning round after round, with rounds that stop half way and clocks that are set back,
\* keeps what pruning once would keep of all that was ever made.
THEOREM RoundsKeepWhatOneWould == RetentionSpec => []PrunedAsOnce
  <1>1. RetentionInv => PrunedAsOnce BY DEF RetentionInv, PrunedAsOnce, Spared
  <1> QED BY <1>1, RetentionStart, RetentionStep, PTL DEF RetentionSpec

=============================================================================
