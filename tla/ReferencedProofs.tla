-------------------------- MODULE ReferencedProofs --------------------------
(***************************************************************************)
(* What holds of the referenced files, their transfer and the removal of   *)
(* their originals for any number of files, places, requests, changes,     *)
(* deletions and restarts.                                                 *)
(***************************************************************************)
EXTENDS Referenced, TLAPS

-----------------------------------------------------------------------------
(* The inductive invariant. *)

IsManaged(c) == entry[c].mode = "managed"

\* The bytes, or what an import makes of them, have a managed row, or had one.
Kept(c) == \E d \in {c, Converted[c]} : IsManaged(d) \/ d \in destroyed

\* A managed row is at a place that is named for its file or for nothing else, and a
\* referenced one at a place of the directory.
RowsFit ==
    \A c \in Contents :
        /\ IsManaged(c) =>
              /\ entry[c].at \in {Layout} \cup {ById(d) : d \in Contents} \cup {Upload(q, c) : q \in Requests}
              /\ bytes[entry[c].at] = c
        /\ Referenced(c) => entry[c].at \in Origins

Transferring == {"copying", "checking", "renaming", "switching", "undoing"}
Removing == {"verifying", "unlinking", "forgetting"}
Scanning == {"scanning", "cataloguing"}

\* A transfer publishes at a place without a row the bytes of the file it is of, which
\* nobody transferred from the same original before.
TransferFits(w) ==
    /\ w.pc \in Transferring =>
          w.file \in Contents /\ w.from \in Origins /\ w.to \in {Layout, ById(w.file)} /\ ~HasPath(w.to)
    /\ w.pc \in {"checking", "renaming"} => w.copied = w.file
    /\ w.pc = "switching" => bytes[w.to] = w.file
    /\ w.pc \in {"checking", "renaming", "switching"} => \A c \in Contents : origin[c] = w.from => c = w.file

\* The loop of the jobs has no list but that of a scan.
JobsFit(w) ==
    /\ w.pc \in {"idle"} \cup Transferring \cup Removing \cup Scanning
    /\ TransferFits(w)
    /\ w.pc = "cataloguing" => w.file \in Contents /\ w.from \in Origins
    /\ w.pc \notin Scanning => w.todo = {}

\* An import stores under a name of its own, and a retry has a list of what is kept.
RequestFits(q, w) ==
    /\ w.pc \in {"idle", "retrying", "storing", "inserting"} \cup Removing
    /\ w.pc \in {"storing", "inserting"} =>
          /\ w.file \in Contents /\ w.from \in Origins /\ w.to = Upload(q, Converted[w.file])
          /\ ~(IsManaged(Converted[w.file]) /\ entry[Converted[w.file]].at = w.to)
    /\ w.pc = "inserting" => bytes[w.to] = Converted[w.file]
    /\ \A t \in w.todo : t[2] \in Contents /\ Kept(t[2])

\* Only the original of what is kept is looked at in order to be removed.
RemovalFits(w) == w.pc \in Removing => w.file \in Contents /\ w.from \in Origins /\ Kept(w.file)

Fits(p, w) ==
    /\ p = Jobs => JobsFit(w)
    /\ p \in Requests => RequestFits(p, w)
    /\ RemovalFits(w)

CleanupKept == \A o \in Origins : cleanup[o] # Nothing => Kept(cleanup[o])

\* An original that is as it was is listed, and no removal of it is to be recorded.
Tracked ==
    \A c \in Contents : origin[c] # NoPlace =>
        cleanup[origin[c]] = c /\ bytes[origin[c]] = c /\ ~RemovalOpen(origin[c])

IInv ==
    /\ ReferencedTypeOK /\ RowsFit /\ CleanupKept /\ Tracked
    /\ \A p \in Processes : Fits(p, work[p])

-----------------------------------------------------------------------------
(* Places, and what is kept. *)

LEMMA PlacesApart ==
    ASSUME NEW c, NEW d, NEW q, NEW r
    PROVE  /\ Layout # ById(c) /\ Layout # Upload(q, c) /\ ById(c) # Upload(q, d)
           /\ Upload(q, c) = Upload(r, d) => q = r /\ c = d
  BY DEF Layout, ById, Upload

LEMMA PlacesManaged ==
    /\ Layout \in Managed
    /\ \A c \in Contents : ById(c) \in Managed
    /\ \A q \in Requests : \A c \in Contents : Upload(q, c) \in Managed
    /\ \A q \in Managed : q \in Everywhere /\ q \notin Origins
    /\ \A o \in Origins : o \in Everywhere /\ o \notin Managed /\ o # NoPlace
  BY ReferencedAssumption DEF Managed, Everywhere

\* What a managed row of c says of its place.
LEMMA ManagedPlace ==
    ASSUME RowsFit, NEW c \in Contents, IsManaged(c)
    PROVE  entry[c].at \in Managed /\ bytes[entry[c].at] = c
  <1>1. entry[c].at \in {Layout} \cup {ById(d) : d \in Contents} \cup {Upload(q, c) : q \in Requests}
    BY DEF RowsFit
  <1> QED BY <1>1, PlacesManaged DEF RowsFit

\* What the properties call stored.
LEMMA KeptIsStored ==
    ASSUME ReferencedTypeOK, RowsFit, NEW c \in Contents, Kept(c)
    PROVE  Stored(c)
  <1>1. Converted[c] \in Contents BY ReferencedAssumption
  <1>2. PICK d \in {c, Converted[c]} : IsManaged(d) \/ d \in destroyed BY DEF Kept
  <1>3. d \in Contents BY <1>1, <1>2
  <1>4. CASE IsManaged(d) BY <1>2, <1>3, <1>4, ManagedPlace DEF Stored, IsManaged
  <1>5. CASE d \in destroyed BY <1>2, <1>5 DEF Stored
  <1> QED BY <1>2, <1>4, <1>5

LEMMA KeptStays ==
    ASSUME NEW c \in Contents, Kept(c),
           \A d \in Contents : IsManaged(d) \/ d \in destroyed => IsManaged(d)' \/ d \in destroyed'
    PROVE  Kept(c)'
  <1>1. Converted[c] \in Contents BY ReferencedAssumption
  <1> QED BY <1>1 DEF Kept

\* The variables the invariant says no more of than their type.
SideTyped ==
    /\ stamp \in [Origins -> Nat] /\ authorised \in BOOLEAN /\ asked \subseteq Contents
    /\ untouched \subseteq Contents /\ changes \in Nat /\ deletions \in Nat /\ restarts \in Nat

\* What is local to a process stays fit when the rows, the bytes and the history change,
\* if its own place is left alone.
LEMMA FitsOn ==
    ASSUME NEW r \in Processes, NEW w \in Work, Fits(r, w),
           \A c \in Contents : Kept(c) => Kept(c)',
           r = Jobs /\ w.pc \in Transferring =>
              /\ ~HasPath(w.to)'
              /\ w.pc = "switching" => bytes'[w.to] = bytes[w.to]
              /\ \A c \in Contents : origin'[c] = w.from => origin[c] = w.from,
           r \in Requests /\ w.pc \in {"storing", "inserting"} =>
              /\ w.pc = "inserting" => bytes'[w.to] = bytes[w.to]
              /\ IsManaged(Converted[w.file])' /\ entry'[Converted[w.file]].at = w.to =>
                    IsManaged(Converted[w.file]) /\ entry[Converted[w.file]].at = w.to
    PROVE  Fits(r, w)'
  <1>1. RemovalFits(w)' BY DEF Fits, RemovalFits
  <1>2. ASSUME r = Jobs PROVE JobsFit(w)'
    <2>1. TransferFits(w)' BY <1>2 DEF Fits, JobsFit, TransferFits, Transferring
    <2> QED BY <1>2, <2>1 DEF Fits, JobsFit
  <1>3. ASSUME r \in Requests PROVE RequestFits(r, w)'
    BY <1>3 DEF Fits, RequestFits
  <1> QED BY <1>1, <1>2, <1>3 DEF Fits

\* A step of one process, after which the managed rows are where they were.
LEMMA Quiet ==
    ASSUME IInv, SideTyped', entry' \in [Contents -> Row], cleanup' \in [Origins -> Contents \cup {Nothing}],
           NEW p \in Processes, NEW w \in Work, work' = [work EXCEPT ![p] = w],
           UNCHANGED <<bytes, origin, destroyed>>,
           \A c \in Contents :
              /\ entry'[c].mode = "managed" <=> IsManaged(c)
              /\ IsManaged(c) => entry'[c].at = entry[c].at
              /\ entry'[c].mode = "referenced" => entry'[c].at \in Origins,
           \A o \in Origins : cleanup'[o] # cleanup[o] => cleanup'[o] = Nothing \/ Kept(cleanup'[o]),
           \A c \in Contents : origin[c] # NoPlace => cleanup'[origin[c]] = c,
           Fits(p, w),
           w.pc = "forgetting" => \A c \in Contents : origin[c] # w.from
    PROVE  IInv'
  <1>1. ReferencedTypeOK' BY DEF IInv, ReferencedTypeOK, SideTyped
  <1>2. RowsFit' BY DEF IInv, RowsFit, IsManaged, Referenced
  <1>3. \A c \in Contents : Kept(c) => Kept(c)' BY KeptStays DEF IsManaged
  <1>4. CleanupKept' BY <1>3 DEF IInv, CleanupKept, ReferencedTypeOK
  <1>5. \A q \in Managed : HasPath(q)' => HasPath(q) BY DEF HasPath, IsManaged
  <1>6. ASSUME NEW r \in Processes PROVE Fits(r, work[r])'
    <2>1. PICK v \in Work : Fits(r, v) /\ work'[r] = v
      BY <1>6 DEF IInv, ReferencedTypeOK
    <2>2. r = Jobs /\ v.pc \in Transferring => ~HasPath(v.to)'
      BY <2>1, <1>5, PlacesManaged DEF Fits, JobsFit, TransferFits
    <2>3. r \in Requests /\ v.pc \in {"storing", "inserting"} => Converted[v.file] \in Contents
      BY <2>1, ReferencedAssumption DEF Fits, RequestFits
    <2>4. Fits(r, v)' BY <2>1, <2>2, <2>3, <1>3, FitsOn DEF IsManaged
    <2> QED BY <2>1, <2>4
  <1>7. Tracked'
    <2> SUFFICES ASSUME NEW c \in Contents, origin[c] # NoPlace
                 PROVE  (cleanup[origin[c]] = c /\ bytes[origin[c]] = c /\ ~RemovalOpen(origin[c]))'
      BY DEF Tracked
    <2>1. (cleanup[origin[c]] = c /\ bytes[origin[c]] = c)' BY DEF IInv, Tracked
    <2>2. ~RemovalOpen(origin[c]) BY DEF IInv, Tracked
    <2>3. ASSUME NEW r \in Processes, work'[r].pc = "forgetting", work'[r].from = origin[c] PROVE FALSE
      <3>1. CASE r = p BY <2>3, <3>1 DEF IInv, ReferencedTypeOK
      <3>2. CASE r # p BY <2>2, <2>3, <3>2 DEF IInv, ReferencedTypeOK, RemovalOpen, Stands
      <3> QED BY <3>1, <3>2
    <2>4. ~RemovalOpen(origin[c])' BY <2>3 DEF RemovalOpen, Stands
    <2> QED BY <2>1, <2>4
  <1> QED BY <1>1, <1>2, <1>4, <1>6, <1>7 DEF IInv

-----------------------------------------------------------------------------
(* The steps after which the managed rows, the bytes and the history are as before. *)

PC == {"idle", "copying", "checking", "renaming", "switching", "undoing",
       "verifying", "unlinking", "forgetting", "retrying",
       "storing", "inserting", "scanning", "cataloguing", "marking"}

LEMMA PointsAre ==
    /\ "renaming" \in PC /\ "undoing" \in PC /\ "verifying" \in PC
    /\ "forgetting" \in PC /\ "inserting" \in PC /\ "scanning" \in PC
  BY DEF PC

On(w, pc) == [w EXCEPT !.pc = pc]

LEMMA Moved ==
    ASSUME NEW w \in Work, NEW pc \in PC
    PROVE  /\ On(w, pc) \in Work /\ On(w, pc).pc = pc
           /\ On(w, pc).file = w.file /\ On(w, pc).copied = w.copied /\ On(w, pc).from = w.from
           /\ On(w, pc).to = w.to /\ On(w, pc).todo = w.todo
  BY DEF Work, PC, On

LEMMA NoWorkFits ==
    /\ NoWork \in Work /\ NoWork.pc = "idle" /\ NoWork.file = Nothing /\ NoWork.todo = {}
    /\ \A p \in Processes : Fits(p, NoWork)
  <1>1. NoWork \in Work /\ NoWork.pc = "idle" /\ NoWork.file = Nothing /\ NoWork.todo = {}
    BY DEF NoWork, Work
  <1>2. ASSUME NEW p \in Processes PROVE Fits(p, NoWork)
    BY <1>1 DEF Fits, JobsFit, TransferFits, RequestFits, RemovalFits, Transferring, Removing
  <1> QED BY <1>1, <1>2

LEMMA Standing ==
    ASSUME IInv, NEW p \in Processes
    PROVE  /\ work[p] \in Work /\ work = [work EXCEPT ![p] = work[p]] /\ Fits(p, work[p])
           /\ work[p].pc = "forgetting" => \A c \in Contents : origin[c] # work[p].from
  <1>1. work[p] \in Work /\ work = [work EXCEPT ![p] = work[p]] /\ Fits(p, work[p])
    BY DEF IInv, ReferencedTypeOK
  <1>2. ASSUME work[p].pc = "forgetting", NEW c \in Contents, origin[c] = work[p].from PROVE FALSE
    <2>1. work[p].from \in Origins BY <1>1, <1>2 DEF Fits, RemovalFits, Removing
    <2>2. RemovalOpen(origin[c]) BY <1>2 DEF RemovalOpen, Stands
    <2> QED BY <1>2, <2>1, <2>2, PlacesManaged DEF IInv, Tracked
  <1> QED BY <1>1, <1>2

\* Only the local variables of one process change, and the list of the jobs.
LEMMA LocalStep ==
    ASSUME IInv, NEW p \in Processes, NEW w \in Work, SetWork(p, w), asked' \subseteq Contents,
           UNCHANGED <<bytes, stamp, entry, cleanup, authorised, history, bounds>>,
           Fits(p, w), w.pc = "forgetting" => \A c \in Contents : origin[c] # w.from
    PROVE  IInv'
  <1>1. SideTyped' BY DEF IInv, ReferencedTypeOK, SideTyped, history, bounds
  <1>2. entry' \in [Contents -> Row] /\ cleanup' \in [Origins -> Contents \cup {Nothing}]
    BY DEF IInv, ReferencedTypeOK
  <1>3. \A c \in Contents :
              /\ entry'[c].mode = "managed" <=> IsManaged(c)
              /\ IsManaged(c) => entry'[c].at = entry[c].at
              /\ entry'[c].mode = "referenced" => entry'[c].at \in Origins
    BY DEF IInv, RowsFit, IsManaged, Referenced
  <1>4. \A c \in Contents : origin[c] # NoPlace => cleanup'[origin[c]] = c
    BY DEF IInv, Tracked
  <1> QED BY <1>1, <1>2, <1>3, <1>4, Quiet DEF SetWork, history

\* Only rows change, none of them to or from the managed storage.
LEMMA RowStep ==
    ASSUME IInv, NEW p \in Processes, NEW w \in Work, SetWork(p, w), SideTyped',
           entry' \in [Contents -> Row], UNCHANGED <<bytes, cleanup, origin, destroyed>>,
           \A c \in Contents :
              /\ entry'[c].mode = "managed" <=> IsManaged(c)
              /\ IsManaged(c) => entry'[c].at = entry[c].at
              /\ entry'[c].mode = "referenced" => entry'[c].at \in Origins,
           Fits(p, w), w.pc = "forgetting" => \A c \in Contents : origin[c] # w.from
    PROVE  IInv'
  <1>1. cleanup' \in [Origins -> Contents \cup {Nothing}] BY DEF IInv, ReferencedTypeOK
  <1>2. \A c \in Contents : origin[c] # NoPlace => cleanup'[origin[c]] = c BY DEF IInv, Tracked
  <1> QED BY <1>1, <1>2, Quiet DEF SetWork

LEMMA BeginTransferStep ==
    ASSUME IInv, NEW c \in Contents, BeginTransfer(c)
    PROVE  IInv'
  <1>1. Jobs \in Processes /\ Jobs \notin Requests BY ReferencedAssumption DEF Processes
  <1>2. asked \subseteq Contents /\ asked' \subseteq Contents BY DEF IInv, ReferencedTypeOK, BeginTransfer, JobEnds, JobFails
  <1>3. ASSUME UNCHANGED work PROVE IInv'
    BY <1>1, <1>2, <1>3, Standing, LocalStep DEF SetWork, BeginTransfer
  <1>4. ASSUME Referenced(c), NEW q \in Targets(c),
               SetWork(Jobs, [NoWork EXCEPT !.pc = "copying", !.file = c, !.from = entry[c].at, !.to = q, !.stamp = stamp[entry[c].at]])
        PROVE IInv'
    <2> DEFINE w == [NoWork EXCEPT !.pc = "copying", !.file = c, !.from = entry[c].at, !.to = q, !.stamp = stamp[entry[c].at]]
    <2>1. entry[c].at \in Origins BY <1>4 DEF IInv, RowsFit
    <2>2. q \in {Layout, ById(c)} /\ q \in Managed /\ ~HasPath(q)
      BY <1>4, PlacesManaged DEF Targets, Occupied
    <2>3. w \in Work /\ w.pc = "copying" /\ w.file = c /\ w.from = entry[c].at /\ w.to = q /\ w.todo = {}
      BY <2>1, <2>2 DEF IInv, ReferencedTypeOK, NoWork, Work
    <2> HIDE DEF w
    <2>4. Fits(Jobs, w)
      BY <1>1, <2>1, <2>2, <2>3 DEF Fits, JobsFit, TransferFits, RemovalFits, Transferring, Removing
    <2>5. SetWork(Jobs, w) BY <1>4 DEF w
    <2> QED BY <1>1, <1>2, <2>3, <2>4, <2>5, LocalStep DEF BeginTransfer
  <1> QED BY <1>3, <1>4 DEF BeginTransfer

LEMMA CopyStep ==
    ASSUME IInv, Copy
    PROVE  IInv'
  <1>1. Jobs \in Processes /\ Jobs \notin Requests BY ReferencedAssumption DEF Processes
  <1>2. asked' \subseteq Contents BY DEF IInv, ReferencedTypeOK, Copy, JobEnds
  <1>3. work[Jobs] \in Work /\ Fits(Jobs, work[Jobs]) /\ work[Jobs].pc = "copying"
    BY <1>1, Standing DEF Copy, Stands
  <1>4. work[Jobs].file \in Contents /\ work[Jobs].from \in Origins
    BY <1>1, <1>3 DEF Fits, JobsFit, TransferFits, Transferring
  <1>5. CASE Catalogued(Jobs)
    <2> DEFINE w == [work[Jobs] EXCEPT !.pc = "checking", !.copied = bytes[work[Jobs].from]]
    <2>1. bytes[work[Jobs].from] = work[Jobs].file BY <1>5 DEF Catalogued
    <2>2. /\ w \in Work /\ w.pc = "checking" /\ w.file = work[Jobs].file /\ w.from = work[Jobs].from
          /\ w.to = work[Jobs].to /\ w.copied = w.file /\ w.todo = work[Jobs].todo
      BY <1>3, <1>4, <2>1 DEF Work
    <2>3. SetWork(Jobs, w) /\ UNCHANGED <<bytes, stamp, entry, cleanup, authorised, history, bounds>>
      BY <1>5 DEF Copy
    <2> HIDE DEF w
    <2>4. \A c \in Contents : origin[c] = w.from => c = w.file
      BY <1>4, <2>1, <2>2, PlacesManaged DEF IInv, Tracked
    <2>5. Fits(Jobs, w)
      BY <1>1, <1>3, <2>2, <2>4 DEF Fits, JobsFit, TransferFits, RemovalFits, Transferring, Removing, Scanning
    <2> QED BY <1>1, <1>2, <2>2, <2>3, <2>5, LocalStep
  <1>6. CASE ~Catalogued(Jobs)
    <2>1. SideTyped' BY <1>2 DEF IInv, ReferencedTypeOK, SideTyped, Copy, history, bounds
    <2>2. entry' \in [Contents -> Row] /\ \A c \in Contents : entry'[c].mode = entry[c].mode /\ entry'[c].at = entry[c].at
      BY <1>4, <1>6 DEF IInv, ReferencedTypeOK, Copy, Row
    <2>3. SetWork(Jobs, NoWork) /\ UNCHANGED <<bytes, cleanup, origin, destroyed>>
      BY <1>6 DEF Copy, Leaves, history
    <2>4. \A c \in Contents : Referenced(c) => entry[c].at \in Origins BY DEF IInv, RowsFit
    <2> QED BY <1>1, <2>1, <2>2, <2>3, <2>4, NoWorkFits, RowStep DEF IsManaged, Referenced
  <1> QED BY <1>5, <1>6

LEMMA CheckTargetStep ==
    ASSUME IInv, CheckTarget
    PROVE  IInv'
  <1>1. Jobs \in Processes /\ Jobs \notin Requests BY ReferencedAssumption DEF Processes
  <1>2. asked' \subseteq Contents BY DEF IInv, ReferencedTypeOK, CheckTarget, JobFails
  <1>3. work[Jobs] \in Work /\ Fits(Jobs, work[Jobs]) /\ work[Jobs].pc = "checking"
    BY <1>1, Standing DEF CheckTarget, Stands
  <1>4. CASE Leaves(Jobs)
    BY <1>1, <1>2, <1>4, NoWorkFits, LocalStep DEF CheckTarget, Leaves
  <1>5. CASE Steps(Jobs, "renaming")
    <2> DEFINE w == On(work[Jobs], "renaming")
    <2>1. /\ w \in Work /\ w.pc = "renaming" /\ w.file = work[Jobs].file /\ w.from = work[Jobs].from
          /\ w.to = work[Jobs].to /\ w.copied = work[Jobs].copied /\ w.todo = work[Jobs].todo
      BY <1>3, Moved, PointsAre
    <2>2. SetWork(Jobs, w) BY <1>5 DEF Steps, On
    <2> HIDE DEF w
    <2>3. Fits(Jobs, w)
      BY <1>1, <1>3, <2>1 DEF Fits, JobsFit, TransferFits, RemovalFits, Transferring, Removing, Scanning
    <2> QED BY <1>1, <1>2, <2>1, <2>2, <2>3, LocalStep DEF CheckTarget
  <1> QED BY <1>4, <1>5 DEF CheckTarget

\* A removal is over: the job ends, or the retry goes on with its list.
LEMMA WhenRemovalEnds ==
    ASSUME IInv, NEW p \in Processes, work[p].pc \in Removing, RemovalEnds(p)
    PROVE  /\ asked' \subseteq Contents
           /\ \E w \in Work : SetWork(p, w) /\ Fits(p, w) /\ w.pc # "forgetting"
  <1>1. asked' \subseteq Contents BY DEF IInv, ReferencedTypeOK, RemovalEnds, JobEnds
  <1>2. work[p] \in Work /\ Fits(p, work[p]) BY Standing
  <1>3. CASE work[p].todo = {}
    BY <1>1, <1>3, NoWorkFits DEF RemovalEnds, GoesOn
  <1>4. CASE work[p].todo # {}
    <2> DEFINE w == [NoWork EXCEPT !.pc = "retrying", !.todo = work[p].todo]
    <2>1. w \in Work /\ w.pc = "retrying" /\ w.todo = work[p].todo
      BY <1>2 DEF NoWork, Work
    <2>2. SetWork(p, w) BY <1>4 DEF RemovalEnds, GoesOn
    <2> HIDE DEF w
    <2>3. p # Jobs BY <1>2, <1>4 DEF Fits, JobsFit, Scanning, Removing
    <2>4. p \in Requests BY <2>3 DEF Processes
    <2>5. Fits(p, w) BY <1>2, <2>1, <2>3, <2>4 DEF Fits, RequestFits, RemovalFits, Removing
    <2> QED BY <1>1, <2>1, <2>2, <2>5
  <1> QED BY <1>3, <1>4

\* What a removal may do to the list of originals.
LEMMA PendingKept ==
    ASSUME IInv, NEW o \in Origins, NEW c \in Contents, Kept(c), cleanup' \in {cleanup, Pending(o, c)}
    PROVE  /\ cleanup' \in [Origins -> Contents \cup {Nothing}]
           /\ \A x \in Origins : cleanup'[x] # cleanup[x] => cleanup'[x] = Nothing \/ Kept(cleanup'[x])
           /\ \A d \in Contents : origin[d] # NoPlace => cleanup'[origin[d]] = d
  <1>1. cleanup' = cleanup \/ (cleanup[o] = Nothing /\ cleanup' = [cleanup EXCEPT ![o] = c])
    BY DEF Pending
  <1>2. cleanup \in [Origins -> Contents \cup {Nothing}] BY DEF IInv, ReferencedTypeOK
  <1>3. ASSUME NEW d \in Contents, origin[d] # NoPlace PROVE cleanup'[origin[d]] = d
    <2>1. origin[d] \in Origins /\ cleanup[origin[d]] = d BY <1>3 DEF IInv, ReferencedTypeOK, Tracked
    <2>2. d # Nothing BY ReferencedAssumption
    <2> QED BY <1>1, <1>2, <2>1, <2>2
  <1> QED BY <1>1, <1>2, <1>3

\* A removal that ends changes the list, and nothing else that others know of.
LEMMA RemovalEndsStep ==
    ASSUME IInv, NEW p \in Processes, work[p].pc \in Removing, RemovalEnds(p),
           cleanup' \in [Origins -> Contents \cup {Nothing}],
           \A x \in Origins : cleanup'[x] # cleanup[x] => cleanup'[x] = Nothing \/ Kept(cleanup'[x]),
           \A d \in Contents : origin[d] # NoPlace => cleanup'[origin[d]] = d,
           UNCHANGED <<bytes, stamp, entry, authorised, history, bounds>>
    PROVE  IInv'
  <1>1. asked' \subseteq Contents BY WhenRemovalEnds
  <1>2. PICK w \in Work : SetWork(p, w) /\ Fits(p, w) /\ w.pc # "forgetting" BY WhenRemovalEnds
  <1>3. SideTyped' BY <1>1 DEF IInv, ReferencedTypeOK, SideTyped, history, bounds
  <1>4. entry' \in [Contents -> Row] BY DEF IInv, ReferencedTypeOK
  <1>5. \A c \in Contents :
              /\ entry'[c].mode = "managed" <=> IsManaged(c)
              /\ IsManaged(c) => entry'[c].at = entry[c].at
              /\ entry'[c].mode = "referenced" => entry'[c].at \in Origins
    BY DEF IInv, RowsFit, IsManaged, Referenced
  <1> QED BY <1>2, <1>3, <1>4, <1>5, Quiet DEF SetWork, history

\* The process goes on with the removal it is at.
LEMMA RemovalGoesOn ==
    ASSUME IInv, NEW p \in Processes, work[p].pc \in Removing, NEW pc \in Removing,
           Fits(p, work[p])
    PROVE  LET w == On(work[p], pc)
           IN  w \in Work /\ w.pc = pc /\ w.from = work[p].from /\ Fits(p, w)
  <1> DEFINE w == On(work[p], pc)
  <1>1. work[p] \in Work BY Standing
  <1>2. pc \in PC BY DEF Removing, PC
  <1>3. /\ w \in Work /\ w.pc = pc /\ w.file = work[p].file /\ w.from = work[p].from
        /\ w.to = work[p].to /\ w.todo = work[p].todo
    BY <1>1, <1>2, Moved
  <1> HIDE DEF w
  <1>4. w.pc \in Removing BY <1>3
  <1>5. w.pc \notin Transferring \cup Scanning \cup {"storing", "inserting"}
    BY <1>4 DEF Removing, Transferring, Scanning
  <1>6. RemovalFits(w) BY <1>3 DEF Fits, RemovalFits
  <1>7. ASSUME p = Jobs PROVE JobsFit(w)
    BY <1>3, <1>4, <1>5, <1>7 DEF Fits, JobsFit, TransferFits, Removing, Transferring, Scanning
  <1>8. ASSUME p \in Requests PROVE RequestFits(p, w)
    BY <1>3, <1>4, <1>5, <1>8 DEF Fits, RequestFits, Removing
  <1>9. Fits(p, w) BY <1>6, <1>7, <1>8 DEF Fits
  <1> QED BY <1>3, <1>9 DEF w

LEMMA VerifyStep ==
    ASSUME IInv, NEW p \in Processes, Verify(p)
    PROVE  IInv'
  <1> DEFINE o == work[p].from
  <1>1. work[p] \in Work /\ Fits(p, work[p]) /\ work[p].pc = "verifying" /\ work[p].pc \in Removing
    BY Standing DEF Verify, Stands, Removing
  <1>2. o \in Origins /\ work[p].file \in Contents /\ Kept(work[p].file) BY <1>1 DEF Fits, RemovalFits
  <1>3. UNCHANGED <<bytes, stamp, entry, authorised, history, bounds>> BY DEF Verify
  <1>4. asked \subseteq Contents BY DEF IInv, ReferencedTypeOK
  <1>5. CASE ~Present(o) /\ Steps(p, "forgetting") /\ UNCHANGED <<cleanup, asked>>
    <2>1. \A c \in Contents : origin[c] # o
      BY <1>2, <1>5, PlacesManaged, ReferencedAssumption DEF IInv, Tracked, Present
    <2> QED BY <1>1, <1>3, <1>4, <1>5, <2>1, RemovalGoesOn, LocalStep DEF Steps, On, Removing
  <1>6. CASE cleanup' \in {cleanup, Pending(o, work[p].file)} /\ RemovalEnds(p)
    BY <1>1, <1>2, <1>3, <1>6, PendingKept, RemovalEndsStep
  <1>7. CASE Steps(p, "unlinking") /\ UNCHANGED <<cleanup, asked>>
    BY <1>1, <1>3, <1>4, <1>7, RemovalGoesOn, LocalStep DEF Steps, On, Removing
  <1> QED BY <1>5, <1>6, <1>7 DEF Verify

LEMMA ForgetCleanupStep ==
    ASSUME IInv, NEW p \in Processes, ForgetCleanup(p)
    PROVE  IInv'
  <1> DEFINE o == work[p].from
  <1>1. /\ work[p] \in Work /\ Fits(p, work[p]) /\ work[p].pc \in Removing
        /\ \A c \in Contents : origin[c] # o
    BY Standing DEF ForgetCleanup, Stands, Removing
  <1>2. o \in Origins BY <1>1 DEF Fits, RemovalFits
  <1>3. cleanup \in [Origins -> Contents \cup {Nothing}] BY DEF IInv, ReferencedTypeOK
  <1>4. cleanup' = cleanup \/ cleanup' = [cleanup EXCEPT ![o] = Nothing] BY DEF ForgetCleanup, Forgotten
  <1>5. cleanup' \in [Origins -> Contents \cup {Nothing}]
        /\ \A x \in Origins : cleanup'[x] # cleanup[x] => cleanup'[x] = Nothing \/ Kept(cleanup'[x])
    BY <1>2, <1>3, <1>4
  <1>6. ASSUME NEW d \in Contents, origin[d] # NoPlace PROVE cleanup'[origin[d]] = d
    BY <1>1, <1>3, <1>4, <1>6 DEF IInv, ReferencedTypeOK, Tracked
  <1> QED BY <1>1, <1>5, <1>6, RemovalEndsStep DEF ForgetCleanup

LEMMA BeginRetryStep ==
    ASSUME IInv, NEW q \in Requests, BeginRetry(q)
    PROVE  IInv'
  <1> DEFINE todo == {<<o, cleanup[o]>> : o \in {x \in Origins : cleanup[x] # Nothing}}
  <1> DEFINE w == [NoWork EXCEPT !.pc = "retrying", !.todo = todo]
  <1>1. q \in Processes /\ q # Jobs BY ReferencedAssumption DEF Processes
  <1>2. cleanup \in [Origins -> Contents \cup {Nothing}] /\ asked \subseteq Contents BY DEF IInv, ReferencedTypeOK
  <1>3. \A t \in todo : t[2] \in Contents /\ Kept(t[2]) BY <1>2 DEF IInv, CleanupKept
  <1>4. todo \in SUBSET (Origins \X (Contents \cup {Nothing})) BY <1>2
  <1>5. SetWork(q, w) BY DEF BeginRetry
  <1> HIDE DEF todo
  <1>6. w \in Work /\ w.pc = "retrying" /\ w.todo = todo BY <1>4 DEF NoWork, Work
  <1> HIDE DEF w
  <1>7. Fits(q, w) BY <1>1, <1>3, <1>6 DEF Fits, RequestFits, RemovalFits, Removing
  <1> QED BY <1>1, <1>2, <1>5, <1>6, <1>7, LocalStep DEF BeginRetry

LEMMA RetryOneStep ==
    ASSUME IInv, NEW q \in Requests, RetryOne(q)
    PROVE  IInv'
  <1>1. q \in Processes /\ q # Jobs BY ReferencedAssumption DEF Processes
  <1>2. work[q] \in Work /\ Fits(q, work[q]) BY <1>1, Standing
  <1>3. PICK t \in work[q].todo :
            SetWork(q, [NoWork EXCEPT !.pc = "verifying", !.from = t[1], !.file = t[2], !.todo = work[q].todo \ {t}])
    BY DEF RetryOne
  <1> DEFINE w == [NoWork EXCEPT !.pc = "verifying", !.from = t[1], !.file = t[2], !.todo = work[q].todo \ {t}]
  <1>4. \A x \in work[q].todo : x[2] \in Contents /\ Kept(x[2]) BY <1>2 DEF Fits, RequestFits
  <1>5. work[q].todo \in SUBSET (Origins \X (Contents \cup {Nothing})) BY <1>2 DEF Work
  <1>6. t[1] \in Origins /\ t[2] \in Contents /\ Kept(t[2]) BY <1>4, <1>5
  <1>7. w \in Work /\ w.pc = "verifying" /\ w.from = t[1] /\ w.file = t[2] /\ w.todo = work[q].todo \ {t}
    BY <1>5, <1>6 DEF NoWork, Work
  <1>8. SetWork(q, w) BY <1>3
  <1> HIDE DEF w
  <1>9. Fits(q, w) BY <1>1, <1>4, <1>6, <1>7 DEF Fits, RequestFits, RemovalFits, Removing
  <1>10. asked' \subseteq Contents BY DEF IInv, ReferencedTypeOK, RetryOne
  <1> QED BY <1>1, <1>7, <1>8, <1>9, <1>10, LocalStep DEF RetryOne

LEMMA BeginImportStep ==
    ASSUME IInv, NEW q \in Requests, NEW o \in Origins, BeginImport(q, o)
    PROVE  IInv'
  <1> DEFINE c == bytes[o]
  <1> DEFINE w == [NoWork EXCEPT !.pc = "storing", !.file = c, !.from = o, !.to = Upload(q, Converted[c]), !.stamp = stamp[o]]
  <1>1. q \in Processes /\ q # Jobs BY ReferencedAssumption DEF Processes
  <1>2. c \in Contents /\ asked \subseteq Contents /\ stamp[o] \in Nat
    BY PlacesManaged DEF IInv, ReferencedTypeOK, BeginImport, Present
  <1>3. Converted[c] \in Contents /\ entry[Converted[c]].mode = "none" BY <1>2, ReferencedAssumption DEF BeginImport
  <1>4. Upload(q, Converted[c]) \in Managed BY <1>3, PlacesManaged
  <1>5. SetWork(q, w) BY DEF BeginImport
  <1>6. /\ w \in Work /\ w.pc = "storing" /\ w.file = bytes[o] /\ w.from = o
        /\ w.to = Upload(q, Converted[bytes[o]]) /\ w.todo = {}
    BY <1>2, <1>4 DEF NoWork, Work
  <1> HIDE DEF w
  <1>7. Fits(q, w) BY <1>1, <1>2, <1>3, <1>6 DEF Fits, RequestFits, RemovalFits, Removing, IsManaged
  <1> QED BY <1>1, <1>2, <1>5, <1>6, <1>7, LocalStep DEF BeginImport

\* A scan adds what it saw to its list, and nothing more.
LEMMA SeenFits ==
    ASSUME IInv, NEW o \in Origins, work[Jobs].pc = "scanning", Present(o)
    PROVE  LET w == [work[Jobs] EXCEPT !.todo = @ \cup {<<o, bytes[o]>>}]
           IN  w \in Work /\ w.pc = "scanning" /\ Fits(Jobs, w)
  <1> DEFINE seen == work[Jobs].todo \cup {<<o, bytes[o]>>}
  <1> DEFINE w == [work[Jobs] EXCEPT !.todo = seen]
  <1>1. Jobs \in Processes /\ Jobs \notin Requests BY ReferencedAssumption DEF Processes
  <1>2. work[Jobs] \in Work /\ Fits(Jobs, work[Jobs]) BY <1>1, Standing
  <1>3. bytes[o] \in Contents \cup {Nothing} BY PlacesManaged DEF IInv, ReferencedTypeOK
  <1>4. seen \in SUBSET (Origins \X (Contents \cup {Nothing})) BY <1>2, <1>3 DEF Work
  <1> HIDE DEF seen
  <1>5. w \in Work /\ w.pc = "scanning" /\ w.file = work[Jobs].file /\ w.from = work[Jobs].from
    BY <1>2, <1>4 DEF Work
  <1> HIDE DEF w
  <1>6. Fits(Jobs, w) BY <1>1, <1>5 DEF Fits, JobsFit, TransferFits, RemovalFits, Transferring, Removing, Scanning
  <1> QED BY <1>5, <1>6 DEF w, seen

LEMMA BeginScanStep ==
    ASSUME IInv, BeginScan
    PROVE  IInv'
  <1> DEFINE w == On(NoWork, "scanning")
  <1>1. Jobs \in Processes /\ Jobs \notin Requests BY ReferencedAssumption DEF Processes
  <1>2. asked' \subseteq Contents BY DEF IInv, ReferencedTypeOK, BeginScan
  <1>3. w \in Work /\ w.pc = "scanning" BY NoWorkFits, Moved, PointsAre
  <1>4. SetWork(Jobs, w) BY DEF BeginScan, On
  <1> HIDE DEF w
  <1>5. Fits(Jobs, w) BY <1>1, <1>3 DEF Fits, JobsFit, TransferFits, RemovalFits, Transferring, Removing, Scanning
  <1> QED BY <1>1, <1>2, <1>3, <1>4, <1>5, LocalStep DEF BeginScan

LEMMA RecheckStep ==
    ASSUME IInv, NEW o \in Origins, Recheck(o)
    PROVE  IInv'
  <1>1. Jobs \in Processes BY DEF Processes
  <1>2. SideTyped' BY DEF IInv, ReferencedTypeOK, SideTyped, Recheck, history, bounds
  <1>3. PICK c \in CataloguedAt(o) :
          \/ entry' = [entry EXCEPT ![c].state = "conflict"]
          \/ entry' = IF entry[c].state = "missing" THEN [entry EXCEPT ![c].state = "ok"] ELSE entry
    BY DEF Recheck
  <1>4. c \in Contents BY <1>3 DEF CataloguedAt
  <1>5. entry' \in [Contents -> Row] /\ \A d \in Contents : entry'[d].mode = entry[d].mode /\ entry'[d].at = entry[d].at
    BY <1>3, <1>4 DEF IInv, ReferencedTypeOK, Row
  <1>6. \A d \in Contents : Referenced(d) => entry[d].at \in Origins BY DEF IInv, RowsFit
  <1>7. work[Jobs].pc = "scanning" /\ Present(o) /\ SetWork(Jobs, [work[Jobs] EXCEPT !.todo = @ \cup {<<o, bytes[o]>>}])
    BY DEF Recheck, Stands, Seen
  <1> QED BY <1>1, <1>2, <1>5, <1>6, <1>7, SeenFits, RowStep DEF IsManaged, Referenced, Recheck, history

LEMMA HashNewStep ==
    ASSUME IInv, NEW o \in Origins, HashNew(o)
    PROVE  IInv'
  <1>1. Jobs \in Processes /\ Jobs \notin Requests BY ReferencedAssumption DEF Processes
  <1>2. asked' \subseteq Contents BY DEF IInv, ReferencedTypeOK, HashNew
  <1>3. work[Jobs].pc = "scanning" /\ Present(o) BY DEF HashNew, Stands
  <1>4. CASE entry[bytes[o]].mode = "none"
    <2> DEFINE v == [work[Jobs] EXCEPT !.todo = @ \cup {<<o, bytes[o]>>}]
    <2> DEFINE w == [v EXCEPT !.pc = "cataloguing", !.file = bytes[o], !.from = o]
    <2>1. v \in Work /\ v.pc = "scanning" /\ Fits(Jobs, v) BY <1>3, SeenFits
    <2>2. bytes[o] \in Contents BY <1>3, PlacesManaged DEF IInv, ReferencedTypeOK, Present
    <2>3. work[Jobs] \in Work BY <1>1, Standing
    <2>4. SetWork(Jobs, w) BY <1>4, <2>3 DEF HashNew, SetWork, Work
    <2> HIDE DEF v
    <2>5. w \in Work /\ w.pc = "cataloguing" /\ w.file = bytes[o] /\ w.from = o
      BY <2>1, <2>2 DEF Work
    <2> HIDE DEF w
    <2>6. Fits(Jobs, w)
      BY <1>1, <2>2, <2>5 DEF Fits, JobsFit, TransferFits, RemovalFits, Transferring, Removing, Scanning
    <2> QED BY <1>1, <1>2, <2>4, <2>5, <2>6, LocalStep DEF HashNew
  <1>5. CASE entry[bytes[o]].mode # "none"
    BY <1>1, <1>2, <1>3, <1>5, SeenFits, LocalStep DEF HashNew, Seen
  <1> QED BY <1>4, <1>5

LEMMA CatalogueStep ==
    ASSUME IInv, Catalogue
    PROVE  IInv'
  <1> DEFINE c == work[Jobs].file
  <1> DEFINE o == work[Jobs].from
  <1> DEFINE w == [work[Jobs] EXCEPT !.pc = "scanning", !.file = Nothing, !.from = NoPlace]
  <1>1. Jobs \in Processes /\ Jobs \notin Requests BY ReferencedAssumption DEF Processes
  <1>2. work[Jobs] \in Work /\ Fits(Jobs, work[Jobs]) /\ work[Jobs].pc = "cataloguing"
    BY <1>1, Standing DEF Catalogue, Stands
  <1>3. c \in Contents /\ o \in Origins BY <1>1, <1>2 DEF Fits, JobsFit
  <1>4. SideTyped' BY <1>3 DEF IInv, ReferencedTypeOK, SideTyped, Catalogue, bounds
  <1>5. SetWork(Jobs, w) /\ UNCHANGED <<bytes, cleanup, origin, destroyed>> BY DEF Catalogue
  <1>6. w \in Work /\ w.pc = "scanning" BY <1>2 DEF Work
  <1> HIDE DEF w
  <1>7. Fits(Jobs, w) BY <1>1, <1>6 DEF Fits, JobsFit, TransferFits, RemovalFits, Transferring, Removing, Scanning
  <1>8. \/ UNCHANGED entry
        \/ entry[c].mode = "none" /\ entry' = [entry EXCEPT ![c] = [mode |-> "referenced", at |-> o, state |-> "ok"]]
    BY DEF Catalogue
  <1>9. entry' \in [Contents -> Row]
    BY <1>3, <1>8, PlacesManaged DEF IInv, ReferencedTypeOK, Row
  <1>10. \A d \in Contents :
              /\ entry'[d].mode = "managed" <=> IsManaged(d)
              /\ IsManaged(d) => entry'[d].at = entry[d].at
              /\ entry'[d].mode = "referenced" => entry'[d].at \in Origins
    BY <1>3, <1>8 DEF IInv, ReferencedTypeOK, RowsFit, IsManaged, Referenced
  <1> QED BY <1>1, <1>4, <1>5, <1>6, <1>7, <1>9, <1>10, RowStep

LEMMA MarkMissingStep ==
    ASSUME IInv, MarkMissing
    PROVE  IInv'
  <1>1. Jobs \in Processes BY DEF Processes
  <1>2. SideTyped' BY DEF IInv, ReferencedTypeOK, SideTyped, MarkMissing, history, bounds
  <1>3. entry' \in [Contents -> Row] /\ \A d \in Contents : entry'[d].mode = entry[d].mode /\ entry'[d].at = entry[d].at
    BY DEF IInv, ReferencedTypeOK, Row, MarkMissing
  <1>4. \A d \in Contents : Referenced(d) => entry[d].at \in Origins BY DEF IInv, RowsFit
  <1> QED BY <1>1, <1>2, <1>3, <1>4, NoWorkFits, RowStep DEF IsManaged, Referenced, MarkMissing, Leaves, history

\* What people do with the directories and with the catalogue.
LEMMA AdministrationStep ==
    ASSUME IInv, AddRoot \/ RemoveRoot \/ \E c \in Contents : Ask(c) \/ Purge(c)
    PROVE  IInv'
  <1>1. Jobs \in Processes BY DEF Processes
  <1>2. SetWork(Jobs, work[Jobs]) BY <1>1, Standing DEF SetWork, AddRoot, RemoveRoot, Ask, Purge
  <1>3. SideTyped'
    <2>1. CASE AddRoot \/ RemoveRoot
      BY <2>1 DEF IInv, ReferencedTypeOK, SideTyped, AddRoot, RemoveRoot, history, bounds
    <2>2. ASSUME NEW c \in Contents, Ask(c) PROVE SideTyped'
      BY <2>2 DEF IInv, ReferencedTypeOK, SideTyped, Ask, history, bounds
    <2>3. ASSUME NEW c \in Contents, Purge(c) PROVE SideTyped'
      BY <2>3 DEF IInv, ReferencedTypeOK, SideTyped, Purge, history
    <2> QED BY <2>1, <2>2, <2>3
  <1>4. UNCHANGED <<bytes, cleanup, origin, destroyed>> BY DEF AddRoot, RemoveRoot, Ask, Purge, history
  <1>5. UNCHANGED entry \/ \E c \in Contents : Referenced(c) /\ entry' = [entry EXCEPT ![c] = NoRow]
    BY DEF AddRoot, RemoveRoot, Ask, Purge
  <1>6. entry' \in [Contents -> Row] BY <1>5 DEF IInv, ReferencedTypeOK, Row, NoRow
  <1>7. \A d \in Contents :
              /\ entry'[d].mode = "managed" <=> IsManaged(d)
              /\ IsManaged(d) => entry'[d].at = entry[d].at
              /\ entry'[d].mode = "referenced" => entry'[d].at \in Origins
    BY <1>5 DEF IInv, ReferencedTypeOK, RowsFit, IsManaged, Referenced, NoRow
  <1> QED BY <1>1, <1>2, <1>3, <1>4, <1>6, <1>7, Standing, RowStep

LEMMA GivesUpStep ==
    ASSUME IInv, NEW p \in Processes, GivesUp(p)
    PROVE  IInv'
  <1>1. asked' \subseteq Contents BY DEF IInv, ReferencedTypeOK, GivesUp, JobFails
  <1>2. work[p] \in Work /\ Fits(p, work[p]) BY Standing
  <1>3. CASE Leaves(p) BY <1>1, <1>3, NoWorkFits, LocalStep DEF Leaves, GivesUp
  <1>4. CASE Stands(p, "switching") /\ Steps(p, "undoing")
    <2> DEFINE w == On(work[p], "undoing")
    <2>1. /\ w \in Work /\ w.pc = "undoing" /\ w.file = work[p].file /\ w.from = work[p].from
          /\ w.to = work[p].to /\ w.todo = work[p].todo
      BY <1>2, Moved, PointsAre
    <2>2. SetWork(p, w) BY <1>4 DEF Steps, On
    <2> HIDE DEF w
    <2>3. p = Jobs /\ Jobs \notin Requests
      BY <1>2, <1>4, ReferencedAssumption DEF Fits, RequestFits, Processes, Stands, Removing
    <2>4. Fits(p, w)
      BY <1>2, <1>4, <2>1, <2>3
      DEF Fits, JobsFit, TransferFits, RemovalFits, Transferring, Removing, Scanning, Stands
    <2> QED BY <1>1, <2>1, <2>2, <2>4, LocalStep DEF GivesUp
  <1> QED BY <1>3, <1>4 DEF GivesUp

-----------------------------------------------------------------------------
(* The steps that change the bytes, the managed rows or the history. *)

\* The place a process works at is left alone by the steps of the others: the loop's
\* while it has no row, an upload's while the row of its file is elsewhere.
LEMMA OthersFit ==
    ASSUME IInv, NEW p \in Processes, NEW w \in Work, work' = [work EXCEPT ![p] = w], Fits(p, w)',
           \A c \in Contents : Kept(c) => Kept(c)',
           p # Jobs => \A x \in {Layout} \cup {ById(c) : c \in Contents} :
                          ~HasPath(x) => ~HasPath(x)' /\ bytes'[x] = bytes[x],
           p # Jobs => \A c \in Contents : origin'[c] \in {origin[c], NoPlace},
           \A q \in Requests : q # p => \A c \in Contents :
              ~(IsManaged(c) /\ entry[c].at = Upload(q, c)) =>
                  ~(IsManaged(c)' /\ entry'[c].at = Upload(q, c)) /\ bytes'[Upload(q, c)] = bytes[Upload(q, c)]
    PROVE  \A r \in Processes : Fits(r, work[r])'
  <1> SUFFICES ASSUME NEW r \in Processes PROVE Fits(r, work[r])' OBVIOUS
  <1>1. CASE r = p BY <1>1 DEF IInv, ReferencedTypeOK
  <1>2. CASE r # p
    <2>1. PICK v \in Work : v = work[r] /\ work'[r] = v /\ Fits(r, v)
      BY <1>2 DEF IInv, ReferencedTypeOK
    <2>2. r = Jobs /\ v.pc \in Transferring =>
              /\ ~HasPath(v.to)'
              /\ v.pc = "switching" => bytes'[v.to] = bytes[v.to]
              /\ \A c \in Contents : origin'[c] = v.from => origin[c] = v.from
      <3> SUFFICES ASSUME r = Jobs, v.pc \in Transferring
                   PROVE /\ ~HasPath(v.to)'
                         /\ v.pc = "switching" => bytes'[v.to] = bytes[v.to]
                         /\ \A c \in Contents : origin'[c] = v.from => origin[c] = v.from
        OBVIOUS
      <3>1. v.file \in Contents /\ v.from \in Origins /\ v.to \in {Layout, ById(v.file)} /\ ~HasPath(v.to)
        BY <2>1 DEF Fits, JobsFit, TransferFits
      <3>2. v.from # NoPlace BY <3>1, PlacesManaged
      <3>3. v.to \in {Layout} \cup {ById(c) : c \in Contents} BY <3>1
      <3> QED BY <1>2, <3>1, <3>2, <3>3
    <2>3. r \in Requests /\ v.pc \in {"storing", "inserting"} =>
              /\ v.pc = "inserting" => bytes'[v.to] = bytes[v.to]
              /\ IsManaged(Converted[v.file])' /\ entry'[Converted[v.file]].at = v.to =>
                    IsManaged(Converted[v.file]) /\ entry[Converted[v.file]].at = v.to
      <3> SUFFICES ASSUME r \in Requests, v.pc \in {"storing", "inserting"}
                   PROVE  /\ bytes'[v.to] = bytes[v.to]
                          /\ ~(IsManaged(Converted[v.file])' /\ entry'[Converted[v.file]].at = v.to)
        OBVIOUS
      <3>1. /\ v.file \in Contents /\ v.to = Upload(r, Converted[v.file])
            /\ ~(IsManaged(Converted[v.file]) /\ entry[Converted[v.file]].at = v.to)
        BY <2>1 DEF Fits, RequestFits
      <3>2. Converted[v.file] \in Contents BY <3>1, ReferencedAssumption
      <3> QED BY <1>2, <3>1, <3>2
    <2>4. Fits(r, v)' BY <2>1, <2>2, <2>3, FitsOn
    <2> QED BY <2>1, <2>4
  <1> QED BY <1>1, <1>2

\* Nothing is recorded of an original but by the loop, and no removal is left to record.
LEMMA StillTracked ==
    ASSUME IInv, NEW p \in Processes, NEW w \in Work, work' = [work EXCEPT ![p] = w],
           \A o \in Origins : bytes'[o] = bytes[o], UNCHANGED <<cleanup, origin>>, w.pc # "forgetting"
    PROVE  Tracked'
  <1> SUFFICES ASSUME NEW c \in Contents, origin[c] # NoPlace
               PROVE  (cleanup[origin[c]] = c /\ bytes[origin[c]] = c /\ ~RemovalOpen(origin[c]))'
    BY DEF Tracked
  <1>1. (cleanup[origin[c]] = c /\ bytes[origin[c]] = c)' BY DEF IInv, ReferencedTypeOK, Tracked
  <1>2. ~RemovalOpen(origin[c]) BY DEF IInv, Tracked
  <1>3. ~RemovalOpen(origin[c])' BY <1>2 DEF IInv, ReferencedTypeOK, RemovalOpen, Stands
  <1> QED BY <1>1, <1>3

\* A place changes that no managed row is at.
LEMMA RowsStayFit ==
    ASSUME IInv, NEW x \in Everywhere, UNCHANGED entry, NEW b,
           bytes' = [bytes EXCEPT ![x] = b], ~HasPath(x)
    PROVE  RowsFit'
  <1> SUFFICES ASSUME NEW c \in Contents, IsManaged(c) PROVE bytes'[entry[c].at] = c
    BY DEF IInv, RowsFit, IsManaged, Referenced
  <1>1. entry[c].at # x BY DEF HasPath, IsManaged
  <1>2. entry[c].at \in Everywhere /\ bytes[entry[c].at] = c BY ManagedPlace, PlacesManaged DEF IInv
  <1> QED BY <1>1, <1>2 DEF IInv, ReferencedTypeOK

LEMMA PublishStep ==
    ASSUME IInv, Publish
    PROVE  IInv'
  <1>1. Jobs \in Processes /\ Jobs \notin Requests BY ReferencedAssumption DEF Processes
  <1>2. work[Jobs] \in Work /\ Fits(Jobs, work[Jobs]) /\ work[Jobs].pc = "renaming"
    BY <1>1, Standing DEF Publish, Stands
  <1>3. PICK x \in Managed, c \in Contents :
            /\ x = work[Jobs].to /\ x \in {Layout, ById(c)} /\ ~HasPath(x)
            /\ work[Jobs].file = c /\ work[Jobs].copied = c /\ work[Jobs].from \in Origins
    BY <1>1, <1>2, PlacesManaged DEF Fits, JobsFit, TransferFits, Transferring
  <1>4. PICK w \in Work :
            /\ work' = [work EXCEPT ![Jobs] = w]
            /\ w.pc = "switching" /\ w.file = c /\ w.from = work[Jobs].from /\ w.to = x /\ w.todo = work[Jobs].todo
    <2> DEFINE v == [work[Jobs] EXCEPT !.pc = "switching", !.copied = Nothing]
    <2>1. v \in Work /\ v.pc = "switching" /\ v.file = c /\ v.from = work[Jobs].from /\ v.to = x /\ v.todo = work[Jobs].todo
      BY <1>2, <1>3 DEF Work
    <2>2. work' = [work EXCEPT ![Jobs] = v] BY DEF Publish, SetWork
    <2> QED BY <2>1, <2>2
  <1>5. bytes' = [bytes EXCEPT ![x] = c] /\ x \in Everywhere /\ x \notin Origins BY <1>3, PlacesManaged DEF Publish
  <1>6. ReferencedTypeOK' BY <1>1, <1>4, <1>5 DEF IInv, ReferencedTypeOK, Publish, history, bounds
  <1>7. UNCHANGED <<entry, cleanup, origin, destroyed>> BY DEF Publish, history
  <1>8. RowsFit' BY <1>3, <1>5, <1>7, RowsStayFit
  <1>9. \A d \in Contents : Kept(d) => Kept(d)' BY <1>7, KeptStays DEF IsManaged
  <1>10. CleanupKept' BY <1>7, <1>9 DEF IInv, CleanupKept, ReferencedTypeOK
  <1>11. Tracked'
    <2>1. \A o \in Origins : bytes'[o] = bytes[o] BY <1>5, PlacesManaged DEF IInv, ReferencedTypeOK
    <2> QED BY <1>1, <1>4, <1>7, <2>1, StillTracked
  <1>12. Fits(Jobs, w)'
    <2>1. ~HasPath(x)' BY <1>3, <1>7 DEF HasPath
    <2>2. bytes'[x] = c BY <1>5 DEF IInv, ReferencedTypeOK
    <2>3. TransferFits(w)'
      BY <1>1, <1>2, <1>3, <1>4, <1>7, <2>1, <2>2 DEF Fits, JobsFit, TransferFits, Transferring
    <2>4. JobsFit(w)' BY <1>1, <1>2, <1>4, <2>3 DEF Fits, JobsFit, Transferring, Scanning
    <2> QED BY <1>1, <1>4, <2>4 DEF Fits, RemovalFits, Removing
  <1>13. \A r \in Processes : Fits(r, work[r])'
    <2>1. \A q \in Requests : \A d \in Contents : Upload(q, d) # x /\ Upload(q, d) \in Everywhere
      BY <1>3, PlacesApart, PlacesManaged
    <2>2. \A q \in Requests : \A d \in Contents : bytes'[Upload(q, d)] = bytes[Upload(q, d)]
      BY <1>5, <2>1 DEF IInv, ReferencedTypeOK
    <2> QED BY <1>1, <1>4, <1>7, <1>9, <1>12, <2>2, OthersFit DEF IsManaged
  <1> QED BY <1>6, <1>8, <1>10, <1>11, <1>13 DEF IInv

LEMMA SwitchStep ==
    ASSUME IInv, Switch
    PROVE  IInv'
  <1>1. Jobs \in Processes /\ Jobs \notin Requests BY ReferencedAssumption DEF Processes
  <1>2. work[Jobs] \in Work /\ Fits(Jobs, work[Jobs]) /\ work[Jobs].pc = "switching"
    BY <1>1, Standing DEF Switch, Stands
  <1>3. PICK c \in Contents, o \in Origins, x \in Managed :
            /\ work[Jobs].file = c /\ work[Jobs].from = o /\ work[Jobs].to = x
            /\ x \in {Layout, ById(c)} /\ bytes[x] = c
            /\ \A d \in Contents : origin[d] = o => d = c
    BY <1>1, <1>2, PlacesManaged DEF Fits, JobsFit, TransferFits, Transferring
  <1>4. o \in Everywhere /\ o # NoPlace /\ x \in Everywhere BY PlacesManaged
  <1>5. CASE Referenced(c) /\ ~HasPath(x)
    <2>1. entry' = [entry EXCEPT ![c] = [mode |-> "managed", at |-> x, state |-> "ok"]]
      BY <1>3, <1>5 DEF Switch
    <2>2. cleanup' = [cleanup EXCEPT ![o] = c] /\ UNCHANGED <<bytes, destroyed>>
      BY <1>3, <1>5 DEF Switch, Listed
    <2>3. origin' = [origin EXCEPT ![c] = IF bytes[o] = c /\ ~RemovalOpen(o) THEN o ELSE NoPlace]
      BY <1>3, <1>5 DEF Switch
    <2>4. PICK w \in Work :
              /\ work' = [work EXCEPT ![Jobs] = w] /\ w.pc = "verifying"
              /\ w.file = c /\ w.from = o /\ w.todo = work[Jobs].todo
      <3> DEFINE v == On(work[Jobs], "verifying")
      <3>1. v \in Work /\ v.pc = "verifying" /\ v.file = c /\ v.from = o /\ v.todo = work[Jobs].todo
        BY <1>2, <1>3, Moved, PointsAre
      <3>2. work' = [work EXCEPT ![Jobs] = v] BY <1>3, <1>5 DEF Switch, Steps, On, SetWork
      <3> QED BY <3>1, <3>2
    <2>5. entry' \in [Contents -> Row] /\ entry'[c].mode = "managed" /\ entry'[c].at = x
          /\ \A d \in Contents \ {c} : entry'[d] = entry[d]
      BY <1>4, <2>1 DEF IInv, ReferencedTypeOK, Row
    <2>6. ReferencedTypeOK'
      <3>1. work' \in [Processes -> Work] /\ cleanup' \in [Origins -> Contents \cup {Nothing}]
            /\ origin' \in [Contents -> Origins \cup {NoPlace}]
        BY <1>1, <2>2, <2>3, <2>4 DEF IInv, ReferencedTypeOK
      <3> QED BY <2>2, <2>5, <3>1 DEF IInv, ReferencedTypeOK, Switch, bounds
    <2>7. RowsFit'
      <3> SUFFICES ASSUME NEW d \in Contents
                   PROVE  /\ entry'[d].mode = "managed" =>
                              /\ entry'[d].at \in {Layout} \cup {ById(e) : e \in Contents} \cup {Upload(q, d) : q \in Requests}
                              /\ bytes'[entry'[d].at] = d
                          /\ entry'[d].mode = "referenced" => entry'[d].at \in Origins
        BY DEF RowsFit, IsManaged, Referenced
      <3>1. CASE d = c BY <1>3, <2>2, <2>5, <3>1
      <3>2. CASE d # c BY <2>2, <2>5, <3>2 DEF IInv, RowsFit, IsManaged, Referenced
      <3> QED BY <3>1, <3>2
    <2>8. \A d \in Contents : Kept(d) => Kept(d)'
      BY <2>2, <2>5, KeptStays DEF IsManaged
    <2>9. Kept(c)' BY <2>5 DEF Kept, IsManaged
    <2>10. CleanupKept' BY <2>2, <2>8, <2>9 DEF IInv, CleanupKept, ReferencedTypeOK
    <2>11. Tracked'
      <3> SUFFICES ASSUME NEW d \in Contents, NEW y, y = origin'[d], y # NoPlace
                   PROVE  (cleanup[y] = d /\ bytes[y] = d /\ ~RemovalOpen(y))'
        BY DEF Tracked
      <3>1. \A p \in Processes : work'[p].pc = "forgetting" => work[p].pc = "forgetting" /\ work[p] = work'[p]
        BY <1>1, <2>4 DEF IInv, ReferencedTypeOK
      <3>2. ~RemovalOpen(y) => ~RemovalOpen(y)' BY <3>1 DEF RemovalOpen, Stands
      <3>3. CASE d = c
        <4>1. y = o /\ bytes[o] = c /\ ~RemovalOpen(o) BY <2>3, <3>3 DEF IInv, ReferencedTypeOK
        <4> QED BY <2>2, <3>2, <3>3, <4>1 DEF IInv, ReferencedTypeOK
      <3>4. CASE d # c
        <4>1. y = origin[d] /\ y # o /\ y \in Origins BY <1>3, <2>3, <3>4 DEF IInv, ReferencedTypeOK
        <4>2. cleanup[y] = d /\ bytes[y] = d /\ ~RemovalOpen(y) BY <4>1 DEF IInv, Tracked
        <4> QED BY <2>2, <3>2, <4>1, <4>2 DEF IInv, ReferencedTypeOK
      <3> QED BY <3>3, <3>4
    <2>12. Fits(Jobs, w)'
      <3>1. RemovalFits(w)' BY <1>3, <2>4, <2>9 DEF RemovalFits
      <3>2. JobsFit(w)'
        BY <1>1, <1>2, <2>4 DEF Fits, JobsFit, TransferFits, Transferring, Removing, Scanning
      <3> QED BY <1>1, <3>1, <3>2 DEF Fits
    <2>13. \A r \in Processes : Fits(r, work[r])'
      <3>1. \A q \in Requests : \A d \in Contents :
              ~(IsManaged(d) /\ entry[d].at = Upload(q, d)) =>
                  ~(IsManaged(d)' /\ entry'[d].at = Upload(q, d)) /\ bytes'[Upload(q, d)] = bytes[Upload(q, d)]
        BY <1>3, <2>2, <2>5, PlacesApart DEF IsManaged
      <3> QED BY <1>1, <2>4, <2>8, <2>12, <3>1, OthersFit
    <2> QED BY <2>6, <2>7, <2>10, <2>11, <2>13 DEF IInv
  <1>6. CASE ~(Referenced(c) /\ ~HasPath(x))
    <2>1. Steps(Jobs, "undoing") /\ asked' \subseteq Contents
          /\ UNCHANGED <<bytes, stamp, entry, cleanup, authorised, history, bounds>>
      BY <1>3, <1>6 DEF Switch, IInv, ReferencedTypeOK, history
    <2> DEFINE w == On(work[Jobs], "undoing")
    <2>2. /\ w \in Work /\ w.pc = "undoing" /\ w.file = work[Jobs].file /\ w.from = work[Jobs].from
          /\ w.to = work[Jobs].to /\ w.todo = work[Jobs].todo
      BY <1>2, Moved, PointsAre
    <2>3. SetWork(Jobs, w) BY <2>1 DEF Steps, On
    <2> HIDE DEF w
    <2>4. Fits(Jobs, w)
      BY <1>1, <1>2, <2>2 DEF Fits, JobsFit, TransferFits, RemovalFits, Transferring, Removing, Scanning
    <2> QED BY <1>1, <2>1, <2>2, <2>3, <2>4, LocalStep
  <1> QED BY <1>5, <1>6

LEMMA UndoStep ==
    ASSUME IInv, Undo
    PROVE  IInv'
  <1>1. Jobs \in Processes /\ Jobs \notin Requests BY ReferencedAssumption DEF Processes
  <1>2. work[Jobs] \in Work /\ Fits(Jobs, work[Jobs]) /\ work[Jobs].pc = "undoing"
    BY <1>1, Standing DEF Undo, Stands
  <1>3. PICK x \in Managed, c \in Contents : x = work[Jobs].to /\ x \in {Layout, ById(c)} /\ ~HasPath(x)
    BY <1>1, <1>2, PlacesManaged DEF Fits, JobsFit, TransferFits, Transferring
  <1>4. PICK w \in Work : w = NoWork /\ work' = [work EXCEPT ![Jobs] = w] /\ w.pc = "idle" /\ w.todo = {}
    BY NoWorkFits DEF Undo, Leaves, SetWork
  <1>5. x \in Everywhere /\ x \notin Origins BY PlacesManaged
  <1>6. bytes' = [bytes EXCEPT ![x] = bytes[x]] \/ bytes' = [bytes EXCEPT ![x] = Nothing]
    BY <1>3, <1>5 DEF Undo, IInv, ReferencedTypeOK
  <1>7. asked' \subseteq Contents BY DEF Undo, JobFails, IInv, ReferencedTypeOK
  <1>8. bytes' \in [Everywhere -> Contents \cup {Nothing}]
    BY <1>5, <1>6 DEF IInv, ReferencedTypeOK
  <1>9. ReferencedTypeOK' BY <1>1, <1>4, <1>7, <1>8 DEF IInv, ReferencedTypeOK, Undo, history, bounds
  <1>10. UNCHANGED <<entry, cleanup, origin, destroyed>> BY DEF Undo, history
  <1>11. RowsFit' BY <1>3, <1>5, <1>6, <1>10, RowsStayFit
  <1>12. \A d \in Contents : Kept(d) => Kept(d)' BY <1>10, KeptStays DEF IsManaged
  <1>13. CleanupKept' BY <1>10, <1>12 DEF IInv, CleanupKept, ReferencedTypeOK
  <1>14. Tracked'
    <2>1. \A o \in Origins : bytes'[o] = bytes[o] BY <1>5, <1>6, PlacesManaged DEF IInv, ReferencedTypeOK
    <2> QED BY <1>1, <1>4, <1>10, <2>1, StillTracked
  <1>15. Fits(Jobs, w)'
    BY <1>1, <1>4 DEF Fits, JobsFit, TransferFits, RemovalFits, Transferring, Removing
  <1>16. \A r \in Processes : Fits(r, work[r])'
    <2>1. \A q \in Requests : \A d \in Contents : Upload(q, d) # x /\ Upload(q, d) \in Everywhere
      BY <1>3, PlacesApart, PlacesManaged
    <2>2. \A q \in Requests : \A d \in Contents : bytes'[Upload(q, d)] = bytes[Upload(q, d)]
      BY <1>6, <2>1 DEF IInv, ReferencedTypeOK
    <2> QED BY <1>1, <1>4, <1>10, <1>12, <1>15, <2>2, OthersFit DEF IsManaged
  <1> QED BY <1>9, <1>11, <1>13, <1>14, <1>16 DEF IInv

LEMMA UnlinkStep ==
    ASSUME IInv, NEW p \in Processes, Unlink(p)
    PROVE  IInv'
  <1>1. work[p] \in Work /\ Fits(p, work[p]) /\ work[p].pc \in Removing
    BY Standing DEF Unlink, Stands, Removing
  <1>2. PICK o \in Origins : o = work[p].from /\ work[p].file \in Contents /\ Kept(work[p].file)
    BY <1>1 DEF Fits, RemovalFits
  <1>3. CASE cleanup' \in {cleanup, Pending(o, work[p].file)} /\ RemovalEnds(p) /\ UNCHANGED <<bytes, origin>>
    BY <1>1, <1>2, <1>3, PendingKept, RemovalEndsStep DEF Unlink, history
  <1>4. CASE /\ bytes' = [bytes EXCEPT ![o] = Nothing]
             /\ origin' = [c \in Contents |-> IF origin[c] = o THEN NoPlace ELSE origin[c]]
             /\ Steps(p, "forgetting")
             /\ UNCHANGED <<cleanup, asked>>
    <2>1. PICK w \in Work : /\ work' = [work EXCEPT ![p] = w]
                            /\ w = On(work[p], "forgetting") /\ w.from = o /\ Fits(p, w)
      BY <1>1, <1>2, <1>4, RemovalGoesOn DEF Steps, On, SetWork, Removing
    <2>2. o \in Everywhere /\ o \notin Managed /\ o # NoPlace BY PlacesManaged
    <2>3. ReferencedTypeOK'
      <3>1. bytes' \in [Everywhere -> Contents \cup {Nothing}] /\ work' \in [Processes -> Work]
            /\ origin' \in [Contents -> Origins \cup {NoPlace}]
        BY <1>4, <2>1, <2>2 DEF IInv, ReferencedTypeOK
      <3> QED BY <1>4, <3>1 DEF IInv, ReferencedTypeOK, Unlink, bounds
    <2>4. UNCHANGED <<entry, cleanup, destroyed>> BY <1>4 DEF Unlink
    <2>5. \A x \in Managed : bytes'[x] = bytes[x] BY <1>4, <2>2, PlacesManaged DEF IInv, ReferencedTypeOK
    <2>6. RowsFit'
      <3>1. ASSUME NEW c \in Contents, IsManaged(c) PROVE bytes'[entry[c].at] = c
        BY <2>5, <3>1, ManagedPlace DEF IInv
      <3> QED BY <2>4, <3>1 DEF IInv, RowsFit, IsManaged, Referenced
    <2>7. \A d \in Contents : Kept(d) => Kept(d)' BY <2>4, KeptStays DEF IsManaged
    <2>8. CleanupKept' BY <2>4, <2>7 DEF IInv, CleanupKept, ReferencedTypeOK
    <2>9. Tracked'
      <3> SUFFICES ASSUME NEW d \in Contents, NEW y, y = origin'[d], y # NoPlace
                   PROVE  (cleanup[y] = d /\ bytes[y] = d /\ ~RemovalOpen(y))'
        BY DEF Tracked
      <3>1. y = origin[d] /\ y # o /\ y \in Origins BY <1>4 DEF IInv, ReferencedTypeOK
      <3>2. cleanup[y] = d /\ bytes[y] = d /\ ~RemovalOpen(y) BY <3>1 DEF IInv, Tracked
      <3>3. ~RemovalOpen(y)' BY <2>1, <3>1, <3>2 DEF IInv, ReferencedTypeOK, RemovalOpen, Stands
      <3>4. bytes'[y] = bytes[y] BY <1>4, <3>1, PlacesManaged DEF IInv, ReferencedTypeOK
      <3> QED BY <2>4, <3>2, <3>3, <3>4
    <2>10. Fits(p, w)'
      <3>1. w.pc = "forgetting" BY <1>1, <2>1, Moved, PointsAre
      <3>2. \A c \in Contents : origin'[c] = w.from => origin[c] = w.from
        BY <1>4, <2>1, <2>2 DEF IInv, ReferencedTypeOK
      <3> QED BY <2>1, <2>7, <3>1, <3>2, FitsOn DEF Transferring
    <2>11. \A r \in Processes : Fits(r, work[r])'
      <3>1. \A x \in {Layout} \cup {ById(c) : c \in Contents} : x \in Managed BY PlacesManaged
      <3>2. \A x \in Managed : ~HasPath(x) => ~HasPath(x)' BY <2>4 DEF HasPath
      <3>3. \A c \in Contents : origin'[c] \in {origin[c], NoPlace} BY <1>4
      <3> QED BY <2>1, <2>4, <2>5, <2>7, <2>10, <3>1, <3>2, <3>3, PlacesManaged, OthersFit DEF IsManaged
    <2> QED BY <2>3, <2>6, <2>8, <2>9, <2>11 DEF IInv
  <1> QED BY <1>2, <1>3, <1>4 DEF Unlink

LEMMA ChangeStep ==
    ASSUME IInv, NEW o \in Origins, NEW b \in Contents \cup {Nothing}, Change(o, b)
    PROVE  IInv'
  <1>1. Jobs \in Processes /\ Jobs \notin Requests BY ReferencedAssumption DEF Processes
  <1>2. /\ bytes' = [bytes EXCEPT ![o] = b] /\ stamp' = [stamp EXCEPT ![o] = changes + 2]
        /\ origin' = [d \in Contents |-> IF origin[d] = o THEN NoPlace ELSE origin[d]]
        /\ UNCHANGED <<entry, cleanup, work, destroyed>>
    BY DEF Change
  <1>3. o \in Everywhere /\ o \notin Managed /\ o # NoPlace BY PlacesManaged
  <1>4. ReferencedTypeOK'
    <2>1. bytes' \in [Everywhere -> Contents \cup {Nothing}] /\ stamp' \in [Origins -> Nat]
          /\ origin' \in [Contents -> Origins \cup {NoPlace}]
      BY <1>2, <1>3 DEF IInv, ReferencedTypeOK
    <2> QED BY <1>2, <2>1 DEF IInv, ReferencedTypeOK, Change
  <1>5. \A x \in Managed : bytes'[x] = bytes[x] BY <1>2, <1>3, PlacesManaged DEF IInv, ReferencedTypeOK
  <1>6. RowsFit'
    <2>1. ASSUME NEW c \in Contents, IsManaged(c) PROVE bytes'[entry[c].at] = c
      BY <1>5, <2>1, ManagedPlace DEF IInv
    <2> QED BY <1>2, <2>1 DEF IInv, RowsFit, IsManaged, Referenced
  <1>7. \A d \in Contents : Kept(d) => Kept(d)' BY <1>2, KeptStays DEF IsManaged
  <1>8. CleanupKept' BY <1>2, <1>7 DEF IInv, CleanupKept, ReferencedTypeOK
  <1>9. Tracked'
    <2> SUFFICES ASSUME NEW d \in Contents, NEW y, y = origin'[d], y # NoPlace
                 PROVE  (cleanup[y] = d /\ bytes[y] = d /\ ~RemovalOpen(y))'
      BY DEF Tracked
    <2>1. y = origin[d] /\ y # o /\ y \in Origins BY <1>2 DEF IInv, ReferencedTypeOK
    <2>2. cleanup[y] = d /\ bytes[y] = d /\ ~RemovalOpen(y) BY <2>1 DEF IInv, Tracked
    <2>3. bytes'[y] = bytes[y] BY <1>2, <2>1, PlacesManaged DEF IInv, ReferencedTypeOK
    <2> QED BY <1>2, <2>2, <2>3 DEF RemovalOpen, Stands
  <1>10. ASSUME NEW r \in Processes PROVE Fits(r, work[r])'
    <2>1. PICK v \in Work : v = work[r] /\ v = work'[r] /\ Fits(r, v)
      BY <1>2 DEF IInv, ReferencedTypeOK
    <2>2. r = Jobs /\ v.pc \in Transferring => v.from \in Origins /\ v.to \in Managed /\ ~HasPath(v.to)
      BY <2>1, PlacesManaged DEF Fits, JobsFit, TransferFits
    <2>3. r = Jobs /\ v.pc \in Transferring =>
              /\ ~HasPath(v.to)'
              /\ v.pc = "switching" => bytes'[v.to] = bytes[v.to]
              /\ \A c \in Contents : origin'[c] = v.from => origin[c] = v.from
      BY <1>2, <1>5, <2>2, PlacesManaged DEF HasPath
    <2>4. r \in Requests /\ v.pc \in {"storing", "inserting"} => v.to \in Managed
      BY <2>1, ReferencedAssumption, PlacesManaged DEF Fits, RequestFits
    <2>5. Fits(r, v)' BY <1>2, <1>5, <1>7, <2>1, <2>3, <2>4, FitsOn DEF IsManaged
    <2> QED BY <2>1, <2>5
  <1> QED BY <1>4, <1>6, <1>8, <1>9, <1>10 DEF IInv

LEMMA RestartStep ==
    ASSUME IInv, Restart
    PROVE  IInv'
  <1>1. work' = [p \in Processes |-> NoWork] /\ UNCHANGED <<bytes, stamp, entry, cleanup, origin, destroyed>>
    BY DEF Restart, history
  <1>2. ReferencedTypeOK'
    <2>1. work' \in [Processes -> Work] BY <1>1, NoWorkFits
    <2> QED BY <1>1, <2>1 DEF IInv, ReferencedTypeOK, Restart, history
  <1>3. RowsFit' BY <1>1 DEF IInv, RowsFit, IsManaged, Referenced
  <1>4. CleanupKept' BY <1>1 DEF IInv, CleanupKept, Kept, IsManaged
  <1>5. Tracked' BY <1>1, NoWorkFits DEF IInv, Tracked, RemovalOpen, Stands
  <1>6. ASSUME NEW r \in Processes PROVE Fits(r, work[r])'
    <2>1. PICK v : v = NoWork /\ v = work'[r] /\ v.pc = "idle" /\ v.todo = {} BY <1>1, NoWorkFits
    <2>2. Fits(r, v)'
      BY <2>1 DEF Fits, JobsFit, TransferFits, RequestFits, RemovalFits, Transferring, Removing
    <2> QED BY <2>1, <2>2
  <1> QED BY <1>2, <1>3, <1>4, <1>5, <1>6 DEF IInv

\* The name an import stores under has no row.
LEMMA UploadFree ==
    ASSUME IInv, NEW q \in Requests, work[q].pc \in {"storing", "inserting"}
    PROVE  /\ work[q] \in Work /\ Fits(q, work[q])
           /\ \E c \in Contents :
                /\ c = Converted[work[q].file] /\ work[q].file \in Contents /\ work[q].from \in Origins
                /\ work[q].to = Upload(q, c) /\ Upload(q, c) \in Everywhere /\ Upload(q, c) \notin Origins
                /\ ~HasPath(Upload(q, c))
                /\ work[q].pc = "inserting" => bytes[Upload(q, c)] = c
  <1>1. q \in Processes BY DEF Processes
  <1>2. work[q] \in Work /\ Fits(q, work[q]) BY <1>1, Standing
  <1>3. PICK c \in Contents : /\ c = Converted[work[q].file] /\ work[q].file \in Contents /\ work[q].from \in Origins
                              /\ work[q].to = Upload(q, c) /\ ~(IsManaged(c) /\ entry[c].at = Upload(q, c))
                              /\ work[q].pc = "inserting" => bytes[Upload(q, c)] = c
    BY <1>2, ReferencedAssumption DEF Fits, RequestFits
  <1>4. Upload(q, c) \in Everywhere /\ Upload(q, c) \notin Origins BY PlacesManaged
  <1>5. ASSUME NEW d \in Contents, IsManaged(d), entry[d].at = Upload(q, c) PROVE FALSE
    <2>1. Upload(q, c) \in {Layout} \cup {ById(e) : e \in Contents} \cup {Upload(r, d) : r \in Requests}
      BY <1>5 DEF IInv, RowsFit
    <2>2. d = c BY <2>1, PlacesApart
    <2> QED BY <1>3, <1>5, <2>2
  <1>6. ~HasPath(Upload(q, c)) BY <1>5 DEF HasPath, IsManaged
  <1> QED BY <1>2, <1>3, <1>4, <1>6

\* What lies at the name of an upload, and what the import does, is its own affair.
LEMMA UploadBytes ==
    ASSUME IInv, NEW q \in Requests, NEW c \in Contents, NEW b \in Contents \cup {Nothing}, NEW w \in Work,
           work' = [work EXCEPT ![q] = w], w.pc # "forgetting", Fits(q, w)',
           bytes' = [bytes EXCEPT ![Upload(q, c)] = b], ~HasPath(Upload(q, c)),
           UNCHANGED <<stamp, entry, cleanup, authorised, asked, history, bounds>>
    PROVE  IInv'
  <1>1. q \in Processes /\ q # Jobs BY ReferencedAssumption DEF Processes
  <1>2. Upload(q, c) \in Everywhere /\ Upload(q, c) \notin Origins BY PlacesManaged
  <1>3. bytes' \in [Everywhere -> Contents \cup {Nothing}] /\ work' \in [Processes -> Work]
    BY <1>1, <1>2 DEF IInv, ReferencedTypeOK
  <1>4. ReferencedTypeOK' BY <1>3 DEF IInv, ReferencedTypeOK, history, bounds
  <1>5. RowsFit' BY <1>2, RowsStayFit
  <1>6. UNCHANGED <<entry, cleanup, origin, destroyed>> BY DEF history
  <1>7. \A d \in Contents : Kept(d) => Kept(d)' BY <1>6, KeptStays DEF IsManaged
  <1>8. CleanupKept' BY <1>6, <1>7 DEF IInv, CleanupKept, ReferencedTypeOK
  <1>9. Tracked'
    <2>1. \A o \in Origins : bytes'[o] = bytes[o] BY <1>2, PlacesManaged DEF IInv, ReferencedTypeOK
    <2> QED BY <1>1, <1>6, <2>1, StillTracked
  <1>10. \A x \in {Layout} \cup {ById(d) : d \in Contents} : ~HasPath(x) => ~HasPath(x)' /\ bytes'[x] = bytes[x]
    <2> SUFFICES ASSUME NEW x \in {Layout} \cup {ById(d) : d \in Contents}, ~HasPath(x)
                 PROVE  ~HasPath(x)' /\ bytes'[x] = bytes[x]
      OBVIOUS
    <2>1. x # Upload(q, c) /\ x \in Everywhere BY PlacesApart, PlacesManaged
    <2> QED BY <1>6, <2>1 DEF IInv, ReferencedTypeOK, HasPath
  <1>11. \A r \in Requests : r # q => \A d \in Contents : bytes'[Upload(r, d)] = bytes[Upload(r, d)]
    <2> SUFFICES ASSUME NEW r \in Requests, r # q, NEW d \in Contents PROVE bytes'[Upload(r, d)] = bytes[Upload(r, d)]
      OBVIOUS
    <2>1. Upload(r, d) # Upload(q, c) /\ Upload(r, d) \in Everywhere BY PlacesApart, PlacesManaged
    <2> QED BY <2>1 DEF IInv, ReferencedTypeOK
  <1>12. \A r \in Processes : Fits(r, work[r])'
    BY <1>1, <1>6, <1>7, <1>10, <1>11, OthersFit DEF IsManaged
  <1> QED BY <1>4, <1>5, <1>8, <1>9, <1>12 DEF IInv

LEMMA StoreUploadStep ==
    ASSUME IInv, NEW q \in Requests, StoreUpload(q)
    PROVE  IInv'
  <1>1. q \in Processes /\ q # Jobs /\ work[q].pc = "storing"
    BY ReferencedAssumption DEF Processes, StoreUpload, Stands
  <1>2. work[q] \in Work /\ Fits(q, work[q]) BY <1>1, UploadFree
  <1>3. PICK c \in Contents :
            /\ c = Converted[work[q].file] /\ work[q].file \in Contents /\ work[q].from \in Origins
            /\ work[q].to = Upload(q, c) /\ Upload(q, c) \in Everywhere /\ ~HasPath(Upload(q, c))
    BY <1>1, UploadFree
  <1>4. PICK w \in Work :
            /\ work' = [work EXCEPT ![q] = w] /\ w.pc = "inserting" /\ w.file = work[q].file
            /\ w.from = work[q].from /\ w.to = work[q].to /\ w.todo = work[q].todo
    <2> DEFINE v == On(work[q], "inserting")
    <2>1. /\ v \in Work /\ v.pc = "inserting" /\ v.file = work[q].file
          /\ v.from = work[q].from /\ v.to = work[q].to /\ v.todo = work[q].todo
      BY <1>2, Moved, PointsAre
    <2>2. work' = [work EXCEPT ![q] = v] BY DEF StoreUpload, Steps, On, SetWork
    <2> QED BY <2>1, <2>2
  <1>5. bytes' = [bytes EXCEPT ![Upload(q, c)] = c] BY <1>3 DEF StoreUpload
  <1>6. UNCHANGED <<stamp, entry, cleanup, authorised, asked, history, bounds>> BY DEF StoreUpload
  <1>7. Fits(q, w)'
    <2>1. bytes'[Upload(q, c)] = c BY <1>3, <1>5 DEF IInv, ReferencedTypeOK
    <2>2. ~(IsManaged(c)' /\ entry'[c].at = Upload(q, c)) BY <1>3, <1>6 DEF HasPath, IsManaged
    <2>3. \A d \in Contents : Kept(d) => Kept(d)' BY <1>6, KeptStays DEF IsManaged, history
    <2>4. RequestFits(q, w)'
      BY <1>1, <1>2, <1>3, <1>4, <2>1, <2>2, <2>3 DEF Fits, RequestFits
    <2> QED BY <1>1, <1>4, <2>4 DEF Fits, RemovalFits, Removing
  <1> QED BY <1>3, <1>4, <1>5, <1>6, <1>7, UploadBytes

LEMMA InsertUploadStep ==
    ASSUME IInv, NEW q \in Requests, InsertUpload(q)
    PROVE  IInv'
  <1>1. q \in Processes /\ q # Jobs /\ work[q].pc = "inserting"
    BY ReferencedAssumption DEF Processes, InsertUpload, Stands
  <1>2. work[q] \in Work /\ Fits(q, work[q]) BY <1>1, UploadFree
  <1>3. PICK c \in Contents :
            /\ c = Converted[work[q].file] /\ work[q].file \in Contents /\ work[q].from \in Origins
            /\ work[q].to = Upload(q, c) /\ Upload(q, c) \in Everywhere /\ ~HasPath(Upload(q, c))
            /\ bytes[Upload(q, c)] = c
    BY <1>1, UploadFree
  <1>4. UNCHANGED <<stamp, cleanup, authorised, asked, history, bounds>> BY DEF InsertUpload
  <1>5. CASE bytes' = [bytes EXCEPT ![work[q].to] = Nothing] /\ Leaves(q) /\ UNCHANGED entry
    <2>1. PICK w \in Work : w = NoWork /\ work' = [work EXCEPT ![q] = w] /\ w.pc = "idle" /\ w.todo = {}
      BY <1>5, NoWorkFits DEF Leaves, SetWork
    <2>2. Fits(q, w)' BY <1>1, <2>1 DEF Fits, RequestFits, RemovalFits, Removing
    <2>3. bytes' = [bytes EXCEPT ![Upload(q, c)] = Nothing] BY <1>3, <1>5
    <2> QED BY <1>3, <1>4, <1>5, <2>1, <2>2, <2>3, UploadBytes
  <1>6. CASE /\ entry[c].mode = "none"
             /\ entry' = [entry EXCEPT ![c] = [mode |-> "managed", at |-> work[q].to, state |-> "ok"]]
             /\ Steps(q, "verifying") /\ UNCHANGED bytes
    <2>1. PICK w \in Work :
              /\ work' = [work EXCEPT ![q] = w] /\ w.pc = "verifying" /\ w.file = work[q].file
              /\ w.from = work[q].from /\ w.todo = work[q].todo
      <3> DEFINE v == On(work[q], "verifying")
      <3>1. v \in Work /\ v.pc = "verifying" /\ v.file = work[q].file /\ v.from = work[q].from /\ v.todo = work[q].todo
        BY <1>2, Moved, PointsAre
      <3>2. work' = [work EXCEPT ![q] = v] BY <1>6 DEF Steps, On, SetWork
      <3> QED BY <3>1, <3>2
    <2>2. /\ entry' \in [Contents -> Row] /\ entry'[c].mode = "managed" /\ entry'[c].at = Upload(q, c)
          /\ \A d \in Contents \ {c} : entry'[d] = entry[d]
      BY <1>3, <1>6 DEF IInv, ReferencedTypeOK, Row
    <2>3. UNCHANGED <<bytes, cleanup, origin, destroyed>> BY <1>4, <1>6 DEF history
    <2>4. ReferencedTypeOK'
      <3>1. work' \in [Processes -> Work] BY <1>1, <2>1 DEF IInv, ReferencedTypeOK
      <3> QED BY <1>4, <1>6, <2>2, <3>1 DEF IInv, ReferencedTypeOK, history, bounds
    <2>5. RowsFit'
      <3> SUFFICES ASSUME NEW d \in Contents
                   PROVE  /\ entry'[d].mode = "managed" =>
                              /\ entry'[d].at \in {Layout} \cup {ById(e) : e \in Contents} \cup {Upload(r, d) : r \in Requests}
                              /\ bytes'[entry'[d].at] = d
                          /\ entry'[d].mode = "referenced" => entry'[d].at \in Origins
        BY DEF RowsFit, IsManaged, Referenced
      <3>1. CASE d = c BY <1>3, <2>2, <2>3, <3>1
      <3>2. CASE d # c BY <2>2, <2>3, <3>2 DEF IInv, RowsFit, IsManaged, Referenced
      <3> QED BY <3>1, <3>2
    <2>6. \A d \in Contents : Kept(d) => Kept(d)' BY <2>2, <2>3, KeptStays DEF IsManaged
    <2>7. CleanupKept' BY <2>3, <2>6 DEF IInv, CleanupKept, ReferencedTypeOK
    <2>8. Tracked' BY <1>1, <2>1, <2>3, StillTracked
    <2>9. Fits(q, w)'
      <3>1. Kept(w.file)' BY <1>3, <2>1, <2>2 DEF Kept, IsManaged
      <3>2. RemovalFits(w)' BY <1>3, <2>1, <3>1 DEF RemovalFits
      <3>3. RequestFits(q, w)' BY <1>1, <1>2, <2>1, <2>6 DEF Fits, RequestFits, Removing
      <3> QED BY <1>1, <3>2, <3>3 DEF Fits
    <2>10. \A r \in Processes : Fits(r, work[r])'
      <3>1. \A x \in {Layout} \cup {ById(d) : d \in Contents} : ~HasPath(x) => ~HasPath(x)' /\ bytes'[x] = bytes[x]
        <4> SUFFICES ASSUME NEW x \in {Layout} \cup {ById(d) : d \in Contents}, HasPath(x)' PROVE HasPath(x)
          BY <2>3
        <4>1. x # Upload(q, c) BY PlacesApart
        <4> QED BY <2>2, <4>1 DEF HasPath
      <3>2. \A r \in Requests : r # q => \A d \in Contents :
              ~(IsManaged(d) /\ entry[d].at = Upload(r, d)) =>
                  ~(IsManaged(d)' /\ entry'[d].at = Upload(r, d)) /\ bytes'[Upload(r, d)] = bytes[Upload(r, d)]
        BY <2>2, <2>3, PlacesApart DEF IsManaged
      <3> QED BY <1>1, <2>1, <2>3, <2>6, <2>9, <3>1, <3>2, OthersFit
    <2> QED BY <2>4, <2>5, <2>7, <2>8, <2>10 DEF IInv
  <1> QED BY <1>3, <1>5, <1>6 DEF InsertUpload

LEMMA DeleteForGoodStep ==
    ASSUME IInv, NEW c \in Contents, DeleteForGood(c)
    PROVE  IInv'
  <1>1. Jobs \in Processes /\ Jobs \notin Requests BY ReferencedAssumption DEF Processes
  <1>2. PICK x \in Managed : x = entry[c].at /\ IsManaged(c) /\ bytes[x] = c
    BY ManagedPlace DEF DeleteForGood, IsManaged, IInv
  <1>3. x \in Everywhere /\ x \notin Origins BY PlacesManaged
  <1>4. /\ entry' = [entry EXCEPT ![c] = NoRow] /\ bytes' = [bytes EXCEPT ![x] = Nothing]
        /\ destroyed' = destroyed \cup {c} /\ origin' = [origin EXCEPT ![c] = NoPlace]
        /\ UNCHANGED <<cleanup, work>>
    BY <1>2 DEF DeleteForGood
  <1>5. ReferencedTypeOK'
    <2>1. /\ entry' \in [Contents -> Row] /\ bytes' \in [Everywhere -> Contents \cup {Nothing}]
          /\ origin' \in [Contents -> Origins \cup {NoPlace}]
      BY <1>3, <1>4 DEF IInv, ReferencedTypeOK, Row, NoRow
    <2> QED BY <1>4, <2>1 DEF IInv, ReferencedTypeOK, DeleteForGood
  <1>6. /\ ~IsManaged(c)' /\ entry'[c].mode = "none"
        /\ \A d \in Contents \ {c} : entry'[d] = entry[d]
    BY <1>4 DEF IInv, ReferencedTypeOK, IsManaged, NoRow
  <1>7. \A y \in Everywhere : y # x => bytes'[y] = bytes[y] BY <1>4 DEF IInv, ReferencedTypeOK
  <1>8. RowsFit'
    <2> SUFFICES ASSUME NEW d \in Contents, d # c
                 PROVE  /\ IsManaged(d) => bytes'[entry[d].at] = d
      BY <1>6 DEF IInv, RowsFit, IsManaged, Referenced
    <2>1. IsManaged(d) => entry[d].at \in Everywhere /\ bytes[entry[d].at] = d
      BY ManagedPlace, PlacesManaged DEF IInv
    <2> QED BY <1>2, <1>7, <2>1
  <1>9. \A d \in Contents : Kept(d) => Kept(d)' BY <1>4, <1>6, KeptStays DEF IsManaged
  <1>10. CleanupKept' BY <1>4, <1>9 DEF IInv, CleanupKept, ReferencedTypeOK
  <1>11. Tracked'
    <2> SUFFICES ASSUME NEW d \in Contents, NEW y, y = origin'[d], y # NoPlace
                 PROVE  (cleanup[y] = d /\ bytes[y] = d /\ ~RemovalOpen(y))'
      BY DEF Tracked
    <2>1. y = origin[d] /\ y \in Origins BY <1>4 DEF IInv, ReferencedTypeOK
    <2>2. cleanup[y] = d /\ bytes[y] = d /\ ~RemovalOpen(y) BY <2>1 DEF IInv, Tracked
    <2>3. bytes'[y] = bytes[y] BY <1>3, <1>7, <2>1, PlacesManaged
    <2> QED BY <1>4, <2>2, <2>3 DEF RemovalOpen, Stands
  <1>12. ASSUME NEW r \in Processes PROVE Fits(r, work[r])'
    <2>1. PICK v \in Work : v = work[r] /\ v = work'[r] /\ Fits(r, v)
      BY <1>4 DEF IInv, ReferencedTypeOK
    <2>2. r = Jobs /\ v.pc \in Transferring =>
              /\ ~HasPath(v.to)'
              /\ v.pc = "switching" => bytes'[v.to] = bytes[v.to]
              /\ \A d \in Contents : origin'[d] = v.from => origin[d] = v.from
      <3> SUFFICES ASSUME r = Jobs, v.pc \in Transferring
                   PROVE /\ ~HasPath(v.to)'
                         /\ v.pc = "switching" => bytes'[v.to] = bytes[v.to]
                         /\ \A d \in Contents : origin'[d] = v.from => origin[d] = v.from
        OBVIOUS
      <3>1. v.from \in Origins /\ v.from # NoPlace /\ v.to \in Everywhere /\ ~HasPath(v.to)
        BY <2>1, PlacesManaged DEF Fits, JobsFit, TransferFits
      <3>2. v.to # x BY <1>2, <3>1 DEF HasPath, IsManaged
      <3>3. ~HasPath(v.to)' BY <1>6, <3>1 DEF HasPath, IsManaged
      <3>4. \A d \in Contents : origin'[d] \in {origin[d], NoPlace} BY <1>4 DEF IInv, ReferencedTypeOK
      <3> QED BY <1>7, <3>1, <3>2, <3>3, <3>4
    <2>3. r \in Requests /\ v.pc \in {"storing", "inserting"} => v.to \in Everywhere /\ v.to # x
      BY <1>2, <2>1, UploadFree DEF HasPath, IsManaged
    <2>4. r \in Requests /\ v.pc \in {"storing", "inserting"} => Converted[v.file] \in Contents
      BY <2>1, ReferencedAssumption DEF Fits, RequestFits
    <2>5. Fits(r, v)' BY <1>6, <1>7, <1>9, <2>1, <2>2, <2>3, <2>4, FitsOn DEF IsManaged
    <2> QED BY <2>1, <2>5
  <1> QED BY <1>5, <1>8, <1>10, <1>11, <1>12 DEF IInv

-----------------------------------------------------------------------------
(* The theorems. *)

LEMMA Starts == ReferencedInit => IInv
  <1> SUFFICES ASSUME ReferencedInit PROVE IInv OBVIOUS
  <1>1. entry = [c \in Contents |-> NoRow] /\ NoRow \in Row /\ NoRow.mode = "none"
    BY DEF ReferencedInit, NoRow, Row
  <1>2. work = [p \in Processes |-> NoWork] /\ \A p \in Processes : Fits(p, work[p])
    BY NoWorkFits DEF ReferencedInit
  <1>3. ReferencedTypeOK BY <1>1, <1>2, NoWorkFits DEF ReferencedInit, ReferencedTypeOK
  <1>4. RowsFit /\ CleanupKept /\ Tracked
    BY <1>1 DEF ReferencedInit, RowsFit, CleanupKept, Tracked, IsManaged, Referenced
  <1> QED BY <1>2, <1>3, <1>4 DEF IInv

LEMMA Keeps ==
    ASSUME IInv, ReferencedNext
    PROVE  IInv'
  <1>1. CASE Transfer
    BY <1>1, BeginTransferStep, CopyStep, CheckTargetStep, PublishStep, SwitchStep, UndoStep DEF Transfer
  <1>2. CASE Scan
    BY <1>2, BeginScanStep, CatalogueStep, MarkMissingStep, RecheckStep, HashNewStep DEF Scan
  <1>3. CASE \E p \in Processes : Removal(p) \/ GivesUp(p)
    BY <1>3, VerifyStep, UnlinkStep, ForgetCleanupStep, GivesUpStep DEF Removal
  <1>4. CASE \E q \in Requests : Request(q)
    BY <1>4, BeginRetryStep, RetryOneStep, BeginImportStep, StoreUploadStep, InsertUploadStep DEF Request
  <1>5. CASE AddRoot \/ RemoveRoot \/ \E c \in Contents : Ask(c) \/ Purge(c)
    BY <1>5, AdministrationStep
  <1>6. CASE \E c \in Contents : DeleteForGood(c) BY <1>6, DeleteForGoodStep
  <1>7. CASE \E o \in Origins, c \in Contents \cup {Nothing} : Change(o, c) BY <1>7, ChangeStep
  <1>8. CASE Restart BY <1>8, RestartStep
  <1> QED BY <1>1, <1>2, <1>3, <1>4, <1>5, <1>6, <1>7, <1>8 DEF ReferencedNext

LEMMA Idles ==
    ASSUME IInv, UNCHANGED referencedVars
    PROVE  IInv'
  <1>1. Jobs \in Processes BY DEF Processes
  <1>2. SetWork(Jobs, work[Jobs]) BY <1>1, Standing DEF SetWork, referencedVars
  <1>3. asked' \subseteq Contents BY DEF IInv, ReferencedTypeOK, referencedVars
  <1>4. UNCHANGED <<bytes, stamp, entry, cleanup, authorised, history, bounds>>
    BY DEF referencedVars, history, bounds
  <1> QED BY <1>1, <1>2, <1>3, <1>4, Standing, LocalStep

LEMMA Inductive == ReferencedSpec => []IInv
  <1>1. ReferencedInit => IInv BY Starts
  <1>2. IInv /\ [ReferencedNext]_referencedVars => IInv' BY Keeps, Idles
  <1> QED BY <1>1, <1>2, PTL DEF ReferencedSpec

\* Every variable keeps its type: a process that is at work on a file has the file and
\* the places its step needs (transfer.go, upload.go, scanner.go).
THEOREM Typed == ReferencedSpec => []ReferencedTypeOK
  <1>1. IInv => ReferencedTypeOK BY DEF IInv
  <1> QED BY <1>1, Inductive, PTL

\* A managed file has its bytes where its row says, whatever transfers, imports, retries,
\* deletions and restarts there were, and whatever people did to the directory
\* (switchToManaged and undo of transfer.go, ingest of upload.go).
THEOREM HeldWhereItSays == ReferencedSpec => []ManagedHolds
  <1>1. IInv => ManagedHolds BY DEF IInv, RowsFit, ManagedHolds, IsManaged
  <1> QED BY <1>1, Inductive, PTL

\* An original that was copied and is still as it was is on the list of those to remove:
\* neither a crash nor the removals of other requests lose track of it (00008), but for one
\* that was put back while the removal of the one before it is still to be recorded.
THEOREM NotLostTrackOf == ReferencedSpec => []OriginalsTracked
  <1>1. IInv => OriginalsTracked BY DEF IInv, Tracked, OriginalsTracked
  <1> QED BY <1>1, Inductive, PTL

\* Who is at the verification of an original is the only one to decide on its removal.
LEMMA VerifiesItself ==
    ASSUME IInv, ReferencedNext, NEW p \in Processes, Stands(p, "verifying")
    PROVE  Verify(p) \/ work'[p].pc # "unlinking"
  <1>1. Jobs \in Processes /\ Requests \subseteq Processes BY DEF Processes
  <1>2. work \in [Processes -> Work] BY DEF IInv, ReferencedTypeOK
  <1>3. ASSUME NEW r \in Processes, NEW w, SetWork(r, w), ~Stands(r, "verifying")
        PROVE  work'[p].pc # "unlinking"
    BY <1>2, <1>3 DEF SetWork, Stands
  <1>4. ASSUME NEW r \in Processes, NEW w, SetWork(r, w), r # p PROVE work'[p].pc # "unlinking"
    BY <1>2, <1>4 DEF SetWork, Stands
  <1>5. ASSUME UNCHANGED work PROVE work'[p].pc # "unlinking" BY <1>5 DEF Stands
  <1>6. CASE Transfer
    <2>1. ASSUME NEW c \in Contents, BeginTransfer(c) PROVE work'[p].pc # "unlinking"
      BY <1>1, <1>3, <1>5, <2>1 DEF BeginTransfer, Stands
    <2>2. CASE Copy \/ CheckTarget \/ Publish \/ Switch \/ Undo
      BY <1>1, <1>3, <2>2 DEF Copy, CheckTarget, Publish, Switch, Undo, Stands, Leaves, Steps
    <2> QED BY <1>6, <2>1, <2>2 DEF Transfer
  <1>7. CASE Scan
    BY <1>1, <1>3, <1>7 DEF Scan, BeginScan, Catalogue, MarkMissing, Recheck, HashNew, Stands, Leaves, Seen
  <1>8. ASSUME NEW r \in Processes, Removal(r) \/ GivesUp(r) PROVE Verify(p) \/ work'[p].pc # "unlinking"
    <2>1. CASE r = p
      BY <1>1, <1>3, <1>8, <2>1 DEF Removal, Unlink, ForgetCleanup, GivesUp, Stands, Steps, Leaves, RemovalEnds, GoesOn
    <2>2. CASE r # p
      BY <1>1, <1>4, <1>8, <2>2 DEF Removal, Verify, Unlink, ForgetCleanup, GivesUp, Steps, Leaves, RemovalEnds, GoesOn
    <2> QED BY <2>1, <2>2
  <1>9. ASSUME NEW q \in Requests, Request(q) PROVE work'[p].pc # "unlinking"
    BY <1>1, <1>3, <1>9
    DEF Request, BeginRetry, RetryOne, BeginImport, StoreUpload, InsertUpload, Stands, Steps, Leaves
  <1>10. CASE \/ AddRoot \/ RemoveRoot
              \/ \E c \in Contents : Ask(c) \/ Purge(c) \/ DeleteForGood(c)
              \/ \E o \in Origins, c \in Contents \cup {Nothing} : Change(o, c)
    BY <1>5, <1>10 DEF AddRoot, RemoveRoot, Ask, Purge, DeleteForGood, Change
  <1>11. CASE Restart BY <1>11, NoWorkFits DEF Restart
  <1> QED BY <1>6, <1>7, <1>8, <1>9, <1>10, <1>11 DEF ReferencedNext

\* An original is found fit for removal only while the managed storage has the bytes it
\* has then, or had them until somebody deleted them for good: RemoveVerifiedOrigin
\* (transfer.go), of a transfer, of an import that converts what it stores, or of a retry.
THEOREM OnlyCopiesRemoved == ReferencedSpec => RemovesOnlyCopies
  <1>1. ASSUME IInv, ReferencedNext, NEW p \in Processes, Stands(p, "verifying"), work'[p].pc = "unlinking"
        PROVE  Stored(bytes[work[p].from])
    <2>1. Verify(p) BY <1>1, VerifiesItself
    <2>2. work[p] \in Work /\ Fits(p, work[p]) /\ work[p].pc = "verifying" BY <1>1, Standing DEF Stands
    <2>3. work[p].file \in Contents /\ Kept(work[p].file) BY <2>2 DEF Fits, RemovalFits, Removing
    <2>4. ASSUME bytes[work[p].from] # work[p].file PROVE FALSE
      <3>1. CASE Steps(p, "forgetting")
        <4>1. work'[p] = [work[p] EXCEPT !.pc = "forgetting"]
          BY <1>1, <3>1 DEF Steps, SetWork, IInv, ReferencedTypeOK
        <4>2. work'[p].pc = "forgetting" BY <2>2, <4>1 DEF Work
        <4> QED BY <1>1, <4>2
      <3>2. CASE RemovalEnds(p)
        <4>1. work'[p] = NoWork \/ work'[p].pc = "retrying"
          BY <1>1, <3>2 DEF RemovalEnds, GoesOn, SetWork, IInv, ReferencedTypeOK, NoWork
        <4> QED BY <1>1, <4>1, NoWorkFits
      <3> QED BY <2>1, <2>4, <3>1, <3>2 DEF Verify, Unchanged
    <2>5. Stored(work[p].file) BY <1>1, <2>3, KeptIsStored DEF IInv
    <2>6. bytes[work[p].from] = work[p].file BY <2>4
    <2> QED BY <2>5, <2>6
  <1>2. IInv /\ ReferencedNext =>
          \A p \in Processes : Stands(p, "verifying") /\ work'[p].pc = "unlinking" => Stored(bytes[work[p].from])
    BY <1>1
  <1>3. IInv /\ UNCHANGED referencedVars =>
          \A p \in Processes : Stands(p, "verifying") /\ work'[p].pc = "unlinking" => Stored(bytes[work[p].from])
    BY DEF referencedVars, Stands
  <1> QED BY <1>2, <1>3, Inductive, PTL DEF ReferencedSpec, RemovesOnlyCopies
=============================================================================
