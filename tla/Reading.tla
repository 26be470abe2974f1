------------------------------ MODULE Reading ------------------------------
(***************************************************************************)
(* Where one person is in the files of one work, as the tabs of a browser  *)
(* and the KOReader devices save it: the revisions, the place of a device  *)
(* that is kept apart, the marks "finished" of a file and of the work, and *)
(* the count of times a file was finished.                                 *)
(*                                                                         *)
(* A single SQL statement is one step.  A handler of several statements    *)
(* without a transaction is several.  A transaction that locks the row is  *)
(* one step; the one that finds no row to lock is two.  Rows of other      *)
(* people are not touched by any of this.  A place is the number of the    *)
(* save that brought it, so that no two saves look the same; 0 is none.    *)
(***************************************************************************)
EXTENDS Naturals, FiniteSets

CONSTANTS
    Files,      \* of one work
    Tabs,       \* readers of the web
    Devices,    \* KOReader devices, each with an access of its own
    MaxSaves,   \* bound: saves
    MaxMarks,   \* bound: marks made by hand
    NoOne       \* no device, no file

ASSUME ReadingAssumption ==
    /\ MaxSaves \in Nat /\ MaxMarks \in Nat
    /\ NoOne \notin Files \cup Devices

VARIABLES
    row,          \* reading_progress of each file
    apart,        \* kosync_pending of each file: [place, of], the place a device sent
    seen,         \* kosync_seen: the revision each device saw of each file
    workFinished, \* work_reading_state has the work
    completions,  \* reading_completions: times each file was finished
    tab, device,  \* what each handler at work, or the client behind it, knows
    late,         \* a handler without a tab has still to run reopenWork
    heard,        \* history: the places each tab and each device was sent, or sent
    reopened,     \* history: times each file was reopened
    saves, marks  \* bounds; saves also names the places

vars == <<row, apart, seen, workFinished, completions, tab, device, late, heard, reopened, saves, marks>>

-----------------------------------------------------------------------------

\* revision 0 is no row; by is the device that said the place.
Row == [revision : Nat, place : Nat, finished : BOOLEAN, by : Devices \cup {NoOne}]
NoRow == [revision |-> 0, place |-> 0, finished |-> FALSE, by |-> NoOne]
Apart == [place : Nat, of : Devices \cup {NoOne}]
NoneApart == [place |-> 0, of |-> NoOne]
Tab == [pc : {"closed", "reading", "refused", "written", "reopening"},
        file : Files \cup {NoOne}, base : Nat, again : BOOLEAN]
Device == [pc : {"idle", "inserting", "marking", "answered"}, file : Files \cup {NoOne},
           revision : Nat, place : Nat, finishes : BOOLEAN]
AtRest == [pc |-> "idle", file |-> NoOne, revision |-> 0, place |-> 0, finishes |-> FALSE]

\* completed of a save: NULL keeps the mark, TRUE finishes the file, FALSE reopens it.
Marks == {"keep", "finish", "reopen"}
MarkedBy(finished, mark) == mark = "finish" \/ (mark = "keep" /\ finished)

\* The row after a write: the first has the default revision, the others count on.
Written(f, place, finished, by) ==
    [revision |-> row[f].revision + 1, place |-> place, finished |-> finished, by |-> by]

\* Mutant: the trigger fires on every write that leaves the file finished.
CountsAgain(f, new) == new.finished

\* reading_record_completion: from not finished to finished.
Counts(f, new) == new.finished /\ ~row[f].finished

\* One statement on reading_progress, and its trigger.
SetRow(f, new) ==
    /\ row' = [row EXCEPT ![f] = new]
    /\ completions' = IF Counts(f, new) THEN [completions EXCEPT ![f] = @ + 1] ELSE completions
    /\ reopened' = IF row[f].finished /\ ~new.finished THEN [reopened EXCEPT ![f] = @ + 1] ELSE reopened

Hears(client, places) == heard' = [heard EXCEPT ![client] = @ \cup places]
NewSave == saves < MaxSaves /\ saves' = saves + 1
NewMark == marks < MaxMarks /\ marks' = marks + 1

-----------------------------------------------------------------------------
(* The web: progress.go and useFileProgress.js. *)

\* Get: the tab is told the place and its revision.
Get(t, f) ==
    /\ tab[t].pc \in {"closed", "reading"}
    /\ tab' = [tab EXCEPT ![t] = [pc |-> "reading", file |-> f, base |-> row[f].revision, again |-> FALSE]]
    /\ Hears(t, {row[f].place})
    /\ UNCHANGED <<row, apart, seen, workFinished, completions, device, late, reopened, saves, marks>>

\* Opened, and ReadingHeartbeat: at most a row with no place.
Opened(f) ==
    /\ row[f].revision = 0
    /\ SetRow(f, Written(f, 0, FALSE, NoOne))
    /\ UNCHANGED <<apart, seen, workFinished, tab, device, late, heard, saves, marks>>

\* Mutant: a save is taken on any revision.
TakesAny(f, base) == TRUE

\* The WHERE of Put; an insert does not look at it.
Takes(f, base) == row[f].revision \in {0, base}

\* Put, the statement that decides: the place is taken, or no row comes back.
Put(t, mark) ==
    /\ tab[t].pc = "reading"
    /\ NewSave
    /\ LET f == tab[t].file
       IN  \/ /\ Takes(f, tab[t].base)
              /\ SetRow(f, Written(f, saves + 1, MarkedBy(row[f].finished, mark), NoOne))
              /\ tab' = [tab EXCEPT ![t].pc = "written"]
              /\ Hears(t, {saves + 1})
           \/ /\ ~Takes(f, tab[t].base)
              /\ tab' = [tab EXCEPT ![t].pc = "refused"]
              /\ UNCHANGED <<row, completions, reopened, heard>>
    /\ UNCHANGED <<apart, seen, workFinished, device, late, marks>>

\* Put, refused: the row is read again and sent; the tab repeats the save on it, or gives up the second time.
AnswerConflict(t) ==
    /\ tab[t].pc = "refused"
    /\ LET f == tab[t].file
       IN  /\ tab' = [tab EXCEPT ![t] = [pc |-> "reading", file |-> f, again |-> ~tab[t].again,
                                         base |-> IF tab[t].again THEN tab[t].base ELSE row[f].revision]]
           /\ Hears(t, {row[f].place})
    /\ UNCHANGED <<row, apart, seen, workFinished, completions, device, late, reopened, saves, marks>>

\* Put, taken: the row is read again, maybe with a later save of another, and the tab takes its revision.
LoadSaved(t) ==
    /\ tab[t].pc = "written"
    /\ LET saved == row[tab[t].file]
       IN  /\ tab' = [tab EXCEPT ![t] = [pc |-> IF saved.finished THEN "reading" ELSE "reopening",
                                         file |-> tab[t].file, base |-> saved.revision, again |-> FALSE]]
           /\ Hears(t, {saved.place})
    /\ UNCHANGED <<row, apart, seen, workFinished, completions, device, late, reopened, saves, marks>>

\* reopenWork: its failure is only logged.
Unmarks == workFinished' \in {FALSE, workFinished}

ReopenWork(t) ==
    /\ tab[t].pc = "reopening"
    /\ tab' = [tab EXCEPT ![t].pc = "reading"]
    /\ Unmarks
    /\ UNCHANGED <<row, apart, seen, completions, device, late, heard, reopened, saves, marks>>

ReopenWorkLate ==
    /\ late
    /\ late' = FALSE
    /\ Unmarks
    /\ UNCHANGED <<row, apart, seen, completions, tab, device, heard, reopened, saves, marks>>

-----------------------------------------------------------------------------
(* Marks made by hand, and the older way to save. *)

\* SetCompletion: restart takes the place too.  The place a device said is forgotten in all cases.
SetCompletion(f, finished, restart) ==
    /\ NewMark
    /\ restart => ~finished
    /\ ~late
    /\ SetRow(f, Written(f, IF restart THEN 0 ELSE row[f].place, finished, NoOne))
    /\ late' = ~finished
    /\ UNCHANGED <<apart, seen, workFinished, tab, device, heard, saves>>

SetWorkFinished(finished) ==
    /\ NewMark
    /\ workFinished' = finished
    /\ UNCHANGED <<row, apart, seen, completions, tab, device, late, heard, reopened, saves>>

\* UpdateProgress of library.go: a position in plain text, which is no place a locator says, over anything.
UpdateProgress(f, mark) ==
    /\ NewMark
    /\ ~late
    /\ SetRow(f, Written(f, 0, MarkedBy(row[f].finished, mark), NoOne))
    /\ late' = (mark # "finish")
    /\ UNCHANGED <<apart, seen, workFinished, tab, device, heard, saves>>

-----------------------------------------------------------------------------
(* The devices: kosync.go. *)

\* Mutant: what was kept apart stays.
KeptApart(f) == UNCHANGED apart

\* What was kept apart is older than a place that is written.
DropApart(f) == apart' = [apart EXCEPT ![f] = NoneApart]

\* A device finishes a file and never reopens it.
FinishedAfter(f, finishes) == finishes \/ row[f].finished

\* The writing half of PutProgress: the row, what was kept apart, what the device saw, the mark of the work.
Send(d, f, place, finishes) ==
    /\ SetRow(f, Written(f, place, FinishedAfter(f, finishes), d))
    /\ DropApart(f)
    /\ seen' = [seen EXCEPT ![d][f] = row[f].revision + 1]
    /\ workFinished' = (workFinished /\ finishes)
    /\ Hears(d, {place})

\* The newest place is of someone else, and the device did not see it.
Unseen(d, f) == row[f].place # 0 /\ row[f].by # d /\ row[f].revision > seen[d][f]

\* PutProgress on a row, which it locks.
PutProgress(d, f, finishes) ==
    /\ device[d].pc = "idle" /\ row[f].revision > 0
    /\ NewSave
    /\ \/ /\ Unseen(d, f)
          /\ apart' = [apart EXCEPT ![f] = [place |-> saves + 1, of |-> d]]
          /\ UNCHANGED <<row, seen, workFinished, completions, heard, reopened>>
       \/ ~Unseen(d, f) /\ Send(d, f, saves + 1, finishes)
    /\ UNCHANGED <<tab, device, late, marks>>

\* PutProgress without a row: nothing is locked, and nothing is compared.
PutFirst(d, f, finishes) ==
    /\ device[d].pc = "idle" /\ row[f].revision = 0
    /\ NewSave
    /\ device' = [device EXCEPT ![d] = [pc |-> "inserting", file |-> f, revision |-> 0,
                                        place |-> saves + 1, finishes |-> finishes]]
    /\ UNCHANGED <<row, apart, seen, workFinished, completions, tab, late, heard, reopened, marks>>

\* Its INSERT ... ON CONFLICT DO UPDATE, over whatever came in between.
InsertFirst(d) ==
    /\ device[d].pc = "inserting"
    /\ Send(d, device[d].file, device[d].place, device[d].finishes)
    /\ device' = [device EXCEPT ![d] = AtRest]
    /\ UNCHANGED <<tab, late, saves, marks>>

\* GetProgress reads the row, ...
GetProgress(d, f) ==
    /\ device[d].pc = "idle" /\ row[f].place # 0
    /\ device' = [device EXCEPT ![d] = [pc |-> "marking", file |-> f, revision |-> row[f].revision,
                                        place |-> row[f].place, finishes |-> FALSE]]
    /\ UNCHANGED <<row, apart, seen, workFinished, completions, tab, late, heard, reopened, saves, marks>>

\* ... markSeen records the revision or fails, which is only logged, ...
MarkSeen(d) ==
    /\ device[d].pc = "marking"
    /\ device' = [device EXCEPT ![d].pc = "answered"]
    /\ \/ seen' = [seen EXCEPT ![d][device[d].file] = device[d].revision]
       \/ UNCHANGED seen
    /\ UNCHANGED <<row, apart, workFinished, completions, tab, late, heard, reopened, saves, marks>>

\* ... and the answer arrives, or is lost.
Answer(d) ==
    /\ device[d].pc = "answered"
    /\ device' = [device EXCEPT ![d] = AtRest]
    /\ \/ Hears(d, {device[d].place})
       \/ UNCHANGED heard
    /\ UNCHANGED <<row, apart, seen, workFinished, completions, tab, late, reopened, saves, marks>>

-----------------------------------------------------------------------------

Init ==
    /\ row = [f \in Files |-> NoRow]
    /\ apart = [f \in Files |-> NoneApart]
    /\ seen = [d \in Devices |-> [f \in Files |-> 0]]
    /\ workFinished = FALSE
    /\ completions = [f \in Files |-> 0] /\ reopened = [f \in Files |-> 0]
    /\ tab = [t \in Tabs |-> [pc |-> "closed", file |-> NoOne, base |-> 0, again |-> FALSE]]
    /\ device = [d \in Devices |-> AtRest]
    /\ late = FALSE
    /\ heard = [c \in Tabs \cup Devices |-> {0}]
    /\ saves = 0 /\ marks = 0

Web(t) ==
    \/ \E f \in Files : Get(t, f)
    \/ \E mark \in Marks : Put(t, mark)
    \/ AnswerConflict(t)
    \/ LoadSaved(t)
    \/ ReopenWork(t)

ByHand ==
    \/ \E f \in Files : Opened(f)
    \/ \E f \in Files, finished, restart \in BOOLEAN : SetCompletion(f, finished, restart)
    \/ \E finished \in BOOLEAN : SetWorkFinished(finished)
    \/ \E f \in Files, mark \in Marks : UpdateProgress(f, mark)
    \/ ReopenWorkLate

Koreader(d) ==
    \/ \E f \in Files, finishes \in BOOLEAN : PutProgress(d, f, finishes)
    \/ \E f \in Files, finishes \in BOOLEAN : PutFirst(d, f, finishes)
    \/ InsertFirst(d)
    \/ \E f \in Files : GetProgress(d, f)
    \/ MarkSeen(d)
    \/ Answer(d)

Next ==
    \/ \E t \in Tabs : Web(t)
    \/ ByHand
    \/ \E d \in Devices : Koreader(d)

Spec == Init /\ [][Next]_vars

-----------------------------------------------------------------------------
(* What is promised. *)

\* The types, and a row that says anything has a revision, which is how a tab tells it from no row.
TypeOK ==
    /\ row \in [Files -> Row] /\ apart \in [Files -> Apart]
    /\ seen \in [Devices -> [Files -> Nat]]
    /\ workFinished \in BOOLEAN /\ late \in BOOLEAN
    /\ completions \in [Files -> Nat] /\ reopened \in [Files -> Nat]
    /\ tab \in [Tabs -> Tab] /\ device \in [Devices -> Device]
    /\ heard \in [Tabs \cup Devices -> SUBSET Nat]
    /\ saves \in Nat /\ marks \in Nat
    /\ \A t \in Tabs : tab[t].pc # "closed" => tab[t].file \in Files
    /\ \A d \in Devices : device[d].pc # "idle" => device[d].file \in Files
    /\ \A f \in Files : row[f].revision = 0 => row[f] = NoRow

\* Every time a file was finished is counted once, however many saves, marks and devices said so: the
\* count is the times it was reopened, and one more while it is finished (DEC-080).
CompletionsCounted ==
    \A f \in Files : completions[f] = reopened[f] + (IF row[f].finished THEN 1 ELSE 0)

\* What is kept apart for the person to choose is never of the device whose place is the current one, and
\* is never offered where there is no row to choose against (DEC-191).
PendingIsOthers ==
    \A f \in Files : apart[f] # NoneApart =>
        /\ apart[f].of # row[f].by
        /\ row[f].revision > 0

\* A tab saves over a place only if it was sent that place before, whatever the other tabs, the marks, the
\* older way to save and the devices did since (PutProgressRequest, "instead of overwriting it silently").
TabOverwritesHeard ==
    [][\A t \in Tabs :
        LET f == tab[t].file
        IN  tab[t].pc = "reading" /\ tab'[t].pc = "written" => row[f].place \in heard[t]]_vars

\* A device finishes files and never reopens one: what it sends late, or kept without a network, does not
\* undo the mark that the statistics count.
DevicesNeverReopen ==
    [][\A f \in Files : row[f].finished /\ ~row'[f].finished => row'[f].by = NoOne]_vars

\* A send of a device is not written over a save of someone else that the device was not told of (kosync.go,
\* "A send from a device that did not see the newest save of someone else ... is not written over it").
DeviceOverwritesHeard ==
    [][\A d \in Devices, f \in Files :
        row'[f] # row[f] /\ row'[f].by = d /\ row[f].by # d => row[f].place \in heard[d]]_vars
=============================================================================
