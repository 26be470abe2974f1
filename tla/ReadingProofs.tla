--------------------------- MODULE ReadingProofs ---------------------------
(***************************************************************************)
(* Proofs about Reading, for any number of files, tabs, devices, saves and *)
(* marks.                                                                  *)
(***************************************************************************)
EXTENDS Reading, TLAPS

-----------------------------------------------------------------------------
(* What a write of a row does. *)

Clients == Devices \cup {NoOne}

LEMMA WrittenType ==
    ASSUME TypeOK, NEW f \in Files, NEW place \in Nat, NEW finished \in BOOLEAN, NEW by \in Clients
    PROVE  /\ Written(f, place, finished, by) \in Row
           /\ Written(f, place, finished, by).revision > 0
           /\ Written(f, place, finished, by).revision > row[f].revision
           /\ Written(f, place, finished, by).place = place
           /\ Written(f, place, finished, by).finished = finished
           /\ Written(f, place, finished, by).by = by
BY DEF TypeOK, Written, Row, Clients

\* The parts of TypeOK that a write can disturb.
RowsOK ==
    /\ row \in [Files -> Row]
    /\ completions \in [Files -> Nat] /\ reopened \in [Files -> Nat]
    /\ \A f \in Files : row[f].revision = 0 => row[f] = NoRow

LEMMA SetRowType ==
    ASSUME TypeOK, NEW f \in Files, NEW new \in Row, new.revision > 0, SetRow(f, new)
    PROVE  RowsOK'
<1>1. row' \in [Files -> Row] /\ row' = [row EXCEPT ![f] = new]
    BY DEF TypeOK, SetRow
<1>2. completions' \in [Files -> Nat]
    BY DEF TypeOK, SetRow
<1>3. reopened' \in [Files -> Nat]
    BY DEF TypeOK, SetRow
<1>4. \A g \in Files : row'[g].revision = 0 => row'[g] = NoRow
    BY <1>1 DEF TypeOK
<1> QED BY <1>1, <1>2, <1>3, <1>4 DEF RowsOK

LEMMA MarkedType ==
    ASSUME NEW finished \in BOOLEAN, NEW mark \in Marks
    PROVE  MarkedBy(finished, mark) \in BOOLEAN
BY DEF MarkedBy

LEMMA HearsType ==
    ASSUME TypeOK, NEW c \in Tabs \cup Devices, NEW places \in SUBSET Nat, Hears(c, places)
    PROVE  heard' \in [Tabs \cup Devices -> SUBSET Nat]
BY DEF TypeOK, Hears

\* What a send of a device does to the types.
LEMMA SendType ==
    ASSUME TypeOK, NEW d \in Devices, NEW f \in Files, NEW place \in Nat, NEW finishes \in BOOLEAN,
           Send(d, f, place, finishes)
    PROVE  /\ RowsOK'
           /\ apart' \in [Files -> Apart]
           /\ seen' \in [Devices -> [Files -> Nat]]
           /\ workFinished' \in BOOLEAN
           /\ heard' \in [Tabs \cup Devices -> SUBSET Nat]
<1>1. FinishedAfter(f, finishes) \in BOOLEAN
    BY DEF TypeOK, Row, FinishedAfter
<1>2. RowsOK'
    BY <1>1, WrittenType, SetRowType DEF Send, Clients
<1>3. apart' \in [Files -> Apart]
    BY DEF TypeOK, Send, DropApart, Apart, NoneApart
<1>4. row[f].revision + 1 \in Nat
    BY DEF TypeOK, Row
<1>5. seen' \in [Devices -> [Files -> Nat]]
    BY <1>4 DEF TypeOK, Send
<1>6. workFinished' \in BOOLEAN
    BY DEF TypeOK, Send
<1>7. heard' \in [Tabs \cup Devices -> SUBSET Nat]
    BY HearsType DEF Send
<1> QED BY <1>2, <1>3, <1>5, <1>6, <1>7

-----------------------------------------------------------------------------
(* Types. *)

LEMMA AtRestType == AtRest \in Device /\ AtRest.pc = "idle"
BY DEF AtRest, Device

LEMMA InitType == Init => TypeOK
<1> SUFFICES ASSUME Init
             PROVE  TypeOK
    OBVIOUS
<1>1. RowsOK
    <2>1. NoRow \in Row
        BY DEF NoRow, Row
    <2> QED BY <2>1 DEF Init, RowsOK
<1>2. apart \in [Files -> Apart]
    BY DEF Init, Apart, NoneApart
<1>3. tab \in [Tabs -> Tab] /\ \A t \in Tabs : tab[t].pc = "closed"
    BY DEF Init, Tab
<1>4. device \in [Devices -> Device] /\ \A d \in Devices : device[d].pc = "idle"
    BY AtRestType DEF Init
<1>5. heard \in [Tabs \cup Devices -> SUBSET Nat] /\ seen \in [Devices -> [Files -> Nat]]
    BY DEF Init
<1> QED BY <1>1, <1>2, <1>3, <1>4, <1>5 DEF Init, TypeOK, RowsOK

LEMMA WebType ==
    ASSUME TypeOK, NEW t \in Tabs, Web(t)
    PROVE  TypeOK'
<1>1. CASE \E f \in Files : Get(t, f)
    <2> PICK f \in Files : Get(t, f)
        BY <1>1
    <2>1. row[f] \in Row
        BY DEF TypeOK
    <2>2. heard' \in [Tabs \cup Devices -> SUBSET Nat]
        BY <2>1, HearsType DEF Get, Row
    <2>3. tab' \in [Tabs -> Tab]
        BY <2>1 DEF TypeOK, Get, Tab, Row
    <2>4. \A u \in Tabs : tab'[u].pc # "closed" => tab'[u].file \in Files
        BY DEF TypeOK, Get
    <2> QED BY <2>2, <2>3, <2>4 DEF TypeOK, Get
<1>2. CASE \E mark \in Marks : Put(t, mark)
    <2> PICK mark \in Marks : Put(t, mark)
        BY <1>2
    <2> DEFINE f == tab[t].file
    <2>1. f \in Files /\ row[f].finished \in BOOLEAN /\ saves + 1 \in Nat /\ saves' \in Nat
        BY DEF TypeOK, Put, Row, NewSave
    <2>2. tab' \in [Tabs -> Tab] /\ \A u \in Tabs : tab'[u].pc # "closed" => tab'[u].file \in Files
        <3>1. tab' = [tab EXCEPT ![t].pc = "written"] \/ tab' = [tab EXCEPT ![t].pc = "refused"]
            BY DEF Put
        <3>2. ASSUME NEW pc \in {"written", "refused"}, tab' = [tab EXCEPT ![t].pc = pc]
              PROVE  tab' \in [Tabs -> Tab] /\ \A u \in Tabs : tab'[u].pc # "closed" => tab'[u].file \in Files
            <4>1. [tab[t] EXCEPT !.pc = pc] \in Tab
                BY DEF TypeOK, Tab
            <4>2. tab' \in [Tabs -> Tab]
                BY <3>2, <4>1 DEF TypeOK
            <4>3. \A u \in Tabs : tab'[u].file = tab[u].file /\ (u # t => tab'[u] = tab[u])
                BY <3>2 DEF TypeOK, Tab
            <4> QED BY <2>1, <4>2, <4>3 DEF TypeOK
        <3> QED BY <3>1, <3>2
    <2>3. RowsOK' /\ heard' \in [Tabs \cup Devices -> SUBSET Nat]
        <3>1. CASE Takes(f, tab[t].base)
            <4>1. SetRow(f, Written(f, saves + 1, MarkedBy(row[f].finished, mark), NoOne)) /\ Hears(t, {saves + 1})
                BY <3>1 DEF Put
            <4>2. MarkedBy(row[f].finished, mark) \in BOOLEAN
                BY <2>1, MarkedType
            <4> HIDE DEF f
            <4> QED BY <2>1, <4>1, <4>2, WrittenType, SetRowType, HearsType DEF Clients
        <3>2. CASE ~Takes(f, tab[t].base)
            BY <3>2 DEF Put, TypeOK, RowsOK
        <3> QED BY <3>1, <3>2
    <2> QED BY <2>1, <2>2, <2>3 DEF TypeOK, Put, RowsOK
<1>3. CASE AnswerConflict(t)
    <2>1. tab[t].file \in Files /\ row[tab[t].file] \in Row
        BY <1>3 DEF TypeOK, AnswerConflict
    <2>2. heard' \in [Tabs \cup Devices -> SUBSET Nat]
        BY <1>3, <2>1, HearsType DEF AnswerConflict, Row
    <2>3. tab' \in [Tabs -> Tab]
        BY <1>3, <2>1 DEF TypeOK, AnswerConflict, Tab, Row
    <2>4. \A u \in Tabs : tab'[u].pc # "closed" => tab'[u].file \in Files
        BY <1>3, <2>1 DEF TypeOK, AnswerConflict
    <2> QED BY <1>3, <2>2, <2>3, <2>4 DEF TypeOK, AnswerConflict
<1>4. CASE LoadSaved(t)
    <2>1. tab[t].file \in Files /\ row[tab[t].file] \in Row
        BY <1>4 DEF TypeOK, LoadSaved
    <2>2. heard' \in [Tabs \cup Devices -> SUBSET Nat]
        BY <1>4, <2>1, HearsType DEF LoadSaved, Row
    <2>3. tab' \in [Tabs -> Tab]
        <3> DEFINE saved == row[tab[t].file]
                   next == IF saved.finished THEN "reading" ELSE "reopening"
        <3>1. next \in {"reading", "reopening"} /\ saved.revision \in Nat
            BY <2>1 DEF Row
        <3>2. [pc |-> next, file |-> tab[t].file, base |-> saved.revision, again |-> FALSE] \in Tab
            BY <2>1, <3>1 DEF Tab
        <3> QED BY <1>4, <3>2 DEF TypeOK, LoadSaved
    <2>4. \A u \in Tabs : tab'[u].pc # "closed" => tab'[u].file \in Files
        BY <1>4, <2>1 DEF TypeOK, LoadSaved
    <2> QED BY <1>4, <2>2, <2>3, <2>4 DEF TypeOK, LoadSaved
<1>5. CASE ReopenWork(t)
    <2>1. tab' \in [Tabs -> Tab] /\ \A u \in Tabs : tab'[u].pc # "closed" => tab'[u].file \in Files
        BY <1>5 DEF TypeOK, ReopenWork, Tab
    <2>2. workFinished' \in BOOLEAN
        BY <1>5 DEF TypeOK, ReopenWork, Unmarks
    <2> QED BY <1>5, <2>1, <2>2 DEF TypeOK, ReopenWork
<1> QED BY <1>1, <1>2, <1>3, <1>4, <1>5 DEF Web

LEMMA ByHandType ==
    ASSUME TypeOK, ByHand
    PROVE  TypeOK'
<1>1. CASE \E f \in Files : Opened(f)
    <2> PICK f \in Files : Opened(f)
        BY <1>1
    <2> DEFINE new == Written(f, 0, FALSE, NoOne)
    <2>0. new \in Row /\ new.revision > 0
        BY WrittenType DEF Clients
    <2>1. RowsOK'
        <3>1. SetRow(f, new)
            BY DEF Opened
        <3> HIDE DEF new
        <3> QED BY <2>0, <3>1, SetRowType
    <2> QED BY <2>1 DEF TypeOK, Opened, RowsOK
<1>2. CASE \E f \in Files, finished, restart \in BOOLEAN : SetCompletion(f, finished, restart)
    <2> PICK f \in Files, finished \in BOOLEAN, restart \in BOOLEAN : SetCompletion(f, finished, restart)
        BY <1>2
    <2>1. row[f].place \in Nat
        BY DEF TypeOK, Row
    <2>2. PICK place \in Nat : SetRow(f, Written(f, place, finished, NoOne))
        BY <2>1 DEF SetCompletion
    <2>3. RowsOK'
        BY <2>2, WrittenType, SetRowType DEF Clients
    <2>4. late' \in BOOLEAN /\ marks' \in Nat
        BY DEF SetCompletion, TypeOK, NewMark
    <2> QED BY <2>3, <2>4 DEF TypeOK, SetCompletion, RowsOK
<1>3. CASE \E finished \in BOOLEAN : SetWorkFinished(finished)
    BY <1>3 DEF TypeOK, SetWorkFinished, NewMark
<1>4. CASE \E f \in Files, mark \in Marks : UpdateProgress(f, mark)
    <2> PICK f \in Files, mark \in Marks : UpdateProgress(f, mark)
        BY <1>4
    <2>1. MarkedBy(row[f].finished, mark) \in BOOLEAN
        BY MarkedType DEF TypeOK, Row
    <2>2. RowsOK'
        BY <2>1, WrittenType, SetRowType DEF UpdateProgress, Clients
    <2>3. late' \in BOOLEAN /\ marks' \in Nat
        BY DEF UpdateProgress, TypeOK, NewMark
    <2> QED BY <2>2, <2>3 DEF TypeOK, UpdateProgress, RowsOK
<1>5. CASE ReopenWorkLate
    BY <1>5 DEF TypeOK, ReopenWorkLate, Unmarks
<1> QED BY <1>1, <1>2, <1>3, <1>4, <1>5 DEF ByHand

LEMMA KoreaderType ==
    ASSUME TypeOK, NEW d \in Devices, Koreader(d)
    PROVE  TypeOK'
<1>1. CASE \E f \in Files, finishes \in BOOLEAN : PutProgress(d, f, finishes)
    <2> PICK f \in Files, finishes \in BOOLEAN : PutProgress(d, f, finishes)
        BY <1>1
    <2>1. saves + 1 \in Nat /\ saves' \in Nat
        BY DEF TypeOK, PutProgress, NewSave
    <2>2. CASE Unseen(d, f)
        <3>1. \/ apart' = [apart EXCEPT ![f] = [place |-> saves + 1, of |-> d]]
                 /\ UNCHANGED <<row, seen, workFinished, completions, heard, reopened>>
            BY <2>2 DEF PutProgress
        <3>2. apart' \in [Files -> Apart]
            BY <3>1, <2>1 DEF TypeOK, Apart
        <3> QED BY <2>1, <3>1, <3>2 DEF TypeOK, PutProgress
    <2>3. CASE ~Unseen(d, f)
        <3>1. Send(d, f, saves + 1, finishes)
            BY <2>3 DEF PutProgress
        <3>2. /\ RowsOK' /\ apart' \in [Files -> Apart] /\ seen' \in [Devices -> [Files -> Nat]]
              /\ workFinished' \in BOOLEAN /\ heard' \in [Tabs \cup Devices -> SUBSET Nat]
            BY <2>1, <3>1, SendType
        <3> QED BY <2>1, <3>2 DEF TypeOK, PutProgress, RowsOK
    <2> QED BY <2>2, <2>3
<1>2. CASE \E f \in Files, finishes \in BOOLEAN : PutFirst(d, f, finishes)
    <2> PICK f \in Files, finishes \in BOOLEAN : PutFirst(d, f, finishes)
        BY <1>2
    <2>1. [pc |-> "inserting", file |-> f, revision |-> 0, place |-> saves + 1, finishes |-> finishes] \in Device
        BY DEF TypeOK, Device
    <2> QED BY <2>1 DEF TypeOK, PutFirst, NewSave
<1>3. CASE InsertFirst(d)
    <2>1. device[d].file \in Files /\ device[d].place \in Nat /\ device[d].finishes \in BOOLEAN
        BY <1>3 DEF TypeOK, InsertFirst, Device
    <2>2. Send(d, device[d].file, device[d].place, device[d].finishes)
        BY <1>3 DEF InsertFirst
    <2>3. /\ RowsOK' /\ apart' \in [Files -> Apart] /\ seen' \in [Devices -> [Files -> Nat]]
          /\ workFinished' \in BOOLEAN /\ heard' \in [Tabs \cup Devices -> SUBSET Nat]
        BY <2>1, <2>2, SendType
    <2> QED BY <1>3, <2>3, AtRestType DEF TypeOK, InsertFirst, RowsOK
<1>4. CASE \E f \in Files : GetProgress(d, f)
    <2> PICK f \in Files : GetProgress(d, f)
        BY <1>4
    <2>1. [pc |-> "marking", file |-> f, revision |-> row[f].revision, place |-> row[f].place,
           finishes |-> FALSE] \in Device
        BY DEF TypeOK, Device, Row
    <2> QED BY <2>1 DEF TypeOK, GetProgress
<1>5. CASE MarkSeen(d)
    <2>1. device[d].file \in Files /\ device[d].revision \in Nat
        BY <1>5 DEF TypeOK, MarkSeen, Device
    <2>2. device' \in [Devices -> Device] /\ \A e \in Devices : device'[e].pc # "idle" => device'[e].file \in Files
        BY <1>5, <2>1 DEF TypeOK, MarkSeen, Device
    <2>3. seen' \in [Devices -> [Files -> Nat]]
        <3>1. CASE seen' = [seen EXCEPT ![d][device[d].file] = device[d].revision]
            BY <2>1, <3>1 DEF TypeOK
        <3>2. CASE UNCHANGED seen
            BY <3>2 DEF TypeOK
        <3> QED BY <1>5, <3>1, <3>2 DEF MarkSeen
    <2> QED BY <1>5, <2>2, <2>3 DEF TypeOK, MarkSeen
<1>6. CASE Answer(d)
    <2>1. AtRest \in Device /\ AtRest.pc = "idle" /\ device[d].place \in Nat
        BY AtRestType DEF Device, TypeOK
    <2>2. heard' \in [Tabs \cup Devices -> SUBSET Nat]
        BY <1>6, <2>1, HearsType DEF Answer, TypeOK
    <2> QED BY <1>6, <2>1, <2>2 DEF TypeOK, Answer
<1> QED BY <1>1, <1>2, <1>3, <1>4, <1>5, <1>6 DEF Koreader

LEMMA NextType ==
    ASSUME TypeOK, [Next]_vars
    PROVE  TypeOK'
<1>1. CASE UNCHANGED vars
    BY <1>1 DEF TypeOK, vars
<1>2. CASE Next
    BY <1>2, WebType, ByHandType, KoreaderType DEF Next
<1> QED BY <1>1, <1>2

\* The types hold, and a row that says anything has a revision.
THEOREM Typed == Spec => []TypeOK
<1>1. Init => TypeOK
    BY InitType
<1>2. TypeOK /\ [Next]_vars => TypeOK'
    BY NextType
<1> QED BY <1>1, <1>2, PTL DEF Spec
-----------------------------------------------------------------------------
(* Every step writes one row, counting its revision on, or none; and a     *)
(* device that writes a finished row leaves it finished.                   *)

Writes(f, place, finished, by) ==
    /\ SetRow(f, Written(f, place, finished, by))
    /\ by # NoOne /\ row[f].finished => finished

Rests == UNCHANGED <<row, completions, reopened>>

WritesOne == \E f \in Files, place \in Nat, finished \in BOOLEAN, by \in Clients : Writes(f, place, finished, by)

LEMMA SendWrites ==
    ASSUME TypeOK, NEW d \in Devices, NEW f \in Files, NEW place \in Nat, NEW finishes \in BOOLEAN,
           Send(d, f, place, finishes)
    PROVE  WritesOne
<1>1. FinishedAfter(f, finishes) \in BOOLEAN /\ (row[f].finished => FinishedAfter(f, finishes))
    BY DEF TypeOK, Row, FinishedAfter
<1>2. Writes(f, place, FinishedAfter(f, finishes), d)
    BY <1>1 DEF Send, Writes
<1> QED BY <1>1, <1>2 DEF WritesOne, Clients

LEMMA StepWrites ==
    ASSUME TypeOK, [Next]_vars
    PROVE  Rests \/ WritesOne
<1>1. CASE UNCHANGED vars
    BY <1>1 DEF Rests, vars
<1>2. ASSUME NEW t \in Tabs, Web(t)
      PROVE  Rests \/ WritesOne
    <2>1. CASE \E mark \in Marks : Put(t, mark)
        <3> PICK mark \in Marks : Put(t, mark)
            BY <2>1
        <3> DEFINE f == tab[t].file
                   finished == MarkedBy(row[f].finished, mark)
        <3>1. f \in Files /\ finished \in BOOLEAN /\ saves + 1 \in Nat
            BY MarkedType DEF TypeOK, Put, Row
        <3>2. Rests \/ Writes(f, saves + 1, finished, NoOne)
            BY DEF Put, Rests, Writes
        <3> HIDE DEF f, finished
        <3> QED BY <3>1, <3>2 DEF WritesOne, Clients
    <2>2. CASE ~\E mark \in Marks : Put(t, mark)
        BY <1>2, <2>2 DEF Web, Get, AnswerConflict, LoadSaved, ReopenWork, Rests
    <2> QED BY <2>1, <2>2
<1>3. CASE ByHand
    <2>1. CASE \E f \in Files : Opened(f)
        <3> PICK f \in Files : Opened(f)
            BY <2>1
        <3>1. Writes(f, 0, FALSE, NoOne)
            BY DEF Opened, Writes
        <3> QED BY <3>1 DEF WritesOne, Clients
    <2>2. CASE \E f \in Files, finished, restart \in BOOLEAN : SetCompletion(f, finished, restart)
        <3> PICK f \in Files, finished \in BOOLEAN, restart \in BOOLEAN : SetCompletion(f, finished, restart)
            BY <2>2
        <3>1. PICK place \in Nat : SetRow(f, Written(f, place, finished, NoOne))
            BY DEF SetCompletion, TypeOK, Row
        <3>2. Writes(f, place, finished, NoOne)
            BY <3>1 DEF Writes
        <3> QED BY <3>2 DEF WritesOne, Clients
    <2>3. CASE \E f \in Files, mark \in Marks : UpdateProgress(f, mark)
        <3> PICK f \in Files, mark \in Marks : UpdateProgress(f, mark)
            BY <2>3
        <3>1. MarkedBy(row[f].finished, mark) \in BOOLEAN
            BY MarkedType DEF TypeOK, Row
        <3>2. Writes(f, 0, MarkedBy(row[f].finished, mark), NoOne)
            BY DEF UpdateProgress, Writes
        <3> QED BY <3>1, <3>2 DEF WritesOne, Clients
    <2>4. CASE (\E finished \in BOOLEAN : SetWorkFinished(finished)) \/ ReopenWorkLate
        BY <2>4 DEF SetWorkFinished, ReopenWorkLate, Rests
    <2> QED BY <1>3, <2>1, <2>2, <2>3, <2>4 DEF ByHand
<1>4. ASSUME NEW d \in Devices, Koreader(d)
      PROVE  Rests \/ WritesOne
    <2>1. CASE \E f \in Files, finishes \in BOOLEAN : PutProgress(d, f, finishes)
        <3> PICK f \in Files, finishes \in BOOLEAN : PutProgress(d, f, finishes)
            BY <2>1
        <3>1. Rests \/ Send(d, f, saves + 1, finishes)
            BY DEF PutProgress, Rests
        <3>2. saves + 1 \in Nat
            BY DEF TypeOK
        <3> QED BY <3>1, <3>2, SendWrites
    <2>2. CASE InsertFirst(d)
        <3>1. device[d].file \in Files /\ device[d].place \in Nat /\ device[d].finishes \in BOOLEAN
            BY <2>2 DEF TypeOK, InsertFirst, Device
        <3>2. Send(d, device[d].file, device[d].place, device[d].finishes)
            BY <2>2 DEF InsertFirst
        <3> QED BY <3>1, <3>2, SendWrites
    <2>3. CASE \/ \E f \in Files, finishes \in BOOLEAN : PutFirst(d, f, finishes)
               \/ \E f \in Files : GetProgress(d, f)
               \/ MarkSeen(d) \/ Answer(d)
        BY <2>3 DEF PutFirst, GetProgress, MarkSeen, Answer, Rests
    <2> QED BY <1>4, <2>1, <2>2, <2>3 DEF Koreader
<1> QED BY <1>1, <1>2, <1>3, <1>4 DEF Next

\* What one write does to every row.
LEMMA RowsGrow ==
    ASSUME TypeOK, Rests \/ WritesOne, NEW f \in Files
    PROVE  \/ row'[f] = row[f]
           \/ /\ row'[f].revision > row[f].revision
              /\ row[f].finished /\ ~row'[f].finished => row'[f].by = NoOne
<1>1. CASE Rests
    BY <1>1 DEF Rests
<1>2. CASE WritesOne
    <2> PICK g \in Files, place \in Nat, finished \in BOOLEAN, by \in Clients : Writes(g, place, finished, by)
        BY <1>2 DEF WritesOne
    <2> DEFINE new == Written(g, place, finished, by)
    <2>1. new.revision > row[g].revision /\ new.finished = finished /\ new.by = by
        BY WrittenType
    <2>2. row' = [row EXCEPT ![g] = new] /\ (by # NoOne /\ row[g].finished => finished)
        BY DEF Writes, SetRow
    <2> HIDE DEF new
    <2> QED BY <2>1, <2>2 DEF TypeOK
<1> QED BY <1>1, <1>2

-----------------------------------------------------------------------------
(* The count of completions. *)

LEMMA StepCounts ==
    ASSUME TypeOK, CompletionsCounted, Rests \/ WritesOne
    PROVE  CompletionsCounted'
<1>1. CASE Rests
    BY <1>1 DEF Rests, CompletionsCounted
<1>2. CASE WritesOne
    <2> PICK g \in Files, place \in Nat, finished \in BOOLEAN, by \in Clients : Writes(g, place, finished, by)
        BY <1>2 DEF WritesOne
    <2> DEFINE new == Written(g, place, finished, by)
    <2>1. new.finished \in BOOLEAN /\ SetRow(g, new) /\ row[g].finished \in BOOLEAN
        BY WrittenType DEF Writes, TypeOK, Row
    <2> HIDE DEF new
    <2> SUFFICES ASSUME NEW f \in Files
                 PROVE  completions'[f] = reopened'[f] + (IF row'[f].finished THEN 1 ELSE 0)
        BY DEF CompletionsCounted
    <2>2. completions[f] = reopened[f] + (IF row[f].finished THEN 1 ELSE 0) /\ completions[f] \in Nat /\ reopened[f] \in Nat
        BY DEF CompletionsCounted, TypeOK
    <2>3. CASE f # g
        BY <2>1, <2>2, <2>3 DEF SetRow, TypeOK
    <2>4. CASE f = g
        <3>1. row'[f] = new
            BY <2>1, <2>4 DEF SetRow, TypeOK
        <3>2. completions'[f] = IF new.finished /\ ~row[f].finished THEN completions[f] + 1 ELSE completions[f]
            BY <2>1, <2>4 DEF SetRow, TypeOK, Counts
        <3>3. reopened'[f] = IF row[f].finished /\ ~new.finished THEN reopened[f] + 1 ELSE reopened[f]
            BY <2>1, <2>4 DEF SetRow, TypeOK
        <3> QED BY <2>1, <2>2, <2>4, <3>1, <3>2, <3>3
    <2> QED BY <2>3, <2>4
<1> QED BY <1>1, <1>2

\* Every time a file was finished is counted once, however many saves, marks and devices said so.
THEOREM Counted == Spec => []CompletionsCounted
<1>1. Init => CompletionsCounted
    BY DEF Init, CompletionsCounted, NoRow
<1>2. TypeOK /\ CompletionsCounted /\ [Next]_vars => CompletionsCounted'
    BY StepWrites, StepCounts
<1> QED BY <1>1, <1>2, Typed, PTL DEF Spec

\* A device finishes files and never reopens one, whatever it sends and however late.
THEOREM NeverReopened == Spec => DevicesNeverReopen
<1>1. TypeOK /\ [Next]_vars => [\A f \in Files : row[f].finished /\ ~row'[f].finished => row'[f].by = NoOne]_vars
    BY StepWrites, RowsGrow
<1> QED BY <1>1, Typed, PTL DEF Spec, DevicesNeverReopen
-----------------------------------------------------------------------------
(* What is kept apart.  That it is of a device is needed: the web writes   *)
(* rows that are of none.                                                  *)

OfDevices == \A f \in Files : apart[f] # NoneApart => apart[f].of \in Devices

ApartInv == PendingIsOthers /\ OfDevices

\* A step that leaves what is kept apart writes no row as a device.
LEMMA WebWritesOfNoOne ==
    ASSUME TypeOK, ApartInv, UNCHANGED apart, NEW f \in Files, NEW place, NEW finished,
           SetRow(f, Written(f, place, finished, NoOne))
    PROVE  ApartInv'
<1> DEFINE new == Written(f, place, finished, NoOne)
<1>1. row' = [row EXCEPT ![f] = new] /\ new.by = NoOne /\ new.revision > 0
    BY DEF SetRow, Written, TypeOK, Row
<1> HIDE DEF new
<1>2. \A g \in Files : row'[g].by \in {row[g].by, NoOne} /\ (row[g].revision > 0 => row'[g].revision > 0)
    BY <1>1 DEF TypeOK
<1> QED BY <1>2, ReadingAssumption DEF ApartInv, PendingIsOthers, OfDevices

LEMMA RowsRest ==
    ASSUME ApartInv, UNCHANGED <<row, apart>>
    PROVE  ApartInv'
BY DEF ApartInv, PendingIsOthers, OfDevices

LEMMA SendDrops ==
    ASSUME TypeOK, ApartInv, NEW d \in Devices, NEW f \in Files, NEW place, NEW finishes,
           Send(d, f, place, finishes)
    PROVE  ApartInv'
<1> DEFINE new == Written(f, place, FinishedAfter(f, finishes), d)
<1>1. row' = [row EXCEPT ![f] = new] /\ apart' = [apart EXCEPT ![f] = NoneApart]
    BY DEF Send, SetRow, DropApart
<1> HIDE DEF new
<1>2. apart'[f] = NoneApart /\ \A g \in Files \ {f} : row'[g] = row[g] /\ apart'[g] = apart[g]
    BY <1>1 DEF TypeOK
<1> QED BY <1>2 DEF ApartInv, PendingIsOthers, OfDevices

LEMMA StepApart ==
    ASSUME TypeOK, ApartInv, [Next]_vars
    PROVE  ApartInv'
<1>1. CASE UNCHANGED vars
    BY <1>1, RowsRest DEF vars
<1>2. ASSUME NEW t \in Tabs, Web(t)
      PROVE  ApartInv'
    <2>1. CASE \E mark \in Marks : Put(t, mark)
        <3> PICK mark \in Marks : Put(t, mark)
            BY <2>1
        <3>1. tab[t].file \in Files /\ UNCHANGED apart
            BY DEF TypeOK, Put
        <3>2. CASE Takes(tab[t].file, tab[t].base)
            BY <3>1, <3>2, WebWritesOfNoOne DEF Put
        <3>3. CASE ~Takes(tab[t].file, tab[t].base)
            BY <3>1, <3>3, RowsRest DEF Put
        <3> QED BY <3>2, <3>3
    <2>2. CASE ~\E mark \in Marks : Put(t, mark)
        BY <1>2, <2>2, RowsRest DEF Web, Get, AnswerConflict, LoadSaved, ReopenWork
    <2> QED BY <2>1, <2>2
<1>3. CASE ByHand
    <2>1. CASE \E f \in Files : Opened(f)
        BY <2>1, WebWritesOfNoOne DEF Opened
    <2>2. CASE \E f \in Files, finished, restart \in BOOLEAN : SetCompletion(f, finished, restart)
        BY <2>2, WebWritesOfNoOne DEF SetCompletion
    <2>3. CASE \E f \in Files, mark \in Marks : UpdateProgress(f, mark)
        BY <2>3, WebWritesOfNoOne DEF UpdateProgress
    <2>4. CASE (\E finished \in BOOLEAN : SetWorkFinished(finished)) \/ ReopenWorkLate
        BY <2>4, RowsRest DEF SetWorkFinished, ReopenWorkLate
    <2> QED BY <1>3, <2>1, <2>2, <2>3, <2>4 DEF ByHand
<1>4. ASSUME NEW d \in Devices, Koreader(d)
      PROVE  ApartInv'
    <2>1. CASE \E f \in Files, finishes \in BOOLEAN : PutProgress(d, f, finishes)
        <3> PICK f \in Files, finishes \in BOOLEAN : PutProgress(d, f, finishes)
            BY <2>1
        <3>1. CASE Unseen(d, f)
            <4>1. apart' = [apart EXCEPT ![f] = [place |-> saves + 1, of |-> d]] /\ UNCHANGED row
                BY <3>1 DEF PutProgress
            <4>2. row[f].by # d /\ row[f].revision > 0
                BY <3>1 DEF Unseen, PutProgress
            <4>3. apart'[f].of = d /\ \A g \in Files \ {f} : apart'[g] = apart[g]
                BY <4>1 DEF TypeOK
            <4> QED BY <4>1, <4>2, <4>3 DEF ApartInv, PendingIsOthers, OfDevices
        <3>2. CASE ~Unseen(d, f)
            BY <3>2, SendDrops DEF PutProgress
        <3> QED BY <3>1, <3>2
    <2>2. CASE InsertFirst(d)
        BY <2>2, SendDrops DEF InsertFirst, TypeOK
    <2>3. CASE \/ \E f \in Files, finishes \in BOOLEAN : PutFirst(d, f, finishes)
               \/ \E f \in Files : GetProgress(d, f)
               \/ MarkSeen(d) \/ Answer(d)
        BY <2>3, RowsRest DEF PutFirst, GetProgress, MarkSeen, Answer
    <2> QED BY <1>4, <2>1, <2>2, <2>3 DEF Koreader
<1> QED BY <1>1, <1>2, <1>3, <1>4 DEF Next

\* What is kept apart is never of the device whose place is the current one, nor without a row.
THEOREM PendingOfOthers == Spec => []PendingIsOthers
<1>1. Init => ApartInv
    BY DEF Init, ApartInv, PendingIsOthers, OfDevices
<1>2. TypeOK /\ ApartInv /\ [Next]_vars => ApartInv'
    BY StepApart
<1>3. ApartInv => PendingIsOthers
    BY DEF ApartInv
<1> QED BY <1>1, <1>2, <1>3, Typed, PTL DEF Spec

-----------------------------------------------------------------------------
(* What a tab knows: if the revision it would save on is the newest, it    *)
(* was sent the place of that revision.                                    *)

KnowsOf(t) ==
    /\ 0 \in heard[t]
    /\ tab[t].pc # "closed" =>
         /\ tab[t].base <= row[tab[t].file].revision
         /\ tab[t].base = row[tab[t].file].revision => row[tab[t].file].place \in heard[t]

Knows == \A t \in Tabs : KnowsOf(t)

LEMMA HearsMore ==
    ASSUME TypeOK, NEW c \in Tabs \cup Devices, NEW places, Hears(c, places), NEW t \in Tabs
    PROVE  heard[t] \subseteq heard'[t] /\ (t = c => places \subseteq heard'[t])
BY DEF TypeOK, Hears

LEMMA HeardGrows ==
    ASSUME TypeOK, [Next]_vars, NEW t \in Tabs
    PROVE  heard[t] \subseteq heard'[t]
<1>1. CASE UNCHANGED heard
    BY <1>1
<1>2. CASE \E c \in Tabs \cup Devices : \E places \in SUBSET Nat : Hears(c, places)
    BY <1>2, HearsMore
<1>3. UNCHANGED heard \/ \E c \in Tabs \cup Devices : \E places \in SUBSET Nat : Hears(c, places)
    <2>1. ASSUME NEW u \in Tabs, Web(u)
          PROVE  UNCHANGED heard \/ \E places \in SUBSET Nat : Hears(u, places)
        <3>1. \A f \in Files : row[f].place \in Nat
            BY DEF TypeOK, Row
        <3>2. saves + 1 \in Nat
            BY DEF TypeOK
        <3>3. CASE \E f \in Files : Get(u, f)
            <4> PICK f \in Files : Get(u, f)
                BY <3>3
            <4> QED BY <3>1 DEF Get
        <3>4. CASE \E mark \in Marks : Put(u, mark)
            BY <3>2, <3>4 DEF Put
        <3>5. CASE AnswerConflict(u)
            BY <3>1, <3>5 DEF AnswerConflict, TypeOK
        <3>6. CASE LoadSaved(u)
            BY <3>1, <3>6 DEF LoadSaved, TypeOK
        <3>7. CASE ReopenWork(u)
            BY <3>7 DEF ReopenWork
        <3> QED BY <2>1, <3>3, <3>4, <3>5, <3>6, <3>7 DEF Web
    <2>2. CASE ByHand
        BY <2>2 DEF ByHand, Opened, SetCompletion, SetWorkFinished, UpdateProgress, ReopenWorkLate
    <2>3. ASSUME NEW d \in Devices, Koreader(d)
          PROVE  UNCHANGED heard \/ \E places \in SUBSET Nat : Hears(d, places)
        <3>1. saves + 1 \in Nat /\ device[d].place \in Nat
            BY DEF TypeOK, Device
        <3> QED BY <2>3, <3>1 DEF Koreader, PutProgress, PutFirst, InsertFirst, GetProgress, MarkSeen, Answer, Send
    <2>4. CASE UNCHANGED vars
        BY <2>4 DEF vars
    <2> QED BY <2>1, <2>2, <2>3, <2>4 DEF Next
<1> QED BY <1>1, <1>2, <1>3

\* A row that counts on leaves a tab that does nothing with a revision that is not the newest.
LEMMA OthersKnow ==
    ASSUME TypeOK, Knows, [Next]_vars, NEW t \in Tabs,
           tab'[t].pc # "closed" => /\ tab[t].pc # "closed"
                                    /\ tab'[t].file = tab[t].file /\ tab'[t].base = tab[t].base
    PROVE  KnowsOf(t)'
<1>1. heard[t] \subseteq heard'[t] /\ KnowsOf(t)
    BY HeardGrows DEF Knows
<1>2. CASE tab'[t].pc = "closed"
    BY <1>1, <1>2 DEF KnowsOf
<1>3. CASE tab'[t].pc # "closed"
    <2> DEFINE f == tab[t].file
    <2>1. f \in Files /\ row[f].revision \in Nat /\ tab[t].base \in Nat
        BY <1>3 DEF TypeOK, Row, Tab
    <2>2. row' \in [Files -> Row]
        BY NextType DEF TypeOK
    <2>3. row'[f] = row[f] \/ row'[f].revision > row[f].revision
        BY <2>1, StepWrites, RowsGrow
    <2>4. row'[f].revision \in Nat
        BY <2>1, <2>2 DEF Row
    <2>5. tab[t].base <= row[f].revision /\ (tab[t].base = row[f].revision => row[f].place \in heard[t])
        BY <1>1, <1>3 DEF KnowsOf
    <2>6. tab'[t].base <= row'[f].revision /\ (tab'[t].base = row'[f].revision => row'[f].place \in heard'[t])
        BY <1>1, <1>3, <2>1, <2>3, <2>4, <2>5
    <2> QED BY <1>1, <1>3, <2>6 DEF KnowsOf
<1> QED BY <1>2, <1>3

\* A tab that takes the revision of a row is sent its place.
LEMMA SentKnows ==
    ASSUME TypeOK, Knows, NEW t \in Tabs, NEW f \in Files, UNCHANGED row,
           Hears(t, {row[f].place}), tab'[t].file = f, tab'[t].base = row[f].revision
    PROVE  KnowsOf(t)'
<1>1. heard[t] \subseteq heard'[t] /\ row[f].place \in heard'[t]
    BY HearsMore
<1>2. row[f].revision \in Nat
    BY DEF TypeOK, Row
<1> QED BY <1>1, <1>2 DEF Knows, KnowsOf

LEMMA StepKnows ==
    ASSUME TypeOK, Knows, [Next]_vars
    PROVE  Knows'
<1> SUFFICES ASSUME NEW t \in Tabs
             PROVE  KnowsOf(t)'
    BY DEF Knows
<1>1. CASE Web(t)
    <2>1. CASE \E f \in Files : Get(t, f)
        <3> PICK f \in Files : Get(t, f)
            BY <2>1
        <3>1. tab'[t].file = f /\ tab'[t].base = row[f].revision
            BY DEF Get, TypeOK
        <3> QED BY <3>1, SentKnows DEF Get
    <2>2. CASE AnswerConflict(t)
        <3> DEFINE f == tab[t].file
        <3>1. f \in Files /\ UNCHANGED row /\ Hears(t, {row[f].place})
            BY <2>2 DEF TypeOK, AnswerConflict
        <3>2. /\ tab[t].pc # "closed" /\ tab'[t].file = f
              /\ tab'[t].base = IF tab[t].again THEN tab[t].base ELSE row[f].revision
            BY <2>2 DEF AnswerConflict, TypeOK
        <3>3. CASE tab[t].again
            BY <3>2, <3>3, OthersKnow
        <3>4. CASE ~tab[t].again
            BY <3>1, <3>2, <3>4, SentKnows
        <3> QED BY <3>3, <3>4
    <2>3. CASE LoadSaved(t)
        <3> DEFINE f == tab[t].file
        <3>1. f \in Files /\ UNCHANGED row /\ Hears(t, {row[f].place})
            BY <2>3 DEF TypeOK, LoadSaved
        <3>2. tab'[t].file = f /\ tab'[t].base = row[f].revision
            BY <2>3 DEF LoadSaved, TypeOK
        <3> QED BY <3>1, <3>2, SentKnows
    <2>4. CASE (\E mark \in Marks : Put(t, mark)) \/ ReopenWork(t)
        <3>1. tab[t].pc # "closed" /\ tab'[t].file = tab[t].file /\ tab'[t].base = tab[t].base
            BY <2>4 DEF Put, ReopenWork, TypeOK, Tab
        <3> QED BY <3>1, OthersKnow
    <2> QED BY <1>1, <2>1, <2>2, <2>3, <2>4 DEF Web
<1>2. CASE ~Web(t)
    <2>1. tab'[t] = tab[t]
        <3>1. CASE \E u \in Tabs : Web(u)
            <4> PICK u \in Tabs : Web(u)
                BY <3>1
            <4>1. u # t
                BY <1>2
            <4> QED BY <4>1 DEF Web, Get, Put, AnswerConflict, LoadSaved, ReopenWork, TypeOK
        <3>2. CASE ByHand
            BY <3>2 DEF ByHand, Opened, SetCompletion, SetWorkFinished, UpdateProgress, ReopenWorkLate
        <3>3. CASE \E d \in Devices : Koreader(d)
            BY <3>3 DEF Koreader, PutProgress, PutFirst, InsertFirst, GetProgress, MarkSeen, Answer
        <3>4. CASE UNCHANGED vars
            BY <3>4 DEF vars
        <3> QED BY <3>1, <3>2, <3>3, <3>4 DEF Next
    <2> QED BY <2>1, OthersKnow
<1> QED BY <1>1, <1>2

\* A tab that saves knows the place it saves over.
LEMMA SavesOverHeard ==
    ASSUME TypeOK, Knows, [Next]_vars, NEW t \in Tabs, tab[t].pc = "reading", tab'[t].pc = "written"
    PROVE  row[tab[t].file].place \in heard[t]
<1>1. PICK mark \in Marks : Put(t, mark)
    <2>1. CASE \E u \in Tabs : Web(u)
        <3> PICK u \in Tabs : Web(u)
            BY <2>1
        <3>1. CASE \E f \in Files : Get(u, f)
            BY <3>1 DEF Get, TypeOK
        <3>2. CASE \E mark \in Marks : Put(u, mark)
            BY <3>2 DEF Put, TypeOK
        <3>3. CASE AnswerConflict(u) \/ LoadSaved(u) \/ ReopenWork(u)
            BY <3>3 DEF AnswerConflict, LoadSaved, ReopenWork, TypeOK
        <3> QED BY <3>1, <3>2, <3>3 DEF Web
    <2>2. CASE ByHand
        BY <2>2 DEF ByHand, Opened, SetCompletion, SetWorkFinished, UpdateProgress, ReopenWorkLate
    <2>3. CASE \E d \in Devices : Koreader(d)
        BY <2>3 DEF Koreader, PutProgress, PutFirst, InsertFirst, GetProgress, MarkSeen, Answer
    <2>4. CASE UNCHANGED vars
        BY <2>4 DEF vars
    <2> QED BY <2>1, <2>2, <2>3, <2>4 DEF Next
<1> DEFINE f == tab[t].file
<1>2. f \in Files /\ row[f].revision \in {0, tab[t].base}
    <2>1. f \in Files
        BY DEF TypeOK
    <2>2. CASE Takes(f, tab[t].base)
        BY <2>1, <2>2 DEF Takes
    <2>3. CASE ~Takes(f, tab[t].base)
        BY <1>1, <2>3 DEF Put, TypeOK, Tab
    <2> QED BY <2>2, <2>3
<1>3. CASE row[f].revision = 0
    BY <1>2, <1>3 DEF TypeOK, NoRow, Knows, KnowsOf
<1>4. CASE row[f].revision = tab[t].base
    BY <1>4 DEF Knows, KnowsOf
<1> QED BY <1>2, <1>3, <1>4

\* A tab saves over a place only if it was sent that place before.
THEOREM OverwritesHeard == Spec => TabOverwritesHeard
<1>1. Init => Knows
    BY DEF Init, Knows, KnowsOf
<1>2. TypeOK /\ Knows /\ [Next]_vars => Knows'
    BY StepKnows
<1>3. TypeOK /\ Knows /\ [Next]_vars =>
        [\A t \in Tabs :
            LET f == tab[t].file
            IN  tab[t].pc = "reading" /\ tab'[t].pc = "written" => row[f].place \in heard[t]]_vars
    BY SavesOverHeard
<1> QED BY <1>1, <1>2, <1>3, Typed, PTL DEF Spec, TabOverwritesHeard
=============================================================================
