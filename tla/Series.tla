------------------------------- MODULE Series -------------------------------
(***************************************************************************)
(* The series of the works and the official collections that follow them:  *)
(* the analysis of a file, the people who edit, accept, upload and manage  *)
(* collections, and the trigger that keeps the membership                  *)
(* (collections_admin.go, metadata.go, analyzer.py, 00052_collections.sql).*)
(*                                                                         *)
(* PostgreSQL runs every transaction at READ COMMITTED: what one writes is *)
(* seen by the others when it commits, and until then it holds the rows of *)
(* the works it wrote, the collection it was asked about and the advisory  *)
(* locks of the names.  The number in the series and the other fields of a *)
(* work are left out.                                                      *)
(***************************************************************************)
EXTENDS Naturals, FiniteSets

CONSTANTS
    Works,
    Texts,          \* what people, files and providers call a series
    Keys, Key,      \* [Texts -> Keys]: series_key, without case, accents and spaces
    Ids,            \* of the collections
    Worker,         \* the analysis, one work at a time
    Requests,       \* requests of the staff that may be in progress at once
    NoText, NoId

Processes == {Worker} \cup Requests

ASSUME SeriesAssumption ==
    /\ Key \in [Texts -> Keys]
    /\ NoText \notin Texts /\ NoId \notin Ids /\ Worker \notin Requests

VARIABLES
    there,      \* the works of the library
    work,       \* series, series_lock and the source of the series
    name,       \* of the collections, NoText of those that are not there
    leads,      \* collection_keys
    retired,    \* the collections that were put away
    in,         \* collection_works: the official collection of each work
    tx,         \* the transaction each process is in
    overtaken   \* history: works written, or put back, while their collection came or went

vars == <<there, work, name, leads, retired, in, tx, overtaken>>
collections == <<name, leads, retired>>

-----------------------------------------------------------------------------

Work == [series : Texts \cup {NoText}, locked : BOOLEAN, source : {"none", "file", "person"}]
NewWork == [series |-> NoText, locked |-> FALSE, source |-> "none"]

\* todo: the works still to write; done: those written, whose rows are held; synced: those
\* the trigger ran for; to: where it put them; new: the collection it made.
Tx == [pc : {"idle", "filling", "writing", "restoring", "recording"},
       op : {"", "fill", "edit", "add", "remove", "order", "rename", "create", "upload", "restore"},
       coll : Ids \cup {NoId}, text : Texts \cup {NoText}, lock : {"keep", "on", "off"},
       todo : SUBSET Works, done : SUBSET Works, synced : SUBSET Works,
       to : Ids \cup {NoId}, new : Ids \cup {NoId}, keys : SUBSET Keys, raced : BOOLEAN]
Idle == [pc |-> "idle", op |-> "", coll |-> NoId, text |-> NoText, lock |-> "keep",
         todo |-> {}, done |-> {}, synced |-> {}, to |-> NoId, new |-> NoId, keys |-> {}, raced |-> FALSE]

At(p, pc) == tx[p].pc = pc
SetTx(p, t) == tx' = [tx EXCEPT ![p] = t]

Existing(c) == name[c] # NoText
InUse(c) == Existing(c) /\ c \notin retired
KeysOf(t) == IF t = NoText THEN {} ELSE {Key[t]}

\* Rows and advisory locks are waited for until the transaction that holds them ends.
RowFree(p, w) == \A q \in Processes \ {p} : w \notin tx[q].done

\* Mutant: the name is not locked.
KeyFreeAlways(p, t) == TRUE
KeyFree(p, t) == \A q \in Processes \ {p} : KeysOf(t) \cap tx[q].keys = {}

CollectionFree(c) == \A q \in Processes : tx[q].coll # c

-----------------------------------------------------------------------------
(* The trigger. *)

\* The collection a series leads to, for this transaction.
Owner(T) ==
    IF T.text = NoText THEN NoId
    ELSE IF T.op = "rename" THEN T.coll
    ELSE leads[Key[T.text]]

Unused(c) == ~Existing(c) /\ \A q \in Processes : tx[q].new # c

\* "A retired collection takes no work."
Joined(c) == IF c \in retired THEN NoId ELSE c

\* collection_sync_work: where the work of the transaction T goes.
Synced(T, w) ==
    LET c == Owner(T)
        t == [T EXCEPT !.synced = @ \cup {w}, !.keys = @ \cup KeysOf(T.text)]
    IN  IF c # NoId THEN {[t EXCEPT !.to = Joined(c)]}
        ELSE IF T.text = NoText THEN {[t EXCEPT !.to = NoId]}
        ELSE {[t EXCEPT !.to = n, !.new = n] : n \in {x \in Ids : Unused(x)}}

\* readWorkFields and applyWorkFields: the row is held, and the trigger runs when the
\* series or the number in it changes.
Written(p, T, w) ==
    /\ RowFree(p, w)
    /\ LET t == [T EXCEPT !.pc = "writing", !.todo = @ \ {w}, !.done = @ \cup {w}]
           changes == work[w].series # T.text
       IN  \/ KeyFree(p, T.text) /\ \E s \in Synced(t, w) : SetTx(p, s)
           \/ ~changes /\ SetTx(p, t)
    /\ UNCHANGED <<there, work, collections, in, overtaken>>

\* The next of the works of the transaction.
Writes(p) == At(p, "writing") /\ \E w \in tx[p].todo : Written(p, tx[p], w)

-----------------------------------------------------------------------------
(* The analysis of a file: load, update and source are transactions of their own. *)

\* _may_fill
MayFill(w) ==
    /\ ~work[w].locked
    /\ work[w].series = NoText \/ work[w].source = "file"

\* _load_state of save_metadata, and what it decides to write.
Load(w, t) ==
    /\ At(Worker, "idle") /\ w \in there
    /\ MayFill(w) /\ t # work[w].series
    /\ SetTx(Worker, [Idle EXCEPT !.pc = "filling", !.op = "fill", !.text = t, !.todo = {w}])
    /\ UNCHANGED <<there, work, collections, in, overtaken>>

Fill == At(Worker, "filling") /\ \E w \in tx[Worker].todo : Written(Worker, tx[Worker], w)

\* _record_source
RecordSource ==
    /\ At(Worker, "recording")
    /\ \E w \in tx[Worker].todo : RowFree(Worker, w) /\ work' = [work EXCEPT ![w].source = "file"]
    /\ SetTx(Worker, Idle)
    /\ UNCHANGED <<there, collections, in, overtaken>>

-----------------------------------------------------------------------------
(* The staff. *)

\* UpdateWork: a series, or only the lock.
Edit(p, w, t, lock) ==
    /\ At(p, "idle") /\ w \in there
    /\ Written(p, [Idle EXCEPT !.op = "edit", !.text = t, !.lock = lock, !.todo = {w}], w)

\* AcceptCandidate, of a suggestion of a provider.
Accept(p, w, t) == Edit(p, w, t, "keep")

\* ingest with placeInSeries, or without a place.
Upload(p, w, t) ==
    /\ At(p, "idle") /\ w \notin there
    /\ Written(p, [Idle EXCEPT !.op = "upload", !.text = t, !.lock = IF t = NoText THEN "keep" ELSE "on", !.todo = {w}], w)

\* lockOfficial, and the refusal of a collection that was put away.
Managing(p, c) == At(p, "idle") /\ CollectionFree(c) /\ InUse(c)

\* AddWork: the collection and its name, then the work.
AddWork(p, c, w) ==
    /\ Managing(p, c) /\ w \in there
    /\ SetTx(p, [Idle EXCEPT !.pc = "writing", !.op = "add", !.coll = c, !.text = name[c], !.lock = "on", !.todo = {w}])
    /\ UNCHANGED <<there, work, collections, in, overtaken>>

\* RemoveWork: the work is in the collection; then its series goes.
RemoveWork(p, c, w) ==
    /\ Managing(p, c) /\ in[w] = c
    /\ SetTx(p, [Idle EXCEPT !.pc = "writing", !.op = "remove", !.coll = c, !.lock = "on", !.todo = {w}])
    /\ UNCHANGED <<there, work, collections, in, overtaken>>

\* Order: the works of the collection, or of one group of it, are written anew, with
\* their numbers.
Order(p, c) ==
    /\ Managing(p, c)
    /\ \E group \in SUBSET {w \in Works : in[w] = c} :
          SetTx(p, [Idle EXCEPT !.pc = "writing", !.op = "order", !.coll = c, !.text = name[c], !.lock = "on",
                                !.todo = group])
    /\ UNCHANGED <<there, work, collections, in, overtaken>>

\* Rename: the name is locked and must be free, or lead here already.
Rename(p, c, t) ==
    /\ Managing(p, c) /\ KeyFree(p, t)
    /\ leads[Key[t]] \in {NoId, c}
    /\ SetTx(p, [Idle EXCEPT !.pc = "writing", !.op = "rename", !.coll = c, !.text = t, !.lock = "on", !.keys = KeysOf(t),
                             !.todo = {w \in Works : in[w] = c}])
    /\ UNCHANGED <<there, work, collections, in, overtaken>>

\* Create: of a name that leads nowhere, "retired ones too".
Create(p, t) ==
    /\ At(p, "idle") /\ KeyFree(p, t)
    /\ leads[Key[t]] = NoId
    /\ \E n \in {x \in Ids : Unused(x)} :
          SetTx(p, [Idle EXCEPT !.pc = "writing", !.op = "create", !.text = t, !.keys = KeysOf(t), !.new = n])
    /\ UNCHANGED <<there, work, collections, in, overtaken>>

-----------------------------------------------------------------------------
(* Commits. *)

\* What applyWorkFields leaves of a work: what changes is confirmed and locked.
Applied(T, w) ==
    LET changed == work[w].series # T.text
    IN  CASE T.op = "fill" -> [work[w] EXCEPT !.series = T.text]
          [] T.op # "fill" /\ changed -> [series |-> T.text, locked |-> TRUE, source |-> "person"]
          [] T.op # "fill" /\ ~changed -> [work[w] EXCEPT !.locked = (T.lock = "on") \/ (@ /\ T.lock # "off")]

\* Mutant: the new name replaces the one the collection was born from.
OnlyTheName(T) ==
    [k \in Keys |-> IF k \in KeysOf(T.text) THEN T.coll ELSE IF leads[k] = T.coll THEN NoId ELSE leads[k]]

\* "The text the collection was born from stays attached to it."
Renamed(T) == [k \in Keys |-> IF k \in KeysOf(T.text) THEN T.coll ELSE leads[k]]

Commit(p) ==
    LET T == tx[p]
    IN  /\ T.pc = "writing" /\ T.todo = {}
        /\ there' = there \cup T.done
        /\ work' = [w \in Works |-> IF w \in T.done THEN Applied(T, w) ELSE work[w]]
        /\ in' = [w \in Works |-> IF w \in T.synced THEN T.to ELSE in[w]]
        /\ IF T.op = "rename"
           THEN name' = [name EXCEPT ![T.coll] = T.text] /\ leads' = Renamed(T)
           ELSE /\ name' = [c \in Ids |-> IF c = T.new THEN T.text ELSE name[c]]
                /\ leads' = [k \in Keys |-> IF T.new # NoId /\ k \in KeysOf(T.text) THEN T.new ELSE leads[k]]
        /\ overtaken' = IF T.raced THEN overtaken \cup T.synced ELSE overtaken \ T.synced
        /\ SetTx(p, IF T.op = "fill" THEN [Idle EXCEPT !.pc = "recording", !.todo = T.done] ELSE Idle)
        /\ UNCHANGED retired

\* The transactions that wrote a work by a name of the collection, and did not commit.
Raced(p, t, c) ==
    [q \in Processes |->
        IF q = p THEN t
        ELSE IF tx[q].synced # {} /\ tx[q].text # NoText /\ leads[Key[tx[q].text]] = c THEN [tx[q] EXCEPT !.raced = TRUE]
        ELSE tx[q]]

\* Retire: one that moves a work of the collection is waited for.
Retire(p, c) ==
    /\ Managing(p, c)
    /\ \A w \in Works : in[w] = c => \A q \in Processes : w \notin tx[q].synced
    /\ in' = [w \in Works |-> IF in[w] = c THEN NoId ELSE in[w]]
    /\ retired' = retired \cup {c}
    /\ tx' = Raced(p, tx[p], c)
    /\ UNCHANGED <<there, work, name, leads, overtaken>>

\* Restore: the works whose series leads to it are listed, ...
LeadsTo(c) == {w \in there : work[w].series # NoText /\ leads[Key[work[w].series]] = c}
BeginRestore(p, c) ==
    /\ At(p, "idle") /\ CollectionFree(c) /\ c \in retired
    /\ SetTx(p, [Idle EXCEPT !.pc = "restoring", !.op = "restore", !.coll = c, !.todo = LeadsTo(c),
                             !.keys = {}])
    /\ UNCHANGED <<there, work, collections, in, overtaken>>

\* ... and put in it, by the series the list has, without holding their rows.
CommitRestore(p) ==
    LET c == tx[p].coll
        list == tx[p].todo
    IN  /\ At(p, "restoring")
        /\ \A q \in Processes \ {p} : tx[q].done \cap list = {} /\ (list # {} => \A k \in tx[q].keys : leads[k] # c)
        /\ in' = [w \in Works |-> IF w \in list THEN c ELSE in[w]]
        /\ retired' = retired \ {c}
        /\ overtaken' = (overtaken \ list) \cup ((LeadsTo(c) \ list) \cup (list \ LeadsTo(c)))
        /\ tx' = Raced(p, Idle, c)
        /\ UNCHANGED <<there, work, name, leads>>

\* A transaction that fails, is the victim of a deadlock, or whose process dies.
Fails(p) ==
    /\ ~At(p, "idle")
    /\ SetTx(p, Idle)
    /\ UNCHANGED <<there, work, collections, in, overtaken>>

-----------------------------------------------------------------------------

Init ==
    /\ there = {} /\ work = [w \in Works |-> NewWork]
    /\ name = [c \in Ids |-> NoText] /\ leads = [k \in Keys |-> NoId] /\ retired = {}
    /\ in = [w \in Works |-> NoId]
    /\ tx = [p \in Processes |-> Idle]
    /\ overtaken = {}

Analysis == (\E w \in Works, t \in Texts : Load(w, t)) \/ Fill \/ RecordSource

Staff(p) ==
    \/ \E w \in Works, t \in Texts \cup {NoText} :
          \/ \E lock \in {"keep", "on", "off"} : Edit(p, w, t, lock)
          \/ Upload(p, w, t)
    \/ \E w \in Works, t \in Texts : Accept(p, w, t)
    \/ \E c \in Ids, w \in Works : AddWork(p, c, w) \/ RemoveWork(p, c, w)
    \/ \E c \in Ids : Order(p, c) \/ Retire(p, c) \/ BeginRestore(p, c)
    \/ \E c \in Ids, t \in Texts : Rename(p, c, t)
    \/ \E t \in Texts : Create(p, t)
    \/ CommitRestore(p)

Next ==
    \/ Analysis
    \/ \E p \in Requests : Staff(p)
    \/ \E p \in Processes : Writes(p) \/ Commit(p) \/ Fails(p)

Spec == Init /\ [][Next]_vars

-----------------------------------------------------------------------------
(* Properties. *)

TypeOK ==
    /\ there \subseteq Works /\ work \in [Works -> Work]
    /\ name \in [Ids -> Texts \cup {NoText}] /\ leads \in [Keys -> Ids \cup {NoId}] /\ retired \subseteq Ids
    /\ in \in [Works -> Ids \cup {NoId}]
    /\ tx \in [Processes -> Tx]
    /\ overtaken \subseteq Works

\* The collection a name leads to, if it takes works.
Leads(t) == IF t = NoText \/ leads[Key[t]] \in retired THEN NoId ELSE leads[Key[t]]

\* "The membership follows them" (00052): a work is in the collection its series leads to,
\* and in none if it leads to one that was put away; whoever wrote it last, and however
\* the collection is called by then.  The works that were written while their collection
\* was put away or restored are excepted.
FollowsSeries == \A w \in there \ overtaken : in[w] = Leads(work[w].series)

\* The name of a collection leads to it, so no two have the same name and AddWork, which
\* writes the name on the work, adds it to this one.
NameLeadsHome == \A c \in Ids : Existing(c) => leads[Key[name[c]]] = c

\* "It never overwrites a locked field" (analyzer.py, save_metadata): the locks are read
\* in one transaction and the series written in another.
LockedIsKept ==
    [][\A w \in Works : tx[Worker].op = "fill" /\ tx'[Worker].pc = "recording" /\ work[w].locked
          => work'[w].series = work[w].series]_vars

\* "A retired collection takes no work" (00052).
RetiredIsEmpty == \A w \in Works : in[w] \notin retired

\* "The work leaves the collection" (collections_admin.go), and no other.
RemovesFromIt ==
    [][\A p \in Requests, w \in Works :
          tx[p].op = "remove" /\ w \in tx[p].done /\ in'[w] # in[w] => in[w] = tx[p].coll]_vars
=============================================================================
