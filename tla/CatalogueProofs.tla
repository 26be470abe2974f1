-------------------------- MODULE CatalogueProofs --------------------------
(***************************************************************************)
(* Proofs about the safety of what the library knows of its works: of      *)
(* Series, for any works, names, collections and requests in progress, and *)
(* of People, for any works, names, identifiers and merges in progress.    *)
(***************************************************************************)
EXTENDS Series, People, TLAPS

-----------------------------------------------------------------------------
(* The inductive invariant: what holds of each open transaction, what two  *)
(* of them may not share, and what was committed.                          *)

\* The name a collection is given is locked, and leads nowhere or here.
Renames(T) ==
    T.op = "rename" =>
        /\ T.coll \in Ids /\ InUse(T.coll) /\ T.new = NoId
        /\ T.text \in Texts /\ Key[T.text] \in T.keys /\ leads[Key[T.text]] \in {NoId, T.coll}

\* So is that of a collection that is made, and it leads nowhere.
Makes(T) ==
    T.new # NoId =>
        /\ ~Existing(T.new) /\ T.op # "rename"
        /\ T.text \in Texts /\ Key[T.text] \in T.keys /\ leads[Key[T.text]] = NoId

\* Where the works the trigger ran for belong, when the transaction commits.
Place(T) ==
    IF T.text = NoText THEN NoId
    ELSE IF T.op = "rename" THEN T.coll
    ELSE IF T.new # NoId THEN T.new
    ELSE Leads(T.text)

\* The works the trigger ran for are put in their place, with its name locked, unless the
\* place came or went since; ...
Placed(T) ==
    /\ T.synced \subseteq T.done
    /\ T.synced # {} =>
          /\ KeysOf(T.text) \subseteq T.keys
          /\ T.text # NoText => T.op = "rename" \/ T.new # NoId \/ leads[Key[T.text]] # NoId
          /\ ~T.raced => T.to = Place(T)
    /\ T.pc = "idle" => T.synced = {}
    /\ T.pc = "restoring" => T.todo \subseteq there /\ T.coll \in Ids

\* ... the others that were written had this series before.
Had(T, S) == \A w \in S : work[w].series = T.text

Writing(T) == Placed(T) /\ Had(T, T.done \ T.synced)

Sound(T) == T \in Tx /\ Renames(T) /\ Makes(T) /\ Writing(T)

\* Two transactions hold different rows, names and collections.
Apart(T, U) ==
    /\ T.done \cap U.done = {} /\ T.keys \cap U.keys = {}
    /\ T.coll # NoId => T.coll # U.coll
    /\ T.new # NoId => T.new # U.new

Open ==
    \A p \in Processes : Sound(tx[p]) /\ \A q \in Processes \ {p} : Apart(tx[p], tx[q])

\* A work that is not there has no series and is nowhere.
NotThere == \A w \in Works \ there : work[w].series = NoText /\ in[w] = NoId

\* The series of a work leads somewhere.
SeriesLead == \A w \in there : work[w].series # NoText => leads[Key[work[w].series]] # NoId

RetiredExist == \A c \in retired : Existing(c)

IInv == TypeOK /\ NameLeadsHome /\ FollowsSeries /\ Open /\ NotThere /\ SeriesLead /\ RetiredExist

LEMMA ApartBoth ==
    ASSUME NEW T, NEW U, Apart(T, U)
    PROVE  Apart(U, T)
BY DEF Apart

LEMMA KeysAre ==
    ASSUME NEW t \in Texts \cup {NoText}
    PROVE  KeysOf(t) \subseteq Keys /\ (t # NoText => KeysOf(t) = {Key[t]})
<1>1. CASE t = NoText
    BY <1>1 DEF KeysOf
<1>2. CASE t # NoText
    <2>1. t \in Texts /\ KeysOf(t) = {Key[t]}
        BY <1>2 DEF KeysOf
    <2> QED BY <1>2, <2>1, SeriesAssumption
<1> QED BY <1>1, <1>2

\* What the invariant says of one transaction.
LEMMA OpenIs ==
    ASSUME IInv, NEW p \in Processes
    PROVE  tx[p] \in Tx /\ Sound(tx[p]) /\ \A q \in Processes \ {p} : Apart(tx[p], tx[q])
BY DEF IInv, Open, Sound

LEMMA IdleSound == Sound(Idle) /\ \A U : Apart(Idle, U)
BY SeriesAssumption DEF Idle, Tx, Sound, Renames, Makes, Writing, Placed, Had, Apart

LEMMA InitIInv == Init => IInv
<1> SUFFICES ASSUME Init PROVE IInv
    OBVIOUS
<1>1. TypeOK
    BY IdleSound DEF Init, TypeOK, Work, NewWork, Sound
<1>2. Open
    BY IdleSound DEF Init, Open
<1> QED BY <1>1, <1>2 DEF Init, IInv, NameLeadsHome, FollowsSeries, NotThere, SeriesLead, RetiredExist, Existing, NewWork

-----------------------------------------------------------------------------
(* The steps that write nothing that is committed: they open, continue or  *)
(* give up one transaction.                                                *)

committed == <<there, work, name, leads, retired, in, overtaken>>

\* A transaction that can be that of p.
Fits(p, T) == Sound(T) /\ \A q \in Processes \ {p} : Apart(T, tx[q])

Proceeds(p) == \E T : Fits(p, T) /\ SetTx(p, T) /\ UNCHANGED committed

LEMMA ProceedsKeeps ==
    ASSUME IInv, NEW p \in Processes, Proceeds(p)
    PROVE  IInv'
<1> PICK T : Fits(p, T) /\ SetTx(p, T) /\ UNCHANGED committed
    BY DEF Proceeds
<1>1. T \in Tx
    BY DEF Fits, Sound
<1>2. tx \in [Processes -> Tx]
    BY DEF IInv, TypeOK
<1>3. tx' = [tx EXCEPT ![p] = T] /\ tx' \in [Processes -> Tx]
    BY <1>1, <1>2 DEF SetTx
<1>4. TypeOK'
    BY <1>3 DEF IInv, TypeOK, committed
<1>5. (NameLeadsHome /\ FollowsSeries /\ NotThere /\ SeriesLead /\ RetiredExist)'
    BY DEF IInv, committed, NameLeadsHome, FollowsSeries, NotThere, SeriesLead, RetiredExist, Existing, Leads
<1>6. \A q \in Processes : Sound(tx'[q])
    BY <1>2, <1>3, OpenIs DEF Fits
<1>7. \A q \in Processes : Sound(tx[q])'
    BY <1>6 DEF committed, Sound, Renames, Makes, Writing, Placed, Had, Place, Leads, Existing, InUse
<1>8. \A q \in Processes : \A r \in Processes \ {q} : Apart(tx'[q], tx'[r])
    <2> SUFFICES ASSUME NEW q \in Processes, NEW r \in Processes \ {q}
                 PROVE  Apart(tx'[q], tx'[r])
        OBVIOUS
    <2>1. CASE q = p
        BY <2>1, <1>2, <1>3 DEF Fits
    <2>2. CASE r = p
        <3>1. Apart(T, tx[q])
            BY <2>2 DEF Fits
        <3> QED BY <3>1, <2>2, <1>2, <1>3, ApartBoth
    <2>3. CASE q # p /\ r # p
        BY <2>3, <1>2, <1>3, OpenIs
    <2> QED BY <2>1, <2>2, <2>3
<1>9. Open'
    BY <1>7, <1>8 DEF Open, Apart
<1> QED BY <1>4, <1>5, <1>9 DEF IInv

-----------------------------------------------------------------------------
(* The writing of a work.                                                  *)

\* What the trigger makes of a transaction that holds the row of a work.
LEMMA SyncedIs ==
    ASSUME IInv, NEW p \in Processes, NEW T \in Tx, Renames(T), Makes(T), Placed(T),
           \A q \in Processes \ {p} : Apart(T, tx[q]), KeyFree(p, T.text), T.pc = "writing",
           NEW w \in T.done, Had(T, T.done \ (T.synced \cup {w})), NEW S \in Synced(T, w)
    PROVE  Fits(p, S)
<1> DEFINE c == Owner(T)
           t == [T EXCEPT !.synced = @ \cup {w}, !.keys = @ \cup KeysOf(T.text)]
<1>1. KeysOf(T.text) \subseteq Keys /\ (T.text # NoText => KeysOf(T.text) = {Key[T.text]})
    BY KeysAre DEF Tx
<1>2. /\ t \in Tx /\ t.synced = T.synced \cup {w} /\ t.keys = T.keys \cup KeysOf(T.text)
      /\ t.op = T.op /\ t.coll = T.coll /\ t.text = T.text /\ t.done = T.done /\ t.new = T.new
      /\ t.raced = T.raced /\ t.pc = T.pc
    BY <1>1 DEF Tx
<1>3. leads \in [Keys -> Ids \cup {NoId}]
    BY DEF IInv, TypeOK
<1>4. c \in Ids \cup {NoId}
    BY <1>1, <1>3, SeriesAssumption DEF Owner, Tx
<1>5. \A q \in Processes \ {p} : Apart(t, tx[q])
    BY <1>2 DEF Apart, KeyFree
<1>6. CASE c # NoId
    <2>1. S = [t EXCEPT !.to = Joined(c)]
        BY <1>6 DEF Synced
    <2>2. /\ S \in Tx /\ S.to = Joined(c) /\ S.synced = t.synced /\ S.keys = t.keys /\ S.raced = t.raced
          /\ S.op = t.op /\ S.coll = t.coll /\ S.text = t.text /\ S.done = t.done /\ S.new = t.new /\ S.pc = t.pc
        BY <1>2, <1>4, <2>1 DEF Tx, Joined
    <2>3. Renames(S) /\ Makes(S)
        BY <1>2, <2>2 DEF Renames, Makes
    <2>4. Joined(c) = Place(S) /\ T.text # NoText /\ (T.op = "rename" \/ leads[Key[T.text]] # NoId)
        BY <1>2, <1>6, <2>2 DEF Owner, Joined, Place, Leads, Renames, Makes, InUse
    <2>5. Writing(S)
        BY <1>2, <2>2, <2>4 DEF Writing, Placed, Had
    <2>6. \A q \in Processes \ {p} : Apart(S, tx[q])
        BY <1>5, <2>2 DEF Apart
    <2> QED BY <2>2, <2>3, <2>5, <2>6 DEF Fits, Sound
<1>7. CASE c = NoId /\ T.text = NoText
    <2>1. S = [t EXCEPT !.to = NoId]
        BY <1>7 DEF Synced
    <2>2. /\ S \in Tx /\ S.to = NoId /\ S.synced = t.synced /\ S.keys = t.keys /\ S.raced = t.raced
          /\ S.op = t.op /\ S.coll = t.coll /\ S.text = t.text /\ S.done = t.done /\ S.new = t.new /\ S.pc = t.pc
        BY <1>2, <2>1 DEF Tx
    <2>3. Renames(S) /\ Makes(S)
        BY <1>2, <2>2 DEF Renames, Makes
    <2>4. Writing(S)
        BY <1>2, <1>7, <2>2 DEF Writing, Placed, Had, Place
    <2>5. \A q \in Processes \ {p} : Apart(S, tx[q])
        BY <1>5, <2>2 DEF Apart
    <2> QED BY <2>2, <2>3, <2>4, <2>5 DEF Fits, Sound
<1>8. CASE c = NoId /\ T.text # NoText
    <2>1. PICK n \in Ids : Unused(n) /\ S = [t EXCEPT !.to = n, !.new = n]
        BY <1>8 DEF Synced
    <2>2. /\ S \in Tx /\ S.to = n /\ S.synced = t.synced /\ S.keys = t.keys /\ S.raced = t.raced
          /\ S.op = t.op /\ S.coll = t.coll /\ S.text = t.text /\ S.done = t.done /\ S.new = n /\ S.pc = t.pc
        BY <1>2, <2>1 DEF Tx
    <2>3. T.op # "rename" /\ leads[Key[T.text]] = NoId /\ T.text \in Texts
        BY <1>8, SeriesAssumption DEF Owner, Renames, Tx
    <2>4. n # NoId /\ Key[T.text] \in S.keys
        BY <1>1, <1>2, <1>8, <2>2, SeriesAssumption
    <2>5. Renames(S) /\ Makes(S)
        BY <1>2, <2>1, <2>2, <2>3, <2>4 DEF Renames, Makes, Unused
    <2>6. Writing(S)
        BY <1>2, <1>8, <2>2, <2>3, <2>4 DEF Writing, Placed, Had, Place
    <2>7. \A q \in Processes \ {p} : Apart(S, tx[q])
        BY <1>5, <2>1, <2>2 DEF Apart, Unused
    <2> QED BY <2>2, <2>5, <2>6, <2>7 DEF Fits, Sound
<1> QED BY <1>6, <1>7, <1>8

LEMMA WrittenProceeds ==
    ASSUME IInv, NEW p \in Processes, NEW T, Fits(p, T), NEW w \in Works, T.pc # "restoring", Written(p, T, w)
    PROVE  Proceeds(p)
<1> DEFINE t == [T EXCEPT !.pc = "writing", !.todo = @ \ {w}, !.done = @ \cup {w}]
<1>1. T \in Tx /\ Renames(T) /\ Makes(T) /\ Writing(T)
    BY DEF Fits, Sound
<1>2. /\ t \in Tx /\ t.done = T.done \cup {w} /\ t.synced = T.synced /\ t.keys = T.keys
      /\ t.op = T.op /\ t.coll = T.coll /\ t.text = T.text /\ t.new = T.new /\ t.to = T.to
      /\ t.raced = T.raced /\ t.pc = "writing"
    BY <1>1 DEF Tx
<1>3. Renames(t) /\ Makes(t)
    BY <1>1, <1>2 DEF Renames, Makes
<1>4. \A q \in Processes \ {p} : Apart(t, tx[q])
    BY <1>2 DEF Fits, Apart, Written, RowFree
<1>5. UNCHANGED committed
    BY DEF Written, committed, collections
<1>6. CASE work[w].series = T.text /\ SetTx(p, t)
    <2>1. Writing(t)
        BY <1>1, <1>2, <1>6 DEF Writing, Placed, Had, Place
    <2>2. Fits(p, t)
        BY <1>2, <1>3, <1>4, <2>1 DEF Fits, Sound
    <2> QED BY <1>5, <1>6, <2>2 DEF Proceeds
<1>7. CASE KeyFree(p, T.text) /\ \E S \in Synced(t, w) : SetTx(p, S)
    <2>1. PICK S \in Synced(t, w) : SetTx(p, S)
        BY <1>7
    <2>2. Placed(t) /\ Had(t, t.done \ (t.synced \cup {w}))
        BY <1>1, <1>2 DEF Writing, Placed, Had, Place
    <2>3. KeyFree(p, t.text) /\ w \in t.done
        BY <1>2, <1>7
    <2> HIDE DEF t
    <2>4. Fits(p, S)
        BY <1>2, <1>3, <1>4, <2>2, <2>3, SyncedIs
    <2> QED BY <1>5, <2>1, <2>4 DEF Proceeds
<1> QED BY <1>6, <1>7 DEF Written

-----------------------------------------------------------------------------
(* The opening of a transaction.                                           *)

LEMMA OpensFits ==
    ASSUME IInv, NEW p \in Processes, NEW T \in Tx, T.done = {}, T.synced = {}, Renames(T), Makes(T),
           T.coll # NoId => CollectionFree(T.coll), T.new # NoId => Unused(T.new),
           \A q \in Processes \ {p} : T.keys \cap tx[q].keys = {},
           T.pc = "restoring" => T.todo \subseteq there /\ T.coll \in Ids
    PROVE  Fits(p, T)
<1>1. Writing(T)
    BY DEF Writing, Placed, Had
<1>2. \A q \in Processes \ {p} : Apart(T, tx[q])
    BY DEF Apart, CollectionFree, Unused
<1> QED BY <1>1, <1>2 DEF Fits, Sound

\* One that holds nothing yet.
LEMMA FreshFits ==
    ASSUME IInv, NEW p \in Processes, NEW T \in Tx, T.done = {}, T.synced = {}, T.keys = {},
           T.op # "rename", T.coll = NoId, T.new = NoId, T.pc # "restoring"
    PROVE  Fits(p, T)
BY OpensFits DEF Renames, Makes

LEMMA LoadProceeds ==
    ASSUME IInv, NEW w \in Works, NEW t \in Texts, Load(w, t)
    PROVE  Proceeds(Worker)
<1> DEFINE T == [Idle EXCEPT !.pc = "filling", !.op = "fill", !.text = t, !.todo = {w}]
<1>1. /\ T \in Tx /\ T.done = {} /\ T.synced = {} /\ T.keys = {} /\ T.op = "fill" /\ T.coll = NoId
      /\ T.new = NoId /\ T.pc = "filling"
    BY DEF Idle, Tx
<1>2. SetTx(Worker, T) /\ UNCHANGED committed
    BY DEF Load, committed, collections
<1> HIDE DEF T
<1>3. Fits(Worker, T)
    BY <1>1, FreshFits DEF Processes
<1> QED BY <1>2, <1>3 DEF Proceeds

LEMMA EditProceeds ==
    ASSUME IInv, NEW p \in Processes, NEW w \in Works, NEW t \in Texts \cup {NoText}, NEW lock \in {"keep", "on", "off"},
           Edit(p, w, t, lock)
    PROVE  Proceeds(p)
<1> DEFINE T == [Idle EXCEPT !.op = "edit", !.text = t, !.lock = lock, !.todo = {w}]
<1>1. /\ T \in Tx /\ T.done = {} /\ T.synced = {} /\ T.keys = {} /\ T.op = "edit" /\ T.coll = NoId
      /\ T.new = NoId /\ T.pc = "idle"
    BY DEF Idle, Tx
<1>2. Written(p, T, w)
    BY DEF Edit
<1> HIDE DEF T
<1>3. Fits(p, T)
    BY <1>1, FreshFits
<1> QED BY <1>1, <1>2, <1>3, WrittenProceeds

LEMMA UploadProceeds ==
    ASSUME IInv, NEW p \in Processes, NEW w \in Works, NEW t \in Texts \cup {NoText}, Upload(p, w, t)
    PROVE  Proceeds(p)
<1> DEFINE T == [Idle EXCEPT !.op = "upload", !.text = t, !.lock = IF t = NoText THEN "keep" ELSE "on", !.todo = {w}]
<1>1. /\ T \in Tx /\ T.done = {} /\ T.synced = {} /\ T.keys = {} /\ T.op = "upload" /\ T.coll = NoId
      /\ T.new = NoId /\ T.pc = "idle"
    BY DEF Idle, Tx
<1>2. Written(p, T, w)
    BY DEF Upload
<1> HIDE DEF T
<1>3. Fits(p, T)
    BY <1>1, FreshFits
<1> QED BY <1>1, <1>2, <1>3, WrittenProceeds

\* One that holds a collection in use, and works by its name or by none.
LEMMA ManagesFits ==
    ASSUME IInv, NEW p \in Processes, NEW c \in Ids, Managing(p, c), NEW T \in Tx, T.done = {}, T.synced = {}, T.keys = {},
           T.op # "rename", T.coll = c, T.new = NoId, T.pc = "writing"
    PROVE  Fits(p, T)
<1>1. Renames(T) /\ Makes(T) /\ CollectionFree(T.coll)
    BY DEF Renames, Makes, Managing
<1> QED BY <1>1, OpensFits

LEMMA AddProceeds ==
    ASSUME IInv, NEW p \in Processes, NEW c \in Ids, NEW w \in Works, AddWork(p, c, w)
    PROVE  Proceeds(p)
<1> DEFINE T == [Idle EXCEPT !.pc = "writing", !.op = "add", !.coll = c, !.text = name[c], !.lock = "on", !.todo = {w}]
<1>1. name[c] \in Texts \cup {NoText}
    BY DEF IInv, TypeOK
<1>2. /\ T \in Tx /\ T.done = {} /\ T.synced = {} /\ T.keys = {} /\ T.op = "add" /\ T.coll = c
      /\ T.new = NoId /\ T.pc = "writing"
    BY <1>1 DEF Idle, Tx
<1>3. Managing(p, c) /\ SetTx(p, T) /\ UNCHANGED committed
    BY DEF AddWork, committed, collections
<1> HIDE DEF T
<1>4. Fits(p, T)
    BY <1>2, <1>3, ManagesFits
<1> QED BY <1>3, <1>4 DEF Proceeds

LEMMA RemoveProceeds ==
    ASSUME IInv, NEW p \in Processes, NEW c \in Ids, NEW w \in Works, RemoveWork(p, c, w)
    PROVE  Proceeds(p)
<1> DEFINE T == [Idle EXCEPT !.pc = "writing", !.op = "remove", !.coll = c, !.lock = "on", !.todo = {w}]
<1>1. /\ T \in Tx /\ T.done = {} /\ T.synced = {} /\ T.keys = {} /\ T.op = "remove" /\ T.coll = c
      /\ T.new = NoId /\ T.pc = "writing"
    BY DEF Idle, Tx
<1>2. Managing(p, c) /\ SetTx(p, T) /\ UNCHANGED committed
    BY DEF RemoveWork, committed, collections
<1> HIDE DEF T
<1>3. Fits(p, T)
    BY <1>1, <1>2, ManagesFits
<1> QED BY <1>2, <1>3 DEF Proceeds

LEMMA OrderProceeds ==
    ASSUME IInv, NEW p \in Processes, NEW c \in Ids, Order(p, c)
    PROVE  Proceeds(p)
<1> PICK group \in SUBSET {w \in Works : in[w] = c} :
        SetTx(p, [Idle EXCEPT !.pc = "writing", !.op = "order", !.coll = c, !.text = name[c], !.lock = "on",
                              !.todo = group])
    BY DEF Order
<1> DEFINE T == [Idle EXCEPT !.pc = "writing", !.op = "order", !.coll = c, !.text = name[c], !.lock = "on",
                             !.todo = group]
<1>1. name[c] \in Texts \cup {NoText}
    BY DEF IInv, TypeOK
<1>2. /\ T \in Tx /\ T.done = {} /\ T.synced = {} /\ T.keys = {} /\ T.op = "order" /\ T.coll = c
      /\ T.new = NoId /\ T.pc = "writing"
    BY <1>1 DEF Idle, Tx
<1>3. Managing(p, c) /\ SetTx(p, T) /\ UNCHANGED committed
    BY DEF Order, committed, collections
<1> HIDE DEF T
<1>4. Fits(p, T)
    BY <1>2, <1>3, ManagesFits
<1> QED BY <1>3, <1>4 DEF Proceeds

LEMMA RenameProceeds ==
    ASSUME IInv, NEW p \in Processes, NEW c \in Ids, NEW t \in Texts, Rename(p, c, t)
    PROVE  Proceeds(p)
<1> DEFINE T == [Idle EXCEPT !.pc = "writing", !.op = "rename", !.coll = c, !.text = t, !.lock = "on", !.keys = KeysOf(t),
                             !.todo = {w \in Works : in[w] = c}]
<1>1. KeysOf(t) = {Key[t]} /\ KeysOf(t) \subseteq Keys
    BY KeysAre, SeriesAssumption
<1>2. /\ T \in Tx /\ T.done = {} /\ T.synced = {} /\ T.keys = KeysOf(t) /\ T.op = "rename" /\ T.coll = c
      /\ T.text = t /\ T.new = NoId /\ T.pc = "writing"
    BY <1>1 DEF Idle, Tx
<1>3. Managing(p, c) /\ KeyFree(p, t) /\ leads[Key[t]] \in {NoId, c} /\ SetTx(p, T) /\ UNCHANGED committed
    BY DEF Rename, committed, collections
<1> HIDE DEF T
<1>4. Renames(T) /\ Makes(T) /\ CollectionFree(T.coll) /\ \A q \in Processes \ {p} : T.keys \cap tx[q].keys = {}
    BY <1>1, <1>2, <1>3 DEF Renames, Makes, Managing, KeyFree
<1>5. Fits(p, T)
    BY <1>2, <1>4, OpensFits
<1> QED BY <1>3, <1>5 DEF Proceeds

LEMMA CreateProceeds ==
    ASSUME IInv, NEW p \in Processes, NEW t \in Texts, Create(p, t)
    PROVE  Proceeds(p)
<1> PICK n \in Ids : /\ Unused(n)
                     /\ SetTx(p, [Idle EXCEPT !.pc = "writing", !.op = "create", !.text = t, !.keys = KeysOf(t), !.new = n])
    BY DEF Create
<1> DEFINE T == [Idle EXCEPT !.pc = "writing", !.op = "create", !.text = t, !.keys = KeysOf(t), !.new = n]
<1>1. KeysOf(t) = {Key[t]} /\ KeysOf(t) \subseteq Keys
    BY KeysAre, SeriesAssumption
<1>2. /\ T \in Tx /\ T.done = {} /\ T.synced = {} /\ T.keys = KeysOf(t) /\ T.op = "create" /\ T.coll = NoId
      /\ T.text = t /\ T.new = n /\ T.pc = "writing"
    BY <1>1 DEF Idle, Tx
<1>3. KeyFree(p, t) /\ leads[Key[t]] = NoId /\ Unused(n) /\ SetTx(p, T) /\ UNCHANGED committed
    BY DEF Create, committed, collections
<1> HIDE DEF T
<1>4. Renames(T) /\ Makes(T) /\ \A q \in Processes \ {p} : T.keys \cap tx[q].keys = {}
    BY <1>1, <1>2, <1>3 DEF Renames, Makes, KeyFree, Unused
<1>5. Fits(p, T)
    BY <1>2, <1>3, <1>4, OpensFits
<1> QED BY <1>3, <1>5 DEF Proceeds

LEMMA BeginRestoreProceeds ==
    ASSUME IInv, NEW p \in Processes, NEW c \in Ids, BeginRestore(p, c)
    PROVE  Proceeds(p)
<1> DEFINE T == [Idle EXCEPT !.pc = "restoring", !.op = "restore", !.coll = c, !.todo = LeadsTo(c), !.keys = {}]
<1>1. LeadsTo(c) \subseteq there /\ there \subseteq Works
    BY DEF LeadsTo, IInv, TypeOK
<1>2. /\ T \in Tx /\ T.done = {} /\ T.synced = {} /\ T.keys = {} /\ T.op = "restore" /\ T.coll = c
      /\ T.new = NoId /\ T.todo = LeadsTo(c)
    BY <1>1 DEF Idle, Tx
<1>3. CollectionFree(c) /\ SetTx(p, T) /\ UNCHANGED committed
    BY DEF BeginRestore, committed, collections
<1> HIDE DEF T
<1>4. Renames(T) /\ Makes(T)
    BY <1>2 DEF Renames, Makes
<1>5. Fits(p, T)
    BY <1>1, <1>2, <1>3, <1>4, OpensFits
<1> QED BY <1>3, <1>5 DEF Proceeds

LEMMA FailsProceeds ==
    ASSUME IInv, NEW p \in Processes, Fails(p)
    PROVE  Proceeds(p)
BY IdleSound DEF Fails, Proceeds, Fits, committed, collections

LEMMA WritesProceeds ==
    ASSUME IInv, NEW p \in Processes, Writes(p) \/ (p = Worker /\ Fill)
    PROVE  Proceeds(p)
<1>1. tx[p] \in Tx /\ Fits(p, tx[p])
    BY OpenIs DEF Fits
<1>2. PICK w \in tx[p].todo : Written(p, tx[p], w) /\ tx[p].pc # "restoring"
    BY DEF Writes, Fill, At
<1>3. w \in Works
    BY <1>1 DEF Tx
<1> QED BY <1>1, <1>2, <1>3, WrittenProceeds

-----------------------------------------------------------------------------
(* The commit of a transaction.                                            *)

\* The collection that gets the name of a transaction.
Named(T) == IF T.op = "rename" THEN T.coll ELSE T.new

\* It is held by the transaction, in use or not there yet.
LEMMA NamedIs ==
    ASSUME IInv, NEW p \in Processes, NEW T, T = tx[p], Named(T) # NoId
    PROVE  /\ Named(T) \in Ids /\ T.text \in Texts /\ Key[T.text] \in T.keys /\ Key[T.text] \in Keys
           /\ leads[Key[T.text]] \in {NoId, Named(T)}
           /\ \A q \in Processes \ {p} : tx[q].new # Named(T) /\ Key[T.text] \notin tx[q].keys
<1>1. T \in Tx /\ Renames(T) /\ Makes(T) /\ \A q \in Processes \ {p} : Makes(tx[q]) /\ Apart(T, tx[q])
    BY OpenIs DEF Sound
<1>2. CASE T.op = "rename"
    BY <1>1, <1>2, SeriesAssumption DEF Named, Renames, Makes, Apart, InUse
<1>3. CASE T.op # "rename"
    BY <1>1, <1>3, SeriesAssumption DEF Named, Makes, Apart, Tx
<1> QED BY <1>2, <1>3

\* What a commit does to the names, ...
LEMMA CommitNames ==
    ASSUME IInv, NEW p \in Processes, Commit(p), NEW T, T = tx[p]
    PROVE  /\ name' \in [Ids -> Texts \cup {NoText}] /\ leads' \in [Keys -> Ids \cup {NoId}]
           /\ \A c \in Ids : name'[c] = IF c = Named(T) THEN T.text ELSE name[c]
           /\ \A k \in Keys : leads'[k] = IF Named(T) # NoId /\ k = Key[T.text] THEN Named(T) ELSE leads[k]
<1>1. T \in Tx /\ Renames(T) /\ Makes(T)
    BY OpenIs DEF Sound
<1>2. name \in [Ids -> Texts \cup {NoText}] /\ leads \in [Keys -> Ids \cup {NoId}]
    BY DEF IInv, TypeOK
<1>3. KeysOf(T.text) \subseteq Keys /\ (T.text # NoText => KeysOf(T.text) = {Key[T.text]})
    BY <1>1, KeysAre DEF Tx
<1>4. CASE T.op = "rename"
    <2>1. Named(T) = T.coll /\ T.coll \in Ids /\ T.text \in Texts /\ KeysOf(T.text) = {Key[T.text]}
        BY <1>1, <1>3, <1>4, SeriesAssumption DEF Named, Renames
    <2>2. name' = [name EXCEPT ![T.coll] = T.text] /\ leads' = [k \in Keys |-> IF k \in KeysOf(T.text) THEN T.coll ELSE leads[k]]
        BY <1>4 DEF Commit, Renamed
    <2> QED BY <1>2, <2>1, <2>2, SeriesAssumption
<1>5. CASE T.op # "rename"
    <2>1. Named(T) = T.new /\ T.new \in Ids \cup {NoId} /\ T.text \in Texts \cup {NoText}
        BY <1>1, <1>5 DEF Named, Tx
    <2>2. T.new # NoId => T.text \in Texts /\ KeysOf(T.text) = {Key[T.text]}
        BY <1>1, <1>3, SeriesAssumption DEF Makes
    <2>3. /\ name' = [c \in Ids |-> IF c = T.new THEN T.text ELSE name[c]]
          /\ leads' = [k \in Keys |-> IF T.new # NoId /\ k \in KeysOf(T.text) THEN T.new ELSE leads[k]]
        BY <1>5 DEF Commit
    <2> QED BY <1>2, <2>1, <2>2, <2>3
<1> QED BY <1>4, <1>5

\* ... to the works, ...
LEMMA CommitWorks ==
    ASSUME IInv, NEW p \in Processes, Commit(p), NEW T, T = tx[p]
    PROVE  /\ work' \in [Works -> Work]
           /\ \A w \in Works : work'[w].series = IF w \in T.done THEN T.text ELSE work[w].series
<1>1. T \in Tx /\ work \in [Works -> Work]
    BY OpenIs DEF IInv, TypeOK
<1>2. \A w \in Works : Applied(T, w) \in Work /\ Applied(T, w).series = T.text
    <2> SUFFICES ASSUME NEW w \in Works
                 PROVE  Applied(T, w) \in Work /\ Applied(T, w).series = T.text
        OBVIOUS
    <2>1. T.text \in Texts \cup {NoText} /\ work[w] \in Work
        BY <1>1 DEF Tx
    <2>2. CASE T.op = "fill"
        <3>1. Applied(T, w) = [work[w] EXCEPT !.series = T.text]
            BY <2>2 DEF Applied
        <3> QED BY <2>1, <3>1 DEF Work
    <2>3. CASE T.op # "fill" /\ work[w].series # T.text
        <3>1. Applied(T, w) = [series |-> T.text, locked |-> TRUE, source |-> "person"]
            BY <2>3 DEF Applied
        <3> QED BY <2>1, <3>1 DEF Work
    <2>4. CASE T.op # "fill" /\ work[w].series = T.text
        <3>1. Applied(T, w) = [work[w] EXCEPT !.locked = (T.lock = "on") \/ (@ /\ T.lock # "off")]
            BY <2>4 DEF Applied
        <3>2. ((T.lock = "on") \/ (work[w].locked /\ T.lock # "off")) \in BOOLEAN
            OBVIOUS
        <3> QED BY <2>1, <2>4, <3>1, <3>2 DEF Work
    <2> QED BY <2>2, <2>3, <2>4
<1>3. work' = [w \in Works |-> IF w \in T.done THEN Applied(T, w) ELSE work[w]]
    BY DEF Commit
<1> QED BY <1>1, <1>2, <1>3

\* ... and to the rest: what the transaction held is free.
Released(U) ==
    /\ U \in Tx /\ U.op # "rename" /\ U.pc # "restoring"
    /\ U.done = {} /\ U.synced = {} /\ U.keys = {} /\ U.coll = NoId /\ U.new = NoId

LEMMA ReleasedApart ==
    ASSUME NEW U, Released(U), NEW V
    PROVE  Apart(U, V) /\ Apart(V, U)
BY DEF Released, Apart

LEMMA CommitRest ==
    ASSUME IInv, NEW p \in Processes, Commit(p), NEW T, T = tx[p]
    PROVE  /\ there' = there \cup T.done /\ retired' = retired
           /\ in' \in [Works -> Ids \cup {NoId}]
           /\ \A w \in Works : in'[w] = IF w \in T.synced THEN T.to ELSE in[w]
           /\ overtaken' = IF T.raced THEN overtaken \cup T.synced ELSE overtaken \ T.synced
           /\ \E U : Released(U) /\ tx' = [tx EXCEPT ![p] = U]
<1>1. T \in Tx /\ in \in [Works -> Ids \cup {NoId}]
    BY OpenIs DEF IInv, TypeOK
<1>2. in' = [w \in Works |-> IF w \in T.synced THEN T.to ELSE in[w]]
    BY DEF Commit
<1>3. in' \in [Works -> Ids \cup {NoId}] /\ \A w \in Works : in'[w] = IF w \in T.synced THEN T.to ELSE in[w]
    BY <1>1, <1>2 DEF Tx
<1>4. \E U : Released(U) /\ tx' = [tx EXCEPT ![p] = U]
    <2> DEFINE U == [Idle EXCEPT !.pc = "recording", !.todo = T.done]
    <2>0. T.done \in SUBSET Works
        BY <1>1 DEF Tx
    <2>1. Released(U) /\ Released(Idle)
        BY <2>0, SeriesAssumption DEF Idle, Tx, Released
    <2>2. tx' = [tx EXCEPT ![p] = IF T.op = "fill" THEN U ELSE Idle]
        BY DEF Commit, SetTx
    <2> HIDE DEF U
    <2> QED BY <2>1, <2>2
<1> QED BY <1>3, <1>4 DEF Commit

\* The collections that are there stay, and so does where a name leads to.
LEMMA CommitExtends ==
    ASSUME IInv, NEW p \in Processes, Commit(p)
    PROVE  /\ \A c \in Ids : Existing(c) => Existing(c)'
           /\ \A k \in Keys : leads[k] # NoId => leads'[k] = leads[k]
<1> DEFINE T == tx[p]
<1>1. /\ \A c \in Ids : name'[c] = IF c = Named(T) THEN T.text ELSE name[c]
      /\ \A k \in Keys : leads'[k] = IF Named(T) # NoId /\ k = Key[T.text] THEN Named(T) ELSE leads[k]
    BY CommitNames
<1>2. Named(T) # NoId => T.text \in Texts /\ leads[Key[T.text]] \in {NoId, Named(T)}
    BY NamedIs
<1> HIDE DEF T
<1> QED BY <1>1, <1>2, SeriesAssumption DEF Existing

LEMMA CommitNameLeadsHome ==
    ASSUME IInv, NEW p \in Processes, Commit(p)
    PROVE  NameLeadsHome'
<1> DEFINE T == tx[p]
<1>1. /\ \A c \in Ids : name'[c] = IF c = Named(T) THEN T.text ELSE name[c]
      /\ \A k \in Keys : leads'[k] = IF Named(T) # NoId /\ k = Key[T.text] THEN Named(T) ELSE leads[k]
    BY CommitNames
<1>2. Named(T) # NoId => T.text \in Texts /\ leads[Key[T.text]] \in {NoId, Named(T)} /\ Key[T.text] \in Keys
    BY NamedIs
<1>3. \A c \in Ids : name[c] \in Texts \cup {NoText}
    BY DEF IInv, TypeOK
<1> HIDE DEF T
<1> SUFFICES ASSUME NEW c \in Ids, name'[c] # NoText
             PROVE  leads'[Key[name'[c]]] = c
    BY DEF NameLeadsHome, Existing
<1>4. CASE c = Named(T)
    BY <1>1, <1>2, <1>4, SeriesAssumption
<1>5. CASE c # Named(T)
    <2>1. name'[c] = name[c] /\ Key[name[c]] \in Keys /\ leads[Key[name[c]]] = c
        BY <1>1, <1>3, <1>5, SeriesAssumption DEF IInv, NameLeadsHome, Existing
    <2> QED BY <1>1, <1>2, <1>5, <2>1, SeriesAssumption
<1> QED BY <1>4, <1>5

\* Where a work goes that the transaction wrote and the trigger ran for.
LEMMA CommitPlace ==
    ASSUME IInv, NEW p \in Processes, Commit(p), NEW T, T = tx[p], T.synced # {}, ~T.raced
    PROVE  T.to = Leads(T.text)'
<1>1. T \in Tx /\ Renames(T) /\ Makes(T) /\ Placed(T)
    BY OpenIs DEF Sound, Writing
<1>2. \A k \in Keys : leads'[k] = IF Named(T) # NoId /\ k = Key[T.text] THEN Named(T) ELSE leads[k]
    BY CommitNames
<1>3. retired' = retired /\ \A c \in retired : Existing(c)
    BY CommitRest DEF IInv, RetiredExist
<1>4. T.to = Place(T)
    BY <1>1 DEF Placed
<1>5. CASE T.text = NoText
    BY <1>4, <1>5 DEF Place, Leads
<1>6. CASE T.text # NoText
    <2>1. Key[T.text] \in Keys
        BY <1>1, <1>6, SeriesAssumption DEF Tx
    <2>2. Named(T) # NoId => Named(T) \notin retired /\ Place(T) = Named(T)
        BY <1>1, <1>3, <1>6 DEF Named, Renames, Makes, InUse, Place
    <2>3. Named(T) = NoId => Place(T) = Leads(T.text)
        BY <1>1, <1>6, SeriesAssumption DEF Named, Renames, Place
    <2> QED BY <1>2, <1>3, <1>4, <1>6, <2>1, <2>2, <2>3 DEF Leads
<1> QED BY <1>5, <1>6

LEMMA CommitSeriesLead ==
    ASSUME IInv, NEW p \in Processes, Commit(p)
    PROVE  SeriesLead'
<1> DEFINE T == tx[p]
<1>1. T \in Tx /\ Renames(T) /\ Placed(T) /\ Had(T, T.done \ T.synced)
    BY OpenIs DEF Sound, Writing
<1>2. \A k \in Keys : leads'[k] = IF Named(T) # NoId /\ k = Key[T.text] THEN Named(T) ELSE leads[k]
    BY CommitNames
<1>3. \A w \in Works : work'[w].series = IF w \in T.done THEN T.text ELSE work[w].series
    BY CommitWorks
<1>4. there' = there \cup T.done /\ there \subseteq Works /\ T.done \subseteq Works
    BY <1>1, CommitRest DEF IInv, TypeOK, Tx
<1>5. \A w \in Works : work[w].series \in Texts \cup {NoText}
    BY DEF IInv, TypeOK, Work
<1>6. \A k \in Keys : leads[k] # NoId => leads'[k] # NoId
    BY CommitExtends
<1> HIDE DEF T
<1> SUFFICES ASSUME NEW w \in there', work'[w].series # NoText
             PROVE  leads'[Key[work'[w].series]] # NoId
    BY DEF SeriesLead
<1>7. w \in Works
    BY <1>4
<1>8. CASE work[w].series # NoText /\ work'[w].series = work[w].series
    <2>1. w \in there
        BY <1>7, <1>8 DEF IInv, NotThere
    <2>2. Key[work[w].series] \in Keys /\ leads[Key[work[w].series]] # NoId
        BY <1>5, <1>7, <1>8, <2>1, SeriesAssumption DEF IInv, SeriesLead
    <2> QED BY <1>6, <1>8, <2>2
<1>9. CASE w \in T.synced /\ work'[w].series = T.text
    <2>1. T.text # NoText /\ Key[T.text] \in Keys
        BY <1>1, <1>9, SeriesAssumption DEF Tx
    <2>2. Named(T) # NoId \/ leads[Key[T.text]] # NoId
        BY <1>1, <1>9, <2>1, SeriesAssumption DEF Placed, Named, Renames
    <2> QED BY <1>2, <1>6, <1>9, <2>1, <2>2
<1> QED BY <1>1, <1>3, <1>7, <1>8, <1>9 DEF Had, Placed

LEMMA CommitFollows ==
    ASSUME IInv, NEW p \in Processes, Commit(p), NEW T, T = tx[p]
    PROVE  FollowsSeries'
<1>1. T \in Tx /\ Placed(T) /\ Had(T, T.done \ T.synced)
    BY OpenIs DEF Sound, Writing
<1>2. \A k \in Keys : leads[k] # NoId => leads'[k] = leads[k]
    BY CommitExtends
<1>3. \A w \in Works : work'[w].series = IF w \in T.done THEN T.text ELSE work[w].series
    BY CommitWorks
<1>4. /\ there' = there \cup T.done /\ there \subseteq Works /\ T.done \subseteq Works /\ retired' = retired
      /\ \A w \in Works : in'[w] = IF w \in T.synced THEN T.to ELSE in[w]
      /\ overtaken' = IF T.raced THEN overtaken \cup T.synced ELSE overtaken \ T.synced
    BY <1>1, CommitRest DEF IInv, TypeOK, Tx
<1>5. T.synced # {} /\ ~T.raced => T.to = Leads(T.text)'
    BY CommitPlace
<1>6. \A w \in Works : work[w].series \in Texts \cup {NoText}
    BY DEF IInv, TypeOK, Work
<1> SUFFICES ASSUME NEW w \in there', w \notin overtaken'
             PROVE  in'[w] = Leads(work[w].series)'
    BY DEF FollowsSeries
<1>7. w \in Works
    BY <1>4
<1>8. CASE w \in T.synced
    BY <1>1, <1>3, <1>4, <1>5, <1>7, <1>8 DEF Placed, Leads
<1>9. CASE w \notin T.synced
    <2>1. in'[w] = in[w] /\ work'[w].series = work[w].series /\ w \notin overtaken
        BY <1>1, <1>3, <1>4, <1>7, <1>9 DEF Had
    <2>2. CASE w \in there
        <3>1. in[w] = Leads(work[w].series)
            BY <2>1, <2>2 DEF IInv, FollowsSeries
        <3>2. work[w].series # NoText => leads'[Key[work[w].series]] = leads[Key[work[w].series]]
            BY <1>2, <1>6, <1>7, <2>2, SeriesAssumption DEF IInv, SeriesLead
        <3> QED BY <1>4, <2>1, <3>1, <3>2 DEF Leads
    <2>3. CASE w \notin there
        BY <1>7, <2>1, <2>3 DEF IInv, NotThere, Leads
    <2> QED BY <2>2, <2>3
<1> QED BY <1>8, <1>9

LEMMA CommitOpen ==
    ASSUME IInv, NEW p \in Processes, Commit(p)
    PROVE  Open'
<1> DEFINE T == tx[p]
<1>1. PICK U : Released(U) /\ tx' = [tx EXCEPT ![p] = U]
    BY CommitRest
<1>2. /\ \A c \in Ids : name'[c] = IF c = Named(T) THEN T.text ELSE name[c]
      /\ \A k \in Keys : leads'[k] = IF Named(T) # NoId /\ k = Key[T.text] THEN Named(T) ELSE leads[k]
    BY CommitNames
<1>3. \A w \in Works : work'[w].series = IF w \in T.done THEN T.text ELSE work[w].series
    BY CommitWorks
<1>4. there' = there \cup T.done /\ retired' = retired
    BY CommitRest
<1>5. tx \in [Processes -> Tx]
    BY DEF IInv, TypeOK
<1> HIDE DEF T
<1>6. \A q \in Processes : \A r \in Processes \ {q} : Apart(tx'[q], tx'[r])
    <2> SUFFICES ASSUME NEW q \in Processes, NEW r \in Processes \ {q}
                 PROVE  Apart(tx'[q], tx'[r])
        OBVIOUS
    <2>1. CASE q = p \/ r = p
        BY <2>1, <1>1, <1>5, ReleasedApart
    <2>2. CASE q # p /\ r # p
        BY <2>2, <1>1, <1>5, OpenIs
    <2> QED BY <2>1, <2>2
<1>7. ASSUME NEW q \in Processes, q = p
      PROVE  Sound(tx[q])'
    <2>1. tx'[q] = U
        BY <1>1, <1>5, <1>7
    <2> QED BY <1>1, <2>1 DEF Released, Sound, Renames, Makes, Writing, Placed, Had
<1>8. ASSUME NEW q \in Processes \ {p}
      PROVE  Sound(tx[q])'
    <2>1. tx'[q] = tx[q] /\ tx[q] \in Tx
        BY <1>1, <1>5
    <2>2. Renames(tx[q]) /\ Makes(tx[q]) /\ Placed(tx[q]) /\ Had(tx[q], tx[q].done \ tx[q].synced)
        BY OpenIs DEF Sound, Writing
    <2>3. T.done \cap tx[q].done = {} /\ \A k \in tx[q].keys : leads'[k] = leads[k]
        <3>1. Apart(T, tx[q])
            BY OpenIs DEF T
        <3>2. Named(T) # NoId => Key[T.text] \notin tx[q].keys
            BY NamedIs DEF T
        <3>3. tx[q].keys \subseteq Keys
            BY <2>1 DEF Tx
        <3> QED BY <1>2, <3>1, <3>2, <3>3 DEF Apart
    <2>4. Renames(tx[q])'
        <3>1. \A c \in Ids : Existing(c) => Existing(c)'
            BY CommitExtends
        <3> QED BY <1>4, <2>1, <2>2, <2>3, <3>1 DEF Renames, InUse
    <2>5. Makes(tx[q])'
        <3>1. tx[q].new # NoId => name'[tx[q].new] = name[tx[q].new]
            <4>1. Named(T) # NoId => tx[q].new # Named(T)
                BY NamedIs DEF T
            <4> QED BY <1>2, <2>1, <4>1 DEF Tx
        <3> QED BY <2>1, <2>2, <2>3, <3>1 DEF Makes, Existing
    <2>6. Placed(tx[q])'
        <3>1. tx[q].synced # {} /\ tx[q].text # NoText => leads'[Key[tx[q].text]] = leads[Key[tx[q].text]]
            BY <2>1, <2>2, <2>3, KeysAre DEF Placed, Tx
        <3> QED BY <1>4, <2>1, <2>2, <3>1 DEF Placed, Place, Leads
    <2>7. Had(tx[q], tx[q].done \ tx[q].synced)'
        BY <1>3, <2>1, <2>2, <2>3 DEF Had, Tx
    <2> QED BY <2>1, <2>4, <2>5, <2>6, <2>7 DEF Sound, Writing
<1> QED BY <1>6, <1>7, <1>8 DEF Open, Apart

LEMMA CommitKeeps ==
    ASSUME IInv, NEW p \in Processes, Commit(p)
    PROVE  IInv'
<1> DEFINE T == tx[p]
<1>1. /\ name' \in [Ids -> Texts \cup {NoText}] /\ leads' \in [Keys -> Ids \cup {NoId}]
      /\ \A c \in Ids : Existing(c) => Existing(c)'
    BY CommitNames, CommitExtends
<1>2. work' \in [Works -> Work] /\ \A w \in Works : work'[w].series = IF w \in T.done THEN T.text ELSE work[w].series
    BY CommitWorks
<1>3. /\ there' = there \cup T.done /\ retired' = retired
      /\ in' \in [Works -> Ids \cup {NoId}]
      /\ \A w \in Works : in'[w] = IF w \in T.synced THEN T.to ELSE in[w]
      /\ overtaken' = IF T.raced THEN overtaken \cup T.synced ELSE overtaken \ T.synced
      /\ \E U \in Tx : tx' = [tx EXCEPT ![p] = U]
    BY CommitRest DEF Released
<1>4. T.done \subseteq Works /\ T.synced \subseteq T.done /\ there \subseteq Works /\ overtaken \subseteq Works
      /\ retired \subseteq Ids /\ tx \in [Processes -> Tx]
    BY OpenIs DEF IInv, TypeOK, Tx, Sound, Writing, Placed
<1> HIDE DEF T
<1>5. TypeOK'
    BY <1>1, <1>2, <1>3, <1>4 DEF TypeOK
<1>6. NotThere'
    BY <1>2, <1>3, <1>4 DEF IInv, NotThere
<1>7. RetiredExist'
    BY <1>1, <1>3, <1>4 DEF IInv, RetiredExist
<1> QED BY <1>5, <1>6, <1>7, CommitNameLeadsHome, CommitSeriesLead, CommitFollows, CommitOpen DEF IInv

-----------------------------------------------------------------------------
(* The collections that are put away and restored.                         *)

\* What becomes of the open transactions when c is put away or restored by p: those that
\* put works in it are told apart, the others belong where they did.
Marked(T, c) == T.synced # {} /\ T.text # NoText /\ leads[Key[T.text]] = c

LEMMA RacedIs ==
    ASSUME IInv, NEW p \in Processes, NEW U \in Tx, NEW c \in Ids, tx' = Raced(p, U, c)
    PROVE  /\ tx' \in [Processes -> Tx] /\ tx'[p] = U
           /\ \A q \in Processes \ {p} :
                tx'[q] = [tx[q] EXCEPT !.raced = tx'[q].raced] /\ (tx[q].raced \/ Marked(tx[q], c) => tx'[q].raced)
<1>1. tx \in [Processes -> Tx]
    BY DEF IInv, TypeOK
<1>2. tx' = [q \in Processes |-> IF q = p THEN U ELSE IF Marked(tx[q], c) THEN [tx[q] EXCEPT !.raced = TRUE] ELSE tx[q]]
    BY DEF Raced, Marked
<1>3. ASSUME NEW q \in Processes \ {p}
      PROVE  /\ tx'[q] \in Tx
             /\ tx'[q] = [tx[q] EXCEPT !.raced = tx'[q].raced] /\ (tx[q].raced \/ Marked(tx[q], c) => tx'[q].raced)
    <2>1. tx[q] \in Tx
        BY <1>1
    <2>2. CASE ~Marked(tx[q], c)
        <3>1. tx'[q] = tx[q]
            BY <1>2, <2>2
        <3> QED BY <2>1, <2>2, <3>1 DEF Tx
    <2>3. CASE Marked(tx[q], c)
        <3>1. tx'[q] = [tx[q] EXCEPT !.raced = TRUE]
            BY <1>2, <2>3
        <3> QED BY <2>1, <3>1 DEF Tx
    <2> QED BY <2>2, <2>3
<1> QED BY <1>2, <1>3

LEMMA RacedOpen ==
    ASSUME IInv, NEW p \in Processes, NEW U \in Tx, NEW c \in Ids, tx' = Raced(p, U, c),
           Released(U) \/ (U = tx[p] /\ ~Marked(U, c) /\ U.coll # c),
           \A q \in Processes \ {p} : tx[q].coll # c,
           UNCHANGED <<there, work, name, leads>>, \A d \in Ids \ {c} : d \in retired' <=> d \in retired
    PROVE  Open'
<1>1. /\ tx' \in [Processes -> Tx] /\ tx'[p] = U
      /\ \A q \in Processes \ {p} :
           tx'[q] = [tx[q] EXCEPT !.raced = tx'[q].raced] /\ (tx[q].raced \/ Marked(tx[q], c) => tx'[q].raced)
    BY RacedIs
<1> DEFINE Same(q) == /\ tx'[q] = [tx[q] EXCEPT !.raced = tx'[q].raced] /\ tx[q].coll # c
                      /\ (tx[q].raced \/ Marked(tx[q], c) => tx'[q].raced)
<1>2. \A q \in Processes : Released(tx'[q]) \/ Same(q)
    <2>1. U \in Tx => U = [U EXCEPT !.raced = U.raced]
        BY DEF Tx
    <2> QED BY <1>1, <2>1
<1>3. ASSUME NEW q \in Processes, Same(q)
      PROVE  /\ tx[q] \in Tx /\ tx'[q] \in Tx
             /\ tx'[q].pc = tx[q].pc /\ tx'[q].op = tx[q].op /\ tx'[q].coll = tx[q].coll /\ tx'[q].text = tx[q].text
             /\ tx'[q].todo = tx[q].todo /\ tx'[q].done = tx[q].done /\ tx'[q].synced = tx[q].synced
             /\ tx'[q].to = tx[q].to /\ tx'[q].new = tx[q].new /\ tx'[q].keys = tx[q].keys
    <2>1. tx[q] \in Tx /\ tx'[q] \in Tx /\ tx'[q] = [tx[q] EXCEPT !.raced = tx'[q].raced]
        BY <1>1, <1>3, OpenIs
    <2> QED BY <2>1 DEF Tx
<1>4. ASSUME NEW q \in Processes, Released(tx'[q])
      PROVE  Sound(tx[q])' /\ \A V : Apart(tx'[q], V) /\ Apart(V, tx'[q])
    <2>1. Sound(tx[q])'
        BY <1>4 DEF Released, Sound, Renames, Makes, Writing, Placed, Had
    <2> QED BY <1>4, <2>1, ReleasedApart
<1>5. ASSUME NEW q \in Processes, Same(q)
      PROVE  Sound(tx[q])'
    <2>1. Renames(tx[q]) /\ Makes(tx[q]) /\ Placed(tx[q]) /\ Had(tx[q], tx[q].done \ tx[q].synced)
        BY OpenIs DEF Sound, Writing
    <2>2. Renames(tx[q])' /\ Makes(tx[q])' /\ Had(tx[q], tx[q].done \ tx[q].synced)'
        BY <1>3, <1>5, <2>1 DEF Renames, Makes, Had, Existing, InUse
    <2>3. tx[q].synced # {} /\ ~tx'[q].raced => tx'[q].to = Place(tx[q])'
        <3> SUFFICES ASSUME tx[q].synced # {}, ~tx'[q].raced
                     PROVE  tx'[q].to = Place(tx[q])'
            OBVIOUS
        <3>1. tx[q].to = Place(tx[q]) /\ (tx[q].text # NoText => leads[Key[tx[q].text]] # c)
            BY <1>5, <2>1 DEF Placed, Marked
        <3>2. tx[q].text # NoText => leads[Key[tx[q].text]] \in Ids \cup {NoId}
            BY <1>3, <1>5, SeriesAssumption DEF Tx, IInv, TypeOK
        <3> QED BY <1>3, <1>5, <3>1, <3>2 DEF Place, Leads
    <2>4. Placed(tx[q])'
        BY <1>3, <1>5, <2>1, <2>3 DEF Placed
    <2> QED BY <1>3, <1>5, <2>2, <2>4 DEF Sound, Writing
<1>6. ASSUME NEW q \in Processes, NEW r \in Processes \ {q}
      PROVE  Apart(tx'[q], tx'[r])
    <2>1. CASE Released(tx'[q]) \/ Released(tx'[r])
        BY <2>1, <1>4
    <2>2. CASE Same(q) /\ Same(r)
        BY <2>2, <1>3, OpenIs DEF Apart
    <2> QED BY <1>2, <2>1, <2>2
<1> HIDE DEF Same
<1> QED BY <1>2, <1>4, <1>5, <1>6 DEF Open, Apart

LEMMA RetireKeeps ==
    ASSUME IInv, NEW p \in Processes, NEW c \in Ids, Retire(p, c)
    PROVE  IInv'
<1>1. /\ \A q \in Processes : tx[q].coll # c
      /\ Existing(c) /\ c \notin retired /\ tx[p].pc = "idle"
      /\ in' = [w \in Works |-> IF in[w] = c THEN NoId ELSE in[w]] /\ retired' = retired \cup {c}
      /\ tx' = Raced(p, tx[p], c) /\ UNCHANGED <<there, work, name, leads, overtaken>>
    BY DEF Retire, Managing, CollectionFree, InUse, At
<1>2. tx[p] \in Tx /\ ~Marked(tx[p], c)
    BY <1>1, OpenIs DEF Sound, Writing, Placed, Marked
<1>3. Open'
    BY <1>1, <1>2, RacedOpen
<1>4. TypeOK'
    BY <1>1, <1>2, RacedIs DEF IInv, TypeOK
<1>5. FollowsSeries'
    <2> SUFFICES ASSUME NEW w \in there, w \notin overtaken
                 PROVE  in'[w] = Leads(work[w].series)'
        BY <1>1 DEF FollowsSeries
    <2>1. w \in Works /\ in[w] = Leads(work[w].series)
        BY DEF IInv, TypeOK, FollowsSeries
    <2>2. work[w].series \in Texts \cup {NoText}
        BY <2>1 DEF IInv, TypeOK, Work
    <2>3. work[w].series # NoText => leads[Key[work[w].series]] \in Ids \cup {NoId}
        BY <2>2, SeriesAssumption DEF IInv, TypeOK
    <2> QED BY <1>1, <2>1, <2>3, SeriesAssumption DEF Leads
<1>6. (NameLeadsHome /\ NotThere /\ SeriesLead /\ RetiredExist)'
    BY <1>1 DEF IInv, TypeOK, NameLeadsHome, NotThere, SeriesLead, RetiredExist, Existing
<1> QED BY <1>3, <1>4, <1>5, <1>6 DEF IInv

LEMMA CommitRestoreKeeps ==
    ASSUME IInv, NEW p \in Processes, CommitRestore(p)
    PROVE  IInv'
<1> DEFINE c == tx[p].coll
           list == tx[p].todo
<1>1. /\ in' = [w \in Works |-> IF w \in list THEN c ELSE in[w]] /\ retired' = retired \ {c}
      /\ overtaken' = (overtaken \ list) \cup ((LeadsTo(c) \ list) \cup (list \ LeadsTo(c)))
      /\ tx' = Raced(p, Idle, c) /\ UNCHANGED <<there, work, name, leads>>
    BY DEF CommitRestore
<1>2. c \in Ids /\ list \subseteq there /\ there \subseteq Works /\ LeadsTo(c) \subseteq there
    BY OpenIs DEF CommitRestore, At, Sound, Writing, Placed, IInv, TypeOK, LeadsTo
<1>3. \A q \in Processes \ {p} : tx[q].coll # c
    BY <1>2, OpenIs, SeriesAssumption DEF Apart
<1>4. Released(Idle) /\ Idle \in Tx
    BY IdleSound DEF Sound, Released, Idle
<1> HIDE DEF c, list
<1>5. Open'
    BY <1>1, <1>2, <1>3, <1>4, RacedOpen
<1>6. TypeOK'
    <2>1. tx' \in [Processes -> Tx]
        BY <1>1, <1>2, <1>4, RacedIs
    <2> QED BY <1>1, <1>2, <2>1 DEF IInv, TypeOK
<1>7. FollowsSeries'
    <2> SUFFICES ASSUME NEW w \in there, w \notin overtaken'
                 PROVE  in'[w] = Leads(work[w].series)'
        BY <1>1 DEF FollowsSeries
    <2>1. CASE w \in list
        BY <1>1, <1>2, <2>1 DEF Leads, LeadsTo
    <2>2. CASE w \notin list
        <3>1. in'[w] = in[w] /\ in[w] = Leads(work[w].series) /\ w \notin LeadsTo(c)
            BY <1>1, <1>2, <2>2 DEF IInv, FollowsSeries
        <3> QED BY <1>1, <3>1 DEF Leads, LeadsTo
    <2> QED BY <2>1, <2>2
<1>8. (NameLeadsHome /\ NotThere /\ SeriesLead /\ RetiredExist)'
    BY <1>1, <1>2 DEF IInv, NameLeadsHome, NotThere, SeriesLead, RetiredExist, Existing
<1> QED BY <1>5, <1>6, <1>7, <1>8 DEF IInv

LEMMA RecordSourceKeeps ==
    ASSUME IInv, RecordSource
    PROVE  IInv'
<1>1. PICK w \in tx[Worker].todo : work' = [work EXCEPT ![w].source = "file"]
    BY DEF RecordSource
<1>2. tx' = [tx EXCEPT ![Worker] = Idle] /\ UNCHANGED <<there, name, leads, retired, in, overtaken>>
    BY DEF RecordSource, SetTx, collections
<1>3. Worker \in Processes /\ w \in Works /\ work \in [Works -> Work] /\ tx \in [Processes -> Tx]
    BY OpenIs DEF Processes, Tx, IInv, TypeOK
<1>4. work' \in [Works -> Work] /\ \A v \in Works : work'[v].series = work[v].series
    BY <1>1, <1>3 DEF Work
<1>5. Idle \in Tx
    BY IdleSound DEF Sound
<1>6. TypeOK'
    BY <1>2, <1>3, <1>4, <1>5 DEF IInv, TypeOK
<1>7. (NameLeadsHome /\ FollowsSeries /\ NotThere /\ SeriesLead /\ RetiredExist)'
    BY <1>2, <1>4 DEF IInv, TypeOK, NameLeadsHome, FollowsSeries, NotThere, SeriesLead, RetiredExist, Existing, Leads
<1>8. ASSUME NEW q \in Processes
      PROVE  Sound(tx[q])' /\ \A r \in Processes \ {q} : Apart(tx'[q], tx'[r])
    <2>1. CASE q = Worker
        BY <2>1, <1>2, <1>3, IdleSound DEF Sound, Renames, Makes, Writing, Placed, Had, Idle
    <2>2. CASE q # Worker
        <3>1. tx'[q] = tx[q] /\ tx[q] \in Tx /\ Sound(tx[q])
            BY <2>2, <1>2, <1>3, OpenIs
        <3>2. Sound(tx[q])'
            <4>1. Renames(tx[q])' /\ Makes(tx[q])' /\ Placed(tx[q])'
                BY <1>2, <3>1 DEF Sound, Renames, Makes, Writing, Placed, Place, Leads, Existing, InUse
            <4>2. Had(tx[q], tx[q].done \ tx[q].synced)'
                BY <1>4, <3>1 DEF Sound, Writing, Had, Tx
            <4> QED BY <3>1, <4>1, <4>2 DEF Sound, Writing
        <3>3. \A r \in Processes \ {q} : Apart(tx'[q], tx'[r])
            BY <1>2, <1>3, <3>1, OpenIs, IdleSound, ApartBoth
        <3> QED BY <3>2, <3>3
    <2> QED BY <2>1, <2>2
<1>9. Open'
    BY <1>8 DEF Open, Apart
<1> QED BY <1>6, <1>7, <1>9 DEF IInv

-----------------------------------------------------------------------------
(* The theorems. *)

LEMMA NextIInv == IInv /\ [Next]_vars => IInv'
<1> SUFFICES ASSUME IInv, [Next]_vars
             PROVE  IInv'
    OBVIOUS
<1>1. CASE Analysis
    BY <1>1, LoadProceeds, WritesProceeds, RecordSourceKeeps, ProceedsKeeps DEF Analysis, Processes
<1>2. ASSUME NEW p \in Requests, Staff(p)
      PROVE  IInv'
    <2>1. p \in Processes
        BY DEF Processes
    <2>2. CASE \E w \in Works, t \in Texts \cup {NoText} : (\E lock \in {"keep", "on", "off"} : Edit(p, w, t, lock)) \/ Upload(p, w, t)
        BY <2>1, <2>2, EditProceeds, UploadProceeds, ProceedsKeeps
    <2>3. CASE \E w \in Works, t \in Texts : Accept(p, w, t)
        BY <2>1, <2>3, EditProceeds, ProceedsKeeps DEF Accept
    <2>4. CASE \E c \in Ids, w \in Works : AddWork(p, c, w) \/ RemoveWork(p, c, w)
        BY <2>1, <2>4, AddProceeds, RemoveProceeds, ProceedsKeeps
    <2>5. CASE \E c \in Ids : Order(p, c) \/ Retire(p, c) \/ BeginRestore(p, c)
        BY <2>1, <2>5, OrderProceeds, RetireKeeps, BeginRestoreProceeds, ProceedsKeeps
    <2>6. CASE \E c \in Ids, t \in Texts : Rename(p, c, t)
        BY <2>1, <2>6, RenameProceeds, ProceedsKeeps
    <2>7. CASE \E t \in Texts : Create(p, t)
        BY <2>1, <2>7, CreateProceeds, ProceedsKeeps
    <2>8. CASE CommitRestore(p)
        BY <2>1, <2>8, CommitRestoreKeeps
    <2> QED BY <1>2, <2>2, <2>3, <2>4, <2>5, <2>6, <2>7, <2>8 DEF Staff
<1>3. ASSUME NEW p \in Processes, Writes(p) \/ Commit(p) \/ Fails(p)
      PROVE  IInv'
    BY <1>3, WritesProceeds, FailsProceeds, ProceedsKeeps, CommitKeeps
<1>4. CASE UNCHANGED vars
    BY <1>4 DEF vars, IInv, TypeOK, NameLeadsHome, FollowsSeries, Open, NotThere, SeriesLead, RetiredExist, Existing, Leads,
                Sound, Renames, Makes, Writing, Placed, Had, Place, InUse, Apart
<1> QED BY <1>1, <1>2, <1>3, <1>4 DEF Next

LEMMA Invariant == Spec => []IInv
<1>1. Init => IInv
    BY InitIInv
<1>2. IInv /\ [Next]_vars => IInv'
    BY NextIInv
<1> QED BY <1>1, <1>2, PTL DEF Spec

\* The types of the works, the collections and the transactions.
THEOREM SeriesTyped == Spec => []TypeOK
<1>1. IInv => TypeOK
    BY DEF IInv
<1> QED BY <1>1, Invariant, PTL

\* The name of a collection leads to it, however it was named and renamed and whoever made
\* it: a person, or the trigger for a series that led nowhere.
THEOREM NamesLeadHome == Spec => []NameLeadsHome
<1>1. IInv => NameLeadsHome
    BY DEF IInv
<1> QED BY <1>1, Invariant, PTL

\* A work is in the collection its series leads to, whoever wrote it last, unless the
\* collection was put away or restored while it was written.
THEOREM Follows == Spec => []FollowsSeries
<1>1. IInv => FollowsSeries
    BY DEF IInv
<1> QED BY <1>1, Invariant, PTL

-----------------------------------------------------------------------------
(* The inductive invariant: the types, who is there, and what a merge      *)
(* copied and has still to delete.                                         *)

Reading == [pc : {"idle", "resolving", "removing", "inserting", "recording"},
             of : Names \cup {NoName}, title : Titles \cup {NoName}, lost : BOOLEAN]
Merge == [keep : Names \cup {NoName}, other : Names \cup {NoName}, moved : SUBSET Titles, names : SUBSET Names,
          ids : SUBSET Identifiers, had : SUBSET Names, crossed : SUBSET Titles]

Shapes ==
    /\ credit = [t \in Titles |-> credit[t]]
    /\ analysis \in Reading /\ (analysis.pc # "idle" => analysis.of \in Names /\ analysis.title \in Titles)
    /\ merging \in [Staffers -> Merge]

MayBeNone == Identifiers \cup {NoIdentifier}
AnyProfile == {"none", "manual"} \cup Identifiers
Reader == [pc : {"idle", "asked", "keeping", "sharing"}, id : MayBeNone, asked : SUBSET Names, rows : [Names -> MayBeNone],
           lost : BOOLEAN, crossed : SUBSET Names]
Linked == [pc : {"none", "linked", "dropped"}, of : Names \cup {NoName}, id : MayBeNone, gone : SUBSET Identifiers,
           others : SUBSET Names, found : AnyProfile, drops : BOOLEAN, forgets : BOOLEAN]

\* Who is merged, holds an identifier, is in a pair, or is about to be credited by the
\* analysis, is there.
MergedAreThere ==
    \A p \in Staffers : Merging(p) => PairOf(p) \subseteq persons /\ merging[p].keep # merging[p].other
HoldersAreThere == \A n \in Names : holds[n] # {} => n \in persons
PairsAreThere == \A P \in Pairs : pairs[P] # "none" => P \subseteq persons
ResolvedIsThere == analysis.pc \in {"removing", "inserting"} /\ ~analysis.lost => analysis.of \in persons

There == MergedAreThere /\ HoldersAreThere /\ PairsAreThere /\ ResolvedIsThere

\* The names a merge copied are that of the person who goes and its aliases then; the works
\* whose credit it moves credit that person; and a work nobody else changed credits the
\* person only if it is one of those, or credits the one who stays too.
Copied(M) ==
    /\ M.names = {M.other} \cup M.had
    /\ \A t \in M.moved : M.other \in Authors(t)
    /\ \A t \in Titles \ M.crossed : M.other \in Authors(t) => t \in M.moved \/ M.keep \in Authors(t)

CopiesHold == \A p \in Staffers : Merging(p) => Copied(merging[p])

Theirs == \A n \in Names \ missed : profile[n] \in Identifiers => profile[n] \in holds[n]

\* The rows of a statement are of identifiers that are still held, but for those who are
\* gone, and those whose link committed since it looked.
RowsFit ==
    Giving /\ ~reader.lost =>
        \A n \in Names \ reader.crossed : reader.rows[n] # NoIdentifier => reader.rows[n] \in holds[n]

\* The profile an open link found is there; and one that it leaves is of its identifier, or
\* was written while it was open.
LinkFits ==
    link # NoLink =>
        /\ link.of \in persons /\ link.of \notin link.others /\ link.id \in Identifiers
        /\ link.found # "none" => profile[link.of] = link.found
        /\ link.pc = "dropped" /\ ~link.drops =>
              profile[link.of] \in {"none", "manual", link.id} \/ link.of \in missed

ReadingFits ==
    /\ reader \in Reader /\ (reader.pc \in {"asked", "keeping"} => reader.id \in Identifiers)
    /\ link \in Linked
    /\ RowsFit /\ LinkFits

PeopleInv == PeopleTypeOK /\ Shapes /\ There /\ CopiesHold /\ Theirs /\ AbsorbedIsFound /\ ReadingFits

-----------------------------------------------------------------------------
(* The operators.                                                          *)

LEMMA TwoInPair ==
    ASSUME NEW P \in Pairs, NEW m \in P, NEW n \in P \ {m}
    PROVE  P = {m, n}
BY DEF Pairs

LEMMA PairOfTwo ==
    ASSUME NEW m \in Names, NEW n \in Names \ {m}
    PROVE  {m, n} \in Pairs
BY DEF Pairs

LEMMA PeopleStart == PeopleInit => PeopleInv
<1> SUFFICES ASSUME PeopleInit PROVE PeopleInv
    OBVIOUS
<1>1. credit = [t \in Titles |-> credit[t]] /\ \A t \in Titles : Authors(t) \subseteq Names
    BY PeopleAssumption DEF PeopleInit, Authors
<1>2. persons \subseteq Names /\ \A t \in Titles : Authors(t) \subseteq persons
    BY <1>1 DEF PeopleInit
<1>3. PeopleTypeOK
    BY <1>2, PeopleAssumption DEF PeopleInit, PeopleTypeOK
<1>4. Shapes
    BY <1>1, PeopleAssumption DEF PeopleInit, Shapes, Reading, NoAnalysis, Merge, NoMerge
<1>6. ReadingFits
    <2>1. reader = NotReading /\ link = NoLink
        BY DEF PeopleInit
    <2>2. NotReading \in Reader /\ NotReading.pc = "idle"
        BY DEF NotReading, Nobody, Reader, MayBeNone
    <2>3. NoLink \in Linked
        BY DEF NoLink, Linked, MayBeNone, AnyProfile
    <2> QED BY <2>1, <2>2, <2>3 DEF ReadingFits, RowsFit, LinkFits, Giving
<1>5. There /\ CopiesHold /\ Theirs /\ AbsorbedIsFound
    BY PeopleAssumption DEF PeopleInit, There, MergedAreThere, HoldersAreThere, PairsAreThere, ResolvedIsThere, CopiesHold, Merging, NoMerge,
       NoAnalysis, Theirs, AbsorbedIsFound
<1> QED BY <1>3, <1>4, <1>5, <1>6 DEF PeopleInv

-----------------------------------------------------------------------------
(* What a step does.  A merge in progress goes on, ends or begins; and a   *)
(* step that commits none takes nobody away.                               *)

\* The merge is the same, the works whose credits changed are noted, and those it moves
\* still credit the person who goes.
GoesOn(p) ==
    /\ merging'[p].keep = merging[p].keep /\ merging'[p].other = merging[p].other
    /\ merging'[p].names = merging[p].names /\ merging'[p].had = merging[p].had
    /\ merging'[p].moved = merging[p].moved /\ merging[p].crossed \subseteq merging'[p].crossed
    /\ Merging(p) =>
          \A t \in Titles :
              \/ Authors(t)' = Authors(t)
              \/ t \in merging'[p].crossed /\ (t \in merging[p].moved => merging[p].other \in Authors(t)')

Begins(p) ==
    /\ PairOf(p)' \subseteq persons /\ merging'[p].keep # merging'[p].other
    /\ Copied(merging[p])'

MergesStep ==
    /\ credit' = [t \in Titles |-> credit'[t]] /\ \A t \in Titles : Authors(t)' \subseteq persons'
    /\ merging' \in [Staffers -> Merge]
    /\ \A p \in Staffers : GoesOn(p) \/ merging'[p] = NoMerge \/ Begins(p)

PairsStep ==
    /\ pairs' \in [Pairs -> {"none", "pending", "dismissed"}]
    /\ \A P \in Pairs : pairs'[P] # "none" => P \subseteq persons

ProfilesStep ==
    /\ holds' \in [Names -> SUBSET Identifiers] /\ \A n \in Names : holds'[n] # {} => n \in persons
    /\ profile' \in [Names -> {"none", "manual"} \cup Identifiers] /\ Theirs'
    /\ remembered' \in [Identifiers -> {"none", "done", "missing"}]
    /\ missed' \subseteq Names /\ ReadingFits'

AnalysisStep ==
    /\ analysis' \in Reading /\ (analysis'.pc # "idle" => analysis'.of \in Names /\ analysis'.title \in Titles)
    /\ ResolvedIsThere'

TakesNobody ==
    /\ persons \subseteq persons' /\ persons' \subseteq Names
    /\ fixed' \in [Titles -> BOOLEAN] /\ origin' \in [Titles -> {"file", "person"}]
    /\ requests' \in 0..MaxRequests
    /\ UNCHANGED <<alias, absorbed>>

LEMMA CopiedGoesOn ==
    ASSUME NEW p \in Staffers, GoesOn(p), Merging(p), merging[p] \in Merge, merging'[p] \in Merge, Copied(merging[p])
    PROVE  Copied(merging[p])'
<1>1. merging[p].moved \subseteq Titles
    BY DEF Merge
<1> QED BY <1>1 DEF GoesOn, Copied, Merge

LEMMA StepKeeps ==
    ASSUME PeopleInv, MergesStep, PairsStep, ProfilesStep, AnalysisStep, TakesNobody
    PROVE  PeopleInv'
<1>1. PeopleTypeOK'
    BY DEF PeopleInv, PeopleTypeOK, MergesStep, PairsStep, ProfilesStep, AnalysisStep, TakesNobody
<1>2. Shapes'
    BY DEF Shapes, MergesStep, ProfilesStep, AnalysisStep
<1>3. MergedAreThere'
    BY PeopleAssumption DEF PeopleInv, There, MergedAreThere, MergesStep, TakesNobody, GoesOn, Begins, Merging, PairOf, NoMerge
<1>4. There'
    BY <1>3 DEF There, HoldersAreThere, PairsAreThere, AnalysisStep, ProfilesStep, PairsStep, TakesNobody
<1>5. CopiesHold'
    <2> SUFFICES ASSUME NEW p \in Staffers, Merging(p)'
                 PROVE  Copied(merging[p])'
        BY DEF CopiesHold
    <2>1. merging[p] \in Merge /\ merging'[p] \in Merge
        BY DEF PeopleInv, Shapes, MergesStep
    <2>2. CASE GoesOn(p)
        <3>1. Merging(p)
            BY <2>2 DEF GoesOn, Merging
        <3> QED BY <2>1, <2>2, <3>1, CopiedGoesOn DEF PeopleInv, CopiesHold
    <2>3. CASE merging'[p] = NoMerge
        BY <2>3 DEF Merging, NoMerge
    <2> QED BY <2>2, <2>3 DEF MergesStep, Begins
<1>6. AbsorbedIsFound'
    BY DEF PeopleInv, AbsorbedIsFound, TakesNobody
<1> QED BY <1>1, <1>2, <1>4, <1>5, <1>6 DEF PeopleInv, ProfilesStep

\* What a step leaves as it is.
LEMMA MergesSame ==
    ASSUME PeopleInv, persons \subseteq persons', UNCHANGED <<credit, merging>>
    PROVE  MergesStep
BY DEF PeopleInv, PeopleTypeOK, Shapes, MergesStep, GoesOn, Authors

LEMMA PairsSame ==
    ASSUME PeopleInv, UNCHANGED pairs
    PROVE  PairsStep
BY DEF PeopleInv, PeopleTypeOK, There, PairsAreThere, PairsStep

LEMMA ProfilesSame ==
    ASSUME PeopleInv, persons \subseteq persons', UNCHANGED <<profiles, reader>>
    PROVE  ProfilesStep
<1>1. ReadingFits'
    BY DEF PeopleInv, profiles, ReadingFits, RowsFit, LinkFits, Giving
<1> QED BY <1>1 DEF PeopleInv, PeopleTypeOK, There, HoldersAreThere, ProfilesStep, profiles, Theirs

LEMMA AnalysisSame ==
    ASSUME PeopleInv, persons \subseteq persons', UNCHANGED analysis
    PROVE  AnalysisStep
BY DEF PeopleInv, Shapes, There, ResolvedIsThere, AnalysisStep

LEMMA AskingIs ==
    ASSUME PeopleInv, Asking
    PROVE  requests' \in 0..MaxRequests
BY PeopleAssumption DEF PeopleInv, PeopleTypeOK, Asking

LEMMA NobodyTaken ==
    ASSUME PeopleInv, UNCHANGED <<persons, works, alias, absorbed>>, Asking \/ UNCHANGED requests
    PROVE  TakesNobody
BY AskingIs DEF PeopleInv, PeopleTypeOK, TakesNobody, works

-----------------------------------------------------------------------------
(* The credits of one work change, and the merges note it.                 *)

LEMMA CrossingIs ==
    ASSUME PeopleInv, NEW p \in Staffers, NEW T \in SUBSET Titles, NEW N, N = Crossing(T)[p]
    PROVE  /\ N \in Merge /\ N.keep = merging[p].keep /\ N.other = merging[p].other
           /\ N.names = merging[p].names /\ N.had = merging[p].had /\ N.moved = merging[p].moved
           /\ merging[p].crossed \subseteq N.crossed /\ (Merging(p) => T \subseteq N.crossed)
<1>1. merging[p] \in Merge
    BY DEF PeopleInv, Shapes
<1>2. CASE ~Merging(p)
    BY <1>1, <1>2 DEF Crossing
<1>3. CASE Merging(p)
    <2>1. merging[p].crossed \cup T \in SUBSET Titles
        BY <1>1 DEF Merge
    <2>2. N = [merging[p] EXCEPT !.crossed = merging[p].crossed \cup T]
        BY <1>3 DEF Crossing
    <2> QED BY <1>1, <2>1, <2>2 DEF Merge
<1> QED BY <1>2, <1>3

LEMMA CrossingGoesOn ==
    ASSUME PeopleInv, NEW t \in Titles, merging' = Crossing({t}), DOMAIN credit' = Titles,
           NEW people, RowsFree(t, people), Authors(t) \subseteq Authors(t)' \cup people, credit' = [u \in Titles |-> credit'[u]], \A u \in Titles \ {t} : credit'[u] = credit[u]
    PROVE  merging' \in [Staffers -> Merge] /\ \A p \in Staffers : GoesOn(p)
<1>1. merging \in [Staffers -> Merge]
    BY DEF PeopleInv, Shapes
<1> SUFFICES ASSUME NEW p \in Staffers
             PROVE  merging'[p] \in Merge /\ GoesOn(p)
    BY <1>1 DEF Crossing
<1>2. /\ merging'[p] \in Merge
      /\ merging'[p].keep = merging[p].keep /\ merging'[p].other = merging[p].other
      /\ merging'[p].names = merging[p].names /\ merging'[p].had = merging[p].had
      /\ merging'[p].moved = merging[p].moved /\ merging[p].crossed \subseteq merging'[p].crossed
      /\ Merging(p) => t \in merging'[p].crossed
    <2>1. {t} \in SUBSET Titles
        OBVIOUS
    <2> QED BY <2>1, CrossingIs
<1>3. Merging(p) /\ t \in merging[p].moved => merging[p].other \in Authors(t)'
    <2> SUFFICES ASSUME Merging(p), t \in merging[p].moved
                 PROVE  merging[p].other \in Authors(t)'
        OBVIOUS
    <2>1. merging[p].other \in Authors(t)
        BY DEF PeopleInv, CopiesHold, Copied
    <2>2. merging[p].other \notin people
        BY DEF RowsFree, PairOf
    <2> QED BY <2>1, <2>2
<1>4. \A u \in Titles \ {t} : Authors(u)' = Authors(u)
    BY DEF Authors
<1> QED BY <1>2, <1>3, <1>4 DEF GoesOn

LEMMA CreditsKeep ==
    ASSUME PeopleInv, NEW t \in Titles, NEW n \in Names, NEW C, Credits(t, n, C), DOMAIN C \subseteq Authors(t) \cup {n},
           Confirmed(t) \/ UNCHANGED <<fixed, origin>>
    PROVE  PeopleInv'
<1>1. credit' = [credit EXCEPT ![t] = C] /\ credit = [u \in Titles |-> credit[u]] /\ merging' = Crossing({t})
      /\ RowsFree(t, Changed(credit[t], C) \cup {n})
    BY DEF Credits, PeopleInv, Shapes
<1>2. credit' = [u \in Titles |-> credit'[u]] /\ DOMAIN credit' = Titles /\ credit'[t] = C
      /\ \A u \in Titles \ {t} : credit'[u] = credit[u]
    BY <1>1
<1>3. merging' \in [Staffers -> Merge] /\ \A p \in Staffers : GoesOn(p)
    <2>1. Authors(t) \subseteq Authors(t)' \cup (Changed(credit[t], C) \cup {n})
        BY <1>2 DEF Authors, Changed
    <2> QED BY <1>1, <1>2, <2>1, CrossingGoesOn
<1>4. persons' = persons \cup {n} /\ \A u \in Titles : Authors(u) \subseteq persons
    BY DEF Credits, PeopleInv, PeopleTypeOK
<1>5. \A u \in Titles : Authors(u)' \subseteq persons'
    BY <1>2, <1>4 DEF Authors
<1>6. MergesStep
    BY <1>2, <1>3, <1>5 DEF MergesStep
<1>7. TakesNobody
    BY <1>4, AskingIs DEF Credits, AsksAbout, Confirmed, PeopleInv, PeopleTypeOK, TakesNobody
<1>8. PairsStep /\ ProfilesStep /\ AnalysisStep
    BY <1>4, PairsSame, ProfilesSame, AnalysisSame DEF Credits
<1> QED BY <1>6, <1>7, <1>8, StepKeeps

LEMMA ContributorsKeep ==
    ASSUME PeopleInv, NEW t \in Titles, Contributors(t)
    PROVE  PeopleInv'
<1>1. ASSUME NEW n \in Names, SetAuthor(t, n)
      PROVE  PeopleInv'
    <2>1. DOMAIN FirstSet(credit[t], n) \subseteq Authors(t) \cup {n}
        BY DEF FirstSet, With, Without, Authors
    <2> QED BY <1>1, <2>1, CreditsKeep DEF SetAuthor
<1>2. ASSUME NEW n \in Names, AddContributor(t, n)
      PROVE  PeopleInv'
    <2> DEFINE C == With(credit[t], n, Last(credit[t]))
    <2>1. DOMAIN C \subseteq Authors(t) \cup {n}
        BY DEF With, Authors
    <2>2. Credits(t, n, C) /\ (Confirmed(t) \/ UNCHANGED <<fixed, origin>>)
        BY <1>2 DEF AddContributor, ConfirmsFirst
    <2> QED BY <2>1, <2>2, CreditsKeep
<1>3. ASSUME NEW n \in Names, AcceptContributor(t, n)
      PROVE  PeopleInv'
    <2>1. DOMAIN With(credit[t], n, Last(credit[t])) \subseteq Authors(t) \cup {n}
        BY DEF With, Authors
    <2> QED BY <1>3, <2>1, CreditsKeep DEF AcceptContributor
<1>4. ASSUME NEW n \in Names, RemoveContributor(t, n)
      PROVE  PeopleInv'
    <2> DEFINE C == Renumbered(Without(credit[t], {n}))
    <2>1. DOMAIN C \subseteq Authors(t) \cup {n}
        BY DEF Renumbered, Without, Authors
    <2>2. Credits(t, n, C) /\ (Confirmed(t) \/ UNCHANGED <<fixed, origin>>)
        BY <1>4 DEF RemoveContributor, ConfirmsFirst
    <2> QED BY <2>1, <2>2, CreditsKeep
<1>5. ASSUME NEW C, OrderContributors(t, C)
      PROVE  PeopleInv'
    <2>1. PICK n \in Authors(t) : Credits(t, n, C)
        BY <1>5 DEF OrderContributors
    <2>2. n \in Names
        BY <2>1 DEF PeopleInv, PeopleTypeOK
    <2>3. DOMAIN C = Authors(t) /\ (Confirmed(t) \/ UNCHANGED <<fixed, origin>>)
        BY <1>5 DEF OrderContributors, ConfirmsFirst
    <2> QED BY <2>1, <2>2, <2>3, CreditsKeep
<1>6. ASSUME NEW on \in BOOLEAN, SetLock(t, on)
      PROVE  PeopleInv'
    <2>1. TakesNobody
        BY <1>6, AskingIs DEF SetLock, AsksAbout, TakesNobody, PeopleInv, PeopleTypeOK
    <2> QED BY <1>6, <2>1, StepKeeps, MergesSame, PairsSame, ProfilesSame, AnalysisSame DEF SetLock
<1> QED BY <1>1, <1>2, <1>3, <1>4, <1>5, <1>6 DEF Contributors

LEMMA AnalysisKeeps ==
    ASSUME PeopleInv, AuthorAnalysis
    PROVE  PeopleInv'
<1>1. analysis \in Reading /\ (analysis.pc # "idle" => analysis.of \in Names /\ analysis.title \in Titles)
    BY DEF PeopleInv, Shapes
<1>2. NoAnalysis \in Reading
    BY DEF Reading, NoAnalysis
<1>3. ASSUME NEW t \in Titles, NEW n \in Names, LoadAuthor(t, n)
      PROVE  PeopleInv'
    <2>1. AnalysisStep
        BY <1>3 DEF LoadAuthor, AnalysisStep, Reading, ResolvedIsThere
    <2>2. TakesNobody
        BY <1>3, NobodyTaken DEF LoadAuthor, AsksAbout
    <2> QED BY <1>3, <2>1, <2>2, StepKeeps, MergesSame, PairsSame, ProfilesSame DEF LoadAuthor, works
<1>4. CASE ResolveAuthor
    <2>1. persons' = persons \cup {analysis.of} /\ analysis.of \in Names /\ persons \subseteq Names
        BY <1>1, <1>4 DEF ResolveAuthor, PeopleInv, PeopleTypeOK
    <2>2. AnalysisStep
        BY <1>1, <1>4, <2>1 DEF ResolveAuthor, AnalysisStep, Reading, ResolvedIsThere
    <2>3. TakesNobody
        BY <1>4, <2>1 DEF ResolveAuthor, works, TakesNobody, PeopleInv, PeopleTypeOK
    <2>4. MergesStep
        BY <1>4, <2>1, MergesSame DEF ResolveAuthor, works
    <2> QED BY <1>4, <2>2, <2>3, <2>4, StepKeeps, PairsSame, ProfilesSame DEF ResolveAuthor
<1>5. CASE RemoveFirst \/ (InsertFirst /\ ~analysis.lost)
    <2> PICK t : t = analysis.title
        OBVIOUS
    <2>1. t \in Titles /\ merging' = Crossing({t}) /\ credit = [u \in Titles |-> credit[u]]
        BY <1>1, <1>5 DEF RemoveFirst, InsertFirst, PeopleInv, Shapes
    <2>2. PICK C, people : /\ credit' = [credit EXCEPT ![t] = C] /\ DOMAIN C \subseteq persons
                           /\ RowsFree(t, people) /\ Authors(t) \subseteq DOMAIN C \cup people
        <3>1. Authors(t) \subseteq persons
            BY <2>1 DEF PeopleInv, PeopleTypeOK
        <3>2. CASE RemoveFirst
            <4>1. credit' = [credit EXCEPT ![t] = Without(credit[t], AtFirst(credit[t]))]
                BY <3>2 DEF RemoveFirst
            <4>2. DOMAIN Without(credit[t], AtFirst(credit[t])) \subseteq persons
                  /\ Authors(t) \subseteq DOMAIN Without(credit[t], AtFirst(credit[t])) \cup AtFirst(credit[t])
                BY <3>1 DEF Without, Authors
            <4>3. RowsFree(t, AtFirst(credit[t]))
                BY <3>2 DEF RemoveFirst
            <4> QED BY <4>1, <4>2, <4>3
        <3>3. CASE InsertFirst /\ ~analysis.lost
            <4>1. analysis.of \in persons
                BY <3>3 DEF InsertFirst, PeopleInv, There, ResolvedIsThere
            <4>2. credit' = [credit EXCEPT ![t] = With(credit[t], analysis.of, 0)]
                BY <3>3 DEF InsertFirst
            <4>3. DOMAIN With(credit[t], analysis.of, 0) \subseteq persons
                  /\ Authors(t) \subseteq DOMAIN With(credit[t], analysis.of, 0) \cup {analysis.of}
                BY <3>1, <4>1 DEF With, Authors
            <4>4. RowsFree(t, {analysis.of})
                BY <3>3 DEF InsertFirst
            <4> QED BY <4>2, <4>3, <4>4
        <3> QED BY <1>5, <3>2, <3>3
    <2>3. credit' = [u \in Titles |-> credit'[u]] /\ DOMAIN credit' = Titles /\ credit'[t] = C
          /\ \A u \in Titles \ {t} : credit'[u] = credit[u]
        BY <2>1, <2>2
    <2>4. merging' \in [Staffers -> Merge] /\ \A p \in Staffers : GoesOn(p)
        <3>1. Authors(t)' = DOMAIN C
            BY <2>3 DEF Authors
        <3>2. Authors(t) \subseteq Authors(t)' \cup people
            BY <2>2, <3>1
        <3>3. RowsFree(t, people)
            BY <2>2
        <3>4. DOMAIN credit' = Titles /\ credit' = [u \in Titles |-> credit'[u]] /\ \A u \in Titles \ {t} : credit'[u] = credit[u]
            BY <2>3
        <3>5. t \in Titles /\ merging' = Crossing({t})
            BY <2>1
        <3> QED BY <3>2, <3>3, <3>4, <3>5, CrossingGoesOn
    <2>5. persons' = persons /\ \A u \in Titles : Authors(u)' \subseteq persons
        BY <1>5, <2>2, <2>3 DEF RemoveFirst, InsertFirst, PeopleInv, PeopleTypeOK, Authors
    <2>6. MergesStep
        BY <2>3, <2>4, <2>5 DEF MergesStep
    <2>7. AnalysisStep
        BY <1>1, <1>5, <2>5 DEF RemoveFirst, InsertFirst, AnalysisStep, Reading, ResolvedIsThere, PeopleInv, There
    <2>8. TakesNobody
        BY <1>5, <2>5 DEF RemoveFirst, InsertFirst, TakesNobody, PeopleInv, PeopleTypeOK
    <2> QED BY <1>5, <2>6, <2>7, <2>8, StepKeeps, PairsSame, ProfilesSame DEF RemoveFirst, InsertFirst
<1>6. CASE InsertFirst /\ analysis.lost
    <2>1. UNCHANGED <<persons, credit, merging, fixed, origin, pairs, alias, profiles, reader, absorbed, requests>> /\ analysis' = NoAnalysis
        BY <1>6 DEF InsertFirst
    <2>2. AnalysisStep
        BY <1>2, <2>1 DEF AnalysisStep, ResolvedIsThere, NoAnalysis
    <2>3. TakesNobody
        BY <2>1, NobodyTaken DEF works
    <2> QED BY <2>1, <2>2, <2>3, StepKeeps, MergesSame, PairsSame, ProfilesSame
<1>7. CASE RecordAuthor
    <2>1. AnalysisStep
        BY <1>2, <1>7 DEF RecordAuthor, AnalysisStep, ResolvedIsThere, NoAnalysis
    <2>2. TakesNobody
        BY <1>7 DEF RecordAuthor, TakesNobody, PeopleInv, PeopleTypeOK
    <2> QED BY <1>7, <2>1, <2>2, StepKeeps, MergesSame, PairsSame, ProfilesSame DEF RecordAuthor
<1> QED BY <1>3, <1>4, <1>5, <1>6, <1>7 DEF AuthorAnalysis, InsertFirst

-----------------------------------------------------------------------------
(* The pairs and the profiles.                                             *)

LEMMA PairKeeps ==
    ASSUME PeopleInv, NEW P \in Pairs, Detect(P) \/ Dismiss(P)
    PROVE  PeopleInv'
<1>1. PairsStep
    BY DEF Detect, Dismiss, PairsStep, PeopleInv, PeopleTypeOK, There, PairsAreThere
<1>2. TakesNobody
    BY NobodyTaken DEF Detect, Dismiss
<1>3. UNCHANGED <<persons, credit, merging, profiles, reader, analysis>>
    BY DEF Detect, Dismiss, works
<1> QED BY <1>1, <1>2, <1>3, StepKeeps, MergesSame, ProfilesSame, AnalysisSame

\* A pair is with somebody who is there.
LEMMA PairedIs ==
    ASSUME PeopleInv, NEW n \in persons, NEW others, others \subseteq persons, n \notin others, PairedWith(n, others)
    PROVE  PairsStep
<1>1. pairs \in [Pairs -> {"none", "pending", "dismissed"}] /\ \A P \in Pairs : pairs[P] # "none" => P \subseteq persons
    BY DEF PeopleInv, PeopleTypeOK, There, PairsAreThere
<1>2. ASSUME NEW P \in Pairs, n \in P, n \notin others, NEW m \in P \cap others
      PROVE  P \subseteq persons
    <2>1. P = {n, m}
        BY <1>2, TwoInPair
    <2> QED BY <1>2, <2>1
<1> QED BY <1>1, <1>2 DEF PairedWith, PairsStep

LEMMA HoldersAre ==
    ASSUME PeopleInv, NEW n, NEW q
    PROVE  HoldersBut(n, q) \subseteq persons /\ n \notin HoldersBut(n, q)
BY DEF HoldersBut, PeopleInv, There, HoldersAreThere

\* What is known of the reader, the link and the profiles.
LEMMA ReadingIs ==
    ASSUME PeopleInv
    PROVE  /\ persons \subseteq Names /\ holds \in [Names -> SUBSET Identifiers]
           /\ profile \in [Names -> {"none", "manual"} \cup Identifiers] /\ Theirs
           /\ remembered \in [Identifiers -> {"none", "done", "missing"}]
           /\ missed \subseteq Names /\ \A n \in Names : holds[n] # {} => n \in persons
           /\ reader \in Reader /\ link \in Linked /\ RowsFit /\ LinkFits
           /\ reader.pc \in {"asked", "keeping"} => reader.id \in Identifiers
           /\ "manual" \notin Identifiers /\ "none" \notin Identifiers /\ NoIdentifier \notin Identifiers /\ NoName \notin Names
           /\ NotReading \in Reader /\ NotReading.pc = "idle" /\ NoLink \in Linked /\ NoLink.pc = "none" /\ NoLink.of = NoName
<1>1. NotReading \in Reader /\ NotReading.pc = "idle"
    BY DEF NotReading, Nobody, Reader, MayBeNone
<1>2. NoLink \in Linked /\ NoLink.pc = "none" /\ NoLink.of = NoName
    BY DEF NoLink, Linked, MayBeNone, AnyProfile
<1>3. reader \in Reader /\ link \in Linked /\ RowsFit /\ LinkFits
      /\ (reader.pc \in {"asked", "keeping"} => reader.id \in Identifiers)
    BY DEF PeopleInv, ReadingFits
<1> QED BY <1>1, <1>2, <1>3, PeopleAssumption DEF PeopleInv, PeopleTypeOK, There, HoldersAreThere

LEMMA IdentifyKeeps ==
    ASSUME PeopleInv, NEW n \in Names, NEW q \in Identifiers, Identify(n, q)
    PROVE  PairsStep /\ ProfilesStep
<1>1. n \in persons /\ holds' = [holds EXCEPT ![n] = holds[n] \cup {q}] /\ PairedWith(n, HoldersBut(n, q))
      /\ UNCHANGED <<persons, profile, remembered, link, missed, reader>>
    BY DEF Identify
<1>2. PairsStep
    <2>1. HoldersBut(n, q) \subseteq persons /\ n \notin HoldersBut(n, q)
        BY HoldersAre
    <2> QED BY <1>1, <2>1, PairedIs
<1>3. holds' \in [Names -> SUBSET Identifiers] /\ \A m \in Names : holds[m] \subseteq holds'[m] /\ (holds'[m] # {} => m \in persons)
    BY <1>1, ReadingIs
<1>4. ReadingFits'
    BY <1>1, <1>3, ReadingIs DEF ReadingFits, RowsFit, LinkFits, Giving
<1>5. Theirs'
    BY <1>1, <1>3, ReadingIs DEF Theirs
<1> QED BY <1>1, <1>2, <1>3, <1>4, <1>5, ReadingIs DEF ProfilesStep

LEMMA BeginLinkKeeps ==
    ASSUME PeopleInv, NEW n \in Names, NEW q \in Identifiers, BeginLink(n, q)
    PROVE  PairsStep /\ ProfilesStep
<1>1. n \in persons /\ UNCHANGED <<persons, pairs, holds, profile, remembered, missed, reader>>
    BY DEF BeginLink
<1>2. PICK gone \in SUBSET Identifiers, others \in SUBSET Names, found \in AnyProfile :
         /\ link' = [NoLink EXCEPT !.pc = "linked", !.of = n, !.id = q, !.gone = gone, !.others = others, !.found = found]
         /\ found = profile[n] /\ n \notin others
    <2>1. holds[n] \ {q} \in SUBSET Identifiers /\ HoldersBut(n, q) \in SUBSET Names /\ profile[n] \in AnyProfile
          /\ n \notin HoldersBut(n, q)
        BY ReadingIs DEF HoldersBut, AnyProfile
    <2>2. link' = [NoLink EXCEPT !.pc = "linked", !.of = n, !.id = q, !.gone = holds[n] \ {q},
                                 !.others = HoldersBut(n, q), !.found = profile[n]]
        BY DEF BeginLink
    <2> QED BY <2>1, <2>2, Zenon
<1>3. link' \in Linked /\ link'.of = n /\ link'.id = q /\ link'.found = found /\ link'.pc = "linked" /\ n \notin link'.others
    BY <1>2 DEF NoLink, Linked, MayBeNone, AnyProfile
<1>4. ReadingFits'
    BY <1>1, <1>2, <1>3, ReadingIs DEF ReadingFits, RowsFit, LinkFits, Giving
<1> QED BY <1>1, <1>4, ReadingIs, PairsSame DEF ProfilesStep, Theirs

LEMMA DropKeeps ==
    ASSUME PeopleInv, DropProfile
    PROVE  PairsStep /\ ProfilesStep
<1>1. link.pc = "linked" /\ UNCHANGED <<persons, pairs, holds, profile, remembered, missed, reader>>
    BY DEF DropProfile
<1> DEFINE queued == link.found \notin {"manual", link.id}
<1>2. PICK drops \in BOOLEAN, forgets \in BOOLEAN :
         /\ link' = [link EXCEPT !.pc = "dropped", !.drops = drops, !.forgets = forgets]
         /\ drops <=> queued /\ profile[link.of] # "none"
    BY DEF DropProfile
<1>3. link' \in Linked /\ link'.of = link.of /\ link'.id = link.id /\ link'.found = link.found
      /\ link'.pc = "dropped" /\ link'.drops = drops /\ link'.others = link.others
    BY <1>2, ReadingIs DEF Linked
<1>4. link # NoLink /\ link.of \in persons /\ link.of \notin link.others /\ link.id \in Identifiers /\ (link.found # "none" => profile[link.of] = link.found)
    BY <1>1, ReadingIs DEF LinkFits
<1>5. ~drops => profile[link.of] \in {"none", "manual", link.id}
    BY <1>2, <1>4, ReadingIs
<1> HIDE DEF queued
<1>6. ReadingFits'
    BY <1>1, <1>3, <1>4, <1>5, ReadingIs DEF ReadingFits, RowsFit, LinkFits, Giving
<1> QED BY <1>1, <1>6, ReadingIs, PairsSame DEF ProfilesStep, Theirs

LEMMA CommitLinkKeeps ==
    ASSUME PeopleInv, CommitLink
    PROVE  PairsStep /\ ProfilesStep
<1>1. PICK n, q : n = link.of /\ q = link.id
    OBVIOUS
<1>2. link.pc = "dropped" /\ link # NoLink
    BY ReadingIs DEF CommitLink
<1>3. n \in persons /\ n \in Names /\ q \in Identifiers /\ n \notin link.others
      /\ (~link.drops => profile[n] \in {"none", "manual", q} \/ n \in missed)
    BY <1>1, <1>2, ReadingIs DEF LinkFits
<1>4. /\ holds' = [holds EXCEPT ![n] = (holds[n] \ link.gone) \cup {q}]
      /\ PairedWith(n, link.others \cap persons)
      /\ profile' = [profile EXCEPT ![n] = IF link.drops THEN "none" ELSE profile[n]]
      /\ remembered' = [remembered EXCEPT ![q] = IF link.forgets THEN "none" ELSE remembered[q]]
      /\ link' = NoLink
      /\ UNCHANGED <<persons, missed>>
    BY <1>1 DEF CommitLink
<1>5. PICK crossed \in SUBSET Names : /\ reader' = [reader EXCEPT !.crossed = crossed]
                                      /\ Giving => crossed = reader.crossed \cup {n}
    <2>1. reader.crossed \cup {n} \in SUBSET Names
        BY <1>3, ReadingIs DEF Reader
    <2>2. reader' = [reader EXCEPT !.crossed = IF Giving THEN reader.crossed \cup {n} ELSE {}]
        BY <1>1 DEF CommitLink
    <2>3. CASE Giving
        <3>1. reader' = [reader EXCEPT !.crossed = reader.crossed \cup {n}]
            BY <2>2, <2>3
        <3> QED BY <2>1, <3>1, Zenon
    <2>4. CASE ~Giving
        <3>1. reader' = [reader EXCEPT !.crossed = {}]
            BY <2>2, <2>4
        <3>2. {} \in SUBSET Names
            OBVIOUS
        <3> QED BY <2>4, <3>1, <3>2, Zenon
    <2> QED BY <2>3, <2>4
<1>6. reader' \in Reader /\ reader'.pc = reader.pc /\ reader'.id = reader.id /\ reader'.rows = reader.rows
      /\ reader'.lost = reader.lost /\ reader'.crossed = crossed
    BY <1>5, ReadingIs DEF Reader
<1>7. PairsStep
    <2>1. link.others \cap persons \subseteq persons /\ n \notin link.others \cap persons
        BY <1>3
    <2> QED BY <1>3, <1>4, <2>1, PairedIs
<1>8. /\ holds' \in [Names -> SUBSET Identifiers] /\ q \in holds'[n]
      /\ \A m \in Names \ {n} : holds'[m] = holds[m]
      /\ \A m \in Names : holds'[m] # {} => m \in persons
    BY <1>3, <1>4, ReadingIs
<1>9. /\ profile' \in [Names -> {"none", "manual"} \cup Identifiers]
      /\ \A m \in Names \ {n} : profile'[m] = profile[m]
      /\ profile'[n] \in {"none", "manual", q} \/ n \in missed
    BY <1>3, <1>4, ReadingIs
<1>10. Theirs'
    <2>1. \A m \in Names \ missed : profile'[m] \in Identifiers => profile'[m] \in holds'[m]
        <3> TAKE m \in Names \ missed
        <3>2. CASE m = n
            <4>1. profile'[n] \in {"none", "manual", q}
                BY <1>9, <3>2
            <4>2. "none" \notin Identifiers /\ "manual" \notin Identifiers
                BY ReadingIs
            <4> QED BY <1>8, <3>2, <4>1, <4>2
        <3>3. CASE m # n
            BY <1>8, <1>9, <3>3, ReadingIs DEF Theirs
        <3> QED BY <3>2, <3>3
    <2> QED BY <1>4, <2>1 DEF Theirs
<1>11. RowsFit'
    BY <1>5, <1>6, <1>8, ReadingIs DEF RowsFit, Giving
<1>12. ReadingFits'
    BY <1>4, <1>6, <1>11, ReadingIs DEF ReadingFits, LinkFits
<1> QED BY <1>3, <1>4, <1>7, <1>8, <1>9, <1>10, <1>12, ReadingIs DEF ProfilesStep

LEMMA HandKeeps ==
    ASSUME PeopleInv, NEW n \in Names, WriteProfile(n) \/ ResetProfile(n)
    PROVE  PairsStep /\ ProfilesStep
<1>1. ~ProfileLocked(n) /\ UNCHANGED <<persons, pairs, holds, link, missed, reader>>
    BY DEF WriteProfile, ResetProfile
<1>2. PICK what \in {"none", "manual"} : profile' = [profile EXCEPT ![n] = what]
    BY DEF WriteProfile, ResetProfile
<1>3. profile' \in [Names -> {"none", "manual"} \cup Identifiers] /\ profile'[n] = what
      /\ \A m \in Names \ {n} : profile'[m] = profile[m]
    BY <1>2, ReadingIs
<1>4. remembered' \in [Identifiers -> {"none", "done", "missing"}]
    BY ReadingIs DEF WriteProfile, ResetProfile
<1>5. LinkFits'
    BY <1>1, <1>3, ReadingIs DEF LinkFits, ProfileLocked
<1>6. ReadingFits'
    BY <1>1, <1>5, ReadingIs DEF ReadingFits, RowsFit, Giving
<1>7. Theirs'
    <2>1. what \notin Identifiers
        BY ReadingIs
    <2>2. \A m \in Names \ missed : profile'[m] \in Identifiers => profile'[m] \in holds[m]
        BY <1>3, <2>1, ReadingIs DEF Theirs
    <2> QED BY <1>1, <2>2 DEF Theirs
<1> QED BY <1>1, <1>3, <1>4, <1>6, <1>7, ReadingIs, PairsSame DEF ProfilesStep

\* The statement looks at who holds what.
LEMMA LooksKeeps ==
    ASSUME PeopleInv, Share \/ KeepProfile \/ (\E q \in Identifiers : BeginRead(q))
    PROVE  PairsStep /\ ProfilesStep
<1>1. UNCHANGED <<persons, pairs, holds, link, profile, remembered, missed>>
    BY DEF Share, KeepProfile, BeginRead, Reads
<1>2. /\ reader' \in Reader
      /\ reader'.pc \in {"asked", "keeping"} => reader'.id \in Identifiers
      /\ Giving' => \A n \in Names : reader'.rows[n] # NoIdentifier => reader'.rows[n] \in holds[n]
    <2>1. CASE Share
        <3>1. PICK rows \in [Names -> Identifiers \cup {NoIdentifier}] :
                 /\ \A n \in Names : rows[n] = NoIdentifier \/ rows[n] \in holds[n]
                 /\ reader' = [NotReading EXCEPT !.pc = "sharing", !.rows = rows]
            BY <2>1 DEF Share
        <3>2. reader' \in Reader /\ reader'.pc = "sharing" /\ reader'.rows = rows
            BY <3>1 DEF NotReading, Nobody, Reader, MayBeNone
        <3> QED BY <3>1, <3>2
    <2>2. CASE KeepProfile
        <3>1. PICK rows \in [Names -> MayBeNone] :
                 /\ \A n \in Names : rows[n] = NoIdentifier \/ rows[n] \in holds[n]
                 /\ reader' = [reader EXCEPT !.pc = "keeping", !.asked = {}, !.rows = rows]
            <4>1. reader.id \in Identifiers
                BY <2>2, ReadingIs DEF KeepProfile
            <4> DEFINE R == [n \in Names |-> IF n \in Holders(reader.id) THEN reader.id ELSE NoIdentifier]
            <4>2. R \in [Names -> MayBeNone] /\ \A n \in Names : R[n] = NoIdentifier \/ R[n] \in holds[n]
                BY <4>1 DEF MayBeNone, Holders
            <4>3. reader' = [reader EXCEPT !.pc = "keeping", !.asked = {}, !.rows = R]
                BY <2>2 DEF KeepProfile
            <4> HIDE DEF R
            <4> QED BY <4>2, <4>3
        <3>2. reader.id \in Identifiers
            BY <2>2, ReadingIs DEF KeepProfile
        <3>3. reader' \in Reader /\ reader'.id = reader.id /\ reader'.rows = rows
            BY <3>1, ReadingIs DEF Reader
        <3> QED BY <3>1, <3>2, <3>3
    <2>3. ASSUME NEW q \in Identifiers, BeginRead(q)
          PROVE  reader' \in Reader /\ reader'.pc = "asked" /\ reader'.id \in Identifiers
        <3>1. PICK asked \in SUBSET Names : reader' = [NotReading EXCEPT !.pc = "asked", !.id = q, !.asked = asked]
            <4>1. Unprofiled(q) \in SUBSET Names
                BY ReadingIs DEF Unprofiled
            <4> QED BY <2>3, <4>1 DEF BeginRead
        <3> QED BY <3>1 DEF NotReading, Nobody, Reader, MayBeNone
    <2> QED BY <2>1, <2>2, <2>3 DEF Giving
<1>3. RowsFit' /\ LinkFits'
    BY <1>1, <1>2, ReadingIs DEF RowsFit, LinkFits
<1>4. ReadingFits'
    BY <1>1, <1>2, <1>3, ReadingIs DEF ReadingFits
<1> QED BY <1>1, <1>4, ReadingIs, PairsSame DEF ProfilesStep, Theirs

\* The statement writes: what it has of who was not crossed is still theirs.
LEMMA WritesRowsKeeps ==
    ASSUME PeopleInv, WriteRows
    PROVE  PairsStep /\ ProfilesStep
<1>1. UNCHANGED <<persons, pairs, holds, link>> /\ reader' = NotReading /\ Giving /\ \A n \in Given : ~ProfileLocked(n)
    BY DEF WriteRows, Reads
<1>2. CASE reader.lost
    <2>1. UNCHANGED <<profile, remembered, missed>>
        BY <1>2 DEF WriteRows
    <2>2. ReadingFits'
        BY <1>1, <2>1, ReadingIs DEF ReadingFits, RowsFit, LinkFits, Giving
    <2> QED BY <1>1, <2>1, <2>2, ReadingIs, PairsSame DEF ProfilesStep, Theirs
<1>3. CASE ~reader.lost
    <2>1. PICK written : written = {n \in Given : Replaced(n)}
        OBVIOUS
    <2>2. /\ profile' = [n \in Names |-> IF n \in written THEN reader.rows[n] ELSE profile[n]]
          /\ remembered' = IF reader.pc = "keeping" THEN [remembered EXCEPT ![reader.id] = "done"] ELSE remembered
          /\ missed' = (missed \ written) \cup (written \cap (reader.crossed \cup {link.of}))
        BY <1>3, <2>1 DEF WriteRows
    <2>3. written \subseteq Given /\ \A n \in written : n \in Names /\ reader.rows[n] \in Identifiers
        BY <2>1, ReadingIs DEF Given, Reader, MayBeNone
    <2>4. \A n \in written \ reader.crossed : reader.rows[n] \in holds[n]
        BY <1>1, <1>3, <2>3, ReadingIs DEF RowsFit
    <2>5. profile' \in [Names -> {"none", "manual"} \cup Identifiers] /\ missed' \subseteq Names
        BY <2>2, <2>3, ReadingIs
    <2>6. remembered' \in [Identifiers -> {"none", "done", "missing"}]
        BY <2>2, ReadingIs
    <2>7. Theirs'
        BY <1>1, <2>2, <2>3, <2>4, ReadingIs DEF Theirs
    <2>8. LinkFits'
        <3>1. ASSUME link # NoLink, link.of \in written
              PROVE  link.of \in missed' /\ link.found = "none"
            BY <1>1, <2>2, <2>3, <3>1 DEF ProfileLocked
        <3>2. ASSUME link # NoLink, link.of \notin written
              PROVE  profile'[link.of] = profile[link.of] /\ (link.of \in missed => link.of \in missed')
            BY <2>2, <3>2, ReadingIs DEF LinkFits
        <3> QED BY <1>1, <3>1, <3>2, ReadingIs DEF LinkFits
    <2>9. ReadingFits'
        BY <1>1, <2>8, ReadingIs DEF ReadingFits, RowsFit, Giving
    <2> QED BY <1>1, <2>5, <2>6, <2>7, <2>9, ReadingIs, PairsSame DEF ProfilesStep
<1> QED BY <1>2, <1>3

LEMMA StopsKeeps ==
    ASSUME PeopleInv, NotFound \/ AbortLink
    PROVE  PairsStep /\ ProfilesStep
<1>1. UNCHANGED <<persons, pairs, holds, profile, missed>>
      /\ \/ reader' = NotReading /\ link' = link
         \/ reader' = reader /\ link' = NoLink
    BY DEF NotFound, AbortLink, Reads
<1>2. remembered' \in [Identifiers -> {"none", "done", "missing"}]
    BY ReadingIs DEF NotFound, AbortLink
<1>3. ReadingFits'
    BY <1>1, ReadingIs DEF ReadingFits, RowsFit, LinkFits, Giving
<1> QED BY <1>1, <1>2, <1>3, ReadingIs, PairsSame DEF ProfilesStep, Theirs

LEMMA ProfilingKeeps ==
    ASSUME PeopleInv, Profiling
    PROVE  PeopleInv'
<1>1. UNCHANGED <<persons, works, alias, absorbed, merging, analysis>> /\ (Asking \/ UNCHANGED requests)
    BY DEF Profiling, WriteProfile, ResetProfile, Identify, BeginLink, DropProfile, CommitLink, AbortLink, Share, KeepProfile,
           WriteRows, NotFound, BeginRead, Reads, AsksAbout
<1>2. MergesStep /\ AnalysisStep /\ TakesNobody
    BY <1>1, MergesSame, AnalysisSame, NobodyTaken DEF works
<1>3. PairsStep /\ ProfilesStep
    BY IdentifyKeeps, BeginLinkKeeps, DropKeeps, CommitLinkKeeps, HandKeeps, LooksKeeps, WritesRowsKeeps, StopsKeeps DEF Profiling
<1> QED BY <1>2, <1>3, StepKeeps

-----------------------------------------------------------------------------
(* The merges.                                                             *)

LEMMA BeginKeeps ==
    ASSUME PeopleInv, NEW p \in Staffers, NEW keep \in Names, NEW other \in Names, BeginMerge(p, keep, other)
    PROVE  PeopleInv'
<1> DEFINE M == [keep |-> keep, other |-> other, moved |-> Moved(keep, other),
                 names |-> CopiedNames(other), ids |-> holds[other], had |-> alias[other], crossed |-> {}]
<1>1. merging \in [Staffers -> Merge] /\ alias[other] \in SUBSET Names /\ holds[other] \in SUBSET Identifiers
    BY DEF PeopleInv, Shapes, PeopleTypeOK
<1>2. merging' = [merging EXCEPT ![p] = M]
    BY DEF BeginMerge
<1>3. M \in Merge /\ M.keep = keep /\ M.other = other /\ M.names = {other} \cup alias[other] /\ M.had = alias[other]
      /\ M.moved = Moved(keep, other) /\ M.crossed = {}
    BY <1>1 DEF Merge, Moved, CopiedNames
<1> HIDE DEF M
<1>4. {keep, other} \subseteq persons /\ keep # other
    <2>1. {keep, other} \in Pairs /\ pairs[{keep, other}] = "pending" /\ keep # other
        BY PairOfTwo DEF BeginMerge
    <2> QED BY <2>1 DEF PeopleInv, There, PairsAreThere
<1>5. UNCHANGED <<persons, works, pairs, alias, profiles, analysis, reader, absorbed>> /\ Asking
    BY DEF BeginMerge
<1>6. merging' \in [Staffers -> Merge] /\ merging'[p] = M /\ \A q \in Staffers \ {p} : merging'[q] = merging[q]
    BY <1>1, <1>2, <1>3
<1>7. Begins(p)
    BY <1>3, <1>4, <1>5, <1>6 DEF Begins, PairOf, Copied, Moved, Authors, works
<1>8. \A q \in Staffers \ {p} : GoesOn(q)
    BY <1>5, <1>6 DEF GoesOn, Authors, works
<1>9. MergesStep
    BY <1>5, <1>6, <1>7, <1>8 DEF MergesStep, PeopleInv, Shapes, PeopleTypeOK, works, Authors
<1> QED BY <1>5, <1>9, StepKeeps, PairsSame, ProfilesSame, AnalysisSame, NobodyTaken

LEMMA AbortKeeps ==
    ASSUME PeopleInv, NEW p \in Staffers, AbortMerge(p)
    PROVE  PeopleInv'
<1>1. merging \in [Staffers -> Merge] /\ NoMerge \in Merge /\ merging' = [merging EXCEPT ![p] = NoMerge]
    BY DEF PeopleInv, Shapes, Merge, NoMerge, AbortMerge
<1>2. UNCHANGED <<persons, works, pairs, alias, profiles, analysis, reader, absorbed, requests>>
    BY DEF AbortMerge
<1>3. merging' \in [Staffers -> Merge] /\ merging'[p] = NoMerge /\ \A q \in Staffers \ {p} : merging'[q] = merging[q]
    BY <1>1
<1>4. MergesStep
    BY <1>2, <1>3 DEF MergesStep, GoesOn, PeopleInv, Shapes, PeopleTypeOK, works, Authors
<1> QED BY <1>2, <1>4, StepKeeps, PairsSame, ProfilesSame, AnalysisSame, NobodyTaken

\* Whom a merge leaves credited, when it commits.
LEMMA JointIs ==
    ASSUME PeopleInv, NEW p \in Staffers, CommitMerge(p), NEW M, M = merging[p], NEW t \in Titles
    PROVE  /\ Authors(t)' = (Authors(t) \cup (IF t \in M.moved THEN {M.keep} ELSE {})) \ {M.other}
           /\ M.other \notin Authors(t) => Authors(t)' = Authors(t)
<1>1. credit'[t] = Joint(M, t)
    BY DEF CommitMerge
<1>2. t \in M.moved => M.other \in Authors(t)
    BY DEF PeopleInv, CopiesHold, Copied, CommitMerge
<1>3. CASE t \in M.moved
    BY <1>1, <1>2, <1>3 DEF Joint, With, Without, Authors
<1>4. CASE t \notin M.moved
    BY <1>1, <1>4 DEF Joint, Without, Authors
<1> QED BY <1>2, <1>3, <1>4

LEMMA CommitMergeKeeps ==
    ASSUME PeopleInv, NEW p \in Staffers, CommitMerge(p)
    PROVE  PeopleInv'
<1> DEFINE M == merging[p]
           T == {t \in Titles : M.other \in Authors(t)}
<1>1. M \in Merge /\ Copied(M) /\ {M.keep, M.other} \subseteq persons /\ M.keep # M.other /\ persons \subseteq Names
    BY DEF PeopleInv, Shapes, CopiesHold, There, MergedAreThere, PairOf, CommitMerge, PeopleTypeOK
<1>2. /\ \A q \in Staffers \ {p} : M.other \notin PairOf(q)
      /\ persons' = persons \ {M.other}
      /\ credit' = [t \in Titles |-> Joint(M, t)]
      /\ pairs' = [P \in Pairs |-> IF M.other \in P THEN "none" ELSE pairs[P]]
      /\ alias' = [alias EXCEPT ![M.keep] = @ \cup M.names, ![M.other] = {}]
      /\ holds' = [holds EXCEPT ![M.keep] = @ \cup M.ids, ![M.other] = {}]
      /\ profile' = [profile EXCEPT ![M.other] = "none"]
      /\ analysis' = [analysis EXCEPT !.lost = @ \/ (analysis.of = M.other /\ analysis.pc \in {"removing", "inserting"})]
      /\ merging' = [Crossing(T) EXCEPT ![p] = NoMerge]
      /\ absorbed' = (absorbed \cup {M.other}) \ (alias[M.other] \ M.had)
      /\ reader' = [reader EXCEPT !.lost = @ \/ reader.rows[M.other] # NoIdentifier]
      /\ M.other # link.of
      /\ UNCHANGED <<fixed, origin, remembered, link, missed, requests>>
    BY DEF CommitMerge
<1>3. \A t \in Titles : /\ Authors(t)' = (Authors(t) \cup (IF t \in M.moved THEN {M.keep} ELSE {})) \ {M.other}
                        /\ M.other \notin Authors(t) => Authors(t)' = Authors(t)
    BY JointIs
<1>0. T \in SUBSET Titles /\ \A t \in Titles : M.other \in Authors(t) => t \in T
    OBVIOUS
<1> HIDE DEF M, T
<1>4. /\ alias \in [Names -> SUBSET Names] /\ holds \in [Names -> SUBSET Identifiers]
      /\ profile \in [Names -> {"none", "manual"} \cup Identifiers]
      /\ M.names \in SUBSET Names /\ M.ids \in SUBSET Identifiers /\ M.had \in SUBSET Names /\ M.moved \in SUBSET Titles
      /\ absorbed \subseteq Names
    BY <1>1 DEF PeopleInv, PeopleTypeOK, Merge
<1>5. /\ merging' \in [Staffers -> Merge] /\ merging'[p] = NoMerge
      /\ \A q \in Staffers \ {p} : merging'[q] = Crossing(T)[q]
    <2>1. T \in SUBSET Titles /\ NoMerge \in Merge
        BY <1>0 DEF Merge, NoMerge
    <2>2. \A q \in Staffers : Crossing(T)[q] \in Merge
        BY <2>1, CrossingIs
    <2>3. Crossing(T) \in [Staffers -> Merge]
        BY <2>2 DEF Crossing
    <2> QED BY <1>2, <2>1, <2>3
<1>6. ASSUME NEW q \in Staffers \ {p}, Merging(q)
      PROVE  GoesOn(q) /\ PairOf(q)' \subseteq persons' /\ merging'[q].keep # merging'[q].other
    <2> DEFINE N == merging'[q]
    <2>1. /\ N \in Merge /\ N.keep = merging[q].keep /\ N.other = merging[q].other
          /\ N.names = merging[q].names /\ N.had = merging[q].had /\ N.moved = merging[q].moved
          /\ merging[q].crossed \subseteq N.crossed /\ T \subseteq N.crossed
        <3>1. N = Crossing(T)[q]
            BY <1>5
        <3> HIDE DEF N
        <3> QED BY <1>0, <1>6, <3>1, CrossingIs
    <2>2. PairOf(q) \subseteq persons /\ merging[q].keep # merging[q].other /\ M.other \notin PairOf(q)
        BY <1>2, <1>6 DEF PeopleInv, There, MergedAreThere
    <2>3. \A t \in merging[q].moved : merging[q].other \in Authors(t)
        BY <1>6 DEF PeopleInv, CopiesHold, Copied
    <2>4. ASSUME NEW t \in Titles
          PROVE  \/ Authors(t)' = Authors(t)
                 \/ t \in merging'[q].crossed /\ (t \in merging[q].moved => merging[q].other \in Authors(t)')
        <3>1. CASE M.other \notin Authors(t)
            BY <1>3, <3>1
        <3>2. CASE M.other \in Authors(t)
            <4>1. t \in merging'[q].crossed
                BY <1>0, <2>1, <3>2
            <4>2. t \in merging[q].moved => merging[q].other \in Authors(t)'
                BY <1>3, <2>2, <2>3 DEF PairOf
            <4> QED BY <4>1, <4>2
        <3> QED BY <3>1, <3>2
    <2> QED BY <1>2, <2>1, <2>2, <2>4 DEF GoesOn, PairOf
<1>7. \A q \in Staffers : Merging(q)' => q # p /\ Merging(q) /\ GoesOn(q) /\ PairOf(q)' \subseteq persons' /\ merging'[q].keep # merging'[q].other
    <2> SUFFICES ASSUME NEW q \in Staffers, Merging(q)'
                 PROVE  q # p /\ Merging(q)
        BY <1>6
    <2>1. q # p
        BY <1>5 DEF Merging, NoMerge
    <2>2. Merging(q)
        BY <1>5, <2>1 DEF Crossing, Merging
    <2> QED BY <2>1, <2>2
<1>8. CopiesHold'
    <2> SUFFICES ASSUME NEW q \in Staffers, Merging(q)'
                 PROVE  Copied(merging[q])'
        BY DEF CopiesHold
    <2>1. merging[q] \in Merge /\ merging'[q] \in Merge /\ Copied(merging[q]) /\ Merging(q) /\ GoesOn(q)
        BY <1>5, <1>7 DEF PeopleInv, Shapes, CopiesHold
    <2> QED BY <2>1, CopiedGoesOn
<1>9. PeopleTypeOK'
    <2>1. \A t \in Titles : Authors(t)' \subseteq persons'
        BY <1>1, <1>2, <1>3 DEF PeopleInv, PeopleTypeOK
    <2>2. alias' \in [Names -> SUBSET Names] /\ holds' \in [Names -> SUBSET Identifiers] /\ pairs' \in [Pairs -> {"none", "pending", "dismissed"}]
        BY <1>1, <1>2, <1>4 DEF PeopleInv, PeopleTypeOK
    <2>3. profile' \in [Names -> {"none", "manual"} \cup Identifiers] /\ absorbed' \subseteq Names /\ persons' \subseteq Names
        BY <1>1, <1>2, <1>4
    <2> QED BY <1>2, <2>1, <2>2, <2>3 DEF PeopleInv, PeopleTypeOK
<1>10. analysis \in Reading /\ analysis' \in Reading /\ analysis'.pc = analysis.pc /\ analysis'.of = analysis.of /\ analysis'.title = analysis.title
       /\ (analysis.lost \/ (analysis.of = M.other /\ analysis.pc \in {"removing", "inserting"}) => analysis'.lost)
    BY <1>2 DEF PeopleInv, Shapes, Reading
<1>11. Shapes'
    <2>1. credit' = [t \in Titles |-> credit'[t]]
        BY <1>2
    <2> QED BY <1>2, <1>5, <1>10, <2>1 DEF PeopleInv, Shapes
<1>12. There'
    <2>1. MergedAreThere'
        BY <1>7 DEF MergedAreThere
    <2>2. HoldersAreThere'
        BY <1>1, <1>2, <1>4 DEF PeopleInv, There, HoldersAreThere
    <2>3. PairsAreThere'
        BY <1>2 DEF PeopleInv, There, PairsAreThere
    <2>4. ResolvedIsThere'
        BY <1>2, <1>10 DEF PeopleInv, There, ResolvedIsThere
    <2> QED BY <2>1, <2>2, <2>3, <2>4 DEF There
<1>13. Theirs'
    <2>1. "none" \notin Identifiers
        BY PeopleAssumption
    <2> QED BY <1>1, <1>2, <1>4, <2>1 DEF PeopleInv, Theirs
<1>15. ReadingFits'
    <2>1. PICK lost \in BOOLEAN : /\ reader' = [reader EXCEPT !.lost = lost]
                                  /\ ~lost => ~reader.lost /\ reader.rows[M.other] = NoIdentifier
        <3>1. reader.lost \in BOOLEAN
            BY ReadingIs DEF Reader
        <3> QED BY <1>2, <3>1
    <2>2. reader' \in Reader /\ reader'.pc = reader.pc /\ reader'.id = reader.id /\ reader'.rows = reader.rows
          /\ reader'.lost = lost /\ reader'.crossed = reader.crossed
        BY <2>1, ReadingIs DEF Reader
    <2>3. \A n \in Names \ {M.other} : holds[n] \subseteq holds'[n] /\ profile'[n] = profile[n]
        BY <1>1, <1>2, <1>4
    <2>4. RowsFit'
        BY <2>1, <2>2, <2>3, ReadingIs DEF RowsFit, Giving
    <2>5. LinkFits'
        BY <1>2, <2>3, ReadingIs DEF LinkFits
    <2> QED BY <1>2, <2>2, <2>4, <2>5, ReadingIs DEF ReadingFits
<1>14. AbsorbedIsFound'
    <2> SUFFICES ASSUME NEW n \in absorbed'
                 PROVE  \E m \in persons' : n \in alias'[m]
        BY DEF AbsorbedIsFound
    <2>1. M.keep \in persons' /\ alias'[M.keep] = alias[M.keep] \cup M.names /\ M.names = {M.other} \cup M.had
        BY <1>1, <1>2, <1>4 DEF Copied
    <2>2. CASE n = M.other
        BY <2>1, <2>2
    <2>3. CASE n # M.other
        <3>1. n \in absorbed /\ n \notin alias[M.other] \ M.had
            BY <1>2, <2>3
        <3>2. PICK m \in persons : n \in alias[m]
            BY <3>1 DEF PeopleInv, AbsorbedIsFound
        <3>3. CASE m = M.other
            BY <2>1, <3>1, <3>2, <3>3
        <3>4. CASE m # M.other
            <4>1. m \in persons' /\ alias[m] \subseteq alias'[m]
                BY <1>1, <1>2, <1>4, <3>2, <3>4
            <4> QED BY <3>2, <4>1
        <3> QED BY <3>3, <3>4
    <2> QED BY <2>2, <2>3
<1> QED BY <1>8, <1>9, <1>11, <1>12, <1>13, <1>14, <1>15 DEF PeopleInv

-----------------------------------------------------------------------------
(* The theorems. *)

LEMMA PeopleStep == PeopleInv /\ [PeopleNext]_peopleVars => PeopleInv'
<1> SUFFICES ASSUME PeopleInv, [PeopleNext]_peopleVars
             PROVE  PeopleInv'
    OBVIOUS
<1>1. CASE \E p \in Staffers : Merges(p)
    BY <1>1, BeginKeeps, CommitMergeKeeps, AbortKeeps DEF Merges
<1>2. CASE UNCHANGED peopleVars
    <2>1. TakesNobody /\ MergesStep /\ PairsStep /\ ProfilesStep /\ AnalysisStep
        BY <1>2, MergesSame, PairsSame, ProfilesSame, AnalysisSame, NobodyTaken DEF peopleVars, works, profiles
    <2> QED BY <2>1, StepKeeps
<1> QED BY <1>1, <1>2, ContributorsKeep, AnalysisKeeps, PairKeeps, ProfilingKeeps DEF PeopleNext

LEMMA PeopleAlways == PeopleSpec => []PeopleInv
<1>1. PeopleInit => PeopleInv
    BY PeopleStart
<1>2. PeopleInv /\ [PeopleNext]_peopleVars => PeopleInv'
    BY PeopleStep
<1> QED BY <1>1, <1>2, PTL DEF PeopleSpec

\* The types; whoever a work credits is there.
THEOREM PeopleTyped == PeopleSpec => []PeopleTypeOK
<1>1. PeopleInv => PeopleTypeOK
    BY DEF PeopleInv
<1> QED BY <1>1, PeopleAlways, PTL

\* A name whose person was merged away, and whose heirs were, is still an alias of somebody.
THEOREM AbsorbedFound == PeopleSpec => []AbsorbedIsFound
<1>1. PeopleInv => AbsorbedIsFound
    BY DEF PeopleInv
<1> QED BY <1>1, PeopleAlways, PTL

\* A profile that was read is of an identifier the person holds, whatever changed while it
\* was being read, unless the statement that wrote it crossed a link of the person
\* (_KEEP, _SHARE and LinkProfile).
THEOREM ProfilesTheirs == PeopleSpec => []ProfileIsTheirs
<1>1. PeopleInv => ProfileIsTheirs
    BY DEF PeopleInv, Theirs, ProfileIsTheirs, PeopleTypeOK
<1> QED BY <1>1, PeopleAlways, PTL

\* A merge that ends while somebody comes or goes is one that commits.
LEMMA CommitsIs ==
    ASSUME PeopleInv, PeopleNext, NEW p \in Staffers, Commits(p)
    PROVE  CommitMerge(p)
<1>1. Merging(p) /\ persons' # persons /\ merging'[p].keep = NoName /\ merging[p].keep # NoName
    BY DEF Commits, Merging, NoMerge
<1>2. ASSUME NEW T \in SUBSET Titles, merging'[p] = Crossing(T)[p]
      PROVE  FALSE
    <2> DEFINE N == merging'[p]
    <2>1. N = Crossing(T)[p] /\ N.keep = NoName
        BY <1>1, <1>2
    <2> HIDE DEF N
    <2> QED BY <1>1, <2>1, CrossingIs
<1>3. ASSUME NEW t \in Titles, Contributors(t)
      PROVE  FALSE
    <2>1. merging' = Crossing({t}) \/ UNCHANGED persons
        BY <1>3 DEF Contributors, SetAuthor, AddContributor, AcceptContributor, RemoveContributor, OrderContributors, SetLock, Credits
    <2>2. {t} \in SUBSET Titles
        OBVIOUS
    <2>3. merging' # Crossing({t})
        BY <1>2, <2>2
    <2> QED BY <1>1, <2>1, <2>3
<1>4. CASE AuthorAnalysis
    BY <1>1, <1>4 DEF AuthorAnalysis, LoadAuthor, ResolveAuthor, RemoveFirst, InsertFirst, RecordAuthor
<1>5. ASSUME NEW q \in Staffers, CommitMerge(q), q # p
      PROVE  FALSE
    <2> DEFINE T == {t \in Titles : merging[q].other \in Authors(t)}
    <2>1. merging' = [Crossing(T) EXCEPT ![q] = NoMerge]
        BY <1>5 DEF CommitMerge
    <2>2. T \in SUBSET Titles
        OBVIOUS
    <2> HIDE DEF T
    <2>3. merging'[p] = Crossing(T)[p]
        BY <1>5, <2>1 DEF Crossing
    <2> QED BY <1>2, <2>2, <2>3
<1>6. ASSUME NEW q \in Staffers, Merges(q), ~CommitMerge(q)
      PROVE  FALSE
    BY <1>1, <1>6 DEF Merges, BeginMerge, AbortMerge
<1>7. ASSUME NEW P \in Pairs, Detect(P) \/ Dismiss(P)
      PROVE  FALSE
    BY <1>1, <1>7 DEF Detect, Dismiss
<1>8. CASE Profiling
    BY <1>1, <1>8 DEF Profiling, WriteProfile, ResetProfile, Identify, BeginLink, DropProfile, CommitLink, AbortLink, Share, KeepProfile,
                      WriteRows, NotFound, BeginRead, Reads
<1> QED BY <1>3, <1>4, <1>5, <1>6, <1>7, <1>8 DEF PeopleNext

\* The works that credit the person who is merged away credit the one who stays, unless
\* somebody changed their credits during the merge.
THEOREM CreditFollows == PeopleSpec => CreditsFollow
<1> DEFINE A == \A p \in Staffers : Commits(p) =>
                  \A t \in Titles \ merging[p].crossed :
                      merging[p].other \in Authors(t) => merging[p].keep \in Authors(t)'
<1>1. PeopleInv /\ [PeopleNext]_peopleVars => [A]_peopleVars
    <2> SUFFICES ASSUME PeopleInv, PeopleNext, NEW p \in Staffers, Commits(p), NEW t \in Titles \ merging[p].crossed,
                        merging[p].other \in Authors(t)
                 PROVE  merging[p].keep \in Authors(t)'
        OBVIOUS
    <2>1. CommitMerge(p)
        BY CommitsIs
    <2>2. Copied(merging[p]) /\ merging[p].keep # merging[p].other
        BY <2>1 DEF CommitMerge, PeopleInv, CopiesHold, There, MergedAreThere
    <2>3. merging[p].keep \in Authors(t) \cup (IF t \in merging[p].moved THEN {merging[p].keep} ELSE {})
        BY <2>2 DEF Copied
    <2> QED BY <2>1, <2>2, <2>3, JointIs
<1> QED BY <1>1, PeopleAlways, PTL DEF PeopleSpec, CreditsFollow
=============================================================================
