--------------------------- MODULE ContentProofs ---------------------------
(***************************************************************************)
(* Proofs about the safety of what a book says and what is written of it:  *)
(* of Texts, for any pages, manners, processes, requests and mishaps; and  *)
(* of Wiki, for any writings, sections, generations and things written by  *)
(* hand.                                                                   *)
(***************************************************************************)
EXTENDS Texts, Wiki, FiniteSetTheorems, WellFoundedInduction, TLAPS

-----------------------------------------------------------------------------
(* Texts: the order of the pages.  What holds of every finite set is proved    *)
(* from a smallest one of which it would not hold.                             *)

\* What does not hold of every finite set fails first for a smallest one.
LEMMA SmallestSet ==
    ASSUME NEW X, NEW B, B \subseteq FiniteSubsetsOf(X), B # {}
    PROVE  \E U \in B : \A x \in U : U \ {x} \notin B
  <1>1. IsWellFoundedOn(StrictSubsetOrdering(X), FiniteSubsetsOf(X)) BY FS_StrictSubsetOrderingWellFounded
  <1>2. PICK U \in B : \A V \in B : <<V, U>> \notin StrictSubsetOrdering(X) BY <1>1, WFMin
  <1> QED BY <1>2 DEF StrictSubsetOrdering, FiniteSubsetsOf

\* Finite sets of numbers have a greatest member.
LEMMA Greatest ==
    ASSUME NEW S \in SUBSET Nat, IsFiniteSet(S), S # {}
    PROVE  \E m \in S : \A n \in S : n <= m
  <1> DEFINE B == {U \in FiniteSubsetsOf(Nat) : U # {} /\ ~(\E m \in U : \A n \in U : n <= m)}
  <1>1. ASSUME B # {} PROVE FALSE
    <2>1. B \subseteq FiniteSubsetsOf(Nat) OBVIOUS
    <2>2. PICK U \in B : \A x \in U : U \ {x} \notin B
      <3> HIDE DEF B
      <3> QED BY <1>1, <2>1, SmallestSet
    <2>3. U \in SUBSET Nat /\ IsFiniteSet(U) /\ U # {} BY DEF FiniteSubsetsOf
    <2>4. PICK x \in U : TRUE BY <2>3
    <2>5. U \ {x} \in FiniteSubsetsOf(Nat) BY <2>3, FS_RemoveElement DEF FiniteSubsetsOf
    <2>6. PICK k \in U : U \ {x} = {} \/ (k # x /\ \A n \in U \ {x} : n <= k) BY <2>2, <2>4, <2>5
    <2>7. x \in Nat /\ k \in Nat BY <2>3
    <2>8. \E m \in U : \A n \in U : n <= m
      <3>1. CASE U \ {x} = {} BY <3>1, <2>4, <2>7
      <3>2. CASE U \ {x} # {} /\ x <= k BY <3>2, <2>6
      <3>3. CASE U \ {x} # {} /\ k <= x
        <4>1. \A n \in U : n <= x BY <3>3, <2>3, <2>6, <2>7
        <4> QED BY <4>1
      <3> QED BY <3>1, <3>2, <3>3, <2>7
    <2> QED BY <2>8
  <1> QED BY <1>1 DEF FiniteSubsetsOf

Rises(s) == \A i, j \in DOMAIN s : i < j => s[i] < s[j]
Listing(S) == [1 .. Cardinality(S) -> S]

LEMMA HasOrder ==
    ASSUME NEW S \in SUBSET Nat, IsFiniteSet(S)
    PROVE  \E s \in Listing(S) : Rises(s)
  <1> DEFINE B == {U \in FiniteSubsetsOf(Nat) : ~(\E s \in Listing(U) : Rises(s))}
  <1>1. ASSUME B # {} PROVE FALSE
    <2>1. B \subseteq FiniteSubsetsOf(Nat) OBVIOUS
    <2>2. PICK U \in B : \A x \in U : U \ {x} \notin B
      <3> HIDE DEF B
      <3> QED BY <1>1, <2>1, SmallestSet
    <2>3. U \in SUBSET Nat /\ IsFiniteSet(U) BY DEF FiniteSubsetsOf
    <2>4. U # {}
      <3>1. ASSUME U = {} PROVE FALSE
        <4>1. Cardinality(U) = 0 BY <3>1, FS_EmptySet
        <4>2. [i \in 1 .. 0 |-> 0] \in Listing(U) BY <4>1 DEF Listing
        <4>3. Rises([i \in 1 .. 0 |-> 0]) BY DEF Rises
        <4> QED BY <4>2, <4>3
      <3> QED BY <3>1
    <2>5. PICK m \in U : \A n \in U : n <= m BY <2>3, <2>4, Greatest
    <2>6. U \ {m} \in FiniteSubsetsOf(Nat) BY <2>3, FS_RemoveElement DEF FiniteSubsetsOf
    <2>7. PICK s \in Listing(U \ {m}) : Rises(s) BY <2>2, <2>5, <2>6
    <2> DEFINE n == Cardinality(U \ {m})
               t == [i \in 1 .. n + 1 |-> IF i = n + 1 THEN m ELSE s[i]]
    <2>8. n \in Nat /\ Cardinality(U) = n + 1
      <3>1. IsFiniteSet(U \ {m}) /\ U = (U \ {m}) \cup {m} BY <2>3, <2>5, FS_RemoveElement
      <3> QED BY <3>1, FS_AddElement, FS_CardinalityType
    <2>9. s \in [1 .. n -> U \ {m}] BY <2>7 DEF Listing
    <2> HIDE DEF n
    <2>10. t \in Listing(U)
      <3>1. ASSUME NEW i \in 1 .. n + 1 PROVE (IF i = n + 1 THEN m ELSE s[i]) \in U
        <4>1. CASE i = n + 1 BY <4>1, <2>5
        <4>2. CASE i # n + 1
          <5>1. i \in 1 .. n BY <4>2, <2>8
          <5> QED BY <4>2, <5>1, <2>9
        <4> QED BY <4>1, <4>2
      <3>2. t \in [1 .. n + 1 -> U] BY <3>1
      <3>3. [1 .. n + 1 -> U] = Listing(U) BY <2>8 DEF Listing
      <3> QED BY <3>2, <3>3
    <2>11. Rises(t)
      <3> SUFFICES ASSUME NEW i \in 1 .. n + 1, NEW j \in 1 .. n + 1, i < j PROVE t[i] < t[j]
        BY DEF Rises
      <3>1. i \in 1 .. n /\ t[i] = s[i] /\ s[i] \in U \ {m} BY <2>8, <2>9
      <3>2. s[i] < m
        <4>1. s[i] \in U /\ s[i] # m BY <3>1
        <4>2. s[i] \in Nat /\ m \in Nat /\ s[i] <= m BY <4>1, <2>3, <2>5
        <4> QED BY <4>1, <4>2
      <3>3. CASE j = n + 1 BY <3>1, <3>2, <3>3
      <3>4. CASE j # n + 1
        <4>1. j \in 1 .. n /\ t[j] = s[j] BY <2>8, <3>4
        <4> QED BY <4>1, <3>1, <2>7, <2>9 DEF Rises
      <3> QED BY <3>3, <3>4
    <2> QED BY <2>10, <2>11
  <1> QED BY <1>1 DEF FiniteSubsetsOf

\* InOrder(S) is S in order.
LEMMA OrderIs ==
    ASSUME NEW S \in SUBSET Nat, IsFiniteSet(S)
    PROVE  /\ Cardinality(S) \in Nat
           /\ InOrder(S) \in Listing(S)
           /\ \A x \in S : \E i \in 1 .. Cardinality(S) : InOrder(S)[i] = x
  <1>1. Cardinality(S) \in Nat BY FS_CardinalityType
  <1>2. InOrder(S) \in Listing(S) /\ Rises(InOrder(S)) BY HasOrder DEF InOrder, Rises, Listing
  <1> DEFINE D == 1 .. Cardinality(S)
             s == InOrder(S)
  <1>3. \A i, j \in D : s[i] = s[j] => i = j
    <2> SUFFICES ASSUME NEW i \in D, NEW j \in D, i < j PROVE s[i] # s[j] BY <1>1
    <2>1. s[i] < s[j] /\ s[i] \in Nat BY <1>2 DEF Rises, Listing
    <2> QED BY <2>1
  <1>4. s \in Injection(D, S) BY <1>2, <1>3 DEF Injection, Listing, IsInjective
  <1>5. Cardinality(D) = Cardinality(S) BY <1>1, FS_Interval
  <1>6. s \in Surjection(D, S) BY <1>4, <1>5, FS_Injection
  <1> QED BY <1>1, <1>2, <1>6 DEF Surjection

-----------------------------------------------------------------------------
(* Texts: the inductive invariant. *)

Pcs == {"idle", "file", "language", "decide", "list", "look", "engine", "begin", "fetch", "write", "publish",
        "rows", "vectors", "status", "done"}
Languages == Manners \cup {Off}
Job == [state : {"none", "pending", "running"}, owner : Readers \cup {NoReader}, asking : BOOLEAN]
Doing == [pc : Pcs, manner : Languages, todo : Seq(Pages), bad : Nat, gen : Nat, made : Seq(Piece),
          rest : Seq(Piece), rows : SUBSET Segment, unread : BOOLEAN, again : BOOLEAN, left : BOOLEAN]

\* Who reads a page has one to read, and who writes has something left of what it made.
Busy(d) ==
    /\ d.pc \in {"look", "engine"} => d.todo # <<>>
    /\ d.pc = "write" => d.rest # <<>> /\ Len(d.rest) <= Len(d.made)

QueueTyped ==
    /\ queue \in [Kinds -> Job]
    /\ \A k \in Kinds : queue[k].owner # NoReader => queue[k].state = "running"

TextTyped ==
    /\ text \in [gen : Nat, status : {"none", "ready", "empty", "failed"}, made : Seq(Piece)]
    /\ text.status = "ready" <=> text.made # <<>>

DoingTyped == doing \in [Readers -> Doing] /\ \A r \in Readers : Busy(doing[r])

TextsTyped ==
    /\ TextsTypeOK
    /\ choice \in Languages /\ decided.language \in Languages
    /\ QueueTyped /\ TextTyped /\ DoingTyped

\* What was written of a generation, and the first pieces of what is to be.
Wrote(generation) == {<<s.seq, s.piece>> : s \in {t \in segs : t.gen = generation}}
Firsts(pieces, n) == {<<i, pieces[i]>> : i \in 1 .. n}

\* A reading that met no other makes the next generation, and has written of it what it
\* has not left to write.
WriterFits(r) ==
    Writing(r) /\ doing[r].gen \notin crossed =>
        /\ doing[r].gen = text.gen + 1
        /\ Is(r, "fetch") => Wrote(doing[r].gen) = {}
        /\ Is(r, "write") =>
              Wrote(doing[r].gen) = Firsts(doing[r].made, Len(doing[r].made) - Len(doing[r].rest))
        /\ Is(r, "publish") => Wrote(doing[r].gen) = Firsts(doing[r].made, Len(doing[r].made))

WritersMeet == \A r, q \in Readers : r # q /\ Writing(r) /\ Writing(q) => doing[r].gen \in crossed

\* What is being embedded is all of the published text, or of one that was published before.
EmbedderFits(r) ==
    doing[r].pc \in {"rows", "vectors", "status"} =>
        /\ doing[r].gen <= text.gen
        /\ doing[r].gen = text.gen /\ text.gen \notin crossed =>
              /\ Is(r, "vectors") => doing[r].rows = Published
              /\ Is(r, "status") => Published \subseteq vectors

TextsInv ==
    /\ TextsTyped /\ WritersMeet
    /\ \A r \in Readers : WriterFits(r) /\ EmbedderFits(r)
    /\ WholeAlone /\ EmbeddedIsWhole /\ embedded <= text.gen

-----------------------------------------------------------------------------
(* Texts: what the steps share. *)

\* Where nobody writes what is published, it stays as it is, with its vectors.
Keeps ==
    /\ text'.gen = text.gen /\ text'.made = text.made /\ (text'.status = "ready" <=> text.status = "ready")
    /\ crossed \subseteq crossed'
    /\ text.gen \notin crossed => Published' = Published /\ (Published \subseteq vectors => Published \subseteq vectors')

LEMMA KeptText ==
    ASSUME TextsInv, Keeps
    PROVE  /\ WholeAlone'
           /\ embedded' = embedded => EmbeddedIsWhole' /\ embedded' <= text'.gen
           /\ \A q \in Readers : doing'[q] = doing[q] => EmbedderFits(q)'
  <1>1. WholeAlone' BY DEF TextsInv, Keeps, WholeAlone, IsWhole
  <1>2. embedded' = embedded => EmbeddedIsWhole' /\ embedded' <= text'.gen
    BY DEF TextsInv, Keeps, EmbeddedIsWhole
  <1>3. ASSUME NEW q \in Readers, doing'[q] = doing[q] PROVE EmbedderFits(q)'
    BY <1>3 DEF TextsInv, Keeps, EmbedderFits, Is
  <1> QED BY <1>1, <1>2, <1>3

\* A process does d, and writes no text.
LEMMA Quietly ==
    ASSUME TextsInv, NEW r \in Readers, NEW d \in Doing, Busy(d), doing' = [doing EXCEPT ![r] = d],
           d.pc \notin {"fetch", "write", "publish"}, QueueTyped', TextsTypeOK',
           UNCHANGED <<choice, decided, text, segs, vectors, embedded, crossed>> \/
             (UNCHANGED <<text, segs, vectors, embedded, crossed>> /\ choice' \in Languages /\ decided'.language \in Languages),
           d.pc \notin {"rows", "vectors", "status"} \/ EmbedderFits(r)'
    PROVE  TextsInv'
  <1>1. doing \in [Readers -> Doing] /\ \A q \in Readers : Busy(doing[q]) BY DEF TextsInv, TextsTyped, DoingTyped
  <1>2. doing'[r] = d /\ \A q \in Readers \ {r} : doing'[q] = doing[q] BY <1>1
  <1>3. DoingTyped' BY <1>1, <1>2 DEF DoingTyped
  <1>4. TextsTyped' BY <1>3 DEF TextsInv, TextsTyped, TextTyped
  <1>5. Keeps BY DEF Keeps, Published
  <1>6. ~Writing(r)' BY <1>2 DEF Writing
  <1>7. \A q \in Readers : WriterFits(q)'
    BY <1>2, <1>6 DEF TextsInv, WriterFits, Writing, Is, Wrote
  <1>8. WritersMeet' BY <1>2, <1>6 DEF TextsInv, WritersMeet, Writing
  <1>9. \A q \in Readers : EmbedderFits(q)' BY <1>2, <1>5, KeptText DEF EmbedderFits
  <1> QED BY <1>4, <1>5, <1>7, <1>8, <1>9, KeptText DEF TextsInv

LEMMA RestingIs == Resting \in Doing /\ Busy(Resting) /\ Resting.pc = "idle"
  <1>1. <<>> \in Seq(Pages) /\ <<>> \in Seq(Piece) OBVIOUS
  <1> QED BY <1>1 DEF Resting, Doing, Busy, Pcs, Languages

LEMMA JobsAre == NoJob \in Job /\ NoJob.owner = NoReader
                 /\ \A b \in BOOLEAN : Waiting(b) \in Job /\ Waiting(b).owner = NoReader
  BY DEF NoJob, Waiting, Job

\* The run of a process ends, or it loses its job and does not know.
LEMMA SettlesIs ==
    ASSUME TextsInv, NEW r \in Readers, FailsFor(r) \/ Settles(r, NoJob)
    PROVE  QueueTyped' /\ doing' = [doing EXCEPT ![r] = Resting]
  <1>1. QueueTyped /\ Kind(r) \in Kinds BY TextsAssumption DEF TextsInv, TextsTyped, Kind
  <1>2. queue[Kind(r)].asking \in BOOLEAN BY <1>1 DEF QueueTyped, Job
  <1>3. PICK job \in Job : job.owner = NoReader /\ Settles(r, job) BY <1>2, JobsAre DEF FailsFor
  <1>4. QueueTyped' BY <1>1, <1>3 DEF Settles, QueueTyped
  <1> QED BY <1>3, <1>4 DEF Settles

LEMMA EndsStep ==
    ASSUME TextsInv, NEW r \in Readers, FailsFor(r) \/ Settles(r, NoJob), TextsTypeOK',
           UNCHANGED <<choice, decided, text, segs, vectors, embedded, crossed>>
    PROVE  TextsInv'
  BY SettlesIs, RestingIs, Quietly

\* A step in which no process moves and no text changes: somebody asks for something, or a
\* job is queued.
LEMMA NobodyMoves ==
    ASSUME TextsInv, UNCHANGED <<doing, crossed, publicVars>>, QueueTyped', TextsTypeOK',
           choice' \in Languages, decided'.language \in Languages
    PROVE  TextsInv'
  <1>1. TextsTyped' BY DEF TextsInv, TextsTyped, TextTyped, DoingTyped, publicVars
  <1>2. Keeps BY DEF Keeps, Published, publicVars
  <1>3. \A q \in Readers : WriterFits(q)' BY DEF TextsInv, WriterFits, Writing, Is, Wrote, publicVars
  <1>4. WritersMeet' BY DEF TextsInv, WritersMeet, Writing
  <1> QED BY <1>1, <1>2, <1>3, <1>4, KeptText DEF TextsInv, publicVars

LEMMA TypesAre ==
    ASSUME TextsInv
    PROVE  /\ pages \in [Pages -> Page] /\ segs \in SUBSET Segment /\ vectors \subseteq segs /\ embedded \in Nat
           /\ choice \in Languages /\ decided.language \in Languages
           /\ queue \in [Kinds -> Job] /\ QueueTyped
           /\ text.gen \in Nat /\ text.made \in Seq(Piece)
           /\ \A r \in Readers : doing[r] \in Doing /\ Busy(doing[r]) /\ Kind(r) \in Kinds
           /\ doing \in [Readers -> Doing]
  BY TextsAssumption DEF TextsInv, TextsTyped, TextsTypeOK, QueueTyped, TextTyped, DoingTyped, Kind

LEMMA EnqueuedTyped ==
    ASSUME TextsInv, NEW k \in Kinds, NEW asking \in BOOLEAN, queue' = Enqueued(k, asking)
    PROVE  QueueTyped'
  <1>1. Waiting(asking) \in Job /\ Waiting(asking).owner = NoReader BY JobsAre
  <1>2. CASE Live(k) BY <1>2, TypesAre DEF Enqueued, QueueTyped
  <1>3. CASE ~Live(k)
    <2>1. queue' = [queue EXCEPT ![k] = Waiting(asking)] BY <1>3 DEF Enqueued
    <2> QED BY <1>1, <2>1, TypesAre DEF QueueTyped
  <1> QED BY <1>2, <1>3

LEMMA UnreadIs == Unread \in Page BY DEF Unread, Page

LEMMA AsksForStep ==
    ASSUME TextsInv, AsksFor
    PROVE  TextsInv'
  <1> USE DEF Kinds
  <1>1. CASE \E force \in BOOLEAN : AskText(force)
    <2>1. PICK force \in BOOLEAN : AskText(force) BY <1>1
    <2>2. QueueTyped' BY <2>1, EnqueuedTyped DEF AskText
    <2> QED BY <2>1, <2>2, TypesAre, NobodyMoves DEF AskText, Asks, TextsTypeOK, publicVars, pagesVars
  <1>2. CASE RetryPages
    <2>2. QueueTyped' BY <1>2, EnqueuedTyped DEF RetryPages
    <2> QED BY <1>2, <2>2, TypesAre, NobodyMoves DEF RetryPages, Asks, TextsTypeOK, publicVars, pagesVars
  <1>3. CASE \E l \in Manners : SetLanguage(l)
    <2>1. PICK l \in Manners : SetLanguage(l) BY <1>3
    <2>2. QueueTyped' BY <2>1, EnqueuedTyped DEF SetLanguage
    <2>3. decided'.language \in Languages BY <2>1 DEF SetLanguage, Languages
    <2>4. pages' \in [Pages -> Page] BY <2>1, UnreadIs DEF SetLanguage
    <2> QED BY <2>1, <2>2, <2>3, <2>4, TypesAre, NobodyMoves DEF SetLanguage, Asks, TextsTypeOK, publicVars
  <1>4. CASE \E m \in Manners \cup {Off} : Choose(m)
    <2>1. PICK m \in Languages : Choose(m) BY <1>4 DEF Languages
    <2>2. QueueTyped' BY <2>1, TypesAre DEF Choose, QueueTyped
    <2> QED BY <2>1, <2>2, TypesAre, NobodyMoves DEF Choose, Asks, TextsTypeOK, publicVars
  <1>5. CASE Reread
    <2>1. pages' \in [Pages -> Page] BY <1>5, UnreadIs, TypesAre DEF Reread
    <2>2. QueueTyped' BY <1>5, TypesAre DEF Reread, QueueTyped
    <2> QED BY <1>5, <2>1, <2>2, TypesAre, NobodyMoves DEF Reread, Asks, TextsTypeOK, publicVars
  <1> QED BY <1>1, <1>2, <1>3, <1>4, <1>5 DEF AsksFor

LEMMA QueuesStep ==
    ASSUME TextsInv, NEW r \in Readers, OcrEnqueues(r) \/ EmbedEnqueues(r) \/ Lapses(r)
    PROVE  TextsInv'
  <1> USE DEF Kinds
  <1>1. CASE OcrEnqueues(r)
    <2>1. QueueTyped' BY <1>1, EnqueuedTyped DEF OcrEnqueues
    <2> QED BY <1>1, <2>1, TypesAre, NobodyMoves DEF OcrEnqueues, TextsTypeOK, publicVars, pagesVars
  <1>2. CASE EmbedEnqueues(r)
    <2>1. QueueTyped' BY <1>2, EnqueuedTyped DEF EmbedEnqueues
    <2> QED BY <1>2, <2>1, TypesAre, NobodyMoves DEF EmbedEnqueues, TextsTypeOK, publicVars, pagesVars
  <1>3. CASE Lapses(r)
    <2>1. queue' = [queue EXCEPT ![Kind(r)] = Waiting(queue[Kind(r)].asking)] BY <1>3, TypesAre DEF Lapses
    <2>2. Waiting(queue[Kind(r)].asking) \in Job /\ Waiting(queue[Kind(r)].asking).owner = NoReader
      BY TypesAre, JobsAre DEF Job
    <2>3. QueueTyped' BY <2>1, <2>2, TypesAre DEF QueueTyped
    <2> QED BY <1>3, <2>3, TypesAre, NobodyMoves DEF Lapses, TextsTypeOK, publicVars, pagesVars
  <1> QED BY <1>1, <1>2, <1>3

LEMMA ClaimsQueue ==
    ASSUME TextsInv, NEW r \in Readers, NEW first, Claims(r, first)
    PROVE  QueueTyped' /\ doing' = [doing EXCEPT ![r] = first]
  <1>1. queue' = [queue EXCEPT ![Kind(r)].state = "running", ![Kind(r)].owner = r] BY DEF Claims
  <1>2. queue[Kind(r)] \in Job /\ Kind(r) \in Kinds BY TypesAre
  <1>3. [queue[Kind(r)] EXCEPT !.state = "running", !.owner = r] \in Job BY <1>2 DEF Job
  <1>4. queue' = [queue EXCEPT ![Kind(r)] = [queue[Kind(r)] EXCEPT !.state = "running", !.owner = r]]
    BY <1>1, <1>2, TypesAre
  <1> QED BY <1>2, <1>3, <1>4, TypesAre DEF Claims, QueueTyped, Job

\* What a job begins with.
FirstOfPages(pc, manner, again) == [Resting EXCEPT !.manner = manner, !.again = again, !.pc = pc]
FirstOf(pc) == [Resting EXCEPT !.pc = pc]
FirstOfVectors(generation) == [Resting EXCEPT !.pc = "rows", !.gen = generation]

LEMMA FirstsAre ==
    ASSUME NEW pc \in Pcs \ {"look", "engine", "write"}
    PROVE  /\ FirstOf(pc) \in Doing /\ Busy(FirstOf(pc)) /\ FirstOf(pc).pc = pc /\ FirstOf(pc).manner = Off
           /\ \A manner \in Languages : \A again \in BOOLEAN :
                /\ FirstOfPages(pc, manner, again) \in Doing /\ Busy(FirstOfPages(pc, manner, again))
                /\ FirstOfPages(pc, manner, again).pc = pc /\ FirstOfPages(pc, manner, again).manner = manner
           /\ \A generation \in Nat :
                /\ FirstOfVectors(generation) \in Doing /\ Busy(FirstOfVectors(generation))
                /\ FirstOfVectors(generation).pc = "rows" /\ FirstOfVectors(generation).gen = generation /\ FirstOfVectors(generation).manner = Off
  <1>1. Resting \in Doing /\ Resting.manner = Off BY RestingIs DEF Resting
  <1>2. ASSUME NEW manner \in Languages, NEW again \in BOOLEAN
        PROVE  /\ FirstOfPages(pc, manner, again) \in Doing /\ Busy(FirstOfPages(pc, manner, again))
               /\ FirstOfPages(pc, manner, again).pc = pc /\ FirstOfPages(pc, manner, again).manner = manner
    BY <1>1 DEF Doing, Busy, FirstOfPages
  <1>3. FirstOf(pc) \in Doing /\ Busy(FirstOf(pc)) /\ FirstOf(pc).pc = pc /\ FirstOf(pc).manner = Off
    BY <1>1 DEF Doing, Busy, FirstOf
  <1>4. ASSUME NEW generation \in Nat
        PROVE  /\ FirstOfVectors(generation) \in Doing /\ Busy(FirstOfVectors(generation))
               /\ FirstOfVectors(generation).pc = "rows" /\ FirstOfVectors(generation).gen = generation /\ FirstOfVectors(generation).manner = Off
    BY <1>1 DEF Doing, Busy, FirstOfVectors, Pcs
  <1> QED BY <1>2, <1>3, <1>4

LEMMA PcsAre ==
    /\ {"idle", "file", "language", "decide", "list", "begin", "fetch", "publish", "rows", "vectors", "status", "done"}
         \subseteq Pcs \ {"look", "engine", "write"}
    /\ {"look", "engine", "write"} \subseteq Pcs
    /\ \A pc \in {"idle", "file", "language", "decide", "list", "look", "engine", "begin", "done"} :
         pc \notin {"fetch", "write", "publish"} /\ pc \notin {"rows", "vectors", "status"}
  BY DEF Pcs

LEMMA OcrClaimsIs ==
    ASSUME TextsInv, NEW r \in Readers, OcrClaims(r)
    PROVE  \E d \in Doing : Busy(d) /\ Claims(r, d) /\ d.pc \in {"done", "language", "file"} /\ (d.pc = "done" => d.manner = Off)
  <1>1. PICK again \in BOOLEAN : again = queue["ocr"].asking BY TypesAre DEF Job, Kinds
  <1>2. PICK pc \in {"done", "language", "file"} :
           pc = IF choice = Off THEN "done" ELSE IF book.format = "pdf" THEN "language" ELSE "file"
    OBVIOUS
  <1>3. Claims(r, FirstOfPages(pc, choice, again)) BY <1>1, <1>2 DEF OcrClaims, FirstOfPages
  <1>4. pc \in Pcs \ {"look", "engine", "write"} BY PcsAre
  <1>5. choice \in Languages BY TypesAre
  <1>6. pc = "done" => choice = Off BY <1>2
  <1> QED BY <1>3, <1>4, <1>5, <1>6, FirstsAre

LEMMA TextClaimsIs ==
    ASSUME TextsInv, NEW r \in Readers, TextClaims(r)
    PROVE  \E d \in Doing : Busy(d) /\ Claims(r, d) /\ d.pc \in {"begin", "done"} /\ d.manner = Off
  <1>1. PICK pc \in {"begin", "done"} : Claims(r, FirstOf(pc)) BY DEF TextClaims, FirstOf
  <1>2. pc \in Pcs \ {"look", "engine", "write"} BY PcsAre
  <1> QED BY <1>1, <1>2, FirstsAre

LEMMA EmbedClaimsIs ==
    ASSUME TextsInv, NEW r \in Readers, EmbedClaims(r)
    PROVE  \E d \in Doing : Busy(d) /\ Claims(r, d) /\ d.manner = Off
                            /\ (d.pc = "done" \/ (d.pc = "rows" /\ d.gen = text.gen))
  <1>1. "done" \in Pcs \ {"look", "engine", "write"} /\ text.gen \in Nat BY PcsAre, TypesAre
  <1>2. CASE NeedsVectors
    <2>1. Claims(r, FirstOfVectors(text.gen)) BY <1>2 DEF EmbedClaims, FirstOfVectors
    <2> QED BY <1>1, <2>1, FirstsAre
  <1>3. CASE ~NeedsVectors
    <2>1. Claims(r, FirstOf("done")) BY <1>3 DEF EmbedClaims, FirstOf
    <2> QED BY <1>1, <2>1, FirstsAre
  <1> QED BY <1>2, <1>3

LEMMA ClaimsStep ==
    ASSUME TextsInv, NEW r \in Readers, OcrClaims(r) \/ TextClaims(r) \/ EmbedClaims(r)
    PROVE  TextsInv'
  <1>1. PICK d \in Doing : Busy(d) /\ Claims(r, d)
                 /\ (d.pc \in {"begin", "done", "language", "file"} \/ (d.pc = "rows" /\ d.gen = text.gen))
    BY OcrClaimsIs, TextClaimsIs, EmbedClaimsIs
  <1>2. QueueTyped' /\ doing' = [doing EXCEPT ![r] = d] BY <1>1, ClaimsQueue
  <1>3. UNCHANGED <<choice, decided, pages, text, segs, vectors, embedded, crossed>>
    BY <1>1 DEF Claims, pagesVars, publicVars
  <1>4. TextsTypeOK' BY <1>3, TypesAre DEF TextsTypeOK
  <1>5. doing'[r] = d BY <1>2, TypesAre
  <1>6. d.pc \notin {"rows", "vectors", "status"} \/ EmbedderFits(r)'
    BY <1>1, <1>3, <1>5, TypesAre DEF EmbedderFits, Is
  <1>7. d.pc \notin {"fetch", "write", "publish"} BY <1>1
  <1> QED BY <1>1, <1>2, <1>3, <1>4, <1>6, <1>7, Quietly

LEMMA EndStep ==
    ASSUME TextsInv, NEW r \in Readers, Completes(r) \/ Interrupted(r)
    PROVE  TextsInv'
  <1>1. FailsFor(r) \/ Settles(r, NoJob) BY DEF Completes, Interrupted
  <1>2. UNCHANGED <<choice, decided, pages, text, segs, vectors, embedded, crossed>>
    BY DEF Completes, Interrupted, pagesVars, publicVars
  <1>3. TextsTypeOK' BY <1>2, TypesAre DEF TextsTypeOK
  <1> QED BY <1>1, <1>2, <1>3, EndsStep

\* InOrder(S) is a sequence of all of S.
LEMMA InOrderIs ==
    ASSUME NEW S \in SUBSET Pages
    PROVE  InOrder(S) \in Seq(Pages)
  <1>1. S \in SUBSET Nat /\ IsFiniteSet(S) BY TextsAssumption, FS_Subset
  <1>2. Cardinality(S) \in Nat /\ InOrder(S) \in Listing(S) BY <1>1, OrderIs
  <1>3. InOrder(S) \in [1 .. Cardinality(S) -> Pages] BY <1>2 DEF Listing
  <1> QED BY <1>2, <1>3

LEMMA OnwardIs ==
    ASSUME NEW todo
    PROVE  Onward(todo) \in {"begin", "look", "engine"} /\ (Onward(todo) \in {"look", "engine"} => todo # <<>>)
  BY DEF Onward

PagePcs == {"list", "decide", "look", "engine", "begin"}
OnPages(was, pc, manner, todo, bad) == [was EXCEPT !.pc = pc, !.manner = manner, !.todo = todo, !.bad = bad]

LEMMA PagesMoved ==
    ASSUME NEW was \in Doing, Busy(was), NEW pc \in PagePcs,
           NEW manner \in Languages, NEW todo \in Seq(Pages), NEW bad \in Nat,
           pc \in {"look", "engine"} => todo # <<>>
    PROVE  /\ OnPages(was, pc, manner, todo, bad) \in Doing
           /\ Busy(OnPages(was, pc, manner, todo, bad))
           /\ OnPages(was, pc, manner, todo, bad).pc = pc
  <1>1. pc \in Pcs /\ pc # "write" BY PcsAre DEF PagePcs
  <1>2. was = [pc |-> was.pc, manner |-> was.manner, todo |-> was.todo, bad |-> was.bad, gen |-> was.gen,
               made |-> was.made, rest |-> was.rest, rows |-> was.rows, unread |-> was.unread, again |-> was.again,
               left |-> was.left]
    BY DEF Doing
  <1> DEFINE d == OnPages(was, pc, manner, todo, bad)
  <1>3. d \in Doing BY <1>1, <1>2 DEF Doing, OnPages
  <1>4. d.pc = pc /\ d.todo = todo BY <1>2 DEF OnPages
  <1>5. Busy(d) BY <1>1, <1>4 DEF Busy
  <1> QED BY <1>3, <1>4, <1>5

\* A step of an OCR job that leaves the text alone.
LEMMA PagesStep ==
    ASSUME TextsInv, NEW r \in Readers, NEW pc \in PagePcs,
           NEW manner \in Languages, NEW todo \in Seq(Pages), NEW bad \in Nat,
           pc \in {"look", "engine"} => todo # <<>>,
           doing' = [doing EXCEPT ![r] = OnPages(doing[r], pc, manner, todo, bad)],
           UNCHANGED <<queue, choice, text, segs, vectors, embedded, crossed>>,
           pages' \in [Pages -> Page], decided'.language \in Languages
    PROVE  TextsInv'
  <1>d. PICK d : d = OnPages(doing[r], pc, manner, todo, bad) OBVIOUS
  <1>0. doing[r] \in Doing /\ Busy(doing[r]) BY TypesAre
  <1>1. d \in Doing /\ Busy(d) /\ d.pc = pc
    <2>1. PICK was \in Doing : was = doing[r] /\ Busy(was) BY <1>0
    <2>2. d = OnPages(was, pc, manner, todo, bad) BY <1>d, <2>1
    <2>3. /\ OnPages(was, pc, manner, todo, bad) \in Doing
          /\ Busy(OnPages(was, pc, manner, todo, bad))
          /\ OnPages(was, pc, manner, todo, bad).pc = pc
      BY <2>1, PagesMoved
    <2> QED BY <2>2, <2>3
  <1>2. doing' = [doing EXCEPT ![r] = d] BY <1>d
  <1>3. pc \notin {"fetch", "write", "publish"} /\ pc \notin {"rows", "vectors", "status"} BY PcsAre DEF PagePcs
  <1>4. QueueTyped' BY TypesAre DEF QueueTyped
  <1>5. TextsTypeOK' BY TypesAre DEF TextsTypeOK
  <1>6. choice' \in Languages BY TypesAre
  <1> QED BY <1>1, <1>2, <1>3, <1>4, <1>5, <1>6, Quietly

LEMMA LanguageStep ==
    ASSUME TextsInv, NEW r \in Readers,
           KeepsLanguage(r) \/ (\E l \in Manners : DetectsLanguage(r, l)) \/ DecidesLanguage(r)
    PROVE  TextsInv'
  <1>d. doing[r] \in Doing /\ doing \in [Readers -> Doing] /\ pages \in [Pages -> Page] /\ decided.language \in Languages
    BY TypesAre
  <1>1. ASSUME NEW pc \in {"list", "decide"}, NEW manner \in Languages,
               doing' = [doing EXCEPT ![r].pc = pc, ![r].manner = manner],
               UNCHANGED <<queue, choice, pages, text, segs, vectors, embedded, crossed>>, decided'.language \in Languages
        PROVE  TextsInv'
    <2>1. doing[r].todo \in Seq(Pages) /\ doing[r].bad \in Nat BY <1>d DEF Doing
    <2>2. doing' = [doing EXCEPT ![r] = OnPages(doing[r], pc, manner, doing[r].todo, doing[r].bad)]
      BY <1>1, <1>d DEF Doing, OnPages
    <2>3. pc \notin {"look", "engine"} OBVIOUS
    <2>4. pages' \in [Pages -> Page] BY <1>1, <1>d
    <2>5. pc \in PagePcs BY DEF PagePcs
    <2>6. PICK todo \in Seq(Pages), bad \in Nat : todo = doing[r].todo /\ bad = doing[r].bad BY <2>1
    <2>7. doing' = [doing EXCEPT ![r] = OnPages(doing[r], pc, manner, todo, bad)] BY <2>2, <2>6
    <2>8. UNCHANGED <<queue, choice, text, segs, vectors, embedded, crossed>> /\ decided'.language \in Languages BY <1>1
    <2>9. pc \in {"look", "engine"} => todo # <<>> BY <2>3
    <2> QED BY <2>4, <2>5, <2>7, <2>8, <2>9, PagesStep
  <1>2. CASE KeepsLanguage(r) BY <1>2, <1>1, <1>d DEF KeepsLanguage, Running, pagesVars, publicVars
  <1>3. CASE \E l \in Manners : DetectsLanguage(r, l)
    <2>1. PICK l \in Manners : DetectsLanguage(r, l) BY <1>3
    <2>2. l \in Languages BY DEF Languages
    <2> QED BY <2>1, <2>2, <1>1, <1>d DEF DetectsLanguage, Running, pagesVars, publicVars
  <1>4. CASE DecidesLanguage(r)
    <2>1. doing[r].manner \in Languages BY <1>d DEF Doing
    <2>2. doing' = [doing EXCEPT ![r].pc = "list", ![r].manner = doing[r].manner]
      BY <1>4, <1>d DEF DecidesLanguage, Becomes, Doing
    <2>3. decided'.language \in Languages BY <1>4, <2>1 DEF DecidesLanguage
    <2> QED BY <1>4, <2>1, <2>2, <2>3, <1>1 DEF DecidesLanguage, Running, publicVars
  <1> QED BY <1>2, <1>3, <1>4

OnFile(was, pc, left) == [was EXCEPT !.pc = pc, !.left = left]

LEMMA FileMoved ==
    ASSUME NEW was \in Doing, NEW pc \in {"list", "done"}, NEW left \in BOOLEAN
    PROVE  /\ OnFile(was, pc, left) \in Doing /\ Busy(OnFile(was, pc, left))
           /\ OnFile(was, pc, left).pc = pc /\ OnFile(was, pc, left).left = left
  <1>1. pc \in Pcs BY DEF Pcs
  <1> QED BY <1>1 DEF OnFile, Doing, Busy

\* What a comic's job does before the file: it begins, or leaves it.
LEMMA LooksBeforeIs ==
    ASSUME TextsInv, NEW r \in Readers, LooksBeforeFile(r)
    PROVE  \E d \in Doing : Busy(d) /\ doing' = [doing EXCEPT ![r] = d] /\ (d.pc = "list" \/ (d.pc = "done" /\ d.left))
  <1>1. PICK was \in Doing : was = doing[r] BY TypesAre
  <1>2. PICK left \in BOOLEAN : left = (choice # was.manner) OBVIOUS
  <1>3. PICK pc \in {"list", "done"} : pc = IF left THEN "done" ELSE "list" OBVIOUS
  <1>4. doing' = [doing EXCEPT ![r].pc = pc, ![r].left = left] BY <1>1, <1>2, <1>3 DEF LooksBeforeFile
  <1>5. doing' = [doing EXCEPT ![r] = OnFile(was, pc, left)] BY <1>1, <1>4, TypesAre DEF OnFile
  <1> QED BY <1>3, <1>5, FileMoved

LEMMA LooksBeforeStep ==
    ASSUME TextsInv, NEW r \in Readers, LooksBeforeFile(r)
    PROVE  TextsInv'
  <1>1. PICK d \in Doing : Busy(d) /\ doing' = [doing EXCEPT ![r] = d] /\ d.pc \in {"list", "done"}
    BY LooksBeforeIs
  <1>2. UNCHANGED <<queue, choice, decided, pages, text, segs, vectors, embedded, crossed>>
    BY DEF LooksBeforeFile, pagesVars, publicVars
  <1>3. QueueTyped' /\ TextsTypeOK' BY <1>2, TypesAre DEF QueueTyped, TextsTypeOK
  <1>4. d.pc \notin {"fetch", "write", "publish"} /\ d.pc \notin {"rows", "vectors", "status"} BY <1>1
  <1> QED BY <1>1, <1>2, <1>3, <1>4, Quietly

LEMMA ListsStep ==
    ASSUME TextsInv, NEW r \in Readers, ListsPages(r) \/ LooksAtChoice(r)
    PROVE  TextsInv'
  <1>d. doing[r] \in Doing /\ Busy(doing[r]) /\ doing \in [Readers -> Doing] BY TypesAre
  <1>0. doing[r].manner \in Languages /\ doing[r].todo \in Seq(Pages) /\ doing[r].bad \in Nat BY <1>d DEF Doing
  <1>1. CASE ListsPages(r)
    <2> DEFINE S == {p \in Pages : pages[p].state = "none" \/ (pages[p].state = "failed" /\ doing[r].again)}
    <2>1. PICK todo \in Seq(Pages) : todo = InOrder(S) BY InOrderIs
    <2>2. PICK pc \in {"begin", "look", "engine"} : pc = Onward(todo) BY OnwardIs
    <2>3. doing' = [doing EXCEPT ![r].pc = pc, ![r].todo = todo] BY <1>1, <2>1, <2>2 DEF ListsPages
    <2>4. doing' = [doing EXCEPT ![r] = OnPages(doing[r], pc, doing[r].manner, todo, doing[r].bad)]
      BY <2>3, <1>d DEF Doing, OnPages
    <2>5. pc \in {"look", "engine"} => todo # <<>> BY <2>2, OnwardIs
    <2>6. UNCHANGED <<queue, choice, decided, pages, text, segs, vectors, embedded, crossed>>
      BY <1>1 DEF ListsPages, Running, pagesVars, publicVars
    <2> HIDE DEF S
    <2>7. pages' \in [Pages -> Page] /\ decided'.language \in Languages BY <2>6, TypesAre
    <2>8. pc \in PagePcs BY DEF PagePcs
    <2> QED BY <1>0, <2>4, <2>5, <2>6, <2>7, <2>8, PagesStep
  <1>2. CASE LooksAtChoice(r)
    <2>1. PICK pc \in {"begin", "engine"} : Becomes(r, pc) BY <1>2 DEF LooksAtChoice
    <2>2. doing' = [doing EXCEPT ![r] = OnPages(doing[r], pc, doing[r].manner, doing[r].todo, doing[r].bad)]
      BY <2>1, <1>d DEF Doing, Becomes, OnPages
    <2>3. doing[r].todo # <<>> BY <1>2, <1>d DEF LooksAtChoice, Is, Busy
    <2>6. UNCHANGED <<queue, choice, decided, pages, text, segs, vectors, embedded, crossed>>
      BY <1>2 DEF LooksAtChoice, Running, pagesVars, publicVars
    <2>7. pages' \in [Pages -> Page] /\ decided'.language \in Languages BY <2>6, TypesAre
    <2>8. pc \in PagePcs /\ (pc \in {"look", "engine"} => doing[r].todo # <<>>) BY <2>3 DEF PagePcs
    <2>9. PICK todo \in Seq(Pages), bad \in Nat : todo = doing[r].todo /\ bad = doing[r].bad BY <1>0
    <2>10. PICK manner \in Languages : manner = doing[r].manner BY <1>0
    <2>11. doing' = [doing EXCEPT ![r] = OnPages(doing[r], pc, manner, todo, bad)] BY <2>2, <2>9, <2>10
    <2>12. pc \in {"look", "engine"} => todo # <<>> BY <2>8, <2>9
    <2> QED BY <2>6, <2>7, <2>8, <2>11, <2>12, PagesStep
  <1> QED BY <1>1, <1>2

LEMMA SavesStep ==
    ASSUME TextsInv, NEW r \in Readers, NEW state \in {"done", "blank", "failed"}, SavesPage(r, state)
    PROVE  TextsInv'
  <1>d. doing[r] \in Doing /\ Busy(doing[r]) /\ doing \in [Readers -> Doing] BY TypesAre
  <1>0. doing[r].manner \in Languages /\ doing[r].todo \in Seq(Pages) /\ doing[r].bad \in Nat BY <1>d DEF Doing
  <1>1. doing[r].todo # <<>> BY <1>d DEF SavesPage, Is, Busy
  <1>2. Head(doing[r].todo) \in Pages /\ Tail(doing[r].todo) \in Seq(Pages) BY <1>0, <1>1
  <1>3. [state |-> state, manner |-> doing[r].manner, by |-> r] \in Page BY <1>0 DEF Page, Languages
  <1>4. pages' \in [Pages -> Page] BY <1>2, <1>3, TypesAre DEF SavesPage
  <1>5. UNCHANGED <<choice, decided, text, segs, vectors, embedded, crossed>>
    BY DEF SavesPage, Running, publicVars
  <1>6. PICK bad \in Nat :
            IF bad >= MaxInARow THEN FailsFor(r)
            ELSE /\ doing' = [doing EXCEPT ![r].pc = Onward(Tail(doing[r].todo)), ![r].todo = Tail(@), ![r].bad = bad]
                 /\ UNCHANGED queue
    <2>1. (IF state = "failed" THEN doing[r].bad + 1 ELSE 0) \in Nat BY <1>0
    <2> QED BY <2>1 DEF SavesPage
  <1>7. CASE FailsFor(r)
    <2>1. TextsTypeOK' BY <1>4, <1>5, TypesAre DEF TextsTypeOK
    <2> QED BY <1>5, <1>7, <2>1, EndsStep
  <1>8. CASE ~FailsFor(r)
    <2>1. PICK todo \in Seq(Pages) : todo = Tail(doing[r].todo) BY <1>2
    <2>2. PICK pc \in {"begin", "look", "engine"} : pc = Onward(todo) BY OnwardIs
    <2>3. doing' = [doing EXCEPT ![r].pc = pc, ![r].todo = todo, ![r].bad = bad] /\ UNCHANGED queue
      BY <1>6, <1>8, <1>d, <2>1, <2>2
    <2>4. doing' = [doing EXCEPT ![r] = OnPages(doing[r], pc, doing[r].manner, todo, bad)]
      BY <2>3, <1>d DEF Doing, OnPages
    <2>5. pc \in {"look", "engine"} => todo # <<>> BY <2>2, OnwardIs
    <2>6. decided'.language \in Languages BY <1>5, TypesAre
    <2>7. pc \in PagePcs BY DEF PagePcs
    <2>8. UNCHANGED <<queue, choice, text, segs, vectors, embedded, crossed>> BY <1>5, <2>3
    <2> QED BY <1>0, <1>4, <2>4, <2>5, <2>6, <2>7, <2>8, PagesStep
  <1> QED BY <1>7, <1>8

\* While one process writes the text, whoever else writes has met it.
LEMMA OthersMet ==
    ASSUME TextsInv, NEW r \in Readers, Writing(r), crossed \subseteq crossed',
           NEW q \in Readers \ {r}, doing'[q] = doing[q]
    PROVE  /\ Writing(q) => doing[q].gen \in crossed
           /\ WriterFits(q)'
  <1>1. Writing(q) => doing[q].gen \in crossed BY DEF TextsInv, WritersMeet
  <1> QED BY <1>1 DEF WriterFits, Writing

\* A process that was writing does d.
LEMMA WriterMoves ==
    ASSUME TextsInv, NEW r \in Readers, Writing(r), NEW d \in Doing, Busy(d), doing' = [doing EXCEPT ![r] = d],
           d.gen = doing[r].gen, d.pc \notin {"rows", "vectors", "status"},
           UNCHANGED <<choice, decided, pages, embedded, crossed, queue>>,
           segs' \in SUBSET Segment, vectors' \subseteq segs', TextTyped', Keeps, WriterFits(r)'
    PROVE  TextsInv'
  <1>1. doing'[r] = d /\ \A q \in Readers \ {r} : doing'[q] = doing[q] BY TypesAre
  <1>2. DoingTyped' BY <1>1, TypesAre DEF DoingTyped
  <1>3. TextsTyped' BY <1>2, TypesAre DEF TextsTyped, TextsTypeOK, QueueTyped
  <1>4. \A q \in Readers : WriterFits(q)' BY <1>1, OthersMet
  <1>5. WritersMeet'
    <2> SUFFICES ASSUME NEW p \in Readers, NEW q \in Readers, p # q, Writing(p)', Writing(q)'
                 PROVE  doing'[p].gen \in crossed'
      BY DEF WritersMeet
    <2>1. Writing(p) /\ Writing(q) /\ doing'[p].gen = doing[p].gen BY <1>1 DEF Writing
    <2> QED BY <2>1 DEF TextsInv, WritersMeet
  <1>6. \A q \in Readers : EmbedderFits(q)' BY <1>1, KeptText DEF EmbedderFits
  <1> QED BY <1>3, <1>4, <1>5, <1>6, KeptText DEF TextsInv

LEMMA BeginsStep ==
    ASSUME TextsInv, NEW r \in Readers, BeginsText(r)
    PROVE  TextsInv'
  <1> DEFINE generation == text.gen + 1
             others == {doing[q].gen : q \in {q \in Readers \ {r} : Writing(q)}}
             d == [doing[r] EXCEPT !.pc = "fetch", !.gen = generation]
  <1>1. doing[r] \in Doing /\ Busy(doing[r]) /\ generation \in Nat /\ text.gen \in Nat BY TypesAre
  <1>2. d \in Doing /\ Busy(d) /\ d.pc = "fetch" /\ d.gen = generation
    <2> "fetch" \in Pcs BY PcsAre
    <2> HIDE DEF generation
    <2> QED BY <1>1 DEF Doing, Busy
  <1>3. doing' = [doing EXCEPT ![r] = d] BY TypesAre DEF BeginsText
  <1>4. segs' = {s \in segs : s.gen <= text.gen} /\ vectors' = vectors \cap segs' BY DEF BeginsText, SegmentsBecome
  <1>5. crossed' = crossed \cup others \cup {g \in {generation} : others # {}} BY DEF BeginsText
  <1>6. UNCHANGED <<choice, decided, pages, text, embedded, queue>> BY DEF BeginsText, Running, pagesVars
  <1> HIDE DEF d
  <1>7. doing'[r] = d /\ \A q \in Readers \ {r} : doing'[q] = doing[q] BY <1>3, TypesAre
  <1>8. DoingTyped' BY <1>2, <1>7, <1>3, TypesAre DEF DoingTyped
  <1>9. TextsTyped' BY <1>4, <1>6, <1>8, TypesAre DEF TextsInv, TextsTyped, TextsTypeOK, QueueTyped, TextTyped
  <1>10. Keeps
    <2>1. Published' = Published BY <1>1, <1>4, <1>6 DEF Published
    <2>2. Published \subseteq vectors => Published \subseteq vectors' BY <2>1, <1>4 DEF Published
    <2> QED BY <2>1, <2>2, <1>5, <1>6 DEF Keeps
  <1>11. ASSUME NEW q \in Readers \ {r}, Writing(q)' PROVE doing'[q].gen \in crossed' /\ doing'[r].gen \in crossed'
    <2>1. Writing(q) /\ doing'[q].gen = doing[q].gen BY <1>7, <1>11 DEF Writing
    <2>2. doing[q].gen \in others BY <2>1
    <2> HIDE DEF others
    <2> QED BY <2>1, <2>2, <1>2, <1>5, <1>7
  <1>12. WritersMeet' BY <1>11 DEF WritersMeet
  <1>13. WriterFits(r)'
    <2>0. PICK g \in Nat : g = generation BY <1>1
    <2>1. Wrote(g)' = {}
      <3>1. \A s \in segs : s.gen \in Nat BY TypesAre DEF Segment
      <3>2. \A s \in segs' : s.gen # g BY <1>1, <1>4, <2>0, <3>1
      <3> QED BY <3>2 DEF Wrote
    <2>2. doing'[r].pc = "fetch" /\ doing'[r].gen = g /\ text'.gen + 1 = g BY <1>2, <1>6, <1>7, <2>0
    <2> QED BY <2>1, <2>2 DEF WriterFits, Is
  <1>14. \A q \in Readers : WriterFits(q)' BY <1>11, <1>13 DEF WriterFits
  <1>15. \A q \in Readers : EmbedderFits(q)' BY <1>2, <1>7, <1>10, KeptText DEF EmbedderFits
  <1> QED BY <1>6, <1>9, <1>10, <1>12, <1>14, <1>15, KeptText DEF TextsInv

\* What is made of some pages is a sequence of pieces, one for each of them.
LEMMA PiecesAre ==
    ASSUME TextsInv, NEW S \in SUBSET (Pages \cup {Native})
    PROVE  /\ PiecesOf(S) \in Seq(Piece)
           /\ \A p \in S \cap Pages : \E i \in DOMAIN PiecesOf(S) :
                 PiecesOf(S)[i] = [page |-> p, manner |-> pages[p].manner]
  <1>1. S \in SUBSET Nat /\ IsFiniteSet(S)
    <2>1. IsFiniteSet(Pages \cup {Native}) BY TextsAssumption, FS_AddElement
    <2>2. Native \in Nat BY DEF Native
    <2> QED BY <2>1, <2>2, TextsAssumption, FS_Subset
  <1> DEFINE n == Cardinality(S)
  <1>2. n \in Nat /\ InOrder(S) \in [1 .. n -> S] /\ \A x \in S : \E i \in 1 .. n : InOrder(S)[i] = x
    BY <1>1, OrderIs DEF Listing
  <1>3. ASSUME NEW p \in S PROVE [page |-> p, manner |-> IF p = Native THEN Off ELSE pages[p].manner] \in Piece
    <2>1. CASE p = Native BY <2>1 DEF Piece
    <2>2. CASE p # Native
      <3>1. p \in Pages /\ pages[p] \in Page BY <2>2, TypesAre
      <3> QED BY <2>2, <3>1 DEF Piece, Page
    <2> QED BY <2>1, <2>2
  <1>4. PiecesOf(S) = [i \in 1 .. n |-> LET p == InOrder(S)[i]
                                       IN  [page |-> p, manner |-> IF p = Native THEN Off ELSE pages[p].manner]]
    BY DEF PiecesOf
  <1> HIDE DEF n
  <1>5. PiecesOf(S) \in [1 .. n -> Piece]
    <2>1. ASSUME NEW i \in 1 .. n PROVE PiecesOf(S)[i] \in Piece
      <3>1. PICK p \in S : p = InOrder(S)[i] BY <1>2
      <3>2. PiecesOf(S)[i] = [page |-> p, manner |-> IF p = Native THEN Off ELSE pages[p].manner] BY <1>4, <3>1
      <3> QED BY <1>3, <3>2
    <2> QED BY <1>4, <2>1
  <1>6. PiecesOf(S) \in Seq(Piece) BY <1>2, <1>5
  <1>7. ASSUME NEW p \in S \cap Pages
        PROVE  \E i \in DOMAIN PiecesOf(S) : PiecesOf(S)[i] = [page |-> p, manner |-> pages[p].manner]
    <2>1. PICK i \in 1 .. n : InOrder(S)[i] = p BY <1>2
    <2>2. p # Native BY TextsAssumption DEF Native
    <2>3. PiecesOf(S)[i] = [page |-> p, manner |-> pages[p].manner] BY <1>4, <2>1, <2>2
    <2> QED BY <1>4, <2>3
  <1> QED BY <1>6, <1>7

\* What a step that fetches the pages leaves: d, with a piece for each page read.
Fetched(r, d) ==
    /\ doing' = [doing EXCEPT ![r] = d]
    /\ Busy(d) /\ d.pc \in {"write", "publish"} /\ d.gen = doing[r].gen /\ d.rest = d.made
    /\ d.pc = "publish" => d.made = <<>>
    /\ \A p \in Pages : pages[p].state = "done" =>
         \E i \in DOMAIN d.made : d.made[i] = [page |-> p, manner |-> pages[p].manner]

LEMMA FetchesIs ==
    ASSUME TextsInv, NEW r \in Readers, FetchesPages(r)
    PROVE  \E d \in Doing : Fetched(r, d)
  <1> DEFINE S == {p \in Pages : pages[p].state = "done"} \cup {p \in {Native} : book.native}
  <1>1. PICK pieces \in Seq(Piece) : pieces = PiecesOf(S) BY PiecesAre
  <1>2. \A p \in S \cap Pages : \E i \in DOMAIN pieces : pieces[i] = [page |-> p, manner |-> pages[p].manner]
    BY <1>1, PiecesAre
  <1>3. PICK pc \in {"write", "publish"} : pc = IF pieces = <<>> THEN "publish" ELSE "write" OBVIOUS
  <1>4. doing' = [doing EXCEPT ![r].made = pieces, ![r].rest = pieces, ![r].pc = pc]
    BY <1>1, <1>3 DEF FetchesPages
  <1> HIDE DEF S
  <1> DEFINE d == [doing[r] EXCEPT !.made = pieces, !.rest = pieces, !.pc = pc]
  <1>5. doing[r] \in Doing /\ Busy(doing[r]) BY TypesAre
  <1>6. d \in Doing /\ d.pc = pc /\ d.made = pieces /\ d.rest = pieces /\ d.gen = doing[r].gen
    <2> pc \in Pcs BY <1>3, PcsAre
    <2> QED BY <1>5 DEF Doing
  <1>7. Busy(d)
    <2>1. pc = "write" => pieces # <<>> BY <1>3
    <2>2. Len(pieces) <= Len(pieces) BY <1>1
    <2> QED BY <1>6, <2>1, <2>2, <1>3 DEF Busy
  <1>8. doing' = [doing EXCEPT ![r] = d] BY <1>4, TypesAre
  <1>9. \A p \in Pages : pages[p].state = "done" => p \in S \cap Pages BY DEF S
  <1> HIDE DEF d
  <1>10. pc = "publish" => pieces = <<>> BY <1>3
  <1>11. \A p \in Pages : pages[p].state = "done" =>
             \E i \in DOMAIN pieces : pieces[i] = [page |-> p, manner |-> pages[p].manner]
    BY <1>2, <1>9
  <1>12. \A p \in Pages : pages[p].state = "done" =>
             \E i \in DOMAIN d.made : d.made[i] = [page |-> p, manner |-> pages[p].manner]
    BY <1>6, <1>11
  <1>13. Fetched(r, d) BY <1>3, <1>6, <1>7, <1>8, <1>10, <1>12 DEF Fetched
  <1> QED BY <1>6, <1>13

LEMMA FetchesStep ==
    ASSUME TextsInv, NEW r \in Readers, FetchesPages(r)
    PROVE  TextsInv'
  <1>1. PICK d \in Doing : /\ Busy(d) /\ d.pc \in {"write", "publish"} /\ d.gen = doing[r].gen /\ d.rest = d.made
                           /\ d.pc = "publish" => d.made = <<>>
                           /\ doing' = [doing EXCEPT ![r] = d]
    <2>1. PICK d \in Doing : Fetched(r, d) BY FetchesIs
    <2> QED BY <2>1 DEF Fetched
  <1>2. UNCHANGED <<choice, decided, pages, embedded, crossed, queue, text, segs, vectors>>
    BY DEF FetchesPages, Running, pagesVars, publicVars
  <1>3. Is(r, "fetch") /\ Writing(r) BY DEF FetchesPages, Is, Writing
  <1>4. Keeps BY <1>2 DEF Keeps, Published
  <1>5. doing'[r] = d BY <1>1, TypesAre
  <1>6. WriterFits(r)'
    <2>1. Len(d.made) \in Nat /\ (d.pc = "publish" => Len(d.made) = 0) BY <1>1 DEF Doing
    <2>2. Firsts(d.made, 0) = {} /\ Len(d.made) - Len(d.rest) = 0 BY <1>1, <2>1 DEF Firsts
    <2>3. doing[r].gen \notin crossed => doing[r].gen = text.gen + 1 /\ Wrote(doing[r].gen) = {}
      BY <1>3 DEF TextsInv, WriterFits
    <2>4. d.gen \notin crossed => d.gen = text.gen + 1 /\ Wrote(d.gen) = {} BY <1>1, <2>3
    <2>5. Firsts(d.made, Len(d.made) - Len(d.rest)) = {} BY <2>2
    <2>6. d.pc = "publish" => Firsts(d.made, Len(d.made)) = {} BY <2>1, <2>2
    <2>7. Wrote(d.gen)' = Wrote(d.gen) BY <1>2 DEF Wrote
    <2>8. d.gen \notin crossed' => d.gen = text'.gen + 1 /\ Wrote(d.gen)' = {} BY <1>2, <2>4, <2>7
    <2>9. d.pc # "fetch" BY <1>1
    <2> QED BY <1>5, <2>5, <2>6, <2>8, <2>9 DEF WriterFits, Is
  <1>7. segs' \in SUBSET Segment /\ vectors' \subseteq segs' BY <1>2, TypesAre
  <1>8. TextTyped' BY <1>2 DEF TextsInv, TextsTyped, TextTyped
  <1>9. d.pc \notin {"rows", "vectors", "status"} BY <1>1
  <1> QED BY <1>1, <1>2, <1>3, <1>4, <1>6, <1>7, <1>8, <1>9, WriterMoves

LEMMA PrefixGrows ==
    ASSUME NEW pieces, NEW n \in Nat \ {0}
    PROVE  Firsts(pieces, n) = Firsts(pieces, n - 1) \cup {<<n, pieces[n]>>}
  <1>1. 1 .. n = (1 .. n - 1) \cup {n} OBVIOUS
  <1> QED BY <1>1 DEF Firsts

\* The next piece of a text that is written.
OnText(was) == [was EXCEPT !.rest = Tail(@), !.pc = IF Len(was.rest) = 1 THEN "publish" ELSE "write"]

LEMMA NextPiece ==
    ASSUME NEW was \in Doing, Busy(was), was.pc = "write"
    PROVE  /\ OnText(was) \in Doing /\ Busy(OnText(was))
           /\ OnText(was).gen = was.gen /\ OnText(was).made = was.made
           /\ Len(was.made) - Len(was.rest) + 1 \in 1 .. Len(was.made) /\ was.made \in Seq(Piece)
           /\ OnText(was).pc = "write" =>
                Len(OnText(was).made) - Len(OnText(was).rest) = Len(was.made) - Len(was.rest) + 1
           /\ OnText(was).pc = "publish" => Len(was.made) = Len(was.made) - Len(was.rest) + 1
           /\ OnText(was).pc \in {"write", "publish"}
  <1>1. was.rest \in Seq(Piece) /\ was.made \in Seq(Piece) /\ was.rest # <<>> /\ Len(was.rest) <= Len(was.made)
    BY DEF Doing, Busy
  <1>2. Tail(was.rest) \in Seq(Piece) /\ Len(Tail(was.rest)) = Len(was.rest) - 1
        /\ Len(was.rest) \in Nat \ {0} /\ Len(was.made) \in Nat
    BY <1>1
  <1> DEFINE pc == IF Len(was.rest) = 1 THEN "publish" ELSE "write"
  <1>3. pc \in Pcs /\ pc \in {"write", "publish"} BY DEF Pcs
  <1> HIDE DEF pc
  <1>4. OnText(was) = [was EXCEPT !.rest = Tail(was.rest), !.pc = pc] BY DEF OnText, pc, Doing
  <1>5. OnText(was) \in Doing BY <1>2, <1>3, <1>4 DEF Doing
  <1>6. OnText(was).gen = was.gen /\ OnText(was).made = was.made /\ OnText(was).rest = Tail(was.rest)
        /\ OnText(was).pc = pc
    BY <1>4 DEF Doing
  <1>7. (pc = "publish" <=> Len(was.rest) = 1) /\ (pc = "write" <=> Len(was.rest) # 1) BY DEF pc
  <1>8. Busy(OnText(was))
    <2>1. pc = "write" => Len(Tail(was.rest)) # 0 /\ Len(Tail(was.rest)) <= Len(was.made) BY <1>1, <1>2, <1>7
    <2>2. pc = "write" => Tail(was.rest) # <<>> BY <2>1, <1>2
    <2> QED BY <1>3, <1>6, <2>1, <2>2 DEF Busy
  <1>9. Len(was.made) - Len(was.rest) + 1 \in 1 .. Len(was.made)
    <2>1. PICK a \in Nat : a = Len(was.made) BY <1>2
    <2>2. PICK b \in Nat : b = Len(was.rest) /\ b # 0 BY <1>2
    <2>3. b <= a BY <1>1, <2>1, <2>2
    <2>4. a - b + 1 >= 1 /\ a - b + 1 <= a /\ a - b + 1 \in Int BY <2>2, <2>3
    <2>5. a - b + 1 \in 1 .. a BY <2>4
    <2> QED BY <2>1, <2>2, <2>5
  <1>10. Len(was.made) - (Len(was.rest) - 1) = Len(was.made) - Len(was.rest) + 1 BY <1>2
  <1>11. Len(was.rest) = 1 => Len(was.made) = Len(was.made) - Len(was.rest) + 1 BY <1>2
  <1> QED BY <1>1, <1>2, <1>3, <1>5, <1>6, <1>7, <1>8, <1>9, <1>10, <1>11

LEMMA WritesStep ==
    ASSUME TextsInv, NEW r \in Readers, WritesText(r)
    PROVE  TextsInv'
  <1>1. PICK was \in Doing : was = doing[r] /\ Busy(was) BY TypesAre
  <1>2. was.pc = "write" /\ Is(r, "write") /\ Writing(r) BY <1>1 DEF WritesText, Is, Writing
  <1>3. PICK n \in 1 .. Len(was.made) : n = Len(was.made) - Len(was.rest) + 1 BY <1>1, <1>2, NextPiece
  <1>4. PICK s \in Segment : s = [gen |-> was.gen, seq |-> n, piece |-> was.made[n]]
    <2>0. PICK made \in Seq(Piece) : made = was.made BY DEF Doing
    <2>1. was.gen \in Nat /\ n \in Nat BY <1>3 DEF Doing
    <2>2. made[n] \in Piece
      <3>1. n \in 1 .. Len(made) BY <2>0
      <3> QED BY <2>0, <3>1
    <2> QED BY <2>0, <2>1, <2>2 DEF Segment
  <1>5. IF \E t \in segs : t.gen = s.gen /\ t.seq = s.seq
        THEN FailsFor(r) /\ UNCHANGED <<segs, vectors>>
        ELSE /\ SegmentsBecome(segs \cup {s})
             /\ doing' = [doing EXCEPT ![r].rest = Tail(@), ![r].pc = IF Len(was.rest) = 1 THEN "publish" ELSE "write"]
             /\ UNCHANGED queue
    BY <1>1, <1>3, <1>4 DEF WritesText
  <1>6. UNCHANGED <<choice, decided, pages, text, embedded, crossed>> BY DEF WritesText, Running, pagesVars
  <1>7. CASE \E t \in segs : t.gen = s.gen /\ t.seq = s.seq
    <2>1. FailsFor(r) /\ UNCHANGED <<segs, vectors>> BY <1>5, <1>7
    <2>2. TextsTypeOK' BY <1>6, <2>1, TypesAre DEF TextsTypeOK
    <2> QED BY <1>6, <2>1, <2>2, EndsStep
  <1>8. CASE ~(\E t \in segs : t.gen = s.gen /\ t.seq = s.seq)
    <2>1. segs' = segs \cup {s} /\ vectors' = vectors /\ UNCHANGED queue
      BY <1>5, <1>8, TypesAre DEF SegmentsBecome
    <2>2. PICK d \in Doing : d = OnText(was) /\ Busy(d) BY <1>1, <1>2, NextPiece
    <2>3. doing' = [doing EXCEPT ![r] = d]
      <3>1. doing' = [doing EXCEPT ![r].rest = Tail(@), ![r].pc = IF Len(was.rest) = 1 THEN "publish" ELSE "write"]
        BY <1>5, <1>8
      <3> QED BY <3>1, <2>2, <1>1, TypesAre DEF OnText
    <2>4. d.gen = was.gen /\ d.made = was.made /\ d.pc \in {"write", "publish"}
          /\ (d.pc = "write" => Len(d.made) - Len(d.rest) = n) /\ (d.pc = "publish" => Len(d.made) = n)
      BY <1>1, <1>2, <1>3, <2>2, NextPiece
    <2>5. doing'[r] = d BY <2>3, TypesAre
    <2>6. WriterFits(r)'
      <3>1. ASSUME d.gen \notin crossed
            PROVE  d.gen = text.gen + 1 /\ Wrote(d.gen)' = Firsts(d.made, n)
        <4>1. was.gen = text.gen + 1 /\ Wrote(was.gen) = Firsts(was.made, Len(was.made) - Len(was.rest))
          BY <1>1, <1>2, <2>4, <3>1 DEF TextsInv, WriterFits
        <4>2. was.made \in Seq(Piece) /\ Len(was.made) \in Nat /\ n \in Nat \ {0} /\ Len(was.made) - Len(was.rest) = n - 1
          <5>1. was.made \in Seq(Piece) /\ was.rest \in Seq(Piece) BY DEF Doing
          <5>2. Len(was.made) \in Nat /\ Len(was.rest) \in Nat BY <5>1
          <5> QED BY <1>3, <5>1, <5>2
        <4>3. Firsts(was.made, n) = Firsts(was.made, n - 1) \cup {<<n, was.made[n]>>} BY <4>2, PrefixGrows
        <4>4. Wrote(was.gen)' = Wrote(was.gen) \cup {<<n, was.made[n]>>} BY <2>1, <1>4 DEF Wrote
        <4> QED BY <2>4, <4>1, <4>2, <4>3, <4>4
      <3>2. text'.gen = text.gen /\ crossed' = crossed BY <1>6
      <3>3. d.pc # "fetch" BY <2>4
      <3> QED BY <2>4, <2>5, <3>1, <3>2, <3>3 DEF WriterFits, Is
    <2>7. Keeps
      <3>1. ASSUME text.gen \notin crossed PROVE was.gen # text.gen
        <4>1. was.gen \notin crossed => was.gen = text.gen + 1 BY <1>1, <1>2 DEF TextsInv, WriterFits
        <4> QED BY <3>1, <4>1, TypesAre
      <3>2. text.gen \notin crossed => Published' = Published BY <1>4, <1>6, <2>1, <3>1 DEF Published
      <3> QED BY <1>6, <2>1, <3>2 DEF Keeps
    <2>8. segs' \in SUBSET Segment /\ vectors' \subseteq segs' BY <2>1, TypesAre
    <2>9. TextTyped' BY <1>6 DEF TextsInv, TextsTyped, TextTyped
    <2>10. d.gen = doing[r].gen /\ d.pc \notin {"rows", "vectors", "status"} BY <1>1, <2>4
    <2>11. UNCHANGED <<choice, decided, pages, embedded, crossed, queue>> BY <1>6, <2>1
    <2> QED BY <1>2, <2>2, <2>3, <2>6, <2>7, <2>8, <2>9, <2>10, <2>11, WriterMoves
  <1> QED BY <1>7, <1>8

OnPublished(was) == [was EXCEPT !.pc = "done", !.made = <<>>]

LEMMA PublishedIs ==
    ASSUME NEW was \in Doing
    PROVE  /\ OnPublished(was) \in Doing /\ Busy(OnPublished(was))
           /\ OnPublished(was).pc = "done" /\ OnPublished(was).manner = was.manner /\ OnPublished(was).unread = was.unread
           /\ OnPublished(was).left = was.left
  <1>1. <<>> \in Seq(Piece) /\ "done" \in Pcs BY DEF Pcs
  <1> QED BY <1>1 DEF OnPublished, Doing, Busy

\* The published text of a reading that met no other is what it made.
LEMMA PublishesStep ==
    ASSUME TextsInv, NEW r \in Readers, PublishesText(r)
    PROVE  TextsInv'
  <1>1. PICK was \in Doing : was = doing[r] /\ Busy(was) BY TypesAre
  <1>2. PICK generation \in Nat : generation = was.gen BY DEF Doing
  <1>3. PICK made \in Seq(Piece) : made = was.made BY DEF Doing
  <1> DEFINE kept == {s \in segs : s.gen = generation /\ made # <<>>}
             fails == generation # text.gen + 1 \/ (made # <<>> /\ kept = {})
  <1>4. /\ fails => FailsFor(r) /\ UNCHANGED publicVars
        /\ ~fails => /\ SegmentsBecome(kept)
                     /\ text' = [gen |-> generation, status |-> IF made # <<>> THEN "ready" ELSE "empty", made |-> made]
                     /\ doing' = [doing EXCEPT ![r].pc = "done", ![r].made = <<>>]
                     /\ UNCHANGED <<queue, embedded>>
    BY <1>1, <1>2, <1>3 DEF PublishesText
  <1>5. UNCHANGED <<choice, decided, pages, crossed>> BY DEF PublishesText, Running, pagesVars
  <1>6. Is(r, "publish") /\ Writing(r) BY DEF PublishesText, Is, Writing
  <1>7. CASE fails
    <2>1. FailsFor(r) /\ UNCHANGED <<text, segs, vectors, embedded>> BY <1>4, <1>7 DEF publicVars
    <2>2. TextsTypeOK' BY <1>5, <2>1, TypesAre DEF TextsTypeOK
    <2> HIDE DEF fails
    <2> QED BY <1>5, <2>1, <2>2, EndsStep
  <1>8. CASE ~fails
    <2>1. segs' = kept /\ vectors' \subseteq segs' /\ UNCHANGED <<queue, embedded>> BY <1>4, <1>8 DEF SegmentsBecome
    <2>2. text' = [gen |-> generation, status |-> IF made # <<>> THEN "ready" ELSE "empty", made |-> made] BY <1>4, <1>8
    <2>3. generation = text.gen + 1 /\ text.gen \in Nat /\ embedded <= text.gen BY <1>8, TypesAre DEF TextsInv
    <2>4. doing' = [doing EXCEPT ![r] = OnPublished(was)]
      <3>1. doing' = [doing EXCEPT ![r].pc = "done", ![r].made = <<>>] BY <1>4, <1>8
      <3> QED BY <3>1, <1>1, TypesAre DEF OnPublished
    <2> HIDE DEF fails
    <2>5. PICK d \in Doing : d = OnPublished(was) /\ Busy(d) /\ d.pc = "done" BY PublishedIs
    <2>6. doing'[r] = d /\ \A q \in Readers \ {r} : doing'[q] = doing[q] BY <2>4, <2>5, TypesAre
    <2>7. DoingTyped' BY <2>4, <2>5, <2>6, TypesAre DEF DoingTyped
    <2>8. TextTyped' BY <2>2 DEF TextTyped
    <2>9. TextsTyped' BY <1>5, <2>1, <2>7, <2>8, TypesAre DEF TextsTyped, TextsTypeOK, QueueTyped
    <2>10. ~Writing(r)' BY <2>5, <2>6 DEF Writing
    <2>11. \A q \in Readers : WriterFits(q)' BY <1>5, <1>6, <2>6, <2>10, OthersMet DEF WriterFits
    <2>12. WritersMeet'
      <3> SUFFICES ASSUME NEW p \in Readers, NEW q \in Readers, p # q, Writing(p)', Writing(q)'
                   PROVE  doing'[p].gen \in crossed'
        BY DEF WritersMeet
      <3>1. p # r /\ q # r /\ Writing(p) /\ Writing(q) /\ doing'[p].gen = doing[p].gen BY <2>6, <2>10 DEF Writing
      <3> QED BY <1>5, <3>1 DEF TextsInv, WritersMeet
    <2>13. \A q \in Readers : EmbedderFits(q)'
      <3> SUFFICES ASSUME NEW q \in Readers PROVE EmbedderFits(q)' OBVIOUS
      <3>1. CASE q = r BY <2>5, <2>6, <3>1 DEF EmbedderFits
      <3>2. CASE q # r
        <4>1. doing[q].pc \in {"rows", "vectors", "status"} => doing[q].gen <= text.gen
          BY DEF TextsInv, EmbedderFits
        <4>2. doing[q].gen \in Nat BY TypesAre DEF Doing
        <4>3. doing'[q] = doing[q] /\ text'.gen = text.gen + 1 BY <2>2, <2>3, <2>6, <3>2
        <4> QED BY <2>3, <4>1, <4>2, <4>3 DEF EmbedderFits
      <3> QED BY <3>1, <3>2
    <2>14. EmbeddedIsWhole' /\ embedded' <= text'.gen
      <3>1. embedded' = embedded /\ text'.gen = text.gen + 1 /\ embedded \in Nat BY <2>1, <2>2, <2>3, TypesAre
      <3> QED BY <2>3, <3>1 DEF EmbeddedIsWhole
    <2>15. WholeAlone'
      <3>1. ASSUME generation \notin crossed
            PROVE  Wrote(generation) = Firsts(made, Len(made))
        BY <1>1, <1>2, <1>3, <1>6, <3>1 DEF TextsInv, WriterFits
      <3>2. text'.gen = generation /\ text'.made = made /\ (text'.status = "ready" <=> made # <<>>) BY <2>2
      <3>3. made # <<>> => Published' = {s \in segs : s.gen = generation} BY <2>1, <3>2 DEF Published
      <3>4. made = <<>> => Published' = {} BY <2>1 DEF Published
      <3>5. Firsts(made, Len(made)) = {<<i, made[i]>> : i \in DOMAIN made} BY DEF Firsts
      <3>6. ASSUME generation \notin crossed
            PROVE  {<<s.seq, s.piece>> : s \in Published'} = {<<i, made[i]>> : i \in DOMAIN made}
        <4>1. CASE made # <<>> BY <4>1, <3>1, <3>3, <3>5, <3>6 DEF Wrote
        <4>2. CASE made = <<>> BY <4>2, <3>4
        <4> QED BY <4>1, <4>2
      <3> QED BY <1>5, <3>2, <3>6 DEF WholeAlone, IsWhole
    <2> QED BY <2>9, <2>11, <2>12, <2>13, <2>14, <2>15 DEF TextsInv
  <1> QED BY <1>7, <1>8

OnUnread(was) == [was EXCEPT !.pc = "done", !.made = <<>>, !.rest = <<>>, !.unread = TRUE]

LEMMA UnreadableIs ==
    ASSUME NEW was \in Doing
    PROVE  /\ OnUnread(was) \in Doing /\ Busy(OnUnread(was)) /\ OnUnread(was).gen = was.gen
           /\ OnUnread(was).pc = "done" /\ OnUnread(was).unread
  <1>1. <<>> \in Seq(Piece) /\ "done" \in Pcs BY DEF Pcs
  <1> QED BY <1>1 DEF OnUnread, Doing, Busy

LEMMA CannotReadStep ==
    ASSUME TextsInv, NEW r \in Readers, CannotRead(r)
    PROVE  TextsInv'
  <1>1. PICK was \in Doing : was = doing[r] BY TypesAre
  <1>2. PICK d \in Doing : d = OnUnread(was) /\ Busy(d) /\ d.gen = doing[r].gen /\ d.pc = "done" BY <1>1, UnreadableIs
  <1>3. doing' = [doing EXCEPT ![r] = d]
    BY <1>1, <1>2, TypesAre DEF CannotRead, OnUnread
  <1>4. segs' = segs \ UnpublishedSegments /\ vectors' = vectors \cap segs' BY DEF CannotRead, SegmentsBecome
  <1>5. UNCHANGED <<choice, decided, pages, embedded, crossed, queue>> BY DEF CannotRead, pagesVars
  <1>6. Writing(r) BY DEF CannotRead, Writing, Is
  <1>7. text' = IF text.status = "none" THEN [text EXCEPT !.status = "failed"] ELSE text BY DEF CannotRead
  <1>8. TextTyped' /\ text'.gen = text.gen /\ text'.made = text.made /\ (text'.status = "ready" <=> text.status = "ready")
    BY <1>7 DEF TextsInv, TextsTyped, TextTyped
  <1>9. Keeps
    <2>1. text.gen \in Nat /\ \A s \in segs : s.gen \in Nat BY TypesAre DEF Segment
    <2>2. Published' = Published BY <1>4, <1>8, <2>1 DEF Published, UnpublishedSegments
    <2>3. Published \subseteq vectors => Published \subseteq vectors' BY <1>4, <2>2 DEF Published
    <2> QED BY <1>5, <1>8, <2>2, <2>3 DEF Keeps
  <1>10. WriterFits(r)'
    <2>1. doing'[r].pc = "done" BY <1>2, <1>3, TypesAre
    <2> QED BY <2>1 DEF WriterFits, Writing
  <1>11. segs' \in SUBSET Segment /\ vectors' \subseteq segs' BY <1>4, TypesAre
  <1> QED BY <1>2, <1>3, <1>5, <1>6, <1>8, <1>9, <1>10, <1>11, WriterMoves

OnRows(was, rows) == [was EXCEPT !.pc = "vectors", !.rows = rows]
OnVectors(was) == [was EXCEPT !.pc = "status", !.rows = {}]
OnDone(was) == [was EXCEPT !.pc = "done"]

LEMMA EmbeddersMove ==
    ASSUME NEW was \in Doing
    PROVE  /\ \A rows \in SUBSET Segment :
                /\ OnRows(was, rows) \in Doing /\ Busy(OnRows(was, rows)) /\ OnRows(was, rows).gen = was.gen
                /\ OnRows(was, rows).pc = "vectors" /\ OnRows(was, rows).rows = rows
           /\ OnVectors(was) \in Doing /\ Busy(OnVectors(was)) /\ OnVectors(was).gen = was.gen /\ OnVectors(was).pc = "status"
           /\ OnDone(was) \in Doing /\ Busy(OnDone(was)) /\ OnDone(was).pc = "done"
  <1>1. "vectors" \in Pcs /\ "status" \in Pcs /\ "done" \in Pcs BY DEF Pcs
  <1>2. ASSUME NEW rows \in SUBSET Segment
        PROVE  /\ OnRows(was, rows) \in Doing /\ Busy(OnRows(was, rows)) /\ OnRows(was, rows).gen = was.gen
               /\ OnRows(was, rows).pc = "vectors" /\ OnRows(was, rows).rows = rows
    BY <1>1 DEF OnRows, Doing, Busy
  <1>3. OnVectors(was) \in Doing /\ Busy(OnVectors(was)) /\ OnVectors(was).gen = was.gen /\ OnVectors(was).pc = "status"
    BY <1>1 DEF OnVectors, Doing, Busy
  <1>4. OnDone(was) \in Doing /\ Busy(OnDone(was)) /\ OnDone(was).pc = "done"
    BY <1>1 DEF OnDone, Doing, Busy
  <1> QED BY <1>2, <1>3, <1>4

\* A process that embeds does d, and the segments stay.
LEMMA EmbedderMoves ==
    ASSUME TextsInv, NEW r \in Readers, NEW d \in Doing, Busy(d), doing' = [doing EXCEPT ![r] = d],
           d.pc \in {"vectors", "status", "done"},
           UNCHANGED <<choice, decided, pages, queue, text, segs, crossed>>,
           vectors \subseteq vectors', vectors' \subseteq segs,
           embedded' = embedded \/ (EmbeddedIsWhole' /\ embedded' <= text.gen /\ embedded' \in Nat),
           EmbedderFits(r)'
    PROVE  TextsInv'
  <1>1. doing'[r] = d /\ \A q \in Readers \ {r} : doing'[q] = doing[q] BY TypesAre
  <1>2. DoingTyped' BY <1>1, TypesAre DEF DoingTyped
  <1>3. TextsTyped' BY <1>2, TypesAre DEF TextsInv, TextsTyped, TextsTypeOK, QueueTyped, TextTyped
  <1>4. Keeps BY DEF Keeps, Published
  <1>5. ~Writing(r)' BY <1>1 DEF Writing
  <1>6. ASSUME NEW q \in Readers PROVE WriterFits(q)'
    <2>1. CASE q = r BY <1>5, <2>1 DEF WriterFits
    <2>2. CASE q # r
      <3>1. doing'[q] = doing[q] BY <1>1, <2>2
      <3>2. segs' = segs /\ text' = text /\ crossed' = crossed /\ WriterFits(q) BY DEF TextsInv
      <3>3. PICK generation : generation = doing[q].gen OBVIOUS
      <3>4. Wrote(generation)' = Wrote(generation) BY <3>2 DEF Wrote
      <3> QED BY <3>1, <3>2, <3>3, <3>4 DEF WriterFits, Writing, Is
    <2> QED BY <2>1, <2>2
  <1>7. WritersMeet' BY <1>1, <1>5 DEF TextsInv, WritersMeet, Writing
  <1>8. \A q \in Readers : EmbedderFits(q)' BY <1>1, <1>4, KeptText
  <1> QED BY <1>3, <1>4, <1>6, <1>7, <1>8, KeptText DEF TextsInv

LEMMA VectorsStep ==
    ASSUME TextsInv, NEW r \in Readers, ReadsSegments(r) \/ StoresVectors(r) \/ RecordsVectors(r)
    PROVE  TextsInv'
  <1>1. PICK was \in Doing : was = doing[r] BY TypesAre
  <1>2. /\ was.pc \in {"rows", "vectors", "status"} => was.gen <= text.gen
        /\ was.gen = text.gen /\ text.gen \notin crossed =>
              /\ was.pc = "vectors" => was.rows = Published
              /\ was.pc = "status" => Published \subseteq vectors
    BY <1>1 DEF TextsInv, EmbedderFits, Is
  <1>3. UNCHANGED <<choice, decided, pages, text, segs, crossed>>
    BY DEF ReadsSegments, StoresVectors, RecordsVectors, Running, pagesVars, publicVars
  <1>4. Published' = Published BY <1>3 DEF Published
  <1>5. CASE ReadsSegments(r)
    <2>1. PICK rows \in SUBSET Segment : rows = {s \in segs : s.gen = was.gen} BY TypesAre
    <2>2. PICK d \in Doing : d = OnRows(was, rows) /\ Busy(d) /\ d.gen = was.gen /\ d.pc = "vectors" /\ d.rows = rows
      BY EmbeddersMove
    <2>3. doing' = [doing EXCEPT ![r] = d] BY <1>1, <1>5, <2>1, <2>2, TypesAre DEF ReadsSegments, OnRows
    <2>4. UNCHANGED <<queue, vectors, embedded>> BY <1>5 DEF ReadsSegments, publicVars
    <2>5. doing'[r] = d BY <2>3, TypesAre
    <2>6. EmbedderFits(r)'
      <3>1. was.gen <= text.gen BY <1>1, <1>2, <1>5 DEF ReadsSegments, Is
      <3>2. was.gen = text.gen => rows = Published BY <2>1 DEF Published
      <3> QED BY <1>3, <1>4, <2>2, <2>5, <3>1, <3>2 DEF EmbedderFits, Is
    <2> QED BY <1>3, <2>2, <2>3, <2>4, <2>6, TypesAre, EmbedderMoves
  <1>6. CASE StoresVectors(r)
    <2>1. CASE ~(doing[r].rows \subseteq segs)
      <3>1. FailsFor(r) /\ UNCHANGED <<vectors, embedded>> BY <1>6, <2>1 DEF StoresVectors
      <3>2. TextsTypeOK' BY <1>3, <3>1, TypesAre DEF TextsTypeOK
      <3> QED BY <1>3, <3>1, <3>2, EndsStep
    <2>2. CASE was.rows \subseteq segs
      <3>1. vectors' = vectors \cup was.rows /\ UNCHANGED <<queue, embedded>> BY <1>1, <1>6, <2>2 DEF StoresVectors
      <3>2. PICK d \in Doing : d = OnVectors(was) /\ Busy(d) /\ d.gen = was.gen /\ d.pc = "status" BY EmbeddersMove
      <3>3. doing' = [doing EXCEPT ![r] = d] BY <1>1, <1>6, <2>2, <3>2, TypesAre DEF StoresVectors, OnVectors
      <3>4. doing'[r] = d BY <3>3, TypesAre
      <3>5. EmbedderFits(r)'
        <4>1. was.pc = "vectors" BY <1>1, <1>6 DEF StoresVectors, Is
        <4>2. was.gen = text.gen /\ text.gen \notin crossed => Published \subseteq vectors' BY <1>2, <3>1, <4>1
        <4> QED BY <1>2, <1>3, <1>4, <3>2, <3>4, <4>1, <4>2 DEF EmbedderFits, Is
      <3>6. vectors \subseteq vectors' /\ vectors' \subseteq segs BY <2>2, <3>1, TypesAre
      <3> QED BY <1>3, <3>1, <3>2, <3>3, <3>5, <3>6, EmbedderMoves
    <2> QED BY <1>1, <2>1, <2>2
  <1>7. CASE RecordsVectors(r)
    <2>1. PICK d \in Doing : d = OnDone(was) /\ Busy(d) /\ d.pc = "done" BY EmbeddersMove
    <2>2. doing' = [doing EXCEPT ![r] = d]
      BY <1>1, <1>7, <2>1, TypesAre DEF RecordsVectors, Becomes, OnDone
    <2>3. embedded' = was.gen /\ UNCHANGED <<queue, vectors>> BY <1>1, <1>7 DEF RecordsVectors
    <2>4. was.pc = "status" BY <1>1, <1>7 DEF RecordsVectors, Is
    <2>5. EmbeddedIsWhole' BY <1>2, <1>3, <1>4, <2>3, <2>4 DEF EmbeddedIsWhole
    <2>6. embedded' <= text.gen /\ embedded' \in Nat BY <1>2, <2>3, <2>4 DEF Doing
    <2>7. doing'[r] = d BY <2>2, TypesAre
    <2>8. EmbedderFits(r)' BY <2>1, <2>7 DEF EmbedderFits
    <2>9. vectors \subseteq vectors' /\ vectors' \subseteq segs BY <2>3, TypesAre
    <2> QED BY <1>3, <2>1, <2>2, <2>3, <2>5, <2>6, <2>8, <2>9, EmbedderMoves
  <1> QED BY <1>5, <1>6, <1>7

-----------------------------------------------------------------------------
(* Texts: the invariant. *)

LEMMA TextsStart == TextsInit => TextsInv
  <1> SUFFICES ASSUME TextsInit PROVE TextsInv OBVIOUS
  <1> USE DEF TextsInit
  <1>1. pages \in [Pages -> Page] BY UnreadIs
  <1>2. QueueTyped BY JobsAre DEF QueueTyped
  <1>3. \A r \in Readers : doing[r] = Resting OBVIOUS
  <1>4. DoingTyped BY <1>3, RestingIs DEF DoingTyped
  <1>5. TextTyped
    <2>1. <<>> \in Seq(Piece) OBVIOUS
    <2> QED BY <2>1 DEF TextTyped
  <1>6. TextsTyped BY <1>1, <1>2, <1>4, <1>5 DEF TextsTyped, TextsTypeOK, Languages
  <1>7. \A r \in Readers : doing[r].pc = "idle" BY <1>3, RestingIs
  <1>8. WritersMeet /\ \A r \in Readers : WriterFits(r) /\ EmbedderFits(r)
    BY <1>7 DEF WritersMeet, WriterFits, EmbedderFits, Writing
  <1>9. WholeAlone BY DEF WholeAlone, IsWhole, Published
  <1>10. EmbeddedIsWhole /\ embedded <= text.gen BY DEF EmbeddedIsWhole
  <1> QED BY <1>6, <1>8, <1>9, <1>10 DEF TextsInv

LEMMA TextsStep == TextsInv /\ [TextsNext]_textsVars => TextsInv'
  <1> SUFFICES ASSUME TextsInv, [TextsNext]_textsVars PROVE TextsInv' OBVIOUS
  <1>1. CASE AsksFor BY <1>1, AsksForStep
  <1>2. CASE \E r \in Readers : ReadsPages(r)
    BY <1>2, QueuesStep, ClaimsStep, LanguageStep, LooksBeforeStep, ListsStep, SavesStep DEF ReadsPages
  <1>3. CASE \E r \in Readers : MakesText(r)
    BY <1>3, ClaimsStep, BeginsStep, FetchesStep, WritesStep, PublishesStep, CannotReadStep DEF MakesText
  <1>4. CASE \E r \in Readers : MakesVectors(r)
    BY <1>4, QueuesStep, ClaimsStep, VectorsStep DEF MakesVectors
  <1>5. CASE \E r \in Readers : EndsRun(r)
    BY <1>5, EndStep, QueuesStep DEF EndsRun
  <1>6. CASE UNCHANGED textsVars
    <2>1. UNCHANGED <<doing, crossed, publicVars, queue, pages, choice, decided>> BY <1>6 DEF textsVars, publicVars
    <2>2. QueueTyped' /\ TextsTypeOK' BY <2>1, TypesAre DEF QueueTyped, TextsTypeOK, publicVars
    <2>3. choice' \in Languages /\ decided'.language \in Languages BY <2>1, TypesAre
    <2> QED BY <2>1, <2>2, <2>3, NobodyMoves
  <1> QED BY <1>1, <1>2, <1>3, <1>4, <1>5, <1>6 DEF TextsNext

LEMMA TextsAlways == TextsSpec => []TextsInv
  BY TextsStart, TextsStep, PTL DEF TextsSpec

\* The pages, the segments, the vectors and the status of the embeddings keep their types,
\* and every vector is one of a segment that is there.
THEOREM TextsAreTyped == TextsSpec => []TextsTypeOK
  <1>1. TextsInv => TextsTypeOK BY DEF TextsInv, TextsTyped
  <1> QED BY <1>1, TextsAlways, PTL

\* What is published is the whole of what one reading made, and nothing else, where that
\* reading met no other: whatever died, lapsed, failed or was asked for again before, during
\* or after it (text_extraction_begin, flush, text_extraction_publish, text_extraction_fail).
THEOREM WhatIsPublishedIsWhole == TextsSpec => []WholeAlone
  <1>1. TextsInv => WholeAlone BY DEF TextsInv
  <1> QED BY <1>1, TextsAlways, PTL

\* A text that counts as embedded has a vector for each of its segments, though it may be
\* replaced while its segments are read, embedded or recorded (EmbeddingIndexer).
THEOREM WhatIsEmbeddedIsWhole == TextsSpec => []EmbeddedIsWhole
  <1>1. TextsInv => EmbeddedIsWhole BY DEF TextsInv
  <1> QED BY <1>1, TextsAlways, PTL

-----------------------------------------------------------------------------
(* Texts: what OCR read reaches the text. *)

\* One process reads pages: the worker "ocr" is one service, with no replicas.
OneOcr == \A r, q \in Readers : Kind(r) = "ocr" /\ Kind(q) = "ocr" => r = q

ReadingPcs == {"file", "language", "decide", "list", "look", "engine"}
EmbeddingPcs == {"rows", "vectors", "status"}
WrittenPcs == {"write", "publish"}

\* Each page that was read is among these pieces, in the manner it was read in.
Covers(pieces, of) ==
    \A p \in Pages : of[p].state = "done" =>
        \E i \in DOMAIN pieces : pieces[i] = [page |-> p, manner |-> of[p].manner]

Made(r) == Is(r, "done") /\ doing[r].manner # Off /\ ~doing[r].unread /\ ~doing[r].left

OcrFits(r) ==
    /\ doing[r].pc \in ReadingPcs => Kind(r) = "ocr"
    /\ Kind(r) = "ocr" =>
        /\ doing[r].pc \notin EmbeddingPcs
        /\ doing[r].pc \in WrittenPcs => Covers(doing[r].made, pages)
        /\ Made(r) =>
            /\ text.gen \notin crossed => Covers(text.made, pages)
            /\ \A q \in Readers : doing[q].pc \in WrittenPcs /\ doing[q].gen \notin crossed => Covers(doing[q].made, pages)

OcrInv == TextsInv /\ \A r \in Readers : OcrFits(r)

\* No page is read in this step: some are forgotten at most.
NothingRead == \A p \in Pages : pages'[p].state = "done" => pages'[p] = pages[p]

LEMMA StillCovers ==
    ASSUME NEW pieces, Covers(pieces, pages), NothingRead
    PROVE  Covers(pieces, pages')
  BY DEF Covers, NothingRead

\* A process moves to d and publishes nothing.
LEMMA OcrMoves ==
    ASSUME OcrInv, NEW r \in Readers, NEW d, doing' = [doing EXCEPT ![r] = d],
           crossed \subseteq crossed', text'.gen = text.gen, text'.made = text.made, NothingRead,
           d.pc \in ReadingPcs => Kind(r) = "ocr",
           Kind(r) = "ocr" => d.pc \notin EmbeddingPcs,
           d.pc \in WrittenPcs => \/ Covers(d.made, pages')
                                  \/ doing[r].pc \in WrittenPcs /\ d.made = doing[r].made /\ d.gen = doing[r].gen,
           Kind(r) = "ocr" /\ d.pc = "done" /\ d.manner # Off => d.unread \/ d.left
    PROVE  \A q \in Readers : OcrFits(q)'
  <1>1. doing'[r] = d /\ \A q \in Readers \ {r} : doing'[q] = doing[q] BY TypesAre DEF OcrInv
  <1>2. ASSUME NEW q \in Readers, Kind(q) = "ocr", doing'[q].pc \in WrittenPcs
        PROVE  Covers(doing'[q].made, pages')
    <2>1. CASE q = r
      <3>1. PICK made : made = d.made OBVIOUS
      <3>2. CASE Covers(d.made, pages') BY <1>1, <2>1, <3>2
      <3>3. CASE doing[r].pc \in WrittenPcs /\ d.made = doing[r].made
        <4>1. Covers(made, pages) BY <1>2, <2>1, <3>1, <3>3 DEF OcrInv, OcrFits
        <4>2. Covers(made, pages') BY <4>1, StillCovers
        <4> QED BY <1>1, <2>1, <3>1, <4>2
      <3> QED BY <1>1, <1>2, <2>1, <3>2, <3>3
    <2>2. CASE q # r
      <3>1. PICK made : made = doing[q].made OBVIOUS
      <3>2. Covers(made, pages) BY <1>1, <1>2, <2>2, <3>1 DEF OcrInv, OcrFits
      <3>3. Covers(made, pages') BY <3>2, StillCovers
      <3> QED BY <1>1, <2>2, <3>1, <3>3
    <2> QED BY <2>1, <2>2
  <1>3. ASSUME NEW q \in Readers, Kind(q) = "ocr", Made(q)'
        PROVE  /\ text'.gen \notin crossed' => Covers(text'.made, pages')
               /\ \A p \in Readers : doing'[p].pc \in WrittenPcs /\ doing'[p].gen \notin crossed' => Covers(doing'[p].made, pages')
    <2>1. q # r BY <1>1, <1>3 DEF Made, Is
    <2>2. Made(q) BY <1>1, <1>3, <2>1 DEF Made, Is
    <2>3. /\ text.gen \notin crossed => Covers(text.made, pages)
          /\ \A p \in Readers : doing[p].pc \in WrittenPcs /\ doing[p].gen \notin crossed => Covers(doing[p].made, pages)
      BY <1>3, <2>2 DEF OcrInv, OcrFits
    <2>4. text'.gen \notin crossed' => Covers(text'.made, pages')
      <3>1. PICK made : made = text.made OBVIOUS
      <3>2. text.gen \notin crossed => Covers(made, pages) BY <2>3, <3>1
      <3>3. text.gen \notin crossed => Covers(made, pages') BY <3>2, StillCovers
      <3> QED BY <3>1, <3>3
    <2>5. ASSUME NEW p \in Readers, doing'[p].pc \in WrittenPcs, doing'[p].gen \notin crossed'
          PROVE  Covers(doing'[p].made, pages')
      <3>1. CASE p = r /\ Covers(d.made, pages') BY <1>1, <3>1
      <3>2. CASE ~(p = r /\ Covers(d.made, pages'))
        <4>1. doing[p].pc \in WrittenPcs /\ doing'[p].made = doing[p].made /\ doing'[p].gen = doing[p].gen
          BY <1>1, <2>5, <3>2
        <4>2. PICK made : made = doing[p].made OBVIOUS
        <4>3. Covers(made, pages) BY <2>3, <2>5, <4>1, <4>2
        <4>4. Covers(made, pages') BY <4>3, StillCovers
        <4> QED BY <4>1, <4>2, <4>4
      <3> QED BY <3>1, <3>2
    <2> QED BY <2>4, <2>5
  <1>4. ASSUME NEW q \in Readers PROVE (doing'[q].pc \in ReadingPcs => Kind(q) = "ocr") /\ (Kind(q) = "ocr" => doing'[q].pc \notin EmbeddingPcs)
    BY <1>1 DEF OcrInv, OcrFits
  <1> QED BY <1>2, <1>3, <1>4 DEF OcrFits, Kind

\* No process moves.
LEMMA OcrStays ==
    ASSUME OcrInv, doing' = doing, crossed' = crossed, text' = text, NothingRead
    PROVE  \A q \in Readers : OcrFits(q)'
  <1> SUFFICES ASSUME NEW r \in Readers PROVE OcrFits(r)' OBVIOUS
  <1>1. ASSUME NEW q \in Readers PROVE Covers(doing[q].made, pages) => Covers(doing[q].made, pages')
    <2>1. PICK made : made = doing[q].made OBVIOUS
    <2>2. Covers(made, pages) => Covers(made, pages') BY StillCovers
    <2>3. doing'[q].made = made BY <2>1
    <2> QED BY <2>1, <2>2, <2>3
  <1>2. Covers(text.made, pages) => Covers(text.made, pages')
    <2>1. PICK made : made = text.made OBVIOUS
    <2>2. Covers(made, pages) => Covers(made, pages') BY StillCovers
    <2> QED BY <2>1, <2>2
  <1> QED BY <1>1, <1>2 DEF OcrInv, OcrFits, Made, Is, Kind

LEMMA PcsApart ==
    /\ \A pc \in ReadingPcs : pc \notin WrittenPcs /\ pc \notin EmbeddingPcs /\ pc # "done"
    /\ {"idle", "begin", "fetch"} \cap (ReadingPcs \cup WrittenPcs \cup EmbeddingPcs \cup {"done"}) = {}
    /\ \A pc \in WrittenPcs : pc \notin ReadingPcs /\ pc \notin EmbeddingPcs /\ pc # "done"
    /\ \A pc \in EmbeddingPcs : pc \notin ReadingPcs /\ pc \notin WrittenPcs /\ pc # "done"
    /\ "done" \notin ReadingPcs /\ "done" \notin EmbeddingPcs /\ "done" \notin WrittenPcs
  BY DEF ReadingPcs, WrittenPcs, EmbeddingPcs

LEMMA OcrAsks ==
    ASSUME OcrInv, AsksFor \/ (\E r \in Readers : OcrEnqueues(r) \/ EmbedEnqueues(r) \/ Lapses(r))
    PROVE  \A q \in Readers : OcrFits(q)'
  <1>1. doing' = doing /\ crossed' = crossed /\ text' = text
    BY DEF AsksFor, AskText, RetryPages, SetLanguage, Choose, Reread, Asks, OcrEnqueues, EmbedEnqueues, Lapses, publicVars
  <1>2. NothingRead
    <2>1. CASE \E l \in Manners : SetLanguage(l) BY <2>1 DEF SetLanguage, Unread, NothingRead
    <2>2. CASE Reread BY <2>2 DEF Reread, Unread, NothingRead
    <2>3. CASE UNCHANGED pages BY <2>3 DEF NothingRead
    <2> QED BY <2>1, <2>2, <2>3
         DEF AsksFor, AskText, RetryPages, Choose, OcrEnqueues, EmbedEnqueues, Lapses, pagesVars
  <1> QED BY <1>1, <1>2, OcrStays

LEMMA OcrClaimed ==
    ASSUME OcrInv, NEW r \in Readers, OcrClaims(r) \/ TextClaims(r) \/ EmbedClaims(r)
    PROVE  \A q \in Readers : OcrFits(q)'
  <1>0. TextsInv BY DEF OcrInv
  <1>1. PICK d \in Doing :
           /\ Claims(r, d)
           /\ d.pc \in ReadingPcs => Kind(r) = "ocr"
           /\ Kind(r) = "ocr" => d.pc \notin EmbeddingPcs
           /\ d.pc \notin WrittenPcs
           /\ d.pc = "done" => d.manner = Off
    <2>1. CASE OcrClaims(r)
      <3>1. PICK d \in Doing : Claims(r, d) /\ d.pc \in {"done", "language", "file"} /\ (d.pc = "done" => d.manner = Off)
        BY <1>0, <2>1, OcrClaimsIs
      <3>2. Kind(r) = "ocr" BY <2>1 DEF OcrClaims
      <3>3. d.pc \notin EmbeddingPcs /\ d.pc \notin WrittenPcs BY <3>1 DEF EmbeddingPcs, WrittenPcs
      <3> QED BY <3>1, <3>2, <3>3
    <2>2. CASE TextClaims(r)
      <3>1. PICK d \in Doing : Claims(r, d) /\ d.pc \in {"begin", "done"} /\ d.manner = Off BY <1>0, <2>2, TextClaimsIs
      <3>2. d.pc \notin EmbeddingPcs /\ d.pc \notin WrittenPcs /\ d.pc \notin ReadingPcs
        BY <3>1 DEF EmbeddingPcs, WrittenPcs, ReadingPcs
      <3> QED BY <3>1, <3>2
    <2>3. CASE EmbedClaims(r)
      <3>1. PICK d \in Doing : Claims(r, d) /\ d.pc \in {"done", "rows"} /\ d.manner = Off BY <1>0, <2>3, EmbedClaimsIs
      <3>2. Kind(r) # "ocr" BY <2>3 DEF EmbedClaims
      <3>3. d.pc \notin WrittenPcs /\ d.pc \notin ReadingPcs BY <3>1 DEF WrittenPcs, ReadingPcs
      <3> QED BY <3>1, <3>2, <3>3
    <2> QED BY <2>1, <2>2, <2>3
  <1>2. doing' = [doing EXCEPT ![r] = d] BY <1>0, <1>1, ClaimsQueue
  <1>3. crossed' = crossed /\ text' = text /\ NothingRead
    BY <1>1 DEF Claims, pagesVars, publicVars, NothingRead
  <1> QED BY <1>1, <1>2, <1>3, OcrMoves

LEMMA OcrEnds ==
    ASSUME OcrInv, NEW r \in Readers, FailsFor(r) \/ Settles(r, NoJob), crossed' = crossed, text' = text, pages' = pages
    PROVE  \A q \in Readers : OcrFits(q)'
  <1>1. doing' = [doing EXCEPT ![r] = Resting] BY SettlesIs DEF OcrInv
  <1>2. Resting.pc = "idle" BY RestingIs
  <1>3. NothingRead BY DEF NothingRead
  <1> QED BY <1>1, <1>2, <1>3, PcsApart, OcrMoves

\* A job of OCR goes from step to step and saves no page.
LEMMA OcrGoes ==
    ASSUME OcrInv, NEW r \in Readers,
           KeepsLanguage(r) \/ (\E l \in Manners : DetectsLanguage(r, l)) \/ DecidesLanguage(r)
             \/ LooksBeforeFile(r) \/ ListsPages(r) \/ LooksAtChoice(r)
    PROVE  \A q \in Readers : OcrFits(q)'
  <1>1. crossed' = crossed /\ text' = text /\ pages' = pages
    BY DEF KeepsLanguage, DetectsLanguage, DecidesLanguage, LooksBeforeFile, ListsPages, LooksAtChoice, publicVars, pagesVars
  <1>2. Kind(r) = "ocr"
    <2>1. doing[r].pc \in ReadingPcs
      BY DEF KeepsLanguage, DetectsLanguage, DecidesLanguage, LooksBeforeFile, ListsPages, LooksAtChoice, Is, ReadingPcs
    <2> QED BY <2>1 DEF OcrInv, OcrFits
  <1>3. doing[r] \in Doing /\ doing \in [Readers -> Doing] BY TypesAre DEF OcrInv
  <1>4. PICK d : doing' = [doing EXCEPT ![r] = d] /\ (d.pc \in ReadingPcs \/ d.pc = "begin" \/ (d.pc = "done" /\ d.left))
    <2>1. CASE KeepsLanguage(r)
      <3>1. PICK d : d = [doing[r] EXCEPT !.pc = "list", !.manner = decided.language] OBVIOUS
      <3>2. doing' = [doing EXCEPT ![r] = d] /\ d.pc = "list" BY <1>3, <2>1, <3>1 DEF KeepsLanguage, Doing
      <3> QED BY <3>2 DEF ReadingPcs
    <2>2. CASE \E l \in Manners : DetectsLanguage(r, l)
      <3>0. PICK l \in Manners : DetectsLanguage(r, l) BY <2>2
      <3>1. PICK d : d = [doing[r] EXCEPT !.pc = "decide", !.manner = l] OBVIOUS
      <3>2. doing' = [doing EXCEPT ![r] = d] /\ d.pc = "decide" BY <1>3, <3>0, <3>1 DEF DetectsLanguage, Doing
      <3> QED BY <3>2 DEF ReadingPcs
    <2>3. CASE DecidesLanguage(r)
      <3>1. PICK d : d = [doing[r] EXCEPT !.pc = "list"] OBVIOUS
      <3>2. doing' = [doing EXCEPT ![r] = d] /\ d.pc = "list" BY <1>3, <2>3, <3>1 DEF DecidesLanguage, Becomes, Doing
      <3> QED BY <3>2 DEF ReadingPcs
    <2>4. CASE ListsPages(r)
      <3>a. PICK todo : doing' = [doing EXCEPT ![r].pc = Onward(todo), ![r].todo = todo] BY <2>4 DEF ListsPages
      <3>0. PICK pc \in {"begin", "look", "engine"} : pc = Onward(todo) BY OnwardIs
      <3>1. PICK d : d = [doing[r] EXCEPT !.pc = pc, !.todo = todo] OBVIOUS
      <3>2. doing' = [doing EXCEPT ![r] = d] /\ d.pc = pc BY <1>3, <3>a, <3>0, <3>1 DEF Doing
      <3> QED BY <3>0, <3>2 DEF ReadingPcs
    <2>5. CASE LooksAtChoice(r)
      <3>0. PICK pc \in {"begin", "engine"} : Becomes(r, pc) BY <2>5 DEF LooksAtChoice
      <3>1. PICK d : d = [doing[r] EXCEPT !.pc = pc] OBVIOUS
      <3>2. doing' = [doing EXCEPT ![r] = d] /\ d.pc = pc BY <1>3, <3>0, <3>1 DEF Becomes, Doing
      <3> QED BY <3>0, <3>2 DEF ReadingPcs
    <2>6. CASE LooksBeforeFile(r)
      <3>0. TextsInv BY DEF OcrInv
      <3>1. PICK d \in Doing : doing' = [doing EXCEPT ![r] = d] /\ (d.pc = "list" \/ (d.pc = "done" /\ d.left))
        BY <2>6, <3>0, LooksBeforeIs
      <3> QED BY <3>1 DEF ReadingPcs
    <2> QED BY <2>1, <2>2, <2>3, <2>4, <2>5, <2>6
  <1>5. d.pc \notin EmbeddingPcs /\ d.pc \notin WrittenPcs /\ (d.pc = "done" => d.left) BY <1>4, PcsApart
  <1>6. NothingRead BY <1>1 DEF NothingRead
  <1> QED BY <1>1, <1>2, <1>4, <1>5, <1>6, OcrMoves

\* A page is saved: by the one process that reads pages, which makes no text meanwhile.
LEMMA OcrSaves ==
    ASSUME OneOcr, OcrInv, NEW r \in Readers, NEW state \in {"done", "blank", "failed"}, SavesPage(r, state)
    PROVE  \A q \in Readers : OcrFits(q)'
  <1>1. Kind(r) = "ocr"
    <2>1. doing[r].pc \in ReadingPcs BY DEF SavesPage, Is, ReadingPcs
    <2> QED BY <2>1 DEF OcrInv, OcrFits
  <1>2. \A q \in Readers \ {r} : Kind(q) # "ocr" BY <1>1 DEF OneOcr
  <1>3. doing[r] \in Doing /\ doing \in [Readers -> Doing] BY TypesAre DEF OcrInv
  <1>4. PICK d : doing' = [doing EXCEPT ![r] = d] /\ (d.pc \in ReadingPcs \/ d.pc = "begin" \/ d.pc = "idle")
    <2>1. CASE FailsFor(r)
      <3>1. doing' = [doing EXCEPT ![r] = Resting] /\ Resting.pc = "idle" BY <2>1, RestingIs, SettlesIs DEF OcrInv
      <3> QED BY <3>1
    <2>2. CASE ~FailsFor(r)
      <3>1. PICK bad : doing' = [doing EXCEPT ![r].pc = Onward(Tail(doing[r].todo)), ![r].todo = Tail(@), ![r].bad = bad]
        BY <2>2 DEF SavesPage
      <3>2. PICK pc \in {"begin", "look", "engine"} : pc = Onward(Tail(doing[r].todo)) BY OnwardIs
      <3>3. PICK d : d = [doing[r] EXCEPT !.pc = pc, !.todo = Tail(@), !.bad = bad] OBVIOUS
      <3>4. doing' = [doing EXCEPT ![r] = d] /\ d.pc = pc BY <1>3, <3>1, <3>2, <3>3 DEF Doing
      <3> QED BY <3>2, <3>4 DEF ReadingPcs
    <2> QED BY <2>1, <2>2
  <1>5. d.pc \notin EmbeddingPcs /\ d.pc \notin WrittenPcs /\ d.pc # "done" BY <1>4, PcsApart
  <1>6. doing'[r] = d /\ \A q \in Readers \ {r} : doing'[q] = doing[q] BY <1>3, <1>4
  <1>7. ASSUME NEW q \in Readers PROVE OcrFits(q)'
    <2>1. CASE q = r BY <1>1, <1>5, <1>6, <2>1 DEF OcrFits, Made, Is, Kind
    <2>2. CASE q # r
      <3>1. doing[q].pc \in ReadingPcs => Kind(q) = "ocr" BY DEF OcrInv, OcrFits
      <3> QED BY <1>2, <1>6, <2>2, <3>1 DEF OcrFits, Kind
    <2> QED BY <2>1, <2>2
  <1> QED BY <1>7

LEMMA OcrBegins ==
    ASSUME OcrInv, NEW r \in Readers, BeginsText(r)
    PROVE  \A q \in Readers : OcrFits(q)'
  <1>1. doing[r] \in Doing /\ doing \in [Readers -> Doing] BY TypesAre DEF OcrInv
  <1>2. PICK d : d = [doing[r] EXCEPT !.pc = "fetch", !.gen = text.gen + 1] OBVIOUS
  <1>3. doing' = [doing EXCEPT ![r] = d] /\ d.pc = "fetch" BY <1>1, <1>2 DEF BeginsText, Doing
  <1>4. crossed \subseteq crossed' /\ text' = text /\ NothingRead BY DEF BeginsText, pagesVars, NothingRead
  <1> QED BY <1>3, <1>4, PcsApart, OcrMoves

LEMMA OcrFetches ==
    ASSUME OcrInv, NEW r \in Readers, FetchesPages(r)
    PROVE  \A q \in Readers : OcrFits(q)'
  <1>1. PICK d \in Doing : /\ doing' = [doing EXCEPT ![r] = d] /\ d.pc \in WrittenPcs
                           /\ Covers(d.made, pages)
    <2>1. PICK d \in Doing : Fetched(r, d) BY FetchesIs DEF OcrInv
    <2>2. doing' = [doing EXCEPT ![r] = d] /\ d.pc \in WrittenPcs BY <2>1 DEF Fetched, WrittenPcs
    <2>3. Covers(d.made, pages) BY <2>1 DEF Fetched, Covers
    <2> QED BY <2>2, <2>3
  <1>2. crossed' = crossed /\ text' = text /\ NothingRead /\ pages' = pages
    BY DEF FetchesPages, pagesVars, publicVars, NothingRead
  <1> QED BY <1>1, <1>2, PcsApart, OcrMoves

LEMMA OcrWrites ==
    ASSUME OcrInv, NEW r \in Readers, WritesText(r)
    PROVE  \A q \in Readers : OcrFits(q)'
  <1>0. TextsInv BY DEF OcrInv
  <1>1. crossed' = crossed /\ text' = text /\ pages' = pages BY DEF WritesText, pagesVars
  <1>2. CASE FailsFor(r) BY <1>1, <1>2, OcrEnds
  <1>3. CASE ~FailsFor(r)
    <2>1. PICK was \in Doing : was = doing[r] /\ Busy(was) BY <1>0, TypesAre
    <2>2. was.pc = "write" BY <2>1 DEF WritesText, Is
    <2>3. doing' = [doing EXCEPT ![r].rest = Tail(@), ![r].pc = IF Len(was.rest) = 1 THEN "publish" ELSE "write"]
      BY <1>3, <2>1 DEF WritesText
    <2>4. doing' = [doing EXCEPT ![r] = OnText(was)] BY <1>0, <2>1, <2>3, TypesAre DEF OnText
    <2>5. PICK d : d = OnText(was) /\ d.pc \in WrittenPcs /\ d.made = was.made /\ d.gen = was.gen
      BY <2>1, <2>2, NextPiece DEF WrittenPcs
    <2>6. doing[r].pc \in WrittenPcs BY <2>1, <2>2 DEF WrittenPcs
    <2>7. NothingRead BY <1>1 DEF NothingRead
    <2> QED BY <1>1, <2>1, <2>4, <2>5, <2>6, <2>7, PcsApart, OcrMoves
  <1> QED BY <1>2, <1>3

LEMMA OcrCannotRead ==
    ASSUME OcrInv, NEW r \in Readers, CannotRead(r)
    PROVE  \A q \in Readers : OcrFits(q)'
  <1>0. TextsInv BY DEF OcrInv
  <1>1. PICK was \in Doing : was = doing[r] BY <1>0, TypesAre
  <1>2. PICK d : d = OnUnread(was) /\ d.pc = "done" /\ d.unread BY <1>1, UnreadableIs
  <1>3. doing' = [doing EXCEPT ![r] = d]
    BY <1>0, <1>1, <1>2, TypesAre DEF CannotRead, OnUnread
  <1>4. crossed' = crossed /\ NothingRead BY DEF CannotRead, pagesVars, NothingRead
  <1>5. text' = IF text.status = "none" THEN [text EXCEPT !.status = "failed"] ELSE text BY DEF CannotRead
  <1>6. text'.gen = text.gen /\ text'.made = text.made
    BY <1>0, <1>5 DEF TextsInv, TextsTyped, TextTyped
  <1> QED BY <1>2, <1>3, <1>4, <1>6, PcsApart, OcrMoves

\* The text that is published is one that has what OCR had read, if it met no other reading.
LEMMA OcrPublishes ==
    ASSUME OcrInv, NEW r \in Readers, PublishesText(r)
    PROVE  \A q \in Readers : OcrFits(q)'
  <1>0. TextsInv BY DEF OcrInv
  <1>1. crossed' = crossed /\ pages' = pages BY DEF PublishesText, pagesVars
  <1>2. CASE FailsFor(r) /\ UNCHANGED publicVars BY <1>1, <1>2, OcrEnds DEF publicVars
  <1>3. CASE ~(FailsFor(r) /\ UNCHANGED publicVars)
    <2>1. PICK was \in Doing : was = doing[r] BY <1>0, TypesAre
    <2>2. was.pc = "publish" /\ was.pc \in WrittenPcs /\ Writing(r) BY <2>1 DEF PublishesText, Is, WrittenPcs, Writing
    <2>3. text'.gen = was.gen /\ text'.made = was.made BY <1>3, <2>1 DEF PublishesText
    <2>4. doing' = [doing EXCEPT ![r].pc = "done", ![r].made = <<>>] BY <1>3 DEF PublishesText
    <2>5. doing' = [doing EXCEPT ![r] = OnPublished(was)] BY <1>0, <2>1, <2>4, TypesAre DEF OnPublished
    <2>6. PICK d : d = OnPublished(was) /\ d.pc = "done" /\ d.manner = was.manner /\ d.unread = was.unread /\ d.left = was.left
      BY <2>1, PublishedIs
    <2>7. doing'[r] = d /\ \A q \in Readers \ {r} : doing'[q] = doing[q] BY <1>0, <2>5, <2>6, TypesAre
    <2>8. ASSUME NEW q \in Readers, Kind(q) = "ocr", Made(q)', was.gen \notin crossed
          PROVE  Covers(was.made, pages)
      <3>1. CASE q = r BY <2>1, <2>2, <2>8, <3>1 DEF OcrInv, OcrFits
      <3>2. CASE q # r
        <4>1. Made(q) BY <2>7, <2>8, <3>2 DEF Made, Is
        <4> QED BY <2>1, <2>2, <2>8, <4>1 DEF OcrInv, OcrFits
      <3> QED BY <3>1, <3>2
    <2>9. ASSUME NEW p \in Readers, doing'[p].pc \in WrittenPcs
          PROVE  doing'[p].gen \in crossed
      <3>1. p # r BY <2>6, <2>7, <2>9, PcsApart
      <3>2. doing'[p] = doing[p] /\ Writing(p) BY <2>7, <2>9, <3>1 DEF Writing, WrittenPcs
      <3> QED BY <1>0, <2>2, <3>1, <3>2 DEF TextsInv, WritersMeet
    <2>10. ASSUME NEW q \in Readers PROVE OcrFits(q)'
      <3>1. /\ doing'[q].pc \in ReadingPcs => Kind(q) = "ocr"
            /\ Kind(q) = "ocr" => doing'[q].pc \notin EmbeddingPcs
            /\ Kind(q) = "ocr" /\ doing'[q].pc \in WrittenPcs => Covers(doing'[q].made, pages)
        <4>1. CASE q = r BY <2>6, <2>7, <4>1, PcsApart
        <4>2. CASE q # r BY <2>7, <4>2 DEF OcrInv, OcrFits
        <4> QED BY <4>1, <4>2
      <3>2. Kind(q) = "ocr" /\ Made(q)' /\ text'.gen \notin crossed' => Covers(text'.made, pages')
        BY <1>1, <2>3, <2>8
      <3> QED BY <1>1, <2>9, <3>1, <3>2 DEF OcrFits, Kind
    <2> QED BY <2>10
  <1> QED BY <1>2, <1>3

LEMMA OcrEmbeds ==
    ASSUME OcrInv, NEW r \in Readers, ReadsSegments(r) \/ StoresVectors(r) \/ RecordsVectors(r)
    PROVE  \A q \in Readers : OcrFits(q)'
  <1>0. TextsInv BY DEF OcrInv
  <1>1. crossed' = crossed /\ text' = text /\ pages' = pages
    BY DEF ReadsSegments, StoresVectors, RecordsVectors, pagesVars, publicVars
  <1>2. Kind(r) # "ocr"
    <2>1. doing[r].pc \in EmbeddingPcs BY DEF ReadsSegments, StoresVectors, RecordsVectors, Is, EmbeddingPcs
    <2> QED BY <2>1 DEF OcrInv, OcrFits
  <1>3. PICK was \in Doing : was = doing[r] BY <1>0, TypesAre
  <1>4. CASE FailsFor(r) BY <1>1, <1>4, OcrEnds
  <1>5. CASE ~FailsFor(r)
    <2>1. PICK d : doing' = [doing EXCEPT ![r] = d] /\ (d.pc \in EmbeddingPcs \/ d.pc = "done")
      <3>1. CASE ReadsSegments(r)
        <4>1. PICK rows \in SUBSET Segment : rows = {s \in segs : s.gen = was.gen} BY <1>0, TypesAre
        <4>2. doing' = [doing EXCEPT ![r] = OnRows(was, rows)]
          BY <1>0, <1>3, <3>1, <4>1, TypesAre DEF ReadsSegments, OnRows
        <4>3. OnRows(was, rows).pc = "vectors" BY EmbeddersMove
        <4> QED BY <4>2, <4>3 DEF EmbeddingPcs
      <3>2. CASE StoresVectors(r)
        <4>1. doing' = [doing EXCEPT ![r] = OnVectors(was)] BY <1>0, <1>3, <1>5, <3>2, TypesAre DEF StoresVectors, OnVectors
        <4>2. OnVectors(was).pc = "status" BY EmbeddersMove
        <4> QED BY <4>1, <4>2 DEF EmbeddingPcs
      <3>3. CASE RecordsVectors(r)
        <4>1. doing' = [doing EXCEPT ![r] = OnDone(was)] BY <1>0, <1>3, <3>3, TypesAre DEF RecordsVectors, Becomes, OnDone
        <4>2. OnDone(was).pc = "done" BY EmbeddersMove
        <4> QED BY <4>1, <4>2
      <3> QED BY <3>1, <3>2, <3>3
    <2>2. d.pc \notin ReadingPcs /\ d.pc \notin WrittenPcs BY <2>1, PcsApart
    <2>3. NothingRead BY <1>1 DEF NothingRead
    <2> QED BY <1>1, <1>2, <2>1, <2>2, <2>3, OcrMoves
  <1> QED BY <1>4, <1>5

LEMMA OcrStart == TextsInit => OcrInv
  <1> SUFFICES ASSUME TextsInit PROVE OcrInv OBVIOUS
  <1>1. \A r \in Readers : doing[r].pc = "idle" BY RestingIs DEF TextsInit
  <1>2. \A r \in Readers : OcrFits(r) BY <1>1, PcsApart DEF OcrFits, Made, Is
  <1> QED BY <1>2, TextsStart DEF OcrInv

LEMMA OcrStep ==
    ASSUME OneOcr
    PROVE  OcrInv /\ [TextsNext]_textsVars => OcrInv'
  <1> SUFFICES ASSUME OcrInv, [TextsNext]_textsVars PROVE OcrInv' OBVIOUS
  <1>0. TextsInv' BY TextsStep DEF OcrInv
  <1>1. CASE AsksFor BY <1>0, <1>1, OcrAsks DEF OcrInv
  <1>2. ASSUME NEW r \in Readers, ReadsPages(r) PROVE \A q \in Readers : OcrFits(q)'
    BY <1>2, OcrAsks, OcrClaimed, OcrGoes, OcrSaves DEF ReadsPages
  <1>3. ASSUME NEW r \in Readers, MakesText(r) PROVE \A q \in Readers : OcrFits(q)'
    BY <1>3, OcrClaimed, OcrBegins, OcrFetches, OcrWrites, OcrPublishes, OcrCannotRead DEF MakesText
  <1>4. ASSUME NEW r \in Readers, MakesVectors(r) PROVE \A q \in Readers : OcrFits(q)'
    BY <1>4, OcrAsks, OcrClaimed, OcrEmbeds DEF MakesVectors
  <1>5. ASSUME NEW r \in Readers, EndsRun(r) PROVE \A q \in Readers : OcrFits(q)'
    <2>1. CASE Lapses(r) BY <2>1, OcrAsks
    <2>2. CASE Completes(r) \/ Interrupted(r)
      <3>1. crossed' = crossed /\ text' = text /\ pages' = pages BY <2>2 DEF Completes, Interrupted, pagesVars, publicVars
      <3>2. FailsFor(r) \/ Settles(r, NoJob) BY <2>2 DEF Completes, Interrupted
      <3> QED BY <3>1, <3>2, OcrEnds
    <2> QED BY <1>5, <2>1, <2>2 DEF EndsRun
  <1>6. CASE UNCHANGED textsVars
    <2>1. doing' = doing /\ crossed' = crossed /\ text' = text /\ NothingRead BY <1>6 DEF textsVars, NothingRead
    <2> QED BY <1>0, <2>1, OcrStays DEF OcrInv
  <1> QED BY <1>0, <1>1, <1>2, <1>3, <1>4, <1>5, <1>6 DEF TextsNext, OcrInv

\* A text that has a piece for a page, and is whole, has a segment for it.
LEMMA OcrReaches ==
    ASSUME OcrInv, NEW r \in Readers, Kind(r) = "ocr", Made(r), text.gen \notin crossed,
           NEW p \in Pages, pages[p].state = "done"
    PROVE  \E s \in Published : s.piece = [page |-> p, manner |-> pages[p].manner]
  <1>1. PICK made : made = text.made /\ Covers(made, pages) BY DEF OcrInv, OcrFits
  <1>2. PICK i \in DOMAIN made : made[i] = [page |-> p, manner |-> pages[p].manner] BY <1>1 DEF Covers
  <1>3. {<<s.seq, s.piece>> : s \in Published} = {<<j, made[j]>> : j \in DOMAIN made}
    BY <1>1 DEF OcrInv, TextsInv, WholeAlone, IsWhole
  <1>4. <<i, made[i]>> \in {<<s.seq, s.piece>> : s \in Published} BY <1>3
  <1>5. PICK s \in Published : <<s.seq, s.piece>> = <<i, made[i]>> BY <1>4
  <1> QED BY <1>2, <1>5

\* Where one process reads pages, a job of OCR that ends well has put each page that was
\* read into the text that is published, if that met no other reading, and if it did not leave
\* the file for another model before it began with it.  With two such
\* processes it is false: one that lost its lease saves a page while the other makes the text.
THEOREM PagesReachTheText ==
    ASSUME OneOcr
    PROVE  TextsSpec => OcrReachesText
  <1>1. OcrInv /\ [TextsNext]_textsVars => OcrInv' BY OcrStep
  <1>2. OcrInv => \A r \in Readers :
            (/\ Kind(r) = "ocr" /\ Is(r, "done") /\ doing'[r].pc = "idle"
             /\ Owns(r) /\ queue'["ocr"] = NoJob /\ mishaps' = mishaps
             /\ doing[r].manner # Off /\ ~doing[r].unread /\ ~doing[r].left /\ text.gen \notin crossed)
            => \A p \in Pages : pages[p].state = "done" =>
                    \E s \in Published : s.piece = [page |-> p, manner |-> pages[p].manner]
    BY OcrReaches DEF Made
  <1> QED BY <1>1, <1>2, OcrStart, PTL DEF TextsSpec, OcrReachesText

-----------------------------------------------------------------------------
(* Wiki: partial functions and the records of a project.                       *)

LEMMA MapsAre ==
    ASSUME NEW A, NEW B, NEW f
    PROVE  f \in Maps(A, B) <=> DOMAIN f \subseteq A /\ f \in [DOMAIN f -> B]
  <1>1. ASSUME f \in Maps(A, B) PROVE DOMAIN f \subseteq A /\ f \in [DOMAIN f -> B]
    <2>1. PICK D \in SUBSET A : f \in [D -> B] BY <1>1 DEF Maps
    <2> QED BY <2>1
  <1>2. ASSUME DOMAIN f \subseteq A, f \in [DOMAIN f -> B] PROVE f \in Maps(A, B)
    <2>1. DOMAIN f \in SUBSET A BY <1>2
    <2> QED BY <1>2, <2>1 DEF Maps
  <1> QED BY <1>1, <1>2

IsUnion(u, f, g) ==
    /\ DOMAIN u = DOMAIN f \cup DOMAIN g
    /\ \A x \in DOMAIN f : u[x] = f[x]
    /\ \A x \in DOMAIN g \ DOMAIN f : u[x] = g[x]
IsPart(u, f, S) == DOMAIN u = DOMAIN f \cap S /\ \A x \in DOMAIN f \cap S : u[x] = f[x]

LEMMA UnionIs ==
    ASSUME NEW A, NEW B, NEW f \in Maps(A, B), NEW g \in Maps(A, B)
    PROVE  Union(f, g) \in Maps(A, B) /\ IsUnion(Union(f, g), f, g)
  <1>1. DOMAIN f \subseteq A /\ f \in [DOMAIN f -> B] BY MapsAre
  <1>2. DOMAIN g \subseteq A /\ g \in [DOMAIN g -> B] BY MapsAre
  <1>3. Union(f, g) \in [DOMAIN f \cup DOMAIN g -> B] BY <1>1, <1>2 DEF Union
  <1>4. DOMAIN Union(f, g) = DOMAIN f \cup DOMAIN g BY DEF Union
  <1>5. Union(f, g) \in Maps(A, B) BY <1>1, <1>2, <1>3, <1>4, MapsAre
  <1> QED BY <1>4, <1>5 DEF Union, IsUnion

LEMMA OnlyIs ==
    ASSUME NEW A, NEW B, NEW f \in Maps(A, B), NEW S
    PROVE  Only(f, S) \in Maps(A, B) /\ IsPart(Only(f, S), f, S)
  <1>1. DOMAIN f \subseteq A /\ f \in [DOMAIN f -> B] BY MapsAre
  <1>2. Only(f, S) \in [DOMAIN f \cap S -> B] /\ DOMAIN Only(f, S) = DOMAIN f \cap S BY <1>1 DEF Only
  <1>3. Only(f, S) \in Maps(A, B) BY <1>1, <1>2, MapsAre
  <1> QED BY <1>2, <1>3 DEF Only, IsPart

\* A project keeps its sort when what hangs from it changes.
Changed(p, ents, made, on, hidden, ask) ==
    [p EXCEPT !.ents = ents, !.made = made, !.on = on, !.hidden = hidden, !.ask = ask]

Fit(ents, made, on, hidden, ask) ==
    /\ ents \in Maps(Names, SUBSET Names) /\ made \in [Names -> {0} \cup Kept]
    /\ on \in Maps(Text, Names) /\ hidden \in SUBSET Text /\ ask \in Ask

LEMMA ProjectWith ==
    ASSUME NEW p, p \in Project, NEW ents, NEW made, NEW on, NEW hidden, NEW ask,
           Fit(ents, made, on, hidden, ask)
    PROVE  LET q == Changed(p, ents, made, on, hidden, ask)
           IN  /\ q \in Project
               /\ q.id = p.id /\ q.ents = ents /\ q.made = made /\ q.on = on /\ q.hidden = hidden
               /\ q.ask = ask /\ q.changes = p.changes /\ q.review = p.review
  BY DEF Project, Changed, Fit

\* A wiki that does not show the two names as two entities of the books.
Joined(p) == ~TwoFound(p) \/ \E n \in Names : p.made[n] # 0

LEMMA SameNames == ASSUME NEW p, NEW q, q.ents = p.ents PROVE (TwoFound(q) <=> TwoFound(p)) /\ (Apart(q) <=> Apart(p))
  BY DEF TwoFound, Apart

\* No entity written by hand became one of the books, and none of the books came up.
AddsNone(p, q) == \A n \in DOMAIN q.ents : q.made[n] = 0 => n \in DOMAIN p.ents /\ p.made[n] = 0

LEMMA MergedIs ==
    ASSUME NEW p, IsProject(p), Apart(p), NEW keep \in Names, NEW drop \in Names, keep # drop
    PROVE  LET q == Merged(p, keep, drop)
           IN  /\ IsProject(q) /\ q.id = p.id /\ ~Apart(q)
               /\ DOMAIN q.on \subseteq DOMAIN p.on /\ AddsNone(p, q)
  <1> DEFINE stays(t) == p.on[t] # drop \/ \A u \in DOMAIN p.on : p.on[u] = keep => u.key # t.key
             texts == {t \in DOMAIN p.on : stays(t)}
             ents == [s \in DOMAIN p.ents \ {drop} |-> IF s = keep THEN p.ents[keep] \cup p.ents[drop] ELSE p.ents[s]]
             made == [p.made EXCEPT ![drop] = 0]
             on == [t \in texts |-> IF p.on[t] = drop THEN keep ELSE p.on[t]]
             hidden == p.hidden \cap texts
             ask == IF p.ask = "none" THEN p.ask ELSE "joined"
             q == Changed(p, ents, made, on, hidden, ask)
  <1>0. Merged(p, keep, drop) = q BY DEF Merged, IsProject, Project, Changed
  <1>1. /\ p \in Project /\ DOMAIN p.ents = Names
        /\ DOMAIN p.on \subseteq Text /\ p.on \in [DOMAIN p.on -> Names]
        /\ p.ents \in [Names -> SUBSET Names] /\ p.hidden \in SUBSET Text
    BY MapsAre DEF IsProject, Project, Apart
  <1>2. ents \in [Names \ {drop} -> SUBSET Names] BY <1>1
  <1>3. DOMAIN ents = Names \ {drop} BY <1>1
  <1>4. ents \in Maps(Names, SUBSET Names) BY <1>2, <1>3, MapsAre
  <1>5. made \in [Names -> {0} \cup Kept] BY <1>1 DEF Project
  <1>6. on \in [texts -> Names \ {drop}] /\ DOMAIN on = texts BY <1>1
  <1>7. on \in Maps(Text, Names) BY <1>1, <1>6, MapsAre
  <1>8. hidden \in SUBSET Text /\ ask \in Ask BY <1>1 DEF Project, Ask
  <1>9. \A s \in DOMAIN ents : s \in ents[s] BY <1>1 DEF IsProject
  <1>10. texts \subseteq DOMAIN p.on /\ hidden \subseteq texts OBVIOUS
  <1>14. \A n \in Names \ {drop} : made[n] = p.made[n] BY DEF IsProject, Project
  <1> HIDE DEF ents, made, on, hidden, ask, texts, q
  <1>11. q \in Project /\ q.id = p.id /\ q.ents = ents /\ q.made = made /\ q.on = on /\ q.hidden = hidden
    <2>1. Fit(ents, made, on, hidden, ask) BY <1>4, <1>5, <1>7, <1>8 DEF Fit
    <2> QED BY <1>1, <2>1, ProjectWith DEF q
  <1>12. IsProject(q) BY <1>11, <1>9, <1>10, <1>3, <1>6 DEF IsProject
  <1>13. ~Apart(q) BY <1>11, <1>3 DEF Apart
  <1>15. AddsNone(p, q) BY <1>11, <1>1, <1>3, <1>14 DEF AddsNone
  <1> QED BY <1>0, <1>11, <1>12, <1>13, <1>15, <1>6, <1>10

\* The answer of the suggestion does not touch the rest.
Answered(p, q) ==
    /\ IsProject(q) /\ q.id = p.id /\ q.ents = p.ents /\ q.made = p.made /\ q.on = p.on
    /\ TwoFound(q) <=> TwoFound(p)

LEMMA AnswerIs ==
    ASSUME NEW p, IsProject(p), NEW ask \in Ask
    PROVE  Answered(p, [p EXCEPT !.ask = ask])
  <1>1. p \in Project BY DEF IsProject
  <1>2. PICK q : q = [p EXCEPT !.ask = ask] OBVIOUS
  <1>3. q \in Project /\ q.id = p.id /\ q.ents = p.ents /\ q.made = p.made /\ q.on = p.on /\ q.hidden = p.hidden
    BY <1>1, <1>2 DEF Project
  <1>4. IsProject(q) BY <1>3 DEF IsProject
  <1>5. TwoFound(q) <=> TwoFound(p) BY <1>3, SameNames
  <1> QED BY <1>2, <1>3, <1>4, <1>5 DEF Answered

LEMMA DeclinedIs == ASSUME NEW p, IsProject(p) PROVE Answered(p, Declined(p))
  <1> DEFINE ask == IF p.ask = "open" THEN "declined" ELSE p.ask
  <1>1. ask \in Ask BY DEF IsProject, Project, Ask
  <1>2. Declined(p) = [p EXCEPT !.ask = ask] BY DEF Declined, IsProject, Project
  <1> HIDE DEF ask
  <1> QED BY <1>1, <1>2, AnswerIs

LEMMA AcceptedIs == ASSUME NEW p, IsProject(p) PROVE Answered(p, Accepted(p))
  <1> DEFINE ask == IF p.ask = "none" THEN p.ask ELSE "joined"
  <1>1. ask \in Ask BY DEF IsProject, Project, Ask
  <1>2. Accepted(p) = [p EXCEPT !.ask = ask] BY DEF Accepted, IsProject, Project
  <1> HIDE DEF ask
  <1> QED BY <1>1, <1>2, AnswerIs

LEMMA RuledIs ==
    ASSUME NEW p, IsProject(p), NEW rs, NEW keep \in Names
    PROVE  LET q == Ruled(p, rs, keep)
           IN  /\ IsProject(q) /\ q.id = p.id
               /\ DOMAIN q.on \subseteq DOMAIN p.on
               /\ "same" \in rs => ~TwoFound(q)
  <1> DEFINE drop == CHOOSE n \in Names : n # keep
             joined == IF "same" \in rs /\ TwoFound(p) THEN Merged(p, keep, drop) ELSE p
  <1>1. drop \in Names /\ drop # keep BY WikiAssumption
  <1> HIDE DEF drop
  <1>2. /\ IsProject(joined) /\ joined.id = p.id
        /\ DOMAIN joined.on \subseteq DOMAIN p.on
        /\ "same" \in rs => ~TwoFound(joined)
    BY <1>1, MergedIs DEF TwoFound
  <1>3. Ruled(p, rs, keep) = IF "distinct" \in rs /\ TwoFound(joined) THEN Declined(joined) ELSE joined BY DEF Ruled, drop
  <1> HIDE DEF joined
  <1>4. Answered(joined, Declined(joined)) BY <1>2, DeclinedIs
  <1> QED BY <1>2, <1>3, <1>4 DEF Answered

\* Of the items of a name there is a first one.
LEMMA FirstIs ==
    ASSUME NEW its \in SUBSET Item, NEW i \in its
    PROVE  First(its, i.of) \in its /\ First(its, i.of).of = i.of
  <1> DEFINE ids == {j.id : j \in {k \in its : k.of = i.of}}
  <1>1. ids \subseteq Nat /\ ids # {} BY DEF Item, Kept
  <1> HIDE DEF ids
  <1>2. PICK low \in ids : \A id \in ids : <<id, low>> \notin OpToRel(<, Nat)
    BY <1>1, NatLessThanWellFounded, WFMin
  <1>3. \A id \in ids : low <= id
    <2>1. ASSUME NEW id \in ids PROVE low <= id
      <3>1. id \in Nat /\ low \in Nat BY <1>1
      <3>2. ~(id < low) BY <1>2, <3>1 DEF OpToRel
      <3> QED BY <3>1, <3>2
    <2> QED BY <2>1
  <1>4. PICK j \in its : j.of = i.of /\ j.id = low BY <1>2 DEF ids
  <1>5. \A k \in its : k.of = i.of => j.id <= k.id BY <1>3, <1>4 DEF ids
  <1> QED BY <1>4, <1>5 DEF First

\* The parts of a project that its sort gives.
LEMMA ProjectIs ==
    ASSUME NEW p, p \in Project
    PROVE  /\ DOMAIN p.ents \subseteq Names /\ p.ents \in Maps(Names, SUBSET Names)
           /\ p.ents \in [DOMAIN p.ents -> SUBSET Names]
           /\ DOMAIN p.on \subseteq Text /\ p.on \in Maps(Text, Names)
           /\ p.on \in [DOMAIN p.on -> Names]
           /\ p.made \in [Names -> {0} \cup Kept]
           /\ p.hidden \in SUBSET Text /\ p.ask \in Ask
  <1>1. p.ents \in Maps(Names, SUBSET Names) /\ p.on \in Maps(Text, Names)
        /\ p.made \in [Names -> {0} \cup Kept] /\ p.hidden \in SUBSET Text /\ p.ask \in Ask BY DEF Project
  <1> QED BY <1>1, MapsAre

\* What is written by hand about the entities that are there is there.
PutOn(p, its, q) ==
    /\ \A t \in DOMAIN q.on : t \in DOMAIN p.on \/ \E i \in its : ByHand(i) = t
    /\ \A i \in its : i.kind = "section" /\ Known(q.ents, i.of) => ByHand(i) \in DOMAIN q.on

LEMMA WithItemsIs ==
    ASSUME NEW p, IsProject(p), NEW its \in SUBSET Item
    PROVE  LET q == WithItems(p, its)
           IN  /\ IsProject(q) /\ q.id = p.id /\ PutOn(p, its, q)
               /\ (Joined(p) => Joined(q)) /\ AddsNone(p, q)
  <1> DEFINE new == {i \in its : i.kind = "entity" /\ ~Carried(p.ents, i.of)}
             names == {i.of : i \in new}
             adds == [n \in names |-> {n}]
             ents == Union(p.ents, adds)
             shown == {i \in its : i.kind = "section" /\ Known(ents, i.of)}
             texts == {ByHand(i) : i \in shown}
             under(t) == CHOOSE s \in DOMAIN ents : \E i \in shown : i.id = t.item /\ Finds(ents, i.of, s)
             puts == [t \in texts |-> under(t)]
             made == [n \in Names |-> IF n \in names THEN First(new, n).id ELSE p.made[n]]
             on == Union(p.on, puts)
             q == Changed(p, ents, made, on, p.hidden, p.ask)
  <1>0. p \in Project BY DEF IsProject
  <1>1. WithItems(p, its) = q BY <1>0 DEF WithItems, Project, Changed
  <1>2. new \subseteq its /\ names \subseteq Names BY DEF Item
  <1>3. adds \in [names -> SUBSET Names] /\ DOMAIN adds = names BY <1>2
  <1>4. adds \in Maps(Names, SUBSET Names) BY <1>2, <1>3, MapsAre
  <1>5. \A s \in names : adds[s] = {s} OBVIOUS
  <1>6. \A n \in names : First(new, n).id \in Kept
    <2>1. ASSUME NEW i \in new PROVE First(new, i.of).id \in Kept
      <3>1. First(new, i.of) \in new BY <1>2, FirstIs
      <3> QED BY <3>1, <1>2 DEF Item
    <2> QED BY <2>1
  <1> HIDE DEF adds, names, new
  <1>7. /\ ents \in Maps(Names, SUBSET Names) /\ DOMAIN ents = DOMAIN p.ents \cup names
        /\ \A s \in DOMAIN p.ents : ents[s] = p.ents[s]
        /\ \A s \in names \ DOMAIN p.ents : ents[s] = {s}
    <2>1. p.ents \in Maps(Names, SUBSET Names) BY <1>0, ProjectIs
    <2>2. ents \in Maps(Names, SUBSET Names) /\ IsUnion(ents, p.ents, adds) BY <2>1, <1>4, UnionIs
    <2> HIDE DEF ents
    <2> QED BY <2>2, <1>3, <1>5 DEF IsUnion
  <1>8. \A s \in DOMAIN ents : s \in ents[s] BY <1>7 DEF IsProject
  <1> HIDE DEF ents
  <1>9. texts \subseteq Text
    <2>1. ASSUME NEW i \in shown PROVE ByHand(i) \in Text BY DEF ByHand, Text, Item
    <2> QED BY <2>1
  <1>10. \A t \in texts : under(t) \in DOMAIN ents
    <2>1. ASSUME NEW i \in shown PROVE under(ByHand(i)) \in DOMAIN ents
      <3>1. PICK s \in DOMAIN ents : Finds(ents, i.of, s) BY DEF Known
      <3>2. i.id = ByHand(i).item BY DEF ByHand
      <3> QED BY <3>1, <3>2
    <2> QED BY <2>1
  <1>11. \A i \in its : i.kind = "section" /\ Known(ents, i.of) => ByHand(i) \in texts OBVIOUS
  <1>12. \A t \in texts : \E i \in its : ByHand(i) = t OBVIOUS
  <1> HIDE DEF texts, under, shown
  <1>13. puts \in [texts -> Names] /\ DOMAIN puts = texts
    <2>1. DOMAIN ents \subseteq Names BY <1>7, MapsAre
    <2> QED BY <2>1, <1>10
  <1>14. puts \in Maps(Text, Names) BY <1>9, <1>13, MapsAre
  <1>15. \A t \in texts : puts[t] \in DOMAIN ents BY <1>10
  <1> HIDE DEF puts
  <1>16. /\ on \in Maps(Text, Names) /\ DOMAIN on = DOMAIN p.on \cup texts
         /\ \A t \in DOMAIN p.on : on[t] = p.on[t]
         /\ \A t \in texts \ DOMAIN p.on : on[t] = puts[t]
    <2>1. p.on \in Maps(Text, Names) BY <1>0, ProjectIs
    <2>2. on \in Maps(Text, Names) /\ IsUnion(on, p.on, puts) BY <2>1, <1>14, UnionIs
    <2> HIDE DEF on
    <2> QED BY <2>2, <1>13 DEF IsUnion
  <1> HIDE DEF on
  <1>17. \A t \in DOMAIN on : on[t] \in DOMAIN ents BY <1>16, <1>15, <1>7 DEF IsProject
  <1>18. made \in [Names -> {0} \cup Kept]
    <2>1. ASSUME NEW n \in Names PROVE (IF n \in names THEN First(new, n).id ELSE p.made[n]) \in {0} \cup Kept
      BY <1>0, <1>6, ProjectIs
    <2> QED BY <2>1
  <1>19. \A n \in names : made[n] # 0
    <2>1. ASSUME NEW n \in names PROVE made[n] # 0
      <3>1. made[n] = First(new, n).id BY <1>2
      <3>2. First(new, n).id \in Kept BY <1>6
      <3> QED BY <3>1, <3>2 DEF Kept
    <2> QED BY <2>1
  <1>20. \A n \in Names \ names : made[n] = p.made[n] OBVIOUS
  <1> HIDE DEF made, q
  <1>21. q \in Project /\ q.id = p.id /\ q.ents = ents /\ q.made = made /\ q.on = on /\ q.hidden = p.hidden
    <2>1. Fit(ents, made, on, p.hidden, p.ask) BY <1>0, <1>7, <1>16, <1>18, ProjectIs DEF Fit
    <2> QED BY <1>0, <2>1, ProjectWith DEF q
  <1>22. IsProject(q) BY <1>21, <1>8, <1>17, <1>16 DEF IsProject
  <1>23. PutOn(p, its, q) BY <1>21, <1>11, <1>12, <1>16 DEF PutOn
  <1>24. ASSUME Joined(p) PROVE Joined(q)
    <2>1. CASE \E n \in Names : p.made[n] # 0 BY <2>1, <1>19, <1>20, <1>21, <1>2 DEF Joined
    <2>2. CASE ~TwoFound(p)
      <3>1. CASE names = {}
        <4>1. p.ents \in [DOMAIN p.ents -> SUBSET Names] /\ ents \in [DOMAIN ents -> SUBSET Names]
          BY <1>0, <1>7, ProjectIs, MapsAre
        <4>2. ents = p.ents BY <3>1, <1>7, <4>1
        <4> QED BY <2>2, <4>2, <1>21, SameNames DEF Joined
      <3>2. CASE names # {} BY <3>2, <1>19, <1>21, <1>2 DEF Joined
      <3> QED BY <3>1, <3>2
    <2> QED BY <1>24, <2>1, <2>2 DEF Joined
  <1>25. AddsNone(p, q)
    <2>1. DOMAIN ents \subseteq Names BY <1>7, MapsAre
    <2> QED BY <2>1, <1>7, <1>19, <1>20, <1>21 DEF AddsNone
  <1> QED BY <1>1, <1>21, <1>22, <1>23, <1>24, <1>25

LEMMA WithoutIs ==
    ASSUME NEW p, IsProject(p), NEW ids
    PROVE  LET q == Without(p, ids)
           IN  /\ IsProject(q) /\ q.id = p.id
               /\ \A t \in DOMAIN q.on : t \in DOMAIN p.on /\ t.item \notin ids
               /\ (Joined(p) => Joined(q)) /\ AddsNone(p, q)
  <1> DEFINE of == {s \in Names : p.made[s] \notin ids}
             ents == Only(p.ents, of)
             texts == {t \in DOMAIN p.on : t.item \notin ids /\ p.on[t] \in DOMAIN ents}
             on == Only(p.on, texts)
             made == [n \in Names |-> IF n \in DOMAIN ents THEN p.made[n] ELSE 0]
             hidden == p.hidden \cap texts
             q == Changed(p, ents, made, on, hidden, p.ask)
  <1>0. p \in Project BY DEF IsProject
  <1>1. Without(p, ids) = q BY <1>0 DEF Without, Project, Changed
  <1>2. /\ ents \in Maps(Names, SUBSET Names) /\ DOMAIN ents = DOMAIN p.ents \cap of
        /\ \A s \in DOMAIN p.ents \cap of : ents[s] = p.ents[s]
    <2>1. p.ents \in Maps(Names, SUBSET Names) BY <1>0, ProjectIs
    <2> HIDE DEF of
    <2>2. ents \in Maps(Names, SUBSET Names) /\ IsPart(ents, p.ents, of) BY <2>1, OnlyIs
    <2> QED BY <2>2 DEF IsPart
  <1> HIDE DEF ents
  <1>3. texts \subseteq DOMAIN p.on /\ hidden \subseteq texts OBVIOUS
  <1>4. /\ on \in Maps(Text, Names) /\ DOMAIN on = DOMAIN p.on \cap texts
        /\ \A t \in DOMAIN p.on \cap texts : on[t] = p.on[t]
    <2>1. p.on \in Maps(Text, Names) BY <1>0, ProjectIs
    <2> HIDE DEF texts
    <2>2. on \in Maps(Text, Names) /\ IsPart(on, p.on, texts) BY <2>1, OnlyIs
    <2> QED BY <2>2 DEF IsPart
  <1> HIDE DEF on
  <1>5. \A t \in DOMAIN on : on[t] \in DOMAIN ents /\ t \in DOMAIN p.on /\ t.item \notin ids BY <1>4
  <1>6. made \in [Names -> {0} \cup Kept] BY <1>0, ProjectIs
  <1>7. hidden \in SUBSET Text BY <1>0, ProjectIs
  <1>8. \A n \in Names : n \in DOMAIN ents => made[n] = p.made[n] OBVIOUS
  <1> HIDE DEF made, q, hidden
  <1>9. q \in Project /\ q.id = p.id /\ q.ents = ents /\ q.made = made /\ q.on = on /\ q.hidden = hidden
    <2>1. Fit(ents, made, on, hidden, p.ask) BY <1>0, <1>2, <1>4, <1>6, <1>7, ProjectIs DEF Fit
    <2> QED BY <1>0, <2>1, ProjectWith DEF q
  <1>10. IsProject(q) BY <1>9, <1>2, <1>3, <1>4, <1>5 DEF IsProject
  <1>11. ASSUME Joined(p), TwoFound(q) PROVE \E n \in Names : q.made[n] # 0
    <2>1. DOMAIN ents = Names BY <1>9, <1>11 DEF TwoFound, Apart
    <2>2. DOMAIN p.ents = Names BY <2>1, <1>2, <1>0, ProjectIs
    <2>3. p.ents \in [DOMAIN p.ents -> SUBSET Names] /\ ents \in [DOMAIN ents -> SUBSET Names]
      BY <1>0, <1>2, ProjectIs, MapsAre
    <2>4. ents = p.ents BY <1>2, <2>1, <2>2, <2>3
    <2>5. TwoFound(p) BY <1>9, <1>11, <2>4, SameNames
    <2>6. PICK n \in Names : p.made[n] # 0 BY <2>5, <1>11 DEF Joined
    <2> QED BY <2>1, <2>6, <1>8, <1>9
  <1>12. Joined(p) => Joined(q) BY <1>11 DEF Joined
  <1>13. AddsNone(p, q)
    <2>1. DOMAIN ents \subseteq Names BY <1>2, MapsAre
    <2> QED BY <2>1, <1>2, <1>8, <1>9 DEF AddsNone
  <1> QED BY <1>1, <1>5, <1>9, <1>10, <1>12, <1>13

-----------------------------------------------------------------------------
(* Wiki: what a generation writes, and the project an import makes of it.      *)

LEMMA BundleIs ==
    ASSUME NEW b, b \in Bundle
    PROVE  /\ DOMAIN b.ents \subseteq Names /\ b.ents \in [DOMAIN b.ents -> SUBSET Names]
           /\ b.ents \in Maps(Names, SUBSET Names)
           /\ b.writes \in [DOMAIN b.writes -> SUBSET Keys]
  <1>1. b.ents \in Maps(Names, SUBSET Names) /\ b.writes \in Maps(Names, SUBSET Keys) BY DEF Bundle
  <1> QED BY <1>1, MapsAre

LEMMA BundleOfIs ==
    ASSUME NEW f \in Findings, NEW rs, NEW name \in Names
    PROVE  IsBundle(BundleOf(f, rs, name))
  <1> DEFINE joins == rs = {"same"} /\ DOMAIN f.ents = Names
             ents == IF joins THEN [s \in {name} |-> Names] ELSE f.ents
             writes == IF joins THEN [s \in {name} |-> UNION {f.writes[n] : n \in Names}] ELSE f.writes
             asks == f.suggests /\ rs = {} /\ DOMAIN f.ents = Names
             b == [ents |-> ents, writes |-> writes, suggests |-> asks, update |-> f.update]
  <1>1. f \in Bundle /\ DOMAIN f.writes = DOMAIN f.ents /\ \A s \in DOMAIN f.ents : s \in f.ents[s]
    BY WikiAssumption DEF IsFinding
  <1>2. f.writes \in [DOMAIN f.ents -> SUBSET Keys] BY <1>1, BundleIs
  <1>3. ents \in Maps(Names, SUBSET Names) /\ \A s \in DOMAIN ents : s \in ents[s]
    <2>1. CASE joins
      <3>1. ents = [s \in {name} |-> Names] BY <2>1
      <3>2. DOMAIN ents = {name} /\ ents \in [{name} -> SUBSET Names] /\ ents[name] = Names BY <3>1
      <3> QED BY <3>2, MapsAre
    <2>2. CASE ~joins BY <2>2, <1>1, BundleIs
    <2> QED BY <2>1, <2>2
  <1>4. writes \in Maps(Names, SUBSET Keys) /\ DOMAIN writes = DOMAIN ents
    <2>1. CASE joins
      <3>1. writes = [s \in {name} |-> UNION {f.writes[n] : n \in Names}] BY <2>1
      <3>2. UNION {f.writes[n] : n \in Names} \in SUBSET Keys BY <2>1, <1>2
      <3>3. DOMAIN writes = {name} /\ writes \in [{name} -> SUBSET Keys] BY <3>1, <3>2
      <3> QED BY <3>3, <2>1, MapsAre
    <2>2. CASE ~joins BY <2>2, <1>1 DEF Bundle
    <2> QED BY <2>1, <2>2
  <1>5. asks \in BOOLEAN /\ f.update \in BOOLEAN BY <1>1 DEF Bundle
  <1>6. BundleOf(f, rs, name) = b BY DEF BundleOf
  <1> HIDE DEF ents, writes, asks
  <1> QED BY <1>3, <1>4, <1>5, <1>6 DEF IsBundle, Bundle

Generated(p) == \A t \in DOMAIN p.on : t.item = 0

LEMMA ImportedIs ==
    ASSUME NEW b, IsBundle(b), bundles \in Nat, NEW old, NEW had, NEW hidden, NEW declined
    PROVE  LET p == Imported(b, old, had, hidden, declined)
           IN  IsProject(p) /\ Generated(p) /\ p.id = bundles
  <1> DEFINE all == {[who |-> b.ents[s], key |-> k, item |-> 0] : s \in DOMAIN b.ents, k \in Keys}
             on == [t \in all |-> CHOOSE s \in DOMAIN b.ents : b.ents[s] = t.who]
             texts == {t \in DOMAIN on : t.key \in b.writes[on[t]]}
             added(s) == b.writes[s] \ (IF s \in DOMAIN had THEN had[s] ELSE {})
             kept == {t \in texts : <<on[t], t>> \in hidden}
             made == [n \in Names |-> 0]
             ask == IF ~b.suggests THEN "none" ELSE IF declined THEN "declined" ELSE "open"
             changes == IF old = 0 THEN {} ELSE {[slug |-> s, added |-> added(s)] : s \in {x \in DOMAIN b.ents : added(x) # {}}}
             p == [id |-> bundles, ents |-> b.ents, made |-> made, on |-> Only(on, texts), hidden |-> kept,
                   ask |-> ask, changes |-> changes, review |-> FALSE]
  <1>0. Imported(b, old, had, hidden, declined) = p BY DEF Imported
  <1>1. b \in Bundle /\ DOMAIN b.writes = DOMAIN b.ents /\ \A s \in DOMAIN b.ents : s \in b.ents[s] BY DEF IsBundle
  <1>2. /\ DOMAIN b.ents \subseteq Names /\ b.ents \in [DOMAIN b.ents -> SUBSET Names]
        /\ b.ents \in Maps(Names, SUBSET Names) /\ b.writes \in [DOMAIN b.ents -> SUBSET Keys]
    BY <1>1, BundleIs
  <1>3. all \subseteq Text /\ \A t \in all : t.item = 0
    <2>1. ASSUME NEW s \in DOMAIN b.ents, NEW k \in Keys
          PROVE  [who |-> b.ents[s], key |-> k, item |-> 0] \in Text
      <3>1. PICK who : who = b.ents[s] OBVIOUS
      <3>2. who \in (SUBSET Names) \ {{}} BY <1>1, <1>2, <3>1
      <3> QED BY <3>1, <3>2 DEF Text
    <2> QED BY <2>1
  <1>4. \A t \in all : \E s \in DOMAIN b.ents : b.ents[s] = t.who OBVIOUS
  <1>5. on \in [all -> DOMAIN b.ents] /\ DOMAIN on = all BY <1>4
  <1> HIDE DEF all, on
  <1>6. on \in [all -> Names] BY <1>2, <1>5
  <1>7. on \in Maps(Text, Names) BY <1>3, <1>5, <1>6, MapsAre
  <1>8. Only(on, texts) \in Maps(Text, Names) /\ IsPart(Only(on, texts), on, texts)
    <2> HIDE DEF texts
    <2> QED BY <1>7, OnlyIs
  <1>9. kept \subseteq texts /\ texts \subseteq all BY <1>5
  <1>10. changes \in SUBSET Change
    <2>1. \A s \in DOMAIN b.ents : s \in Names /\ added(s) \in SUBSET Keys BY <1>2
    <2> QED BY <2>1 DEF Change
  <1>11. made \in [Names -> {0} \cup Kept] /\ ask \in Ask BY DEF Ask
  <1>12. kept \in SUBSET Text BY <1>9, <1>3
  <1> HIDE DEF changes, made, ask, kept, texts
  <1>13. p \in Project BY <1>2, <1>8, <1>10, <1>11, <1>12 DEF Project
  <1>14. p.ents = b.ents /\ p.on = Only(on, texts) /\ p.hidden = kept /\ p.id = bundles OBVIOUS
  <1> HIDE DEF p
  <1>15. DOMAIN p.on = all \cap texts /\ \A t \in DOMAIN p.on : p.on[t] = on[t] BY <1>5, <1>8, <1>14 DEF IsPart
  <1>16. IsProject(p) BY <1>1, <1>5, <1>9, <1>13, <1>14, <1>15 DEF IsProject
  <1> QED BY <1>0, <1>3, <1>14, <1>15, <1>16 DEF Generated

\* The project an import stores: joined as the rules say, and with what is written by hand.
AsDecided(q, id, rs, its) ==
    /\ IsProject(q) /\ q.id = id
    /\ "same" \in rs => Joined(q)
    /\ \A i \in its : i.kind = "section" /\ Known(q.ents, i.of) => ByHand(i) \in DOMAIN q.on

LEMMA DecidedIs ==
    ASSUME NEW p, IsProject(p), Generated(p), NEW rs, NEW its \in SUBSET Item, NEW keep \in Names
    PROVE  AsDecided(Decided(p, rs, its, keep), p.id, rs, its)
  <1>1. PICK r : r = Ruled(p, rs, keep) OBVIOUS
  <1>2. IsProject(r) /\ r.id = p.id /\ ("same" \in rs => ~TwoFound(r)) BY <1>1, RuledIs
  <1>3. PICK q : q = WithItems(r, its) OBVIOUS
  <1>4. IsProject(q) /\ q.id = r.id /\ PutOn(r, its, q) /\ (Joined(r) => Joined(q)) BY <1>2, <1>3, WithItemsIs
  <1>5. Decided(p, rs, its, keep) = q BY <1>1, <1>3 DEF Decided
  <1>6. "same" \in rs => Joined(q) BY <1>2, <1>4 DEF Joined
  <1> QED BY <1>2, <1>4, <1>5, <1>6 DEF PutOn, AsDecided

-----------------------------------------------------------------------------
(* Wiki: the inductive invariant.  To what TLC checks it adds the imports and  *)
(* the decision: one import at a time reads or writes, it knows the project it *)
(* replaces, and a rule that joins is among those it read, for as long as it   *)
(* is kept, unless it was saved too late; what was an entity of the books when *)
(* a decision read it is still that entity, or none.                           *)

Importers == {Runs, Upload}
Applying(i) == i.pc \in {"read", "applied"}

IsImport(i) ==
    /\ i = [pc |-> i.pc, bundle |-> i.bundle, old |-> i.old, had |-> i.had, hidden |-> i.hidden,
            declined |-> i.declined, rules |-> i.rules, items |-> i.items]
    /\ i.pc \in {"idle", "read", "applied", "stored", "marked"}
    /\ i.rules \subseteq {"same", "distinct"} /\ i.items \subseteq Item
    /\ Applying(i) => IsBundle(i.bundle)
    /\ i.pc = "stored" => i.old # 0

ImportFits(m) ==
    /\ IsImport(imp[m])
    /\ Applying(imp[m]) => imp[m].old = OldId /\ OldId < bundles
    /\ imp[m].pc = "applied" /\ "same" \in rules /\ late < bundles => "same" \in imp[m].rules

ImportsFit ==
    /\ DOMAIN imp = Importers /\ \A m \in Importers : ImportFits(m)
    /\ \A m, n \in Importers : Applying(imp[m]) /\ Applying(imp[n]) => m = n

ItemsFit ==
    /\ items \subseteq Item /\ \A i, j \in items : i.id = j.id => i = j
    /\ written \in Nat /\ \A i \in items : i.id <= written

WorkFits ==
    /\ There => IsProject(project)
    /\ rules \subseteq {"same", "distinct"}
    /\ SameIsOne /\ NothingOfADeletedItem

GenFits ==
    /\ gen.pc \in {"idle", "writing"} /\ gen.rules \subseteq {"same", "distinct"}
    /\ bundle # NoBundle => IsBundle(bundle)
    /\ bundles \in Nat /\ late \in Nat

DecisionFits ==
    /\ There => project.id # 0 /\ project.id <= bundles
    /\ deciding.kind \in {"none", "same", "distinct"}
    /\ deciding.id \in Nat /\ deciding.id <= bundles /\ (Importing => deciding.id < bundles)
    /\ deciding.kind # "none" => deciding.id # 0
    /\ deciding.kind # "none" /\ SameProject =>
          \A n \in DOMAIN project.ents : project.made[n] = 0 => deciding.made[n] = 0

WikiInv == WorkFits /\ ItemsFit /\ GenFits /\ ImportsFit /\ DecisionFits

\* A project is never the sign that there is none.
LEMMA ProjectIsThere == ASSUME NEW p, IsProject(p) PROVE p # NoProject
  BY WikiAssumption DEF IsProject

IdOf(p) == IF p = NoProject THEN 0 ELSE p.id

LEMMA IdIs ==
    ASSUME WikiInv
    PROVE  /\ OldId = IdOf(project) /\ OldId \in Nat /\ OldId <= bundles /\ bundles \in Nat
           /\ OldId # 0 => There
  BY DEF WikiInv, WorkFits, GenFits, DecisionFits, OldId, IdOf, There, IsProject, Project

LEMMA ImportingIs == Importing <=> \E m \in Importers : Applying(imp[m])
  BY DEF Importing, Importers, Applying

\* Imports are right after a step that leaves them alone ...
LEMMA ImportsStay ==
    ASSUME ImportsFit, imp' = imp, bundles' = bundles,
           IdOf(project') = IdOf(project) \/ ~Importing,
           \/ late' = late /\ ("same" \in rules' => "same" \in rules)
           \/ \A m \in Importers : imp[m].pc # "applied"
           \/ late' = bundles /\ bundles \in Nat
    PROVE  ImportsFit'
  <1>1. ASSUME NEW m \in Importers PROVE ImportFits(m)'
    <2>1. ImportFits(m) BY DEF ImportsFit
    <2>2. Applying(imp[m]) => IdOf(project') = IdOf(project) BY ImportingIs
    <2>3. Applying(imp'[m]) => imp'[m].old = OldId' /\ OldId' < bundles' BY <2>1, <2>2 DEF ImportFits, OldId, IdOf
    <2>4. imp'[m].pc = "applied" /\ "same" \in rules' /\ late' < bundles' => "same" \in imp'[m].rules
      BY <2>1 DEF ImportFits
    <2> QED BY <2>1, <2>3, <2>4 DEF ImportFits
  <1> QED BY <1>1 DEF ImportsFit

\* ... and after one importer's step, when nothing that concerns the other one changed.
LEMMA ImportChanges ==
    ASSUME ImportsFit, NEW m \in Importers, NEW new, SetImport(m, new), IsImport(new), rules' = rules, late' = late,
           Applying(new) => /\ new.old = IdOf(project') /\ IdOf(project') < bundles'
                            /\ ~Importing \/ Applying(imp[m]),
           new.pc = "applied" /\ "same" \in rules => "same" \in new.rules,
           (IdOf(project') = IdOf(project) /\ bundles' = bundles) \/ \A n \in Importers \ {m} : ~Applying(imp[n])
    PROVE  ImportsFit' /\ (Importing' => Importing \/ Applying(new))
  <1>1. DOMAIN imp' = Importers /\ imp'[m] = new /\ \A n \in Importers \ {m} : imp'[n] = imp[n]
    BY DEF ImportsFit, SetImport
  <1>2. ASSUME NEW n \in Importers PROVE ImportFits(n)'
    <2>1. CASE n = m BY <2>1, <1>1 DEF ImportFits, OldId, IdOf
    <2>2. CASE n # m
      <3>1. ImportFits(n) /\ imp'[n] = imp[n] BY <2>2, <1>1 DEF ImportsFit
      <3>2. Applying(imp[n]) => IdOf(project') = IdOf(project) /\ bundles' = bundles BY <2>2
      <3> QED BY <3>1, <3>2 DEF ImportFits, OldId, IdOf, Applying
    <2> QED BY <2>1, <2>2
  <1>3. ASSUME NEW n \in Importers, NEW o \in Importers, Applying(imp'[n]), Applying(imp'[o]) PROVE n = o
    <2>1. \A x, y \in Importers : Applying(imp[x]) /\ Applying(imp[y]) => x = y BY DEF ImportsFit
    <2>3. CASE n = m /\ o # m BY <2>1, <2>3, <1>1, <1>3, ImportingIs
    <2>4. CASE o = m /\ n # m BY <2>1, <2>4, <1>1, <1>3, ImportingIs
    <2>5. CASE n # m /\ o # m BY <2>1, <2>5, <1>1, <1>3
    <2> QED BY <2>3, <2>4, <2>5
  <1>4. Importing' => Importing \/ Applying(new)
    <2>1. Importing' => \E n \in Importers : Applying(imp'[n]) BY DEF Importing, Importers, Applying
    <2> QED BY <2>1, <1>1, ImportingIs
  <1> QED BY <1>1, <1>2, <1>3, <1>4 DEF ImportsFit

\* A decision that is being taken is right after a step that begins no other import, and
\* brings no entity of the books to the project.
LEMMA DecisionStays ==
    ASSUME WikiInv, bundles' = bundles, deciding' = deciding \/ deciding' = NoDecision, Importing' => Importing,
           There' => There /\ project'.id = project.id /\ AddsNone(project, project')
    PROVE  DecisionFits'
  <1>1. bundles \in Nat BY IdIs
  <1>2. There' => project'.id # 0 /\ project'.id <= bundles' BY DEF WikiInv, DecisionFits
  <1>3. CASE deciding' = NoDecision
    <2>1. deciding'.kind = "none" /\ deciding'.id = 0 BY <1>3 DEF NoDecision
    <2>2. Importing => 0 < bundles BY <1>1 DEF WikiInv, DecisionFits
    <2> QED BY <1>1, <1>2, <2>1, <2>2 DEF DecisionFits
  <1>4. CASE deciding' = deciding
    <2>1. ASSUME deciding.kind # "none", SameProject', NEW n \in DOMAIN project'.ents, project'.made[n] = 0
          PROVE  deciding.made[n] = 0
      <3>1. deciding.id # 0 /\ OldId' = deciding.id BY <2>1, <1>4 DEF WikiInv, DecisionFits, SameProject
      <3>2. There' BY <3>1 DEF OldId, There
      <3>3. OldId = deciding.id BY <3>1, <3>2 DEF OldId, There
      <3>4. n \in DOMAIN project.ents /\ project.made[n] = 0 BY <2>1, <3>2 DEF AddsNone
      <3> QED BY <2>1, <3>3, <3>4 DEF WikiInv, DecisionFits, SameProject
    <2> QED BY <1>2, <1>4, <2>1 DEF WikiInv, DecisionFits
  <1> QED BY <1>3, <1>4

\* The work is right when the project that is left fits the rules and the items.
LEMMA WorkMoves ==
    ASSUME IsProject(project'), rules' \subseteq {"same", "distinct"},
           "same" \in rules' /\ project'.id > late' => Joined(project'),
           \A t \in DOMAIN project'.on : t.item # 0 => t.item \in Ids(items')
    PROVE  WorkFits'
  BY DEF WorkFits, SameIsOne, NothingOfADeletedItem, Joined, There

LEMMA WorkIs ==
    ASSUME WorkFits, There
    PROVE  /\ IsProject(project) /\ rules \subseteq {"same", "distinct"}
           /\ "same" \in rules /\ project.id > late => Joined(project)
           /\ \A t \in DOMAIN project.on : t.item # 0 => t.item \in Ids(items)
  BY DEF WorkFits, SameIsOne, NothingOfADeletedItem, Joined

\* What is left alone is right.
LEMMA WorkSame ==
    ASSUME WorkFits, UNCHANGED <<project, items, late>>, rules' \subseteq rules
    PROVE  WorkFits'
  BY DEF WorkFits, SameIsOne, NothingOfADeletedItem, TwoFound, Apart, There

-----------------------------------------------------------------------------
(* Wiki: the staff.                                                            *)

\* Nobody stores a wiki while the staff changes one.
LEMMA FreeIs == Free => There /\ \A m \in Importers : imp[m].pc # "applied"
  BY DEF Free, Importers

LEMMA UnlockedIs == Unlocked => There /\ ~Importing /\ \A m \in Importers : imp[m].pc # "applied"
  BY DEF Unlocked, Importing, Importers

\* What a step of the staff keeps; it stores no wiki.
StaffKeeps ==
    /\ WorkFits' /\ ItemsFit' /\ ImportsFit' /\ DecisionFits'
    /\ IdOf(project') = IdOf(project) \/ ~Importing

\* A step that changes what hangs from the project.
LEMMA ProjectMoves ==
    ASSUME WikiInv, There, IsProject(project'), project'.id = project.id, AddsNone(project, project'),
           Joined(project) => Joined(project'), rules' = rules, imp' = imp, bundles' = bundles, late' = late,
           deciding' = deciding, ItemsFit', \A t \in DOMAIN project'.on : t.item # 0 => t.item \in Ids(items')
    PROVE  StaffKeeps
  <1>1. WorkFits' BY WorkIs, WorkMoves DEF WikiInv
  <1>2. IdOf(project') = IdOf(project) BY ProjectIsThere DEF IdOf, There
  <1>3. ImportsFit' BY <1>2, ImportsStay DEF WikiInv
  <1>4. Importing' => Importing BY DEF Importing
  <1>5. DecisionFits' BY <1>4, DecisionStays
  <1> QED BY <1>1, <1>2, <1>3, <1>5 DEF StaffKeeps

\* What is hidden and what is looked at does not touch the rest.
SameBut(p, hidden, review) == [p EXCEPT !.hidden = hidden, !.review = review]

LEMMA SameButIs ==
    ASSUME NEW p, IsProject(p), NEW hidden, hidden \subseteq DOMAIN p.on, NEW review \in BOOLEAN
    PROVE  LET q == SameBut(p, hidden, review)
           IN  IsProject(q) /\ q.id = p.id /\ q.ents = p.ents /\ q.made = p.made /\ q.on = p.on
  <1>1. p \in Project /\ DOMAIN p.on \subseteq Text BY ProjectIs DEF IsProject
  <1>2. PICK q : q = SameBut(p, hidden, review) OBVIOUS
  <1>3. /\ q \in Project /\ q.id = p.id /\ q.ents = p.ents /\ q.made = p.made /\ q.on = p.on
        /\ q.hidden = hidden
    BY <1>1, <1>2 DEF SameBut, Project
  <1>4. IsProject(q) BY <1>3 DEF IsProject
  <1> QED BY <1>2, <1>3, <1>4

LEMMA SameButStep ==
    ASSUME WikiInv, There, NEW hidden, hidden \subseteq DOMAIN project.on, NEW review \in BOOLEAN,
           project' = SameBut(project, hidden, review),
           UNCHANGED <<rules, items, imp, deciding, late, bundles, written>>
    PROVE  StaffKeeps
  <1>1. /\ IsProject(project') /\ project'.id = project.id /\ project'.ents = project.ents
        /\ project'.made = project.made /\ project'.on = project.on
    BY WorkIs, SameButIs DEF WikiInv
  <1>2. Joined(project') <=> Joined(project) BY <1>1, SameNames DEF Joined
  <1>3. AddsNone(project, project') BY <1>1 DEF AddsNone
  <1>4. ItemsFit' BY DEF WikiInv, ItemsFit
  <1>5. \A t \in DOMAIN project'.on : t.item # 0 => t.item \in Ids(items') BY <1>1, WorkIs DEF WikiInv
  <1> QED BY <1>1, <1>2, <1>3, <1>4, <1>5, ProjectMoves

LEMMA HideStep ==
    ASSUME WikiInv, There, NEW t \in DOMAIN project.on, Hide(t)
    PROVE  StaffKeeps
  <1>1. IsProject(project) BY WorkIs DEF WikiInv
  <1>2. PICK hidden : /\ hidden \subseteq DOMAIN project.on
                      /\ project' = [project EXCEPT !.hidden = hidden]
    BY <1>1 DEF Hide, SetProject, IsProject
  <1>3. project.review \in BOOLEAN /\ project' = SameBut(project, hidden, project.review)
    BY <1>1, <1>2 DEF SameBut, IsProject, Project
  <1> QED BY <1>2, <1>3, SameButStep DEF Hide

LEMMA ApproveStep ==
    ASSUME WikiInv, Approve
    PROVE  StaffKeeps
  <1>0. There BY DEF Approve, Unlocked
  <1>1. IsProject(project) BY <1>0, WorkIs DEF WikiInv
  <1>2. project' = SameBut(project, project.hidden, FALSE)
    BY <1>1 DEF Approve, SetProject, SameBut, IsProject, Project
  <1>3. project.hidden \subseteq DOMAIN project.on /\ FALSE \in BOOLEAN BY <1>1 DEF IsProject
  <1> QED BY <1>0, <1>2, <1>3, SameButStep DEF Approve

LEMMA UndoStep ==
    ASSUME WikiInv, There, NEW c \in project.changes, Undo(c)
    PROVE  StaffKeeps
  <1>1. IsProject(project) BY WorkIs DEF WikiInv
  <1>2. PICK hidden : /\ hidden \subseteq DOMAIN project.on
                      /\ project' = [project EXCEPT !.hidden = hidden]
    BY <1>1 DEF Undo, SetProject, IsProject
  <1>3. project.review \in BOOLEAN /\ project' = SameBut(project, hidden, project.review)
    BY <1>1, <1>2 DEF SameBut, IsProject, Project
  <1> QED BY <1>2, <1>3, SameButStep DEF Undo

LEMMA ConsidersStep ==
    ASSUME WikiInv, NEW kind \in {"same", "distinct"}, Considers(kind)
    PROVE  StaffKeeps
  <1>1. /\ There /\ deciding' = [kind |-> kind, id |-> project.id, made |-> project.made]
        /\ UNCHANGED <<project, rules, items, imp, late, bundles, written>>
    BY DEF Considers
  <1>2. WorkFits' /\ ItemsFit' BY <1>1, WorkSame DEF WikiInv, ItemsFit
  <1>3. ImportsFit' BY <1>1, ImportsStay DEF WikiInv
  <1>4. Importing => project.id < bundles
    BY <1>1, ImportingIs DEF WikiInv, ImportsFit, ImportFits, OldId, There
  <1>5. OldId = project.id BY <1>1 DEF OldId, There
  <1>6. DecisionFits' BY <1>1, <1>4, <1>5, IdIs DEF WikiInv, DecisionFits, There, SameProject, Importing
  <1> QED BY <1>1, <1>2, <1>3, <1>6 DEF StaffKeeps

\* The two entities are joined, or one of them is not there any more and the other one is
\* written by hand.
LEMMA JoinsIs ==
    ASSUME WikiInv, There, deciding.kind = "same", SameProject, NEW keep \in Names, NEW drop \in Names, Joins(keep, drop)
    PROVE  /\ IsProject(project') /\ project'.id = project.id /\ Joined(project') /\ AddsNone(project, project')
           /\ DOMAIN project'.on \subseteq DOMAIN project.on
  <1>1. IsProject(project) BY WorkIs DEF WikiInv
  <1>2. CASE SameEntity(drop)
    <2>1. /\ project' = Merged(project, keep, drop) /\ keep # drop
          /\ keep \in DOMAIN project.ents /\ drop \in DOMAIN project.ents
      BY <1>2 DEF Joins, SetProject, SameEntity
    <2>2. \A n \in Names : n = keep \/ n = drop BY <2>1, WikiAssumption
    <2>3. Apart(project) BY <1>1, <2>1, <2>2, ProjectIs DEF Apart, IsProject
    <2> QED BY <1>1, <2>1, <2>3, MergedIs DEF Joined, TwoFound
  <1>3. CASE ~SameEntity(drop)
    <2>1. project' = Accepted(project) BY <1>3 DEF Joins, SetProject
    <2>2. /\ IsProject(project') /\ project'.id = project.id /\ project'.ents = project.ents
          /\ project'.made = project.made /\ project'.on = project.on /\ (TwoFound(project') <=> TwoFound(project))
      BY <1>1, <2>1, AcceptedIs DEF Answered
    <2>3. drop \notin DOMAIN project.ents \/ project.made[drop] # deciding.made[drop] BY <1>3 DEF SameEntity
    <2>4. CASE drop \notin DOMAIN project.ents BY <2>4, <2>2 DEF Joined, TwoFound, Apart, AddsNone
    <2>5. CASE drop \in DOMAIN project.ents
      <3>1. CASE project.made[drop] = 0
        <4>1. deciding.made[drop] = 0 BY <2>5, <3>1 DEF WikiInv, DecisionFits
        <4> QED BY <2>3, <2>5, <3>1, <4>1
      <3>2. CASE project.made[drop] # 0 BY <3>2, <2>2 DEF Joined, AddsNone
      <3> QED BY <3>1, <3>2
    <2> QED BY <2>4, <2>5
  <1> QED BY <1>2, <1>3

LEMMA DecideSameStep ==
    ASSUME WikiInv, DecideSame
    PROVE  StaffKeeps
  <1>1. /\ deciding.kind = "same" /\ rules' = rules \cup {"same"} /\ deciding' = NoDecision
        /\ UNCHANGED <<items, imp, bundles, written>>
    BY DEF DecideSame
  <1>2. rules' \subseteq {"same", "distinct"} BY <1>1 DEF WikiInv, WorkFits
  <1>3. ItemsFit' /\ (Importing' => Importing) BY <1>1 DEF WikiInv, ItemsFit, Importing
  <1>4. CASE SameProject /\ Free /\ late' = late /\ \E keep, drop \in Names : Joins(keep, drop)
    <2>1. There /\ \A m \in Importers : imp[m].pc # "applied" BY <1>4, FreeIs
    <2>2. PICK keep \in Names, drop \in Names : Joins(keep, drop) BY <1>4
    <2>3. /\ IsProject(project') /\ project'.id = project.id /\ Joined(project') /\ AddsNone(project, project')
          /\ DOMAIN project'.on \subseteq DOMAIN project.on
      BY <1>1, <1>4, <2>1, <2>2, JoinsIs
    <2>4. \A t \in DOMAIN project'.on : t.item # 0 => t.item \in Ids(items') BY <1>1, <2>1, <2>3, WorkIs DEF WikiInv
    <2>5. WorkFits' BY <1>2, <2>3, <2>4, WorkMoves
    <2>6. IdOf(project') = IdOf(project) BY <2>1, <2>3, ProjectIsThere DEF IdOf, There
    <2>7. ImportsFit' BY <1>1, <2>1, <2>6, ImportsStay DEF WikiInv
    <2>8. DecisionFits' BY <1>1, <1>3, <2>1, <2>3, DecisionStays
    <2> QED BY <1>3, <2>5, <2>6, <2>7, <2>8 DEF StaffKeeps
  <1>5. CASE ~SameProject /\ late' = NewestProject /\ SetProject(project)
    <2>1. project' = project BY <1>5 DEF SetProject
    <2>2. OldId \in Nat /\ OldId <= bundles /\ bundles \in Nat BY IdIs
    <2>3. IF \A m \in Importers : imp[m].pc # "applied" THEN late' = OldId ELSE late' = bundles
      BY <1>5 DEF NewestProject, Importers
    <2>4. There => ~(project'.id > late') BY <2>1, <2>2, <2>3 DEF OldId, There
    <2>5. WorkFits'
      <3>1. CASE There
        <4>1. IsProject(project) /\ \A t \in DOMAIN project.on : t.item # 0 => t.item \in Ids(items)
          BY <3>1, WorkIs DEF WikiInv
        <4> QED BY <1>1, <1>2, <2>1, <2>4, <3>1, <4>1, WorkMoves
      <3>2. CASE ~There BY <1>2, <2>1, <3>2 DEF WorkFits, SameIsOne, NothingOfADeletedItem, There
      <3> QED BY <3>1, <3>2
    <2>6. ImportsFit' BY <1>1, <2>1, <2>2, <2>3, ImportsStay DEF WikiInv
    <2>7. DecisionFits' BY <1>1, <1>3, <2>1, DecisionStays DEF There, AddsNone
    <2> QED BY <1>3, <2>1, <2>5, <2>6, <2>7 DEF StaffKeeps
  <1> QED BY <1>4, <1>5 DEF DecideSame

LEMMA DecideDistinctStep ==
    ASSUME WikiInv, DecideDistinct
    PROVE  StaffKeeps
  <1>1. /\ deciding.kind = "distinct" /\ rules' = rules \cup {"distinct"} /\ deciding' = NoDecision
        /\ project' = (IF SameProject THEN Declined(project) ELSE project)
        /\ UNCHANGED <<items, imp, late, bundles, written>>
    BY DEF DecideDistinct, SetProject
  <1>2. rules' \subseteq {"same", "distinct"} /\ ("same" \in rules' => "same" \in rules) BY <1>1 DEF WikiInv, WorkFits
  <1>3. ItemsFit' /\ (Importing' => Importing) BY <1>1 DEF WikiInv, ItemsFit, Importing
  <1>4. CASE There
    <2>1. IsProject(project) BY <1>4, WorkIs DEF WikiInv
    <2>2. /\ IsProject(project') /\ project'.id = project.id /\ project'.ents = project.ents
          /\ project'.made = project.made /\ project'.on = project.on
      BY <1>1, <2>1, DeclinedIs DEF Answered
    <2>3. Joined(project') <=> Joined(project) BY <2>2, SameNames DEF Joined
    <2>4. \A t \in DOMAIN project'.on : t.item # 0 => t.item \in Ids(items') BY <1>1, <1>4, <2>2, WorkIs DEF WikiInv
    <2>5. WorkFits' BY <1>1, <1>2, <1>4, <2>2, <2>3, <2>4, WorkIs, WorkMoves DEF WikiInv
    <2>6. IdOf(project') = IdOf(project) BY <1>4, <2>2, ProjectIsThere DEF IdOf, There
    <2>7. ImportsFit' BY <1>1, <1>2, <2>6, ImportsStay DEF WikiInv
    <2>8. DecisionFits' BY <1>1, <1>3, <1>4, <2>2, DecisionStays DEF AddsNone
    <2> QED BY <1>3, <2>5, <2>6, <2>7, <2>8 DEF StaffKeeps
  <1>5. CASE ~There
    <2>1. ~SameProject BY <1>1, <1>5 DEF WikiInv, DecisionFits, SameProject, OldId, There
    <2>2. project' = project BY <1>1, <2>1
    <2>3. WorkFits' BY <1>2, <1>5, <2>2 DEF WorkFits, SameIsOne, NothingOfADeletedItem, There
    <2>4. ImportsFit' BY <1>1, <1>2, <2>2, ImportsStay DEF WikiInv
    <2>5. DecisionFits' BY <1>1, <1>3, <1>5, <2>2, DecisionStays DEF There
    <2> QED BY <1>3, <2>2, <2>3, <2>4, <2>5 DEF StaffKeeps
  <1> QED BY <1>4, <1>5

\* A rule or a decision that is dropped.
LEMMA DropsStep ==
    ASSUME WikiInv, DecisionFails \/ \E r \in rules : ForgetRule(r)
    PROVE  StaffKeeps
  <1>1. /\ rules' \subseteq rules /\ UNCHANGED <<project, items, imp, late, bundles, written>>
        /\ deciding' = deciding \/ deciding' = NoDecision
    BY DEF DecisionFails, ForgetRule
  <1>2. WorkFits' /\ ItemsFit' BY <1>1, WorkSame DEF WikiInv, ItemsFit
  <1>3. ImportsFit' BY <1>1, ImportsStay DEF WikiInv
  <1>4. DecisionFits' BY <1>1, DecisionStays DEF There, AddsNone, Importing
  <1> QED BY <1>1, <1>2, <1>3, <1>4 DEF StaffKeeps

LEMMA DeleteStep ==
    ASSUME WikiInv, Delete
    PROVE  StaffKeeps
  <1>1. ~Importing /\ project' = NoProject /\ UNCHANGED <<rules, items, gen, bundle, imp, deciding, late, bundles, written>>
    BY DEF Delete, Unlocked, SetProject
  <1>2. WorkFits' BY <1>1 DEF WikiInv, WorkFits, There, SameIsOne, NothingOfADeletedItem
  <1>3. ImportsFit' BY <1>1, ImportsStay DEF WikiInv
  <1>4. DecisionFits' BY <1>1, DecisionStays DEF There, Importing
  <1> QED BY <1>1, <1>2, <1>3, <1>4 DEF ItemsFit, WikiInv, StaffKeeps

\* An item that is put on a project in place of what was there of it.
LEMMA ItemPut ==
    ASSUME WikiInv, There, NEW i \in Item, NEW p, IsProject(p), p.id = project.id, AddsNone(project, p),
           Joined(project) => Joined(p), project' = WithItems(p, {i}),
           UNCHANGED <<rules, imp, deciding, late, bundles>>, i.id \in Ids(items'), ItemsFit',
           \A t \in DOMAIN p.on : t.item # 0 => t.item \in Ids(items')
    PROVE  StaffKeeps
  <1>1. /\ IsProject(project') /\ project'.id = p.id /\ PutOn(p, {i}, project') /\ (Joined(p) => Joined(project'))
        /\ AddsNone(p, project')
    BY WithItemsIs
  <1>2. \A t \in DOMAIN project'.on : t.item # 0 => t.item \in Ids(items')
    <2>1. ByHand(i).item = i.id BY DEF ByHand
    <2>2. \A t \in DOMAIN project'.on : t \in DOMAIN p.on \/ t = ByHand(i) BY <1>1 DEF PutOn
    <2> QED BY <2>1, <2>2
  <1>3. AddsNone(project, project') BY <1>1 DEF AddsNone
  <1> QED BY <1>1, <1>2, <1>3, ProjectMoves

LEMMA CreateManualStep ==
    ASSUME WikiInv, NEW kind \in {"entity", "section"}, NEW n \in Names, NEW k \in Keys, CreateManual(kind, n, k)
    PROVE  StaffKeeps
  <1>1. PICK i : i = [id |-> written + 1, kind |-> kind, of |-> n, key |-> k] OBVIOUS
  <1>2. /\ written < MaxItems /\ written' = written + 1 /\ items' = items \cup {i}
        /\ project' = WithItems(project, {i}) /\ UNCHANGED <<rules, gen, bundle, imp, deciding, late, bundles>>
    BY <1>1 DEF CreateManual, SetProject
  <1>0. There BY FreeIs, UnlockedIs DEF CreateManual, MayWrite
  <1>3. i \in Item /\ i.id = written + 1
    <2>1. written + 1 \in Kept BY <1>2, WikiAssumption DEF WikiInv, ItemsFit, Kept
    <2> QED BY <1>1, <2>1 DEF Item
  <1>4. ItemsFit'
    <2>1. \A j \in items : j.id \in Nat /\ j.id <= written BY DEF WikiInv, ItemsFit, Item, Kept
    <2>2. \A j \in items : j.id # i.id /\ j.id <= written + 1 BY <2>1, <1>3 DEF WikiInv, ItemsFit
    <2> QED BY <1>2, <1>3, <2>2 DEF WikiInv, ItemsFit
  <1>5. IsProject(project) /\ \A t \in DOMAIN project.on : t.item # 0 => t.item \in Ids(items')
    BY <1>0, <1>2, WorkIs DEF WikiInv, Ids
  <1>6. i.id \in Ids(items') BY <1>2 DEF Ids
  <1>7. AddsNone(project, project) BY DEF AddsNone
  <1> QED BY <1>0, <1>2, <1>3, <1>4, <1>5, <1>6, <1>7, ItemPut

LEMMA UpdateManualStep ==
    ASSUME WikiInv, NEW i \in items, NEW k \in Keys, UpdateManual(i, k)
    PROVE  StaffKeeps
  <1> DEFINE others == {t \in Text : t.item # i.id}
             on == Only(project.on, others)
             hidden == {t \in project.hidden : t.item # i.id}
             p == [project EXCEPT !.on = on, !.hidden = hidden]
             new == [i EXCEPT !.key = k]
  <1>1. /\ There /\ items' = (items \ {i}) \cup {new} /\ project' = WithItems(p, {new})
        /\ UNCHANGED <<rules, gen, bundle, imp, deciding, late, bundles, written>>
    BY DEF UpdateManual, SetProject
  <1>2. There BY <1>1
  <1>3. IsProject(project) BY <1>2, WorkIs DEF WikiInv
  <1>4. i \in Item BY DEF WikiInv, ItemsFit
  <1>5. new \in Item /\ new.id = i.id BY <1>4 DEF Item
  <1>6. project \in Project BY <1>3 DEF IsProject
  <1>7. on \in Maps(Text, Names) /\ IsPart(on, project.on, others)
    <2>1. project.on \in Maps(Text, Names) BY <1>6, ProjectIs
    <2> HIDE DEF others
    <2> QED BY <2>1, OnlyIs
  <1>8. hidden \in SUBSET Text BY <1>6, ProjectIs
  <1> HIDE DEF on
  <1>9. /\ p \in Project /\ p.id = project.id /\ p.ents = project.ents /\ p.made = project.made
        /\ p.on = on /\ p.hidden = hidden
    <2> HIDE DEF hidden
    <2> QED BY <1>6, <1>7, <1>8 DEF Project
  <1>10. DOMAIN on = DOMAIN project.on \cap others /\ \A t \in DOMAIN on : on[t] = project.on[t]
    BY <1>7 DEF IsPart
  <1>11. hidden \subseteq DOMAIN on BY <1>3, <1>8, <1>10 DEF IsProject
  <1> HIDE DEF p, new
  <1>12. IsProject(p) BY <1>3, <1>9, <1>10, <1>11 DEF IsProject
  <1>13. (Joined(project) => Joined(p)) /\ AddsNone(project, p) BY <1>9, SameNames DEF Joined, AddsNone
  <1>14. Ids(items') = Ids(items) BY <1>1, <1>5 DEF Ids
  <1>15. \A t \in DOMAIN p.on : t.item # 0 => t.item \in Ids(items') BY <1>2, <1>9, <1>10, <1>14, WorkIs DEF WikiInv
  <1>16. ItemsFit' BY <1>1, <1>4, <1>5 DEF WikiInv, ItemsFit
  <1>17. new.id \in Ids(items') BY <1>1 DEF Ids
  <1> QED BY <1>1, <1>5, <1>9, <1>12, <1>13, <1>15, <1>16, <1>17, ItemPut

LEMMA DeleteManualStep ==
    ASSUME WikiInv, NEW i \in items, DeleteManual(i)
    PROVE  StaffKeeps
  <1> DEFINE ids == Ids(TakenWith(i))
  <1>1. /\ There /\ items' = items \ TakenWith(i) /\ project' = Without(project, ids)
        /\ UNCHANGED <<rules, gen, bundle, imp, deciding, late, bundles, written>>
    BY DEF DeleteManual, SetProject
  <1>3. IsProject(project) BY <1>1, WorkIs DEF WikiInv
  <1>4. \A id \in Ids(items) : id \in ids \/ id \in Ids(items') BY <1>1 DEF Ids
  <1> HIDE DEF ids
  <1>5. /\ IsProject(project') /\ project'.id = project.id
        /\ \A t \in DOMAIN project'.on : t \in DOMAIN project.on /\ t.item \notin ids
        /\ (Joined(project) => Joined(project')) /\ AddsNone(project, project')
    BY <1>1, <1>3, WithoutIs
  <1>6. \A t \in DOMAIN project'.on : t.item # 0 => t.item \in Ids(items') BY <1>1, <1>4, <1>5, WorkIs DEF WikiInv
  <1>10. ItemsFit' BY <1>1 DEF WikiInv, ItemsFit
  <1> QED BY <1>1, <1>5, <1>6, <1>10, ProjectMoves

LEMMA StaffStays == WikiInv /\ Staff => StaffKeeps
  <1> SUFFICES ASSUME WikiInv, Staff PROVE StaffKeeps OBVIOUS
  <1>1. CASE There /\ \E t \in DOMAIN project.on : Hide(t) BY <1>1, HideStep
  <1>2. CASE There /\ \E c \in project.changes : Undo(c) BY <1>2, UndoStep
  <1>3. CASE Approve \/ Delete BY <1>3, ApproveStep, DeleteStep
  <1>4. CASE \E kind \in {"same", "distinct"} : Considers(kind) BY <1>4, ConsidersStep
  <1>5. CASE DecideSame \/ DecideDistinct BY <1>5, DecideSameStep, DecideDistinctStep
  <1>6. CASE DecisionFails \/ \E r \in rules : ForgetRule(r) BY <1>6, DropsStep
  <1>7. CASE \E n \in Subjects, k \in Keys : CreateManual("section", n, k)
    <2>1. PICK n \in Names, k \in Keys : CreateManual("section", n, k) BY <1>7, WikiAssumption
    <2> QED BY <2>1, CreateManualStep
  <1>8. CASE \E n \in Subjects : CreateManual("entity", n, CHOOSE k \in Keys : TRUE)
    <2>1. PICK k : k = CHOOSE key \in Keys : TRUE OBVIOUS
    <2>2. k \in Keys BY <2>1, WikiAssumption
    <2>3. PICK n \in Names : CreateManual("entity", n, k) BY <1>8, <2>1, WikiAssumption
    <2> QED BY <2>2, <2>3, CreateManualStep
  <1>9. CASE \E i \in items, k \in Keys : UpdateManual(i, k) BY <1>9, UpdateManualStep
  <1>10. CASE \E i \in items : DeleteManual(i) BY <1>10, DeleteManualStep
  <1> QED BY <1>1, <1>2, <1>3, <1>4, <1>5, <1>6, <1>7, <1>8, <1>9, <1>10 DEF Staff

LEMMA StaffStep == WikiInv /\ Staff => WikiInv'
  <1> SUFFICES ASSUME WikiInv, Staff PROVE WikiInv' OBVIOUS
  <1>1. UNCHANGED <<gen, bundle, bundles>> /\ (late' = late \/ late' = NewestProject)
    BY DEF Staff, Hide, Undo, Approve, Considers, DecideSame, DecideDistinct, DecisionFails, Delete, ForgetRule,
           CreateManual, UpdateManual, DeleteManual
  <1>2. late' \in Nat BY <1>1, IdIs DEF NewestProject, WikiInv, GenFits
  <1>3. GenFits' BY <1>1, <1>2 DEF WikiInv, GenFits
  <1> QED BY <1>3, StaffStays DEF WikiInv, StaffKeeps

-----------------------------------------------------------------------------
(* Wiki: generations and imports.                                              *)

\* What a step that leaves the project and the staff's work alone keeps.
LEMMA WorkStays ==
    ASSUME WikiInv, UNCHANGED <<project, rules, items, late, bundles, written>>,
           deciding' = deciding \/ deciding' = NoDecision, Importing' => Importing
    PROVE  WorkFits' /\ ItemsFit' /\ DecisionFits'
  <1>1. WorkFits' /\ ItemsFit' BY WorkSame DEF WikiInv, ItemsFit
  <1>2. DecisionFits' BY DecisionStays DEF There, AddsNone
  <1> QED BY <1>1, <1>2

LEMMA GenerationStep ==
    ASSUME WikiInv, BeginGeneration \/ FinishGeneration
    PROVE  WikiInv'
  <1>1. UNCHANGED <<project, rules, items, imp, deciding, late, bundles, written>>
    BY DEF BeginGeneration, FinishGeneration
  <1>2. GenFits'
    <2>1. CASE BeginGeneration BY <2>1 DEF BeginGeneration, WikiInv, GenFits, WorkFits
    <2>2. CASE FinishGeneration
      <3>1. IsBundle(bundle')
        <4>1. gen.rules \subseteq {"same", "distinct"} BY DEF WikiInv, GenFits
        <4>2. PICK f \in Findings, name \in Names : bundle' = BundleOf(f, gen.rules, name)
          BY <2>2 DEF FinishGeneration
        <4> QED BY <4>2, BundleOfIs
      <3>2. gen' = [pc |-> "idle", rules |-> {}] BY <2>2 DEF FinishGeneration
      <3> QED BY <1>1, <3>1, <3>2 DEF WikiInv, GenFits
    <2> QED BY <2>1, <2>2
  <1>3. Importing' => Importing BY <1>1 DEF Importing
  <1>4. WorkFits' /\ ItemsFit' /\ DecisionFits' BY <1>1, <1>3, WorkStays
  <1>5. ImportsFit' BY <1>1, ImportsStay DEF WikiInv
  <1> QED BY <1>2, <1>4, <1>5 DEF WikiInv

LEMMA IdleIs == IsImport(Idle) /\ ~Applying(Idle) /\ Idle.pc = "idle" /\ Idle.rules = {}
  BY DEF IsImport, Applying, Idle

LEMMA SnapshotIs ==
    ASSUME NEW b, IsBundle(b)
    PROVE  IsImport(Snapshot(b)) /\ Snapshot(b).pc = "read" /\ Snapshot(b).old = IdOf(project)
  <1>1. CASE project = NoProject BY <1>1 DEF Snapshot, Idle, IdOf, IsImport, Applying
  <1>2. CASE project # NoProject
    <2>1. PICK had : had = [s \in DOMAIN project.ents |-> {t.key : t \in {u \in DOMAIN project.on : project.on[u] = s}}] OBVIOUS
    <2>2. PICK hidden : hidden = {<<project.on[t], t>> : t \in project.hidden} OBVIOUS
    <2>3. PICK declined : declined = (project.ask = "declined") OBVIOUS
    <2>4. Snapshot(b) = [pc |-> "read", bundle |-> b, old |-> project.id, had |-> had, hidden |-> hidden,
                        declined |-> declined, rules |-> {}, items |-> {}]
      BY <1>2, <2>1, <2>2, <2>3 DEF Snapshot, Idle
    <2> QED BY <1>2, <2>4 DEF IdOf, IsImport, Applying
  <1> QED BY <1>1, <1>2

\* An import begins when no other one is under way; it is given a number of its own.
LEMMA ReadsStep ==
    ASSUME WikiInv, NEW m \in Importers, Reads(m)
    PROVE  WikiInv'
  <1>1. /\ imp[m].pc = "idle" /\ ~Importing /\ bundles' = bundles + 1
        /\ UNCHANGED <<project, rules, items, gen, bundle, deciding, late, written>>
    BY DEF Reads, Alone
  <1>2. PICK b : IsBundle(b) /\ SetImport(m, Snapshot(b))
    <2>1. CASE bundle # NoBundle /\ SetImport(m, Snapshot(bundle)) BY <2>1 DEF WikiInv, GenFits
    <2> DEFINE name == CHOOSE n \in Names : TRUE
    <2>2. name \in Names BY WikiAssumption
    <2> HIDE DEF name
    <2>3. ASSUME NEW f \in Findings, SetImport(m, Snapshot(BundleOf(f, {}, name)))
          PROVE  \E b : IsBundle(b) /\ SetImport(m, Snapshot(b))
      <3>1. IsBundle(BundleOf(f, {}, name)) BY <2>2, BundleOfIs
      <3> QED BY <2>3, <3>1
    <2> QED BY <2>1, <2>3 DEF Reads, name
  <1>3. IsBundle(b) BY <1>2
  <1>4. PICK new : new = Snapshot(b) OBVIOUS
  <1>5. IsImport(new) /\ new.pc = "read" /\ new.old = IdOf(project) /\ SetImport(m, new)
    BY <1>2, <1>3, <1>4, SnapshotIs
  <1>6. OldId = IdOf(project) /\ OldId \in Nat /\ OldId <= bundles /\ bundles \in Nat BY IdIs
  <1>7. IdOf(project') = IdOf(project) /\ IdOf(project') < bundles' BY <1>1, <1>6
  <1>8. \A n \in Importers \ {m} : ~Applying(imp[n]) BY <1>1, ImportingIs
  <1>9. ImportsFit' BY <1>1, <1>5, <1>7, <1>8, ImportChanges DEF WikiInv
  <1>10. WorkFits' BY <1>1, WorkSame DEF WikiInv
  <1>11. ItemsFit' /\ GenFits' BY <1>1, <1>6 DEF WikiInv, ItemsFit, GenFits
  <1>12. DecisionFits'
    <2>1. \A i \in Nat : i <= bundles => i <= bundles' /\ i < bundles' BY <1>1, <1>6
    <2>2. SameProject' <=> SameProject BY <1>1 DEF SameProject, OldId
    <2>3. There => project.id \in Nat BY <1>6 DEF OldId, There
    <2> QED BY <1>1, <2>1, <2>2, <2>3 DEF WikiInv, DecisionFits, There
  <1> QED BY <1>9, <1>10, <1>11, <1>12 DEF WikiInv

LEMMA AppliesStep ==
    ASSUME WikiInv, NEW m \in Importers, Applies(m)
    PROVE  WikiInv'
  <1>1. /\ imp[m].pc = "read"
        /\ UNCHANGED <<project, rules, items, gen, bundle, deciding, late, bundles, written>>
        /\ SetImport(m, [imp[m] EXCEPT !.pc = "applied", !.rules = rules, !.items = items])
    BY DEF Applies, RulesOfTheScope
  <1>2. PICK new : new = [imp[m] EXCEPT !.pc = "applied", !.rules = rules, !.items = items] OBVIOUS
  <1>3. ImportFits(m) BY DEF WikiInv, ImportsFit
  <1>4. Applying(imp[m]) BY <1>1 DEF Applying
  <1>5. /\ new = [pc |-> "applied", bundle |-> imp[m].bundle, old |-> imp[m].old, had |-> imp[m].had,
                  hidden |-> imp[m].hidden, declined |-> imp[m].declined, rules |-> rules, items |-> items]
    BY <1>2, <1>3 DEF ImportFits, IsImport
  <1>6. IsImport(new) /\ new.pc = "applied" /\ new.old = IdOf(project) /\ new.rules = rules
    BY <1>3, <1>4, <1>5 DEF ImportFits, IsImport, Applying, OldId, IdOf, WikiInv, WorkFits, ItemsFit
  <1>7. IdOf(project') < bundles' BY <1>1, <1>3, <1>4 DEF ImportFits, OldId, IdOf
  <1>8. ImportsFit' /\ (Importing' => Importing \/ Applying(new))
    BY <1>1, <1>2, <1>4, <1>6, <1>7, ImportChanges DEF WikiInv
  <1>9. Importing BY <1>4, ImportingIs
  <1>10. WorkFits' /\ ItemsFit' /\ DecisionFits' BY <1>1, <1>9, WorkStays
  <1>11. GenFits' BY <1>1 DEF WikiInv, GenFits
  <1> QED BY <1>8, <1>10, <1>11 DEF WikiInv

\* What a commit makes of the project.
LEMMA CommitIs ==
    ASSUME WikiInv, NEW m \in Importers, Commits(m)
    PROVE  AsDecided(project', bundles, imp[m].rules, imp[m].items)
  <1>1. imp[m].pc = "applied" BY DEF Commits
  <1>2. IsBundle(imp[m].bundle) /\ imp[m].items \in SUBSET Item
    BY <1>1 DEF WikiInv, ImportsFit, ImportFits, IsImport, Applying
  <1>3. PICK p : p = Imported(imp[m].bundle, imp[m].old, imp[m].had, imp[m].hidden, imp[m].declined) OBVIOUS
  <1>4. IsProject(p) /\ Generated(p) /\ p.id = bundles BY <1>2, <1>3, ImportedIs DEF WikiInv, GenFits
  <1>5. PICK keep \in Names : project' = Decided(p, imp[m].rules, imp[m].items, keep) BY <1>3 DEF Commits
  <1>6. PICK its : its = imp[m].items OBVIOUS
  <1>7. its \in SUBSET Item BY <1>2, <1>6
  <1>8. PICK rs : rs = imp[m].rules OBVIOUS
  <1>9. PICK q : q = Decided(p, rs, its, keep) OBVIOUS
  <1>10. AsDecided(q, p.id, rs, its) BY <1>4, <1>7, <1>9, DecidedIs
  <1> QED BY <1>4, <1>5, <1>6, <1>8, <1>9, <1>10

LEMMA CommitsStep ==
    ASSUME WikiInv, NEW m \in Importers, Commits(m)
    PROVE  WikiInv'
  <1>1. /\ imp[m].pc = "applied" /\ UNCHANGED <<rules, items, gen, bundle, deciding, late, bundles, written>>
        /\ SetImport(m, IF m = Runs THEN [Idle EXCEPT !.pc = "stored", !.old = bundles] ELSE Idle)
        /\ ItemsOf(project') \subseteq {0} \cup Ids(items)
    BY DEF Commits
  <1>2. ImportFits(m) /\ Applying(imp[m]) /\ Importing BY <1>1, ImportingIs DEF WikiInv, ImportsFit, Applying
  <1>3. OldId \in Nat /\ OldId < bundles /\ bundles \in Nat /\ late \in Nat BY <1>2, IdIs DEF ImportFits, WikiInv, GenFits
  <1>4. AsDecided(project', bundles, imp[m].rules, imp[m].items) BY CommitIs
  <1>5. IsProject(project') /\ project'.id = bundles /\ ("same" \in imp[m].rules => Joined(project')) BY <1>4 DEF AsDecided
  <1>6. WorkFits'
    <2>1. "same" \in rules' /\ project'.id > late' => Joined(project') BY <1>1, <1>2, <1>3, <1>5 DEF ImportFits
    <2>2. \A t \in DOMAIN project'.on : t.item # 0 => t.item \in Ids(items')
      <3>1. \A t \in DOMAIN project'.on : t.item \in ItemsOf(project') BY DEF ItemsOf
      <3>2. Ids(items') = Ids(items) BY <1>1
      <3> QED BY <1>1, <3>1, <3>2
    <2>3. rules' \subseteq {"same", "distinct"} BY <1>1 DEF WikiInv, WorkFits
    <2> QED BY <1>5, <2>1, <2>2, <2>3, WorkMoves
  <1>7. PICK new : new = IF m = Runs THEN [Idle EXCEPT !.pc = "stored", !.old = bundles] ELSE Idle OBVIOUS
  <1>8. IsImport(new) /\ ~Applying(new) /\ new.pc # "applied"
    <2>1. CASE m = Runs
      <3>1. new = [pc |-> "stored", bundle |-> NoBundle, old |-> bundles, had |-> NoChange, hidden |-> {},
                   declined |-> FALSE, rules |-> {}, items |-> {}]
        BY <1>7, <2>1 DEF Idle
      <3>2. bundles # 0 BY <1>3
      <3> QED BY <3>1, <3>2 DEF IsImport, Applying
    <2>2. CASE m # Runs BY <1>7, <2>2, IdleIs
    <2> QED BY <2>1, <2>2
  <1>9. \A n \in Importers \ {m} : ~Applying(imp[n]) BY <1>2 DEF WikiInv, ImportsFit
  <1>10. ImportsFit' BY <1>1, <1>7, <1>8, <1>9, ImportChanges DEF WikiInv
  <1>11. DecisionFits'
    <2>1. deciding.id < bundles /\ deciding.id \in Nat BY <1>2 DEF WikiInv, DecisionFits
    <2>2. project' # NoProject BY <1>5, ProjectIsThere
    <2>3. OldId' = bundles BY <1>5, <2>2 DEF OldId
    <2>4. ~SameProject' BY <1>1, <1>3, <2>1, <2>3 DEF SameProject
    <2>5. bundles # 0 BY <1>3
    <2> QED BY <1>1, <1>3, <1>5, <2>1, <2>4, <2>5 DEF WikiInv, DecisionFits
  <1>12. ItemsFit' /\ GenFits' BY <1>1 DEF WikiInv, ItemsFit, GenFits
  <1> QED BY <1>6, <1>10, <1>11, <1>12 DEF WikiInv

LEMMA MarksReviewStep ==
    ASSUME WikiInv, MarksReview
    PROVE  WikiInv'
  <1>1. /\ imp[Runs].pc = "stored" /\ ~Importing
        /\ UNCHANGED <<rules, items, gen, bundle, deciding, late, bundles, written>>
        /\ SetImport(Runs, [Idle EXCEPT !.pc = "marked"])
    BY DEF MarksReview
  <1>2. Runs \in Importers BY DEF Importers
  <1>3. imp[Runs].old # 0 BY <1>1, <1>2 DEF WikiInv, ImportsFit, ImportFits, IsImport
  <1>4. WorkFits' /\ IdOf(project') = IdOf(project) /\ (There' => There /\ project'.id = project.id /\ AddsNone(project, project'))
    <2>1. CASE project' = project BY <1>1, <2>1, WorkSame DEF WikiInv, IdOf, There, AddsNone
    <2>2. CASE project' # project
      <3>1. OldId = imp[Runs].old /\ project' = [project EXCEPT !.review = TRUE] BY <2>2 DEF MarksReview
      <3>2. There BY <1>3, <3>1 DEF OldId, There
      <3>3. IsProject(project) BY <3>2, WorkIs DEF WikiInv
      <3>4. project' = SameBut(project, project.hidden, TRUE) BY <3>1, <3>3 DEF SameBut, IsProject, Project
      <3>5. project.hidden \subseteq DOMAIN project.on /\ TRUE \in BOOLEAN BY <3>3 DEF IsProject
      <3>6. /\ IsProject(project') /\ project'.id = project.id /\ project'.ents = project.ents
            /\ project'.made = project.made /\ project'.on = project.on
        BY <3>3, <3>4, <3>5, SameButIs
      <3>7. Joined(project') <=> Joined(project) BY <3>6, SameNames DEF Joined
      <3>8. IdOf(project') = IdOf(project) BY <3>2, <3>6, ProjectIsThere DEF IdOf, There
      <3>9. "same" \in rules' /\ project'.id > late' => Joined(project') BY <1>1, <3>2, <3>6, <3>7, WorkIs DEF WikiInv
      <3>10. \A t \in DOMAIN project'.on : t.item # 0 => t.item \in Ids(items') BY <1>1, <3>2, <3>6, WorkIs DEF WikiInv
      <3>11. WorkFits' BY <1>1, <3>2, <3>6, <3>9, <3>10, WorkIs, WorkMoves DEF WikiInv
      <3> QED BY <3>2, <3>6, <3>8, <3>11 DEF AddsNone
    <2> QED BY <2>1, <2>2
  <1>5. PICK new : new = [Idle EXCEPT !.pc = "marked"] OBVIOUS
  <1>6. IsImport(new) /\ ~Applying(new) /\ new.pc # "applied" BY <1>5 DEF Idle, IsImport, Applying
  <1>7. \A n \in Importers : ~Applying(imp[n]) BY <1>1, ImportingIs
  <1>8. ImportsFit' /\ (Importing' => Importing \/ Applying(new))
    BY <1>1, <1>2, <1>5, <1>6, <1>7, ImportChanges DEF WikiInv
  <1>9. DecisionFits' BY <1>1, <1>4, <1>6, <1>8, DecisionStays
  <1>10. ItemsFit' /\ GenFits' BY <1>1 DEF WikiInv, ItemsFit, GenFits
  <1> QED BY <1>4, <1>8, <1>9, <1>10 DEF WikiInv

\* An import that ends in some other way leaves the project as it is.
LEMMA ClosesStep ==
    ASSUME WikiInv, NEW m \in Importers, (Closes /\ m = Runs) \/ Fails(m)
    PROVE  WikiInv'
  <1>1. /\ UNCHANGED <<project, rules, items, gen, deciding, late, bundles, written>> /\ bundle' \in {bundle, NoBundle}
        /\ SetImport(m, Idle)
    BY DEF Closes, Fails
  <1>2. ImportsFit' /\ (Importing' => Importing) BY <1>1, IdleIs, ImportChanges DEF WikiInv
  <1>3. WorkFits' /\ ItemsFit' /\ DecisionFits' BY <1>1, <1>2, WorkStays
  <1>4. GenFits' BY <1>1 DEF WikiInv, GenFits
  <1> QED BY <1>2, <1>3, <1>4 DEF WikiInv

LEMMA CrashStep ==
    ASSUME WikiInv, Crash
    PROVE  WikiInv'
  <1>1. /\ UNCHANGED <<project, rules, items, gen, bundle, late, bundles, written>>
        /\ imp' = [m \in Importers |-> Idle] /\ deciding' = NoDecision
    BY DEF Crash, Importers
  <1>2. ImportsFit' BY <1>1, IdleIs DEF ImportsFit, ImportFits
  <1>3. Importing' => Importing BY <1>1, IdleIs DEF Importing, Importers
  <1>4. WorkFits' /\ ItemsFit' /\ DecisionFits' BY <1>1, <1>3, WorkStays
  <1>5. GenFits' BY <1>1 DEF WikiInv, GenFits
  <1> QED BY <1>2, <1>4, <1>5 DEF WikiInv

LEMMA WikiStart == Init => WikiInv
  <1> SUFFICES ASSUME Init PROVE WikiInv OBVIOUS
  <1>1. ImportsFit BY IdleIs DEF Init, ImportsFit, ImportFits, Importers
  <1>2. WorkFits BY DEF Init, WorkFits, There, SameIsOne, NothingOfADeletedItem
  <1>3. ItemsFit /\ GenFits BY DEF Init, ItemsFit, GenFits
  <1>4. ~Importing /\ ~There BY IdleIs DEF Init, Importing, Importers, There
  <1>5. DecisionFits BY <1>4 DEF Init, DecisionFits, NoDecision
  <1> QED BY <1>1, <1>2, <1>3, <1>5 DEF WikiInv

LEMMA WikiStep == WikiInv /\ [Next]_vars => WikiInv'
  <1> SUFFICES ASSUME WikiInv, [Next]_vars PROVE WikiInv' OBVIOUS
  <1>1. CASE Staff BY <1>1, StaffStep
  <1>2. CASE BeginGeneration \/ FinishGeneration BY <1>2, GenerationStep
  <1>3. CASE \E m \in Importers : Reads(m) \/ Applies(m) \/ Commits(m) \/ Fails(m)
    BY <1>3, ReadsStep, AppliesStep, CommitsStep, ClosesStep
  <1>4. CASE MarksReview \/ Closes \/ Crash BY <1>4, MarksReviewStep, ClosesStep, CrashStep DEF Importers
  <1>5. CASE UNCHANGED vars
    <2>1. UNCHANGED <<project, rules, items, gen, bundle, imp, deciding, late, bundles, written>>
      BY <1>5 DEF vars
    <2>2. ImportsFit' BY <2>1, ImportsStay DEF WikiInv
    <2>3. Importing' => Importing BY <2>1 DEF Importing
    <2>4. WorkFits' /\ ItemsFit' /\ DecisionFits' BY <2>1, <2>3, WorkStays
    <2>5. GenFits' BY <2>1 DEF WikiInv, GenFits
    <2> QED BY <2>2, <2>4, <2>5 DEF WikiInv
  <1> QED BY <1>1, <1>2, <1>3, <1>4, <1>5 DEF Next, Importers

LEMMA WikiAlways == Spec => []WikiInv
  BY WikiStart, WikiStep, PTL DEF Spec

\* A wiki is always whole: a text is under an entity it has, what is hidden is a text it
\* has, and items are told apart by their number, whatever the staff does during an import.
THEOREM WikiIsTyped == Spec => []TypeOK
  <1>1. WikiInv => TypeOK
    BY DEF WikiInv, TypeOK, WorkFits, ItemsFit, GenFits, ImportsFit, ImportFits, IsImport, Importers
  <1> QED BY <1>1, WikiAlways, PTL

\* What the staff joined is one, whatever the generator was told when it began: the import
\* reads the rules after the old project is gone, and a decision that is saved after that
\* is one that came too late for the project it makes.
THEOREM WhatIsJoinedStaysJoined == Spec => []SameIsOne
  <1>1. WikiInv => SameIsOne BY DEF WikiInv, WorkFits
  <1> QED BY <1>1, WikiAlways, PTL

\* A wiki shows nothing of an item that was taken away.
THEOREM WhatIsTakenAwayIsGone == Spec => []NothingOfADeletedItem
  <1>1. WikiInv => NothingOfADeletedItem BY DEF WikiInv, WorkFits
  <1> QED BY <1>1, WikiAlways, PTL

\* While an import is at its commit, only that commit puts another project in place.
LEMMA StoredIsCommitted ==
    ASSUME WikiInv, [Next]_vars, NEW m \in Importers, Stored(m)
    PROVE  Commits(m)
  <1>1. imp[m].pc = "applied" BY DEF Stored
  <1>2. Importing BY <1>1, ImportingIs DEF Applying
  <1>3. imp' # imp /\ project' # project BY DEF Stored
  <1>4. ~Staff
    <2>1. Staff => imp' = imp
      BY DEF Staff, Hide, Undo, Approve, Considers, DecideSame, DecideDistinct, DecisionFails, Delete, ForgetRule,
             CreateManual, UpdateManual, DeleteManual
    <2> QED BY <1>3, <2>1
  <1>5. CASE \E n \in Importers : Commits(n)
    <2>1. PICK n \in Importers : Commits(n) BY <1>5
    <2>2. imp[n].pc = "applied" BY <2>1 DEF Commits
    <2>3. n = m BY <1>1, <2>2 DEF WikiInv, ImportsFit, Applying
    <2> QED BY <2>1, <2>3
  <1>6. CASE BeginGeneration \/ FinishGeneration \/ MarksReview \/ Closes \/ Crash
    BY <1>2, <1>3, <1>6 DEF BeginGeneration, FinishGeneration, MarksReview, Closes, Crash
  <1>7. CASE \E n \in Importers : Reads(n) \/ Applies(n) \/ Fails(n)
    BY <1>3, <1>7 DEF Reads, Applies, Fails
  <1>8. CASE UNCHANGED vars BY <1>3, <1>8 DEF vars
  <1> QED BY <1>4, <1>5, <1>6, <1>7, <1>8 DEF Next, Importers

\* A generation that is stored shows all that was written by hand of the entities it has,
\* as the import read it: what the staff writes after that is not waited for.
THEOREM WhatIsWrittenByHandIsBack == Spec => WrittenByHandIsBack
  <1>1. WikiInv /\ [Next]_vars =>
            \A m \in Importers : Stored(m) =>
                \A i \in imp[m].items :
                    i.kind = "section" /\ Known(project'.ents, i.of) => ByHand(i) \in DOMAIN project'.on
    BY StoredIsCommitted, CommitIs DEF AsDecided
  <1> QED BY <1>1, WikiAlways, PTL DEF Spec, WrittenByHandIsBack, Importers

\* An import replaces the wiki it read, for any two importers.
THEOREM AnImportReplacesWhatItRead == Spec => ReplacesWhatItRead
  <1>1. WikiInv => \A m \in Importers : Stored(m) => imp[m].old = OldId
    BY DEF WikiInv, ImportsFit, ImportFits, Applying, Stored
  <1> QED BY <1>1, WikiAlways, PTL DEF Spec, ReplacesWhatItRead, Importers

=============================================================================
