-------------------------------- MODULE Texts --------------------------------
(***************************************************************************)
(* The text of one file: what the library searches (text_extractions,      *)
(* document_segments), the pages that OCR read (ocr_pages, ocr_files,      *)
(* comic_ocr_pages) and the vectors made of the text                       *)
(* (document_segment_embeddings).  Four jobs write them, each in a process *)
(* of its own: extract_text, ocr or comic_ocr, embed_text.  An OCR job     *)
(* makes the text again when it has read the pages, so that two processes  *)
(* may be writing one generation of the text of one file at once.  Every   *)
(* call of db.py is a transaction of its own.                              *)
(*                                                                         *)
(* The bytes of the file do not change (its sha256 is written once).  A    *)
(* page yields one segment, and a flush writes one: a batch boundary may   *)
(* fall anywhere.  A manner is the language a PDF is read in, or the model *)
(* a comic is read with.                                                   *)
(***************************************************************************)
EXTENDS Naturals, Sequences, FiniteSets

CONSTANTS
    Pages,          \* the pages with no text of their own, 1 .. n
    Manners,        \* languages of the engine, or models
    Readers,        \* the worker processes
    Handled,        \* [Readers -> Kinds], the type of job each one takes
    Books,          \* the cases: the format of the file, whether it has text of its own,
                    \* and the processes that run
    MaxInARow,      \* MAX_CONSECUTIVE_FAILURES
    MaxAsked,       \* bound: how many times people or the system ask for something
    MaxMishaps      \* bound: how many times a process dies or loses its lease

Kinds == {"text", "ocr", "embed"}
Off == "off"
Native == 0         \* the page that has text of its own
NoReader == "nobody"

ASSUME TextsAssumption ==
    /\ Pages \in SUBSET (Nat \ {0}) /\ IsFiniteSet(Pages)
    /\ Off \notin Manners
    /\ Books \subseteq [format : {"pdf", "comic"}, native : BOOLEAN, up : SUBSET Readers]
    /\ Handled \in [Readers -> Kinds]
    /\ NoReader \notin Readers

VARIABLES
    book,       \* what the file is
    choice,     \* settings: is OCR on, with which model
    decided,    \* ocr_files: the language of a PDF and who said so
    pages,      \* what OCR read
    text,       \* text_extractions
    segs,       \* document_segments
    vectors,    \* the segments that have a vector
    embedded,   \* text_embedding_status: of which generation
    queue,      \* the job of each kind
    doing,      \* what each process is doing: its local variables
    crossed,    \* history: the generations whose readings met another
    asked,      \* bound
    mishaps     \* bound

textsVars == <<book, choice, decided, pages, text, segs, vectors, embedded,
               queue, doing, crossed, asked, mishaps>>

-----------------------------------------------------------------------------

Page == [state : {"none", "done", "blank", "failed"}, manner : Manners \cup {Off}, by : Readers \cup {NoReader}]
Unread == [state |-> "none", manner |-> Off, by |-> NoReader]

Piece == [page : Pages \cup {Native}, manner : Manners \cup {Off}]
Segment == [gen : Nat, seq : Nat, piece : Piece]

NoJob == [state |-> "none", owner |-> NoReader, asking |-> FALSE]
Waiting(asking) == [state |-> "pending", owner |-> NoReader, asking |-> asking]

Resting == [pc |-> "idle", manner |-> Off, todo |-> <<>>, bad |-> 0, gen |-> 0,
            made |-> <<>>, rest |-> <<>>, rows |-> {}, unread |-> FALSE, again |-> FALSE, left |-> FALSE]

Kind(r) == Handled[r]
Is(r, pc) == doing[r].pc = pc
Becomes(r, pc) == doing' = [doing EXCEPT ![r].pc = pc]
Owns(r) == queue[Kind(r)].owner = r
Live(k) == queue[k].state \in {"pending", "running"}

\* ON CONFLICT (type, work_id) WHERE state IN ('pending', 'running') DO NOTHING
Enqueued(k, asking) == IF Live(k) THEN queue ELSE [queue EXCEPT ![k] = Waiting(asking)]

Published == {s \in segs : s.gen = text.gen}

\* A vector goes with its segment: ON DELETE CASCADE.
SegmentsBecome(S) == segs' = S /\ vectors' = vectors \cap S

pagesVars == <<choice, decided, pages>>
publicVars == <<text, segs, vectors, embedded>>

-----------------------------------------------------------------------------
(* What is asked for. *)

Asks ==
    /\ asked < MaxAsked
    /\ asked' = asked + 1
    /\ UNCHANGED <<book, doing, crossed, mishaps>>

\* After an ingestion without force; ExtractText and queueComicText with it.
AskText(force) ==
    /\ Asks
    /\ queue' = Enqueued("text", force)
    /\ UNCHANGED <<pagesVars, publicVars>>

\* Retry: the pages that failed are tried again.
RetryPages ==
    /\ Asks
    /\ book.format = "pdf"
    /\ choice # Off
    /\ \E p \in Pages : pages[p].state = "failed"
    /\ queue' = Enqueued("ocr", TRUE)
    /\ UNCHANGED <<pagesVars, publicVars>>

\* The job first: with one waiting or running, nothing is changed.
SetLanguage(l) ==
    /\ Asks
    /\ book.format = "pdf"
    /\ choice # Off
    /\ ~Live("ocr")
    /\ queue' = Enqueued("ocr", FALSE)
    /\ decided' = [language |-> l, source |-> "manual"]
    /\ pages' = [p \in Pages |-> Unread]
    /\ UNCHANGED <<choice, publicVars>>

\* OCR is turned on or off, or another model is chosen.  A PDF has no model: "on" is
\* any manner.
Choose(m) ==
    /\ Asks
    /\ m # choice
    /\ choice' = m
    /\ UNCHANGED <<decided, pages, queue, publicVars>>

\* RereadComicOCR
Reread ==
    /\ Asks
    /\ book.format = "comic"
    /\ choice # Off
    /\ pages' = [p \in Pages |->
                    IF pages[p].state = "failed" \/ pages[p].manner # choice THEN Unread ELSE pages[p]]
    /\ UNCHANGED <<choice, decided, queue, publicVars>>

Missing == {p \in Pages : pages[p].state = "none"}

\* enqueue_missing, of a worker with nothing else to do.
OcrEnqueues(r) ==
    /\ r \in book.up
    /\ Kind(r) = "ocr"
    /\ Is(r, "idle")
    /\ choice # Off
    /\ Missing # {}
    /\ ~Live("ocr")
    /\ queue' = Enqueued("ocr", FALSE)
    /\ UNCHANGED <<book, doing, crossed, asked, mishaps, pagesVars, publicVars>>

NeedsVectors == text.status = "ready" /\ embedded # text.gen

EmbedEnqueues(r) ==
    /\ r \in book.up
    /\ Kind(r) = "embed"
    /\ Is(r, "idle")
    /\ NeedsVectors
    /\ ~Live("embed")
    /\ queue' = Enqueued("embed", FALSE)
    /\ UNCHANGED <<book, doing, crossed, asked, mishaps, pagesVars, publicVars>>

-----------------------------------------------------------------------------
(* The runner. *)

Running(r) == UNCHANGED <<book, asked, mishaps>>

\* jobs_claim, and what the job reads first.
Claims(r, first) ==
    /\ r \in book.up
    /\ Is(r, "idle")
    /\ queue[Kind(r)].state = "pending"
    /\ queue' = [queue EXCEPT ![Kind(r)].state = "running", ![Kind(r)].owner = r]
    /\ doing' = [doing EXCEPT ![r] = first]
    /\ Running(r)
    /\ UNCHANGED <<crossed, pagesVars, publicVars>>

\* A stale run, whose job another has or ended, is not heard.
Settles(r, job) ==
    /\ queue' = IF Owns(r) THEN [queue EXCEPT ![Kind(r)] = job] ELSE queue
    /\ doing' = [doing EXCEPT ![r] = Resting]

\* jobs_fail: the job waits to be tried again, unless the error is permanent or no
\* attempt is left.
FailsFor(r) == Settles(r, NoJob) \/ Settles(r, Waiting(queue[Kind(r)].asking))

Completes(r) ==
    /\ Is(r, "done")
    /\ Settles(r, NoJob)
    /\ Running(r)
    /\ UNCHANGED <<crossed, pagesVars, publicVars>>

\* A run ends half way: its process dies, a call fails, the file is not at its place, or
\* it was cancelled.
Interrupted(r) ==
    /\ ~Is(r, "idle")
    /\ mishaps < MaxMishaps
    /\ mishaps' = mishaps + 1
    /\ FailsFor(r)
    /\ UNCHANGED <<book, asked, crossed, pagesVars, publicVars>>

\* The lease runs out while the run goes on: the job is there for another to take.
Lapses(r) ==
    /\ ~Is(r, "idle")
    /\ Owns(r)
    /\ mishaps < MaxMishaps
    /\ mishaps' = mishaps + 1
    /\ queue' = [queue EXCEPT ![Kind(r)] = Waiting(@.asking)]
    /\ UNCHANGED <<book, doing, asked, crossed, pagesVars, publicVars>>

-----------------------------------------------------------------------------
(* The pages: OcrIndexer and ComicOcrIndexer. *)

OcrClaims(r) ==
    /\ Kind(r) = "ocr"
    /\ Claims(r, [Resting EXCEPT !.manner = choice,
                                 !.again = queue["ocr"].asking,
                                 !.pc = IF choice = Off THEN "done"
                                        ELSE IF book.format = "pdf" THEN "language" ELSE "file"])

\* language_of: what was decided stays, unless it was the owner's default.
KeepsLanguage(r) ==
    /\ Is(r, "language")
    /\ decided.source \notin {"none", "default"}
    /\ doing' = [doing EXCEPT ![r].pc = "list", ![r].manner = decided.language]
    /\ Running(r)
    /\ UNCHANGED <<queue, crossed, pagesVars, publicVars>>

\* Else the one that is declared, or detected in a few pages, or the default.
DetectsLanguage(r, l) ==
    /\ Is(r, "language")
    /\ decided.source \in {"none", "default"}
    /\ doing' = [doing EXCEPT ![r].pc = "decide", ![r].manner = l]
    /\ Running(r)
    /\ UNCHANGED <<queue, crossed, pagesVars, publicVars>>

DecidesLanguage(r) ==
    /\ Is(r, "decide")
    /\ \E source \in {"detected", "default"} :
        decided' = [language |-> doing[r].manner, source |-> source]
    /\ Becomes(r, "list")
    /\ Running(r)
    /\ UNCHANGED <<queue, crossed, choice, pages, publicVars>>

\* Before the file of a comic, when the model has been prepared: with another one chosen
\* since the job began, it leaves the file as it is, makes no text and ends well.
LooksBeforeFile(r) ==
    LET left == choice # doing[r].manner
    IN  /\ Is(r, "file")
        /\ doing' = [doing EXCEPT ![r].pc = IF left THEN "done" ELSE "list", ![r].left = left]
        /\ Running(r)
        /\ UNCHANGED <<queue, crossed, pagesVars, publicVars>>

InOrder(S) == CHOOSE s \in [1 .. Cardinality(S) -> S] : \A i, j \in DOMAIN s : i < j => s[i] < s[j]

\* needs_reading, for a version of the extractor and of the file that do not change.
NeedsReading(force) == force \/ text.status = "none"

\* Mutant: OCR makes the text only where there is none.
OnwardWithoutForce(todo) ==
    IF todo = <<>> THEN (IF NeedsReading(FALSE) THEN "begin" ELSE "done")
    ELSE IF book.format = "comic" THEN "look" ELSE "engine"

\* Before each page a comic looks at the choice; at the end the text is made again.
Onward(todo) == IF todo = <<>> THEN "begin" ELSE IF book.format = "comic" THEN "look" ELSE "engine"

\* The pages nobody read, and with retry_failed the ones that failed.
ListsPages(r) ==
    LET todo == InOrder({p \in Pages :
                    pages[p].state = "none" \/ (pages[p].state = "failed" /\ doing[r].again)})
    IN  /\ Is(r, "list")
        /\ doing' = [doing EXCEPT ![r].pc = Onward(todo), ![r].todo = todo]
        /\ Running(r)
        /\ UNCHANGED <<queue, crossed, pagesVars, publicVars>>

\* With another model chosen, what is left is left to the next job.
LooksAtChoice(r) ==
    /\ Is(r, "look")
    /\ Becomes(r, IF choice = doing[r].manner THEN "engine" ELSE "begin")
    /\ Running(r)
    /\ UNCHANGED <<queue, crossed, pagesVars, publicVars>>

\* The engine answered: the page is saved, whatever happened in the meantime.
SavesPage(r, state) ==
    LET bad == IF state = "failed" THEN doing[r].bad + 1 ELSE 0
    IN  /\ Is(r, "engine")
        /\ pages' = [pages EXCEPT ![Head(doing[r].todo)] =
                        [state |-> state, manner |-> doing[r].manner, by |-> r]]
        /\ IF bad >= MaxInARow
           THEN FailsFor(r)
           ELSE /\ doing' = [doing EXCEPT ![r].pc = Onward(Tail(doing[r].todo)),
                                         ![r].todo = Tail(@), ![r].bad = bad]
                /\ UNCHANGED queue
        /\ Running(r)
        /\ UNCHANGED <<crossed, choice, decided, publicVars>>

-----------------------------------------------------------------------------
(* The text: TextIndexer, in a job of its own and at the end of an OCR job. *)

TextClaims(r) ==
    /\ Kind(r) = "text"
    /\ Claims(r, [Resting EXCEPT !.pc = IF NeedsReading(queue["text"].asking) THEN "begin" ELSE "done"])

Writing(r) == doing[r].pc \in {"fetch", "write", "publish"}

\* text_extraction_begin
BeginsText(r) ==
    LET gen == text.gen + 1
        others == {doing[q].gen : q \in {q \in Readers \ {r} : Writing(q)}}
    IN  /\ Is(r, "begin")
        /\ SegmentsBecome({s \in segs : s.gen <= text.gen})
        /\ crossed' = crossed \cup others \cup {g \in {gen} : others # {}}
        /\ doing' = [doing EXCEPT ![r].pc = "fetch", ![r].gen = gen]
        /\ Running(r)
        /\ UNCHANGED <<queue, text, embedded, pagesVars>>

PiecesOf(S) == [i \in 1 .. Cardinality(S) |->
                    LET p == InOrder(S)[i]
                    IN  [page |-> p, manner |-> IF p = Native THEN Off ELSE pages[p].manner]]

\* recognised_pages and comic_pages, and the text the file has itself.
FetchesPages(r) ==
    LET pieces == PiecesOf({p \in Pages : pages[p].state = "done"} \cup {p \in {Native} : book.native})
    IN  /\ Is(r, "fetch")
        /\ doing' = [doing EXCEPT ![r].made = pieces, ![r].rest = pieces,
                                  ![r].pc = IF pieces = <<>> THEN "publish" ELSE "write"]
        /\ Running(r)
        /\ UNCHANGED <<queue, crossed, pagesVars, publicVars>>

\* flush: UNIQUE (file_id, generation, sequence)
WritesText(r) ==
    LET n == Len(doing[r].made) - Len(doing[r].rest) + 1
        s == [gen |-> doing[r].gen, seq |-> n, piece |-> doing[r].made[n]]
    IN  /\ Is(r, "write")
        /\ IF \E t \in segs : t.gen = s.gen /\ t.seq = s.seq
           THEN FailsFor(r) /\ UNCHANGED <<segs, vectors>>
           ELSE /\ SegmentsBecome(segs \cup {s})
                /\ doing' = [doing EXCEPT ![r].rest = Tail(@), ![r].pc = IF Len(doing[r].rest) = 1 THEN "publish" ELSE "write"]
                /\ UNCHANGED queue
        /\ Running(r)
        /\ UNCHANGED <<crossed, text, embedded, pagesVars>>

\* text_extraction_publish
PublishesText(r) ==
    LET gen == doing[r].gen
        ready == doing[r].made # <<>>
        kept == {s \in segs : s.gen = gen /\ ready}
    IN  /\ Is(r, "publish")
        /\ IF gen # text.gen + 1 \/ (ready /\ kept = {})
           THEN FailsFor(r) /\ UNCHANGED publicVars
           ELSE /\ SegmentsBecome(kept)
                /\ text' = [gen |-> gen, status |-> IF ready THEN "ready" ELSE "empty", made |-> doing[r].made]
                /\ doing' = [doing EXCEPT ![r].pc = "done", ![r].made = <<>>]
                /\ UNCHANGED <<queue, embedded>>
        /\ Running(r)
        /\ UNCHANGED <<crossed, pagesVars>>

\* Mutant: the published text goes too.
UnreadableDrops == {s \in segs : s.gen >= text.gen}
UnpublishedSegments == {s \in segs : s.gen > text.gen}

\* text_extraction_fail: the file will not read.  What was published stays.
CannotRead(r) ==
    /\ Is(r, "fetch") \/ Is(r, "write")
    /\ mishaps < MaxMishaps
    /\ mishaps' = mishaps + 1
    /\ SegmentsBecome(segs \ UnpublishedSegments)
    /\ text' = IF text.status = "none" THEN [text EXCEPT !.status = "failed"] ELSE text
    /\ doing' = [doing EXCEPT ![r].pc = "done", ![r].made = <<>>, ![r].rest = <<>>,
                              ![r].unread = TRUE]
    /\ UNCHANGED <<book, asked, queue, crossed, embedded, pagesVars>>

-----------------------------------------------------------------------------
(* The vectors: EmbeddingIndexer. *)

EmbedClaims(r) ==
    /\ Kind(r) = "embed"
    /\ Claims(r, IF NeedsVectors THEN [Resting EXCEPT !.pc = "rows", !.gen = text.gen]
                 ELSE [Resting EXCEPT !.pc = "done"])

ReadsSegments(r) ==
    /\ Is(r, "rows")
    /\ doing' = [doing EXCEPT ![r].pc = "vectors", ![r].rows = {s \in segs : s.gen = doing[r].gen}]
    /\ Running(r)
    /\ UNCHANGED <<queue, crossed, pagesVars, publicVars>>

\* One statement for all of them; the segments must still be there.
StoresVectors(r) ==
    /\ Is(r, "vectors")
    /\ IF doing[r].rows \subseteq segs
       THEN /\ vectors' = vectors \cup doing[r].rows
            /\ doing' = [doing EXCEPT ![r].pc = "status", ![r].rows = {}]
            /\ UNCHANGED queue
       ELSE FailsFor(r) /\ UNCHANGED vectors
    /\ Running(r)
    /\ UNCHANGED <<crossed, text, segs, embedded, pagesVars>>

\* Mutant: the generation is looked up when the work is done.
RecordsPresent(r) ==
    /\ Is(r, "status")
    /\ embedded' = text.gen
    /\ Becomes(r, "done")
    /\ Running(r)
    /\ UNCHANGED <<queue, crossed, text, segs, vectors, pagesVars>>

RecordsVectors(r) ==
    /\ Is(r, "status")
    /\ embedded' = doing[r].gen
    /\ Becomes(r, "done")
    /\ Running(r)
    /\ UNCHANGED <<queue, crossed, text, segs, vectors, pagesVars>>

-----------------------------------------------------------------------------

TextsInit ==
    /\ book \in Books
    /\ choice \in Manners
    /\ decided = [language |-> Off, source |-> "none"]
    /\ pages = [p \in Pages |-> Unread]
    /\ text = [gen |-> 0, status |-> "none", made |-> <<>>]
    /\ segs = {}
    /\ vectors = {}
    /\ embedded = 0
    /\ queue = [k \in Kinds |-> IF k = "text" THEN Waiting(FALSE) ELSE NoJob]
    /\ doing = [r \in Readers |-> Resting]
    /\ crossed = {}
    /\ asked = 0
    /\ mishaps = 0

AsksFor ==
    \/ \E force \in BOOLEAN : AskText(force)
    \/ RetryPages
    \/ \E l \in Manners : SetLanguage(l)
    \/ \E m \in Manners \cup {Off} : Choose(m)
    \/ Reread

ReadsPages(r) ==
    \/ OcrEnqueues(r)
    \/ OcrClaims(r)
    \/ KeepsLanguage(r)
    \/ \E l \in Manners : DetectsLanguage(r, l)
    \/ DecidesLanguage(r)
    \/ LooksBeforeFile(r)
    \/ ListsPages(r)
    \/ LooksAtChoice(r)
    \/ \E state \in {"done", "blank", "failed"} : SavesPage(r, state)

MakesText(r) ==
    \/ TextClaims(r)
    \/ BeginsText(r)
    \/ FetchesPages(r)
    \/ WritesText(r)
    \/ PublishesText(r)
    \/ CannotRead(r)

MakesVectors(r) ==
    \/ EmbedEnqueues(r)
    \/ EmbedClaims(r)
    \/ ReadsSegments(r)
    \/ StoresVectors(r)
    \/ RecordsVectors(r)

EndsRun(r) ==
    \/ Completes(r)
    \/ Interrupted(r)
    \/ Lapses(r)

TextsNext ==
    \/ AsksFor
    \/ \E r \in Readers : ReadsPages(r) \/ MakesText(r) \/ MakesVectors(r) \/ EndsRun(r)

TextsSpec == TextsInit /\ [][TextsNext]_textsVars

-----------------------------------------------------------------------------
(* Properties. *)

TextsTypeOK ==
    /\ pages \in [Pages -> Page]
    /\ segs \in SUBSET Segment
    /\ vectors \subseteq segs
    /\ embedded \in Nat

IsWhole ==
    /\ {<<s.seq, s.piece>> : s \in Published} = {<<i, text.made[i]>> : i \in DOMAIN text.made}
    /\ text.status = "ready" <=> text.made # <<>>

\* "A search sees the old text or the new, never half of either" (migration 00019): the
\* segments of the published generation are all those of the reading that published it,
\* and no others.
WholeText == IsWhole

\* The same, where one reading at a time wrote the generation, whatever died, failed or
\* was retried before, during or after.
WholeAlone == text.gen \notin crossed => IsWhole

\* A job of OCR that succeeds has put into the text every page that was read, by it or by
\* the runs before it, in the manner it was read in, unless the file would not read, or the
\* job found another model chosen before it began with the file: then the pages that an
\* interrupted run saved stay out of the text (README).
OcrReachesText ==
    [][\A r \in Readers :
        (/\ Kind(r) = "ocr" /\ Is(r, "done") /\ doing'[r].pc = "idle"
         /\ Owns(r) /\ queue'["ocr"] = NoJob /\ mishaps' = mishaps
         /\ doing[r].manner # Off /\ ~doing[r].unread /\ ~doing[r].left /\ text.gen \notin crossed)
        => \A p \in Pages : pages[p].state = "done" =>
                \E s \in Published : s.piece = [page |-> p, manner |-> pages[p].manner]]_textsVars

\* What the status says is embedded has a vector for each segment, so that a match by
\* meaning never misses a part of a book that counts as prepared.
EmbeddedIsWhole ==
    text.status = "ready" /\ embedded = text.gen /\ text.gen \notin crossed => Published \subseteq vectors

=============================================================================
