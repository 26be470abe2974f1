----------------------------- MODULE MCJobQueue -----------------------------
(* Small instances of JobQueue for TLC. *)
EXTENDS JobQueue, TLC

CONSTANTS w1, w2, py1, py2, go1, go2

\* The kinds: an ingestion is followed by the organizing of the file, or by the
\* search for duplicates; a scan is about no work; a text may be long to read.
IngestAndOrganize == {"ingest", "organize"}
IngestAndDedupe == {"ingest", "dedupe"}
IngestOrganizeScan == {"ingest", "organize", "scan"}
IngestAndText == {"ingest", "extract_text"}
OnlyOrganize == {"organize"}
OnlyDedupe == {"dedupe"}
Nothing == {}

\* What is asked for.
AskIngest == {<<"ingest", w1>>}
AskTextAndIngest == {<<"extract_text", w1>>, <<"ingest", w2>>}
AskIngestAndScan == {<<"ingest", w1>>, <<"scan", NoWork>>}
AskDedupe == {<<"dedupe", w1>>}

\* Every loop is a process of its own; the loops of one LoopPool share the process
\* and the owner name.
Alone == [w \in Workers |-> w]
Pool == [w \in Workers |-> "pool"]

\* A Python loop takes ingestions, a Go loop what follows them.
ByKind == [w \in Workers |-> IF w \in Python THEN {"ingest"} ELSE FollowUps]
Everything == [w \in Workers |-> Types]
One == [w \in Workers |-> 1]
Two == [w \in Workers |-> 2]

SamePriority == [t \in Types |-> 0]
IngestFirst == [t \in Types |-> IF t = "ingest" THEN 10 ELSE 0]
OneAttempt == [t \in Types |-> 1]
TwoAttempts == [t \in Types |-> 2]

OneSerial == {1}
TwoSerials == {1, 2}

TwoPython == Permutations({py1, py2})
=============================================================================
