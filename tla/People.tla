------------------------------- MODULE People -------------------------------
(***************************************************************************)
(* Who the authors of the works are: the people a name stands for, the     *)
(* pairs that may be one person, their merge, and the profile of a person, *)
(* read from Wikidata or written by the staff (merge.go, metadata.go,      *)
(* work_contributors.go, people_profile_manual.go, analyzer.py,            *)
(* profiles.py).                                                           *)
(*                                                                         *)
(* A change of the credits of one work holds the work until it commits and *)
(* is one step; a merge holds no work, and what it copied and what it      *)
(* deletes are two.  The choice of an identifier is three (one is open at  *)
(* a time): what it has not committed nobody sees, and only who needs a    *)
(* row it wrote waits.  A statement that writes profiles is two: what it   *)
(* sees, and what it writes.  The analysis of a file commits every         *)
(* statement.  A person is known by the name, which no two have.  The      *)
(* other roles, which are changed alike, the limits on how many people a   *)
(* work credits, and the surname are left out.                             *)
(***************************************************************************)
EXTENDS Naturals, FiniteSets

CONSTANTS
    Names,          \* numbers, in the order the names are sorted
    Titles,         \* the works
    Credited,       \* [Titles -> authors and their places], the library to begin with
    Alike,          \* the pairs of names made of the same words
    Identifiers,    \* of Wikidata
    Staffers,       \* requests of the staff that may be in progress at once
    MaxRequests,    \* bound: the requests of the staff and the analyses
    Subjects,       \* bound: what one behaviour asks for besides merges
    NoName, NoIdentifier

Pairs == {P \in SUBSET Names : \E m, n \in P : m # n /\ P = {m, n}}

ASSUME PeopleAssumption ==
    /\ Names \subseteq Nat /\ NoName \notin Names
    /\ Credited = [t \in Titles |-> Credited[t]] /\ \A t \in Titles : DOMAIN Credited[t] \subseteq Names
    /\ Alike \subseteq Pairs
    /\ NoIdentifier \notin Identifiers /\ Identifiers \cap {"none", "manual"} = {}
    /\ MaxRequests \in Nat /\ Subjects \subseteq {"authors", "profiles"}

VARIABLES
    persons,    \* the names that have a row in person
    credit,     \* work_contributors: the place of each author of a work
    fixed,      \* author_lock
    origin,     \* the source of the author in work_field_sources
    pairs,      \* person_merge_candidates
    alias,      \* person_alias, by the person
    holds,      \* the identifiers in person_authority
    profile,    \* person_profile: none, written by hand, or read by an identifier
    remembered, \* authority_lookups: what was answered for an identifier
    link,       \* LinkProfile, while it has not committed
    missed,     \* history: whose profile was written by a statement that a link crossed
    analysis,   \* of a file, the author only
    reader,     \* of profiles, and the statement it is at
    merging,    \* the merge each request is in
    absorbed,   \* history: the names whose person was merged into another
    subject, requests

peopleVars == <<persons, credit, fixed, origin, pairs, alias, holds, profile, remembered,
                link, missed, analysis, reader, merging, absorbed, subject, requests>>
works == <<credit, fixed, origin>>
profiles == <<holds, profile, remembered, link, missed>>

-----------------------------------------------------------------------------

NoAnalysis == [pc |-> "idle", of |-> NoName, title |-> NoName, lost |-> FALSE]

\* rows: the identifier of whose profile each person gets one; lost: one of those people
\* is gone; crossed: whose link committed since the statement looked.
Nobody == [n \in Names |-> NoIdentifier]
NotReading == [pc |-> "idle", id |-> NoIdentifier, asked |-> {}, rows |-> Nobody, lost |-> FALSE, crossed |-> {}]
Giving == reader.pc \in {"keeping", "sharing"}

\* gone: the identifiers it deletes; others: who holds the new one; found: the profile it
\* locked; drops and forgets: whether it deletes a profile, and what was answered.
NoLink == [pc |-> "none", of |-> NoName, id |-> NoIdentifier, gone |-> {}, others |-> {},
           found |-> "none", drops |-> FALSE, forgets |-> FALSE]

\* moved: the works whose credit becomes keep's; names and ids: what was copied of other;
\* had: its aliases then; crossed: the works whose credits others changed since.
NoMerge == [keep |-> NoName, other |-> NoName, moved |-> {}, names |-> {}, ids |-> {}, had |-> {}, crossed |-> {}]
Merging(p) == merging[p].keep # NoName
PairOf(p) == {merging[p].keep, merging[p].other}

Authors(t) == DOMAIN credit[t]
Sooner(C, m, n) == C[m] < C[n] \/ (C[m] = C[n] /\ m < n)
\* firstAuthor: by place, then by name.
IsFirst(C, n) == n \in DOMAIN C /\ \A m \in DOMAIN C \ {n} : Sooner(C, n, m)
First(C) == IF DOMAIN C = {} THEN NoName ELSE CHOOSE n \in DOMAIN C : IsFirst(C, n)

With(C, n, place) == [m \in DOMAIN C \cup {n} |-> IF m \in DOMAIN C THEN C[m] ELSE place]
Without(C, S) == [m \in DOMAIN C \ S |-> C[m]]
\* renumber
Renumbered(C) == [n \in DOMAIN C |-> Cardinality({m \in DOMAIN C : Sooner(C, m, n)})]
\* After the last of them.
Last(C) == IF DOMAIN C = {} THEN 0 ELSE 1 + (CHOOSE k \in {C[n] : n \in DOMAIN C} : \A n \in DOMAIN C : C[n] <= k)
AtFirst(C) == {n \in DOMAIN C : C[n] = 0}

\* The row of a work that a merge moved is locked until it commits, and the one it became.
RowsFree(t, people) == \A p \in Staffers : t \in merging[p].moved => people \cap PairOf(p) = {}
Changed(C, D) == {n \in DOMAIN C \cup DOMAIN D : n \notin DOMAIN C \cap DOMAIN D \/ C[n] # D[n]}
Crossing(T) == [p \in Staffers |-> IF Merging(p) THEN [merging[p] EXCEPT !.crossed = @ \cup T] ELSE merging[p]]

Asking == requests < MaxRequests /\ requests' = requests + 1 /\ UNCHANGED subject
AsksAbout(s) == Asking /\ subject = s

-----------------------------------------------------------------------------
(* The author of a work, by the staff. *)

\* What a person changes of the credits of a work; Resolve makes the person if there is none.
Credits(t, n, C) ==
    /\ AsksAbout("authors") /\ RowsFree(t, Changed(credit[t], C) \cup {n})
    /\ persons' = persons \cup {n}
    /\ credit' = [credit EXCEPT ![t] = C]
    /\ merging' = Crossing({t})
    /\ UNCHANGED <<pairs, alias, profiles, analysis, reader, absorbed>>

Confirmed(t) == fixed' = [fixed EXCEPT ![t] = TRUE] /\ origin' = [origin EXCEPT ![t] = "person"]

\* confirmFirstAuthor: when the first author is another one.
ConfirmsFirst(t, C) == IF First(C) # First(credit[t]) THEN Confirmed(t) ELSE UNCHANGED <<fixed, origin>>

\* setFirstAuthor: the row at the first place goes; who has a row keeps the place of it.
FirstSet(C, n) == With(Without(C, AtFirst(C)), n, 0)

\* applyWorkFields of UpdateWork and AcceptCandidate: an author, or only the lock.
SetAuthor(t, n) ==
    /\ n # First(credit[t])
    /\ Credits(t, n, FirstSet(credit[t], n)) /\ Confirmed(t)

SetLock(t, on) ==
    /\ AsksAbout("authors") /\ fixed[t] # on
    /\ fixed' = [fixed EXCEPT ![t] = on]
    /\ UNCHANGED <<persons, credit, origin, pairs, alias, profiles, analysis, reader, merging, absorbed>>

AddContributor(t, n) ==
    LET C == With(credit[t], n, Last(credit[t]))
    IN  n \notin Authors(t) /\ Credits(t, n, C) /\ ConfirmsFirst(t, C)

\* addContributors, of an accepted suggestion: nothing is confirmed.
AcceptContributor(t, n) ==
    /\ Credits(t, n, With(credit[t], n, Last(credit[t])))
    /\ UNCHANGED <<fixed, origin>>

RemoveContributor(t, n) ==
    LET C == Renumbered(Without(credit[t], {n}))
    IN  n \in Authors(t) /\ Credits(t, n, C) /\ ConfirmsFirst(t, C)

OrderContributors(t, C) ==
    /\ DOMAIN C = Authors(t) /\ Renumbered(C) = C /\ C # credit[t]
    /\ RowsFree(t, Authors(t))
    /\ \E n \in Authors(t) : Credits(t, n, C)
    /\ ConfirmsFirst(t, C)

-----------------------------------------------------------------------------
(* The author of a work, by the analysis: save_metadata. *)

MayFillAuthor(t) == ~fixed[t] /\ (Authors(t) = {} \/ origin[t] = "file")

LoadAuthor(t, n) ==
    /\ AsksAbout("authors")
    /\ analysis.pc = "idle"
    /\ MayFillAuthor(t) /\ n # First(credit[t])
    /\ analysis' = [pc |-> "resolving", of |-> n, title |-> t, lost |-> FALSE]
    /\ UNCHANGED <<persons, works, pairs, alias, profiles, reader, merging, absorbed>>

ResolveAuthor ==
    /\ analysis.pc = "resolving"
    /\ persons' = persons \cup {analysis.of}
    /\ analysis' = [analysis EXCEPT !.pc = "removing"]
    /\ UNCHANGED <<works, pairs, alias, profiles, reader, merging, absorbed, subject, requests>>

RemoveFirst ==
    LET t == analysis.title
    IN  /\ analysis.pc = "removing" /\ RowsFree(t, AtFirst(credit[t]))
        /\ credit' = [credit EXCEPT ![t] = Without(@, AtFirst(@))]
        /\ analysis' = [analysis EXCEPT !.pc = "inserting"]
        /\ merging' = Crossing({t})
        /\ UNCHANGED <<persons, fixed, origin, pairs, alias, profiles, reader, absorbed, subject, requests>>

\* A person who is gone fails the job.
InsertFirst ==
    LET t == analysis.title
    IN  /\ analysis.pc = "inserting" /\ RowsFree(t, {analysis.of})
        /\ IF analysis.lost
           THEN analysis' = NoAnalysis /\ UNCHANGED <<credit, merging>>
           ELSE /\ credit' = [credit EXCEPT ![t] = With(@, analysis.of, 0)]
                /\ analysis' = [analysis EXCEPT !.pc = "recording"]
                /\ merging' = Crossing({t})
        /\ UNCHANGED <<persons, fixed, origin, pairs, alias, profiles, reader, absorbed, subject, requests>>

RecordAuthor ==
    /\ analysis.pc = "recording"
    /\ origin' = [origin EXCEPT ![analysis.title] = "file"]
    /\ analysis' = NoAnalysis
    /\ UNCHANGED <<persons, credit, fixed, pairs, alias, profiles, reader, merging, absorbed, subject, requests>>

-----------------------------------------------------------------------------
(* Two people that are one. *)

\* Somebody else holds the same identifier.
Sharing(P) == \E m, n \in P : m # n /\ holds[m] \cap holds[n] # {}

\* Detect and detectShared, one pair: "a pair that already exists, whatever its state, is left alone".
Detect(P) ==
    /\ P \subseteq persons /\ (P \in Alike \/ Sharing(P))
    /\ pairs[P] = "none"
    /\ pairs' = [pairs EXCEPT ![P] = "pending"]
    /\ UNCHANGED <<persons, works, alias, profiles, analysis, reader, merging, absorbed, subject, requests>>

PairFree(P) == \A p \in Staffers : P # PairOf(p)

Dismiss(P) ==
    /\ Asking /\ pairs[P] = "pending" /\ PairFree(P)
    /\ pairs' = [pairs EXCEPT ![P] = "dismissed"]
    /\ UNCHANGED <<persons, works, alias, profiles, analysis, reader, merging, absorbed>>

\* Mutant: whatever keep is an author of is left alone.
MovedOfUnknown(keep, other) ==
    {t \in Titles : other \in Authors(t) /\ \A u \in Titles : keep \notin Authors(u)}

\* "Its works are keep's, once each: a work that had both keeps the one row it has."
Moved(keep, other) == {t \in Titles : other \in Authors(t) /\ keep \notin Authors(t)}

\* Mutant: the aliases it had do not come along.
CopiedName(other) == {other}
CopiedNames(other) == {other} \cup alias[other]

\* The identifiers of a person that a link has deleted, or inserted, and not committed.
Held(n) == IF link.of = n THEN link.gone \cup ({link.id} \ holds[n]) ELSE {}

\* Merge, up to the copies, which nobody sees yet.
BeginMerge(p, keep, other) ==
    LET P == {keep, other}
    IN  /\ Asking /\ ~Merging(p)
        /\ keep # other /\ pairs[P] = "pending" /\ PairFree(P)
        /\ \A t \in Moved(keep, other) : RowsFree(t, P)
        /\ ~(link.of = keep /\ holds[other] \cap Held(keep) # {})
        /\ merging' = [merging EXCEPT ![p] =
              [keep |-> keep, other |-> other, moved |-> Moved(keep, other),
               names |-> CopiedNames(other), ids |-> holds[other], had |-> alias[other], crossed |-> {}]]
        /\ UNCHANGED <<persons, works, pairs, alias, profiles, analysis, reader, absorbed>>

\* The credits of a work after the merge M: what is left of other goes with it.
Joint(M, t) ==
    LET C == credit[t]
    IN  Without(IF t \in M.moved THEN With(C, M.keep, C[M.other]) ELSE C, {M.other})

\* The deletion of other, and of all that refers to it, waits for the merges into it and
\* for the link of it; and the commit.
CommitMerge(p) ==
    LET M == merging[p]
        other == M.other
    IN  /\ Merging(p)
        /\ \A q \in Staffers \ {p} : other \notin PairOf(q)
        /\ other # link.of
        /\ persons' = persons \ {other}
        /\ credit' = [t \in Titles |-> Joint(M, t)]
        /\ pairs' = [P \in Pairs |-> IF other \in P THEN "none" ELSE pairs[P]]
        /\ alias' = [alias EXCEPT ![M.keep] = @ \cup M.names, ![other] = {}]
        /\ holds' = [holds EXCEPT ![M.keep] = @ \cup M.ids, ![other] = {}]
        /\ profile' = [profile EXCEPT ![other] = "none"]
        /\ analysis' = [analysis EXCEPT !.lost = @ \/ (analysis.of = other /\ analysis.pc \in {"removing", "inserting"})]
        /\ merging' = [Crossing({t \in Titles : M.other \in Authors(t)}) EXCEPT ![p] = NoMerge]
        /\ reader' = [reader EXCEPT !.lost = @ \/ reader.rows[other] # NoIdentifier]
        /\ absorbed' = (absorbed \cup {other}) \ (alias[other] \ M.had)
        /\ UNCHANGED <<fixed, origin, remembered, link, missed, subject, requests>>

AbortMerge(p) ==
    /\ Merging(p)
    /\ merging' = [merging EXCEPT ![p] = NoMerge]
    /\ UNCHANGED <<persons, works, pairs, alias, profiles, analysis, reader, absorbed, subject, requests>>

-----------------------------------------------------------------------------
(* Identifiers and profiles. *)

\* RecordAuthority: a pair with each of the others who hold the identifier.
PairedWith(n, others) ==
    pairs' = [P \in Pairs |-> IF n \in P /\ pairs[P] = "none" /\ P \cap others # {} THEN "pending" ELSE pairs[P]]

HoldersBut(n, q) == {m \in Names \ {n} : q \in holds[m]}

\* recordAuthorAuthority, of an accepted author.
Identify(n, q) ==
    /\ AsksAbout("profiles") /\ n \in persons /\ q \notin Held(n)
    /\ holds' = [holds EXCEPT ![n] = @ \cup {q}]
    /\ PairedWith(n, HoldersBut(n, q))
    /\ UNCHANGED <<persons, works, alias, profile, remembered, link, missed, analysis, reader, merging, absorbed>>

\* LinkProfile: it locks the profile, if there is one, and "the identifier the person held
\* before is not theirs any more".
BeginLink(n, q) ==
    /\ AsksAbout("profiles") /\ n \in persons /\ link = NoLink
    /\ link' = [NoLink EXCEPT !.pc = "linked", !.of = n, !.id = q, !.gone = holds[n] \ {q},
                              !.others = HoldersBut(n, q), !.found = profile[n]]
    /\ UNCHANGED <<persons, works, pairs, alias, holds, profile, remembered, missed, analysis, reader, merging, absorbed>>

\* What was written by hand is kept, or read by this identifier; else what there is goes,
\* which may not be what was found.
DropProfile ==
    LET queued == link.found \notin {"manual", link.id}
    IN  /\ link.pc = "linked"
        /\ link' = [link EXCEPT !.pc = "dropped", !.drops = queued /\ profile[link.of] # "none",
                                !.forgets = queued /\ remembered[link.id] # "none"]
        /\ UNCHANGED <<persons, works, pairs, alias, holds, profile, remembered, missed, analysis, reader, merging,
                       absorbed, subject, requests>>

CommitLink ==
    LET n == link.of
    IN  /\ link.pc = "dropped"
        /\ holds' = [holds EXCEPT ![n] = (@ \ link.gone) \cup {link.id}]
        /\ PairedWith(n, link.others \cap persons)
        /\ profile' = [profile EXCEPT ![n] = IF link.drops THEN "none" ELSE @]
        /\ remembered' = [remembered EXCEPT ![link.id] = IF link.forgets THEN "none" ELSE @]
        /\ reader' = [reader EXCEPT !.crossed = IF Giving THEN @ \cup {n} ELSE {}]
        /\ link' = NoLink
        /\ UNCHANGED <<persons, works, alias, missed, analysis, merging, absorbed, subject, requests>>

AbortLink ==
    /\ link # NoLink
    /\ link' = NoLink
    /\ UNCHANGED <<persons, works, pairs, alias, holds, profile, remembered, missed, analysis, reader, merging,
                   absorbed, subject, requests>>

\* The profile a link found, or deletes: who would write it waits.
ProfileLocked(n) == link.of = n /\ (link.found # "none" \/ link.drops)

\* writeProfile
WriteProfile(n) ==
    /\ AsksAbout("profiles") /\ n \in persons /\ ~ProfileLocked(n)
    /\ profile' = [profile EXCEPT ![n] = "manual"]
    /\ UNCHANGED <<persons, works, pairs, alias, holds, remembered, link, missed, analysis, reader, merging, absorbed>>

ResetProfile(n) ==
    /\ AsksAbout("profiles") /\ profile[n] # "none" /\ ~ProfileLocked(n)
    /\ profile' = [profile EXCEPT ![n] = "none"]
    /\ remembered' = [q \in Identifiers |-> IF q \in holds[n] THEN "none" ELSE remembered[q]]
    /\ UNCHANGED <<persons, works, pairs, alias, holds, link, missed, analysis, reader, merging, absorbed>>

Reads == UNCHANGED <<persons, works, pairs, alias, holds, link, analysis, merging, absorbed, subject, requests>>

Unprofiled(q) == {n \in persons : q \in holds[n] /\ profile[n] = "none"}

\* _SHARE: another person with the same identifier has the profile already.
Share ==
    LET had(n) == {q \in holds[n] : profile[n] = "none" /\ \E m \in persons : profile[m] = q}
    IN  /\ reader = NotReading
        /\ \E rows \in [Names -> Identifiers \cup {NoIdentifier}] :
              /\ \A n \in Names : IF had(n) # {} THEN rows[n] \in had(n) ELSE rows[n] = NoIdentifier
              /\ rows # Nobody
              /\ reader' = [NotReading EXCEPT !.pc = "sharing", !.rows = rows]
        /\ Reads /\ UNCHANGED <<profile, remembered, missed>>

\* _PENDING, and the request to Wikidata.
BeginRead(q) ==
    /\ reader = NotReading
    /\ remembered[q] = "none" /\ Unprofiled(q) # {}
    /\ reader' = [NotReading EXCEPT !.pc = "asked", !.id = q, !.asked = Unprofiled(q)]
    /\ Reads /\ UNCHANGED <<profile, remembered, missed>>

\* Mutant: the profile is kept for those it was read for.
HoldersAsked(q) == reader.asked \cap persons
Holders(q) == {n \in persons : q \in holds[n]}

\* _KEEP: one statement, for all who hold the identifier when it begins.
KeepProfile ==
    /\ reader.pc = "asked"
    /\ reader' = [reader EXCEPT !.pc = "keeping", !.asked = {},
                  !.rows = [n \in Names |-> IF n \in Holders(reader.id) THEN reader.id ELSE NoIdentifier]]
    /\ Reads /\ UNCHANGED <<profile, remembered, missed>>

\* ON CONFLICT DO UPDATE, if it was not written by hand; or DO NOTHING.
Replaced(n) == IF reader.pc = "keeping" THEN profile[n] # "manual" ELSE profile[n] = "none"
Given == {n \in Names : reader.rows[n] # NoIdentifier}

\* The rows of the statement, with _REMEMBER; a person who is gone fails it.
WriteRows ==
    LET written == {n \in Given : Replaced(n)}
        keeping == reader.pc = "keeping"
    IN  /\ Giving
        /\ \A n \in Given : ~ProfileLocked(n)
        /\ keeping => ~(link.forgets /\ link.id = reader.id)
        /\ IF reader.lost
           THEN UNCHANGED <<profile, remembered, missed>>
           ELSE /\ profile' = [n \in Names |-> IF n \in written THEN reader.rows[n] ELSE profile[n]]
                /\ remembered' = IF keeping THEN [remembered EXCEPT ![reader.id] = "done"] ELSE remembered
                /\ missed' = (missed \ written) \cup (written \cap (reader.crossed \cup {link.of}))
        /\ reader' = NotReading
        /\ Reads

\* There is no such person, or there is no answer, which is asked for again.
NotFound ==
    /\ reader # NotReading
    /\ \/ UNCHANGED remembered
       \/ /\ reader.pc = "asked" /\ ~(link.forgets /\ link.id = reader.id)
          /\ remembered' = [remembered EXCEPT ![reader.id] = "missing"]
    /\ reader' = NotReading
    /\ Reads /\ UNCHANGED <<profile, missed>>

-----------------------------------------------------------------------------

PeopleInit ==
    /\ credit = Credited
    /\ persons = UNION {Authors(t) : t \in Titles}
    /\ fixed = [t \in Titles |-> FALSE] /\ origin = [t \in Titles |-> "file"]
    /\ pairs = [P \in Pairs |-> "none"]
    /\ alias = [n \in Names |-> {}] /\ holds = [n \in Names |-> {}]
    /\ profile = [n \in Names |-> "none"] /\ remembered = [q \in Identifiers |-> "none"]
    /\ link = NoLink /\ missed = {}
    /\ analysis = NoAnalysis /\ reader = NotReading
    /\ merging = [p \in Staffers |-> NoMerge]
    /\ absorbed = {} /\ subject \in Subjects /\ requests = 0

Contributors(t) ==
    \/ \E n \in Names : SetAuthor(t, n) \/ AddContributor(t, n) \/ AcceptContributor(t, n) \/ RemoveContributor(t, n)
    \/ \E C \in [Authors(t) -> 0..Cardinality(Names)] : OrderContributors(t, C)
    \/ \E on \in BOOLEAN : SetLock(t, on)

AuthorAnalysis ==
    \/ \E t \in Titles, n \in Names : LoadAuthor(t, n)
    \/ ResolveAuthor \/ RemoveFirst \/ InsertFirst \/ RecordAuthor

Merges(p) ==
    \/ \E keep, other \in Names : BeginMerge(p, keep, other)
    \/ CommitMerge(p) \/ AbortMerge(p)

Profiling ==
    \/ \E n \in Names : WriteProfile(n) \/ ResetProfile(n)
    \/ \E n \in Names, q \in Identifiers : Identify(n, q) \/ BeginLink(n, q)
    \/ DropProfile \/ CommitLink \/ AbortLink
    \/ Share \/ KeepProfile \/ WriteRows \/ NotFound
    \/ \E q \in Identifiers : BeginRead(q)

PeopleNext ==
    \/ \E t \in Titles : Contributors(t)
    \/ AuthorAnalysis
    \/ \E P \in Pairs : Detect(P) \/ Dismiss(P)
    \/ \E p \in Staffers : Merges(p)
    \/ Profiling

PeopleSpec == PeopleInit /\ [][PeopleNext]_peopleVars

-----------------------------------------------------------------------------
(* Properties. *)

PeopleTypeOK ==
    /\ persons \subseteq Names
    /\ \A t \in Titles : Authors(t) \subseteq persons
    /\ fixed \in [Titles -> BOOLEAN] /\ origin \in [Titles -> {"file", "person"}]
    /\ pairs \in [Pairs -> {"none", "pending", "dismissed"}]
    /\ alias \in [Names -> SUBSET Names] /\ holds \in [Names -> SUBSET Identifiers]
    /\ profile \in [Names -> {"none", "manual"} \cup Identifiers] /\ remembered \in [Identifiers -> {"none", "done", "missing"}]
    /\ absorbed \subseteq Names /\ missed \subseteq Names /\ requests \in 0..MaxRequests

\* "Nothing that was written is lost: it is all an alias now" (merge.go): a name whose
\* person was merged into another, and that one into a third, is an alias of somebody.
\* The names that came to a person while it was being merged away are excepted.
AbsorbedIsFound == \A n \in absorbed : \E m \in persons : n \in alias[m]

Commits(p) == Merging(p) /\ persons' # persons /\ merging'[p] = NoMerge

\* "Its works are keep's": the works of the person that is merged away credit the one that
\* stays.  Those whose credits somebody changed during the merge are excepted.
CreditsFollow ==
    [][\A p \in Staffers : Commits(p) =>
          \A t \in Titles \ merging[p].crossed :
              merging[p].other \in Authors(t) => merging[p].keep \in Authors(t)']_peopleVars

\* A profile that was read is of an identifier the person holds, also when the staff chose
\* another one, or two people were merged, while it was being read ("that identifier is the
\* wrong person's").  Excepted is a profile that was written by a statement while the choice
\* had not committed, or had committed since the statement looked at who holds what.
ProfileIsTheirs == \A n \in persons \ missed : profile[n] \in Identifiers => profile[n] \in holds[n]

\* "setFirstAuthor makes name the work's first author" (metadata.go).
NamedLeads ==
    [][\A t \in Titles, n \in Names : SetAuthor(t, n) => IsFirst(credit'[t], n)]_peopleVars

\* "What was read is never marked read without being kept" (profiles.py): somebody who holds
\* an identifier that was answered and has no profile will be given one that is there.
ReadIsKept ==
    \A q \in Identifiers :
        remembered[q] = "done" /\ Unprofiled(q) # {} => \E m \in persons : profile[m] = q

\* ProfileIsTheirs without its exception: a link that has not committed locks nothing that
\* _KEEP waits for when the person has no profile, so that it is kept for who held the
\* identifier before.
ProfileIsAlwaysTheirs == \A n \in persons : profile[n] \in Identifiers => profile[n] \in holds[n]

\* CreditsFollow without its exception: of two merges at once, the one that deletes a person
\* deletes what the other has just given it.
WorksFollow ==
    [][\A p \in Staffers, t \in Titles :
          Commits(p) /\ merging[p].other \in Authors(t) => merging[p].keep \in Authors(t)']_peopleVars
=============================================================================
