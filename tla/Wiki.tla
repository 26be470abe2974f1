-------------------------------- MODULE Wiki --------------------------------
(***************************************************************************)
(* The wiki of one work or series and what people did to it: every         *)
(* generation replaces the whole wiki, and what the staff decided is put   *)
(* on the new one (store.go, review.go, identity.go, manual.go).           *)
(*                                                                         *)
(* Two names, which the books may write as two entities or as one; one     *)
(* entity may also answer to the name of the other.  A slug is the name an *)
(* entity was made for.  A page has sections; a section has one sentence,  *)
(* known by the names of the entity the generator wrote it of and by its   *)
(* section, so two generations that write of the same entity write the     *)
(* same text.  Of the two entities that are joined, which one stays        *)
(* depends on their pages and chapters and is left open.  Aliases that are *)
(* no entity's name, aliases taken away or written by hand, a third entity *)
(* that is written by hand under a name two carry, ties, states, edges,    *)
(* quotes and chapters that disappear from a book are left out.            *)
(*                                                                         *)
(* A transaction of the staff is one step, but for a decision, which reads *)
(* the two entities first, without a lock; one decision is taken at a      *)
(* time.  An import is three: what it reads of the wiki it replaces, what  *)
(* it writes, and its commit.                                              *)
(***************************************************************************)
EXTENDS Naturals, FiniteSets

CONSTANTS
    Names,          \* of the two entities
    Keys,           \* SectionKey: kind, book, first chapter and part
    Findings,       \* what a generation may find to write
    Subjects,       \* the names people write about by hand
    Runs, Upload,   \* who imports: the importer of the runs, a request
    MaxGenerations, \* bound: bundles
    MaxItems,       \* bound: things written by hand
    NoProject, NoBundle

Kept == 1..MaxItems
Maps(A, B) == UNION {[D -> B] : D \in SUBSET A}

\* What the generator wrote, and what a person wrote.
Text == [who : (SUBSET Names) \ {{}}, key : Keys, item : {0}] \cup [who : {{}}, key : Keys, item : Kept]
Item == [id : Kept, kind : {"entity", "section"}, of : Names, key : Keys]
Change == [slug : Names, added : SUBSET Keys]
Ask == {"none", "open", "declined", "joined"}

\* ents: the names each slug answers to; made: the item an entity comes from; on: the
\* slug each text is under; ask: the suggestion that the two are one.
Project == [id : Nat, ents : Maps(Names, SUBSET Names), made : [Names -> {0} \cup Kept],
            on : Maps(Text, Names), hidden : SUBSET Text, ask : Ask, changes : SUBSET Change, review : BOOLEAN]
\* update: the run is of origin new_book.
Bundle == [ents : Maps(Names, SUBSET Names), writes : Maps(Names, SUBSET Keys), suggests : BOOLEAN, update : BOOLEAN]
\* Of what was found, at most one entity answers to both names.
IsFinding(f) ==
    /\ f \in Bundle /\ DOMAIN f.writes = DOMAIN f.ents
    /\ \A s \in DOMAIN f.ents : s \in f.ents[s]
    /\ \A s, x \in DOMAIN f.ents : s = x \/ f.ents[s] = {s} \/ f.ents[x] = {x}

ASSUME WikiAssumption ==
    /\ \E a, b \in Names : a # b /\ Names = {a, b}
    /\ \A f \in Findings : IsFinding(f)
    /\ Keys # {} /\ Subjects \subseteq Names /\ MaxGenerations \in Nat /\ MaxItems \in Nat
    /\ NoProject \notin Project

VARIABLES
    project,    \* the row of wiki_projects and all that hangs from it
    rules,      \* wiki_identity_rules about the two names
    items,      \* wiki_manual_items
    gen,        \* the generation that runs: the rules it read
    bundle,     \* wiki_run_bundles
    imp,        \* the import of each importer
    deciding,   \* Decide: the project and the entities it read
    late,       \* history: the last project a rule was saved for too late to join anything
    bundles, written  \* bounds; they also name projects and items

vars == <<project, rules, items, gen, bundle, imp, deciding, late, bundles, written>>

-----------------------------------------------------------------------------

IsProject(p) ==
    /\ p \in Project
    /\ \A s \in DOMAIN p.ents : s \in p.ents[s]
    /\ \A t \in DOMAIN p.on : p.on[t] \in DOMAIN p.ents
    /\ p.hidden \subseteq DOMAIN p.on

IsBundle(b) ==
    /\ b \in Bundle /\ DOMAIN b.writes = DOMAIN b.ents
    /\ \A s \in DOMAIN b.ents : s \in b.ents[s]

NoChange == [slug \in {} |-> {}]
Idle == [pc |-> "idle", bundle |-> NoBundle, old |-> 0, had |-> NoChange, hidden |-> {}, declined |-> FALSE,
         rules |-> {}, items |-> {}]
NoDecision == [kind |-> "none", id |-> 0, made |-> [n \in Names |-> 0]]

Union(f, g) == [x \in DOMAIN f \cup DOMAIN g |-> IF x \in DOMAIN f THEN f[x] ELSE g[x]]
Only(f, S) == [x \in DOMAIN f \cap S |-> f[x]]

\* find: the entity that answers to a name, when it is only one.
Finds(ents, n, s) == {x \in DOMAIN ents : n \in ents[x]} = {s}
Known(ents, n) == \E s \in DOMAIN ents : Finds(ents, n, s)
Carried(ents, n) == \E s \in DOMAIN ents : n \in ents[s]
Apart(p) == DOMAIN p.ents = Names
\* What applyRules can tell apart: each name leads to one entity, and to another one.
TwoFound(p) == Apart(p) /\ \A n \in Names : Known(p.ents, n)

-----------------------------------------------------------------------------
(* What a project is made of. *)

\* mergeEntities: the sections the one that stays does not have move to it, the others
\* go with the one that is dropped.
Merged(p, keep, drop) ==
    LET stays(t) == p.on[t] # drop \/ \A u \in DOMAIN p.on : p.on[u] = keep => u.key # t.key
        texts == {t \in DOMAIN p.on : stays(t)}
    IN  [p EXCEPT !.ents = [s \in DOMAIN @ \ {drop} |-> IF s = keep THEN @[keep] \cup @[drop] ELSE @[s]],
                  !.made[drop] = 0,
                  !.on = [t \in texts |-> IF @[t] = drop THEN keep ELSE @[t]],
                  !.hidden = @ \cap texts,
                  !.ask = IF @ = "none" THEN @ ELSE "joined"]

Declined(p) == [p EXCEPT !.ask = IF @ = "open" THEN "declined" ELSE @]

\* applyRules: what was joined is joined, then what was kept apart is answered.
Ruled(p, rs, keep) ==
    LET joined == IF "same" \in rs /\ TwoFound(p) THEN Merged(p, keep, CHOOSE n \in Names : n # keep) ELSE p
    IN  IF "distinct" \in rs /\ TwoFound(joined) THEN Declined(joined) ELSE joined

ByHand(i) == [who |-> {}, key |-> i.key, item |-> i.id]
First(its, n) == CHOOSE i \in its : i.of = n /\ \A j \in its : j.of = n => i.id <= j.id

\* applyManualItems: the entities first, unless the generation wrote them too; then the
\* sections of those that are there.
WithItems(p, its) ==
    LET new == {i \in its : i.kind = "entity" /\ ~Carried(p.ents, i.of)}
        ents == Union(p.ents, [n \in {i.of : i \in new} |-> {n}])
        shown == {i \in its : i.kind = "section" /\ Known(ents, i.of)}
        under(t) == CHOOSE s \in DOMAIN ents : \E i \in shown : i.id = t.item /\ Finds(ents, i.of, s)
    IN  [p EXCEPT !.ents = ents,
                  !.made = [n \in Names |-> IF n \in {i.of : i \in new} THEN First(new, n).id ELSE @[n]],
                  !.on = Union(@, [t \in {ByHand(i) : i \in shown} |-> under(t)])]

\* manual_item_id: the items that rows of the project come from.
ItemsOf(p) == {t.item : t \in DOMAIN p.on} \cup {p.made[n] : n \in Names}
Ids(its) == {i.id : i \in its}

\* Mutant: the rows of the project do not follow their items.
Untouched(p, ids) == p

\* ON DELETE CASCADE of manual_item_id: the rows the items made, an entity with all
\* that is under it.
Without(p, ids) ==
    LET ents == Only(p.ents, {s \in Names : p.made[s] \notin ids})
        texts == {t \in DOMAIN p.on : t.item \notin ids /\ p.on[t] \in DOMAIN ents}
    IN  [p EXCEPT !.ents = ents, !.on = Only(@, texts), !.hidden = @ \cap texts,
                  !.made = [n \in Names |-> IF n \in DOMAIN ents THEN @[n] ELSE 0]]

\* build_bundle: the generator joins what a rule joins, unless a rule keeps it apart, and
\* suggests only pairs that nobody decided about.
BundleOf(f, rs, name) ==
    LET joins == rs = {"same"} /\ DOMAIN f.ents = Names
    IN  [ents |-> IF joins THEN [s \in {name} |-> Names] ELSE f.ents,
         writes |-> IF joins THEN [s \in {name} |-> UNION {f.writes[n] : n \in Names}] ELSE f.writes,
         suggests |-> f.suggests /\ rs = {} /\ DOMAIN f.ents = Names, update |-> f.update]

\* The project Import makes of a bundle, before the decisions are put on it.
Imported(b, old, had, hidden, declined) ==
    LET on == [t \in {[who |-> b.ents[s], key |-> k, item |-> 0] : s \in DOMAIN b.ents, k \in Keys} |->
                  CHOOSE s \in DOMAIN b.ents : b.ents[s] = t.who]
        texts == {t \in DOMAIN on : t.key \in b.writes[on[t]]}
        added(s) == b.writes[s] \ (IF s \in DOMAIN had THEN had[s] ELSE {})
    IN  [id |-> bundles, ents |-> b.ents, made |-> [n \in Names |-> 0], on |-> Only(on, texts),
         hidden |-> {t \in texts : <<on[t], t>> \in hidden},
         ask |-> IF ~b.suggests THEN "none" ELSE IF declined THEN "declined" ELSE "open",
         changes |-> IF old = 0 THEN {}
                     ELSE {[slug |-> s, added |-> added(s)] : s \in {x \in DOMAIN b.ents : added(x) # {}}},
         review |-> FALSE]

-----------------------------------------------------------------------------
(* A generation: service.py reads the rules when it starts and leaves a bundle. *)

BeginGeneration ==
    /\ gen.pc = "idle" /\ bundle = NoBundle
    /\ bundles < MaxGenerations
    /\ gen' = [pc |-> "writing", rules |-> rules]
    /\ UNCHANGED <<project, rules, items, bundle, imp, deciding, late, bundles, written>>

FinishGeneration ==
    /\ gen.pc = "writing"
    /\ \E f \in Findings, name \in Names : bundle' = BundleOf(f, gen.rules, name)
    /\ gen' = [pc |-> "idle", rules |-> {}]
    /\ UNCHANGED <<project, rules, items, imp, deciding, late, bundles, written>>

-----------------------------------------------------------------------------
(* Import, and what importer.go does after it. *)

SetImport(m, new) == imp' = [imp EXCEPT ![m] = new]
Importing == \E m \in {Runs, Upload} : imp[m].pc \in {"read", "applied"}
OldId == IF project = NoProject THEN 0 ELSE project.id

\* Mutant: two imports of one work or series are stored at once.
AnyTime(m) == TRUE

\* The row lock of the old project, and the unique index when there is none, let only
\* one import at a time through: the one that waited finds its old project gone, and
\* another one in its place.
Alone(m) == ~Importing

\* snapshotSections, the hidden sentences and the decided suggestions.
Snapshot(b) ==
    IF project = NoProject THEN [Idle EXCEPT !.pc = "read", !.bundle = b]
    ELSE [Idle EXCEPT !.pc = "read", !.bundle = b, !.old = project.id,
            !.had = [s \in DOMAIN project.ents |-> {t.key : t \in {u \in DOMAIN project.on : project.on[u] = s}}],
            !.hidden = {<<project.on[t], t>> : t \in project.hidden},
            !.declined = project.ask = "declined"]

Reads(m) ==
    /\ imp[m].pc = "idle" /\ Alone(m)
    /\ bundles < MaxGenerations /\ bundles' = bundles + 1
    /\ \/ m = Runs /\ bundle # NoBundle /\ SetImport(m, Snapshot(bundle))
       \/ m = Upload /\ \E f \in Findings :
             SetImport(m, Snapshot(BundleOf(f, {}, CHOOSE n \in Names : TRUE)))
    /\ UNCHANGED <<project, rules, items, gen, bundle, deciding, late, written>>

\* Mutant: joining what the staff joined is left to the generator.
LeftToTheGenerator == rules \ {"same"}

\* The rules of the work or series, as they are by now.
RulesOfTheScope == rules

\* Mutant: what was written by hand goes first, and is joined with the rest.
HandThenRules(p, rs, its, keep) == Ruled(WithItems(p, its), rs, keep)

\* applyRules, then applyManualItems.
Decided(p, rs, its, keep) == WithItems(Ruled(p, rs, keep), its)

\* The old project is deleted and the new one written, unseen until the commit, with the
\* rules and the items as they are read: both may change until then.
Applies(m) ==
    /\ imp[m].pc = "read"
    /\ SetImport(m, [imp[m] EXCEPT !.pc = "applied", !.rules = RulesOfTheScope, !.items = items])
    /\ UNCHANGED <<project, rules, items, gen, bundle, deciding, late, bundles, written>>

\* A row of an item that is gone cannot be written: the import fails.
Commits(m) ==
    /\ imp[m].pc = "applied"
    /\ LET i == imp[m]
           p == Imported(i.bundle, i.old, i.had, i.hidden, i.declined)
       IN  \E keep \in Names : project' = Decided(p, i.rules, i.items, keep)
    /\ ItemsOf(project') \subseteq {0} \cup Ids(items)
    /\ SetImport(m, IF m = Runs THEN [Idle EXCEPT !.pc = "stored", !.old = bundles] ELSE Idle)
    /\ UNCHANGED <<rules, items, gen, bundle, deciding, late, bundles, written>>

\* ImportNext: an update is for the staff to look at.  It waits for an import of the same
\* wiki, and then its project is gone.
MarksReview ==
    /\ imp[Runs].pc = "stored" /\ ~Importing
    /\ project' = IF bundle.update /\ OldId = imp[Runs].old THEN [project EXCEPT !.review = TRUE] ELSE project
    /\ SetImport(Runs, [Idle EXCEPT !.pc = "marked"])
    /\ UNCHANGED <<rules, items, gen, bundle, deciding, late, bundles, written>>

\* closeRun, done.
Closes ==
    /\ imp[Runs].pc = "marked"
    /\ bundle' = NoBundle
    /\ SetImport(Runs, Idle)
    /\ UNCHANGED <<project, rules, items, gen, deciding, late, bundles, written>>

\* closeRun, failed: the bundle is not valid, another import went first, or the database
\* refused a statement, the row of an item taken away meanwhile among them.
Fails(m) ==
    /\ imp[m].pc \in (IF m = Runs THEN {"idle", "read", "applied"} ELSE {"read", "applied"})
    /\ m = Runs => bundle # NoBundle
    /\ bundle' = IF m = Runs THEN NoBundle ELSE bundle
    /\ SetImport(m, Idle)
    /\ UNCHANGED <<project, rules, items, gen, deciding, late, bundles, written>>

\* The backend dies with its transactions; the run is imported again after importLease.
Crash ==
    /\ \E m \in {Runs, Upload} : imp[m].pc # "idle"
    /\ imp' = [m \in {Runs, Upload} |-> Idle] /\ deciding' = NoDecision
    /\ UNCHANGED <<project, rules, items, gen, bundle, late, bundles, written>>

-----------------------------------------------------------------------------
(* The staff.  Once an import has deleted the project, and until it commits, a       *)
(* statement on its rows waits and then finds nothing: the request fails.            *)

There == project # NoProject
Free == There /\ \A m \in {Runs, Upload} : imp[m].pc # "applied"
Unlocked == There /\ ~Importing
SetProject(p) == project' = p

\* SetSentenceHidden
Hide(t) ==
    /\ Free /\ t \in DOMAIN project.on
    /\ \/ SetProject([project EXCEPT !.hidden = @ \cup {t}])
       \/ SetProject([project EXCEPT !.hidden = @ \ {t}])
    /\ UNCHANGED <<rules, items, gen, bundle, imp, deciding, late, bundles, written>>

Approve ==
    /\ Unlocked /\ project.review
    /\ SetProject([project EXCEPT !.review = FALSE])
    /\ UNCHANGED <<rules, items, gen, bundle, imp, deciding, late, bundles, written>>

\* Undo: hides what the update added to an entity; the change is only marked.
Undo(c) ==
    /\ Unlocked /\ c \in project.changes
    /\ LET texts == {t \in DOMAIN project.on : project.on[t] = c.slug /\ t.key \in c.added}
       IN  SetProject([project EXCEPT !.hidden = @ \cup texts])
    /\ UNCHANGED <<rules, items, gen, bundle, imp, deciding, late, bundles, written>>

\* Decide, its first statements.
Considers(kind) ==
    /\ deciding = NoDecision
    /\ There /\ Apart(project)
    /\ deciding' = [kind |-> kind, id |-> project.id, made |-> project.made]
    /\ UNCHANGED <<project, rules, items, gen, bundle, imp, late, bundles, written>>

SameProject == OldId = deciding.id
SameEntity(n) == SameProject /\ n \in DOMAIN project.ents /\ project.made[n] = deciding.made[n]
NewestProject == IF \A m \in {Runs, Upload} : imp[m].pc # "applied" THEN OldId ELSE bundles
Accepted(p) == [p EXCEPT !.ask = IF @ = "none" THEN @ ELSE "joined"]

\* mergeEntities fails if the one that stays is gone, for what it is given refers to it.
\* If the other is gone no statement finds anything, and none minds.
Joins(keep, drop) ==
    /\ keep # drop
    /\ SameEntity(drop) => SameEntity(keep)
    /\ SetProject(IF SameEntity(drop) THEN Merged(project, keep, drop) ELSE Accepted(project))

\* Decide, merge: the rule is saved, and the entities that were read are joined.
DecideSame ==
    /\ deciding.kind = "same"
    /\ \/ SameProject /\ Free /\ late' = late /\ \E keep, drop \in Names : Joins(keep, drop)
       \/ ~SameProject /\ late' = NewestProject /\ SetProject(project)
    /\ rules' = rules \cup {"same"}
    /\ deciding' = NoDecision
    /\ UNCHANGED <<items, gen, bundle, imp, bundles, written>>

\* Decide, distinct: the rule is saved, and the suggestion of that project answered.
DecideDistinct ==
    /\ deciding.kind = "distinct"
    /\ SameProject /\ project.ask = "open" => Free
    /\ SetProject(IF SameProject THEN Declined(project) ELSE project)
    /\ rules' = rules \cup {"distinct"}
    /\ deciding' = NoDecision
    /\ UNCHANGED <<items, gen, bundle, imp, late, bundles, written>>

DecisionFails ==
    /\ deciding # NoDecision
    /\ deciding' = NoDecision
    /\ UNCHANGED <<project, rules, items, gen, bundle, imp, late, bundles, written>>

ForgetRule(r) ==
    /\ There /\ r \in rules
    /\ rules' = rules \ {r}
    /\ UNCHANGED <<project, items, gen, bundle, imp, deciding, late, bundles, written>>

\* CreateManual, of one item: a section is of an entity that is there.  A row of an entity
\* refers to the project; a section is not shown while two carry the name.
MayWrite(kind, s) ==
    \/ kind = "entity" /\ Unlocked /\ ~Carried(project.ents, s)
    \/ kind = "entity" /\ Free /\ Known(project.ents, s)
    \/ kind = "section" /\ There /\ s \in DOMAIN project.ents /\ (Known(project.ents, s) => Free)

CreateManual(kind, s, k) ==
    /\ MayWrite(kind, s)
    /\ written < MaxItems /\ written' = written + 1
    /\ LET i == [id |-> written + 1, kind |-> kind, of |-> s, key |-> k]
       IN  /\ items' = items \cup {i}
           /\ SetProject(WithItems(project, {i}))
    /\ UNCHANGED <<rules, gen, bundle, imp, deciding, late, bundles>>

\* UpdateManual: clearRows, and the item is put on the project again.  It waits for an
\* import only if there are rows to clear or an entity to put it under.
UpdateManual(i, k) ==
    /\ There /\ i.kind = "section"
    /\ i.id \in ItemsOf(project) \/ Known(project.ents, i.of) => Free
    /\ LET new == [i EXCEPT !.key = k]
       IN  /\ items' = (items \ {i}) \cup {new}
           /\ SetProject(WithItems([project EXCEPT !.on = Only(@, {t \in Text : t.item # i.id}),
                                                   !.hidden = {t \in @ : t.item # i.id}], {new}))
    /\ UNCHANGED <<rules, gen, bundle, imp, deciding, late, bundles, written>>

\* DeleteManual: an entity takes what was written about it with it.
TakenWith(i) == {i} \cup IF i.kind = "entity" THEN {j \in items : j.of = i.of} ELSE {}

DeleteManual(i) ==
    /\ There
    /\ LET ids == Ids(TakenWith(i))
       IN  /\ ids \cap ItemsOf(project) # {} => Free
           /\ items' = items \ TakenWith(i)
           /\ SetProject(Without(project, ids))
    /\ UNCHANGED <<rules, gen, bundle, imp, deciding, late, bundles, written>>

\* Delete: the wiki goes, with what people said of its sentences.
Delete ==
    /\ Unlocked
    /\ SetProject(NoProject)
    /\ UNCHANGED <<rules, items, gen, bundle, imp, deciding, late, bundles, written>>

-----------------------------------------------------------------------------

Init ==
    /\ project = NoProject /\ rules = {} /\ items = {}
    /\ gen = [pc |-> "idle", rules |-> {}] /\ bundle = NoBundle
    /\ imp = [m \in {Runs, Upload} |-> Idle] /\ deciding = NoDecision /\ late = 0
    /\ bundles = 0 /\ written = 0

Staff ==
    \/ There /\ \E t \in DOMAIN project.on : Hide(t)
    \/ There /\ \E c \in project.changes : Undo(c)
    \/ Approve \/ Delete
    \/ \E kind \in {"same", "distinct"} : Considers(kind)
    \/ DecideSame \/ DecideDistinct \/ DecisionFails
    \/ \E r \in rules : ForgetRule(r)
    \/ \E n \in Subjects, k \in Keys : CreateManual("section", n, k)
    \/ \E n \in Subjects : CreateManual("entity", n, CHOOSE k \in Keys : TRUE)
    \/ \E i \in items, k \in Keys : UpdateManual(i, k)
    \/ \E i \in items : DeleteManual(i)

Next ==
    \/ Staff
    \/ BeginGeneration \/ FinishGeneration
    \/ \E m \in {Runs, Upload} : Reads(m) \/ Applies(m) \/ Commits(m) \/ Fails(m)
    \/ MarksReview \/ Closes \/ Crash

Spec == Init /\ [][Next]_vars

-----------------------------------------------------------------------------

\* Every variable has its type: a text is under an entity of the project, and what a
\* person hid or the review names is of this project.
TypeOK ==
    /\ There => IsProject(project)
    /\ rules \subseteq {"same", "distinct"}
    /\ items \subseteq Item /\ \A i, j \in items : i.id = j.id => i = j
    /\ gen.pc \in {"idle", "writing"} /\ gen.rules \subseteq {"same", "distinct"}
    /\ bundle # NoBundle => IsBundle(bundle)
    /\ \A m \in {Runs, Upload} :
          /\ imp[m].pc \in {"idle", "read", "applied", "stored", "marked"}
          /\ imp[m].rules \subseteq {"same", "distinct"}

\* "What the staff joined is joined again" (identity.go): whatever a generation was told
\* when it began, no wiki shows as two entities of the books, each found by its name, what
\* a rule says is one.  Excepted is the wiki that took the place of the one a decision had
\* read, before the decision was saved: nothing is joined in it until the next generation.
SameIsOne ==
    There /\ "same" \in rules /\ project.id > late =>
        ~TwoFound(project) \/ \E n \in Names : project.made[n] # 0

\* The same without the exception; it does not hold.
SameIsAlwaysOne == There /\ "same" \in rules => ~TwoFound(project) \/ \E n \in Names : project.made[n] # 0

\* "Removing the item removes them" (00086_wiki_manual.sql): the wiki shows nothing of an
\* item that was taken away, even if it was taken away while a generation that had read it
\* was being stored.
NothingOfADeletedItem ==
    There => \A t \in DOMAIN project.on : t.item # 0 => t.item \in Ids(items)

Stored(m) == imp[m].pc = "applied" /\ imp'[m].pc # "applied" /\ project' # project

\* "A new generation puts it back" (manual.go): a generation that is stored shows all that
\* was written by hand about the entities it has, joined or not, as it read it.
WrittenByHandIsBack ==
    [][\A m \in {Runs, Upload} : Stored(m) =>
          \A i \in imp[m].items :
             i.kind = "section" /\ Known(project'.ents, i.of) => ByHand(i) \in DOMAIN project'.on]_vars

\* What it does not hold: that it is shown as it was written last.
ShownAsWritten ==
    There => \A i \in items : i.kind = "section" /\ i.id \in ItemsOf(project) => ByHand(i) \in DOMAIN project.on

\* An import replaces the wiki whose decisions it read, never another one that was
\* stored in the meantime.
ReplacesWhatItRead ==
    [][\A m \in {Runs, Upload} : Stored(m) => imp[m].old = OldId]_vars

\* A sentence marked wrong "survives a new generation that writes the same text"
\* (review.go): what was hidden in the wiki an import replaces is hidden in the new one.
WrongStaysHidden ==
    [][\A m \in {Runs, Upload} : Stored(m) /\ There =>
          {t \in project.hidden : t.item = 0} \cap DOMAIN project'.on \subseteq project'.hidden]_vars
=============================================================================
