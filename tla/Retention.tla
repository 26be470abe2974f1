------------------------------ MODULE Retention ------------------------------
(***************************************************************************)
(* The folder of the packages (prune.go): a package is made now and then,  *)
(* under the time it was made at, and prune-backups keeps the newest of    *)
(* each of the last days, weeks and months that have one.  It removes them *)
(* one at a time and may stop in the middle; the folder it finds is what   *)
(* earlier rounds left.                                                    *)
(***************************************************************************)
EXTENDS Naturals, FiniteSets

CONSTANTS
    Latest,     \* packages may be made at the times 1..Latest
    Daily,      \* [Instants -> Nat]: the day of each
    Weekly, Monthly,
    Policy      \* [{"daily", "weekly", "monthly"} -> Nat], how many to keep

Instants == 1..Latest

ASSUME RetentionAssumption ==
    /\ Latest \in Nat
    /\ Daily \in [Instants -> Nat] /\ Weekly \in [Instants -> Nat] /\ Monthly \in [Instants -> Nat]
    /\ Policy \in [{"daily", "weekly", "monthly"} -> Nat]

VARIABLES
    folder,     \* the packages that are there
    doomed,     \* those the running prune still has to remove
    everMade    \* history

retentionVars == <<folder, doomed, everMade>>

Newest(S) == CHOOSE t \in S : \A u \in S : u <= t

\* Mutant: packages are counted, and not their buckets.
StepCountsAgain(round, t, bucket, limit) ==
    IF round.over \/ Cardinality(round.keep) >= limit THEN [round EXCEPT !.over = TRUE]
    ELSE [round EXCEPT !.seen = @ \cup {bucket[t]}, !.keep = @ \cup {t}]

\* One package of the walk of pick.
Step(round, t, bucket, limit) ==
    IF round.over \/ bucket[t] \in round.seen THEN round
    ELSE IF Cardinality(round.seen) >= limit THEN [round EXCEPT !.over = TRUE]
    ELSE [round EXCEPT !.seen = @ \cup {bucket[t]}, !.keep = @ \cup {t}]

\* pick, from the newest: the first of each bucket, of so many buckets.
Picked(S, bucket, limit) ==
    LET walk[n \in 0..Latest] ==
            IF n = 0 THEN [seen |-> {}, keep |-> {}, over |-> FALSE]
            ELSE IF Latest + 1 - n \in S THEN Step(walk[n - 1], Latest + 1 - n, bucket, limit)
            ELSE walk[n - 1]
    IN  walk[Latest].keep

Kept(S) ==
    Picked(S, Daily, Policy["daily"]) \cup Picked(S, Weekly, Policy["weekly"])
        \cup Picked(S, Monthly, Policy["monthly"])
        \cup {t \in S : \A u \in S : u <= t}

\* The clock may have been set back: what is made need not be the newest.
MakesPackage(t) ==
    /\ t \notin everMade
    /\ folder' = folder \cup {t} /\ everMade' = everMade \cup {t}
    /\ UNCHANGED doomed

\* Prune: the folder is read once.
BeginsPrune ==
    /\ doomed = {}
    /\ doomed' = folder \ Kept(folder)
    /\ UNCHANGED <<folder, everMade>>

\* From the newest to the oldest.
RemovesOne ==
    /\ doomed # {}
    /\ LET t == Newest(doomed)
       IN  folder' = folder \ {t} /\ doomed' = doomed \ {t}
    /\ UNCHANGED everMade

\* os.Remove fails, or the process dies.
StopsPruning ==
    /\ doomed # {} /\ doomed' = {}
    /\ UNCHANGED <<folder, everMade>>

RetentionInit == folder = {} /\ doomed = {} /\ everMade = {}
RetentionNext == (\E t \in Instants : MakesPackage(t)) \/ BeginsPrune \/ RemovesOne \/ StopsPruning
RetentionSpec == RetentionInit /\ [][RetentionNext]_retentionVars

-----------------------------------------------------------------------------

\* The newest of each of the last limit buckets of S, said without a walk.
LastOfEach(S, bucket, limit) ==
    {t \in S : /\ \A u \in S : bucket[u] = bucket[t] => u <= t
               /\ Cardinality({bucket[u] : u \in {x \in S : x > t}} \ {bucket[t]}) < limit}

\* "The newest of each of the last Daily days, Weekly weeks and Monthly months, and always
\* the newest one" (prune.go), of all that were ever made: pruning round after round, with
\* rounds that stop half way, loses none that pruning once at the end would have kept.
PrunedAsOnce ==
    /\ LastOfEach(everMade, Daily, Policy["daily"]) \subseteq folder
    /\ LastOfEach(everMade, Weekly, Policy["weekly"]) \subseteq folder
    /\ LastOfEach(everMade, Monthly, Policy["monthly"]) \subseteq folder
    /\ everMade # {} => Newest(everMade) \in folder
=============================================================================
