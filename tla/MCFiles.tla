------------------------------- MODULE MCFiles -------------------------------
(***************************************************************************)
(* Small instances of what the backend keeps on disk, for TLC: the managed *)
(* files, the referenced ones, the backups and their retention.  They      *)
(* share no variable, and each behaviour is one of a component, while the  *)
(* others stay as they are.                                                *)
(***************************************************************************)
EXTENDS MCStorage, Referenced, Backups, Retention

CONSTANTS a, b, v1, v2, s1, s2, s3

\* a is text in another encoding than UTF-8, and b the same text in UTF-8.
TextInUtf16 == [c \in Contents |-> b]

\* The windows of the retention: two instants are a day, four a week, six a month.
Days == [t \in Instants |-> t \div 2]
Weeks == [t \in Instants |-> t \div 4]
Months == [t \in Instants |-> t \div 6]
Few == [k \in {"daily", "weekly", "monthly"} |-> IF k = "daily" THEN 2 ELSE 1]

Alike == Permutations({s1, s2, s3}) \cup Permutations({organizer, reorganization})

\* What tasks that came in each other's way do afterwards is not followed.
Orderly == ~clashed

VARIABLE component
filesVars == <<vars, referencedVars, backupsVars, retentionVars, component>>

\* A component that is not the one of the behaviour.
AtRest(c) ==
    /\ c # "referenced" => ReferencedInit /\ \A o \in Origins : bytes[o] = Nothing
    /\ c # "backups" => BackupsInit /\ shelf[s1] = v1 /\ shelf[s2] = v2

FilesInit ==
    /\ component \in {"storage", "referenced", "backups", "retention"}
    /\ Init /\ ReferencedInit /\ BackupsInit /\ RetentionInit
    /\ AtRest(component)

FilesNext ==
    /\ \/ component = "storage" /\ Next /\ UNCHANGED <<referencedVars, backupsVars, retentionVars>>
       \/ component = "referenced" /\ ReferencedNext /\ UNCHANGED <<vars, backupsVars, retentionVars>>
       \/ component = "backups" /\ BackupsNext /\ UNCHANGED <<vars, referencedVars, retentionVars>>
       \/ component = "retention" /\ RetentionNext /\ UNCHANGED <<vars, referencedVars, backupsVars>>
    /\ UNCHANGED component

FilesSpec == FilesInit /\ [][FilesNext]_filesVars
==============================================================================
