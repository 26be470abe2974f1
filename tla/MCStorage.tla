------------------------------ MODULE MCStorage ------------------------------
(* Small instances of Storage for TLC. *)
EXTENDS Storage, TLC

CONSTANTS f1, f2, organizer, reorganization, admin, purge

\* Where uploads are stored, and the names derived from an id.
Uploads == [f \in Files |-> <<"upload", f>>]
OneOrganized == [f \in Files |-> IF f = f1 THEN <<"upload", f1>> ELSE <<"layout">>]
BySuffix == [f \in Files |-> <<"suffixed", f>>]
Besides == [f \in Files |-> <<"restored", f>>]

\* All files have the same metadata; someone may edit it and change it back.
OneLayout == [f \in Files |-> {<<"layout">>}]
TwoLayouts == [f \in Files |-> {<<"layout">>, <<"edited">>}]

AllPaths ==
    UNION {Layouts[f] : f \in Files}
        \cup {Home[f] : f \in Files} \cup {Suffixed[f] : f \in Files} \cup {Beside[f] : f \in Files}

Mover(t) == t \in {organizer, reorganization}
Asked(t) ==
    IF Mover(t) THEN {"move"}
    ELSE IF t = purge THEN {"purge"}
    ELSE {"trash", "restore", "delete", "purge"}

\* Every task may be asked about every file; or only the second file goes to the trash.
Anything == [t \in Tasks |-> Asked(t) \X Files]
OneTrashed == [t \in Tasks |-> Asked(t) \X (IF Mover(t) THEN Files ELSE {f2})]
=============================================================================
