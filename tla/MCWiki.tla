------------------------------- MODULE MCWiki -------------------------------
(* Wiki on small instances. *)
EXTENDS Wiki, TLC

CONSTANTS a, b, who, bio

\* What a generation may find: both entities, one of them with nothing written of it, so
\* that joining them moves the section of the other; both, when one was also seen under
\* the name of the other; or one of them only.
Both == [ents |-> a :> {a} @@ b :> {b}, writes |-> a :> {who} @@ b :> {}, suggests |-> TRUE, update |-> TRUE]
Double == [ents |-> a :> {a, b} @@ b :> {b}, writes |-> a :> {who} @@ b :> {}, suggests |-> FALSE, update |-> TRUE]
One == [ents |-> a :> {a}, writes |-> a :> {who}, suggests |-> FALSE, update |-> FALSE]
BothOrOne == {Both, Double, One}
=============================================================================
