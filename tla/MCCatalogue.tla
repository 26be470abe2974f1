----------------------------- MODULE MCCatalogue -----------------------------
(***************************************************************************)
(* Small instances of what the library knows of its works, for TLC: the    *)
(* series and their collections, the people, and the text that was read.   *)
(* They share no variable, and each behaviour is one of a component, while *)
(* the others stay as they are.                                            *)
(***************************************************************************)
EXTENDS MCSeries, People, Texts

CONSTANTS ta, oa, ea, m1, m2

\* Two works, one of two authors.
TwoWorks == "w1" :> (1 :> 0 @@ 2 :> 1) @@ "w2" :> (3 :> 0)
AllAlike == Pairs

\* A scan with a page of text, and a comic with none; and a book whose text is embedded.
Cases == {[format |-> "pdf", native |-> TRUE, up |-> {ta, oa}],
          [format |-> "comic", native |-> FALSE, up |-> {ta, oa}],
          [format |-> "pdf", native |-> TRUE, up |-> {ta, ea}]}
OneEach == ta :> "text" @@ oa :> "ocr" @@ ea :> "embed"

Interchangeable == Symmetry \cup Permutations({m1, m2})

VARIABLE component
catalogueVars == <<vars, peopleVars, textsVars, component>>

\* A component that is not the one of the behaviour.
AtRest(c) ==
    /\ c # "people" => subject = "authors"
    /\ c # "texts" => choice = m1 /\ book.up = {ta, ea}

CatalogueInit ==
    /\ component \in {"series", "people", "texts"}
    /\ Init /\ PeopleInit /\ TextsInit
    /\ AtRest(component)

CatalogueNext ==
    /\ \/ component = "series" /\ Next /\ UNCHANGED <<peopleVars, textsVars>>
       \/ component = "people" /\ PeopleNext /\ UNCHANGED <<vars, textsVars>>
       \/ component = "texts" /\ TextsNext /\ UNCHANGED <<vars, peopleVars>>
    /\ UNCHANGED component

CatalogueSpec == CatalogueInit /\ [][CatalogueNext]_catalogueVars
==============================================================================
