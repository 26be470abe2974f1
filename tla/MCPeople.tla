------------------------------ MODULE MCPeople ------------------------------
(* A small instance of People for TLC. *)
EXTENDS People, TLC

\* One work of three authors.
OneWork == "w1" :> (1 :> 0 @@ 2 :> 1 @@ 3 :> 2)
AllAlike == Pairs
=============================================================================
