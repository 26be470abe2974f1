----------------------------- MODULE MCWikiRuns -----------------------------
(* WikiRuns on small instances. *)
EXTENDS WikiRuns

CONSTANTS v1, v2, v3, w1, w2
=============================================================================
