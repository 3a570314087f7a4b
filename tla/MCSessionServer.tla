--------------------------- MODULE MCSessionServer --------------------------
(* SessionServer for TLC.  Goroutines are interchangeable, and so are the  *)
(* sessions when none, or each of them, is preloaded.                      *)
EXTENDS SessionServer, TLC

Interchangeable ==
    Permutations(Procs) \cup (IF Preloaded \in {{}, Ids} THEN Permutations(Ids) ELSE {})
=============================================================================
