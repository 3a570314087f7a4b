--------------------------- MODULE MCSessionStore ---------------------------
(* SessionStore for TLC: one session in full detail, several for the cap.  *)
EXTENDS SessionStore, TLC

Interchangeable == Permutations(Ids)
=============================================================================
