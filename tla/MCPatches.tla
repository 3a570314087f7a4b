------------------------------ MODULE MCPatches -----------------------------
(* Patches for TLC, for patches of several hunks.                          *)
EXTENDS Patches
=============================================================================
