------------------------------ MODULE MCFiles ------------------------------
(* Files for TLC, with a compressed file and a name that has two dots in   *)
(* it: what the code says of its trees and archives and does not keep.     *)
EXTENDS Naturals, TLC

CONSTANTS DirNames, Dotted, Values, Nothing, QuotaFull, MaxNodes, MaxEntries

VARIABLES data, linked, archive

Paths == {<<>>, <<"d">>, <<"f">>, <<"f.gz">>, <<"a..b">>, <<"d", "f">>}
Gz    == "f" :> "f.gz"

Tree == INSTANCE Files WITH Plugins <- FALSE

Spec             == Tree!Spec
(* A tree that was kept can be brought back (Files).                       *)
SnapshotsRestore == Tree!SnapshotsRestore
(* zip keeps the entries of the archive it adds to (Files).                *)
ZipPreserves     == Tree!ZipPreserves
(* -k keeps the original (Files).                                          *)
KeepsOriginal    == Tree!KeepsOriginal
=============================================================================
