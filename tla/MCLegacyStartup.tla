--------------------------- MODULE MCLegacyStartup ---------------------------
(* An instance of the legacy migration: a row that has lost its file, then   *)
(* two batches of two images, the second with a file that is in place, an    *)
(* image the registry cannot take, and two old directories.                  *)
EXTENDS LegacyStartup, TLC

MCInPlace == {4}
MCOrphans == {1}
MCSkipped == {3}
MCItemOf == 2 :> 1 @@ 3 :> 2 @@ 5 :> 2
MCSmallItemOf == 2 :> 1 @@ 3 :> 2
=============================================================================
