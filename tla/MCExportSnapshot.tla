------------------------- MODULE MCExportSnapshot -------------------------
(* An instance of ExportSnapshot: a pin of the account and one of another  *)
(* account share an image, and a third pin has an image of its own.        *)
EXTENDS ExportSnapshot

CONSTANTS p1, p2, p3

MCAssetOf == [p \in Pins |-> IF p = p3 THEN 2 ELSE 1]

=============================================================================
