---------------------------- MODULE MCPinImport ----------------------------
(* An instance of PinImport for TLC: everything has the same content. *)
EXTENDS PinImport

CONSTANTS i1, s1, d1, h1, h2

MCSameDigest == [m \in Imports |-> d1]

=============================================================================
