----------------------------- MODULE MCPairing ------------------------------
(***************************************************************************)
(* An instance of Pairing for TLC. The initiators are interchangeable:     *)
(* nothing tells one from another.                                         *)
(***************************************************************************)
EXTENDS Pairing, TLC

Interchangeable == Permutations(Initiators)
=============================================================================
