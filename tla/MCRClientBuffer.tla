--------------------------- MODULE MCRClientBuffer ---------------------------
(* RClientBuffer for TLC: bytes are only compared with each other.           *)
EXTENDS RClientBuffer, TLC

Symmetry == Permutations(Bytes)

=============================================================================
