----------------------------- MODULE MCExtents ------------------------------
(* Small instances of Extents; the files are interchangeable.              *)
EXTENDS Extents, TLC

FileSymmetry == Permutations(Files)
=============================================================================
