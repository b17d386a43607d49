---------------------------- MODULE MCRowImages ----------------------------
(* A cell of each class, three items, one of them without a URL, and three
   requests out at a time: a cell may get the images of two former rows after
   its own.  Slots are interchangeable, and the run checks invariants only. *)
EXTENDS RowImages, TLC

CONSTANTS i1, i2, i3

MCItems == {i1, i2, i3}
MCPictured == {i1, i2}

Symmetry == Permutations(Slots)
=============================================================================
