------------------------- MODULE MCSlicingDispatch -------------------------
EXTENDS SlicingDispatch, TLC

Alike == Permutations(Publishers)
=============================================================================
