--------------------------- MODULE MCBatchBuffers ---------------------------
(* Two iterations over one dataset.                                        *)
EXTENDS BatchBuffers, TLC

MCMemory == 1 .. 8
MCPageLocked == {7, 8}
MCCopiedFrom == {1, 7, 8}
MCSymmetry == Permutations(Iterations) \cup Permutations(Events)
=============================================================================
