--------------------------- MODULE MCQueueDispatch ---------------------------
EXTENDS QueueDispatch, TLC
Symmetry == Permutations(Requests)
==============================================================================
