--------------------------- MODULE MCLearningIndex ---------------------------
(* Instances of LearningIndex for TLC.                                     *)
EXTENDS LearningIndex
CONSTANTS r1, r2, x, y, w1, w2
=============================================================================
