---------------------------- MODULE MCNaverPost ----------------------------
(* Small instances of NaverPost for TLC.                                   *)
EXTENDS NaverPost, TLC

CONSTANTS i1, i2, t1, staff, auto

\* Two rows that name the same target.
MCSiblings == [i \in Inquiry |-> t1]

\* Rows of one target are interchangeable.
MCSymmetry == Permutations(Inquiry)
=============================================================================
