----------------------------- MODULE MCPostReview -----------------------------
(* Instances of PostReview for TLC.                                        *)
EXTENDS PostReview
CONSTANTS a, b, auto, s1, s2
=============================================================================
