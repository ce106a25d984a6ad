-------------------------- MODULE MCAutoPostQueue --------------------------
(* Small instances of AutoPostQueue for TLC.                               *)
EXTENDS AutoPostQueue

CONSTANTS e1, naver, app, sidecar

MCNaverOnly == [e \in Event |-> naver]
=============================================================================
