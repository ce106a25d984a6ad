------------------------------ MODULE MCKakao ------------------------------
(* Small instances of the KakaoTalk notifications for TLC.                 *)
EXTENDS Kakao

CONSTANTS d, o      \* the dispatcher and another program
=============================================================================
