------------------------------ MODULE PostOnce ------------------------------
(***************************************************************************)
(* What registering an answer promises for each marketplace target: one    *)
(* claim at a time, at most one write, a claim given back only while       *)
(* nothing was written, and no way back from a doubtful outcome.           *)
(***************************************************************************)
EXTENDS Naturals

CONSTANT Target
VARIABLES phase, writes

Phase == {"open", "claimed", "done", "doubtful"}

Init == /\ phase = [t \in Target |-> "open"]
        /\ writes = [t \in Target |-> 0]

Claim(t) == /\ phase[t] = "open"
            /\ phase' = [phase EXCEPT ![t] = "claimed"]
            /\ UNCHANGED writes

\* The marketplace may apply a write long after the caller gave up on it.
Write(t) == /\ writes[t] = 0 /\ writes' = [writes EXCEPT ![t] = 1]
            /\ phase[t] \in {"claimed", "doubtful"}
            /\ UNCHANGED phase

Finish(t) == /\ phase[t] = "claimed"
             /\ phase' = [phase EXCEPT ![t] = "done"]
             /\ UNCHANGED writes

Release(t) == /\ writes[t] = 0 /\ phase[t] = "claimed"
              /\ phase' = [phase EXCEPT ![t] = "open"]
              /\ UNCHANGED writes

\* Several claims may be found abandoned at once.
GiveUp(S) == /\ S # {} /\ \A t \in S : phase[t] = "claimed"
             /\ phase' = [t \in Target |-> IF t \in S THEN "doubtful" ELSE phase[t]]
             /\ UNCHANGED writes

Next == \/ \E t \in Target : Claim(t) \/ Write(t) \/ Finish(t) \/ Release(t)
        \/ \E S \in SUBSET Target : GiveUp(S)

Spec == Init /\ [][Next]_<<phase, writes>>
=============================================================================
