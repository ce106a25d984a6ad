--------------------------- MODULE DpsLookupProofs ---------------------------
(***************************************************************************)
(* Proofs about DpsLookup, for any number of sessions.                     *)
(*                                                                         *)
(* IInv is inductive. Its heart is OneLookupUnlessOrphaned: a look-up that *)
(* has not been orphaned holds the step RUNNING, so that no other can      *)
(* start, and whoever ends the step orphans it. RunningIsHeld goes the     *)
(* other way round.                                                        *)
(***************************************************************************)
EXTENDS DpsLookup, TLAPS

\* The initial states.
LEMMA InitIInv == Init => IInv
<1> SUFFICES ASSUME Init PROVE IInv
  OBVIOUS
<1>1. FlagsOK
  BY DEF Init, FlagsOK
<1>2. InFlight = {} /\ InBrief = {} /\ Owners = {}
  BY SMT DEF Init, InFlight, InBrief, Owners, Flight, Brief
<1>3. TypeOK
  BY <1>1, <1>2, SMT DEF Init, TypeOK, Flight, Status, Result, Caller
<1>4. OneLookupUnlessOrphaned /\ RunningIsHeld
  BY <1>2, SMT DEF Init, OneLookupUnlessOrphaned, RunningIsHeld
<1>5. LockHeld /\ EventSpeaks /\ CheckSpeaks
  BY DpsAssumption, SMT DEF Init, LockHeld, EventSpeaks, CheckSpeaks, Caller
<1>6. QED BY <1>3, <1>4, <1>5 DEF IInv

\* The actions that leave the step and its owners alone: the keepalive and time.
LEMMA KeeperStepKeeps ==
  ASSUME IInv, KeeperTick \/ KeeperStep \/ TimePasses
  PROVE  IInv'
<1> USE DEF KeeperTick, KeeperStep, KeeperStops, KeeperAttempts, KeeperDefers,
            KeeperChecks, KeeperClicks, KeeperEnds, TimePasses
<1>1. UNCHANGED <<step, call, result, waiting, orphaned, passed, left>>
  OBVIOUS
<1>2. FlagsOK'
  BY DEF IInv, TypeOK, FlagsOK
<1>3. /\ oplock' \in Caller \cup {Keeper, None}
      /\ keeper' \in {"timer", "monitor", "attempted", "checked", "clicking"}
      /\ late' \in {late, {}}
  BY SMT DEF IInv, TypeOK
<1>4. TypeOK'
  BY <1>1, <1>2, <1>3 DEF IInv, TypeOK, InFlight
<1>5. OneLookupUnlessOrphaned' /\ RunningIsHeld' /\ EventSpeaks'
  BY <1>1 DEF IInv, OneLookupUnlessOrphaned, RunningIsHeld, EventSpeaks, Owners,
              InFlight, InBrief
<1>6. LockHeld'
  BY DpsAssumption, SMT DEF IInv, TypeOK, LockHeld, Caller
<1>7. CheckSpeaks'
  BY SMT DEF IInv, TypeOK, EventSpeaks, CheckSpeaks
<1>8. QED BY <1>4, <1>5, <1>6, <1>7 DEF IInv

\* What a look-up does in the window leaves it in flight.
LEMMA FlightStep ==
  ASSUME IInv, NEW c \in Caller,
         Announce(c) \/ Acquire(c) \/ Operate(c) \/ ReleaseLock(c) \/ ClearEvent(c)
  PROVE  IInv'
<1> USE DEF Announce, Acquire, Operate, ReleaseLock, ClearEvent, Goes, Says
<1>1. /\ UNCHANGED <<step, keeper, orphaned, left>>
      /\ call[c] \in Flight
      /\ \E pc \in Flight : call' = [call EXCEPT ![c] = pc]
      /\ result' \in [Caller -> Result]
  BY SMT DEF IInv, TypeOK, Flight, Result
<1>2. InFlight' = InFlight /\ InBrief' = InBrief /\ Owners' = Owners
  BY <1>1, SMT DEF IInv, TypeOK, InFlight, InBrief, Flight, Brief, Owners
<1>3. FlagsOK'
  BY DEF IInv, TypeOK, FlagsOK
<1>4. TypeOK'
  <2>1. oplock' \in Caller \cup {Keeper, None}
    BY SMT DEF IInv, TypeOK
  <2>2. passed' \subseteq {d \in Caller : call'[d] = "queued"}
    BY SMT DEF IInv, TypeOK
  <2>3. late' \subseteq Caller
    BY SMT DEF IInv, TypeOK
  <2>4. QED
    BY <1>1, <1>2, <1>3, <2>1, <2>2, <2>3, DpsAssumption, SMT
    DEF IInv, TypeOK, Flight, Brief, Caller
<1>5. OneLookupUnlessOrphaned' /\ RunningIsHeld'
  BY <1>1, <1>2 DEF IInv, OneLookupUnlessOrphaned, RunningIsHeld
<1>6. LockHeld'
  BY DpsAssumption, SMT DEF IInv, TypeOK, LockHeld, Flight, Caller
<1>7. EventSpeaks' /\ CheckSpeaks'
  BY DpsAssumption, SMT
  DEF IInv, TypeOK, EventSpeaks, CheckSpeaks, LockHeld, Caller
<1>8. QED BY <1>4, <1>5, <1>6, <1>7 DEF IInv

\* The other actions of the calls leave the window alone, and no call of theirs
\* waits for it or is at work in it.
LEMMA WindowKept ==
  ASSUME IInv, UNCHANGED runtime, NEW c \in Caller,
         NEW pc, call' = [call EXCEPT ![c] = pc],
         call[c] \notin {"queued", "operating", "release"},
         pc \notin {"queued", "operating", "release"}
  PROVE  /\ LockHeld' /\ EventSpeaks' /\ CheckSpeaks'
         /\ late' \subseteq Caller
         /\ passed' \subseteq {d \in Caller : call'[d] = "queued"}
<1>1. \A d \in Caller : /\ call'[d] = "queued" <=> call[d] = "queued"
                        /\ call'[d] \in {"operating", "release"}
                             <=> call[d] \in {"operating", "release"}
  BY SMT DEF IInv, TypeOK
<1>2. QED
  BY <1>1, SMT DEF IInv, TypeOK, LockHeld, EventSpeaks, CheckSpeaks, runtime

\* A look-up starts: the step was not RUNNING, so that every other is orphaned.
LEMMA StartStepKeeps ==
  ASSUME IInv, NEW c \in Caller, StartStep(c)
  PROVE  IInv'
<1> USE DEF StartStep, Goes, Before
<1>1. /\ LockHeld' /\ EventSpeaks' /\ CheckSpeaks' /\ late' \subseteq Caller
      /\ passed' \subseteq {d \in Caller : call'[d] = "queued"}
  BY WindowKept
<1>2. InFlight' = InFlight \cup {c} /\ c \notin InFlight
  BY SMT DEF IInv, TypeOK, InFlight, Flight
<1>3. Owners = {} /\ orphaned' = orphaned /\ step' = "RUNNING"
  BY SMT DEF IInv, OneLookupUnlessOrphaned
<1>4. FlagsOK'
  BY DEF IInv, TypeOK, FlagsOK, runtime, Ends
<1>5. TypeOK'
  BY <1>4, DpsAssumption, <1>1, <1>2, SMT DEF IInv, TypeOK, Status, Flight, runtime, Caller
<1>6. Owners' = {c}
  BY <1>2, <1>3, SMT DEF IInv, TypeOK, Owners
<1>7. OneLookupUnlessOrphaned' /\ RunningIsHeld'
  BY <1>3, <1>6, SMT DEF OneLookupUnlessOrphaned, RunningIsHeld
<1>8. QED BY <1>1, <1>5, <1>7 DEF IInv

\* A call ends the step.
LEMMA EndsKeeps ==
  ASSUME IInv, NEW c \in Caller, NEW status \in Status \ {"RUNNING"},
         Ends(c, status), UNCHANGED runtime,
         NEW pc \in {"idle", "apply"}, call' = [call EXCEPT ![c] = pc],
         pc = "apply" => c = Gen,
         call[c] \in Brief \cup {"idle", "ending"}, result' \in [Caller -> Result]
  PROVE  IInv'
<1>1. /\ LockHeld' /\ EventSpeaks' /\ CheckSpeaks' /\ late' \subseteq Caller
      /\ passed' \subseteq {d \in Caller : call'[d] = "queued"}
  BY WindowKept DEF Brief
<1>2. InFlight' = InFlight \ {c}
  BY SMT DEF IInv, TypeOK, InFlight, Flight
<1>3. Owners' = {}
  BY <1>2, SMT DEF IInv, OneLookupUnlessOrphaned, Owners, Ends
<1>4. FlagsOK'
  BY DEF IInv, TypeOK, FlagsOK, runtime, Ends
<1>5. TypeOK'
  BY <1>4, DpsAssumption, <1>1, <1>2, SMT DEF IInv, TypeOK, Ends, Flight, Brief, runtime, Caller
<1>6. OneLookupUnlessOrphaned' /\ RunningIsHeld'
  BY <1>3, SMT DEF OneLookupUnlessOrphaned, RunningIsHeld, Ends
<1>7. QED BY <1>1, <1>5, <1>6 DEF IInv

\* A call that is not in flight goes on, and leaves the step as it is or makes it
\* RUNNING; one that holds it RUNNING gives it up only once it is ended.
LEMMA BriefKeeps ==
  ASSUME IInv, NEW c \in Caller, UNCHANGED runtime, UNCHANGED <<orphaned, left>>,
         NEW pc \in Brief \cup {"idle", "lookup", "safe", "apply"},
         call' = [call EXCEPT ![c] = pc],
         pc \in {"lookup", "safe", "safefail", "apply", "applying"} => c = Gen,
         call[c] \in Brief \cup {"idle", "lookup", "safe", "apply"},
         result' \in [Caller -> Result],
         \/ step' = "RUNNING" /\ pc \in Brief
         \/ step' = step /\ step # "RUNNING"
         \/ step' = step /\ call[c] \notin Brief
         \/ step \in {"SKIPPED"} /\ step' = "PENDING"
  PROVE  IInv'
<1>1. /\ LockHeld' /\ EventSpeaks' /\ CheckSpeaks' /\ late' \subseteq Caller
      /\ passed' \subseteq {d \in Caller : call'[d] = "queued"}
  BY WindowKept DEF Brief
<1>2. InFlight' = InFlight /\ Owners' = Owners
  BY SMT DEF IInv, TypeOK, InFlight, Flight, Brief, Owners
<1>3. FlagsOK'
  BY DEF IInv, TypeOK, FlagsOK, runtime, Ends
<1>4. TypeOK'
  BY <1>3, DpsAssumption, <1>1, <1>2, SMT DEF IInv, TypeOK, Flight, Brief, Status, runtime, Caller
<1>5. OneLookupUnlessOrphaned'
  BY <1>2, SMT DEF IInv, OneLookupUnlessOrphaned
<1>6. RunningIsHeld'
  <2>1. pc \in Brief => c \in InBrief'
    BY SMT DEF IInv, TypeOK, InBrief
  <2>2. call[c] \notin Brief => InBrief \subseteq InBrief'
    BY SMT DEF IInv, TypeOK, InBrief
  <2>3. QED
    BY <1>2, <2>1, <2>2, SMT DEF IInv, RunningIsHeld
<1>7. QED BY <1>1, <1>4, <1>5, <1>6 DEF IInv

\* A look-up that is over without having ended the step.
LEMMA GivesUpKeeps ==
  ASSUME IInv, NEW c \in Caller, UNCHANGED runtime, UNCHANGED <<step, result>>,
         NEW pc \in {"idle", "safe"}, call' = [call EXCEPT ![c] = pc],
         pc = "safe" => c = Gen,
         call[c] \in {"ending", "settle", "applying"},
         orphaned' = orphaned \ {c}, left' \in BOOLEAN,
         left => left', step = "RUNNING" => left' \/ Owners \ {c} # {} \/ InBrief \ {c} # {}
  PROVE  IInv'
<1>1. /\ LockHeld' /\ EventSpeaks' /\ CheckSpeaks' /\ late' \subseteq Caller
      /\ passed' \subseteq {d \in Caller : call'[d] = "queued"}
  BY WindowKept
<1>2. InFlight' = InFlight \ {c} /\ Owners' = Owners \ {c} /\ InBrief \ {c} \subseteq InBrief'
  BY SMT DEF IInv, TypeOK, InFlight, InBrief, Flight, Brief, Owners
<1>3. FlagsOK'
  BY DEF IInv, TypeOK, FlagsOK, runtime, Ends
<1>4. TypeOK'
  BY <1>3, DpsAssumption, <1>1, <1>2, SMT DEF IInv, TypeOK, Flight, Brief, runtime, Caller
<1>5. OneLookupUnlessOrphaned' /\ RunningIsHeld'
  BY <1>2, SMT DEF IInv, OneLookupUnlessOrphaned, RunningIsHeld
<1>6. QED BY <1>1, <1>4, <1>5 DEF IInv
\* The server stops: nobody is left to end a step that is RUNNING.
LEMMA CrashKeeps ==
  ASSUME IInv, Crash
  PROVE  IInv'
<1>1. call' = [c \in Caller |-> "idle"] /\ UNCHANGED <<step, result>>
      /\ oplock' = None /\ keeper' = "timer" /\ orphaned' = {} /\ passed' = {}
      /\ late' = {}
  BY DEF Crash
<1>2. FlagsOK'
  BY DEF IInv, TypeOK, FlagsOK, Crash
<1>3. InFlight' = {} /\ InBrief' = {} /\ Owners' = {}
  BY <1>1, SMT DEF InFlight, InBrief, Owners, Flight, Brief
<1>4. TypeOK'
  BY <1>1, <1>2, <1>3, SMT DEF IInv, TypeOK, Flight, Caller
<1>5. OneLookupUnlessOrphaned' /\ RunningIsHeld'
  BY <1>1, <1>3 DEF Crash, OneLookupUnlessOrphaned, RunningIsHeld
<1>6. LockHeld' /\ EventSpeaks' /\ CheckSpeaks'
  BY <1>1, DpsAssumption, SMT DEF LockHeld, EventSpeaks, CheckSpeaks, Caller
<1>7. QED BY <1>4, <1>5, <1>6 DEF IInv

\* What the generation does around enrich.
LEMMA GenKeeps ==
  ASSUME IInv, PlanWith \/ PlanWithout \/ GenStep
  PROVE  IInv'
<1> Gen \in Caller
  BY DEF Caller
<1> call \in [Caller -> Flight \cup Brief \cup {"idle", "lookup", "safe", "apply"}]
    /\ step \in Status /\ result \in [Caller -> Result]
  BY DEF IInv, TypeOK
<1>1. CASE PlanWith
  <2>1. /\ call' = [call EXCEPT ![Gen] = "lookup"] /\ call[Gen] = "idle"
        /\ UNCHANGED runtime /\ UNCHANGED <<orphaned, left>> /\ result' = result
    BY <1>1 DEF PlanWith, Goes
  <2>2. step' = step \/ (step = "SKIPPED" /\ step' = "PENDING")
    BY <1>1 DEF PlanWith
  <2>3. QED BY <2>1, <2>2, BriefKeeps DEF Brief
<1>2. CASE PlanWithout
  <2>1. call' = [call EXCEPT ![Gen] = "idle"]
    BY <1>2, SMT DEF PlanWithout
  <2>2. /\ Ends(Gen, "SKIPPED") /\ call[Gen] = "idle"
        /\ UNCHANGED runtime /\ result' = result
    BY <1>2 DEF PlanWithout
  <2>3. "SKIPPED" \in Status \ {"RUNNING"}
    BY DEF Status
  <2>4. QED BY <2>1, <2>2, <2>3, EndsKeeps
<1>3. CASE SafeRestart
  <2>1. result' \in [Caller -> Result]
    BY <1>3, SMT DEF SafeRestart, Says, Result
  <2>2. /\ UNCHANGED runtime /\ UNCHANGED <<orphaned, left>> /\ call[Gen] = "safe"
        /\ \/ /\ call' = [call EXCEPT ![Gen] = "apply"]
              /\ step' = step /\ step # "RUNNING"
           \/ /\ call' = [call EXCEPT ![Gen] = "safefail"]
              /\ step' = "RUNNING"
    BY <1>3 DEF SafeRestart, Goes
  <2>3. QED BY <2>1, <2>2, BriefKeeps DEF Brief
<1>4. CASE SafeFail
  <2>1. CASE Accepted("FAILED")
    <3>1. /\ Ends(Gen, "FAILED") /\ UNCHANGED runtime /\ result' = result
          /\ call[Gen] = "safefail" /\ call' = [call EXCEPT ![Gen] = "apply"]
      BY <1>4, <2>1 DEF SafeFail, Goes
    <3>2. "FAILED" \in Status \ {"RUNNING"} /\ "safefail" \in Brief
      BY DEF Status, Brief
    <3>3. QED BY <3>1, <3>2, EndsKeeps
  <2>2. CASE ~Accepted("FAILED")
    <3>1. /\ UNCHANGED runtime /\ UNCHANGED <<orphaned, left>>
          /\ result' = result /\ step' = step
          /\ call[Gen] = "safefail" /\ call' = [call EXCEPT ![Gen] = "idle"]
      BY <1>4, <2>2 DEF SafeFail, Goes
    <3>2. step # "RUNNING"
      BY <2>2, SMT DEF Accepted
    <3>3. QED BY <3>1, <3>2, BriefKeeps DEF Brief
  <2>3. QED BY <2>1, <2>2
<1>5. CASE Apply
  <2>1. result' \in [Caller -> Result]
    BY <1>5, SMT DEF Apply, Result
  <2>2. /\ UNCHANGED runtime /\ UNCHANGED <<orphaned, left>> /\ call[Gen] = "apply"
    BY <1>5 DEF Apply
  <2>3. \/ /\ call' = [call EXCEPT ![Gen] = "applying"]
           /\ step' = "RUNNING" \/ step' = step
        \/ /\ call' = [call EXCEPT ![Gen] = "idle"]
           /\ step' = step /\ step # "RUNNING"
    BY <1>5 DEF Apply, Goes
  <2>4. QED BY <2>1, <2>2, <2>3, BriefKeeps DEF Brief
<1>6. CASE Refused
  <2>1. /\ UNCHANGED runtime /\ UNCHANGED <<orphaned, left>>
        /\ result' = result /\ step' = step
        /\ call[Gen] = "lookup" /\ call' = [call EXCEPT ![Gen] = "safe"]
    BY <1>6 DEF Refused, Goes
  <2>2. QED BY <2>1, BriefKeeps DEF Brief
<1>7. QED BY <1>1, <1>2, <1>3, <1>4, <1>5, <1>6 DEF GenStep

\* What a caller does outside the window.
LEMMA CallKeeps ==
  ASSUME IInv, NEW c \in Caller, CacheHit(c) \/ EndStep(c) \/ SaveRaises(c)
  PROVE  IInv'
<1> call \in [Caller -> Flight \cup Brief \cup {"idle", "lookup", "safe", "apply"}]
    /\ step \in Status /\ result \in [Caller -> Result]
  BY DEF IInv, TypeOK
<1>1. CASE CacheHit(c)
  <2>1. result' \in [Caller -> Result]
    BY <1>1, SMT DEF CacheHit, Says, Result
  <2>2. UNCHANGED runtime /\ UNCHANGED <<orphaned, left>>
    BY <1>1 DEF CacheHit
  <2>3. PICK pc \in {"settle", "idle", "apply"} :
          /\ call' = [call EXCEPT ![c] = pc]
          /\ pc = "apply" => c = Gen
          /\ \/ step' = "RUNNING" /\ pc = "settle"
             \/ step' = step
    BY <1>1 DEF CacheHit, After, Goes
  <2>4. call[c] \in {"idle", "lookup"}
    BY <1>1 DEF CacheHit, Before
  <2>5. QED BY <2>1, <2>2, <2>3, <2>4, BriefKeeps DEF Brief
<1>2. CASE EndStep(c)
  <2>1. call[c] = "applying" => c = Gen
    BY SMT DEF IInv, TypeOK, Caller
  <2>2. CASE Accepted(result[c])
    <3>1. Target(result[c]) \in Status \ {"RUNNING"}
      BY SMT DEF Target, Status, Result
    <3>2. PICK pc \in {"idle", "apply"} :
            call' = [call EXCEPT ![c] = pc] /\ (pc = "apply" => c = Gen)
      BY <1>2, <2>2, SMT DEF EndStep, Goes, After
    <3>3. Ends(c, Target(result[c])) /\ UNCHANGED <<result, runtime>>
          /\ call[c] \in Brief \cup {"idle", "ending"}
      BY <1>2, <2>2 DEF EndStep, Brief
    <3>4. QED
      BY <3>1, <3>2, <3>3, EndsKeeps
  <2>3. CASE ~Accepted(result[c])
    <3>1. step # "RUNNING"
      BY <2>3, SMT DEF Accepted
    <3>2. PICK pc \in {"idle", "safe"} :
            call' = [call EXCEPT ![c] = pc] /\ (pc = "safe" => c = Gen)
      BY <1>2, <2>3, SMT DEF EndStep, Goes, OnError
    <3>3. /\ orphaned' = orphaned \ {c} /\ UNCHANGED <<step, left, result, runtime>>
          /\ call[c] \in {"ending", "settle", "applying"}
      BY <1>2, <2>3 DEF EndStep
    <3>4. left' \in BOOLEAN /\ (left => left')
      BY <3>3 DEF IInv, TypeOK, FlagsOK
    <3>5. UNCHANGED runtime /\ UNCHANGED <<step, result>>
      BY <3>3
    <3>6. step = "RUNNING" => left' \/ Owners \ {c} # {} \/ InBrief \ {c} # {}
      BY <3>1
    <3>7. QED
      BY <3>2, <3>3, <3>4, <3>5, <3>6, GivesUpKeeps
  <2>4. QED BY <2>2, <2>3
<1>3. CASE SaveRaises(c)
  <2>1. PICK pc \in {"idle", "safe"} :
          call' = [call EXCEPT ![c] = pc] /\ (pc = "safe" => c = Gen)
    BY <1>3 DEF SaveRaises, Goes, OnError
  <2>2. /\ orphaned' = orphaned \ {c} /\ UNCHANGED <<step, result, runtime>>
        /\ call[c] = "ending"
    BY <1>3 DEF SaveRaises
  <2>3. left' = (left \/ c \in Owners)
    BY <1>3 DEF SaveRaises
  <2>4. left' \in BOOLEAN /\ (left => left') /\ (c \in Owners => left')
    BY <2>3
  <2>5. c \notin InBrief
    BY <2>2, SMT DEF InBrief, Brief
  <2>6. step = "RUNNING" => left' \/ Owners \ {c} # {} \/ InBrief \ {c} # {}
    <3>1. InBrief \ {c} = InBrief
      BY <2>5
    <3>2. c \notin Owners => Owners \ {c} = Owners
      OBVIOUS
    <3>3. QED BY <2>4, <3>1, <3>2 DEF IInv, RunningIsHeld
  <2>7. QED
    BY <2>1, <2>2, <2>4, <2>6, GivesUpKeeps
<1>4. QED BY <1>1, <1>2, <1>3

\* Every step preserves the invariant.
LEMMA StepKeeps == IInv /\ [Next]_vars => IInv'
<1> SUFFICES ASSUME IInv, [Next]_vars PROVE IInv'
  OBVIOUS
<1>1. CASE \E c \in Caller : CacheHit(c) \/ StartStep(c) \/ Acquire(c) \/ LookupStep(c)
  BY <1>1, CallKeeps, StartStepKeeps, FlightStep DEF LookupStep
<1>2. CASE PlanWith \/ PlanWithout \/ GenStep
  BY <1>2, GenKeeps
<1>3. CASE KeeperTick \/ KeeperStep \/ TimePasses
  BY <1>3, KeeperStepKeeps
<1>4. CASE Crash
  BY <1>4, CrashKeeps
<1>5. CASE UNCHANGED vars
  BY <1>5
  DEF vars, IInv, TypeOK, FlagsOK, OneLookupUnlessOrphaned, RunningIsHeld, LockHeld,
      EventSpeaks, CheckSpeaks, Owners, InFlight, InBrief
<1>6. QED BY <1>1, <1>2, <1>3, <1>4, <1>5 DEF Next

\* The invariant of the look-ups: of those in flight one at most has kept its step,
\* a step RUNNING is somebody's, and an event that is not set has been cleared.
THEOREM Lookups == Spec => []IInv
BY InitIInv, StepKeeps, PTL DEF Spec

\* No click goes before a look-up whose announcement stood at the keepalive's last look.
THEOREM Priority == Spec => PriorityUnlessPassed
<1>1. IInv /\ [Next]_vars
        => [keeper # "clicking" /\ keeper' = "clicking" =>
              \A c \in Caller : call[c] = "queued" => c \in passed \cup late]_vars
  <2> SUFFICES ASSUME IInv, Next, keeper # "clicking", keeper' = "clicking"
               PROVE  \A c \in Caller : call[c] = "queued" => c \in passed \cup late
    BY DEF vars
  <2>1. KeeperClicks
    BY SMT DEF Next, LookupStep, GenStep, KeeperTick, KeeperStep, KeeperStops,
      KeeperAttempts, KeeperDefers, KeeperChecks, KeeperEnds, TimePasses, Crash, CacheHit, StartStep,
      Announce, Acquire, Operate, ReleaseLock, ClearEvent, EndStep, SaveRaises,
      PlanWith, PlanWithout, SafeRestart, SafeFail, Apply, Refused, runtime
  <2>2. QED BY <2>1 DEF KeeperClicks, IInv, CheckSpeaks
<1>2. QED BY <1>1, Lookups, PTL DEF Spec, PriorityUnlessPassed
=============================================================================
