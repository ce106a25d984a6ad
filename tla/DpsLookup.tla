------------------------------ MODULE DpsLookup ------------------------------
(***************************************************************************)
(* The delivery look-ups of one inquiry: DpsEnrichmentService.enrich,      *)
(* called by staff sessions and by the generation of an answer, the        *)
(* workflow step DPS_LOOKUP they share, and DpsKeepaliveRuntime, whose one *)
(* lock and one event give a look-up priority over the click that extends  *)
(* the DPS session.                                                        *)
(*                                                                         *)
(* The DPS window is one per computer, so that all look-ups of all         *)
(* inquiries share the lock and the event; those of one inquiry share the  *)
(* step as well. The automatic look-up is enabled, the keepalive runtime is*)
(* started, and the inquiry has a valid order number.                      *)
(***************************************************************************)
EXTENDS Naturals, FiniteSets

CONSTANTS
  Session,  \* staff sessions that look up from the dashboard
  Gen,      \* the generation of the inquiry's answer
  Keeper,   \* the timer thread of the keepalive
  None

Caller == Session \cup {Gen}

ASSUME DpsAssumption ==
  /\ IsFiniteSet(Session)
  /\ Gen \notin Session /\ Keeper \notin Caller /\ None \notin Caller \cup {Keeper}

VARIABLES
  step,     \* workflow_steps.step_status of DPS_LOOKUP
  call,     \* per caller: where it is
  result,   \* per caller: what its look-up, or its cache, has said
  waiting,  \* actual_lookup_waiting
  oplock,   \* _operation_lock: who holds it
  keeper,   \* where the keepalive is
  due,      \* keepalive_due: the interval has passed since the last activity
  cooldown, \* an attempt was recorded after the last activity, an interval ago at most
  orphaned, \* ghost: look-ups in flight whose step another call has ended
  passed,   \* ghost: queued look-ups, another one's end since they announced themselves
  late,     \* ghost: look-ups announced since the keepalive asked for the last time
  left      \* ghost: the step was left RUNNING by a call that is over

vars == <<step, call, result, waiting, oplock, keeper, due, cooldown,
          orphaned, passed, late, left>>
runtime == <<waiting, oplock, keeper, due, cooldown, passed, late>>
-----------------------------------------------------------------------------
Status == {"PENDING", "RUNNING", "COMPLETED", "FAILED", "NEEDS_REVIEW", "SKIPPED"}
Result == {"SUCCESS", "NOT_FOUND", "FAILED"}

\* A look-up in flight has started the step; the others that may hold it RUNNING
\* start and end it in two transactions.
Flight == {"announce", "queued", "operating", "release", "clear", "ending"}
Brief == {"settle", "safefail", "applying"}
InFlight == {c \in Caller : call[c] \in Flight}
InBrief == {c \in Caller : call[c] \in Brief}
Owners == InFlight \ orphaned

FlagsOK ==
  /\ waiting \in BOOLEAN /\ due \in BOOLEAN /\ cooldown \in BOOLEAN /\ left \in BOOLEAN

TypeOK ==
  /\ step \in Status
  /\ call \in [Caller -> Flight \cup Brief \cup {"idle", "lookup", "safe", "apply"}]
  /\ \A s \in Session : call[s] \notin {"lookup", "safe", "safefail", "apply", "applying"}
  /\ result \in [Caller -> Result]
  /\ FlagsOK
  /\ oplock \in Caller \cup {Keeper, None}
  /\ keeper \in {"timer", "monitor", "attempted", "checked", "clicking"}
  /\ orphaned \subseteq InFlight
  /\ passed \subseteq {c \in Caller : call[c] = "queued"}
  /\ late \subseteq Caller

Init ==
  /\ step = "PENDING"
  /\ call = [c \in Caller |-> "idle"] /\ result = [c \in Caller |-> "FAILED"]
  /\ waiting = FALSE /\ oplock = None /\ keeper = "timer"
  /\ due = FALSE /\ cooldown = FALSE
  /\ orphaned = {} /\ passed = {} /\ late = {} /\ left = FALSE
-----------------------------------------------------------------------------
(* The step and its owners.                                                *)

Goes(c, pc) == call' = [call EXCEPT ![c] = pc]
Says(c, r) == result' = [result EXCEPT ![c] = r]

\* A call ends the step: whichever other look-up is in flight has lost it.
Ends(c, status) ==
  /\ step' = status
  /\ orphaned' = IF step = "RUNNING" THEN InFlight \ {c} ELSE orphaned \ {c}
  /\ left' = FALSE

\* complete_step, mark_needs_review, fail_step: the transitions they accept.
Target(r) == CASE r = "SUCCESS" -> "COMPLETED"
               [] r = "NOT_FOUND" -> "NEEDS_REVIEW"
               [] r = "FAILED" -> "FAILED"
Accepted(r) ==
  step \in {"PENDING", "RUNNING"} \cup (IF r = "SUCCESS" THEN {"NEEDS_REVIEW"} ELSE {})

\* Where a caller stands before enrich, and after it.
Before(c) == IF c = Gen THEN "lookup" ELSE "idle"
After(c) == IF c = Gen THEN "apply" ELSE "idle"
OnError(c) == IF c = Gen THEN "safe" ELSE "idle"
-----------------------------------------------------------------------------
(* The generation around enrich.                                           *)

\* The plan asks for a look-up: a step that was skipped is opened again.
PlanWith ==
  /\ call[Gen] = "idle"
  /\ Goes(Gen, "lookup")
  /\ step' = IF step = "SKIPPED" THEN "PENDING" ELSE step
  /\ UNCHANGED <<result, orphaned, left, runtime>>

\* It does not: _skip_not_applicable_steps, whoever is looking up.
PlanWithout ==
  /\ call[Gen] = "idle"
  /\ step \notin {"COMPLETED", "SKIPPED"}
  /\ Ends(Gen, "SKIPPED")
  /\ UNCHANGED <<call, result, runtime>>

\* _safe_dps_failure_outcome: a step it finds RUNNING, its own or another's, ...
SafeRestart ==
  /\ call[Gen] = "safe"
  /\ Goes(Gen, IF step = "SKIPPED" THEN "apply" ELSE "safefail")
  /\ Says(Gen, "FAILED")
  /\ step' = IF step = "SKIPPED" THEN step ELSE "RUNNING"
  /\ UNCHANGED <<orphaned, left, runtime>>

\* ... is failed, unless it has been ended meanwhile, which fails the generation.
SafeFail ==
  /\ call[Gen] = "safefail"
  /\ IF Accepted("FAILED")
     THEN Goes(Gen, "apply") /\ Ends(Gen, "FAILED")
     ELSE Goes(Gen, "idle") /\ UNCHANGED <<step, orphaned, left>>
  /\ UNCHANGED <<result, runtime>>

\* _apply_dps_workflow, which reads the step, ...
Apply ==
  LET acts == step \in {"PENDING", "RUNNING"}
                \cup (IF result[Gen] = "SUCCESS" THEN {"FAILED", "NEEDS_REVIEW"} ELSE {})
  IN
  /\ call[Gen] = "apply"
  /\ Goes(Gen, IF acts THEN "applying" ELSE "idle")
  /\ result' = [result EXCEPT ![Gen] = IF @ = "SUCCESS" THEN @ ELSE "FAILED"]
  /\ step' = IF acts /\ step \in {"FAILED", "NEEDS_REVIEW"} THEN "RUNNING" ELSE step
  /\ UNCHANGED <<orphaned, left, runtime>>
-----------------------------------------------------------------------------
(* enrich.                                                                 *)

\* A valid cached result: _complete_step reads the step and ends it, after a retry
\* or after it has reopened it, whoever is looking up.
CacheHit(c) ==
  /\ call[c] = Before(c)
  /\ Goes(c, IF step = "COMPLETED" THEN After(c) ELSE "settle")
  /\ Says(c, "SUCCESS")
  /\ step' = IF step \in {"FAILED", "NEEDS_REVIEW", "SKIPPED"} THEN "RUNNING" ELSE step
  /\ UNCHANGED <<orphaned, left, runtime>>

\* Mutant: the step is started without a look at it.
StartStepAnyway(c) ==
  /\ call[c] = Before(c)
  /\ step' = "RUNNING"
  /\ Goes(c, "announce")
  /\ UNCHANGED <<result, orphaned, left, runtime>>

\* _start_step: started, retried, restarted or reopened.
StartStep(c) ==
  /\ call[c] = Before(c)
  /\ step # "RUNNING"
  /\ step' = "RUNNING"
  /\ Goes(c, "announce")
  /\ UNCHANGED <<result, orphaned, left, runtime>>

\* "DPS lookup is already running." is told a session, which changes nothing; the
\* generation takes it for a failure.
Refused ==
  /\ call[Gen] = "lookup" /\ step = "RUNNING"
  /\ Goes(Gen, "safe")
  /\ UNCHANGED <<step, result, orphaned, left, runtime>>

\* run_lookup: announced, ...
Announce(c) ==
  /\ call[c] = "announce"
  /\ Goes(c, "queued")
  /\ waiting' = TRUE
  /\ late' = IF keeper = "checked" THEN late \cup {c} ELSE late
  /\ UNCHANGED <<step, result, oplock, keeper, due, cooldown, orphaned, passed, left>>

\* ... in its turn, ...
Acquire(c) ==
  /\ call[c] = "queued" /\ oplock = None
  /\ oplock' = c
  /\ Goes(c, "operating")
  /\ passed' = passed \ {c}
  /\ UNCHANGED <<step, result, waiting, keeper, due, cooldown, orphaned, late, left>>

\* ... answered or not, an exception being an answer; a success is an activity
\* that keeps the session, ...
Operate(c) ==
  /\ call[c] = "operating"
  /\ Goes(c, "release")
  /\ \E r \in Result :
       /\ Says(c, r)
       /\ due' = (due /\ r # "SUCCESS")
       /\ cooldown' = (cooldown /\ r # "SUCCESS")
  /\ UNCHANGED <<step, waiting, oplock, keeper, orphaned, passed, late, left>>

\* ... and over: the lock first, ...
ReleaseLock(c) ==
  /\ call[c] = "release"
  /\ oplock' = None
  /\ Goes(c, "clear")
  /\ UNCHANGED <<step, result, waiting, keeper, due, cooldown, orphaned, passed, late, left>>

\* ... then the event, which speaks for the others as well.
ClearEvent(c) ==
  /\ call[c] = "clear"
  /\ waiting' = FALSE
  /\ passed' = {d \in Caller : call[d] = "queued"}
  /\ Goes(c, "ending")
  /\ UNCHANGED <<step, result, oplock, keeper, due, cooldown, orphaned, late, left>>

\* The step is ended by the result, whoever holds it by now; a transition that is
\* not accepted raises.
EndStep(c) ==
  /\ call[c] \in {"ending", "settle", "applying"}
  /\ IF Accepted(result[c])
     THEN /\ Ends(c, Target(result[c]))
          /\ Goes(c, IF call[c] = "applying" THEN "idle" ELSE After(c))
     ELSE /\ Goes(c, IF call[c] = "applying" THEN "idle" ELSE OnError(c))
          /\ orphaned' = orphaned \ {c}
          /\ UNCHANGED <<step, left>>
  /\ UNCHANGED <<result, runtime>>

\* The result cannot be read or stored: nothing but the generation ends the step.
SaveRaises(c) ==
  /\ call[c] = "ending"
  /\ Goes(c, OnError(c))
  /\ left' = (left \/ c \in Owners)
  /\ orphaned' = orphaned \ {c}
  /\ UNCHANGED <<step, result, runtime>>
-----------------------------------------------------------------------------
(* The keepalive.                                                          *)

\* monitor, unless a look-up waits or is at work.
KeeperTick ==
  /\ keeper = "timer" /\ ~waiting /\ oplock = None
  /\ keeper' = "monitor" /\ oplock' = Keeper
  /\ UNCHANGED <<step, call, result, waiting, due, cooldown, orphaned, passed, late, left>>

\* A passive check, a deferral, a failure: the lock is given back.
KeeperStops ==
  /\ keeper = "monitor"
  /\ keeper' = "timer" /\ oplock' = None
  /\ UNCHANGED <<step, call, result, waiting, due, cooldown, orphaned, passed, late, left>>

\* An attempt is due and the window is free: it is recorded.
KeeperAttempts ==
  /\ keeper = "monitor" /\ due /\ ~cooldown /\ ~waiting
  /\ keeper' = "attempted" /\ cooldown' = TRUE
  /\ UNCHANGED <<step, call, result, waiting, oplock, due, orphaned, passed, late, left>>

\* Mutant: it returns without giving the lock back.
KeeperDefersHolding ==
  /\ keeper \in {"attempted", "checked"}
  /\ keeper' = "timer"
  /\ UNCHANGED <<step, call, result, waiting, oplock, due, cooldown, orphaned, passed, late,
                 left>>

\* The tab is not ready or not the one, or a look-up has announced itself.
KeeperDefers ==
  /\ keeper \in {"attempted", "checked"}
  /\ keeper' = "timer" /\ oplock' = None
  /\ UNCHANGED <<step, call, result, waiting, due, cooldown, orphaned, passed, late, left>>

\* Mutant: the event is not read again once the tab is ready.
KeeperChecksNothing ==
  /\ keeper = "attempted"
  /\ keeper' = "checked" /\ late' = {}
  /\ UNCHANGED <<step, call, result, waiting, oplock, due, cooldown, orphaned, passed, left>>

\* The event is read for the last time, ...
KeeperChecks ==
  /\ keeper = "attempted" /\ ~waiting
  /\ keeper' = "checked" /\ late' = {}
  /\ UNCHANGED <<step, call, result, waiting, oplock, due, cooldown, orphaned, passed, left>>

\* ... and the button is clicked once the tab was verified, whoever announced himself
\* meanwhile.
KeeperClicks ==
  /\ keeper = "checked"
  /\ keeper' = "clicking"
  /\ UNCHANGED <<step, call, result, waiting, oplock, due, cooldown, orphaned, passed, late,
                 left>>

\* The session is extended, or not.
KeeperEnds ==
  /\ keeper = "clicking"
  /\ keeper' = "timer" /\ oplock' = None
  /\ \/ due' = FALSE /\ cooldown' = FALSE
     \/ UNCHANGED <<due, cooldown>>
  /\ UNCHANGED <<step, call, result, waiting, orphaned, passed, late, left>>

\* The interval passes after the last activity, and after the last attempt.
TimePasses ==
  /\ \/ ~due /\ due' = TRUE /\ UNCHANGED cooldown
     \/ cooldown /\ cooldown' = FALSE /\ UNCHANGED due
  /\ UNCHANGED <<step, call, result, waiting, oplock, keeper, orphaned, passed, late, left>>

\* The server stops and is started again; nothing looks at the step.
Crash ==
  /\ \/ \E c \in Caller : call[c] # "idle"
     \/ keeper # "timer"
  /\ call' = [c \in Caller |-> "idle"]
  /\ waiting' = FALSE /\ oplock' = None /\ keeper' = "timer"
  /\ orphaned' = {} /\ passed' = {} /\ late' = {}
  /\ left' = (step = "RUNNING")
  /\ UNCHANGED <<step, result, due, cooldown>>
-----------------------------------------------------------------------------
LookupStep(c) ==
  \/ Announce(c) \/ Operate(c) \/ ReleaseLock(c) \/ ClearEvent(c)
  \/ EndStep(c) \/ SaveRaises(c)
GenStep == SafeRestart \/ SafeFail \/ Apply \/ Refused
KeeperStep ==
  \/ KeeperStops \/ KeeperAttempts \/ KeeperDefers \/ KeeperChecks \/ KeeperClicks
  \/ KeeperEnds

Next ==
  \/ \E c \in Caller : CacheHit(c) \/ StartStep(c) \/ Acquire(c) \/ LookupStep(c)
  \/ PlanWith \/ PlanWithout \/ GenStep
  \/ KeeperTick \/ KeeperStep \/ TimePasses \/ Crash

Spec == Init /\ [][Next]_vars

\* Threads go on: a call that has begun, a keepalive that is at work.  The lock
\* is taken by one who waits for it as often as it is given back.
FairSpec ==
  /\ Spec
  /\ \A c \in Caller : WF_vars(LookupStep(c)) /\ SF_vars(Acquire(c))
  /\ WF_vars(GenStep \/ CacheHit(Gen) \/ StartStep(Gen))
  /\ WF_vars(KeeperStep)
-----------------------------------------------------------------------------
(* Properties.                                                             *)

\* Of the look-ups of an inquiry that are in flight, all but one have had their
\* step ended by another call, and the one that has not holds it RUNNING.
OneLookupUnlessOrphaned ==
  /\ \A c, d \in Owners : c = d
  /\ Owners # {} => step = "RUNNING"

\* A step is RUNNING only while a call is there to end it, or after one that was cut
\* off by the server's death or by an error in what it had to store.
RunningIsHeld == step = "RUNNING" => Owners # {} \/ InBrief # {} \/ left

\* The lock is held by who is at work in the DPS window.
LockHeld ==
  /\ \A c \in Caller : call[c] \in {"operating", "release"} <=> oplock = c
  /\ keeper # "timer" <=> oplock = Keeper

\* An event that is not set has been cleared by a look-up that ended, for all that
\* are queued.
EventSpeaks == ~waiting => \A c \in Caller : call[c] = "queued" => c \in passed

\* What the keepalive found at its last look at the event stands, but for those who
\* announced themselves since.
CheckSpeaks ==
  keeper = "checked" => \A c \in Caller : call[c] = "queued" => c \in passed \cup late

IInv ==
  TypeOK /\ OneLookupUnlessOrphaned /\ RunningIsHeld /\ LockHeld /\ EventSpeaks /\ CheckSpeaks

\* The click goes before no look-up that had announced itself when the keepalive asked
\* for the last time, unless another one has ended since and taken the announcement
\* with it.  Those that announce themselves between that look and the click wait.
PriorityUnlessPassed ==
  [][keeper # "clicking" /\ keeper' = "clicking" =>
       \A c \in Caller : call[c] = "queued" => c \in passed \cup late]_vars

\* Every call ends: the keepalive and the other look-ups give the window back.
LookupsEnd == \A c \in Caller : call[c] # "idle" ~> call[c] = "idle"
=============================================================================
