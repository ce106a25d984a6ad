--------------------------- MODULE AutoPostQueue ---------------------------
(***************************************************************************)
(* Unattended posting: the outbox auto_sync_events that a sync fills, the  *)
(* operator's switch per marketplace, and the schedulers that claim events *)
(* and run the pipeline on them.  The Streamlit server and the sidecar of  *)
(* qa_streamlit_start_browser.py each run a scheduler over one database;   *)
(* a scheduler lease, claims and locks that expire keep them apart.  Every *)
(* database transaction is an action; what a thread read before it and     *)
(* uses after it is kept in sync, ui and run.                              *)
(***************************************************************************)
EXTENDS Naturals, FiniteSets

CONSTANTS
  Event,       \* rows of auto_sync_events, one for each new inquiry
  Market,      \* the marketplaces with a switch of their own
  marketOf,    \* [Event -> Market]
  Process,     \* the server and its sidecars
  App,         \* the server: it syncs, renders pages and resets the switch
  SideMarket,  \* the market a sidecar turns on when it is launched
  MaxRetries,  \* settings.max_retries before anything runs
  Retries,     \* the values of max_retries an operator enters
  MaxClaims,   \* bound: claims of one event
  LeftOn,      \* bound: the markets the last server may have left on
  Switchable,  \* bound: the markets an operator turns on and off
  Mortal,      \* bound: the processes that may die
  None,
  Dead         \* the owner id of a process that is gone

ASSUME AutoPostQueueAssumption ==
  /\ marketOf \in [Event -> Market]
  /\ App \in Process /\ IsFiniteSet(Process) /\ SideMarket \in Market
  /\ MaxRetries \in Nat /\ Retries \subseteq Nat /\ MaxClaims \in Nat
  /\ LeftOn \subseteq Market /\ Switchable \subseteq Market /\ Mortal \subseteq Process
  /\ None \notin Process /\ Dead \notin Process /\ None \notin Event /\ None # Dead

VARIABLES
  on,     \* naver_auto_post_settings: naver_enabled, coupang_enabled
  retries, \* naver_auto_post_settings.max_retries, and its highest value so far
  event,  \* auto_sync_events
  post,   \* inquiries.post_status of the event's inquiry, and its attempts
  sync,   \* where the sync that found the inquiry stands
  ui,     \* per process, an operator's call of the runtime service
  sched,  \* per process, the scheduler object
  run,    \* per process, the locals of run_once and run_pending
  lease,  \* naver_auto_post_state.owner_id; None once it expired
  lock    \* naver_auto_post_locks: the owner per inquiry; None once expired

vars == <<on, retries, event, post, sync, ui, sched, run, lease, lock>>
-----------------------------------------------------------------------------
Owner == Process \cup {None, Dead}

QueueStatus == {"ABSENT", "PENDING", "BLOCKED_AUTO_POST_OFF", "PROCESSING",
                "RETRY_BY_SCHEDULER", "COMPLETED", "FAILED"}
PostStatus == {"NOT_POSTED", "POSTING", "POSTED", "POST_FAILED", "POST_UNKNOWN"}

\* by: claimed_by; count: attempt_count; stale: 600 s after its lease of 600 s.
EventRow == [status: QueueStatus, by: Owner, count: Nat, stale: BOOLEAN]
\* fails: its attempts that ended POST_FAILED; stale: POSTING for 600 s.
PostRow == [status: PostStatus, fails: Nat, stale: BOOLEAN]

\* "on" and "off" are what the sync read of its market's switch.
SyncState == {"new", "on", "off", "notify", "done"}

\* flag: the value of "enabled" the call has read.
UiPc == {"idle", "start", "save", "unblock", "block", "write", "ensure", "stop"}
UiJob == [pc: UiPc, market: Market \cup {None}, flag: BOOLEAN]
NoUi == [pc |-> "idle", market |-> None, flag |-> FALSE]

\* started: _started; armed: a timer is set.
SchedState == [up: BOOLEAN, started: BOOLEAN, armed: BOOLEAN]

RunPc == {"off", "check", "claim", "work", "draft", "sending", "settle",
          "save", "block", "end"}
Item == {"none", "ok", "skipped", "failed", "unknown"}
\* scope, limit: the markets enabled, and max_retries, when the run began; seen:
\* the events it claimed; count: attempt_count as claimed; synced: the trigger is
\* AUTO_SYNC_COMPLETED; then: where the run goes on after pause().
RunJob == [pc: RunPc, then: RunPc, scope: SUBSET Market, limit: Nat,
           seen: SUBSET Event, event: Event \cup {None}, count: Nat, item: Item,
           synced: BOOLEAN]
NoRun == [pc |-> "off", then |-> "off", scope |-> {}, limit |-> 0,
          seen |-> {}, event |-> None, count |-> 0, item |-> "none",
          synced |-> FALSE]

TypeOK ==
  /\ on \in [Market -> BOOLEAN]
  /\ retries \in [now: Nat, most: Nat]
  /\ event \in [Event -> EventRow]
  /\ post \in [Event -> PostRow]
  /\ sync \in [Event -> SyncState]
  /\ ui \in [Process -> UiJob]
  /\ sched \in [Process -> SchedState]
  /\ run \in [Process -> RunJob]
  /\ lease \in Owner
  /\ lock \in [Event -> Owner]

\* Nothing runs yet and nothing was synced; the switch is as the last server left it.
Init ==
  /\ on \in [Market -> BOOLEAN] /\ \A m \in Market \ LeftOn : ~on[m]
  /\ retries = [now |-> MaxRetries, most |-> MaxRetries]
  /\ event = [e \in Event |-> [status |-> "ABSENT", by |-> None, count |-> 0,
                               stale |-> FALSE]]
  /\ post = [e \in Event |-> [status |-> "NOT_POSTED", fails |-> 0,
                              stale |-> FALSE]]
  /\ sync = [e \in Event |-> "new"]
  /\ ui = [p \in Process |-> NoUi]
  /\ sched = [p \in Process |-> [up |-> FALSE, started |-> FALSE, armed |-> FALSE]]
  /\ run = [p \in Process |-> NoRun]
  /\ lease = None
  /\ lock = [e \in Event |-> None]
-----------------------------------------------------------------------------
(* What several handlers do to the database.                               *)

\* The column "enabled": both writers keep it at the maximum of the markets'.
Enabled == \E m \in Market : on[m]
UnknownIn(rows) == \E e \in Event : rows[e].status = "POST_UNKNOWN"

Claimable(e) == event[e].status \in {"PENDING", "RETRY_BY_SCHEDULER"}

\* Mutants: the row keeps its owner; only rows whose owner is gone recover.
RecoveredKeepOwner ==
  [e \in Event |->
     IF event[e].status = "PROCESSING" /\ event[e].stale
     THEN [event[e] EXCEPT !.status = "RETRY_BY_SCHEDULER", !.stale = FALSE]
     ELSE event[e]]
RecoveredOnlyDead ==
  [e \in Event |->
     IF event[e].status = "PROCESSING" /\ event[e].stale /\ event[e].by = Dead
     THEN [event[e] EXCEPT !.status = "RETRY_BY_SCHEDULER", !.by = None,
                           !.stale = FALSE]
     ELSE event[e]]

\* AutoPostEventRepository.recover_stale_processing.
RecoveredEvents ==
  [e \in Event |->
     IF event[e].status = "PROCESSING" /\ event[e].stale
     THEN [event[e] EXCEPT !.status = "RETRY_BY_SCHEDULER", !.by = None,
                           !.stale = FALSE]
     ELSE event[e]]

\* Mutants: a send found stale is given back for a retry; only a send whose
\* event is claimed still is recovered.
RecoveredClaimedOnly ==
  [e \in Event |->
     IF post[e].status = "POSTING" /\ post[e].stale /\ event[e].status = "PROCESSING"
     THEN [post[e] EXCEPT !.status = "POST_UNKNOWN"] ELSE post[e]]
RecoveredAsFailed ==
  [e \in Event |->
     IF post[e].status = "POSTING" /\ post[e].stale
     THEN [post[e] EXCEPT !.status = "POST_FAILED"] ELSE post[e]]

\* AutoPostRepository.recover_stale_posting.
RecoveredPosts ==
  [e \in Event |->
     IF post[e].status = "POSTING" /\ post[e].stale
     THEN [post[e] EXCEPT !.status = "POST_UNKNOWN"] ELSE post[e]]

\* AutoPostEventRepository.block_new_claims and unblock_after_runtime_enable.
Blocked(S) ==
  [e \in Event |-> IF event[e].status = "PENDING" /\ marketOf[e] \in S
                   THEN [event[e] EXCEPT !.status = "BLOCKED_AUTO_POST_OFF"]
                   ELSE event[e]]
Unblocked(S) ==
  [e \in Event |-> IF event[e].status = "BLOCKED_AUTO_POST_OFF" /\ marketOf[e] \in S
                   THEN [event[e] EXCEPT !.status = "PENDING"] ELSE event[e]]

\* save_settings writes "enabled" to every market, and max_retries with it;
\* save_platform_enabled writes one market's switch.
SaveSettings(flag, n) ==
  /\ on' = [m \in Market |-> flag]
  /\ retries' = [now |-> n, most |-> IF n > retries.most THEN n ELSE retries.most]
SavePlatform(m, flag) == on' = [on EXCEPT ![m] = flag] /\ UNCHANGED retries

\* What pause() and the reset at the start of a process save: a max_retries of
\* zero, read as absent, becomes 1.
TurnOff == SaveSettings(FALSE, IF retries.now = 0 THEN 1 ELSE retries.now)

\* acquire_scheduler_lease: free, expired or one's own.
LeaseFor(p) == lease \in {None, p}
Release(p) == lease' = IF lease = p THEN None ELSE lease

\* NaverAutoPostScheduler.stop: a run in progress releases the lease at its end.
Stop(p) ==
  /\ sched' = [sched EXCEPT ![p].started = FALSE, ![p].armed = FALSE]
  /\ IF run[p].pc = "off" THEN Release(p) ELSE UNCHANGED lease

\* NaverAutoPostScheduler.start, then notify_event if wake: a scheduler that is
\* started already gets no timer from start().
Start(p, wake) ==
  /\ sched' = [sched EXCEPT ![p].started = TRUE,
                            ![p].armed = @ \/ wake \/ ~sched[p].started]
  /\ lease' = IF ~sched[p].started /\ LeaseFor(p) THEN p ELSE lease

\* ensure_auto_post_scheduler, then notify_event if wake.
Ensure(p, wake) ==
  \/ ~Enabled /\ Stop(p) /\ UNCHANGED <<event, post>>
  \/ /\ Enabled
     /\ event' = RecoveredEvents
     /\ post' = RecoveredPosts
     /\ IF UnknownIn(RecoveredPosts) THEN Stop(p) ELSE Start(p, wake)
-----------------------------------------------------------------------------
(* The sync: inquiry_sync_service, once per new inquiry.                   *)

\* After the inquiry is committed, its market's switch is read.
SyncRead(e) ==
  /\ sched[App].up /\ sync[e] = "new"
  /\ sync' = [sync EXCEPT ![e] = IF on[marketOf[e]] THEN "on" ELSE "off"]
  /\ UNCHANGED <<on, retries, event, post, ui, sched, run, lease, lock>>

\* AutoPostEventRepository.create, in a transaction of its own.
SyncCreate(e) ==
  /\ sync[e] \in {"on", "off"}
  /\ event' = [event EXCEPT ![e].status =
       IF sync[e] = "on" THEN "PENDING" ELSE "BLOCKED_AUTO_POST_OFF"]
  /\ sync' = [sync EXCEPT ![e] = IF sync[e] = "on" THEN "notify" ELSE "done"]
  /\ UNCHANGED <<on, retries, post, ui, sched, run, lease, lock>>

SyncNotify(e) ==
  /\ sync[e] = "notify"
  /\ sync' = [sync EXCEPT ![e] = "done"]
  /\ Ensure(App, TRUE)
  /\ UNCHANGED <<on, retries, ui, run, lock>>
-----------------------------------------------------------------------------
(* Operators: AutoPostRuntimeService, and the settings panel.              *)

\* A page is rendered, or a sync completed: the scheduler is ensured.
Rerun ==
  /\ sched[App].up
  /\ Ensure(App, FALSE)
  /\ UNCHANGED <<on, retries, sync, ui, run, lock>>

\* enable_market, in a page or once in a sidecar: the preflight, which refuses
\* while an inquiry is POSTING or POST_UNKNOWN.
EnableAsk(p, m) ==
  /\ sched[p].up
  /\ \/ p = App /\ ui[p].pc = "idle" /\ m \in Switchable
     \/ p # App /\ ui[p].pc = "start" /\ m = SideMarket
  /\ ui' = [ui EXCEPT ![p] =
       IF \E e \in Event : post[e].status \in {"POSTING", "POST_UNKNOWN"}
       THEN NoUi ELSE [pc |-> "save", market |-> m, flag |-> FALSE]]
  /\ UNCHANGED <<on, retries, event, post, sync, sched, run, lease, lock>>

EnableSave(p) ==
  /\ ui[p].pc = "save"
  /\ SavePlatform(ui[p].market, TRUE)
  /\ ui' = [ui EXCEPT ![p].pc = "unblock"]
  /\ UNCHANGED <<event, post, sync, sched, run, lease, lock>>

EnableUnblock(p) ==
  /\ ui[p].pc = "unblock"
  /\ event' = Unblocked({ui[p].market})
  /\ ui' = [ui EXCEPT ![p].pc = "ensure"]
  /\ UNCHANGED <<on, retries, post, sync, sched, run, lease, lock>>

\* disable_market; "flag": no market was left on, so the scheduler is stopped.
DisableSave(m) ==
  /\ m \in Switchable
  /\ sched[App].up /\ ui[App].pc = "idle"
  /\ SavePlatform(m, FALSE)
  /\ ui' = [ui EXCEPT ![App] = [pc |-> "block", market |-> m,
                                flag |-> \A k \in Market \ {m} : ~on[k]]]
  /\ UNCHANGED <<event, post, sync, sched, run, lease, lock>>

DisableBlock ==
  /\ ui[App].pc = "block"
  /\ event' = Blocked({ui[App].market})
  /\ ui' = [ui EXCEPT ![App].pc = "ensure"]
  /\ UNCHANGED <<on, retries, post, sync, sched, run, lease, lock>>

\* The panel renders the settings, and saves its interval with "enabled" as read.
PanelRead ==
  /\ Switchable # {}
  /\ sched[App].up /\ ui[App].pc = "idle"
  /\ ui' = [ui EXCEPT ![App] = [pc |-> "write", market |-> None, flag |-> Enabled]]
  /\ UNCHANGED <<on, retries, event, post, sync, sched, run, lease, lock>>

PanelSave ==
  /\ ui[App].pc = "write"
  /\ \E n \in Retries : SaveSettings(ui[App].flag, n)
  /\ ui' = [ui EXCEPT ![App].pc = "ensure", ![App].flag = FALSE]
  /\ UNCHANGED <<event, post, sync, sched, run, lease, lock>>

\* The ensure_auto_post_scheduler that ends all three, and disable's own stop().
UiEnsure(p) ==
  /\ ui[p].pc = "ensure"
  /\ Ensure(p, FALSE)
  /\ ui' = [ui EXCEPT ![p] = IF ui[p].flag THEN [ui[p] EXCEPT !.pc = "stop"]
                             ELSE NoUi]
  /\ UNCHANGED <<on, retries, sync, run, lock>>

UiStop ==
  /\ ui[App].pc = "stop"
  /\ Stop(App)
  /\ ui' = [ui EXCEPT ![App] = NoUi]
  /\ UNCHANGED <<on, retries, event, post, sync, run, lock>>
-----------------------------------------------------------------------------
(* The timer and the runs: NaverAutoPostScheduler.                         *)

\* run_once up to its loop; its reads of the switch, of POST_UNKNOWN and of the
\* lease repeat those of _tick and are one with them.
StartRun(p, synced) ==
  /\ lease' = p
  /\ event' = RecoveredEvents
  /\ run' = [run EXCEPT ![p] =
       [NoRun EXCEPT !.pc = "check", !.scope = {m \in Market : on[m]},
                     !.limit = retries.now, !.synced = synced]]

\* Mutant: the queue is blocked, the switch is left on.
PauseQueueOnly == UNCHANGED <<on, retries>> /\ event' = Blocked(Market)

\* AutoPostRuntimeService.pause as _tick and run_once call it.
Pause == TurnOff /\ event' = Blocked(Market)

\* _tick: the switch is off.  While another process leads, the timer is set again.
TickOff(p) ==
  /\ sched[p].armed /\ ~Enabled
  /\ Stop(p)
  /\ UNCHANGED <<on, retries, event, post, sync, ui, run, lock>>

TickUnknown(p) ==
  /\ sched[p].armed /\ Enabled /\ LeaseFor(p) /\ UnknownIn(post)
  /\ Pause
  /\ sched' = [sched EXCEPT ![p].started = FALSE, ![p].armed = FALSE]
  /\ lease' = IF run[p].pc = "off" THEN None ELSE p
  /\ UNCHANGED <<post, sync, ui, run, lock>>

\* Work is queued or the interval has passed; ALREADY_RUNNING sets no timer.
TickRun(p) ==
  /\ sched[p].armed /\ Enabled /\ LeaseFor(p) /\ ~UnknownIn(post)
  /\ sched' = [sched EXCEPT ![p].armed = FALSE]
  /\ \/ run[p].pc = "off" /\ StartRun(p, FALSE)
     \/ run[p].pc # "off" /\ lease' = p /\ UNCHANGED <<event, run>>
  /\ UNCHANGED <<on, retries, post, sync, ui, lock>>

\* run_once(trigger="AUTO_SYNC_COMPLETED"), in the thread of the sync.  The
\* ensure_auto_post_scheduler before it is a Rerun: others act in between.
SyncRun ==
  /\ sched[App].up /\ Enabled
  /\ \/ UnknownIn(post) /\ Pause /\ UNCHANGED <<lease, run>>
     \/ /\ ~UnknownIn(post) /\ LeaseFor(App)
        /\ \/ run[App].pc = "off" /\ StartRun(App, TRUE)
           \/ run[App].pc # "off" /\ lease' = App /\ UNCHANGED <<event, run>>
        /\ UNCHANGED <<on, retries>>
  /\ UNCHANGED <<post, sync, ui, sched, lock>>

\* The loop: "enabled" is read, then the next event is claimed.
Goto(p, pc) == run' = [run EXCEPT ![p].pc = pc]

Check(p) ==
  /\ run[p].pc = "check"
  /\ Goto(p, IF Enabled THEN "claim" ELSE "end")
  /\ UNCHANGED <<on, retries, event, post, sync, ui, sched, lease, lock>>

\* claim_next, in the scope read when the run began; PENDING before RETRY.
Queue(p) ==
  LET open == {e \in Event : /\ Claimable(e) /\ e \notin run[p].seen
                             /\ marketOf[e] \in run[p].scope
                             /\ event[e].count < MaxClaims}
      fresh == {e \in open : event[e].status = "PENDING"}
  IN  IF fresh # {} THEN fresh ELSE open

Claim(p) ==
  /\ run[p].pc = "claim"
  /\ \/ Queue(p) = {} /\ Goto(p, "end") /\ UNCHANGED event
     \/ \E e \in Queue(p) :
          /\ event' = [event EXCEPT ![e] =
               [status |-> "PROCESSING", by |-> p, count |-> @.count + 1,
                stale |-> FALSE]]
          /\ run' = [run EXCEPT ![p].pc = "work", ![p].event = e,
                       ![p].count = event[e].count + 1,
                       ![p].seen = @ \cup {e}]
  /\ UNCHANGED <<on, retries, post, sync, ui, sched, lease, lock>>

Settling(p, item) ==
  run' = [run EXCEPT ![p].pc = "settle", ![p].item = item]

\* The event's draft was generated ahead and failed, or waiting for it raised,
\* which ends the run and leaves the event claimed.
DraftAhead(p) ==
  /\ run[p].pc = "work"
  /\ \/ Settling(p, "failed")
     \/ run' = [run EXCEPT ![p].pc = "end", ![p].event = None]
  /\ UNCHANGED <<on, retries, event, post, sync, ui, sched, lease, lock>>

\* Mutant: failed attempts are not counted.
CandidateUnlimited(row, limit) == row.status \in {"NOT_POSTED", "POST_FAILED"}

\* candidates(): the conditions on the inquiry that the queue's state decides.
Candidate(row, limit) ==
  \/ row.status = "NOT_POSTED"
  \/ row.status = "POST_FAILED" /\ row.fails <= limit

\* run_pending up to the inquiry's lock.  A row the marketplace has answered or
\* deleted is no candidate either.
Begin(p) ==
  LET e == run[p].event IN
  /\ run[p].pc = "work"
  /\ post' = RecoveredPosts
  /\ \/ Settling(p, "none") /\ UNCHANGED lock
     \/ /\ Candidate(RecoveredPosts[e], run[p].limit) /\ lock[e] # None
        /\ Settling(p, "skipped") /\ UNCHANGED lock
     \/ /\ Candidate(RecoveredPosts[e], run[p].limit) /\ lock[e] = None
        /\ lock' = [lock EXCEPT ![e] = p]
        /\ Goto(p, "draft")
  /\ UNCHANGED <<on, retries, event, sync, ui, sched, lease>>

\* After a failure _pause_for_system_error may pause before the event settles.
Failing(p) ==
  \/ Settling(p, "failed")
  \/ run' = [run EXCEPT ![p].pc = "save", ![p].then = "settle",
                        ![p].item = "failed"]

\* The inquiry is read again, drafted, judged and finalized, and acquired by
\* NaverPostService.post (module NaverPost).  It is skipped if it was answered or
\* deleted, is held for review or refused; it may fail on the way; or it is
\* POSTING.  What the first reads check of its status, acquire checks again.
PostAcquire(p) ==
  LET e == run[p].event IN
  /\ run[p].pc = "draft"
  /\ \/ (Settling(p, "skipped") \/ Failing(p)) /\ UNCHANGED post
     \/ /\ post[e].status \in {"NOT_POSTED", "POST_FAILED"}
        /\ post' = [post EXCEPT ![e].status = "POSTING", ![e].stale = FALSE]
        /\ Goto(p, "sending")
  /\ UNCHANGED <<on, retries, event, sync, ui, sched, lease, lock>>

\* The outcome changes the inquiry only if it is POSTING still.
Record(e, status, failed) ==
  post' = IF post[e].status = "POSTING"
          THEN [post EXCEPT ![e].status = status, ![e].fails = @ + failed]
          ELSE post

\* POSTED (confirmed or not), ALREADY_ANSWERED, POST_FAILED or POST_UNKNOWN;
\* succeed() raises if the attempt was recovered as stale.
PostOutcome(p) ==
  LET e == run[p].event IN
  /\ run[p].pc = "sending"
  /\ \/ Record(e, "POSTED", 0) /\ Failing(p)
     \/ Record(e, "POSTED", 0) /\ post[e].status = "POSTING" /\ Settling(p, "ok")
     \/ Record(e, "POSTED", 0) /\ Settling(p, "skipped")
     \/ Record(e, "POST_FAILED", 1) /\ Failing(p)
     \/ Record(e, "POST_UNKNOWN", 0) /\ Settling(p, "unknown")
  /\ UNCHANGED <<on, retries, event, sync, ui, sched, lease, lock>>

\* The two transactions of pause() within a run.
PauseSave(p) ==
  /\ run[p].pc = "save"
  /\ TurnOff
  /\ Goto(p, "block")
  /\ UNCHANGED <<event, post, sync, ui, sched, lease, lock>>

PauseBlock(p) ==
  /\ run[p].pc = "block"
  /\ event' = Blocked(Market)
  /\ Goto(p, run[p].then)
  /\ UNCHANGED <<on, retries, post, sync, ui, sched, lease, lock>>

\* Mutant: claimed_by is not compared.
OwnAnyClaim(p) == event[run[p].event].status = "PROCESSING"

\* complete() and fail(): the claim is the run's own only if nobody recovered it.
Own(p) == LET row == event[run[p].event]
          IN  row.status = "PROCESSING" /\ row.by = p

Verdict(p) ==
  CASE run[p].item = "unknown" -> "FAILED"
    [] run[p].item = "failed" ->
         IF run[p].synced \/ run[p].count <= run[p].limit
         THEN "RETRY_BY_SCHEDULER" ELSE "FAILED"
    [] OTHER -> "COMPLETED"

\* The inquiry's lock is released and the event leaves PROCESSING.
Settle(p) ==
  LET e == run[p].event IN
  /\ run[p].pc = "settle"
  /\ lock' = IF lock[e] = p THEN [lock EXCEPT ![e] = None] ELSE lock
  /\ event' = IF Own(p)
              THEN [event EXCEPT ![e].status = Verdict(p), ![e].by = None,
                                 ![e].stale = FALSE]
              ELSE event
  /\ run' = [run EXCEPT ![p].event = None, ![p].count = 0, ![p].item = "none",
                        ![p].pc = IF run[p].item = "unknown" THEN "save" ELSE "check",
                        ![p].then = "end"]
  /\ UNCHANGED <<on, retries, post, sync, ui, sched, lease>>

\* Mutant: _running stays set.
EndRunStillRunning(p) ==
  /\ run[p].pc = "end"
  /\ Release(p)
  /\ UNCHANGED <<on, retries, event, post, sync, ui, sched, run, lock>>

\* finish_run and the finally clause: a timer, or _finish_stop, which leaves
\* _started as it is.
EndRun(p) ==
  /\ run[p].pc = "end"
  /\ run' = [run EXCEPT ![p] = NoRun]
  /\ IF sched[p].started /\ Enabled
     THEN sched' = [sched EXCEPT ![p].armed = TRUE] /\ UNCHANGED lease
     ELSE Release(p) /\ UNCHANGED sched
  /\ UNCHANGED <<on, retries, event, post, sync, ui, lock>>
-----------------------------------------------------------------------------
(* Time and processes.                                                     *)

EventGoesStale(e) ==
  /\ event[e].status = "PROCESSING" /\ ~event[e].stale
  /\ event' = [event EXCEPT ![e].stale = TRUE]
  /\ UNCHANGED <<on, retries, post, sync, ui, sched, run, lease, lock>>

PostGoesStale(e) ==
  /\ post[e].status = "POSTING" /\ ~post[e].stale
  /\ post' = [post EXCEPT ![e].stale = TRUE]
  /\ UNCHANGED <<on, retries, event, sync, ui, sched, run, lease, lock>>

\* The lease of 180 s, which a run does not renew, and the lock of 300 s.
LeaseExpires ==
  /\ lease # None
  /\ lease' = None
  /\ UNCHANGED <<on, retries, event, post, sync, ui, sched, run, lock>>

LockExpires(e) ==
  /\ lock[e] # None
  /\ lock' = [lock EXCEPT ![e] = None]
  /\ UNCHANGED <<on, retries, event, post, sync, ui, sched, run, lease>>

\* The server starts, with reset_auto_post_runtime_on_process_start; a sidecar
\* is launched beside it.
Launch(p) ==
  /\ ~sched[p].up
  /\ sched' = [sched EXCEPT ![p].up = TRUE]
  /\ \/ /\ p = App
        /\ IF Enabled THEN TurnOff ELSE UNCHANGED <<on, retries>>
        /\ UNCHANGED ui
     \/ /\ p # App /\ sched[App].up
        /\ ui' = [ui EXCEPT ![p].pc = "start"]
        /\ UNCHANGED <<on, retries>>
  /\ UNCHANGED <<event, post, sync, run, lease, lock>>

\* A process dies or exits.  Its owner id is never used again; a sync it was
\* running does not find the inquiry new a second time.
Gone(p, owner) == IF owner = p THEN Dead ELSE owner

Crash(p) ==
  /\ p \in Mortal
  /\ sched[p].up
  /\ sched' = [sched EXCEPT ![p] = [up |-> FALSE, started |-> FALSE, armed |-> FALSE]]
  /\ run' = [run EXCEPT ![p] = NoRun]
  /\ ui' = [ui EXCEPT ![p] = NoUi]
  /\ sync' = [e \in Event |-> IF p = App /\ sync[e] \in {"on", "off", "notify"}
                              THEN "done" ELSE sync[e]]
  /\ event' = [e \in Event |-> [event[e] EXCEPT !.by = Gone(p, @)]]
  /\ lock' = [e \in Event |-> Gone(p, lock[e])]
  /\ lease' = Gone(p, lease)
  /\ UNCHANGED <<on, retries, post>>
-----------------------------------------------------------------------------
UiStep(p) == EnableSave(p) \/ EnableUnblock(p) \/ UiEnsure(p)

RunStep(p) ==
  \/ Check(p) \/ Claim(p) \/ DraftAhead(p) \/ Begin(p) \/ PostAcquire(p)
  \/ PostOutcome(p) \/ PauseSave(p) \/ PauseBlock(p)
  \/ Settle(p) \/ EndRun(p)

Next ==
  \/ \E p \in Process : \/ UiStep(p) \/ RunStep(p)
                        \/ TickOff(p) \/ TickUnknown(p) \/ TickRun(p)
                        \/ Launch(p) \/ Crash(p)
                        \/ \E m \in Market : EnableAsk(p, m)
  \/ \E m \in Market : DisableSave(m)
  \/ DisableBlock \/ PanelRead \/ PanelSave \/ UiStop \/ Rerun \/ SyncRun
  \/ \E e \in Event : \/ SyncRead(e) \/ SyncCreate(e) \/ SyncNotify(e)
                      \/ EventGoesStale(e) \/ PostGoesStale(e) \/ LockExpires(e)
  \/ LeaseExpires

Spec == Init /\ [][Next]_vars
-----------------------------------------------------------------------------
(* Properties.                                                             *)

\* Of one inquiry at most one process has a request on its way, although two
\* processes may lead at once, claims are recovered while their run still works
\* on them, and the lock expires under it.
OneSender ==
  \A p, q \in Process :
    /\ run[p].pc = "sending" /\ run[q].pc = "sending"
    /\ run[p].event = run[q].event
    => p = q

\* However often an event is claimed again (runs after a sync retry without
\* limit), unattended posting sends a failing answer max_retries + 1 times, and
\* once more for each other process that had passed the check before.  The
\* max_retries that counts is the highest that was stored so far: an operator may
\* lower it, a pause or a restart turns a zero into a one, and a run keeps the
\* value it began with.
FailedSendsBounded ==
  \A e \in Event : post[e].fails <= retries.most + Cardinality(Process)

\* A claim that has not gone stale is ended by the run that made it, and by no
\* other: not by a run that lost the event to recovery and comes back late.
SettledByItsClaim ==
  [][\A e \in Event :
        /\ event[e].status = "PROCESSING" /\ ~event[e].stale
        /\ event'[e].status # "PROCESSING"
        => \E p \in Process : /\ run[p].pc = "settle" /\ run[p].event = e
                             /\ run[p].count = event[e].count]_vars

\* The threads of a process that is up go on; clocks advance; the automatic
\* sync completes again and again, which ensures the scheduler and runs it; the
\* server is started again.  Operators and sidecars owe nothing.
FairSpec ==
  /\ Spec
  /\ \A p \in Process :
       /\ WF_vars(RunStep(p))
       /\ WF_vars(UiStep(p))
       /\ WF_vars(TickOff(p) \/ TickUnknown(p) \/ TickRun(p))
  /\ WF_vars(DisableBlock \/ PanelSave \/ UiStop)
  /\ \A e \in Event : /\ WF_vars(EventGoesStale(e))
                       /\ WF_vars(PostGoesStale(e))
                       /\ WF_vars(LockExpires(e))
                       /\ WF_vars(SyncCreate(e) \/ SyncNotify(e))
  /\ WF_vars(LeaseExpires) /\ WF_vars(Rerun) /\ WF_vars(SyncRun)
  /\ WF_vars(Launch(App))

\* No event stays claimed for ever, whatever becomes of its run, unless the
\* switch is turned off, which leaves nothing that would recover it.
ClaimEnds ==
  \A e \in Event : event[e].status = "PROCESSING" ~>
                       (event[e].status # "PROCESSING" \/ ~Enabled)

\* A pending event of a market that stays on is claimed.
PendingServed ==
  \A e \in Event : (event[e].status = "PENDING" /\ on[marketOf[e]]) ~>
                       (event[e].status # "PENDING" \/ ~on[marketOf[e]])

\* A send does not stay in flight for ever, even if the sidecar that made it
\* died: while the switch is on, the next run of a sync finds it stale.
SendingEnds ==
  \A e \in Event : post[e].status = "POSTING" ~>
                       (post[e].status # "POSTING" \/ ~Enabled)

\* A doubtful outcome turns unattended posting off.
UnknownTurnsOff == UnknownIn(post) ~> ~Enabled

\* "Recovered after the restart": once the server stays up, a send that was in
\* flight when its process died is recovered as POST_UNKNOWN.
SendingRecovered ==
  <>[]sched[App].up =>
    \A e \in Event : post[e].status = "POSTING" ~> post[e].status # "POSTING"
-----------------------------------------------------------------------------
(* The inductive invariant.                                                *)

\* An event is absent until its sync creates it.  A claim belongs to an event in
\* PROCESSING; if the run it belongs to still works on the event, it is the claim
\* the run made.
ClaimInv ==
  /\ \A e \in Event : sync[e] \in {"new", "on", "off"} => event[e].status = "ABSENT"
  /\ \A e \in Event : event[e].by # None => event[e].status = "PROCESSING"
  /\ \A p \in Process : run[p].event # None /\ event[run[p].event].by = p =>
                             run[p].count = event[run[p].event].count

\* A run that works on something knows its event, and a run that sends has its
\* inquiry POSTING, or doubtful if it was recovered as stale.
RunInv ==
  \A p \in Process :
    /\ run[p].pc \in {"work", "draft", "sending", "settle"} =>
         run[p].event \in Event
    /\ run[p].pc \in {"save", "block"} /\ run[p].then # "end" =>
         run[p].then = "settle" /\ run[p].event \in Event
    /\ run[p].pc = "sending" =>
         post[run[p].event].status \in {"POSTING", "POST_UNKNOWN"}

IInv == TypeOK /\ ClaimInv /\ RunInv /\ OneSender
=============================================================================
