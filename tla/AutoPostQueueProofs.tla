------------------------ MODULE AutoPostQueueProofs ------------------------
(***************************************************************************)
(* Proofs about AutoPostQueue, for every set of events, markets and        *)
(* processes and every bound.                                              *)
(***************************************************************************)
EXTENDS AutoPostQueue, FiniteSetTheorems, TLAPS

USE AutoPostQueueAssumption
-----------------------------------------------------------------------------
(* Types, one lemma per operation that several actions perform.            *)

\* The literals the actions write are in the sets the types name.
LEMMA Values ==
  /\ {"ABSENT", "PENDING", "BLOCKED_AUTO_POST_OFF", "PROCESSING",
      "RETRY_BY_SCHEDULER", "COMPLETED", "FAILED"} \subseteq QueueStatus
  /\ {"NOT_POSTED", "POSTING", "POSTED", "POST_FAILED", "POST_UNKNOWN"}
       \subseteq PostStatus
  /\ {"new", "on", "off", "notify", "done"} \subseteq SyncState
  /\ {"idle", "start", "save", "unblock", "block", "write", "ensure", "stop"}
       \subseteq UiPc
  /\ {"off", "check", "claim", "work", "draft", "sending", "settle", "save",
      "block", "end"} \subseteq RunPc
  /\ {"none", "ok", "skipped", "failed", "unknown"} \subseteq Item
  /\ None \in Owner /\ Dead \in Owner /\ Process \subseteq Owner
  BY DEF QueueStatus, PostStatus, SyncState, UiPc, RunPc, Item, Owner

\* What TypeOK says of one event's rows.
LEMMA RowTypes ==
  ASSUME TypeOK, NEW e \in Event
  PROVE  /\ event[e] \in EventRow /\ post[e] \in PostRow
         /\ event[e].status \in QueueStatus /\ event[e].by \in Owner
         /\ event[e].count \in Nat /\ post[e].status \in PostStatus
  BY DEF TypeOK, EventRow, PostRow

\* The settings row keeps its type.
SettingsTyped ==
  on' \in [Market -> BOOLEAN] /\ retries' \in [now: Nat, most: Nat]

LEMMA SettingsType ==
  ASSUME TypeOK, NEW flag \in BOOLEAN
  PROVE  /\ \A n \in Nat : SaveSettings(flag, n) => SettingsTyped
         /\ TurnOff => SettingsTyped
         /\ \A m : SavePlatform(m, flag) => SettingsTyped
         /\ UNCHANGED <<on, retries>> => SettingsTyped
  <1>1. ASSUME NEW f \in BOOLEAN, NEW n \in Nat, SaveSettings(f, n)
        PROVE  SettingsTyped
    BY <1>1 DEF TypeOK, SaveSettings, SettingsTyped
  <1>2. TurnOff => SettingsTyped
    BY <1>1 DEF TypeOK, TurnOff
  <1>3. \A m : SavePlatform(m, flag) => SettingsTyped
    BY DEF TypeOK, SavePlatform, SettingsTyped
  <1>4. UNCHANGED <<on, retries>> => SettingsTyped
    BY DEF TypeOK, SettingsTyped
  <1> QED
    BY <1>1, <1>2, <1>3, <1>4

\* Stopping and starting a scheduler keep the types of what they write.
LEMMA StopType ==
  ASSUME TypeOK, NEW p \in Process, Stop(p)
  PROVE  sched' \in [Process -> SchedState] /\ lease' \in Owner
  <1>1. sched' \in [Process -> SchedState]
    <2> DEFINE new == [sched[p] EXCEPT !.started = FALSE, !.armed = FALSE]
    <2>1. sched \in [Process -> SchedState]
      BY DEF TypeOK
    <2>2. sched' = [sched EXCEPT ![p] = new]
      BY <2>1 DEF Stop
    <2>3. new \in SchedState
      BY <2>1 DEF SchedState
    <2> HIDE DEF new
    <2> QED
      BY <2>1, <2>2, <2>3
  <1>2. lease' \in Owner
    BY Values DEF Stop, Release, TypeOK
  <1> QED
    BY <1>1, <1>2

LEMMA StartType ==
  ASSUME TypeOK, NEW p \in Process, NEW wake \in BOOLEAN, Start(p, wake)
  PROVE  sched' \in [Process -> SchedState] /\ lease' \in Owner
  <1>1. sched' \in [Process -> SchedState]
    <2> DEFINE armed == sched[p].armed \/ wake \/ ~sched[p].started
               new == [sched[p] EXCEPT !.started = TRUE, !.armed = armed]
    <2>1. sched \in [Process -> SchedState]
      BY DEF TypeOK
    <2>2. sched' = [sched EXCEPT ![p] = new]
      BY <2>1 DEF Start
    <2>3. armed \in BOOLEAN
      OBVIOUS
    <2>4. new \in SchedState
      <3> HIDE DEF armed
      <3> QED
        BY <2>1, <2>3 DEF SchedState
    <2> HIDE DEF new
    <2> QED
      BY <2>1, <2>2, <2>4
  <1>2. lease' \in Owner
    BY Values DEF Start, TypeOK
  <1> QED
    BY <1>1, <1>2

\* The bulk updates of the queue keep its type, an event's count, its absence
\* and that only claimed events have an owner.
KeepsEvents(rows) ==
  /\ rows \in [Event -> EventRow]
  /\ \A e \in Event : /\ rows[e].count = event[e].count
                      /\ rows[e].by \in {event[e].by, None}
                      /\ rows[e].by # None => rows[e].status = "PROCESSING"
                      /\ event[e].status = "ABSENT" => rows[e].status = "ABSENT"

LEMMA QueueKept ==
  ASSUME TypeOK, ClaimInv
  PROVE  /\ KeepsEvents(event) /\ KeepsEvents(RecoveredEvents)
         /\ \A S : KeepsEvents(Blocked(S)) /\ KeepsEvents(Unblocked(S))
  <1>1. \A e \in Event :
          /\ event[e] \in EventRow
          /\ event[e].by # None => event[e].status = "PROCESSING"
    BY RowTypes DEF ClaimInv
  <1>2. \A r \in EventRow :
          /\ [r EXCEPT !.status = "RETRY_BY_SCHEDULER", !.by = None, !.stale = FALSE]
               \in EventRow
          /\ [r EXCEPT !.status = "BLOCKED_AUTO_POST_OFF"] \in EventRow
          /\ [r EXCEPT !.status = "PENDING"] \in EventRow
    BY Values DEF EventRow
  <1>3. KeepsEvents(event)
    BY <1>1 DEF KeepsEvents, TypeOK
  <1>4. KeepsEvents(RecoveredEvents)
    <2>1. RecoveredEvents \in [Event -> EventRow]
      BY <1>1, <1>2 DEF RecoveredEvents
    <2>2. \A e \in Event :
            /\ RecoveredEvents[e].count = event[e].count
            /\ RecoveredEvents[e].by \in {event[e].by, None}
            /\ RecoveredEvents[e].by # None => RecoveredEvents[e].status = "PROCESSING"
            /\ event[e].status = "ABSENT" => RecoveredEvents[e].status = "ABSENT"
      BY <1>1 DEF RecoveredEvents, EventRow
    <2> QED
      BY <2>1, <2>2 DEF KeepsEvents
  <1>5. ASSUME NEW S
        PROVE  KeepsEvents(Blocked(S)) /\ KeepsEvents(Unblocked(S))
    <2>1. Blocked(S) \in [Event -> EventRow] /\ Unblocked(S) \in [Event -> EventRow]
      BY <1>1, <1>2 DEF Blocked, Unblocked
    <2>2. \A e \in Event :
            /\ Blocked(S)[e].count = event[e].count
            /\ Blocked(S)[e].by = event[e].by
            /\ Blocked(S)[e].by # None => Blocked(S)[e].status = "PROCESSING"
            /\ event[e].status = "ABSENT" => Blocked(S)[e].status = "ABSENT"
      BY <1>1 DEF Blocked, EventRow
    <2>3. \A e \in Event :
            /\ Unblocked(S)[e].count = event[e].count
            /\ Unblocked(S)[e].by = event[e].by
            /\ Unblocked(S)[e].by # None => Unblocked(S)[e].status = "PROCESSING"
            /\ event[e].status = "ABSENT" => Unblocked(S)[e].status = "ABSENT"
      BY <1>1 DEF Unblocked, EventRow
    <2> QED
      BY <2>1, <2>2, <2>3 DEF KeepsEvents
  <1> QED
    BY <1>3, <1>4, <1>5

\* Recovering posts keeps their type, and that a send in flight is POSTING or
\* doubtful.
KeepsPosts(rows) ==
  /\ rows \in [Event -> PostRow]
  /\ \A e \in Event : post[e].status \in {"POSTING", "POST_UNKNOWN"} =>
                         rows[e].status \in {"POSTING", "POST_UNKNOWN"}

LEMMA PostsKept ==
  ASSUME TypeOK
  PROVE  KeepsPosts(post) /\ KeepsPosts(RecoveredPosts)
  <1>1. \A e \in Event : post[e] \in PostRow
    BY RowTypes
  <1>2. \A r \in PostRow : [r EXCEPT !.status = "POST_UNKNOWN"] \in PostRow
    BY Values DEF PostRow
  <1>3. RecoveredPosts \in [Event -> PostRow]
    BY <1>1, <1>2 DEF RecoveredPosts
  <1>4. \A e \in Event : post[e].status \in {"POSTING", "POST_UNKNOWN"} =>
                           RecoveredPosts[e].status \in {"POSTING", "POST_UNKNOWN"}
    BY <1>1 DEF RecoveredPosts, PostRow
  <1> QED
    BY <1>3, <1>4 DEF KeepsPosts, TypeOK

\* Ensuring a scheduler.
LEMMA EnsureKeeps ==
  ASSUME TypeOK, ClaimInv, NEW p \in Process, NEW wake \in BOOLEAN, Ensure(p, wake)
  PROVE  /\ sched' \in [Process -> SchedState] /\ lease' \in Owner
         /\ KeepsEvents(event') /\ KeepsPosts(post')
  BY QueueKept, PostsKept, StopType, StartType DEF Ensure
-----------------------------------------------------------------------------
(* Steps, by what they do to the queue, the posts and the runs.            *)

\* The parts of IInv other than the types.
Core == ClaimInv /\ RunInv /\ OneSender

\* No event becomes one the sync has yet to create.
SyncAdvances ==
  \A e \in Event : sync'[e] \in {"new", "on", "off"} => sync[e] \in {"new", "on", "off"}

\* Steps of operators, syncs, timers and clocks leave the runs alone.
LEMMA QuietStep ==
  ASSUME TypeOK, Core, UNCHANGED run, SyncAdvances,
         KeepsEvents(event'), KeepsPosts(post')
  PROVE  Core'
  <1>1. ClaimInv'
    <2>1. \A q \in Process : run[q].event # None => run[q].event \in Event
      BY DEF TypeOK, RunJob
    <2> QED
      BY <2>1 DEF Core, ClaimInv, KeepsEvents, SyncAdvances
  <1>2. RunInv'
    BY DEF Core, RunInv, KeepsPosts
  <1>3. OneSender'
    BY DEF Core, OneSender
  <1> QED
    BY <1>1, <1>2, <1>3 DEF Core

\* One process moves in its run, on the event and the claim it had, if any.
Moved(p) ==
  /\ run' \in [Process -> RunJob]
  /\ \A q \in Process \ {p} : run'[q] = run[q]
  /\ run'[p].event # None =>
       run'[p].event = run[p].event /\ run'[p].count = run[p].count

\* The part of RunInv that speaks of one run and not of the posts.
KnowsEvent(job) ==
  /\ job.pc \in {"work", "draft", "sending", "settle"} => job.event \in Event
  /\ job.pc \in {"save", "block"} /\ job.then # "end" =>
       job.then = "settle" /\ job.event \in Event

LEMMA ClaimKept ==
  ASSUME TypeOK, ClaimInv, UNCHANGED sync, KeepsEvents(event'),
         NEW p \in Process, Moved(p)
  PROVE  ClaimInv'
  <1>0. \A q \in Process : run'[q].event # None =>
          run'[q].event = run[q].event /\ run'[q].count = run[q].count
    BY DEF Moved
  <1>1. ASSUME NEW q \in Process, run'[q].event # None, event'[run'[q].event].by = q
        PROVE  run'[q].count = event'[run'[q].event].count
    <2>1. run[q].event \in Event
      BY <1>0, <1>1 DEF TypeOK, RunJob
    <2> QED
      BY <1>0, <1>1, <2>1 DEF KeepsEvents, ClaimInv
  <1> QED
    BY <1>1 DEF ClaimInv, KeepsEvents

\* A run's steps other than claiming, sending and settling.
LEMMA MovingStep ==
  ASSUME TypeOK, Core, UNCHANGED sync, KeepsEvents(event'), KeepsPosts(post'),
         NEW p \in Process, Moved(p), KnowsEvent(run'[p]), run'[p].pc # "sending"
  PROVE  Core'
  <1>1. ClaimInv'
    BY ClaimKept DEF Core
  <1>2. RunInv'
    <2>1. ASSUME NEW q \in Process
          PROVE  /\ KnowsEvent(run'[q])
                 /\ run'[q].pc = "sending" =>
                      post'[run'[q].event].status \in {"POSTING", "POST_UNKNOWN"}
      <3>1. CASE q = p
        BY <3>1
      <3>2. CASE q # p
        BY <3>2 DEF Moved, Core, RunInv, KeepsPosts, KnowsEvent
      <3> QED
        BY <3>1, <3>2
    <2> QED
      BY <2>1 DEF RunInv, KnowsEvent
  <1>3. OneSender'
    BY DEF Core, OneSender, Moved
  <1> QED
    BY <1>1, <1>2, <1>3 DEF Core

\* Replacing one job by another on the same event and claim, or on none.
LEMMA JobMoves ==
  ASSUME TypeOK, NEW p \in Process, NEW job \in RunJob,
         run' = [run EXCEPT ![p] = job],
         job.event # None => job.event = run[p].event /\ job.count = run[p].count
  PROVE  Moved(p) /\ run'[p] = job
  BY DEF TypeOK, Moved

\* The assignments to a run are moves.
LEMMA GotoMoves ==
  ASSUME TypeOK, NEW p \in Process, NEW pc \in RunPc, Goto(p, pc)
  PROVE  /\ Moved(p) /\ run'[p].pc = pc /\ run'[p].event = run[p].event
         /\ run'[p].then = run[p].then
  <1> DEFINE job == [run[p] EXCEPT !.pc = pc]
  <1>0. run[p] \in RunJob
    BY DEF TypeOK
  <1>1. /\ job \in RunJob /\ job.pc = pc /\ job.event = run[p].event
        /\ job.then = run[p].then /\ job.count = run[p].count
    BY <1>0 DEF RunJob
  <1>2. run' = [run EXCEPT ![p] = job]
    BY DEF Goto
  <1> HIDE DEF job
  <1> QED
    BY <1>1, <1>2, JobMoves

LEMMA SettlingMoves ==
  ASSUME TypeOK, NEW p \in Process, NEW item \in Item, Settling(p, item)
  PROVE  Moved(p) /\ run'[p].pc = "settle" /\ run'[p].event = run[p].event
  <1> DEFINE job == [run[p] EXCEPT !.pc = "settle", !.item = item]
  <1>0. run[p] \in RunJob
    BY DEF TypeOK
  <1>1. /\ job \in RunJob /\ job.pc = "settle" /\ job.event = run[p].event
        /\ job.count = run[p].count
    BY <1>0, Values DEF RunJob
  <1>2. run' = [run EXCEPT ![p] = job]
    BY DEF Settling
  <1> HIDE DEF job
  <1> QED
    BY <1>1, <1>2, JobMoves

LEMMA FailingMoves ==
  ASSUME TypeOK, NEW p \in Process, Failing(p)
  PROVE  /\ Moved(p) /\ run'[p].event = run[p].event
         /\ run'[p].pc \in {"settle", "save"}
         /\ run'[p].pc = "save" => run'[p].then = "settle"
  <1>1. CASE Settling(p, "failed")
    BY <1>1, Values, SettlingMoves
  <1>2. CASE run' = [run EXCEPT ![p].pc = "save", ![p].then = "settle",
                                ![p].item = "failed"]
    <2> DEFINE job == [run[p] EXCEPT !.pc = "save", !.then = "settle",
                                     !.item = "failed"]
    <2>0. run[p] \in RunJob
      BY DEF TypeOK
    <2>1. /\ job \in RunJob /\ job.pc = "save" /\ job.then = "settle"
          /\ job.event = run[p].event /\ job.count = run[p].count
      BY <2>0, Values DEF RunJob
    <2>2. run' = [run EXCEPT ![p] = job]
      BY <1>2
    <2> HIDE DEF job
    <2> QED
      BY <2>1, <2>2, JobMoves
  <1> QED
    BY <1>1, <1>2 DEF Failing

LEMMA StartRunMoves ==
  ASSUME TypeOK, NEW p \in Process, NEW synced \in BOOLEAN, StartRun(p, synced)
  PROVE  /\ Moved(p) /\ run'[p].pc = "check" /\ lease' \in Owner
         /\ event' = RecoveredEvents
  <1>1. NoRun \in RunJob /\ {m \in Market : on[m]} \in SUBSET Market
    BY Values DEF NoRun, RunJob
  <1> DEFINE job == [NoRun EXCEPT !.pc = "check", !.scope = {m \in Market : on[m]},
                                  !.limit = retries.now, !.synced = synced]
  <1>2. job \in RunJob /\ job.pc = "check" /\ job.event = None
    BY <1>1, Values DEF NoRun, RunJob, TypeOK
  <1>3. run' = [run EXCEPT ![p] = job]
    BY DEF StartRun
  <1> HIDE DEF job
  <1>4. Moved(p) /\ run'[p].pc = "check"
    BY <1>2, <1>3, JobMoves
  <1> QED
    BY <1>4, Values DEF StartRun

LEMMA NoRunMoves ==
  ASSUME TypeOK, NEW p \in Process, run' = [run EXCEPT ![p] = NoRun]
  PROVE  Moved(p) /\ run'[p] = NoRun
  <1>1. NoRun \in RunJob /\ NoRun.event = None
    BY Values DEF NoRun, RunJob
  <1> QED
    BY <1>1, JobMoves
-----------------------------------------------------------------------------
(* The inductive invariant, action by action.                              *)

\* The types of what only a quiet step and the switch's operators write.
QuietTypes ==
  /\ SettingsTyped
  /\ sync' \in [Event -> SyncState]
  /\ ui' \in [Process -> UiJob]
  /\ sched' \in [Process -> SchedState]
  /\ lease' \in Owner
  /\ lock' \in [Event -> Owner]

LEMMA QuietInv ==
  ASSUME IInv, UNCHANGED run, SyncAdvances, QuietTypes,
         KeepsEvents(event'), KeepsPosts(post')
  PROVE  IInv'
  <1>1. TypeOK'
    BY DEF IInv, TypeOK, QuietTypes, SettingsTyped, KeepsEvents, KeepsPosts
  <1>2. Core'
    BY QuietStep DEF IInv, Core
  <1> QED
    BY <1>1, <1>2 DEF IInv, Core

\* The calls of operators keep the type of ui.
LEMMA UiType ==
  ASSUME TypeOK, NEW p \in Process
  PROVE  /\ \A pc \in UiPc : [ui EXCEPT ![p].pc = pc] \in [Process -> UiJob]
         /\ \A pc \in UiPc, m \in Market \cup {None}, flag \in BOOLEAN :
              [ui EXCEPT ![p] = [pc |-> pc, market |-> m, flag |-> flag]]
                \in [Process -> UiJob]
         /\ [ui EXCEPT ![p] = NoUi] \in [Process -> UiJob]
  <1>1. ui \in [Process -> UiJob] /\ NoUi \in UiJob
    BY Values DEF TypeOK, NoUi, UiJob
  <1>2. ASSUME NEW pc \in UiPc
        PROVE  [ui EXCEPT ![p].pc = pc] \in [Process -> UiJob]
    BY <1>1 DEF UiJob
  <1>3. ASSUME NEW pc \in UiPc, NEW m \in Market \cup {None}, NEW flag \in BOOLEAN
        PROVE  [ui EXCEPT ![p] = [pc |-> pc, market |-> m, flag |-> flag]]
                 \in [Process -> UiJob]
    BY <1>1 DEF UiJob
  <1> QED
    BY <1>1, <1>2, <1>3

\* The sync, the pages and the operators.
LEMMA SyncInv ==
  ASSUME IInv, NEW e \in Event, SyncRead(e) \/ SyncCreate(e) \/ SyncNotify(e)
  PROVE  IInv'
  <1>0. TypeOK /\ ClaimInv /\ KeepsEvents(event) /\ KeepsPosts(post)
    BY QueueKept, PostsKept DEF IInv
  <1>1. CASE SyncRead(e)
    <2>1. QuietTypes /\ SyncAdvances
      BY <1>0, <1>1, Values DEF SyncRead, TypeOK, QuietTypes, SettingsTyped, SyncAdvances
    <2> QED
      BY <1>0, <1>1, <2>1, QuietInv DEF SyncRead
  <1>2. CASE SyncNotify(e)
    <2>1. KeepsEvents(event') /\ KeepsPosts(post') /\ sched' \in [Process -> SchedState]
          /\ lease' \in Owner
      BY <1>0, <1>2, EnsureKeeps DEF SyncNotify
    <2>2. sync' \in [Event -> SyncState] /\ SyncAdvances
      BY <1>0, <1>2, Values DEF SyncNotify, TypeOK, SyncAdvances
    <2>3. QuietTypes
      BY <1>0, <1>2, <2>1, <2>2 DEF SyncNotify, TypeOK, QuietTypes, SettingsTyped
    <2> QED
      BY <1>2, <2>1, <2>2, <2>3, QuietInv DEF SyncNotify
  <1>3. CASE SyncCreate(e)
    <2> DEFINE status == IF sync[e] = "on" THEN "PENDING" ELSE "BLOCKED_AUTO_POST_OFF"
               row == [event[e] EXCEPT !.status = status]
    <2>1. event[e] \in EventRow /\ event[e].status = "ABSENT" /\ event[e].by = None
      BY <1>0, <1>3, RowTypes DEF SyncCreate, ClaimInv
    <2>2. /\ row \in EventRow /\ row.by = None /\ row.count = event[e].count
          /\ row.status \notin {"PROCESSING", "ABSENT"}
      BY <2>1, Values DEF EventRow
    <2>3. event' = [event EXCEPT ![e] = row]
      BY <1>3 DEF SyncCreate
    <2>4. sync' = [sync EXCEPT ![e] = IF sync[e] = "on" THEN "notify" ELSE "done"]
      BY <1>3 DEF SyncCreate
    <2> HIDE DEF row
    <2>5. TypeOK'
      BY <1>0, <1>3, <2>2, <2>3, <2>4, Values DEF SyncCreate, TypeOK
    <2>6. /\ event'[e] = row /\ \A d \in Event \ {e} : event'[d] = event[d]
          /\ sync'[e] \in {"notify", "done"}
          /\ \A d \in Event \ {e} : sync'[d] = sync[d]
      BY <1>0, <2>3, <2>4 DEF TypeOK
    <2>7. ClaimInv'
      <3>1. \A q \in Process : run[q].event # None => run[q].event \in Event
        BY <1>0 DEF TypeOK, RunJob
      <3>2. UNCHANGED run
        BY <1>3 DEF SyncCreate
      <3> QED
        BY <1>0, <2>1, <2>2, <2>6, <3>1, <3>2 DEF ClaimInv
    <2>8. RunInv' /\ OneSender'
      BY <1>3 DEF SyncCreate, RunInv, OneSender, IInv
    <2> QED
      BY <2>5, <2>7, <2>8 DEF IInv
  <1> QED
    BY <1>1, <1>2, <1>3

LEMMA OperatorInv ==
  ASSUME IInv,
         \/ \E p \in Process : UiStep(p) \/ \E m \in Market : EnableAsk(p, m)
         \/ \E m \in Market : DisableSave(m)
         \/ DisableBlock \/ PanelRead \/ PanelSave \/ UiStop \/ Rerun
  PROVE  IInv'
  <1>0. /\ TypeOK /\ ClaimInv /\ KeepsEvents(event) /\ KeepsPosts(post)
        /\ \A S : KeepsEvents(Blocked(S)) /\ KeepsEvents(Unblocked(S))
        /\ \A p \in Process : ui[p] \in UiJob
    BY QueueKept, PostsKept DEF IInv, TypeOK
  <1>1. ASSUME NEW p \in Process, NEW m \in Market, EnableAsk(p, m)
        PROVE  IInv'
    <2>1. ui' \in [Process -> UiJob]
      BY <1>0, <1>1, UiType, Values DEF EnableAsk
    <2>2. QuietTypes /\ SyncAdvances
      BY <1>0, <1>1, <2>1 DEF EnableAsk, QuietTypes, SettingsTyped, SyncAdvances, TypeOK
    <2> QED
      BY <1>0, <1>1, <2>2, QuietInv DEF EnableAsk
  <1>2. ASSUME NEW p \in Process, EnableSave(p)
        PROVE  IInv'
    <2>1. ui' \in [Process -> UiJob]
      BY <1>0, <1>2, UiType, Values DEF EnableSave
    <2>2. SettingsTyped
      BY <1>0, <1>2, SettingsType DEF EnableSave
    <2>3. QuietTypes /\ SyncAdvances
      BY <1>0, <1>2, <2>1, <2>2 DEF EnableSave, QuietTypes, SettingsTyped, SyncAdvances, TypeOK
    <2> QED
      BY <1>0, <1>2, <2>3, QuietInv DEF EnableSave
  <1>3. ASSUME NEW p \in Process, EnableUnblock(p)
        PROVE  IInv'
    <2>1. ui' \in [Process -> UiJob]
      BY <1>0, <1>3, UiType, Values DEF EnableUnblock
    <2>2. QuietTypes /\ SyncAdvances
      BY <1>0, <1>3, <2>1 DEF EnableUnblock, QuietTypes, SettingsTyped, SyncAdvances, TypeOK
    <2>3. KeepsEvents(event')
      BY <1>0, <1>3 DEF EnableUnblock
    <2> QED
      BY <1>0, <1>3, <2>2, <2>3, QuietInv DEF EnableUnblock
  <1>4. ASSUME NEW m \in Market, DisableSave(m)
        PROVE  IInv'
    <2>1. (\A k \in Market \ {m} : ~on[k]) \in BOOLEAN
      OBVIOUS
    <2>2. ui' \in [Process -> UiJob]
      BY <1>0, <1>4, <2>1, UiType, Values DEF DisableSave
    <2>3. SettingsTyped
      BY <1>0, <1>4, SettingsType DEF DisableSave
    <2>4. QuietTypes /\ SyncAdvances
      BY <1>0, <1>4, <2>2, <2>3 DEF DisableSave, QuietTypes, SettingsTyped, SyncAdvances, TypeOK
    <2> QED
      BY <1>0, <1>4, <2>4, QuietInv DEF DisableSave
  <1>5. CASE DisableBlock
    <2>1. ui' \in [Process -> UiJob]
      BY <1>0, <1>5, UiType, Values DEF DisableBlock
    <2>2. QuietTypes /\ SyncAdvances
      BY <1>0, <1>5, <2>1 DEF DisableBlock, QuietTypes, SettingsTyped, SyncAdvances, TypeOK
    <2>3. KeepsEvents(event')
      BY <1>0, <1>5 DEF DisableBlock
    <2> QED
      BY <1>0, <1>5, <2>2, <2>3, QuietInv DEF DisableBlock
  <1>6. CASE PanelRead
    <2>1. Enabled \in BOOLEAN
      BY DEF Enabled
    <2>2. ui' \in [Process -> UiJob]
      BY <1>0, <1>6, <2>1, UiType, Values DEF PanelRead
    <2>3. QuietTypes /\ SyncAdvances
      BY <1>0, <1>6, <2>2 DEF PanelRead, QuietTypes, SettingsTyped, SyncAdvances, TypeOK
    <2> QED
      BY <1>0, <1>6, <2>3, QuietInv DEF PanelRead
  <1>7. CASE PanelSave
    <2> DEFINE job == [ui[App] EXCEPT !.pc = "ensure", !.flag = FALSE]
    <2>1. job \in UiJob
      BY <1>0, Values DEF UiJob
    <2>2. ui' = [ui EXCEPT ![App] = job]
      BY <1>7 DEF PanelSave
    <2> HIDE DEF job
    <2>3. ui' \in [Process -> UiJob]
      BY <1>0, <2>1, <2>2 DEF TypeOK
    <2>4. ui[App].flag \in BOOLEAN
      BY <1>0 DEF UiJob
    <2>5. SettingsTyped
      BY <1>0, <1>7, <2>4, SettingsType DEF PanelSave
    <2>6. QuietTypes /\ SyncAdvances
      BY <1>0, <1>7, <2>3, <2>5 DEF PanelSave, QuietTypes, SettingsTyped, SyncAdvances, TypeOK
    <2> QED
      BY <1>0, <1>7, <2>6, QuietInv DEF PanelSave
  <1>8. ASSUME NEW p \in Process, UiEnsure(p)
        PROVE  IInv'
    <2>1. /\ KeepsEvents(event') /\ KeepsPosts(post')
          /\ sched' \in [Process -> SchedState] /\ lease' \in Owner
      BY <1>0, <1>8, EnsureKeeps DEF UiEnsure
    <2>2. [ui[p] EXCEPT !.pc = "stop"] \in UiJob /\ NoUi \in UiJob
      BY <1>0, Values DEF UiJob, NoUi
    <2>3. ui' \in [Process -> UiJob]
      BY <1>0, <1>8, <2>2 DEF UiEnsure, TypeOK
    <2>4. QuietTypes /\ SyncAdvances
      BY <1>0, <1>8, <2>1, <2>3 DEF UiEnsure, QuietTypes, SettingsTyped, SyncAdvances, TypeOK
    <2> QED
      BY <1>8, <2>1, <2>4, QuietInv DEF UiEnsure
  <1>9. CASE UiStop
    <2>1. sched' \in [Process -> SchedState] /\ lease' \in Owner
      BY <1>0, <1>9, StopType DEF UiStop
    <2>2. ui' \in [Process -> UiJob]
      BY <1>0, <1>9, UiType DEF UiStop
    <2>3. QuietTypes /\ SyncAdvances
      BY <1>0, <1>9, <2>1, <2>2 DEF UiStop, QuietTypes, SettingsTyped, SyncAdvances, TypeOK
    <2> QED
      BY <1>0, <1>9, <2>3, QuietInv DEF UiStop
  <1>10. CASE Rerun
    <2>1. /\ KeepsEvents(event') /\ KeepsPosts(post')
          /\ sched' \in [Process -> SchedState] /\ lease' \in Owner
      BY <1>0, <1>10, EnsureKeeps DEF Rerun
    <2>2. QuietTypes /\ SyncAdvances
      BY <1>0, <1>10, <2>1 DEF Rerun, QuietTypes, SettingsTyped, SyncAdvances, TypeOK
    <2> QED
      BY <1>10, <2>1, <2>2, QuietInv DEF Rerun
  <1> QED
    BY <1>1, <1>2, <1>3, <1>4, <1>5, <1>6, <1>7, <1>8, <1>9, <1>10 DEF UiStep

\* A step of one process's run that keeps it on its event or lets go of it.
LEMMA MovingInv ==
  ASSUME IInv, UNCHANGED <<sync, ui>>, SettingsTyped,
         sched' \in [Process -> SchedState], lease' \in Owner,
         lock' \in [Event -> Owner], KeepsEvents(event'), KeepsPosts(post'),
         NEW p \in Process, Moved(p), KnowsEvent(run'[p]), run'[p].pc # "sending"
  PROVE  IInv'
  <1>1. TypeOK'
    BY DEF IInv, TypeOK, SettingsTyped, KeepsEvents, KeepsPosts, Moved
  <1>2. Core'
    BY MovingStep DEF IInv, Core
  <1> QED
    BY <1>1, <1>2 DEF IInv, Core

\* The timers, and the runs after a sync.
LEMMA TimerInv ==
  ASSUME IInv,
         SyncRun \/ \E p \in Process : TickOff(p) \/ TickUnknown(p) \/ TickRun(p)
  PROVE  IInv'
  <1>0. /\ TypeOK /\ ClaimInv /\ KeepsEvents(event) /\ KeepsPosts(post)
        /\ KeepsEvents(RecoveredEvents) /\ KeepsEvents(Blocked(Market))
    BY QueueKept, PostsKept DEF IInv
  <1>1. Pause => SettingsTyped /\ KeepsEvents(event')
    BY <1>0, SettingsType DEF Pause
  <1>2. ASSUME NEW p \in Process, TickOff(p)
        PROVE  IInv'
    <2>1. sched' \in [Process -> SchedState] /\ lease' \in Owner
      BY <1>0, <1>2, StopType DEF TickOff
    <2>2. QuietTypes /\ SyncAdvances
      BY <1>0, <1>2, <2>1 DEF TickOff, QuietTypes, SettingsTyped, SyncAdvances, TypeOK
    <2> QED
      BY <1>0, <1>2, <2>2, QuietInv DEF TickOff
  <1>3. ASSUME NEW p \in Process, TickUnknown(p)
        PROVE  IInv'
    <2>1. sched' \in [Process -> SchedState]
      BY <1>0, <1>3 DEF TickUnknown, TypeOK, SchedState
    <2>2. lease' \in Owner
      BY <1>3, Values DEF TickUnknown
    <2>3. QuietTypes /\ SyncAdvances
      BY <1>0, <1>1, <1>3, <2>1, <2>2 DEF TickUnknown, QuietTypes, SettingsTyped, SyncAdvances, TypeOK
    <2> QED
      BY <1>0, <1>1, <1>3, <2>3, QuietInv DEF TickUnknown
  <1>4. ASSUME NEW p \in Process, NEW synced \in BOOLEAN, StartRun(p, synced),
               UNCHANGED <<on, retries, post, sync, ui, lock>>,
               sched' \in [Process -> SchedState]
        PROVE  IInv'
    <2>1. Moved(p) /\ run'[p].pc = "check" /\ lease' \in Owner /\ KeepsEvents(event')
      BY <1>0, <1>4, StartRunMoves
    <2>2. SettingsTyped /\ lock' \in [Event -> Owner]
      BY <1>0, <1>4 DEF SettingsTyped, TypeOK
    <2> QED
      BY <1>0, <1>4, <2>1, <2>2, MovingInv DEF KnowsEvent
  <1>5. ASSUME NEW p \in Process, TickRun(p)
        PROVE  IInv'
    <2>0. sched \in [Process -> SchedState] /\ sched' = [sched EXCEPT ![p].armed = FALSE]
      BY <1>0, <1>5 DEF TickRun, TypeOK
    <2>1. sched' \in [Process -> SchedState]
      BY <2>0 DEF SchedState
    <2>2. CASE StartRun(p, FALSE)
      BY <1>4, <1>5, <2>1, <2>2 DEF TickRun
    <2>3. CASE lease' = p /\ UNCHANGED <<event, run>>
      <3>1. QuietTypes /\ SyncAdvances
        BY <1>0, <1>5, <2>1, <2>3, Values DEF TickRun, QuietTypes, SettingsTyped, SyncAdvances, TypeOK
      <3> QED
        BY <1>0, <1>5, <2>3, <3>1, QuietInv DEF TickRun
    <2> QED
      BY <1>5, <2>2, <2>3 DEF TickRun
  <1>6. CASE SyncRun
    <2>1. CASE Pause /\ UNCHANGED <<lease, run>>
      <3>1. QuietTypes /\ SyncAdvances
        BY <1>0, <1>1, <1>6, <2>1 DEF SyncRun, QuietTypes, SettingsTyped, SyncAdvances, TypeOK
      <3> QED
        BY <1>0, <1>1, <1>6, <2>1, <3>1, QuietInv DEF SyncRun
    <2>2. CASE StartRun(App, TRUE) /\ UNCHANGED <<on, retries>>
      <3>1. sched' \in [Process -> SchedState]
        BY <1>0, <1>6 DEF SyncRun, TypeOK
      <3> QED
        BY <1>4, <1>6, <2>2, <3>1 DEF SyncRun
    <2>3. CASE lease' = App /\ UNCHANGED <<event, run, on, retries>>
      <3>1. QuietTypes /\ SyncAdvances
        BY <1>0, <1>6, <2>3, Values DEF SyncRun, QuietTypes, SettingsTyped, SyncAdvances, TypeOK
      <3> QED
        BY <1>0, <1>6, <2>3, <3>1, QuietInv DEF SyncRun
    <2> QED
      BY <1>6, <2>1, <2>2, <2>3 DEF SyncRun
  <1> QED
    BY <1>2, <1>3, <1>5, <1>6

\* Clocks and launches.
LEMMA ClockInv ==
  ASSUME IInv,
         \/ \E e \in Event : EventGoesStale(e) \/ PostGoesStale(e) \/ LockExpires(e)
         \/ LeaseExpires \/ \E p \in Process : Launch(p)
  PROVE  IInv'
  <1>0. /\ TypeOK /\ ClaimInv /\ KeepsEvents(event) /\ KeepsPosts(post)
        /\ \A e \in Event : event[e] \in EventRow /\ post[e] \in PostRow
        /\ \A p \in Process : ui[p] \in UiJob /\ sched[p] \in SchedState
    BY QueueKept, PostsKept, RowTypes DEF IInv, TypeOK
  <1>1. ASSUME NEW e \in Event, EventGoesStale(e)
        PROVE  IInv'
    <2> DEFINE row == [event[e] EXCEPT !.stale = TRUE]
    <2>1. /\ row \in EventRow /\ row.status = event[e].status
          /\ row.by = event[e].by /\ row.count = event[e].count
      BY <1>0 DEF EventRow
    <2>2. event' = [event EXCEPT ![e] = row]
      BY <1>1 DEF EventGoesStale
    <2> HIDE DEF row
    <2>3. KeepsEvents(event')
      BY <1>0, <2>1, <2>2 DEF KeepsEvents
    <2>4. QuietTypes /\ SyncAdvances
      BY <1>0, <1>1 DEF EventGoesStale, QuietTypes, SettingsTyped, SyncAdvances, TypeOK
    <2> QED
      BY <1>0, <1>1, <2>3, <2>4, QuietInv DEF EventGoesStale
  <1>2. ASSUME NEW e \in Event, PostGoesStale(e)
        PROVE  IInv'
    <2> DEFINE row == [post[e] EXCEPT !.stale = TRUE]
    <2>1. row \in PostRow /\ row.status = post[e].status
      BY <1>0 DEF PostRow
    <2>2. post' = [post EXCEPT ![e] = row]
      BY <1>2 DEF PostGoesStale
    <2> HIDE DEF row
    <2>3. KeepsPosts(post')
      BY <1>0, <2>1, <2>2 DEF KeepsPosts
    <2>4. QuietTypes /\ SyncAdvances
      BY <1>0, <1>2 DEF PostGoesStale, QuietTypes, SettingsTyped, SyncAdvances, TypeOK
    <2> QED
      BY <1>0, <1>2, <2>3, <2>4, QuietInv DEF PostGoesStale
  <1>3. ASSUME NEW e \in Event, LockExpires(e)
        PROVE  IInv'
    <2>1. QuietTypes /\ SyncAdvances
      BY <1>0, <1>3, Values DEF LockExpires, QuietTypes, SettingsTyped, SyncAdvances, TypeOK
    <2> QED
      BY <1>0, <1>3, <2>1, QuietInv DEF LockExpires
  <1>4. CASE LeaseExpires
    <2>1. QuietTypes /\ SyncAdvances
      BY <1>0, <1>4, Values DEF LeaseExpires, QuietTypes, SettingsTyped, SyncAdvances, TypeOK
    <2> QED
      BY <1>0, <1>4, <2>1, QuietInv DEF LeaseExpires
  <1>5. ASSUME NEW p \in Process, Launch(p)
        PROVE  IInv'
    <2>0. /\ sched \in [Process -> SchedState] /\ ui \in [Process -> UiJob]
          /\ sched' = [sched EXCEPT ![p].up = TRUE]
          /\ ui' = ui \/ ui' = [ui EXCEPT ![p].pc = "start"]
          /\ UNCHANGED <<on, retries>> \/ TurnOff
      BY <1>0, <1>5 DEF Launch, TypeOK
    <2>1. sched' \in [Process -> SchedState]
      BY <2>0 DEF SchedState
    <2>2. ui' \in [Process -> UiJob]
      BY <1>0, <2>0, UiType, Values
    <2>3. SettingsTyped
      BY <1>0, <2>0, SettingsType
    <2>4. QuietTypes /\ SyncAdvances
      BY <1>0, <1>5, <2>1, <2>2, <2>3 DEF Launch, QuietTypes, SettingsTyped, SyncAdvances, TypeOK
    <2> QED
      BY <1>0, <1>5, <2>4, QuietInv DEF Launch
  <1> QED
    BY <1>1, <1>2, <1>3, <1>4, <1>5

\* The steps of a run that keep to its event and send nothing.
LEMMA RunKeepsInv ==
  ASSUME IInv, NEW p \in Process,
         \/ Check(p) \/ DraftAhead(p) \/ Begin(p)
         \/ PauseSave(p) \/ PauseBlock(p) \/ EndRun(p)
  PROVE  IInv'
  <1>0. /\ TypeOK /\ ClaimInv /\ RunInv /\ KeepsEvents(event) /\ KeepsPosts(post)
        /\ KeepsPosts(RecoveredPosts) /\ KeepsEvents(Blocked(Market))
        /\ run[p] \in RunJob
    BY QueueKept, PostsKept DEF IInv, TypeOK
  <1> DEFINE Others == /\ UNCHANGED <<sync, ui>> /\ SettingsTyped
                       /\ sched' \in [Process -> SchedState] /\ lease' \in Owner
                       /\ lock' \in [Event -> Owner]
                       /\ KeepsEvents(event') /\ KeepsPosts(post')
             Mine == Moved(p) /\ KnowsEvent(run'[p]) /\ run'[p].pc # "sending"
  <1>1. ASSUME Others, Mine
        PROVE  IInv'
    BY <1>1, MovingInv
  <1> HIDE DEF Mine
  <1>2. CASE Check(p)
    <2>1. Others
      BY <1>0, <1>2 DEF Check, SettingsTyped, TypeOK
    <2>2. PICK pc \in {"claim", "end"} : Goto(p, pc)
      BY <1>2 DEF Check
    <2>3. Mine
      BY <1>0, <2>2, GotoMoves, Values DEF Mine, KnowsEvent
    <2> QED
      BY <1>1, <2>1, <2>3
  <1>3. CASE DraftAhead(p)
    <2>1. Others
      BY <1>0, <1>3 DEF DraftAhead, SettingsTyped, TypeOK
    <2>2. run[p].event \in Event
      BY <1>0, <1>3 DEF DraftAhead, RunInv
    <2>3. CASE Settling(p, "failed")
      <3>1. Mine
        BY <1>0, <2>2, <2>3, SettlingMoves, Values DEF Mine, KnowsEvent
      <3> QED
        BY <1>1, <2>1, <3>1
    <2>4. CASE run' = [run EXCEPT ![p].pc = "end", ![p].event = None]
      <3> DEFINE job == [run[p] EXCEPT !.pc = "end", !.event = None]
      <3>1. job \in RunJob /\ job.pc = "end" /\ job.event = None
        BY <1>0, Values DEF RunJob
      <3>2. run' = [run EXCEPT ![p] = job]
        BY <2>4
      <3> HIDE DEF job
      <3>3. Mine
        BY <1>0, <3>1, <3>2, JobMoves DEF Mine, KnowsEvent
      <3> QED
        BY <1>1, <2>1, <3>3
    <2> QED
      BY <1>3, <2>3, <2>4 DEF DraftAhead
  <1>4. CASE Begin(p)
    <2>1. run[p].event \in Event
      BY <1>0, <1>4 DEF Begin, RunInv
    <2>2. lock' = lock \/ lock' = [lock EXCEPT ![run[p].event] = p]
      BY <1>4 DEF Begin
    <2>3. lock' \in [Event -> Owner]
      BY <1>0, <2>1, <2>2, Values DEF TypeOK
    <2>4. Others
      BY <1>0, <1>4, <2>3 DEF Begin, SettingsTyped, TypeOK
    <2>5. Settling(p, "none") \/ Settling(p, "skipped") \/ Goto(p, "draft")
      BY <1>4 DEF Begin
    <2>6. Mine
      <3>1. CASE Goto(p, "draft")
        BY <1>0, <2>1, <3>1, GotoMoves, Values DEF Mine, KnowsEvent
      <3>2. CASE Settling(p, "none") \/ Settling(p, "skipped")
        BY <1>0, <2>1, <3>2, SettlingMoves, Values DEF Mine, KnowsEvent
      <3> QED
        BY <2>5, <3>1, <3>2
    <2> QED
      BY <1>1, <2>4, <2>6
  <1>5. CASE PauseSave(p)
    <2>1. SettingsTyped
      BY <1>0, <1>5, SettingsType DEF PauseSave
    <2>2. Others
      BY <1>0, <1>5, <2>1 DEF PauseSave, SettingsTyped, TypeOK
    <2>3. Goto(p, "block") /\ run[p].pc = "save"
      BY <1>5 DEF PauseSave
    <2>4. Moved(p) /\ run'[p].pc = "block" /\ run'[p].event = run[p].event
          /\ run'[p].then = run[p].then
      BY <1>0, <2>3, GotoMoves, Values
    <2>5. Mine
      BY <1>0, <2>3, <2>4 DEF Mine, KnowsEvent, RunInv
    <2> QED
      BY <1>1, <2>2, <2>5
  <1>6. CASE PauseBlock(p)
    <2>1. Others
      BY <1>0, <1>6 DEF PauseBlock, SettingsTyped, TypeOK
    <2>2. Goto(p, run[p].then) /\ run[p].pc = "block" /\ run[p].then \in RunPc
      BY <1>0, <1>6 DEF PauseBlock, RunJob
    <2>3. Moved(p) /\ run'[p].pc = run[p].then /\ run'[p].event = run[p].event
      BY <1>0, <2>2, GotoMoves
    <2>4. Mine
      BY <1>0, <2>2, <2>3 DEF Mine, KnowsEvent, RunInv
    <2> QED
      BY <1>1, <2>1, <2>4
  <1>7. CASE EndRun(p)
    <2>1. sched' \in [Process -> SchedState]
      <3>1. sched' = sched \/ sched' = [sched EXCEPT ![p].armed = TRUE]
        BY <1>7 DEF EndRun
      <3>2. [sched EXCEPT ![p].armed = TRUE] \in [Process -> SchedState]
        BY <1>0 DEF TypeOK, SchedState
      <3> QED
        BY <1>0, <3>1, <3>2 DEF TypeOK
    <2>2. lease' \in Owner
      BY <1>0, <1>7, Values DEF EndRun, Release, TypeOK
    <2>3. Others
      BY <1>0, <1>7, <2>1, <2>2 DEF EndRun, SettingsTyped, TypeOK
    <2>4. run' = [run EXCEPT ![p] = NoRun]
      BY <1>7 DEF EndRun
    <2>5. Mine
      <3>1. Moved(p) /\ run'[p] = NoRun
        BY <1>0, <2>4, NoRunMoves
      <3>2. NoRun.pc = "off"
        BY DEF NoRun
      <3> QED
        BY <3>1, <3>2 DEF Mine, KnowsEvent
    <2> QED
      BY <1>1, <2>3, <2>5
  <1> QED
    BY <1>2, <1>3, <1>4, <1>5, <1>6, <1>7

\* Claiming an event makes its row and the run agree.
LEMMA ClaimKeepsInv ==
  ASSUME IInv, NEW p \in Process, Claim(p)
  PROVE  IInv'
  <1>0. /\ TypeOK /\ ClaimInv /\ RunInv /\ OneSender /\ KeepsEvents(event)
        /\ KeepsPosts(post) /\ run[p] \in RunJob
        /\ \A q \in Process : run[q].event # None => run[q].event \in Event
    BY QueueKept, PostsKept DEF IInv, TypeOK, RunJob
  <1>1. CASE Goto(p, "end") /\ UNCHANGED event
    <2>1. Moved(p) /\ KnowsEvent(run'[p]) /\ run'[p].pc # "sending"
      BY <1>0, <1>1, GotoMoves, Values DEF KnowsEvent
    <2> QED
      BY <1>0, <1>1, <2>1, MovingInv DEF Claim, SettingsTyped, TypeOK
  <1>2. ASSUME NEW e \in Queue(p),
               event' = [event EXCEPT ![e] =
                 [status |-> "PROCESSING", by |-> p, count |-> @.count + 1,
                  stale |-> FALSE]],
               run' = [run EXCEPT ![p].pc = "work", ![p].event = e,
                         ![p].count = event[e].count + 1,
                         ![p].seen = @ \cup {e}]
        PROVE  IInv'
    <2>1. e \in Event /\ Claimable(e)
      BY DEF Queue
    <2>2. event[e].count + 1 \in Nat /\ sync[e] \notin {"new", "on", "off"}
      BY <1>0, <2>1, RowTypes DEF ClaimInv, Claimable
    <2> DEFINE row == [status |-> "PROCESSING", by |-> p,
                       count |-> event[e].count + 1, stale |-> FALSE]
               job == [run[p] EXCEPT !.pc = "work", !.event = e,
                         !.count = event[e].count + 1, !.seen = run[p].seen \cup {e}]
    <2>3. /\ row \in EventRow /\ row.status = "PROCESSING" /\ row.by = p
          /\ row.count = event[e].count + 1
      BY <2>2, Values DEF EventRow
    <2>4. /\ job \in RunJob /\ job.pc = "work" /\ job.event = e
          /\ job.count = event[e].count + 1
      BY <1>0, <2>1, <2>2, Values DEF RunJob
    <2>5. event' = [event EXCEPT ![e] = row]
      BY <1>2
    <2>6. run' = [run EXCEPT ![p] = job]
      BY <1>2
    <2> HIDE DEF row, job
    <2>7. /\ event'[e] = row /\ \A d \in Event \ {e} : event'[d] = event[d]
          /\ run'[p] = job /\ \A q \in Process \ {p} : run'[q] = run[q]
      BY <1>0, <2>1, <2>5, <2>6 DEF TypeOK
    <2>8. TypeOK'
      BY <1>0, <2>3, <2>4, <2>5, <2>6 DEF Claim, TypeOK
    <2>9. UNCHANGED <<post, sync>>
      BY DEF Claim
    <2>10. ClaimInv'
      <3>1. ASSUME NEW q \in Process, run'[q].event # None, event'[run'[q].event].by = q
            PROVE  run'[q].count = event'[run'[q].event].count
        <4>1. CASE q = p
          BY <2>3, <2>4, <2>7, <4>1
        <4>2. CASE q # p
          BY <1>0, <2>3, <2>7, <3>1, <4>2 DEF ClaimInv
        <4> QED
          BY <4>1, <4>2
      <3> QED
        BY <1>0, <2>2, <2>3, <2>7, <2>9, <3>1 DEF ClaimInv
    <2>11. RunInv'
      <3>1. ASSUME NEW q \in Process
            PROVE  /\ KnowsEvent(run'[q])
                   /\ run'[q].pc = "sending" =>
                        post'[run'[q].event].status \in {"POSTING", "POST_UNKNOWN"}
        <4>1. CASE q = p
          BY <2>1, <2>4, <2>7, <4>1 DEF KnowsEvent
        <4>2. CASE q # p
          BY <1>0, <2>7, <2>9, <4>2 DEF KnowsEvent, RunInv
        <4> QED
          BY <4>1, <4>2
      <3> QED
        BY <3>1 DEF RunInv, KnowsEvent
    <2>12. OneSender'
      BY <1>0, <2>4, <2>7 DEF OneSender
    <2> QED
      BY <2>8, <2>10, <2>11, <2>12 DEF IInv
  <1> QED
    BY <1>1, <1>2 DEF Claim

\* Acquiring: no other process can be sending for an inquiry not yet POSTING.
LEMMA AcquireKeepsInv ==
  ASSUME IInv, NEW p \in Process, PostAcquire(p)
  PROVE  IInv'
  <1> DEFINE e == run[p].event
  <1>0. /\ TypeOK /\ ClaimInv /\ RunInv /\ OneSender /\ KeepsEvents(event)
        /\ KeepsPosts(post) /\ run[p] \in RunJob /\ e \in Event
    BY QueueKept, PostsKept DEF IInv, TypeOK, PostAcquire, RunInv
  <1>1. CASE Settling(p, "skipped") /\ UNCHANGED post
    <2>1. Moved(p) /\ KnowsEvent(run'[p]) /\ run'[p].pc # "sending"
      BY <1>0, <1>1, SettlingMoves, Values DEF KnowsEvent
    <2> QED
      BY <1>0, <1>1, <2>1, MovingInv DEF PostAcquire, SettingsTyped, TypeOK
  <1>2. CASE Failing(p) /\ UNCHANGED post
    <2>1. Moved(p) /\ KnowsEvent(run'[p]) /\ run'[p].pc # "sending"
      BY <1>0, <1>2, FailingMoves DEF KnowsEvent
    <2> QED
      BY <1>0, <1>2, <2>1, MovingInv DEF PostAcquire, SettingsTyped, TypeOK
  <1>3. CASE /\ post[e].status \in {"NOT_POSTED", "POST_FAILED"}
             /\ post' = [post EXCEPT ![e].status = "POSTING", ![e].stale = FALSE]
             /\ Goto(p, "sending")
    <2> DEFINE row == [post[e] EXCEPT !.status = "POSTING", !.stale = FALSE]
    <2>1. row \in PostRow /\ row.status = "POSTING"
      BY <1>0, RowTypes, Values DEF PostRow
    <2>2. post' = [post EXCEPT ![e] = row]
      BY <1>3
    <2>3. Moved(p) /\ run'[p].pc = "sending" /\ run'[p].event = e
      BY <1>0, <1>3, GotoMoves, Values
    <2> HIDE DEF row
    <2>4. post' \in [Event -> PostRow]
      BY <1>0, <2>1, <2>2 DEF TypeOK
    <2>5. post'[e].status = "POSTING" /\ \A d \in Event \ {e} : post'[d] = post[d]
      BY <1>0, <2>1, <2>2 DEF TypeOK
    <2>6. TypeOK'
      BY <1>0, <2>3, <2>4 DEF PostAcquire, TypeOK, Moved
    <2>7. ClaimInv'
      BY <1>0, <2>3, ClaimKept DEF PostAcquire
    <2>8. \A q \in Process \ {p} : ~(run[q].pc = "sending" /\ run[q].event = e)
      BY <1>0, <1>3 DEF RunInv
    <2>9. RunInv'
      <3>1. ASSUME NEW q \in Process
            PROVE  /\ KnowsEvent(run'[q])
                   /\ run'[q].pc = "sending" =>
                        post'[run'[q].event].status \in {"POSTING", "POST_UNKNOWN"}
        <4>1. CASE q = p
          BY <1>0, <2>3, <2>5, <4>1 DEF KnowsEvent
        <4>2. CASE q # p
          BY <1>0, <2>3, <2>5, <2>8, <4>2 DEF KnowsEvent, RunInv, Moved
        <4> QED
          BY <4>1, <4>2
      <3> QED
        BY <3>1 DEF RunInv, KnowsEvent
    <2>10. OneSender'
      BY <1>0, <2>3, <2>8 DEF OneSender, Moved
    <2> QED
      BY <2>6, <2>7, <2>9, <2>10 DEF IInv
  <1> QED
    BY <1>1, <1>2, <1>3 DEF PostAcquire

\* Recording an outcome concerns no other sender, as none sends for its inquiry.
LEMMA OutcomeKeepsInv ==
  ASSUME IInv, NEW p \in Process, PostOutcome(p)
  PROVE  IInv'
  <1> DEFINE e == run[p].event
  <1>0. /\ TypeOK /\ ClaimInv /\ RunInv /\ OneSender /\ KeepsEvents(event)
        /\ run[p] \in RunJob /\ e \in Event /\ run[p].pc = "sending"
    BY QueueKept DEF IInv, TypeOK, PostOutcome, RunInv
  <1>1. PICK status \in {"POSTED", "POST_FAILED", "POST_UNKNOWN"}, failed \in {0, 1} :
          Record(e, status, failed)
    BY DEF PostOutcome
  <1>2. post' \in [Event -> PostRow] /\ \A d \in Event \ {e} : post'[d] = post[d]
    <2> DEFINE row == [post[e] EXCEPT !.status = status, !.fails = @ + failed]
    <2>1. post[e] \in PostRow
      BY <1>0, RowTypes
    <2>2. row \in PostRow
      <3>1. post[e].fails + failed \in Nat
        BY <2>1 DEF PostRow
      <3> QED
        BY <2>1, <3>1, Values DEF PostRow
    <2>3. post' = post \/ post' = [post EXCEPT ![e] = row]
      BY <1>1 DEF Record
    <2> HIDE DEF row
    <2> QED
      BY <1>0, <2>2, <2>3 DEF TypeOK
  <1>3. Moved(p) /\ KnowsEvent(run'[p]) /\ run'[p].pc # "sending"
    <2>1. Failing(p) \/ \E item \in Item : Settling(p, item)
      BY Values DEF PostOutcome
    <2>2. CASE Failing(p)
      BY <1>0, <2>2, FailingMoves DEF KnowsEvent
    <2>3. ASSUME NEW item \in Item, Settling(p, item)
          PROVE  Moved(p) /\ KnowsEvent(run'[p]) /\ run'[p].pc # "sending"
      BY <1>0, <2>3, SettlingMoves DEF KnowsEvent
    <2> QED
      BY <2>1, <2>2, <2>3
  <1>4. TypeOK'
    BY <1>0, <1>2, <1>3 DEF PostOutcome, TypeOK, Moved
  <1>5. ClaimInv'
    BY <1>0, <1>3, ClaimKept DEF PostOutcome
  <1>6. \A q \in Process \ {p} : run[q].pc = "sending" => run[q].event # e
    BY <1>0 DEF OneSender
  <1>7. RunInv'
    <2>1. ASSUME NEW q \in Process
          PROVE  /\ KnowsEvent(run'[q])
                 /\ run'[q].pc = "sending" =>
                      post'[run'[q].event].status \in {"POSTING", "POST_UNKNOWN"}
      <3>1. CASE q = p
        BY <1>3, <3>1
      <3>2. CASE q # p
        BY <1>0, <1>2, <1>3, <1>6, <3>2 DEF KnowsEvent, RunInv, Moved
      <3> QED
        BY <3>1, <3>2
    <2> QED
      BY <2>1 DEF RunInv, KnowsEvent
  <1>8. OneSender'
    BY <1>0, <1>3 DEF OneSender, Moved
  <1> QED
    BY <1>4, <1>5, <1>7, <1>8 DEF IInv

\* Settling ends the claim if it is still the run's own.
LEMMA SettleKeepsInv ==
  ASSUME IInv, NEW p \in Process, Settle(p)
  PROVE  IInv'
  <1> DEFINE e == run[p].event
  <1>0. /\ TypeOK /\ ClaimInv /\ RunInv /\ OneSender
        /\ run[p] \in RunJob /\ e \in Event
        /\ \A q \in Process : run[q].event # None => run[q].event \in Event
    BY DEF IInv, TypeOK, Settle, RunInv, RunJob
  <1> DEFINE row == [event[e] EXCEPT !.status = Verdict(p), !.by = None,
                                     !.stale = FALSE]
             job == [run[p] EXCEPT !.event = None, !.count = 0, !.item = "none",
                       !.pc = IF run[p].item = "unknown" THEN "save" ELSE "check",
                       !.then = "end"]
  <1>1. Verdict(p) \in {"FAILED", "RETRY_BY_SCHEDULER", "COMPLETED"}
    BY DEF Verdict
  <1>2. row \in EventRow /\ row.by = None /\ row.status \notin {"ABSENT", "PROCESSING"}
    BY <1>0, <1>1, RowTypes, Values DEF EventRow
  <1>3. /\ job \in RunJob /\ job.event = None /\ job.then = "end"
        /\ job.pc \in {"save", "check"}
    BY <1>0, Values DEF RunJob
  <1>4. run' = [run EXCEPT ![p] = job]
    BY DEF Settle
  <1>5. \/ event' = event
        \/ event' = [event EXCEPT ![e] = row] /\ event[e].status = "PROCESSING"
    BY DEF Settle, Own
  <1>6. lock' \in [Event -> Owner]
    <2>1. lock' = lock \/ lock' = [lock EXCEPT ![e] = None]
      BY DEF Settle
    <2> QED
      BY <1>0, <2>1, Values DEF TypeOK
  <1> HIDE DEF row, job
  <1>7. run'[p] = job /\ \A q \in Process \ {p} : run'[q] = run[q]
    BY <1>0, <1>4 DEF TypeOK
  <1>8. TypeOK'
    <2>1. event' \in [Event -> EventRow] /\ run' \in [Process -> RunJob]
      BY <1>0, <1>2, <1>3, <1>4, <1>5 DEF TypeOK
    <2> QED
      BY <1>0, <1>6, <2>1 DEF Settle, TypeOK
  <1>9. \A d \in Event :
          \/ event'[d] = event[d]
          \/ event'[d] = row /\ event[d].status = "PROCESSING"
    BY <1>0, <1>5 DEF TypeOK
  <1>10. UNCHANGED <<post, sync>>
    BY DEF Settle
  <1>11. ClaimInv'
    BY <1>0, <1>2, <1>3, <1>7, <1>9, <1>10 DEF ClaimInv
  <1>12. RunInv'
    <2>1. ASSUME NEW q \in Process
          PROVE  /\ KnowsEvent(run'[q])
                 /\ run'[q].pc = "sending" =>
                      post'[run'[q].event].status \in {"POSTING", "POST_UNKNOWN"}
      <3>1. CASE q = p
        BY <1>3, <1>7, <3>1 DEF KnowsEvent
      <3>2. CASE q # p
        BY <1>0, <1>7, <1>10, <3>2 DEF KnowsEvent, RunInv
      <3> QED
        BY <3>1, <3>2
    <2> QED
      BY <2>1 DEF RunInv, KnowsEvent
  <1>13. OneSender'
    BY <1>0, <1>3, <1>7 DEF OneSender
  <1> QED
    BY <1>8, <1>11, <1>12, <1>13 DEF IInv

\* A process that dies leaves its claims to an owner that never returns.
LEMMA CrashKeepsInv ==
  ASSUME IInv, NEW p \in Process, Crash(p)
  PROVE  IInv'
  <1>0. /\ TypeOK /\ ClaimInv /\ RunInv /\ OneSender
        /\ \A q \in Process : run[q].event # None => run[q].event \in Event
    BY DEF IInv, TypeOK, RunJob
  <1>1. \A o \in Owner : Gone(p, o) \in Owner /\ (Gone(p, o) # None => o # None)
                         /\ \A q \in Process : Gone(p, o) = q => o = q /\ q # p
    BY Values DEF Gone
  <1>2. \A d \in Event : [event[d] EXCEPT !.by = Gone(p, event[d].by)] \in EventRow
    BY <1>0, <1>1, RowTypes DEF EventRow
  <1>3. event' = [d \in Event |-> [event[d] EXCEPT !.by = Gone(p, event[d].by)]]
    BY DEF Crash
  <1>4. \A d \in Event : /\ event'[d].by = Gone(p, event[d].by)
                         /\ event'[d].status = event[d].status
                         /\ event'[d].count = event[d].count
    BY <1>0, <1>3, RowTypes DEF EventRow
  <1>5. event' \in [Event -> EventRow]
    BY <1>2, <1>3
  <1>6. run' = [run EXCEPT ![p] = NoRun]
    BY DEF Crash
  <1>7. Moved(p) /\ run'[p] = NoRun
    BY <1>0, <1>6, NoRunMoves
  <1>8. NoRun.pc = "off" /\ NoRun.event = None
    BY DEF NoRun
  <1>9. TypeOK'
    <2>1. sched' \in [Process -> SchedState]
      <3>1. [up |-> FALSE, started |-> FALSE, armed |-> FALSE] \in SchedState
        BY DEF SchedState
      <3> QED
        BY <1>0, <3>1 DEF Crash, TypeOK
    <2>2. ui' \in [Process -> UiJob]
      BY <1>0, UiType DEF Crash
    <2>3. sync' \in [Event -> SyncState]
      BY <1>0, Values DEF Crash, TypeOK
    <2>4. lock' \in [Event -> Owner] /\ lease' \in Owner
      BY <1>0, <1>1 DEF Crash, TypeOK
    <2>5. UNCHANGED <<on, retries, post>>
      BY DEF Crash
    <2> QED
      BY <1>0, <1>5, <1>7, <2>1, <2>2, <2>3, <2>4, <2>5 DEF TypeOK, Moved
  <1>10. ClaimInv'
    <2>1. \A d \in Event : sync'[d] \in {"new", "on", "off"} =>
            sync[d] \in {"new", "on", "off"}
      BY DEF Crash
    <2>2. \A d \in Event : event[d].by \in Owner
      BY <1>0, RowTypes
    <2>3. ASSUME NEW q \in Process, run'[q].event # None, event'[run'[q].event].by = q
          PROVE  run'[q].count = event'[run'[q].event].count
      <3>1. q # p
        BY <1>7, <1>8, <2>3
      <3>2. run'[q] = run[q] /\ run[q].event \in Event
        BY <1>0, <1>7, <2>3, <3>1 DEF Moved
      <3>3. event[run[q].event].by = q
        BY <1>1, <1>4, <2>2, <2>3, <3>2
      <3> QED
        BY <1>0, <1>4, <2>3, <3>2, <3>3 DEF ClaimInv
    <2> QED
      BY <1>0, <1>1, <1>4, <2>1, <2>2, <2>3 DEF ClaimInv
  <1>11. RunInv'
    <2>1. ASSUME NEW q \in Process
          PROVE  /\ KnowsEvent(run'[q])
                 /\ run'[q].pc = "sending" =>
                      post'[run'[q].event].status \in {"POSTING", "POST_UNKNOWN"}
      <3>1. CASE q = p
        BY <1>7, <1>8, <3>1 DEF KnowsEvent
      <3>2. CASE q # p
        BY <1>0, <1>7, <3>2 DEF KnowsEvent, RunInv, Moved, Crash
      <3> QED
        BY <3>1, <3>2
    <2> QED
      BY <2>1 DEF RunInv, KnowsEvent
  <1>12. OneSender'
    BY <1>0, <1>7, <1>8 DEF OneSender, Moved
  <1> QED
    BY <1>9, <1>10, <1>11, <1>12 DEF IInv
-----------------------------------------------------------------------------
(* The theorems.                                                           *)

\* The invariant holds initially.
LEMMA InitInv == Init => IInv
  <1> SUFFICES ASSUME Init PROVE IInv
    OBVIOUS
  <1>1. NoRun \in RunJob /\ NoUi \in UiJob /\ NoRun.pc = "off" /\ NoRun.event = None
    BY Values DEF NoRun, NoUi, RunJob, UiJob
  <1>2. TypeOK
    BY <1>1, Values DEF Init, TypeOK, EventRow, PostRow, SchedState
  <1>3. ClaimInv /\ RunInv /\ OneSender
    BY <1>1 DEF Init, ClaimInv, RunInv, OneSender
  <1> QED
    BY <1>2, <1>3 DEF IInv

\* Every step preserves it.
LEMMA StepInv == IInv /\ [Next]_vars => IInv'
  <1> SUFFICES ASSUME IInv, [Next]_vars PROVE IInv'
    OBVIOUS
  <1>1. CASE UNCHANGED vars
    BY <1>1 DEF vars, IInv, TypeOK, ClaimInv, RunInv, OneSender
  <1>2. ASSUME NEW p \in Process, RunStep(p)
        PROVE  IInv'
    BY <1>2, RunKeepsInv, ClaimKeepsInv, AcquireKeepsInv, OutcomeKeepsInv,
       SettleKeepsInv DEF RunStep
  <1>3. CASE Next
    BY <1>2, <1>3, SyncInv, OperatorInv, TimerInv, ClockInv, CrashKeepsInv DEF Next
  <1> QED
    BY <1>1, <1>3

\* The strengthened invariant of the queue, its switch and its schedulers.
THEOREM Inductive == Spec => []IInv
  BY InitInv, StepInv, PTL DEF Spec

\* Every variable keeps its type, in every instance.
THEOREM TypeCorrect == Spec => []TypeOK
  <1>1. IInv => TypeOK
    BY DEF IInv
  <1> QED
    BY <1>1, Inductive, PTL

\* At most one process has a request on its way for an inquiry, with any number
\* of processes that lead, recover each other's claims and lose their locks.
THEOREM OneSends == Spec => []OneSender
  <1>1. IInv => OneSender
    BY DEF IInv
  <1> QED
    BY <1>1, Inductive, PTL

\* What leaves every claim that has not gone stale in PROCESSING.
KeepsFresh(rows) ==
  \A e \in Event : event[e].status = "PROCESSING" /\ ~event[e].stale =>
                     rows[e].status = "PROCESSING"

LEMMA FreshKept ==
  ASSUME TypeOK
  PROVE  /\ KeepsFresh(event) /\ KeepsFresh(RecoveredEvents)
         /\ \A S : KeepsFresh(Blocked(S)) /\ KeepsFresh(Unblocked(S))
  BY DEF KeepsFresh, RecoveredEvents, Blocked, Unblocked

LEMMA EnsureFresh ==
  ASSUME TypeOK, NEW p \in Process, NEW wake \in BOOLEAN, Ensure(p, wake)
  PROVE  KeepsFresh(event')
  BY FreshKept DEF Ensure

\* Nothing but a settling run ends such a claim.
LEMMA OnlySettlingEnds ==
  ASSUME IInv, [Next]_vars, \A p \in Process : ~Settle(p)
  PROVE  KeepsFresh(event')
  <1>0. /\ TypeOK /\ ClaimInv /\ KeepsFresh(event) /\ KeepsFresh(RecoveredEvents)
        /\ \A S : KeepsFresh(Blocked(S)) /\ KeepsFresh(Unblocked(S))
        /\ \A e \in Event : event[e] \in EventRow
    BY FreshKept, RowTypes DEF IInv
  <1>1. ASSUME NEW e \in Event, SyncRead(e) \/ SyncNotify(e)
        PROVE  KeepsFresh(event')
    BY <1>0, <1>1, EnsureFresh DEF SyncRead, SyncNotify
  <1>2. ASSUME NEW e \in Event, SyncCreate(e)
        PROVE  KeepsFresh(event')
    <2>1. event[e].status = "ABSENT"
      BY <1>0, <1>2 DEF SyncCreate, ClaimInv
    <2>2. \A d \in Event \ {e} : event'[d] = event[d]
      BY <1>0, <1>2 DEF SyncCreate, TypeOK
    <2> QED
      BY <2>1, <2>2 DEF KeepsFresh
  <1>3. ASSUME NEW e \in Event, EventGoesStale(e)
        PROVE  KeepsFresh(event')
    <2>1. \A d \in Event : event'[d].status = event[d].status
      BY <1>0, <1>3 DEF EventGoesStale, TypeOK, EventRow
    <2> QED
      BY <2>1 DEF KeepsFresh
  <1>4. ASSUME NEW p \in Process, Claim(p)
        PROVE  KeepsFresh(event')
    <2>1. ASSUME NEW e \in Queue(p),
                 event' = [event EXCEPT ![e] =
                   [status |-> "PROCESSING", by |-> p, count |-> @.count + 1,
                    stale |-> FALSE]]
          PROVE  KeepsFresh(event')
      BY <1>0, <2>1 DEF KeepsFresh, TypeOK
    <2> QED
      BY <1>0, <1>4, <2>1 DEF Claim
  <1>5. ASSUME NEW p \in Process, Crash(p)
        PROVE  KeepsFresh(event')
    <2>1. \A d \in Event : event'[d].status = event[d].status
      BY <1>0, <1>5 DEF Crash, EventRow
    <2> QED
      BY <2>1 DEF KeepsFresh
  <1>6. ASSUME NEW p \in Process, RunStep(p), ~Claim(p), ~Settle(p)
        PROVE  KeepsFresh(event')
    BY <1>0, <1>6 DEF RunStep, Check, DraftAhead, Begin, PostAcquire, PostOutcome,
                      PauseSave, PauseBlock, EndRun
  <1>7. ASSUME NEW p \in Process, TickOff(p) \/ TickUnknown(p) \/ TickRun(p)
        PROVE  KeepsFresh(event')
    BY <1>0, <1>7 DEF TickOff, TickUnknown, TickRun, Pause, StartRun
  <1>8. ASSUME NEW p \in Process, UiStep(p) \/ Launch(p) \/ \E m \in Market : EnableAsk(p, m)
        PROVE  KeepsFresh(event')
    BY <1>0, <1>8, EnsureFresh DEF UiStep, EnableSave, EnableUnblock, UiEnsure, Launch,
                                   EnableAsk
  <1>9. CASE \/ \E m \in Market : DisableSave(m)
             \/ DisableBlock \/ PanelRead \/ PanelSave \/ UiStop \/ Rerun \/ SyncRun
    BY <1>0, <1>9, EnsureFresh DEF DisableSave, DisableBlock, PanelRead, PanelSave,
                                   UiStop, Rerun, SyncRun, Pause, StartRun
  <1>10. CASE \/ LeaseExpires \/ UNCHANGED vars
              \/ \E e \in Event : PostGoesStale(e) \/ LockExpires(e)
    BY <1>0, <1>10 DEF LeaseExpires, PostGoesStale, LockExpires, vars
  <1>11. CASE Next
    BY <1>1, <1>2, <1>3, <1>4, <1>5, <1>6, <1>7, <1>8, <1>9, <1>10, <1>11 DEF Next
  <1> QED
    BY <1>10, <1>11

\* A claim that has not gone stale is ended by the run that made it, in every
\* instance: no late run ends the claim that another made after recovery.
THEOREM SettledByOwner == Spec => SettledByItsClaim
  <1> DEFINE ByItsClaim ==
        \A e \in Event :
          /\ event[e].status = "PROCESSING" /\ ~event[e].stale
          /\ event'[e].status # "PROCESSING"
          => \E p \in Process : /\ run[p].pc = "settle" /\ run[p].event = e
                               /\ run[p].count = event[e].count
  <1>1. IInv /\ [Next]_vars => ByItsClaim
    <2> SUFFICES ASSUME IInv, [Next]_vars, NEW e \in Event,
                        event[e].status = "PROCESSING", ~event[e].stale,
                        event'[e].status # "PROCESSING"
                 PROVE  \E p \in Process : /\ run[p].pc = "settle" /\ run[p].event = e
                                          /\ run[p].count = event[e].count
      OBVIOUS
    <2>1. PICK p \in Process : Settle(p)
      BY OnlySettlingEnds DEF KeepsFresh
    <2>2. run[p].pc = "settle" /\ run[p].event \in Event /\ TypeOK /\ ClaimInv
      BY <2>1 DEF Settle, IInv, RunInv
    <2>3. run[p].event = e /\ Own(p)
      BY <2>1, <2>2 DEF Settle, TypeOK
    <2>4. run[p].count = event[e].count
      BY <2>2, <2>3 DEF Own, ClaimInv
    <2> QED
      BY <2>2, <2>3, <2>4
  <1> QED
    BY <1>1, Inductive, PTL DEF SettledByItsClaim, Spec
-----------------------------------------------------------------------------
(* The setting.                                                            *)

\* Neither the setting nor what a run began with exceeds the highest value so far.
LimitInv ==
  /\ retries.now <= retries.most
  /\ \A p \in Process : run[p].limit <= retries.most

\* A run keeps its limit, is over, or begins with the setting as it is.
LimitsFrom(n) ==
  \A p \in Process : run'[p].limit \in {run[p].limit, 0, n}

LEMMA SettingsGrow ==
  ASSUME TypeOK, LimitInv,
         UNCHANGED retries \/ TurnOff \/ \E f \in BOOLEAN, n \in Nat : SaveSettings(f, n)
  PROVE  retries'.now <= retries'.most /\ retries.most <= retries'.most
  <1>1. ASSUME NEW f, NEW n \in Nat, SaveSettings(f, n)
        PROVE  retries'.now <= retries'.most /\ retries.most <= retries'.most
    BY <1>1 DEF TypeOK, SaveSettings
  <1>2. ASSUME TurnOff
        PROVE  retries'.now <= retries'.most /\ retries.most <= retries'.most
    BY <1>1, <1>2 DEF TypeOK, TurnOff
  <1>3. ASSUME UNCHANGED retries
        PROVE  retries'.now <= retries'.most /\ retries.most <= retries'.most
    BY <1>3 DEF TypeOK, LimitInv
  <1> QED
    BY <1>1, <1>2, <1>3

LEMMA SettingWrites ==
  ASSUME TypeOK, [Next]_vars
  PROVE  UNCHANGED retries \/ TurnOff \/ \E f \in BOOLEAN, n \in Nat : SaveSettings(f, n)
  <1>1. ASSUME NEW p \in Process, UiStep(p) \/ \E m \in Market : EnableAsk(p, m)
        PROVE  UNCHANGED retries
    BY <1>1 DEF UiStep, EnableSave, EnableUnblock, UiEnsure, EnableAsk, SavePlatform
  <1>2. ASSUME NEW p \in Process, RunStep(p)
        PROVE  UNCHANGED retries \/ TurnOff
    BY <1>2 DEF RunStep, Check, Claim, DraftAhead, Begin, PostAcquire, PostOutcome,
                PauseSave, PauseBlock, Settle, EndRun
  <1>3. ASSUME SyncRun \/ \E p \in Process : TickOff(p) \/ TickUnknown(p) \/ TickRun(p)
                                             \/ Launch(p) \/ Crash(p)
        PROVE  UNCHANGED retries \/ TurnOff
    BY <1>3 DEF SyncRun, TickOff, TickUnknown, TickRun, Launch, Crash, Pause
  <1>4. CASE PanelSave
    <2>1. ui[App].flag \in BOOLEAN
      BY DEF TypeOK, UiJob
    <2> QED
      BY <1>4, <2>1 DEF PanelSave
  <1>5. CASE \/ \E m \in Market : DisableSave(m)
             \/ DisableBlock \/ PanelRead \/ UiStop \/ Rerun
             \/ \E e \in Event : \/ SyncRead(e) \/ SyncCreate(e) \/ SyncNotify(e)
                                 \/ EventGoesStale(e) \/ PostGoesStale(e)
                                 \/ LockExpires(e)
             \/ LeaseExpires \/ UNCHANGED vars
    BY <1>5 DEF DisableSave, DisableBlock, PanelRead, UiStop, Rerun, SyncRead, SyncCreate,
                SyncNotify, EventGoesStale, PostGoesStale, LockExpires, LeaseExpires,
                SavePlatform, vars
  <1> QED
    BY <1>1, <1>2, <1>3, <1>4, <1>5 DEF Next

\* A run whose job is replaced by one with the same limit, none or the setting's.
LEMMA JobLimit ==
  ASSUME TypeOK, NEW p \in Process, NEW job, run' = [run EXCEPT ![p] = job],
         job.limit \in {run[p].limit, 0, retries.now}
  PROVE  LimitsFrom(retries.now)
  BY DEF TypeOK, LimitsFrom

LEMMA StartLimit ==
  ASSUME TypeOK, NEW p \in Process, NEW synced \in BOOLEAN, StartRun(p, synced)
  PROVE  LimitsFrom(retries.now)
  <1> DEFINE job == [NoRun EXCEPT !.pc = "check", !.scope = {m \in Market : on[m]},
                                  !.limit = retries.now, !.synced = synced]
  <1>1. job.limit = retries.now
    BY DEF NoRun
  <1>2. run' = [run EXCEPT ![p] = job]
    BY DEF StartRun
  <1> HIDE DEF job
  <1>3. job.limit \in {run[p].limit, 0, retries.now}
    BY <1>1
  <1> QED
    BY <1>2, <1>3, JobLimit

LEMMA RunLimits ==
  ASSUME TypeOK, [Next]_vars
  PROVE  LimitsFrom(retries.now)
  <1>0. UNCHANGED run => LimitsFrom(retries.now)
    BY DEF LimitsFrom
  <1>1. ASSUME NEW p \in Process, RunStep(p)
        PROVE  LimitsFrom(retries.now)
    <2>0. run \in [Process -> RunJob] /\ run[p] \in RunJob
      BY DEF TypeOK
    <2>1. \E job : run' = [run EXCEPT ![p] = job] /\ job.limit \in {run[p].limit, 0}
      <3>0. ASSUME NEW pc, Goto(p, pc)
            PROVE  \E job : run' = [run EXCEPT ![p] = job] /\ job.limit = run[p].limit
        <4> DEFINE job == [run[p] EXCEPT !.pc = pc]
        <4>1. run' = [run EXCEPT ![p] = job] /\ job.limit = run[p].limit
          BY <2>0, <3>0 DEF Goto, RunJob
        <4> HIDE DEF job
        <4> QED
          BY <4>1
      <3>1. CASE Check(p) \/ Begin(p) \/ PauseSave(p) \/ PauseBlock(p)
        <4>1. (\E pc : Goto(p, pc)) \/ (\E item : Settling(p, item))
          BY <3>1 DEF Check, Begin, PauseSave, PauseBlock
        <4> QED
          BY <2>0, <4>1 DEF Goto, Settling, RunJob
      <3>2. CASE PostAcquire(p) \/ PostOutcome(p)
        <4>1. (\E pc : Goto(p, pc)) \/ (\E item : Settling(p, item)) \/ Failing(p)
          BY <3>2 DEF PostAcquire, PostOutcome
        <4> QED
          BY <2>0, <4>1 DEF Goto, Settling, Failing, RunJob
      <3>3. CASE DraftAhead(p)
        BY <2>0, <3>3 DEF DraftAhead, Settling, RunJob
      <3>4. CASE Claim(p)
        <4>1. CASE Goto(p, "end")
          BY <3>0, <4>1
        <4>2. ASSUME NEW e, run' = [run EXCEPT ![p].pc = "work", ![p].event = e,
                                       ![p].count = event[e].count + 1,
                                       ![p].seen = @ \cup {e}]
              PROVE  \E job : /\ run' = [run EXCEPT ![p] = job]
                              /\ job.limit \in {run[p].limit, 0}
          <5> DEFINE job == [run[p] EXCEPT !.pc = "work", !.event = e,
                               !.count = event[e].count + 1, !.seen = @ \cup {e}]
          <5>1. run' = [run EXCEPT ![p] = job] /\ job.limit = run[p].limit
            BY <2>0, <4>2 DEF RunJob
          <5> QED
            BY <5>1
        <4> QED
          BY <3>4, <4>1, <4>2 DEF Claim
      <3>5. CASE Settle(p)
        <4> DEFINE pc == IF run[p].item = "unknown" THEN "save" ELSE "check"
                   job == [run[p] EXCEPT !.event = None, !.count = 0, !.item = "none",
                             !.pc = pc, !.then = "end"]
        <4>1. run' = [run EXCEPT ![p] = job] /\ job.limit = run[p].limit
          BY <2>0, <3>5 DEF Settle, RunJob
        <4> QED
          BY <4>1
      <3>6. CASE EndRun(p)
        <4>1. run' = [run EXCEPT ![p] = NoRun] /\ NoRun.limit = 0
          BY <3>6 DEF EndRun, NoRun
        <4> QED
          BY <4>1
      <3> QED
        BY <1>1, <3>1, <3>2, <3>3, <3>4, <3>5, <3>6 DEF RunStep
    <2> QED
      <3>1. PICK job : run' = [run EXCEPT ![p] = job] /\ job.limit \in {run[p].limit, 0}
        BY <2>1
      <3> QED
        BY <3>1, JobLimit
  <1>2. ASSUME NEW p \in Process, TickRun(p)
        PROVE  LimitsFrom(retries.now)
    BY <1>0, <1>2, StartLimit DEF TickRun
  <1>3. CASE SyncRun
    BY <1>0, <1>3, StartLimit DEF SyncRun
  <1>4. ASSUME NEW p \in Process, Crash(p)
        PROVE  LimitsFrom(retries.now)
    <2>1. run' = [run EXCEPT ![p] = NoRun] /\ NoRun.limit = 0
      BY <1>4 DEF Crash, NoRun
    <2> QED
      BY <2>1, JobLimit
  <1>5. ASSUME NEW p \in Process,
               \/ UiStep(p) \/ TickOff(p) \/ TickUnknown(p) \/ Launch(p)
               \/ \E m \in Market : EnableAsk(p, m)
        PROVE  UNCHANGED run
    BY <1>5 DEF UiStep, EnableSave, EnableUnblock, UiEnsure, EnableAsk, TickOff,
                TickUnknown, Launch
  <1>6. CASE \/ \E m \in Market : DisableSave(m)
             \/ DisableBlock \/ PanelRead \/ PanelSave \/ UiStop \/ Rerun
             \/ \E e \in Event : \/ SyncRead(e) \/ SyncCreate(e) \/ SyncNotify(e)
                                 \/ EventGoesStale(e) \/ PostGoesStale(e)
                                 \/ LockExpires(e)
             \/ LeaseExpires \/ UNCHANGED vars
    <2>1. UNCHANGED run
      BY <1>6 DEF DisableSave, DisableBlock, PanelRead, PanelSave, UiStop, Rerun, SyncRead,
                  SyncCreate, SyncNotify, EventGoesStale, PostGoesStale, LockExpires,
                  LeaseExpires, vars
    <2> QED
      BY <1>0, <2>1
  <1> QED
    BY <1>0, <1>1, <1>2, <1>3, <1>4, <1>5, <1>6 DEF Next

LEMMA LimitStep ==
  ASSUME TypeOK, TypeOK', LimitInv, [Next]_vars
  PROVE  LimitInv' /\ retries.most <= retries'.most
  <1>1. retries'.now <= retries'.most /\ retries.most <= retries'.most
    BY SettingsGrow, SettingWrites
  <1>2. LimitsFrom(retries.now)
    BY RunLimits
  <1>3. \A p \in Process : run'[p].limit \in Nat /\ run[p].limit \in Nat
    BY DEF TypeOK, RunJob
  <1>4. /\ retries.now \in Nat /\ retries.most \in Nat
        /\ retries'.now \in Nat /\ retries'.most \in Nat
    BY DEF TypeOK
  <1> QED
    BY <1>1, <1>2, <1>3, <1>4 DEF LimitInv, LimitsFrom
-----------------------------------------------------------------------------
(* The number of failing sends.                                            *)

\* The runs that have found the inquiry a candidate and not yet acquired it.
Passed(e) == {p \in Process : run[p].pc = "draft" /\ run[p].event = e}
InFlight(row) == IF row.status = "POSTING" THEN 1 ELSE 0

\* Sends that failed, the one on its way and those still to come are paid for by
\* B retries and by the runs there can be.
Paid(B) ==
  \A e \in Event :
    /\ post[e].status = "NOT_POSTED" => post[e].fails = 0
    /\ post[e].fails + InFlight(post[e]) + Cardinality(Passed(e))
         <= B + Cardinality(Process)

LEMMA PassedFinite ==
  ASSUME NEW e \in Event
  PROVE  /\ IsFiniteSet(Passed(e)) /\ Cardinality(Passed(e)) \in Nat
         /\ Cardinality(Passed(e)) <= Cardinality(Process) /\ Cardinality(Process) \in Nat
         /\ IsFiniteSet(Passed(e)') /\ Cardinality(Passed(e)') \in Nat
         /\ Cardinality(Passed(e)') <= Cardinality(Process)
  <1>1. Passed(e) \in SUBSET Process /\ Passed(e)' \in SUBSET Process
    BY DEF Passed
  <1>2. ASSUME NEW S \in SUBSET Process
        PROVE  /\ IsFiniteSet(S) /\ Cardinality(S) \in Nat
               /\ Cardinality(S) <= Cardinality(Process)
    BY FS_Subset, FS_CardinalityType
  <1>3. Cardinality(Process) \in Nat
    BY FS_CardinalityType
  <1> QED
    BY <1>1, <1>2, <1>3

\* What fails nothing and sends nothing.
Idles(rows) ==
  /\ rows \in [Event -> PostRow]
  /\ \A e \in Event : /\ rows[e].fails = post[e].fails
                      /\ rows[e].status = "POSTING" => post[e].status = "POSTING"
                      /\ rows[e].status = "NOT_POSTED" => post[e].status = "NOT_POSTED"

LEMMA PostsIdle ==
  ASSUME TypeOK
  PROVE  Idles(post) /\ Idles(RecoveredPosts)
  <1>1. \A e \in Event : post[e] \in PostRow
    BY RowTypes
  <1>2. RecoveredPosts \in [Event -> PostRow]
    BY PostsKept DEF KeepsPosts
  <1>3. \A e \in Event : /\ RecoveredPosts[e].fails = post[e].fails
                         /\ \/ RecoveredPosts[e].status = post[e].status
                            \/ RecoveredPosts[e].status = "POST_UNKNOWN"
    BY <1>1 DEF RecoveredPosts, PostRow
  <1> QED
    BY <1>2, <1>3 DEF Idles, TypeOK

\* No run comes to have passed the check.
NonePasses == \A q \in Process : run'[q].pc = "draft" => run'[q] = run[q]

LEMMA IdleStep ==
  ASSUME NEW B \in Nat, TypeOK, Paid(B), Idles(post'), NonePasses
  PROVE  Paid(B)'
  <1> SUFFICES ASSUME NEW e \in Event
               PROVE  /\ post'[e].status = "NOT_POSTED" => post'[e].fails = 0
                      /\ post'[e].fails + InFlight(post'[e]) + Cardinality(Passed(e)')
                           <= B + Cardinality(Process)
    BY DEF Paid
  <1>1. Passed(e)' \in SUBSET Passed(e)
    BY DEF Passed, NonePasses
  <1>2. Cardinality(Passed(e)') <= Cardinality(Passed(e))
    BY <1>1, PassedFinite, FS_Subset
  <1>3. /\ post[e] \in PostRow /\ post'[e] \in PostRow
        /\ post'[e].fails = post[e].fails
        /\ InFlight(post'[e]) <= InFlight(post[e])
    BY RowTypes DEF Idles, InFlight
  <1>4. InFlight(post'[e]) \in Nat /\ InFlight(post[e]) \in Nat
    BY DEF InFlight
  <1> QED
    BY <1>2, <1>3, <1>4, PassedFinite DEF Paid, Idles, PostRow

\* A run that moves on to anywhere but its draft.
LEMMA MoveStep ==
  ASSUME NEW B \in Nat, TypeOK, Paid(B), Idles(post'), NEW p \in Process,
         \A q \in Process \ {p} : run'[q] = run[q], run'[p].pc # "draft"
  PROVE  Paid(B)'
  BY IdleStep DEF NonePasses

\* A run passes the check while no send is on its way and a retry is left.
LEMMA BeginPaid ==
  ASSUME NEW B \in Nat, IInv, Paid(B), NEW p \in Process, Begin(p),
         run[p].limit <= B
  PROVE  Paid(B)'
  <1>e. PICK e \in Event : e = run[p].event
    BY DEF IInv, Begin, RunInv
  <1>0. /\ TypeOK /\ e \in Event /\ post' = RecoveredPosts
        /\ Idles(post) /\ Idles(RecoveredPosts)
    BY <1>e, PostsIdle DEF IInv, Begin, RunInv
  <1>1. ASSUME NEW item \in Item, Settling(p, item)
        PROVE  Paid(B)'
    BY <1>0, <1>e, <1>1, SettlingMoves, MoveStep DEF Moved
  <1>2. CASE Candidate(RecoveredPosts[e], run[p].limit) /\ Goto(p, "draft")
    <2>1. /\ \A q \in Process \ {p} : run'[q] = run[q]
          /\ run'[p].event = e
      BY <1>0, <1>e, <1>2, GotoMoves, Values DEF Moved
    <2>2. /\ post'[e] \in PostRow /\ post'[e].fails = post[e].fails
          /\ post'[e].status = "NOT_POSTED" => post[e].fails = 0
      BY <1>0 DEF Idles, Paid
    <2>3. InFlight(post'[e]) = 0 /\ post'[e].fails <= B
      <3>1. post'[e].status = "NOT_POSTED" => post'[e].fails = 0
        BY <2>2
      <3>2. run[p].limit \in Nat /\ post'[e].fails \in Nat
        BY <1>0, <2>2 DEF TypeOK, RunJob, PostRow
      <3> QED
        BY <1>0, <1>2, <3>1, <3>2 DEF Candidate, InFlight
    <2>4. post'[e].fails + InFlight(post'[e]) + Cardinality(Passed(e)')
            <= B + Cardinality(Process)
      BY <1>0, <2>2, <2>3, PassedFinite DEF PostRow
    <2>5. ASSUME NEW d \in Event \ {e}
          PROVE  /\ post'[d].status = "NOT_POSTED" => post'[d].fails = 0
                 /\ post'[d].fails + InFlight(post'[d]) + Cardinality(Passed(d)')
                      <= B + Cardinality(Process)
      <3>1. Passed(d)' \in SUBSET Passed(d)
        BY <1>e, <2>1 DEF Passed
      <3>2. Cardinality(Passed(d)') <= Cardinality(Passed(d))
        BY <3>1, PassedFinite, FS_Subset
      <3>3. /\ post[d] \in PostRow /\ post'[d] \in PostRow
            /\ post'[d].fails = post[d].fails
            /\ InFlight(post'[d]) <= InFlight(post[d])
        BY <1>0, RowTypes DEF Idles, InFlight
      <3>4. InFlight(post'[d]) \in Nat /\ InFlight(post[d]) \in Nat
        BY DEF InFlight
      <3> QED
        BY <1>0, <3>2, <3>3, <3>4, PassedFinite DEF Paid, Idles, PostRow
    <2> QED
      BY <2>2, <2>4, <2>5 DEF Paid
  <1> QED
    BY <1>0, <1>e, <1>1, <1>2, Values DEF Begin

\* Acquiring turns a run that has passed the check into a send on its way.
LEMMA AcquirePaid ==
  ASSUME NEW B \in Nat, IInv, Paid(B), NEW p \in Process, PostAcquire(p)
  PROVE  Paid(B)'
  <1>e. PICK e \in Event : e = run[p].event
    BY DEF IInv, PostAcquire, RunInv
  <1>0. /\ TypeOK /\ e \in Event /\ Idles(post) /\ run[p].pc = "draft"
    BY <1>e, PostsIdle DEF IInv, PostAcquire, RunInv
  <1>1. CASE Settling(p, "skipped") /\ UNCHANGED post
    BY <1>0, <1>e, <1>1, SettlingMoves, MoveStep, Values DEF Moved
  <1>2. CASE Failing(p) /\ UNCHANGED post
    BY <1>0, <1>2, FailingMoves, MoveStep DEF Moved
  <1>3. CASE /\ post[e].status \in {"NOT_POSTED", "POST_FAILED"}
             /\ post' = [post EXCEPT ![e].status = "POSTING", ![e].stale = FALSE]
             /\ Goto(p, "sending")
    <2>1. /\ \A q \in Process \ {p} : run'[q] = run[q]
          /\ run'[p].pc = "sending"
      BY <1>0, <1>e, <1>3, GotoMoves, Values DEF Moved
    <2>2. post[e] \in PostRow
      BY <1>0, RowTypes
    <2>3. /\ post'[e].status = "POSTING" /\ post'[e].fails = post[e].fails
          /\ \A d \in Event \ {e} : post'[d] = post[d]
      BY <1>0, <1>3, <2>2 DEF TypeOK, PostRow
    <2>4. Passed(e)' = Passed(e) \ {p} /\ p \in Passed(e)
      BY <1>0, <1>e, <2>1 DEF Passed
    <2>5. Cardinality(Passed(e)') = Cardinality(Passed(e)) - 1
      BY <1>0, <2>4, PassedFinite, FS_RemoveElement, Zenon
    <2>6. InFlight(post'[e]) = 1 /\ InFlight(post[e]) = 0
      BY <1>3, <2>3 DEF InFlight
    <2>7. post'[e].fails + InFlight(post'[e]) + Cardinality(Passed(e)')
            <= B + Cardinality(Process)
      BY <1>0, <2>2, <2>3, <2>5, <2>6, PassedFinite DEF Paid, PostRow
    <2>8. ASSUME NEW d \in Event \ {e}
          PROVE  Passed(d)' = Passed(d)
      BY <1>0, <1>e, <2>1 DEF Passed
    <2> QED
      BY <2>3, <2>7, <2>8 DEF Paid
  <1> QED
    BY <1>0, <1>e, <1>1, <1>2, <1>3 DEF PostAcquire

\* A failure recorded was on its way.
LEMMA OutcomePaid ==
  ASSUME NEW B \in Nat, IInv, Paid(B), NEW p \in Process, PostOutcome(p)
  PROVE  Paid(B)'
  <1>e. PICK e \in Event : e = run[p].event
    BY DEF IInv, PostOutcome, RunInv
  <1>0. /\ TypeOK /\ e \in Event /\ Idles(post) /\ run[p].pc = "sending"
        /\ post[e] \in PostRow
    BY <1>e, PostsIdle, RowTypes DEF IInv, PostOutcome, RunInv
  <1>1. PICK status \in {"POSTED", "POST_FAILED", "POST_UNKNOWN"}, failed \in {0, 1} :
          Record(e, status, failed)
    BY <1>0, <1>e DEF PostOutcome
  <1>2. (\A q \in Process \ {p} : run'[q] = run[q]) /\ run'[p].pc # "draft"
    <2>1. Failing(p) \/ \E item \in Item : Settling(p, item)
      BY Values DEF PostOutcome
    <2> QED
      BY <1>0, <2>1, FailingMoves, SettlingMoves DEF Moved
  <1>3. CASE post' = post
    BY <1>0, <1>2, <1>3, MoveStep
  <1>4. CASE /\ post[e].status = "POSTING"
             /\ post' = [post EXCEPT ![e].status = status, ![e].fails = @ + failed]
    <2>1. /\ post'[e].status = status /\ post'[e].fails = post[e].fails + failed
          /\ \A d \in Event \ {e} : post'[d] = post[d]
      BY <1>0, <1>4 DEF TypeOK, PostRow
    <2>2. InFlight(post'[e]) = 0 /\ InFlight(post[e]) = 1 /\ status # "NOT_POSTED"
      BY <1>4, <2>1 DEF InFlight
    <2>3. \A d \in Event : Passed(d)' \in SUBSET Passed(d)
      BY <1>2 DEF Passed
    <2>4. \A d \in Event : Cardinality(Passed(d)') <= Cardinality(Passed(d))
      BY <2>3, PassedFinite, FS_Subset
    <2>5. post'[e].fails + InFlight(post'[e]) + Cardinality(Passed(e)')
            <= B + Cardinality(Process)
      BY <1>0, <2>1, <2>2, <2>4, PassedFinite DEF Paid, PostRow
    <2>6. ASSUME NEW d \in Event \ {e}
          PROVE  /\ post'[d].status = "NOT_POSTED" => post'[d].fails = 0
                 /\ post'[d].fails + InFlight(post'[d]) + Cardinality(Passed(d)')
                      <= B + Cardinality(Process)
      <3>1. post'[d] = post[d] /\ post[d] \in PostRow /\ InFlight(post[d]) \in Nat
        BY <1>0, <2>1, RowTypes DEF InFlight
      <3> QED
        BY <2>4, <3>1, PassedFinite DEF Paid, PostRow
    <2> QED
      BY <2>1, <2>2, <2>5, <2>6 DEF Paid
  <1> QED
    BY <1>1, <1>3, <1>4 DEF Record

\* The other steps of a run.
LEMMA RunPaid ==
  ASSUME NEW B \in Nat, IInv, Paid(B), NEW p \in Process, RunStep(p),
         run[p].limit <= B
  PROVE  Paid(B)'
  <1>0. TypeOK /\ RunInv /\ Idles(post) /\ run[p] \in RunJob
    BY PostsIdle DEF IInv, TypeOK
  <1>1. CASE Check(p)
    <2>1. PICK pc \in {"claim", "end"} : Goto(p, pc)
      BY <1>1 DEF Check
    <2> QED
      BY <1>0, <1>1, <2>1, GotoMoves, MoveStep, Values DEF Check, Moved
  <1>2. CASE Claim(p)
    <2>1. CASE Goto(p, "end")
      BY <1>0, <1>2, <2>1, GotoMoves, MoveStep, Values DEF Claim, Moved
    <2>2. ASSUME NEW e, run' = [run EXCEPT ![p].pc = "work", ![p].event = e,
                                   ![p].count = event[e].count + 1,
                                   ![p].seen = @ \cup {e}]
          PROVE  Paid(B)'
      <3>1. run'[p].pc = "work" /\ \A q \in Process \ {p} : run'[q] = run[q]
        BY <1>0, <2>2 DEF TypeOK, RunJob
      <3> QED
        BY <1>0, <1>2, <3>1, MoveStep DEF Claim
    <2> QED
      BY <1>2, <2>1, <2>2 DEF Claim
  <1>3. CASE DraftAhead(p)
    <2>1. run'[p].pc # "draft" /\ \A q \in Process \ {p} : run'[q] = run[q]
      BY <1>0, <1>3 DEF DraftAhead, Settling, TypeOK, RunJob
    <2> QED
      BY <1>0, <1>3, <2>1, MoveStep DEF DraftAhead
  <1>4. CASE PauseSave(p)
    BY <1>0, <1>4, GotoMoves, MoveStep, Values DEF PauseSave, Moved
  <1>5. CASE PauseBlock(p)
    <2>1. run[p].then \in {"end", "settle"}
      BY <1>0, <1>5 DEF PauseBlock, RunInv
    <2> QED
      BY <1>0, <1>5, <2>1, GotoMoves, MoveStep, Values DEF PauseBlock, Moved
  <1>6. CASE Settle(p)
    <2>1. run'[p].pc # "draft" /\ \A q \in Process \ {p} : run'[q] = run[q]
      BY <1>0, <1>6 DEF Settle, TypeOK, RunJob
    <2> QED
      BY <1>0, <1>6, <2>1, MoveStep DEF Settle
  <1>7. CASE EndRun(p)
    BY <1>0, <1>7, NoRunMoves, MoveStep DEF EndRun, Moved, NoRun
  <1> QED
    BY <1>1, <1>2, <1>3, <1>4, <1>5, <1>6, <1>7, BeginPaid, AcquirePaid, OutcomePaid
       DEF RunStep

LEMMA StepPaid ==
  ASSUME NEW B \in Nat, IInv, Paid(B), [Next]_vars,
         \A p \in Process : run[p].limit <= B
  PROVE  Paid(B)'
  <1>0. TypeOK /\ Idles(post) /\ Idles(RecoveredPosts)
    BY PostsIdle DEF IInv
  <1>1. ASSUME Idles(post'), UNCHANGED run
        PROVE  Paid(B)'
    BY <1>0, <1>1, IdleStep DEF NonePasses
  <1>2. \A p \in Process, wake \in BOOLEAN : Ensure(p, wake) => Idles(post')
    BY <1>0 DEF Ensure
  <1>3. ASSUME NEW p \in Process, UiStep(p) \/ TickOff(p) \/ TickUnknown(p)
                                  \/ Launch(p) \/ \E m \in Market : EnableAsk(p, m)
        PROVE  Paid(B)'
    BY <1>0, <1>1, <1>2, <1>3 DEF UiStep, EnableSave, EnableUnblock, UiEnsure, TickOff,
                                  TickUnknown, Launch, EnableAsk
  <1>4. ASSUME NEW p \in Process, NEW synced \in BOOLEAN, StartRun(p, synced),
               UNCHANGED post
        PROVE  Paid(B)'
    BY <1>0, <1>4, StartRunMoves, MoveStep DEF Moved
  <1>5. ASSUME NEW p \in Process, TickRun(p)
        PROVE  Paid(B)'
    BY <1>0, <1>1, <1>4, <1>5 DEF TickRun
  <1>6. CASE SyncRun
    BY <1>0, <1>1, <1>4, <1>6 DEF SyncRun
  <1>7. ASSUME NEW p \in Process, Crash(p)
        PROVE  Paid(B)'
    BY <1>0, <1>7, NoRunMoves, MoveStep DEF Crash, Moved, NoRun
  <1>8. CASE \/ \E m \in Market : DisableSave(m)
             \/ DisableBlock \/ PanelRead \/ PanelSave \/ UiStop \/ Rerun
    BY <1>0, <1>1, <1>2, <1>8 DEF DisableSave, DisableBlock, PanelRead, PanelSave, UiStop,
                                  Rerun
  <1>9. ASSUME NEW e \in Event, PostGoesStale(e)
        PROVE  Paid(B)'
    <2>1. post[e] \in PostRow
      BY <1>0, RowTypes
    <2>2. /\ post'[e].status = post[e].status /\ post'[e].fails = post[e].fails
          /\ post'[e] \in PostRow /\ \A d \in Event \ {e} : post'[d] = post[d]
      BY <1>0, <1>9, <2>1 DEF PostGoesStale, TypeOK, PostRow
    <2>3. post' \in [Event -> PostRow]
      BY <1>0, <1>9, <2>2 DEF PostGoesStale, TypeOK
    <2> QED
      BY <1>0, <1>1, <1>9, <2>2, <2>3 DEF PostGoesStale, Idles
  <1>10. CASE \E e \in Event : \/ SyncRead(e) \/ SyncCreate(e) \/ SyncNotify(e)
                              \/ EventGoesStale(e) \/ LockExpires(e)
    BY <1>0, <1>1, <1>2, <1>10 DEF SyncRead, SyncCreate, SyncNotify, EventGoesStale,
                                   LockExpires
  <1>11. CASE LeaseExpires \/ UNCHANGED vars
    BY <1>0, <1>1, <1>11 DEF LeaseExpires, vars
  <1>12. CASE Next
    BY <1>3, <1>5, <1>6, <1>7, <1>8, <1>9, <1>10, <1>11, <1>12, RunPaid DEF Next
  <1> QED
    BY <1>11, <1>12

\* Unattended posting sends a failing answer at most max_retries + 1 times, for the
\* highest max_retries that was stored so far, and once more for each other process,
\* however many runs claim its event again (AutoPostPipelineService.candidates,
\* AutoPostRuntimeService.pause).
THEOREM SendsBounded == Spec => []FailedSendsBounded
  <1>1. Init => LimitInv /\ Paid(retries.most)
    <2>0. Init => LimitInv /\ retries.most \in Nat
      BY DEF Init, LimitInv, NoRun
    <2> SUFFICES ASSUME Init, NEW e \in Event
                 PROVE  /\ post[e].fails = 0
                        /\ post[e].fails + InFlight(post[e]) + Cardinality(Passed(e))
                             <= retries.most + Cardinality(Process)
      BY <2>0 DEF Paid
    <2>1. post[e].fails = 0 /\ InFlight(post[e]) = 0
      BY DEF Init, InFlight
    <2> QED
      BY <2>0, <2>1, PassedFinite
  <1>2. TypeOK /\ Paid(retries.most) => FailedSendsBounded
    <2> SUFFICES ASSUME TypeOK, Paid(retries.most), NEW e \in Event
                 PROVE  post[e].fails <= retries.most + Cardinality(Process)
      BY DEF FailedSendsBounded
    <2>1. post[e] \in PostRow /\ InFlight(post[e]) \in Nat /\ retries.most \in Nat
      BY RowTypes DEF InFlight, TypeOK
    <2> QED
      BY <2>1, PassedFinite DEF Paid, PostRow
  <1>3. IInv /\ TypeOK' /\ LimitInv /\ Paid(retries.most) /\ [Next]_vars
          => LimitInv' /\ Paid(retries.most)'
    <2> SUFFICES ASSUME IInv, TypeOK', LimitInv, Paid(retries.most), [Next]_vars
                 PROVE  LimitInv' /\ Paid(retries.most)'
      OBVIOUS
    <2>1. TypeOK /\ retries.most \in Nat /\ retries'.most \in Nat
      BY DEF IInv, TypeOK
    <2>2. LimitInv' /\ retries.most <= retries'.most
      BY <2>1, LimitStep
    <2>3. PICK B \in Nat : B = retries.most
      BY <2>1
    <2>4. Paid(B) /\ \A p \in Process : run[p].limit <= B
      BY <2>3 DEF Paid, LimitInv
    <2>5. Paid(B)'
      BY <2>4, StepPaid
    <2>6. ASSUME NEW e \in Event
          PROVE  /\ post'[e].status = "NOT_POSTED" => post'[e].fails = 0
                 /\ post'[e].fails + InFlight(post'[e]) + Cardinality(Passed(e)')
                      <= retries'.most + Cardinality(Process)
      <3>1. post'[e].fails \in Nat /\ InFlight(post'[e]) \in Nat
        BY DEF TypeOK, PostRow, InFlight
      <3> QED
        BY <2>1, <2>2, <2>3, <2>5, <3>1, PassedFinite DEF Paid
    <2> QED
      BY <2>2, <2>6 DEF Paid
  <1> QED
    BY <1>1, <1>2, <1>3, Inductive, TypeCorrect, PTL DEF Spec
=============================================================================
