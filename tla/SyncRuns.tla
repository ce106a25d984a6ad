------------------------------- MODULE SyncRuns -------------------------------
(***************************************************************************)
(* The collection of inquiries of one store and one inquiry type: the      *)
(* timers of NaverAutoSyncScheduler in several processes behind one leader *)
(* lease, the manual and the confirmation syncs that run beside them, the  *)
(* store's lock, NaverInquirySyncService.sync_inquiries page by page, and  *)
(* the reconciliation that takes an inquiry missing from three clean runs  *)
(* for deleted.                                                            *)
(*                                                                         *)
(* The list of the marketplace is read one inquiry per page, by position,  *)
(* while inquiries come, go and return. A process has one run at a time:   *)
(* what a manual sync and a tick of one process do to each other, those of *)
(* two processes do. The switch of the automatic sync is on throughout;    *)
(* what a collected inquiry sets in motion is AutoPostQueue's.             *)
(***************************************************************************)
EXTENDS Naturals, FiniteSets

CONSTANTS
  Inquiry,    \* 1..N, in the order of the list
  Process,    \* servers that run the scheduler
  App,        \* the one that is started again after its death
  Manual,     \* processes that make manual or confirmation syncs
  Threshold,  \* SOURCE_DELETION_STREAK_THRESHOLD
  MaxGone,    \* bound: times an inquiry disappears from the marketplace
  MaxFails,   \* bound: pages that cannot be read
  MaxCrashes, \* bound: deaths of processes
  None, Dead

ASSUME SyncAssumption ==
  /\ Inquiry \subseteq Nat /\ IsFiniteSet(Inquiry)
  /\ App \in Process /\ Manual \subseteq Process /\ IsFiniteSet(Process)
  /\ None \notin Process \cup Inquiry /\ Dead \notin Process /\ None # Dead
  /\ Threshold \in Nat \ {0}
  /\ MaxGone \in Nat /\ MaxFails \in Nat /\ MaxCrashes \in Nat

VARIABLES
  market,   \* per inquiry: not asked yet, listed, or gone
  wasGone,  \* the inquiries that have been gone at some time
  gone,     \* how often an inquiry has disappeared
  row,      \* inquiries: whether it is stored, tracked, its streak (counted up to
            \* Threshold), source_deleted
  lock,     \* naver_sync_locks: the run that holds it, None, or Dead for that of a
            \* run that died and whose TTL has not passed
  lease,    \* naver_auto_sync_state.owner_id, None once it is free or has expired
  due,      \* next_run_at has passed
  sched,    \* per process: down, its timer is set, or its tick is at work
  run,      \* per process: the run of sync_inquiries it is in
  fails, crashes

vars == <<market, wasGone, gone, row, lock, lease, due, sched, run, fails, crashes>>
-----------------------------------------------------------------------------
NoRun == [pc |-> "idle", page |-> 1, window |-> {}, last |-> None, seen |-> {},
          clear |-> {}, missing |-> {}, failed |-> FALSE]

TypeOK ==
  /\ market \in [Inquiry -> {"unasked", "listed", "gone"}]
  /\ wasGone \subseteq Inquiry
  /\ gone \in Nat
  /\ row \in [Inquiry -> [stored: BOOLEAN, tracked: BOOLEAN,
                          streak: 0..Threshold, deleted: BOOLEAN]]
  /\ lock \in Process \cup {None, Dead}
  /\ lease \in Process \cup {None}
  /\ due \in BOOLEAN
  /\ sched \in [Process -> {"down", "timer", "busy"}]
  /\ run \in [Process -> [pc: {"idle", "page", "track", "release", "observe",
                              "clear", "count", "mark", "finish"},
                         page: Nat, window: SUBSET Inquiry,
                         last: Inquiry \cup {None}, seen: SUBSET Inquiry,
                         clear: SUBSET Inquiry, missing: SUBSET Inquiry,
                         failed: BOOLEAN]]
  /\ fails \in Nat /\ crashes \in Nat

Init ==
  /\ market = [i \in Inquiry |-> "unasked"]
  /\ wasGone = {} /\ gone = 0
  /\ row = [i \in Inquiry |-> [stored |-> FALSE, tracked |-> FALSE, streak |-> 0,
                               deleted |-> FALSE]]
  /\ lock = None /\ lease = None /\ due = FALSE
  /\ sched = [p \in Process |-> "down"]
  /\ run = [r \in Process |-> NoRun]
  /\ fails = 0 /\ crashes = 0
-----------------------------------------------------------------------------
(* The marketplace.                                                        *)

Asked(i) ==
  /\ market[i] = "unasked"
  /\ market' = [market EXCEPT ![i] = "listed"]
  /\ UNCHANGED <<wasGone, gone, row, lock, lease, due, sched, run, fails, crashes>>

Disappears(i) ==
  /\ market[i] = "listed" /\ gone < MaxGone
  /\ market' = [market EXCEPT ![i] = "gone"]
  /\ wasGone' = wasGone \cup {i} /\ gone' = gone + 1
  /\ UNCHANGED <<row, lock, lease, due, sched, run, fails, crashes>>

Returns(i) ==
  /\ market[i] = "gone"
  /\ market' = [market EXCEPT ![i] = "listed"]
  /\ UNCHANGED <<wasGone, gone, row, lock, lease, due, sched, run, fails, crashes>>
-----------------------------------------------------------------------------
(* sync_inquiries.                                                         *)

\* The run begins with a window of time: it is told of no inquiry asked later.
BeginRun(r) ==
  run' = [run EXCEPT ![r] = [NoRun EXCEPT !.pc = "page",
            !.window = {i \in Inquiry : market[i] # "unasked"}]]

\* What the marketplace would list of the window, and the inquiry on a page.
Listed(r) == {i \in run[r].window : market[i] = "listed"}
OnPage(S, k) == {i \in S : Cardinality({j \in S : j <= i}) = k}

Goes(r, pc) == run' = [run EXCEPT ![r].pc = pc]

\* An HTTP error, an answer that makes no sense, an inquiry that cannot be written.
PageFails(r) ==
  /\ run[r].pc = "page" /\ fails < MaxFails
  /\ fails' = fails + 1
  /\ run' = [run EXCEPT ![r].pc = "release", ![r].failed = TRUE]
  /\ UNCHANGED <<market, wasGone, gone, row, lock, lease, due, sched, crashes>>

\* A page past the end is empty and ends the list; the same page twice is
\* PAGINATION_FAILED; page 0 stands for no further one.  Else its inquiry is
\* written.
ReadPage(r) ==
  LET list == Listed(r)
      page == OnPage(list, run[r].page) IN
  /\ run[r].pc = "page"
  /\ IF page = {}
     THEN Goes(r, "release") /\ UNCHANGED row
     ELSE \E i \in page :
       IF i = run[r].last
       THEN /\ run' = [run EXCEPT ![r].pc = "release", ![r].failed = TRUE]
            /\ UNCHANGED row
       ELSE /\ row' = [row EXCEPT ![i].stored = TRUE]
            /\ run' = [run EXCEPT ![r].seen = @ \cup {i}, ![r].last = i,
                 ![r].page = IF @ >= Cardinality(list) THEN 0 ELSE @ + 1,
                 ![r].pc = IF ~row[i].stored THEN "track"
                           ELSE IF run[r].page >= Cardinality(list)
                                THEN "release" ELSE "page"]
  /\ UNCHANGED <<market, wasGone, gone, lock, lease, due, sched, fails, crashes>>

\* start_source_deletion_tracking, of an inquiry this page inserted.
Track(r) ==
  /\ run[r].pc = "track"
  /\ row' = [row EXCEPT ![run[r].last].tracked = TRUE,
                        ![run[r].last].streak = 0, ![run[r].last].deleted = FALSE]
  /\ Goes(r, IF run[r].page = 0 THEN "release" ELSE "page")
  /\ UNCHANGED <<market, wasGone, gone, lock, lease, due, sched, fails, crashes>>

\* Mutant: a run that failed half-way is reconciled as well.
ReleaseWhateverStatus(r) ==
  /\ run[r].pc = "release"
  /\ lock' = IF lock = r THEN None ELSE lock
  /\ run' = [run EXCEPT ![r] = IF run[r].seen # {}
                              THEN [@ EXCEPT !.pc = "observe", !.page = 1, !.last = None]
                              ELSE [NoRun EXCEPT !.pc = "finish"]]
  /\ UNCHANGED <<market, wasGone, gone, row, lease, due, sched, fails, crashes>>

\* release_locks, before the reconciliation, which is for a clean run that was
\* told of something.
Release(r) ==
  /\ run[r].pc = "release"
  /\ lock' = IF lock = r THEN None ELSE lock
  /\ run' = [run EXCEPT ![r] = IF ~run[r].failed /\ run[r].seen # {}
                              THEN [@ EXCEPT !.pc = "observe", !.page = 1, !.last = None]
                              ELSE [NoRun EXCEPT !.pc = "finish"]]
  /\ UNCHANGED <<market, wasGone, gone, row, lease, due, sched, fails, crashes>>

\* _reconcile_source_deletions: the tracked inquiries of the window.
Observe(r) ==
  LET candidates == {i \in run[r].window : row[i].tracked} IN
  /\ run[r].pc = "observe"
  /\ run' = [run EXCEPT ![r] = [NoRun EXCEPT !.pc = "clear",
       !.clear = {i \in candidates \cap run[r].seen :
                    row[i].streak > 0 \/ row[i].deleted},
       !.missing = candidates \ run[r].seen]]
  /\ UNCHANGED <<market, wasGone, gone, row, lock, lease, due, sched, fails, crashes>>

\* Mutant: an inquiry seen again keeps what it was taken for.
ClearSeenKeepingMark(r) ==
  /\ run[r].pc = "clear"
  /\ row' = [i \in Inquiry |-> IF i \in run[r].clear
                               THEN [row[i] EXCEPT !.streak = 0] ELSE row[i]]
  /\ run' = [run EXCEPT ![r].pc = "count", ![r].clear = {}]
  /\ UNCHANGED <<market, wasGone, gone, lock, lease, due, sched, fails, crashes>>

\* clear_source_deleted.
ClearSeen(r) ==
  /\ run[r].pc = "clear"
  /\ row' = [i \in Inquiry |-> IF i \in run[r].clear
                               THEN [row[i] EXCEPT !.streak = 0, !.deleted = FALSE]
                               ELSE row[i]]
  /\ run' = [run EXCEPT ![r].pc = "count", ![r].clear = {}]
  /\ UNCHANGED <<market, wasGone, gone, lock, lease, due, sched, fails, crashes>>

\* increment_source_missing_streak: those that reach the threshold are confirmed.
CountMissing(r) ==
  LET counted == [i \in Inquiry |->
        IF i \in run[r].missing /\ row[i].streak < Threshold
        THEN [row[i] EXCEPT !.streak = @ + 1] ELSE row[i]] IN
  /\ run[r].pc = "count"
  /\ row' = counted
  /\ run' = [run EXCEPT ![r].pc = "mark",
       ![r].missing = {i \in @ : counted[i].streak >= Threshold}]
  /\ UNCHANGED <<market, wasGone, gone, lock, lease, due, sched, fails, crashes>>

\* mark_source_deleted, whatever the streak is by now.
MarkDeleted(r) ==
  /\ run[r].pc = "mark"
  /\ row' = [i \in Inquiry |-> IF i \in run[r].missing
                               THEN [row[i] EXCEPT !.deleted = TRUE] ELSE row[i]]
  /\ run' = [run EXCEPT ![r] = [NoRun EXCEPT !.pc = "finish"]]
  /\ UNCHANGED <<market, wasGone, gone, lock, lease, due, sched, fails, crashes>>
-----------------------------------------------------------------------------
(* The scheduler.                                                          *)

\* ensure_auto_sync_scheduler of a process that has started.
Launch(p) ==
  /\ sched[p] = "down"
  /\ sched' = [sched EXCEPT ![p] = "timer"]
  /\ UNCHANGED <<market, wasGone, gone, row, lock, lease, due, run, fails, crashes>>

\* _tick that does not run: another process leads, or nothing is due.  The timer
\* is set again.
TickIdle(p) ==
  /\ sched[p] = "timer" /\ lease \in {None, p} /\ ~due
  /\ lease' = p
  /\ UNCHANGED <<market, wasGone, gone, row, lock, due, sched, run, fails, crashes>>

\* run_once while the store's lock is held, or cannot be taken: SKIPPED.
TickSkips(p) ==
  /\ sched[p] = "timer" /\ lease \in {None, p} /\ due /\ lock # None
  /\ lease' = p /\ due' = FALSE
  /\ UNCHANGED <<market, wasGone, gone, row, lock, sched, run, fails, crashes>>

\* run_once: the lease, the store's lock, and the run.
TickRuns(p) ==
  /\ sched[p] = "timer" /\ lease \in {None, p} /\ due /\ lock = None
  /\ run[p].pc = "idle"
  /\ lease' = p /\ lock' = p
  /\ sched' = [sched EXCEPT ![p] = "busy"]
  /\ BeginRun(p)
  /\ UNCHANGED <<market, wasGone, gone, row, due, fails, crashes>>

\* The end of a scheduled run: finish_auto_run, which is for the leader only, and
\* the timer.
FinishTick(p) ==
  /\ sched[p] = "busy" /\ run[p].pc = "finish"
  /\ due' = (due /\ lease # p)
  /\ sched' = [sched EXCEPT ![p] = "timer"]
  /\ run' = [run EXCEPT ![p] = NoRun]
  /\ UNCHANGED <<market, wasGone, gone, row, lock, lease, fails, crashes>>

\* Mutant: a lock that is held is overwritten.
BeginCallAnyway(p) ==
  /\ p \in Manual /\ sched[p] = "timer" /\ run[p].pc = "idle"
  /\ lock' = p
  /\ BeginRun(p)
  /\ UNCHANGED <<market, wasGone, gone, row, lease, due, sched, fails, crashes>>

\* A manual or a confirmation sync; one that finds the lock held is SKIPPED.
BeginCall(p) ==
  /\ p \in Manual /\ sched[p] = "timer" /\ run[p].pc = "idle" /\ lock = None
  /\ lock' = p
  /\ BeginRun(p)
  /\ UNCHANGED <<market, wasGone, gone, row, lease, due, sched, fails, crashes>>

FinishCall(p) ==
  /\ sched[p] = "timer" /\ run[p].pc = "finish"
  /\ run' = [run EXCEPT ![p] = NoRun]
  /\ UNCHANGED <<market, wasGone, gone, row, lock, lease, due, sched, fails, crashes>>

\* The interval passes.
DueComes ==
  /\ ~due
  /\ due' = TRUE
  /\ UNCHANGED <<market, wasGone, gone, row, lock, lease, sched, run, fails, crashes>>

\* A waiting leader renews its lease at every tick; one that is at work, or dead,
\* does not.
LeaseExpires ==
  /\ lease # None /\ sched[lease] # "timer"
  /\ lease' = None
  /\ UNCHANGED <<market, wasGone, gone, row, lock, due, sched, run, fails, crashes>>

\* The TTL of a lock is longer than a run may take: it passes only for a run that
\* died.
LockExpires ==
  /\ lock = Dead
  /\ lock' = None
  /\ UNCHANGED <<market, wasGone, gone, row, lease, due, sched, run, fails, crashes>>

Crash(p) ==
  /\ sched[p] # "down" /\ crashes < MaxCrashes
  /\ crashes' = crashes + 1
  /\ sched' = [sched EXCEPT ![p] = "down"]
  /\ run' = [run EXCEPT ![p] = NoRun]
  /\ lock' = IF lock = p THEN Dead ELSE lock
  /\ UNCHANGED <<market, wasGone, gone, row, lease, due, fails>>
-----------------------------------------------------------------------------
RunStep(r) ==
  \/ ReadPage(r) \/ Track(r) \/ Release(r)
  \/ Observe(r) \/ ClearSeen(r) \/ CountMissing(r) \/ MarkDeleted(r)
Tick(p) == TickIdle(p) \/ TickSkips(p) \/ TickRuns(p)

Next ==
  \/ \E i \in Inquiry : Asked(i) \/ Disappears(i) \/ Returns(i)
  \/ \E r \in Process : RunStep(r) \/ PageFails(r)
  \/ \E p \in Process : Launch(p) \/ Tick(p) \/ Crash(p)
  \/ \E p \in Process : FinishTick(p) \/ BeginCall(p) \/ FinishCall(p)
  \/ DueComes \/ LeaseExpires \/ LockExpires

Spec == Init /\ [][Next]_vars

\* Threads go on, time passes and the server is started again.  The marketplace
\* and the callers owe nothing.
FairSpec ==
  /\ Spec
  /\ \A p \in Process : /\ WF_vars(RunStep(p) \/ FinishTick(p) \/ FinishCall(p))
                       /\ WF_vars(Tick(p))
  /\ WF_vars(Launch(App)) /\ WF_vars(DueComes)
  /\ WF_vars(LeaseExpires) /\ WF_vars(LockExpires)
-----------------------------------------------------------------------------
(* Properties.                                                             *)

\* An inquiry that has always been listed is taken for deleted only after as many
\* disappearances of others as the threshold: each can hide it from one run at
\* most, which reads the pages while they shift.  This rests on the lock, on a
\* failed run counting nothing, and on a run counting once.
MarkedHonestly ==
  \A i \in Inquiry : row[i].deleted /\ i \notin wasGone => gone >= Threshold

\* An inquiry that stays listed is collected, and if it had been taken for deleted
\* it is restored, whatever runs die, fail or are skipped.
Mirrored ==
  \A i \in Inquiry :
    market[i] = "listed" ~>
      (market[i] # "listed" \/ (row[i].stored /\ ~row[i].deleted))

\* Whoever collects holds the store's lock.
Collecting == {r \in Process : run[r].pc \in {"page", "track", "release"}}
IInv == TypeOK /\ \A r \in Collecting : lock = r
=============================================================================
