---------------------------- MODULE LearningIndex ----------------------------
(***************************************************************************)
(* The semantic index, a file derived from the table learning_examples:    *)
(* the writes of LearningRepository and the hook some of them run after    *)
(* the commit, the coalescing worker behind the hook, the incremental sync *)
(* it runs, and the periodic repair.  The worker's flags are guarded by a  *)
(* lock, a pass by another one; threads interleave between them, an        *)
(* embedding request may fail, a thread or a timer may not start, and the  *)
(* process may die at any point and come back with another model.          *)
(***************************************************************************)
EXTENDS Naturals, FiniteSets

CONSTANTS
  Row,        \* rows of learning_examples
  Text,       \* what is embedded of a row: its question and answer
  Writer,     \* requests that store a Learning
  MaxWrites,  \* bound: changes of the table
  MaxFaults,  \* bound: deaths of the process
  None

ASSUME LearningIndexAssumption ==
  /\ None \notin Text
  /\ MaxWrites \in Nat /\ MaxFaults \in Nat

VARIABLES
  rows,     \* per row the text the population query yields; None if inactive
  file,     \* the index file: per row the vector's text and its fingerprint
  flags,    \* _CoalescingWorker._running and _pending
  pass,     \* the two threads that run a pass: the worker's loop, the repair
  writer,   \* per request, where it is between its commit and its return
  foreign,  \* the model that labels the file is not the configured one
  timer,    \* the repair's timer is set, or its tick is running
  owed,     \* rows whose last change was handed to the worker, no fault since
  count     \* writes and faults so far

vars == <<rows, file, flags, pass, writer, foreign, timer, owed, count>>
-----------------------------------------------------------------------------
Thread == {"loop", "repair"}
Content == Text \cup {None}
\* A fingerprint stands beside a vector.
Entry == {e \in [vector: Content, print: Content] : e.vector = None => e.print = None}
Off == [pc |-> "off", seen |-> [r \in Row |-> None]]

TypeOK ==
  /\ rows \in [Row -> Content]
  /\ file \in [Row -> Entry]
  /\ flags \in [running: BOOLEAN, pending: BOOLEAN]
  /\ pass \in [Thread -> [pc: {"off", "waiting", "embedding", "ended"},
                          seen: [Row -> Content]]]
  /\ writer \in [Writer -> {"idle", "committed", "claimed"}]
  /\ foreign \in BOOLEAN /\ timer \in BOOLEAN
  /\ owed \subseteq Row
  /\ count \in [writes: 0..MaxWrites, faults: 0..MaxFaults]

\* A table and an index of an earlier version, whose vectors may lack
\* fingerprints, be of rows that are gone or of another model; the first timer
\* is set, unless its thread did not start.
Init ==
  /\ rows \in [Row -> Content]
  /\ file \in [Row -> {e \in Entry : e.print \in {None, e.vector}}]
  /\ flags = [running |-> FALSE, pending |-> FALSE]
  /\ pass = [t \in Thread |-> Off]
  /\ writer = [w \in Writer |-> "idle"]
  /\ foreign \in BOOLEAN /\ timer \in BOOLEAN
  /\ owed = {}
  /\ count = [writes |-> 0, faults |-> 0]
-----------------------------------------------------------------------------
(* Writes of the table, each a committed transaction.                      *)
Change(r, content) ==
  /\ count.writes < MaxWrites
  /\ rows[r] # content
  /\ rows' = [rows EXCEPT ![r] = content]
  /\ count' = [count EXCEPT !.writes = @ + 1]
  /\ owed' = owed \ {r}

\* upsert, upsert_human_verified_atomic and update_common_learning_text through
\* LearningService: the hook follows the commit.
SaveLearning(w, r, text) ==
  /\ writer[w] = "idle"
  /\ Change(r, text)
  /\ writer' = [writer EXCEPT ![w] = "committed"]
  /\ UNCHANGED <<file, flags, pass, foreign, timer>>

\* Everything that ends with a commit: revocations, deactivations, imports with
\* the hook suppressed, and the repositories the UI makes without a hook (the
\* common Learnings).
ChangeSilently(r, content) ==
  /\ Change(r, content)
  /\ UNCHANGED <<file, flags, pass, writer, foreign, timer>>
-----------------------------------------------------------------------------
(* _CoalescingWorker.                                                      *)

\* Mutant: a request during a pass is taken to be served by that pass.
CoalesceInto(w) ==
  /\ flags' = flags
  /\ writer' = [writer EXCEPT ![w] = "idle"]
\* Under the guard: fold into the running pass, or claim the slot.
Coalesce(w) ==
  /\ flags' = [flags EXCEPT !.pending = TRUE]
  /\ writer' = [writer EXCEPT ![w] = "idle"]
Request(w) ==
  /\ writer[w] = "committed"
  /\ IF flags.running THEN Coalesce(w)
     ELSE /\ flags' = [running |-> TRUE, pending |-> FALSE]
          /\ writer' = [writer EXCEPT ![w] = "claimed"]
  /\ owed' = Row
  /\ UNCHANGED <<rows, file, pass, foreign, timer, count>>

\* Outside the guard: the thread starts, or the slot is given back.
Spawn(w) ==
  /\ writer[w] = "claimed"
  /\ writer' = [writer EXCEPT ![w] = "idle"]
  /\ pass' = [pass EXCEPT !["loop"].pc = "waiting"]
  /\ UNCHANGED <<rows, file, flags, foreign, timer, owed, count>>
SpawnFails(w) ==
  /\ writer[w] = "claimed"
  /\ writer' = [writer EXCEPT ![w] = "idle"]
  /\ flags' = [running |-> FALSE, pending |-> FALSE]
  /\ owed' = {}
  /\ UNCHANGED <<rows, file, pass, foreign, timer, count>>

\* _loop after a pass, under the guard: stop, or once more for everything that
\* arrived meanwhile.
EndPass ==
  /\ pass["loop"].pc = "ended"
  /\ IF flags.pending
     THEN /\ flags' = [flags EXCEPT !.pending = FALSE]
          /\ pass' = [pass EXCEPT !["loop"] = [Off EXCEPT !.pc = "waiting"]]
     ELSE /\ flags' = [flags EXCEPT !.running = FALSE]
          /\ pass' = [pass EXCEPT !["loop"] = Off]
  /\ UNCHANGED <<rows, file, writer, foreign, timer, owed, count>>

\* An exception that is not an error of the pass: the thread gives the slot up.
LoopDies ==
  /\ pass["loop"].pc # "off"
  /\ flags' = [running |-> FALSE, pending |-> FALSE]
  /\ pass' = [pass EXCEPT !["loop"] = Off]
  /\ owed' = {}
  /\ UNCHANGED <<rows, file, writer, foreign, timer, count>>
-----------------------------------------------------------------------------
(* sync_semantic_index, in either thread.                                  *)

\* Mutant: the repair waits for requests.
RepairTickOnRequest ==
  /\ timer /\ pass["repair"].pc = "off" /\ flags.running
  /\ pass' = [pass EXCEPT !["repair"].pc = "waiting"]
  /\ UNCHANGED <<rows, file, flags, writer, foreign, timer, owed, count>>
\* SemanticIndexRepairScheduler._tick.
RepairTick ==
  /\ timer /\ pass["repair"].pc = "off"
  /\ pass' = [pass EXCEPT !["repair"].pc = "waiting"]
  /\ UNCHANGED <<rows, file, flags, writer, foreign, timer, owed, count>>

\* _INDEX_WRITE_LOCK is held from the read of the population to the save.
LockFree == \A t \in Thread : pass[t].pc # "embedding"
ReadPopulation(t) ==
  /\ pass[t].pc = "waiting" /\ LockFree
  /\ pass' = [pass EXCEPT ![t] = [pc |-> "embedding", seen |-> rows]]
  /\ UNCHANGED <<rows, file, flags, writer, foreign, timer, owed, count>>

\* classify, under the policy "reembed": what to embed (no vector, another
\* fingerprint or none) and what to drop (a vector of no eligible row).
ToEmbed(seen) ==
  {r \in Row : seen[r] # None /\ \/ file[r].vector = None
                                 \/ file[r].print # seen[r]}
ToRemove(seen) == {r \in Row : seen[r] = None /\ file[r].vector # None}

\* Mutant: merge keeps the fingerprint a re-embedded row had.
SyncedKeepingPrints(seen) ==
  [r \in Row |-> CASE r \in ToEmbed(seen) -> [file[r] EXCEPT !.vector = seen[r]]
                   [] r \in ToRemove(seen) -> [vector |-> None, print |-> None]
                   [] OTHER -> file[r]]
\* build, merge and drop.
Synced(seen) ==
  [r \in Row |-> CASE r \in ToEmbed(seen) -> [vector |-> seen[r], print |-> seen[r]]
                   [] r \in ToRemove(seen) -> [vector |-> None, print |-> None]
                   [] OTHER -> file[r]]

\* The pass of the worker returns to its loop.  The repair sets its next timer:
\* if that thread does not start, the scheduler still counts as started, and no
\* later start() sets one.
Finish(t) ==
  /\ pass' = [pass EXCEPT ![t] = IF t = "loop" THEN [Off EXCEPT !.pc = "ended"] ELSE Off]
  /\ IF t = "loop" THEN timer' = timer ELSE timer' \in BOOLEAN

\* A pass that leaves the file as it was: what is owed waits for the repair.
GiveUp(t) ==
  /\ pass[t].pc = "embedding"
  /\ Finish(t)
  /\ owed' = IF t = "loop" THEN {} ELSE owed
  /\ UNCHANGED <<rows, file, flags, writer, foreign, count>>

\* full_rebuild_required: vectors of two models do not mix.  An index without
\* vectors takes the configured model.
RebuildRequired == foreign /\ \E r \in Row : file[r].vector # None

\* The save replaces the file.
SavePass(t) ==
  /\ pass[t].pc = "embedding" /\ ~RebuildRequired
  /\ file' = Synced(pass[t].seen)
  /\ foreign' = FALSE
  /\ Finish(t)
  /\ UNCHANGED <<rows, flags, writer, owed, count>>
RefusePass(t) == RebuildRequired /\ GiveUp(t)
\* An embedding or the replacement of the file fails.
FailPass(t) == ~RebuildRequired /\ GiveUp(t)

\* The process dies and is started again, in this or another version: the table
\* and the file are there, and a new scheduler starts.
Restart ==
  /\ count.faults < MaxFaults
  /\ count' = [count EXCEPT !.faults = @ + 1]
  /\ flags' = [running |-> FALSE, pending |-> FALSE]
  /\ pass' = [t \in Thread |-> Off]
  /\ writer' = [w \in Writer |-> "idle"]
  /\ foreign' \in BOOLEAN /\ timer' \in BOOLEAN
  /\ owed' = {}
  /\ UNCHANGED <<rows, file>>
-----------------------------------------------------------------------------
Write == \/ \E r \in Row, w \in Writer, text \in Text : SaveLearning(w, r, text)
         \/ \E r \in Row, content \in Content : ChangeSilently(r, content)
Pass(t) == ReadPopulation(t) \/ SavePass(t) \/ RefusePass(t) \/ FailPass(t)

Next == \/ Write \/ EndPass \/ LoopDies \/ RepairTick \/ Restart
        \/ \E w \in Writer : Request(w) \/ Spawn(w) \/ SpawnFails(w)
        \/ \E t \in Thread : Pass(t)

\* Threads run; a timer that is set ticks; of the passes that are not refused, the
\* repair's fail for a while only.
Fairness ==
  /\ WF_vars(RepairTick)
  /\ WF_vars(EndPass)
  /\ \A w \in Writer : WF_vars(Request(w)) /\ WF_vars(Spawn(w) \/ SpawnFails(w))
  /\ \A t \in Thread : SF_vars(ReadPopulation(t))
                       /\ WF_vars(SavePass(t) \/ RefusePass(t) \/ FailPass(t))
  /\ SF_vars(SavePass("repair"))

Spec == Init /\ [][Next]_vars /\ Fairness
-----------------------------------------------------------------------------
(* Properties.                                                             *)

\* A pass of the worker that starts later, or has read the row as it is.
PassToCome(r) ==
  /\ flags.running
  /\ \/ flags.pending
     \/ pass["loop"].pc \in {"off", "waiting"}
     \/ pass["loop"].pc = "embedding" /\ pass["loop"].seen[r] = rows[r]

\* No request is lost by coalescing: a row whose change was handed to the worker
\* is indexed as it is, or a pass that will see it is to come, whatever other
\* requests, passes and repairs do at the same time.
NoRequestLost ==
  \A r \in owed : file[r].vector = rows[r] \/ PassToCome(r)

\* A fingerprint never vouches for a text its vector was not built from.
PrintsTrue == \A r \in Row : file[r].print \in {None, file[r].vector}

\* A claimed slot is someone's: a request about to start the thread, or the
\* thread.  (Else every later request would fold into a pass that never comes.)
SlotHeld ==
  flags.running <=> \/ pass["loop"].pc # "off"
                    \/ \E w \in Writer : writer[w] = "claimed"

\* The repair makes up for everything the hook is not told, loses or fails at: the
\* index ends up equal to the table, unless it is left to a rebuild by hand or the
\* repair has lost its timer, of which nothing in the process brings it back.
EventuallyIndexed ==
  \/ <>[](\A r \in Row : file[r].vector = rows[r])
  \/ <>[]RebuildRequired
  \/ <>[]~timer
-----------------------------------------------------------------------------
(* The inductive invariant.                                                *)

\* At most one request has claimed the slot, and then there is no thread.
OneClaim ==
  \A w \in Writer : writer[w] = "claimed" =>
    /\ pass["loop"].pc = "off"
    /\ \A v \in Writer \ {w} : writer[v] # "claimed"

\* One pass at a time between the read and the save.
OnePass ==
  \A s, t \in Thread : pass[s].pc = "embedding" /\ pass[t].pc = "embedding" => s = t

\* A row that is indexed as it is stays so when a pass now running saves.
Settled(r) ==
  /\ file[r].vector = rows[r]
  /\ \A t \in Thread : pass[t].pc = "embedding" => pass[t].seen[r] = rows[r]
OwedInv == \A r \in owed : Settled(r) \/ PassToCome(r)

IInv == TypeOK /\ PrintsTrue /\ SlotHeld /\ OneClaim /\ OnePass /\ OwedInv
=============================================================================
