------------------------- MODULE LearningIndexProofs -------------------------
(***************************************************************************)
(* Proofs about LearningIndex, for any rows, texts and requests.           *)
(*                                                                         *)
(* A request folded into a pass is not lost because of three things the    *)
(* invariant ties together: a claimed slot is somebody's (SlotHeld,        *)
(* OneClaim), a row that is indexed stays so under the one pass that may be*)
(* about to save (OwedInv, OnePass), and a fingerprint that lets a pass    *)
(* skip a row tells the truth about its vector (PrintsTrue).               *)
(***************************************************************************)
EXTENDS LearningIndex, TLAPS

\* What a pass leaves in the file: what it has seen, if fingerprints are true.
LEMMA SyncedSeen ==
  ASSUME TypeOK, PrintsTrue, NEW seen \in [Row -> Content]
  PROVE  /\ Synced(seen) \in [Row -> Entry]
         /\ \A r \in Row : Synced(seen)[r].vector = seen[r]
         /\ \A r \in Row : Synced(seen)[r].print \in {None, Synced(seen)[r].vector}
<1> SUFFICES ASSUME NEW r \in Row
             PROVE  /\ Synced(seen)[r] \in Entry
                    /\ Synced(seen)[r].vector = seen[r]
                    /\ Synced(seen)[r].print \in {None, Synced(seen)[r].vector}
  BY DEF Synced
<1>1. /\ file[r] \in Entry /\ seen[r] \in Content
      /\ file[r].print \in {None, file[r].vector}
  BY DEF TypeOK, PrintsTrue
<1>2. Synced(seen)[r] = CASE r \in ToEmbed(seen) -> [vector |-> seen[r], print |-> seen[r]]
                          [] r \in ToRemove(seen) -> [vector |-> None, print |-> None]
                          [] OTHER -> file[r]
  BY DEF Synced
<1>3. CASE r \in ToEmbed(seen)
  <2>1. r \notin ToRemove(seen)
    BY <1>3 DEF ToEmbed, ToRemove
  <2>2. Synced(seen)[r] = [vector |-> seen[r], print |-> seen[r]]
    BY <1>2, <1>3, <2>1
  <2>3. seen[r] # None
    BY <1>3 DEF ToEmbed
  <2>4. QED BY <1>1, <2>2, <2>3 DEF Entry
<1>4. CASE r \in ToRemove(seen)
  <2>1. r \notin ToEmbed(seen) /\ seen[r] = None
    BY <1>4 DEF ToEmbed, ToRemove
  <2>2. QED BY <1>1, <1>2, <1>4, <2>1 DEF Entry, Content
<1>5. CASE r \notin ToEmbed(seen) /\ r \notin ToRemove(seen)
  <2>1. Synced(seen)[r] = file[r]
    BY <1>2, <1>5
  <2>2. file[r].vector = seen[r]
    BY <1>1, <1>5 DEF ToEmbed, ToRemove
  <2>3. QED BY <1>1, <2>1, <2>2
<1>6. QED BY <1>3, <1>4, <1>5

\* The initial states.
LEMMA InitIInv == Init => IInv
<1> SUFFICES ASSUME Init PROVE IInv
  OBVIOUS
<1>1. \A t \in Thread : pass[t] = Off
  BY DEF Init
<1>2. TypeOK
  BY LearningIndexAssumption DEF Init, TypeOK, Entry, Content, Off
<1>3. PrintsTrue
  BY DEF Init, PrintsTrue
<1>4. SlotHeld /\ OneClaim
  BY <1>1 DEF Init, SlotHeld, OneClaim, Off, Thread
<1>5. OnePass /\ OwedInv
  BY <1>1 DEF Init, OnePass, OwedInv, Off, Thread
<1>6. QED BY <1>2, <1>3, <1>4, <1>5 DEF IInv

\* Writes of the table: the row that changes is no longer owed.
LEMMA WriteKeeps == IInv /\ Write => IInv'
<1> SUFFICES ASSUME IInv, Write PROVE IInv'
  OBVIOUS
<1>1. PICK r \in Row, c \in Content :
        /\ Change(r, c) /\ UNCHANGED <<file, flags, pass, foreign, timer>>
        /\ writer' = writer
           \/ \E w \in Writer : /\ writer[w] = "idle"
                                /\ writer' = [writer EXCEPT ![w] = "committed"]
  BY DEF Write, SaveLearning, ChangeSilently, Content
<1>2. \A w \in Writer : writer'[w] = "claimed" <=> writer[w] = "claimed"
  BY <1>1 DEF IInv, TypeOK
<1>3. TypeOK'
  <2>1. writer' \in [Writer -> {"idle", "committed", "claimed"}]
    BY <1>1 DEF IInv, TypeOK
  <2>2. rows' \in [Row -> Content] /\ owed' \subseteq Row
    BY <1>1 DEF IInv, TypeOK, Change
  <2>3. count' \in [writes: 0..MaxWrites, faults: 0..MaxFaults]
    BY <1>1, LearningIndexAssumption DEF IInv, TypeOK, Change
  <2>4. QED BY <1>1, <2>1, <2>2, <2>3 DEF IInv, TypeOK
<1>4. PrintsTrue' /\ OnePass'
  BY <1>1 DEF IInv, PrintsTrue, OnePass
<1>5. SlotHeld' /\ OneClaim'
  BY <1>1, <1>2 DEF IInv, SlotHeld, OneClaim
<1>6. OwedInv'
  <2> SUFFICES ASSUME NEW s \in owed' PROVE Settled(s)' \/ PassToCome(s)'
    BY DEF OwedInv
  <2>1. s \in owed /\ rows'[s] = rows[s]
    BY <1>1 DEF Change, IInv, TypeOK
  <2>2. QED BY <1>1, <2>1 DEF IInv, OwedInv, Settled, PassToCome
<1>7. QED BY <1>3, <1>4, <1>5, <1>6 DEF IInv

\* The worker: requests, the thread they start, and its end.
LEMMA WorkerKeeps ==
  ASSUME IInv,
         \/ \E w \in Writer : Request(w) \/ Spawn(w) \/ SpawnFails(w)
         \/ EndPass \/ LoopDies
  PROVE  IInv'
<1>1. ASSUME NEW w \in Writer, Request(w) PROVE IInv'
  <2>1. UNCHANGED <<rows, file, pass, foreign, timer, count>> /\ owed' = Row
    BY <1>1 DEF Request
  <2>2. CASE flags.running
    <3>1. /\ flags' = [flags EXCEPT !.pending = TRUE]
          /\ writer' = [writer EXCEPT ![w] = "idle"]
      BY <1>1, <2>2 DEF Request, Coalesce
    <3>2. flags'.running = flags.running /\ flags'.pending
      BY <3>1 DEF IInv, TypeOK
    <3>3. \A v \in Writer : writer'[v] = "claimed" <=> writer[v] = "claimed"
      BY <1>1, <3>1 DEF IInv, TypeOK, Request
    <3>4. TypeOK'
      BY <2>1, <3>1 DEF IInv, TypeOK
    <3>5. SlotHeld' /\ OneClaim'
      BY <2>1, <3>2, <3>3 DEF IInv, SlotHeld, OneClaim
    <3>6. OwedInv'
      BY <2>1, <2>2, <3>2 DEF OwedInv, PassToCome
    <3>7. QED BY <2>1, <3>4, <3>5, <3>6 DEF IInv, PrintsTrue, OnePass
  <2>3. CASE ~flags.running
    <3>1. /\ flags' = [running |-> TRUE, pending |-> FALSE]
          /\ writer' = [writer EXCEPT ![w] = "claimed"]
      BY <1>1, <2>3 DEF Request
    <3>2. pass["loop"].pc = "off" /\ \A v \in Writer : writer[v] # "claimed"
      BY <2>3 DEF IInv, SlotHeld
    <3>3. TypeOK'
      BY <2>1, <3>1 DEF IInv, TypeOK
    <3>4. writer'[w] = "claimed" /\ \A v \in Writer \ {w} : writer'[v] # "claimed"
      BY <3>1, <3>2 DEF IInv, TypeOK
    <3>5. SlotHeld' /\ OneClaim'
      BY <2>1, <3>1, <3>2, <3>4 DEF SlotHeld, OneClaim
    <3>6. OwedInv'
      BY <2>1, <3>1, <3>2 DEF OwedInv, PassToCome
    <3>7. QED BY <2>1, <3>3, <3>5, <3>6 DEF IInv, PrintsTrue, OnePass
  <2>4. QED BY <2>2, <2>3
<1>2. ASSUME NEW w \in Writer, Spawn(w) PROVE IInv'
  <2>1. /\ UNCHANGED <<rows, file, flags, foreign, timer, owed, count>>
        /\ writer' = [writer EXCEPT ![w] = "idle"]
        /\ pass' = [pass EXCEPT !["loop"].pc = "waiting"]
    BY <1>2 DEF Spawn
  <2>2. /\ pass["loop"].pc = "off" /\ flags.running
        /\ \A v \in Writer \ {w} : writer[v] # "claimed"
    BY <1>2 DEF Spawn, IInv, OneClaim, SlotHeld
  <2>3. pass'["loop"].pc = "waiting" /\ pass'["repair"] = pass["repair"]
    BY <2>1 DEF IInv, TypeOK, Thread
  <2>4. TypeOK'
    BY <2>1 DEF IInv, TypeOK, Thread
  <2>5. \A v \in Writer : writer'[v] # "claimed"
    BY <2>1, <2>2 DEF IInv, TypeOK
  <2>6. SlotHeld' /\ OneClaim'
    BY <2>1, <2>2, <2>3, <2>5 DEF SlotHeld, OneClaim
  <2>7. OnePass' /\ OwedInv'
    BY <2>1, <2>2, <2>3 DEF OnePass, OwedInv, PassToCome, Thread
  <2>8. QED BY <2>1, <2>4, <2>6, <2>7 DEF IInv, PrintsTrue
<1>3. ASSUME NEW w \in Writer, SpawnFails(w) PROVE IInv'
  <2>1. /\ UNCHANGED <<rows, file, pass, foreign, timer, count>> /\ owed' = {}
        /\ writer' = [writer EXCEPT ![w] = "idle"]
        /\ flags' = [running |-> FALSE, pending |-> FALSE]
    BY <1>3 DEF SpawnFails
  <2>2. /\ pass["loop"].pc = "off"
        /\ \A v \in Writer \ {w} : writer[v] # "claimed"
    BY <1>3 DEF SpawnFails, IInv, OneClaim
  <2>3. TypeOK'
    BY <2>1 DEF IInv, TypeOK
  <2>4. \A v \in Writer : writer'[v] # "claimed"
    BY <2>1, <2>2 DEF IInv, TypeOK
  <2>5. SlotHeld' /\ OneClaim'
    BY <2>1, <2>2, <2>4 DEF SlotHeld, OneClaim
  <2>6. QED BY <2>1, <2>3, <2>5 DEF IInv, PrintsTrue, OnePass, OwedInv
<1>4. ASSUME EndPass PROVE IInv'
  <2>1. /\ UNCHANGED <<rows, file, writer, foreign, timer, owed, count>>
        /\ pass["loop"].pc = "ended"
    BY <1>4 DEF EndPass
  <2>2. flags.running /\ \A v \in Writer : writer[v] # "claimed"
    BY <2>1 DEF IInv, SlotHeld, OneClaim
  <2>3. CASE flags.pending
    <3>1. /\ flags' = [flags EXCEPT !.pending = FALSE]
          /\ pass' = [pass EXCEPT !["loop"] = [Off EXCEPT !.pc = "waiting"]]
      BY <1>4, <2>3 DEF EndPass
    <3>2. flags'.running /\ pass'["loop"].pc = "waiting" /\ pass'["repair"] = pass["repair"]
      BY <2>2, <3>1 DEF IInv, TypeOK, Thread, Off
    <3>3. TypeOK'
      BY <2>1, <3>1 DEF IInv, TypeOK, Thread, Off, Content
    <3>4. QED BY <2>1, <2>2, <3>2, <3>3
              DEF IInv, PrintsTrue, SlotHeld, OneClaim, OnePass, OwedInv, PassToCome, Thread
  <2>4. CASE ~flags.pending
    <3>1. /\ flags' = [flags EXCEPT !.running = FALSE]
          /\ pass' = [pass EXCEPT !["loop"] = Off]
      BY <1>4, <2>4 DEF EndPass
    <3>2. ~flags'.running /\ pass'["loop"].pc = "off" /\ pass'["repair"] = pass["repair"]
      BY <3>1 DEF IInv, TypeOK, Thread, Off
    <3>3. TypeOK'
      BY <2>1, <3>1 DEF IInv, TypeOK, Thread, Off, Content
    <3>4. \A r \in owed : Settled(r)
      BY <2>1, <2>4 DEF IInv, OwedInv, PassToCome
    <3>5. OwedInv'
      BY <2>1, <3>2, <3>4 DEF OwedInv, Settled, Thread
    <3>6. QED BY <2>1, <2>2, <3>2, <3>3, <3>5
              DEF IInv, PrintsTrue, SlotHeld, OneClaim, OnePass, Thread
  <2>5. QED BY <2>3, <2>4
<1>5. ASSUME LoopDies PROVE IInv'
  <2>1. /\ UNCHANGED <<rows, file, writer, foreign, timer, count>> /\ owed' = {}
        /\ flags' = [running |-> FALSE, pending |-> FALSE]
        /\ pass' = [pass EXCEPT !["loop"] = Off] /\ pass["loop"].pc # "off"
    BY <1>5 DEF LoopDies
  <2>2. \A v \in Writer : writer[v] # "claimed"
    BY <2>1 DEF IInv, OneClaim
  <2>3. pass'["loop"].pc = "off" /\ pass'["repair"] = pass["repair"]
    BY <2>1 DEF IInv, TypeOK, Thread, Off
  <2>4. TypeOK'
    BY <2>1 DEF IInv, TypeOK, Thread, Off, Content
  <2>5. QED BY <2>1, <2>2, <2>3, <2>4
            DEF IInv, PrintsTrue, SlotHeld, OneClaim, OnePass, OwedInv, Thread
<1>6. QED BY <1>1, <1>2, <1>3, <1>4, <1>5

\* The passes of either thread.
LEMMA PassKeeps ==
  ASSUME IInv, RepairTick \/ \E t \in Thread : Pass(t)
  PROVE  IInv'
<1>1. ASSUME RepairTick PROVE IInv'
  <2>1. /\ UNCHANGED <<rows, file, flags, writer, foreign, timer, owed, count>>
        /\ pass' = [pass EXCEPT !["repair"].pc = "waiting"]
    BY <1>1 DEF RepairTick
  <2>2. pass'["loop"] = pass["loop"] /\ pass'["repair"].pc = "waiting"
    BY <2>1 DEF IInv, TypeOK, Thread
  <2>3. TypeOK'
    BY <2>1 DEF IInv, TypeOK, Thread
  <2>4. QED BY <2>1, <2>2, <2>3
            DEF IInv, PrintsTrue, SlotHeld, OneClaim, OnePass, OwedInv, Settled,
                PassToCome, Thread
<1>2. ASSUME NEW t \in Thread, ReadPopulation(t) PROVE IInv'
  <2>1. /\ UNCHANGED <<rows, file, flags, writer, foreign, timer, owed, count>>
        /\ pass' = [pass EXCEPT ![t] = [pc |-> "embedding", seen |-> rows]]
        /\ pass[t].pc = "waiting" /\ \A u \in Thread : pass[u].pc # "embedding"
    BY <1>2 DEF ReadPopulation, LockFree
  <2>2. /\ pass'[t].pc = "embedding" /\ pass'[t].seen = rows
        /\ \A u \in Thread \ {t} : pass'[u] = pass[u]
    BY <2>1 DEF IInv, TypeOK
  <2>3. TypeOK'
    BY <2>1 DEF IInv, TypeOK
  <2>4. pass'["loop"].pc = "off" <=> pass["loop"].pc = "off"
    BY <2>1, <2>2 DEF Thread
  <2>5. SlotHeld' /\ OneClaim'
    BY <2>1, <2>4 DEF IInv, SlotHeld, OneClaim
  <2>6. OwedInv'
    <3> SUFFICES ASSUME NEW r \in owed PROVE Settled(r)' \/ PassToCome(r)'
      BY <2>1 DEF OwedInv
    <3>1. CASE Settled(r)
      BY <2>1, <2>2, <3>1 DEF Settled
    <3>2. CASE PassToCome(r)
      BY <2>1, <2>2, <3>2 DEF PassToCome, Thread
    <3>3. QED BY <3>1, <3>2 DEF IInv, OwedInv
  <2>7. OnePass'
    BY <2>1, <2>2 DEF OnePass, Thread
  <2>8. QED BY <2>1, <2>3, <2>5, <2>6, <2>7 DEF IInv, PrintsTrue
<1>3. ASSUME NEW t \in Thread, SavePass(t) \/ RefusePass(t) \/ FailPass(t) PROVE IInv'
  <2>1. /\ UNCHANGED <<rows, flags, writer, count>> /\ Finish(t)
        /\ pass[t].pc = "embedding" /\ pass[t].seen \in [Row -> Content]
    BY <1>3 DEF SavePass, RefusePass, FailPass, GiveUp, IInv, TypeOK
  <2>2. /\ pass'[t].pc = IF t = "loop" THEN "ended" ELSE "off"
        /\ \A u \in Thread \ {t} : pass'[u] = pass[u]
    BY <2>1 DEF Finish, IInv, TypeOK, Off
  <2>3. pass' \in [Thread -> [pc: {"off", "waiting", "embedding", "ended"},
                              seen: [Row -> Content]]]
    BY <2>1 DEF Finish, IInv, TypeOK, Off, Content
  <2>3a. timer' \in BOOLEAN
    BY <2>1 DEF Finish, IInv, TypeOK
  <2>4. SlotHeld' /\ OneClaim'
    <3>1. pass'["loop"].pc = "off" <=> pass["loop"].pc = "off"
      BY <2>1, <2>2 DEF Thread
    <3>2. QED BY <2>1, <3>1 DEF IInv, SlotHeld, OneClaim
  <2>5. /\ OnePass' /\ \A u \in Thread : pass'[u].pc # "embedding"
    BY <2>1, <2>2 DEF IInv, OnePass, Thread
  <2>6. CASE SavePass(t)
    <3>1. file' = Synced(pass[t].seen) /\ owed' = owed /\ foreign' = FALSE
      BY <2>6 DEF SavePass
    <3>2. /\ file' \in [Row -> Entry] /\ PrintsTrue'
          /\ \A r \in Row : file'[r].vector = pass[t].seen[r]
      BY <2>1, <3>1, SyncedSeen DEF IInv, PrintsTrue
    <3>3. TypeOK'
      BY <2>1, <2>3, <2>3a, <3>1, <3>2 DEF IInv, TypeOK
    <3>4. OwedInv'
      <4> SUFFICES ASSUME NEW r \in owed PROVE Settled(r)' \/ PassToCome(r)'
        BY <3>1 DEF OwedInv
      <4>1. r \in Row
        BY DEF IInv, TypeOK
      <4>2. CASE pass[t].seen[r] = rows[r]
        BY <2>1, <2>5, <3>2, <4>1, <4>2 DEF Settled
      <4>3. CASE pass[t].seen[r] # rows[r]
        <5>1. PassToCome(r)
          BY <2>1, <4>3 DEF IInv, OwedInv, Settled
        <5>2. QED BY <2>1, <2>2, <4>3, <5>1 DEF PassToCome, Thread
      <4>4. QED BY <4>2, <4>3
    <3>5. QED BY <2>4, <2>5, <3>2, <3>3, <3>4 DEF IInv
  <2>7. CASE GiveUp(t)
    <3>1. /\ file' = file /\ foreign' = foreign
          /\ owed' = IF t = "loop" THEN {} ELSE owed
      BY <2>7 DEF GiveUp
    <3>2. TypeOK'
      BY <2>1, <2>3, <2>3a, <3>1 DEF IInv, TypeOK
    <3>3. OwedInv'
      <4> SUFFICES ASSUME NEW r \in owed' PROVE Settled(r)' \/ PassToCome(r)'
        BY DEF OwedInv
      <4>1. r \in owed /\ pass'["loop"] = pass["loop"]
        BY <2>2, <3>1 DEF Thread
      <4>2. QED BY <2>1, <2>5, <3>1, <4>1 DEF IInv, OwedInv, Settled, PassToCome
    <3>4. QED BY <2>4, <2>5, <3>1, <3>2, <3>3 DEF IInv, PrintsTrue
  <2>8. QED BY <1>3, <2>6, <2>7 DEF RefusePass, FailPass
<1>4. QED BY <1>1, <1>2, <1>3 DEF Pass

\* A restart forgets the threads and their slot.
LEMMA RestartKeeps == IInv /\ Restart => IInv'
<1> SUFFICES ASSUME IInv, Restart PROVE IInv'
  OBVIOUS
<1>1. /\ flags' = [running |-> FALSE, pending |-> FALSE] /\ owed' = {}
      /\ pass' = [t \in Thread |-> Off] /\ writer' = [w \in Writer |-> "idle"]
      /\ UNCHANGED <<rows, file>> /\ foreign' \in BOOLEAN /\ timer' \in BOOLEAN
  BY DEF Restart
<1>2. count' \in [writes: 0..MaxWrites, faults: 0..MaxFaults]
  BY LearningIndexAssumption DEF Restart, IInv, TypeOK
<1>3. TypeOK'
  BY <1>1, <1>2 DEF IInv, TypeOK, Off, Content
<1>4. \A t \in Thread : pass'[t].pc = "off"
  BY <1>1 DEF Off
<1>5. SlotHeld' /\ OneClaim'
  BY <1>1, <1>4 DEF SlotHeld, OneClaim, Thread
<1>6. QED BY <1>1, <1>3, <1>4, <1>5 DEF IInv, PrintsTrue, OnePass, OwedInv, Thread

LEMMA StepKeeps == IInv /\ [Next]_vars => IInv'
<1> SUFFICES ASSUME IInv, [Next]_vars PROVE IInv'
  OBVIOUS
<1>1. CASE UNCHANGED vars
  BY <1>1 DEF vars, IInv, TypeOK, PrintsTrue, SlotHeld, OneClaim, OnePass, OwedInv,
              Settled, PassToCome
<1>2. QED BY <1>1, WriteKeeps, WorkerKeeps, PassKeeps, RestartKeeps DEF Next

\* The invariant of the worker and of the index.
THEOREM Inductive == Spec => []IInv
BY InitIInv, StepKeeps, PTL DEF Spec

\* A request to index what was committed is served by the index or by a pass to
\* come, however requests, passes and repairs interleave (_CoalescingWorker).
THEOREM RequestsServed == Spec => []NoRequestLost
<1>1. IInv => NoRequestLost
  BY DEF IInv, OwedInv, Settled, NoRequestLost
<1>2. QED BY <1>1, Inductive, PTL
=============================================================================
