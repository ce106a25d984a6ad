---------------------------- MODULE SyncRunsProofs ----------------------------
(***************************************************************************)
(* Proofs about SyncRuns, for any inquiries, processes and bounds.         *)
(*                                                                         *)
(* IInv is inductive as it stands: a run takes the lock when it begins and *)
(* gives it back as it stops collecting, and the lock of a run that died   *)
(* belongs to nobody until its time has passed. For MarkedHonestly the     *)
(* counts of an inquiry, those made and those a run still owes it (Owing), *)
(* are paid for by the disappearances of others (CountInv).                *)
(***************************************************************************)
EXTENDS SyncRuns, FiniteSetTheorems, TLAPS

Pc == {"idle", "page", "track", "release", "observe", "clear", "count", "mark",
       "finish"}
Run == [pc: Pc, page: Nat, window: SUBSET Inquiry, last: Inquiry \cup {None},
        seen: SUBSET Inquiry, clear: SUBSET Inquiry, missing: SUBSET Inquiry,
        failed: BOOLEAN]
Row == [stored: BOOLEAN, tracked: BOOLEAN, streak: 0..Threshold, deleted: BOOLEAN]
Holds == \A r \in Collecting : lock = r

\* The types of the variables no step of a run touches, and of the others.
TypeRest ==
  /\ market \in [Inquiry -> {"unasked", "listed", "gone"}]
  /\ wasGone \subseteq Inquiry /\ gone \in Nat
  /\ lock \in Process \cup {None, Dead} /\ lease \in Process \cup {None}
  /\ due \in BOOLEAN
  /\ sched \in [Process -> {"down", "timer", "busy"}]
  /\ fails \in Nat /\ crashes \in Nat

LEMMA Parts == TypeOK <=> /\ TypeRest /\ row \in [Inquiry -> Row]
                          /\ run \in [Process -> Run]
BY DEF TypeOK, TypeRest, Row, Run, Pc

LEMMA NoRunType == NoRun \in Run /\ NoRun.pc = "idle"
BY DEF NoRun, Run, Pc

\* What tracking and clearing make of a row.
LEMMA RowType ==
  ASSUME NEW w \in Row
  PROVE  /\ [w EXCEPT !.streak = 0, !.deleted = FALSE] \in Row
         /\ [w EXCEPT !.tracked = TRUE, !.streak = 0, !.deleted = FALSE] \in Row
<1>1. 0 \in 0..Threshold
  BY SyncAssumption
<1>2. QED BY <1>1, Zenon DEF Row

\* A step that moves one run, and lets it collect only with the lock.
LEMMA RunMoves ==
  ASSUME IInv, NEW r \in Process, NEW new \in Run, run' = [run EXCEPT ![r] = new],
         TypeRest', row' \in [Inquiry -> Row],
         new.pc \in {"page", "track", "release"} => lock' = r,
         \A q \in Process \ {r} : lock = q => lock' = q
  PROVE  IInv'
<1>1. run \in [Process -> Run]
  BY Parts DEF IInv
<1>2. run' \in [Process -> Run] /\ run'[r] = new
      /\ \A q \in Process \ {r} : run'[q] = run[q]
  BY <1>1
<1>3. TypeOK'
  BY <1>2 DEF TypeOK, TypeRest, Row, Run, Pc
<1>4. \A q \in Collecting' : lock' = q
  BY <1>2 DEF IInv, Collecting
<1>5. QED BY <1>3, <1>4 DEF IInv

\* The steps of a run.
LEMMA RunStepKeeps ==
  ASSUME IInv, NEW r \in Process, RunStep(r) \/ PageFails(r)
  PROVE  IInv'
<1>1. /\ run \in [Process -> Run] /\ row \in [Inquiry -> Row] /\ TypeRest
      /\ run[r] \in Run
  BY Parts DEF IInv
<1>2. run[r].pc \in {"page", "track", "release"} => lock = r
  BY DEF IInv, Collecting
<1>3. CASE ReadPage(r)
  <2>1. run[r].pc = "page" /\ lock = r /\ TypeRest'
    BY <1>1, <1>2, <1>3 DEF ReadPage, TypeRest
  <2>2. CASE Goes(r, "release") /\ UNCHANGED row
    <3>1. run' = [run EXCEPT ![r] = [run[r] EXCEPT !.pc = "release"]]
      BY <1>1, <2>2 DEF Goes
    <3>2. [run[r] EXCEPT !.pc = "release"] \in Run
      BY <1>1 DEF Run, Pc
    <3>3. QED BY <1>1, <1>3, <2>1, <2>2, <3>1, <3>2, RunMoves DEF ReadPage
  <2>3. CASE \E i \in OnPage(Listed(r), run[r].page) :
               /\ run' = [run EXCEPT ![r].pc = "release", ![r].failed = TRUE]
               /\ UNCHANGED row
    <3>1. run' = [run EXCEPT ![r] = [run[r] EXCEPT !.pc = "release", !.failed = TRUE]]
      BY <1>1, <2>3
    <3>2. [run[r] EXCEPT !.pc = "release", !.failed = TRUE] \in Run
      BY <1>1 DEF Run, Pc
    <3>3. lock' = lock /\ row' = row
      BY <1>3, <2>3 DEF ReadPage
    <3>4. QED BY <1>1, <2>1, <3>1, <3>2, <3>3, RunMoves
  <2>4. CASE \E i \in OnPage(Listed(r), run[r].page) :
               /\ row' = [row EXCEPT ![i].stored = TRUE]
               /\ run' = [run EXCEPT ![r].seen = @ \cup {i}, ![r].last = i,
                    ![r].page = IF @ >= Cardinality(Listed(r)) THEN 0 ELSE @ + 1,
                    ![r].pc = IF ~row[i].stored THEN "track"
                              ELSE IF run[r].page >= Cardinality(Listed(r))
                                   THEN "release" ELSE "page"]
    <3>1. PICK i \in OnPage(Listed(r), run[r].page) :
               /\ row' = [row EXCEPT ![i].stored = TRUE]
               /\ run' = [run EXCEPT ![r].seen = @ \cup {i}, ![r].last = i,
                    ![r].page = IF @ >= Cardinality(Listed(r)) THEN 0 ELSE @ + 1,
                    ![r].pc = IF ~row[i].stored THEN "track"
                              ELSE IF run[r].page >= Cardinality(Listed(r))
                                   THEN "release" ELSE "page"]
      BY <2>4
    <3>2. i \in Inquiry
      BY <1>1 DEF OnPage, Listed, Run
    <3>3. PICK pc \in {"track", "release", "page"}, page \in Nat :
            run' = [run EXCEPT ![r] = [run[r] EXCEPT !.seen = @ \cup {i}, !.last = i,
                                        !.page = page, !.pc = pc]]
      <4> DEFINE pc == IF ~row[i].stored THEN "track"
                       ELSE IF run[r].page >= Cardinality(Listed(r))
                            THEN "release" ELSE "page"
                 page == IF run[r].page >= Cardinality(Listed(r)) THEN 0
                         ELSE run[r].page + 1
      <4>1. pc \in {"track", "release", "page"} /\ page \in Nat
        BY <1>1 DEF Run
      <4>2. run' = [run EXCEPT ![r] = [run[r] EXCEPT !.seen = @ \cup {i}, !.last = i,
                                        !.page = page, !.pc = pc]]
        BY <1>1, <3>1
      <4> HIDE DEF pc, page
      <4>3. QED BY <4>1, <4>2
    <3>4. [run[r] EXCEPT !.seen = @ \cup {i}, !.last = i, !.page = page, !.pc = pc] \in Run
      BY <1>1, <3>2 DEF Run, Pc
    <3>5. row' \in [Inquiry -> Row]
      BY <1>1, <3>1, <3>2 DEF Row
    <3>6. lock' = lock
      BY <1>3 DEF ReadPage
    <3>7. QED BY <2>1, <3>3, <3>4, <3>5, <3>6, RunMoves
  <2>5. QED BY <1>3, <2>2, <2>3, <2>4 DEF ReadPage
<1>4. CASE PageFails(r)
  <2>1. run' = [run EXCEPT ![r] = [run[r] EXCEPT !.pc = "release", !.failed = TRUE]]
    BY <1>1, <1>4 DEF PageFails
  <2>2. [run[r] EXCEPT !.pc = "release", !.failed = TRUE] \in Run
    BY <1>1 DEF Run, Pc
  <2>3. lock' = lock /\ lock = r /\ row' = row
    BY <1>2, <1>4 DEF PageFails
  <2>4. TypeRest'
    BY <1>1, <1>4 DEF PageFails, TypeRest
  <2>5. QED BY <1>1, <2>1, <2>2, <2>3, <2>4, RunMoves
<1>5. CASE Track(r)
  <2>1. PICK pc \in {"release", "page"} : run' = [run EXCEPT ![r] = [run[r] EXCEPT !.pc = pc]]
    BY <1>1, <1>5 DEF Track, Goes
  <2>2. [run[r] EXCEPT !.pc = pc] \in Run
    BY <1>1 DEF Run, Pc
  <2>3. row' \in [Inquiry -> Row]
    <3> DEFINE new == [row[run[r].last] EXCEPT !.tracked = TRUE, !.streak = 0,
                                              !.deleted = FALSE]
    <3>1. run[r].last \in Inquiry => new \in Row
      BY <1>1, RowType
    <3>2. row' = [row EXCEPT ![run[r].last] = new]
      BY <1>1, <1>5 DEF Track
    <3> HIDE DEF new
    <3>3. QED BY <1>1, <3>1, <3>2
  <2>4. lock' = lock /\ lock = r
    BY <1>2, <1>5 DEF Track
  <2>5. TypeRest'
    BY <1>1, <1>5 DEF Track, TypeRest
  <2>6. QED BY <2>1, <2>2, <2>3, <2>4, <2>5, RunMoves
<1>6. CASE Release(r)
  <2>1. PICK new \in Run : /\ run' = [run EXCEPT ![r] = new]
                           /\ new.pc \in {"observe", "finish"}
    <3> DEFINE on == [run[r] EXCEPT !.pc = "observe", !.page = 1, !.last = None]
               off == [NoRun EXCEPT !.pc = "finish"]
    <3>1. on \in Run /\ on.pc = "observe"
      BY <1>1 DEF Run, Pc
    <3>2. off \in Run /\ off.pc = "finish"
      BY DEF NoRun, Run, Pc
    <3>3. run' = [run EXCEPT ![r] = on] \/ run' = [run EXCEPT ![r] = off]
      BY <1>1, <1>6 DEF Release
    <3> HIDE DEF on, off
    <3>4. QED BY <3>1, <3>2, <3>3
  <2>2. lock = r /\ lock' = None /\ row' = row
    BY <1>2, <1>6 DEF Release
  <2>3. TypeRest'
    BY <1>1, <1>6, <2>2 DEF Release, TypeRest
  <2>4. QED BY <1>1, <2>1, <2>2, <2>3, RunMoves
<1>7. CASE Observe(r)
  <2> DEFINE candidates == {i \in run[r].window : row[i].tracked}
             new == [NoRun EXCEPT !.pc = "clear",
                      !.clear = {i \in candidates \cap run[r].seen :
                                   row[i].streak > 0 \/ row[i].deleted},
                      !.missing = candidates \ run[r].seen]
  <2>1. run' = [run EXCEPT ![r] = new]
    BY <1>7 DEF Observe
  <2>2. new \in Run /\ new.pc = "clear"
    BY <1>1 DEF NoRun, Run, Pc
  <2>3. lock' = lock /\ row' = row /\ TypeRest'
    BY <1>1, <1>7 DEF Observe, TypeRest
  <2> HIDE DEF new
  <2>4. QED BY <1>1, <2>1, <2>2, <2>3, RunMoves
<1>8. CASE ClearSeen(r)
  <2>1. run' = [run EXCEPT ![r] = [run[r] EXCEPT !.pc = "count", !.clear = {}]]
    BY <1>1, <1>8 DEF ClearSeen
  <2>2. [run[r] EXCEPT !.pc = "count", !.clear = {}] \in Run
    BY <1>1 DEF Run, Pc
  <2>3. row' \in [Inquiry -> Row]
    <3>1. \A i \in Inquiry : [row[i] EXCEPT !.streak = 0, !.deleted = FALSE] \in Row
      BY <1>1, RowType
    <3>2. QED BY <1>1, <1>8, <3>1 DEF ClearSeen
  <2>4. lock' = lock /\ TypeRest'
    BY <1>1, <1>8 DEF ClearSeen, TypeRest
  <2>5. QED BY <1>1, <2>1, <2>2, <2>3, <2>4, RunMoves DEF Run
<1>9. CASE CountMissing(r)
  <2> DEFINE counted == [i \in Inquiry |->
               IF i \in run[r].missing /\ row[i].streak < Threshold
               THEN [row[i] EXCEPT !.streak = @ + 1] ELSE row[i]]
             missing == {i \in run[r].missing : counted[i].streak >= Threshold}
  <2>1. row' = counted
    BY <1>9 DEF CountMissing
  <2>2. run' = [run EXCEPT ![r] = [run[r] EXCEPT !.pc = "mark", !.missing = missing]]
    BY <1>1, <1>9 DEF CountMissing
  <2>3. counted \in [Inquiry -> Row]
    <3> SUFFICES ASSUME NEW i \in Inquiry PROVE counted[i] \in Row
      OBVIOUS
    <3>1. row[i] \in Row
      BY <1>1
    <3>2. QED BY <3>1, SyncAssumption DEF Row
  <2>4. missing \subseteq Inquiry
    BY <1>1 DEF Run
  <2> HIDE DEF counted, missing
  <2>5. [run[r] EXCEPT !.pc = "mark", !.missing = missing] \in Run
    BY <1>1, <2>4 DEF Run, Pc
  <2>6. lock' = lock /\ TypeRest'
    BY <1>1, <1>9 DEF CountMissing, TypeRest
  <2>7. QED BY <1>1, <2>1, <2>2, <2>3, <2>5, <2>6, RunMoves DEF Run
<1>10. CASE MarkDeleted(r)
  <2>1. run' = [run EXCEPT ![r] = [NoRun EXCEPT !.pc = "finish"]]
    BY <1>10 DEF MarkDeleted
  <2>2. [NoRun EXCEPT !.pc = "finish"] \in Run /\ [NoRun EXCEPT !.pc = "finish"].pc = "finish"
    BY DEF NoRun, Run, Pc
  <2>3. row' \in [Inquiry -> Row]
    BY <1>1, <1>10 DEF MarkDeleted, Row
  <2>4. lock' = lock /\ TypeRest'
    BY <1>1, <1>10 DEF MarkDeleted, TypeRest
  <2>5. QED BY <2>1, <2>2, <2>3, <2>4, RunMoves
<1>11. QED BY <1>3, <1>4, <1>5, <1>6, <1>7, <1>8, <1>9, <1>10 DEF RunStep

\* A run that begins finds the lock free.
LEMMA BeginKeeps ==
  ASSUME IInv, NEW p \in Process, TickRuns(p) \/ BeginCall(p)
  PROVE  IInv'
<1>1. /\ run \in [Process -> Run] /\ row \in [Inquiry -> Row] /\ TypeRest
  BY Parts DEF IInv
<1> DEFINE new == [NoRun EXCEPT !.pc = "page",
                     !.window = {i \in Inquiry : market[i] # "unasked"}]
<1>2. run' = [run EXCEPT ![p] = new]
  BY DEF TickRuns, BeginCall, BeginRun
<1>3. new \in Run
  BY DEF NoRun, Run, Pc
<1>4. lock = None /\ lock' = p /\ row' = row
  BY DEF TickRuns, BeginCall
<1>5. TypeRest'
  BY <1>1, <1>4 DEF TypeRest, TickRuns, BeginCall
<1> HIDE DEF new
<1>6. QED BY <1>1, <1>2, <1>3, <1>4, <1>5, SyncAssumption, RunMoves

\* A run that ends, or dies with its process.
LEMMA EndKeeps ==
  ASSUME IInv, NEW p \in Process, FinishTick(p) \/ FinishCall(p) \/ Crash(p)
  PROVE  IInv'
<1>1. /\ run \in [Process -> Run] /\ row \in [Inquiry -> Row] /\ TypeRest
  BY Parts DEF IInv
<1>2. run' = [run EXCEPT ![p] = NoRun] /\ row' = row
  BY DEF FinishTick, FinishCall, Crash
<1>3. \A q \in Process \ {p} : lock = q => lock' = q
  BY DEF FinishTick, FinishCall, Crash
<1>4. TypeRest'
  <2>1. due' \in BOOLEAN
    BY <1>1, Zenon DEF TypeRest, FinishTick, FinishCall, Crash
  <2>2. /\ lock' \in Process \cup {None, Dead} /\ lease' = lease
        /\ UNCHANGED <<market, wasGone, gone, fails>>
    BY <1>1 DEF TypeRest, FinishTick, FinishCall, Crash
  <2>3. sched' \in [Process -> {"down", "timer", "busy"}] /\ crashes' \in Nat
    BY <1>1 DEF TypeRest, FinishTick, FinishCall, Crash
  <2>4. QED BY <1>1, <2>1, <2>2, <2>3 DEF TypeRest
<1>5. QED BY <1>1, <1>2, <1>3, <1>4, NoRunType, RunMoves

\* Every step preserves the invariant.
LEMMA StepKeeps == IInv /\ [Next]_vars => IInv'
<1> SUFFICES ASSUME IInv, [Next]_vars PROVE IInv'
  OBVIOUS
<1>1. /\ run \in [Process -> Run] /\ row \in [Inquiry -> Row] /\ TypeRest
  BY Parts DEF IInv
<1>2. ASSUME UNCHANGED <<row, run>>, TypeRest',
             lock' = lock \/ lock = Dead
      PROVE  IInv'
  <2>1. TypeOK'
    BY <1>1, <1>2 DEF TypeOK, TypeRest, Row, Run, Pc
  <2>2. Collecting' = Collecting /\ \A r \in Collecting : r # Dead
    BY <1>2, SyncAssumption DEF Collecting
  <2>3. QED BY <1>2, <2>1, <2>2 DEF IInv
<1>3. CASE \E i \in Inquiry : Asked(i) \/ Disappears(i) \/ Returns(i)
  <2>1. TypeRest'
    BY <1>1, <1>3 DEF TypeRest, Asked, Disappears, Returns
  <2>2. UNCHANGED <<row, run, lock>>
    BY <1>3 DEF Asked, Disappears, Returns
  <2>3. QED BY <1>2, <2>1, <2>2
<1>4. CASE \E r \in Process : RunStep(r) \/ PageFails(r)
  BY <1>4, RunStepKeeps
<1>5. CASE \E p \in Process : Launch(p) \/ TickIdle(p) \/ TickSkips(p)
  <2>1. TypeRest'
    BY <1>1, <1>5 DEF TypeRest, Launch, TickIdle, TickSkips
  <2>2. UNCHANGED <<row, run, lock>>
    BY <1>5 DEF Launch, TickIdle, TickSkips
  <2>3. QED BY <1>2, <2>1, <2>2
<1>6. CASE \E p \in Process : TickRuns(p) \/ BeginCall(p)
  BY <1>6, BeginKeeps
<1>7. CASE \E p \in Process : FinishTick(p) \/ FinishCall(p) \/ Crash(p)
  BY <1>7, EndKeeps
<1>8. CASE DueComes \/ LeaseExpires \/ LockExpires
  <2>1. TypeRest'
    BY <1>1, <1>8 DEF TypeRest, DueComes, LeaseExpires, LockExpires
  <2>2. UNCHANGED <<row, run>> /\ (lock' = lock \/ lock = Dead)
    BY <1>8 DEF DueComes, LeaseExpires, LockExpires
  <2>3. QED BY <1>2, <2>1, <2>2
<1>9. CASE UNCHANGED vars
  BY <1>1, <1>2, <1>9 DEF vars, TypeRest
<1>10. QED BY <1>3, <1>4, <1>5, <1>6, <1>7, <1>8, <1>9 DEF Next, Tick

\* The initial states.
LEMMA InitIInv == Init => IInv
<1> SUFFICES ASSUME Init PROVE IInv
  OBVIOUS
<1>1. TypeRest
  BY DEF Init, TypeRest
<1>2. row \in [Inquiry -> Row] /\ run \in [Process -> Run]
  BY NoRunType, SyncAssumption DEF Init, Row
<1>3. Collecting = {}
  BY NoRunType DEF Init, Collecting
<1>4. QED BY <1>1, <1>2, <1>3, Parts DEF IInv

\* Whoever collects holds the store's lock: so that one run collects at a time,
\* scheduled, manual or confirming, in whatever process (NaverSyncRepository.
\* acquire_lock, release_locks).
THEOREM Inductive == Spec => []IInv
BY InitIInv, StepKeeps, PTL DEF Spec

THEOREM OneCollects == Spec => [](\A q, r \in Collecting : q = r)
<1>1. IInv => \A q, r \in Collecting : q = r
  BY DEF IInv
<1>2. QED BY <1>1, Inductive, PTL
-----------------------------------------------------------------------------
(* Places in a list.                                                       *)

UpTo(S, i) == {j \in S : j <= i}
Rank(S, i) == Cardinality(UpTo(S, i))

LEMMA RankType ==
  ASSUME NEW S \in SUBSET Nat, IsFiniteSet(S), NEW i
  PROVE  /\ IsFiniteSet(UpTo(S, i)) /\ Cardinality(S) \in Nat
         /\ Rank(S, i) \in Nat /\ Rank(S, i) <= Cardinality(S)
         /\ i \in S => Rank(S, i) >= 1
<1>1. UpTo(S, i) \in SUBSET S
  BY DEF UpTo
<1>2. IsFiniteSet(UpTo(S, i)) /\ Rank(S, i) <= Cardinality(S)
  BY <1>1, FS_Subset DEF Rank
<1>3. Cardinality(S) \in Nat /\ Rank(S, i) \in Nat
  BY <1>2, FS_CardinalityType DEF Rank
<1>4. ASSUME i \in S PROVE Rank(S, i) # 0
  <2>1. i \in UpTo(S, i)
    BY <1>4 DEF UpTo
  <2>2. QED BY <1>2, <2>1, FS_EmptySet DEF Rank
<1>5. QED BY <1>2, <1>3, <1>4

\* A longer list does not bring anyone forward.
LEMMA RankGrows ==
  ASSUME NEW T \in SUBSET Nat, IsFiniteSet(T), NEW S \in SUBSET T, NEW i
  PROVE  Rank(S, i) <= Rank(T, i)
<1>1. UpTo(S, i) \in SUBSET UpTo(T, i)
  BY DEF UpTo
<1>2. IsFiniteSet(UpTo(T, i))
  BY RankType
<1>3. QED BY <1>1, <1>2, FS_Subset DEF Rank

\* Two inquiries have different places.
LEMMA RankDiffers ==
  ASSUME NEW S \in SUBSET Nat, IsFiniteSet(S), NEW i \in S, NEW j \in S,
         Rank(S, i) = Rank(S, j)
  PROVE  i = j
<1>1. ASSUME NEW k \in S, NEW l \in S, k < l, Rank(S, k) = Rank(S, l)
      PROVE  FALSE
  <2>1. k \in Nat /\ l \in Nat
    OBVIOUS
  <2>2. UpTo(S, k) \in SUBSET UpTo(S, l) /\ l \in UpTo(S, l) /\ l \notin UpTo(S, k)
    <3>1. \A n \in S : n \in Nat /\ (n <= k => n <= l)
      BY <1>1, <2>1
    <3>2. l <= l /\ ~(l <= k)
      BY <1>1, <2>1
    <3>3. QED BY <3>1, <3>2, Zenon DEF UpTo
  <2>3. IsFiniteSet(UpTo(S, l))
    BY RankType
  <2>4. UpTo(S, l) = UpTo(S, k)
    BY <1>1, <2>2, <2>3, FS_Subset DEF Rank
  <2>5. QED BY <2>2, <2>4
<1>2. i \in Nat /\ j \in Nat
  OBVIOUS
<1>3. QED BY <1>1, <1>2

\* Every place up to the length of the list is someone's.
LEMMA RankReaches ==
  ASSUME NEW S \in SUBSET Nat, IsFiniteSet(S), NEW k \in 1..Cardinality(S)
  PROVE  \E i \in S : Rank(S, i) = k
<1> DEFINE f == [i \in S |-> Rank(S, i)]
           T == 1..Cardinality(S)
<1>1. \A i \in S : Rank(S, i) \in T
  BY RankType
<1>2. f \in Injection(S, T)
  <2>1. f \in [S -> T]
    BY <1>1
  <2>2. \A i, j \in S : f[i] = f[j] => i = j
    BY RankDiffers
  <2>3. QED BY <2>1, <2>2 DEF Injection, IsInjective
<1>3. Cardinality(S) \in Nat
  BY FS_CardinalityType
<1>4. IsFiniteSet(T) /\ Cardinality(T) = Cardinality(S)
  <2>1. Cardinality(T) = IF 1 > Cardinality(S) THEN 0 ELSE Cardinality(S) - 1 + 1
    BY <1>3, FS_Interval
  <2>2. QED BY <1>3, <2>1, FS_Interval
<1> HIDE DEF T
<1>5. f \in Surjection(S, T)
  <2> HIDE DEF f
  <2>1. QED BY <1>2, <1>4, FS_Injection
<1>6. k \in T
  BY DEF T
<1>7. PICK i \in S : f[i] = k
  BY <1>5, <1>6 DEF Surjection
<1>8. QED BY <1>7
-----------------------------------------------------------------------------
(* What a run may yet hold against an inquiry that has always been listed. *)

Place(r, i) == Rank(Listed(r), i)
Unseen(r) == run[r].window \ run[r].seen

\* The run will count i as missing unless it dies or fails: it has passed i's
\* place without having read it.
Owes(r, i) ==
  \/ /\ run[r].pc \in {"page", "track"} /\ i \in Unseen(r)
     /\ run[r].page = 0 \/ Place(r, i) < run[r].page
  \/ run[r].pc = "release" /\ ~run[r].failed /\ i \in Unseen(r)
  \/ run[r].pc = "observe" /\ i \in Unseen(r)
  \/ run[r].pc \in {"clear", "count"} /\ i \in run[r].missing
Owing(i) == {r \in Process : Owes(r, i)}

\* Each count, made or to come, is paid for by a disappearance of another.
Counted ==
  \A i \in Inquiry \ wasGone :
    /\ row[i].streak + Cardinality(Owing(i)) <= gone
    /\ row[i].deleted => gone >= Threshold
    /\ \A r \in Process : run[r].pc = "mark" /\ i \in run[r].missing => gone >= Threshold
Kept ==
  /\ \A i \in Inquiry \ wasGone : market[i] # "gone"
  /\ \A r \in Process :
       /\ \A i \in run[r].window : market[i] # "unasked"
       /\ run[r].pc = "page" => run[r].page > 0
       /\ run[r].pc \in {"page", "track"} => ~run[r].failed

CountInv == IInv /\ Kept /\ Counted

LEMMA OwingType ==
  ASSUME NEW i
  PROVE  /\ IsFiniteSet(Owing(i)) /\ Cardinality(Owing(i)) \in Nat
         /\ IsFiniteSet(Owing(i)') /\ Cardinality(Owing(i)') \in Nat
<1>1. Owing(i) \in SUBSET Process /\ Owing(i)' \in SUBSET Process /\ IsFiniteSet(Process)
  BY SyncAssumption DEF Owing
<1>2. IsFiniteSet(Owing(i)) /\ IsFiniteSet(Owing(i)')
  BY <1>1, FS_Subset
<1>3. QED BY <1>2, FS_CardinalityType

\* The list a run reads is finite, and holds what has always been listed.
LEMMA ListType ==
  ASSUME CountInv, NEW r \in Process
  PROVE  /\ Listed(r) \in SUBSET Nat /\ IsFiniteSet(Listed(r))
         /\ \A i \in run[r].window \ wasGone : i \in Listed(r)
         /\ Listed(r) \subseteq Inquiry /\ run[r] \in Run
<1>1. run[r] \in Run /\ market \in [Inquiry -> {"unasked", "listed", "gone"}]
  BY Parts DEF CountInv, IInv, TypeRest
<1>2. run[r].window \subseteq Inquiry /\ Listed(r) \in SUBSET Inquiry
  BY <1>1 DEF Run, Listed
<1>3. Listed(r) \in SUBSET Nat /\ IsFiniteSet(Listed(r))
  BY <1>2, SyncAssumption, FS_Subset
<1>4. \A i \in run[r].window \ wasGone : i \in Listed(r)
  BY <1>1, <1>2 DEF CountInv, Kept, Listed
<1>5. QED BY <1>1, <1>2, <1>3, <1>4

\* A step of one run that takes on no charge and counts nothing.
LEMMA NoCharge ==
  ASSUME CountInv, IInv', NEW r \in Process, \A q \in Process \ {r} : run'[q] = run[q],
         UNCHANGED <<market, wasGone, gone>>,
         \A i \in Inquiry \ wasGone :
           /\ Owes(r, i)' => Owes(r, i)
           /\ row'[i].streak <= row[i].streak
           /\ row'[i].deleted => row[i].deleted \/ gone >= Threshold,
         run'[r].pc # "mark"
  PROVE  Counted'
<1> SUFFICES ASSUME NEW i \in Inquiry \ wasGone
             PROVE  /\ row'[i].streak + Cardinality(Owing(i)') <= gone
                    /\ row'[i].deleted => gone >= Threshold
                    /\ \A q \in Process : run'[q].pc = "mark" /\ i \in run'[q].missing
                                            => gone >= Threshold
  BY DEF Counted
<1>1. \A q \in Process \ {r} : Owes(q, i)' => Owes(q, i)
  BY DEF Owes, Unseen, Place, Listed
<1>2. Owing(i)' \in SUBSET Owing(i)
  BY <1>1 DEF Owing
<1>3. Cardinality(Owing(i)') <= Cardinality(Owing(i))
  BY <1>2, OwingType, FS_Subset
<1>4. row[i] \in Row /\ row'[i] \in Row /\ gone \in Nat
  BY Parts DEF CountInv, IInv, TypeOK, Row, TypeRest
<1>5. row'[i].streak + Cardinality(Owing(i)') <= gone
  BY <1>3, <1>4, OwingType DEF CountInv, Counted, Row
<1>6. QED BY <1>5 DEF CountInv, Counted
\* What reading a page does to the run.
LEMMA ReadMoves ==
  ASSUME CountInv, NEW r \in Process, ReadPage(r)
  PROVE  /\ \A q \in Process \ {r} : run'[q] = run[q]
         /\ run'[r].window = run[r].window
         /\ \/ /\ OnPage(Listed(r), run[r].page) = {} /\ row' = row
               /\ run'[r].pc = "release" /\ run'[r].seen = run[r].seen
            \/ run'[r].pc = "release" /\ run'[r].failed /\ row' = row
            \/ \E i \in OnPage(Listed(r), run[r].page) :
                 /\ row' = [row EXCEPT ![i].stored = TRUE]
                 /\ run'[r].seen = run[r].seen \cup {i}
                 /\ ~run'[r].failed
                 /\ \/ /\ run[r].page >= Cardinality(Listed(r))
                       /\ run'[r].page = 0 /\ run'[r].pc \in {"track", "release"}
                    \/ /\ ~(run[r].page >= Cardinality(Listed(r)))
                       /\ run'[r].page = run[r].page + 1 /\ run'[r].pc \in {"track", "page"}
<1>1. /\ run \in [Process -> Run] /\ run[r] \in Run /\ row \in [Inquiry -> Row]
      /\ run[r].pc = "page" /\ ~run[r].failed
  BY Parts DEF CountInv, IInv, Kept, ReadPage
<1>2. CASE OnPage(Listed(r), run[r].page) = {}
  <2>1. run' = [run EXCEPT ![r] = [run[r] EXCEPT !.pc = "release"]] /\ row' = row
    BY <1>1, <1>2 DEF ReadPage, Goes
  <2>2. run'[r] = [run[r] EXCEPT !.pc = "release"] /\ \A q \in Process \ {r} : run'[q] = run[q]
    BY <1>1, <2>1
  <2>3. run'[r].window = run[r].window /\ run'[r].pc = "release" /\ run'[r].seen = run[r].seen
    BY <1>1, <2>2 DEF Run
  <2>4. QED BY <1>2, <2>1, <2>2, <2>3
<1>3. ASSUME NEW i \in OnPage(Listed(r), run[r].page), i = run[r].last,
             /\ run' = [run EXCEPT ![r].pc = "release", ![r].failed = TRUE]
             /\ UNCHANGED row
      PROVE  /\ \A q \in Process \ {r} : run'[q] = run[q]
             /\ run'[r].window = run[r].window
             /\ run'[r].pc = "release" /\ run'[r].failed /\ row' = row
  <2>1. run' = [run EXCEPT ![r] = [run[r] EXCEPT !.pc = "release", !.failed = TRUE]]
    BY <1>1, <1>3
  <2>2. /\ run'[r] = [run[r] EXCEPT !.pc = "release", !.failed = TRUE]
        /\ \A q \in Process \ {r} : run'[q] = run[q]
    BY <1>1, <2>1
  <2>3. /\ run'[r].window = run[r].window /\ run'[r].pc = "release"
        /\ run'[r].failed = TRUE
    BY <1>1, <2>2 DEF Run
  <2>4. QED BY <1>3, <2>2, <2>3
<1>4. ASSUME NEW i \in OnPage(Listed(r), run[r].page),
             run' = [run EXCEPT ![r].seen = @ \cup {i}, ![r].last = i,
                    ![r].page = IF @ >= Cardinality(Listed(r)) THEN 0 ELSE @ + 1,
                    ![r].pc = IF ~row[i].stored THEN "track"
                              ELSE IF run[r].page >= Cardinality(Listed(r))
                                   THEN "release" ELSE "page"]
      PROVE  /\ \A q \in Process \ {r} : run'[q] = run[q]
             /\ run'[r].window = run[r].window
             /\ run'[r].seen = run[r].seen \cup {i}
             /\ ~run'[r].failed
             /\ \/ /\ run[r].page >= Cardinality(Listed(r))
                   /\ run'[r].page = 0 /\ run'[r].pc \in {"track", "release"}
                \/ /\ ~(run[r].page >= Cardinality(Listed(r)))
                   /\ run'[r].page = run[r].page + 1 /\ run'[r].pc \in {"track", "page"}
  <2> DEFINE pc == IF ~row[i].stored THEN "track"
                   ELSE IF run[r].page >= Cardinality(Listed(r)) THEN "release" ELSE "page"
             page == IF run[r].page >= Cardinality(Listed(r)) THEN 0 ELSE run[r].page + 1
  <2>1. run' = [run EXCEPT ![r] = [run[r] EXCEPT !.seen = @ \cup {i}, !.last = i,
                                      !.page = page, !.pc = pc]]
    BY <1>1, <1>4
  <2>2. \/ /\ run[r].page >= Cardinality(Listed(r))
           /\ page = 0 /\ pc \in {"track", "release"}
        \/ /\ ~(run[r].page >= Cardinality(Listed(r)))
           /\ page = run[r].page + 1 /\ pc \in {"track", "page"}
    OBVIOUS
  <2> HIDE DEF pc, page
  <2>3. /\ run'[r] = [run[r] EXCEPT !.seen = @ \cup {i}, !.last = i, !.page = page, !.pc = pc]
        /\ \A q \in Process \ {r} : run'[q] = run[q]
    BY <1>1, <2>1
  <2>4. /\ run'[r].window = run[r].window /\ run'[r].failed = run[r].failed
        /\ run'[r].seen = run[r].seen \cup {i} /\ run'[r].page = page /\ run'[r].pc = pc
    BY <1>1, <2>3 DEF Run
  <2>5. QED BY <1>1, <2>2, <2>3, <2>4
<1>5. CASE OnPage(Listed(r), run[r].page) # {}
  <2>1. PICK i \in OnPage(Listed(r), run[r].page) :
          IF i = run[r].last
          THEN /\ run' = [run EXCEPT ![r].pc = "release", ![r].failed = TRUE]
               /\ UNCHANGED row
          ELSE /\ row' = [row EXCEPT ![i].stored = TRUE]
               /\ run' = [run EXCEPT ![r].seen = @ \cup {i}, ![r].last = i,
                    ![r].page = IF @ >= Cardinality(Listed(r)) THEN 0 ELSE @ + 1,
                    ![r].pc = IF ~row[i].stored THEN "track"
                              ELSE IF run[r].page >= Cardinality(Listed(r))
                                   THEN "release" ELSE "page"]
    BY <1>5 DEF ReadPage
  <2>2. QED BY <1>3, <1>4, <2>1
<1>6. QED BY <1>2, <1>5

LEMMA ReadCharges ==
  ASSUME CountInv, IInv', NEW r \in Process, ReadPage(r)
  PROVE  Counted'
<1> DEFINE S == Listed(r)
           page == run[r].page
<1>0. /\ S \in SUBSET Nat /\ IsFiniteSet(S)
      /\ \A i \in run[r].window \ wasGone : i \in S
      /\ S \subseteq Inquiry /\ run[r].pc = "page" /\ page > 0 /\ page \in Nat
  BY ListType DEF CountInv, Kept, ReadPage, Run
<1>1. /\ \A q \in Process \ {r} : run'[q] = run[q]
      /\ run'[r].window = run[r].window /\ UNCHANGED <<market, wasGone, gone>>
  BY ReadMoves DEF ReadPage
<1>2. Listed(r)' = S
  BY <1>1 DEF Listed
<1>3. row \in [Inquiry -> Row]
  BY Parts DEF CountInv, IInv
<1>4. Cardinality(S) \in Nat
  BY <1>0, FS_CardinalityType
<1>5. \A i : i \in S => Rank(S, i) \in Nat /\ Rank(S, i) <= Cardinality(S)
  BY <1>0, RankType
<1>6. \A i \in S : i \in OnPage(S, page) <=> Rank(S, i) = page
  BY DEF OnPage, Rank, UpTo
<1>7. CASE /\ OnPage(S, page) = {} /\ row' = row
           /\ run'[r].pc = "release" /\ run'[r].seen = run[r].seen
  <2>1. page > Cardinality(S)
    <3>1. ASSUME page <= Cardinality(S) PROVE FALSE
      <4>1. page \in 1..Cardinality(S)
        BY <1>0, <1>4, <3>1
      <4>2. PICK i \in S : Rank(S, i) = page
        BY <1>0, <4>1, RankReaches
      <4>3. QED BY <1>6, <1>7, <4>2
    <3>2. QED BY <1>0, <1>4, <3>1
  <2>2. ASSUME NEW i \in Inquiry \ wasGone, Owes(r, i)' PROVE Owes(r, i)
    <3>1. i \in Unseen(r)
      BY <1>1, <1>7, <2>2 DEF Owes, Unseen
    <3>2. Rank(S, i) < page
      BY <1>0, <1>4, <1>5, <2>1, <3>1 DEF Unseen
    <3>3. QED BY <1>0, <3>1, <3>2 DEF Owes, Place
  <2>3. \A i \in Inquiry : row'[i].streak <= row[i].streak
    BY <1>3, <1>7 DEF Row
  <2>4. QED BY <1>1, <1>7, <2>2, <2>3, NoCharge
<1>8. CASE run'[r].pc = "release" /\ run'[r].failed /\ row' = row
  <2>1. \A i \in Inquiry : ~Owes(r, i)'
    BY <1>8 DEF Owes
  <2>2. \A i \in Inquiry : row'[i].streak <= row[i].streak
    BY <1>3, <1>8 DEF Row
  <2>3. QED BY <1>1, <1>8, <2>1, <2>2, NoCharge
<1>9. ASSUME NEW n \in OnPage(S, page),
             /\ row' = [row EXCEPT ![n].stored = TRUE]
             /\ run'[r].seen = run[r].seen \cup {n}
             /\ ~run'[r].failed
             /\ \/ /\ page >= Cardinality(S)
                   /\ run'[r].page = 0 /\ run'[r].pc \in {"track", "release"}
                \/ /\ ~(page >= Cardinality(S))
                   /\ run'[r].page = page + 1 /\ run'[r].pc \in {"track", "page"}
      PROVE  Counted'
  <2>1. n \in S /\ Rank(S, n) = page
    BY <1>6 DEF OnPage
  <2>2. ASSUME NEW i \in Inquiry \ wasGone, Owes(r, i)' PROVE Owes(r, i)
    <3>1. i \in Unseen(r) /\ i # n
      BY <1>1, <1>9, <2>2 DEF Owes, Unseen
    <3>2. i \in S /\ Rank(S, i) # page
      BY <1>0, <2>1, <3>1, RankDiffers DEF Unseen
    <3>3. Rank(S, i) <= page
      <4>1. CASE page >= Cardinality(S)
        BY <1>0, <1>4, <1>5, <3>2, <4>1
      <4>2. CASE ~(page >= Cardinality(S))
        <5>1. run'[r].page = page + 1 /\ run'[r].pc \in {"track", "page"}
          BY <1>9, <4>2
        <5>2. run'[r].page = 0 \/ Place(r, i)' < run'[r].page
          BY <2>2, <5>1 DEF Owes
        <5>3. Place(r, i)' = Rank(S, i)
          BY <1>2 DEF Place, Rank, UpTo
        <5>4. QED BY <1>0, <1>5, <3>2, <5>1, <5>2, <5>3
      <4>3. QED BY <4>1, <4>2
    <3>4. Rank(S, i) < page
      BY <1>0, <1>5, <3>2, <3>3
    <3>5. QED BY <1>0, <3>1, <3>4 DEF Owes, Place
  <2>3. \A i \in Inquiry : row'[i].streak = row[i].streak /\ row'[i].deleted = row[i].deleted
    BY <1>3, <1>9, <1>0, <2>1 DEF Row
  <2>4. \A i \in Inquiry : row'[i].streak <= row[i].streak
    BY <1>3, <2>3 DEF Row
  <2>5. run'[r].pc # "mark"
    BY <1>9
  <2>6. QED BY <1>1, <2>2, <2>3, <2>4, <2>5, NoCharge
<1>10. QED BY <1>7, <1>8, <1>9, ReadMoves
LEMMA KeptByRun ==
  ASSUME CountInv, NEW r \in Process, \A q \in Process \ {r} : run'[q] = run[q],
         UNCHANGED <<market, wasGone>>,
         run'[r].window = run[r].window \/ \A i \in run'[r].window : market[i] # "unasked",
         run'[r].pc = "page" => run'[r].page > 0,
         run'[r].pc \in {"page", "track"} => ~run'[r].failed
  PROVE  Kept'
BY DEF CountInv, Kept

\* What the other steps of a run leave of it.
LEMMA OtherMoves ==
  ASSUME CountInv, NEW r \in Process
  PROVE  /\ \A pc \in Pc : Goes(r, pc) =>
              /\ \A q \in Process \ {r} : run'[q] = run[q]
              /\ run'[r].pc = pc /\ run'[r].window = run[r].window
              /\ run'[r].seen = run[r].seen /\ run'[r].page = run[r].page
              /\ run'[r].failed = run[r].failed
         /\ PageFails(r) =>
              /\ \A q \in Process \ {r} : run'[q] = run[q]
              /\ run'[r].pc = "release" /\ run'[r].window = run[r].window
              /\ run'[r].failed
         /\ run' = [run EXCEPT ![r] = NoRun] =>
              /\ \A q \in Process \ {r} : run'[q] = run[q]
              /\ run'[r].pc = "idle" /\ run'[r].window = {}
         /\ run' = [run EXCEPT ![r] = [NoRun EXCEPT !.pc = "finish"]] =>
              /\ \A q \in Process \ {r} : run'[q] = run[q]
              /\ run'[r].pc = "finish" /\ run'[r].window = {}
<1>1. run \in [Process -> Run] /\ run[r] \in Run
  BY Parts DEF CountInv, IInv
<1>2. ASSUME NEW new, run' = [run EXCEPT ![r] = new]
      PROVE  run'[r] = new /\ \A q \in Process \ {r} : run'[q] = run[q]
  BY <1>1, <1>2
<1>3. ASSUME NEW pc \in Pc, Goes(r, pc)
      PROVE  /\ \A q \in Process \ {r} : run'[q] = run[q]
             /\ run'[r].pc = pc /\ run'[r].window = run[r].window
             /\ run'[r].seen = run[r].seen /\ run'[r].page = run[r].page
             /\ run'[r].failed = run[r].failed
  <2>1. run' = [run EXCEPT ![r] = [run[r] EXCEPT !.pc = pc]]
    BY <1>1, <1>3 DEF Goes
  <2>2. run'[r] = [run[r] EXCEPT !.pc = pc] /\ \A q \in Process \ {r} : run'[q] = run[q]
    BY <1>2, <2>1
  <2>3. QED BY <1>1, <2>2 DEF Run
<1>4. ASSUME PageFails(r)
      PROVE  /\ \A q \in Process \ {r} : run'[q] = run[q]
             /\ run'[r].pc = "release" /\ run'[r].window = run[r].window
             /\ run'[r].failed
  <2>1. run' = [run EXCEPT ![r] = [run[r] EXCEPT !.pc = "release", !.failed = TRUE]]
    BY <1>1, <1>4 DEF PageFails
  <2>2. /\ run'[r] = [run[r] EXCEPT !.pc = "release", !.failed = TRUE]
        /\ \A q \in Process \ {r} : run'[q] = run[q]
    BY <1>2, <2>1
  <2>3. run'[r].pc = "release" /\ run'[r].window = run[r].window /\ run'[r].failed = TRUE
    BY <1>1, <2>2 DEF Run
  <2>4. QED BY <2>2, <2>3
<1>5. NoRun.pc = "idle" /\ NoRun.window = {}
  BY DEF NoRun
<1>6. [NoRun EXCEPT !.pc = "finish"].pc = "finish"
        /\ [NoRun EXCEPT !.pc = "finish"].window = {}
  BY DEF NoRun
<1>7. run' = [run EXCEPT ![r] = NoRun] =>
        /\ \A q \in Process \ {r} : run'[q] = run[q]
        /\ run'[r].pc = "idle" /\ run'[r].window = {}
  BY <1>2, <1>5
<1>8. run' = [run EXCEPT ![r] = [NoRun EXCEPT !.pc = "finish"]] =>
        /\ \A q \in Process \ {r} : run'[q] = run[q]
        /\ run'[r].pc = "finish" /\ run'[r].window = {}
  BY <1>2, <1>6
<1>9. QED BY <1>3, <1>4, <1>7, <1>8

\* A run that ends, dies or fails owes nothing any more.
LEMMA EndCharges ==
  ASSUME CountInv, IInv', NEW r \in Process,
         PageFails(r) \/ FinishTick(r) \/ FinishCall(r) \/ Crash(r)
  PROVE  Kept' /\ Counted'
<1>1. UNCHANGED <<market, wasGone, gone, row>> /\ row \in [Inquiry -> Row]
  BY Parts DEF CountInv, IInv, PageFails, FinishTick, FinishCall, Crash
<1>2. /\ \A q \in Process \ {r} : run'[q] = run[q]
      /\ \/ run'[r].pc = "release" /\ run'[r].failed /\ run'[r].window = run[r].window
         \/ run'[r].pc = "idle" /\ run'[r].window = {}
  BY OtherMoves DEF FinishTick, FinishCall, Crash
<1>3. \A i \in Inquiry : ~Owes(r, i)' /\ row'[i].streak <= row[i].streak
  BY <1>1, <1>2 DEF Owes, Row
<1>4. Counted'
  BY <1>1, <1>2, <1>3, NoCharge
<1>5. QED BY <1>1, <1>2, <1>4, KeptByRun

\* A run that begins has no place behind it.
LEMMA BeginCharges ==
  ASSUME CountInv, IInv', NEW r \in Process, TickRuns(r) \/ BeginCall(r)
  PROVE  Kept' /\ Counted'
<1> DEFINE new == [NoRun EXCEPT !.pc = "page",
                     !.window = {i \in Inquiry : market[i] # "unasked"}]
<1>1. /\ UNCHANGED <<market, wasGone, gone, row>> /\ row \in [Inquiry -> Row]
      /\ run' = [run EXCEPT ![r] = new] /\ run \in [Process -> Run]
      /\ market \in [Inquiry -> {"unasked", "listed", "gone"}]
  BY Parts DEF CountInv, IInv, TypeRest, TickRuns, BeginCall, BeginRun
<1>2. /\ new.pc = "page" /\ new.page = 1 /\ new.failed = FALSE /\ new.seen = {}
      /\ new.window = {i \in Inquiry : market[i] # "unasked"}
  BY DEF NoRun
<1> HIDE DEF new
<1>3. run'[r] = new /\ \A q \in Process \ {r} : run'[q] = run[q]
  BY <1>1
<1>4. ASSUME NEW i \in Inquiry \ wasGone, Owes(r, i)' PROVE FALSE
  <2> DEFINE S == Listed(r)'
  <2>1. S \in SUBSET Nat /\ IsFiniteSet(S)
    <3>1. S \in SUBSET Inquiry
      BY <1>2, <1>3 DEF Listed
    <3>2. QED BY <3>1, SyncAssumption, FS_Subset
  <2>2. Place(r, i)' < 1 /\ i \in new.window
    BY <1>2, <1>3, <1>4 DEF Owes, Unseen
  <2>3. i \in S
    BY <1>1, <1>2, <1>3, <2>2 DEF Listed, CountInv, Kept
  <2>4. Place(r, i)' = Rank(S, i)
    BY DEF Place, Rank, UpTo
  <2> HIDE DEF S
  <2>5. Rank(S, i) \in Nat /\ Rank(S, i) >= 1
    BY <2>1, <2>3, RankType
  <2>6. QED BY <2>2, <2>4, <2>5
<1>5. \A i \in Inquiry : row'[i].streak <= row[i].streak
  BY <1>1 DEF Row
<1>6. Counted'
  BY <1>1, <1>2, <1>3, <1>4, <1>5, NoCharge
<1>7. Kept'
  BY <1>1, <1>2, <1>3, KeptByRun
<1>8. QED BY <1>6, <1>7

\* Tracking an inquiry, letting the lock go and clearing streaks charge no one.
LEMMA RunCharges ==
  ASSUME CountInv, IInv', NEW r \in Process,
         Track(r) \/ Release(r) \/ Observe(r) \/ ClearSeen(r)
  PROVE  Kept' /\ Counted'
<1>0. /\ run \in [Process -> Run] /\ run[r] \in Run /\ row \in [Inquiry -> Row]
      /\ UNCHANGED <<market, wasGone, gone>>
  BY Parts DEF CountInv, IInv, Track, Release, Observe, ClearSeen
<1>1. CASE Track(r)
  <2>1. PICK pc \in {"release", "page"} :
          /\ Goes(r, pc) /\ (run[r].page = 0 <=> pc = "release") /\ run[r].pc = "track"
    BY <1>1 DEF Track
  <2>2. pc \in Pc
    BY DEF Pc
  <2>3. /\ \A q \in Process \ {r} : run'[q] = run[q]
        /\ run'[r].pc = pc /\ run'[r].window = run[r].window
        /\ run'[r].seen = run[r].seen /\ run'[r].page = run[r].page
        /\ run'[r].failed = run[r].failed
    BY <2>1, <2>2, OtherMoves
  <2>4. \A i \in Inquiry : Owes(r, i)' => Owes(r, i)
    BY <1>0, <2>1, <2>3 DEF Owes, Unseen, Place, Listed
  <2>5. \A i \in Inquiry : /\ row'[i].streak <= row[i].streak
                           /\ row'[i].deleted => row[i].deleted
    <3> DEFINE new == [row[run[r].last] EXCEPT !.tracked = TRUE, !.streak = 0,
                                              !.deleted = FALSE]
    <3>1. row' = [row EXCEPT ![run[r].last] = new]
      BY <1>0, <1>1 DEF Track
    <3>2. run[r].last \in Inquiry =>
            new.streak = 0 /\ new.deleted = FALSE /\ row[run[r].last].streak >= 0
      BY <1>0 DEF Row
    <3> HIDE DEF new
    <3>3. \A i \in Inquiry : \/ row'[i] = row[i]
                             \/ i = run[r].last /\ row'[i] = new
      BY <1>0, <3>1
    <3>4. \A i \in Inquiry : row[i].streak <= row[i].streak
      BY <1>0 DEF Row
    <3>5. QED BY <3>2, <3>3, <3>4
  <2>6. Counted'
    BY <1>0, <2>1, <2>3, <2>4, <2>5, NoCharge
  <2>7. run'[r].pc = "page" => run'[r].page > 0
    BY <1>0, <2>1, <2>3 DEF Run
  <2>8. ~run'[r].failed
    BY <2>1, <2>3 DEF CountInv, Kept
  <2>9. QED BY <1>0, <2>3, <2>6, <2>7, <2>8, KeptByRun
<1>2. CASE Release(r)
  <2> DEFINE on == [run[r] EXCEPT !.pc = "observe", !.page = 1, !.last = None]
  <2>1. /\ run' = [run EXCEPT ![r] = IF ~run[r].failed /\ run[r].seen # {} THEN on
                                     ELSE [NoRun EXCEPT !.pc = "finish"]]
        /\ row' = row /\ run[r].pc = "release"
    BY <1>0, <1>2 DEF Release
  <2>2. on.pc = "observe" /\ on.window = run[r].window /\ on.seen = run[r].seen
    BY <1>0 DEF Run
  <2> HIDE DEF on
  <2>3. \A i \in Inquiry : row'[i].streak <= row[i].streak
    BY <1>0, <2>1 DEF Row
  <2>4. CASE ~run[r].failed /\ run' = [run EXCEPT ![r] = on]
    <3>1. run'[r] = on /\ \A q \in Process \ {r} : run'[q] = run[q]
      BY <1>0, <2>4
    <3>2. \A i \in Inquiry : Owes(r, i)' => Owes(r, i)
      BY <2>1, <2>2, <2>4, <3>1 DEF Owes, Unseen
    <3>3. QED BY <1>0, <2>1, <2>2, <2>3, <3>1, <3>2, NoCharge, KeptByRun
  <2>5. CASE run' = [run EXCEPT ![r] = [NoRun EXCEPT !.pc = "finish"]]
    <3>1. /\ \A q \in Process \ {r} : run'[q] = run[q]
          /\ run'[r].pc = "finish" /\ run'[r].window = {}
      BY <2>5, OtherMoves
    <3>2. \A i \in Inquiry : ~Owes(r, i)'
      BY <3>1 DEF Owes
    <3>3. QED BY <1>0, <2>1, <2>3, <3>1, <3>2, NoCharge, KeptByRun
  <2>6. QED BY <2>1, <2>4, <2>5
<1>3. CASE Observe(r)
  <2> DEFINE candidates == {i \in run[r].window : row[i].tracked}
             new == [NoRun EXCEPT !.pc = "clear",
                      !.clear = {i \in candidates \cap run[r].seen :
                                   row[i].streak > 0 \/ row[i].deleted},
                      !.missing = candidates \ run[r].seen]
  <2>1. run' = [run EXCEPT ![r] = new] /\ row' = row /\ run[r].pc = "observe"
    BY <1>3 DEF Observe
  <2>2. new.pc = "clear" /\ new.window = {} /\ new.missing \subseteq Unseen(r)
    BY DEF NoRun, Unseen
  <2> HIDE DEF new
  <2>3. run'[r] = new /\ \A q \in Process \ {r} : run'[q] = run[q]
    BY <1>0, <2>1
  <2>4. \A i \in Inquiry : Owes(r, i)' => Owes(r, i)
    BY <2>1, <2>2, <2>3 DEF Owes
  <2>5. \A i \in Inquiry : row'[i].streak <= row[i].streak
    BY <1>0, <2>1 DEF Row
  <2>6. QED BY <1>0, <2>1, <2>2, <2>3, <2>4, <2>5, NoCharge, KeptByRun
<1>4. CASE ClearSeen(r)
  <2>1. run' = [run EXCEPT ![r] = [run[r] EXCEPT !.pc = "count", !.clear = {}]]
        /\ run[r].pc = "clear"
    BY <1>0, <1>4 DEF ClearSeen
  <2>2. /\ run'[r] = [run[r] EXCEPT !.pc = "count", !.clear = {}]
        /\ \A q \in Process \ {r} : run'[q] = run[q]
    BY <1>0, <2>1
  <2>3. run'[r].pc = "count" /\ run'[r].window = run[r].window
        /\ run'[r].missing = run[r].missing
    BY <1>0, <2>2 DEF Run
  <2>4. \A i \in Inquiry : Owes(r, i)' => Owes(r, i)
    BY <2>1, <2>3 DEF Owes
  <2>5. ASSUME NEW i \in Inquiry
        PROVE  /\ row'[i].streak <= row[i].streak
               /\ row'[i].deleted => row[i].deleted
    <3>1. row[i] \in Row
      BY <1>0
    <3>2. [row[i] EXCEPT !.streak = 0, !.deleted = FALSE].streak = 0
          /\ [row[i] EXCEPT !.streak = 0, !.deleted = FALSE].deleted = FALSE
      BY <3>1 DEF Row
    <3>3. row'[i] = row[i] \/ row'[i] = [row[i] EXCEPT !.streak = 0, !.deleted = FALSE]
      BY <1>4 DEF ClearSeen
    <3>4. row[i].streak \in Nat
      BY <3>1 DEF Row
    <3>5. CASE row'[i] = row[i]
      BY <3>4, <3>5
    <3>6. CASE row'[i] = [row[i] EXCEPT !.streak = 0, !.deleted = FALSE]
      <4>1. row'[i].streak = 0 /\ row'[i].deleted = FALSE
        BY <3>2, <3>6, Zenon
      <4>2. QED BY <3>4, <4>1
    <3>7. QED BY <3>3, <3>5, <3>6
  <2>6. QED BY <1>0, <2>1, <2>2, <2>3, <2>4, <2>5, NoCharge, KeptByRun
<1>5. QED BY <1>1, <1>2, <1>3, <1>4
\* A count is the charge that was owed.
LEMMA CountCharges ==
  ASSUME CountInv, IInv', NEW r \in Process, CountMissing(r)
  PROVE  Kept' /\ Counted'
<1> DEFINE counted == [i \in Inquiry |->
             IF i \in run[r].missing /\ row[i].streak < Threshold
             THEN [row[i] EXCEPT !.streak = @ + 1] ELSE row[i]]
           missing == {i \in run[r].missing : counted[i].streak >= Threshold}
<1>0. /\ run \in [Process -> Run] /\ run[r] \in Run /\ row \in [Inquiry -> Row]
      /\ UNCHANGED <<market, wasGone, gone>> /\ run[r].pc = "count" /\ gone \in Nat
      /\ Threshold \in Nat
  BY Parts, SyncAssumption DEF CountInv, IInv, TypeRest, CountMissing
<1>1. /\ run' = [run EXCEPT ![r] = [run[r] EXCEPT !.pc = "mark", !.missing = missing]]
      /\ row' = counted
  BY <1>0 DEF CountMissing
<1>2. /\ run'[r] = [run[r] EXCEPT !.pc = "mark", !.missing = missing]
      /\ \A q \in Process \ {r} : run'[q] = run[q]
  <2> HIDE DEF missing
  <2>1. QED BY <1>0, <1>1
<1>3. /\ run'[r].pc = "mark" /\ run'[r].window = run[r].window
      /\ run'[r].missing = missing
  <2> HIDE DEF missing
  <2>1. QED BY <1>0, <1>2 DEF Run
<1>4. ASSUME NEW i \in Inquiry
      PROVE  /\ row'[i].deleted = row[i].deleted
             /\ row[i].streak \in Nat /\ row'[i].streak \in Nat
             /\ row'[i].streak <= row[i].streak + 1
             /\ i \notin run[r].missing => row'[i].streak = row[i].streak
  <2>1. row[i] \in Row /\ row[i].streak \in Nat
    BY <1>0 DEF Row
  <2>2. row'[i] = row[i] \/ (i \in run[r].missing /\ row'[i] = [row[i] EXCEPT !.streak = @ + 1])
    BY <1>1
  <2>3. CASE row'[i] = row[i]
    BY <2>1, <2>3
  <2>4. CASE i \in run[r].missing /\ row'[i] = [row[i] EXCEPT !.streak = @ + 1]
    BY <2>1, <2>4 DEF Row
  <2>5. QED BY <2>2, <2>3, <2>4
<1>5. Kept'
  BY <1>0, <1>2, <1>3, KeptByRun
<1>6. ASSUME NEW i \in Inquiry \ wasGone
      PROVE  /\ row'[i].streak + Cardinality(Owing(i)') <= gone
             /\ row'[i].deleted => gone >= Threshold
             /\ \A q \in Process : run'[q].pc = "mark" /\ i \in run'[q].missing
                                     => gone >= Threshold
  <2>1. \A q \in Process \ {r} : Owes(q, i)' <=> Owes(q, i)
    BY <1>0, <1>2 DEF Owes, Unseen, Place, Listed
  <2>2. ~Owes(r, i)'
    BY <1>3 DEF Owes
  <2>3. Owing(i)' = Owing(i) \ {r}
    BY <2>1, <2>2 DEF Owing
  <2>4. CASE i \in run[r].missing
    <3>1. r \in Owing(i)
      BY <1>0, <2>4 DEF Owing, Owes
    <3>2. Cardinality(Owing(i) \ {r}) = Cardinality(Owing(i)) - 1
      BY <3>1, OwingType, FS_RemoveElement, Zenon
    <3>3. row[i].streak + Cardinality(Owing(i)) <= gone
      BY DEF CountInv, Counted
    <3>4. row'[i].streak + Cardinality(Owing(i)') <= gone
      BY <1>0, <1>4, <2>3, <3>2, <3>3, OwingType
    <3>5. i \in missing => gone >= Threshold
      <4>1. i \in missing => row'[i].streak >= Threshold
        BY <1>1
      <4>2. QED BY <1>0, <1>4, <3>4, <4>1, OwingType
    <3> HIDE DEF missing
    <3>6. QED BY <1>2, <1>3, <1>4, <3>4, <3>5 DEF CountInv, Counted
  <2>5. CASE i \notin run[r].missing
    <3>1. i \notin missing
      BY <2>5
    <3> HIDE DEF missing
    <3>2. Cardinality(Owing(i)') <= Cardinality(Owing(i))
      <4>1. Owing(i)' \in SUBSET Owing(i)
        BY <2>3
      <4>2. QED BY <4>1, OwingType, FS_Subset
    <3>3. row[i].streak + Cardinality(Owing(i)) <= gone
      BY DEF CountInv, Counted
    <3>4. row'[i].streak + Cardinality(Owing(i)') <= gone
      BY <1>0, <1>4, <2>5, <3>2, <3>3, OwingType
    <3>5. QED BY <1>2, <1>3, <1>4, <3>1, <3>4 DEF CountInv, Counted
  <2>6. QED BY <2>4, <2>5
<1>7. Counted'
  BY <1>0, <1>6 DEF Counted
<1>8. QED BY <1>5, <1>7

\* What is marked has been counted often enough.
LEMMA MarkCharges ==
  ASSUME CountInv, IInv', NEW r \in Process, MarkDeleted(r)
  PROVE  Kept' /\ Counted'
<1>0. /\ run[r].pc = "mark" /\ row \in [Inquiry -> Row]
      /\ UNCHANGED <<market, wasGone, gone>>
      /\ run' = [run EXCEPT ![r] = [NoRun EXCEPT !.pc = "finish"]]
  BY Parts DEF CountInv, IInv, MarkDeleted
<1>1. /\ \A q \in Process \ {r} : run'[q] = run[q]
      /\ run'[r].pc = "finish" /\ run'[r].window = {}
  BY <1>0, OtherMoves
<1>2. \A i \in Inquiry : ~Owes(r, i)'
  BY <1>1 DEF Owes
<1>3. ASSUME NEW i \in Inquiry \ wasGone
      PROVE  /\ row'[i].streak <= row[i].streak
             /\ row'[i].deleted => row[i].deleted \/ gone >= Threshold
  <2>1. row[i] \in Row /\ row[i].streak \in Nat
    BY <1>0 DEF Row
  <2>2. CASE i \in run[r].missing
    <3>1. row'[i] = [row[i] EXCEPT !.deleted = TRUE]
      BY <2>2 DEF MarkDeleted
    <3>2. row'[i].streak = row[i].streak
      BY <2>1, <3>1 DEF Row
    <3>3. gone >= Threshold
      BY <1>0, <2>2 DEF CountInv, Counted
    <3>4. QED BY <2>1, <3>2, <3>3
  <2>3. CASE i \notin run[r].missing
    <3>1. row'[i] = row[i]
      BY <2>3 DEF MarkDeleted
    <3>2. QED BY <2>1, <3>1
  <2>4. QED BY <2>2, <2>3
<1>4. Counted'
  BY <1>0, <1>1, <1>2, <1>3, NoCharge
<1>5. QED BY <1>0, <1>1, <1>4, KeptByRun

LEMMA ReadKeeps ==
  ASSUME CountInv, NEW r \in Process, ReadPage(r)
  PROVE  Kept'
<1>1. /\ \A q \in Process \ {r} : run'[q] = run[q] /\ run'[r].window = run[r].window
      /\ run[r].pc = "page" /\ run[r].page \in Nat /\ run[r].page > 0
      /\ UNCHANGED <<market, wasGone>>
  BY ReadMoves, ListType DEF ReadPage, CountInv, Kept, Run
<1>2. /\ run'[r].pc = "page" => run'[r].page > 0
      /\ run'[r].pc \in {"page", "track"} => ~run'[r].failed
      /\ run'[r].window = run[r].window
  BY <1>1, ReadMoves
<1>3. QED BY <1>1, <1>2, KeptByRun

\* When an inquiry disappears, the one run that reads the list may have passed
\* over another.
LEMMA DisappearCharges ==
  ASSUME CountInv, NEW j \in Inquiry, Disappears(j)
  PROVE  Kept' /\ Counted'
<1>0. /\ UNCHANGED <<row, run>> /\ gone' = gone + 1 /\ gone \in Nat
      /\ wasGone' = wasGone \cup {j} /\ row \in [Inquiry -> Row]
      /\ market' = [market EXCEPT ![j] = "gone"]
      /\ market \in [Inquiry -> {"unasked", "listed", "gone"}]
      /\ run \in [Process -> Run] /\ Threshold \in Nat
  BY Parts, SyncAssumption DEF CountInv, IInv, TypeRest, Disappears
<1>1. Kept'
  BY <1>0 DEF CountInv, Kept, Run
<1>2. ASSUME NEW i \in Inquiry \ wasGone'
      PROVE  row'[i].streak + Cardinality(Owing(i)') <= gone'
  <2>1. ASSUME NEW q \in Process \ Collecting, Owes(q, i)' PROVE Owes(q, i)
    BY <1>0, <2>1 DEF Owes, Unseen, Collecting
  <2>2. \E r : Collecting \subseteq {r}
    BY DEF CountInv, IInv
  <2>3. PICK r : Owing(i)' \subseteq Owing(i) \cup {r}
    BY <2>1, <2>2 DEF Owing
  <2>4. /\ IsFiniteSet(Owing(i) \cup {r})
        /\ Cardinality(Owing(i) \cup {r}) =
             IF r \in Owing(i) THEN Cardinality(Owing(i)) ELSE Cardinality(Owing(i)) + 1
    BY OwingType, FS_AddElement, Zenon
  <2>5. Cardinality(Owing(i)') <= Cardinality(Owing(i) \cup {r})
    BY <2>3, <2>4, FS_Subset
  <2>6. Cardinality(Owing(i)') <= Cardinality(Owing(i)) + 1
    BY <2>4, <2>5, OwingType
  <2>7. row[i].streak \in Nat /\ row[i].streak + Cardinality(Owing(i)) <= gone
    BY <1>0 DEF CountInv, Counted, Row
  <2>8. QED BY <1>0, <2>6, <2>7, OwingType
<1>3. Counted'
  BY <1>0, <1>2 DEF CountInv, Counted
<1>4. QED BY <1>1, <1>3

\* An inquiry that is asked is in nobody's window, and one that returns puts
\* nobody behind.
LEMMA ArriveCharges ==
  ASSUME CountInv, NEW j \in Inquiry, Asked(j) \/ Returns(j)
  PROVE  Kept' /\ Counted'
<1>0. /\ UNCHANGED <<row, run, gone, wasGone>> /\ gone \in Nat
      /\ market' = [market EXCEPT ![j] = "listed"] /\ row \in [Inquiry -> Row]
      /\ market \in [Inquiry -> {"unasked", "listed", "gone"}]
      /\ run \in [Process -> Run]
  BY Parts DEF CountInv, IInv, TypeRest, Asked, Returns
<1>1. Kept'
  BY <1>0 DEF CountInv, Kept, Run
<1>2. ASSUME NEW q \in Process, NEW i \in Inquiry, Owes(q, i)' PROVE Owes(q, i)
  <2>1. CASE run[q].pc \in {"page", "track"} /\ run[q].page # 0
    <3>1. run[q] \in Run /\ Listed(q)' \in SUBSET Inquiry
      BY <1>0 DEF Listed, Run
    <3>2. Listed(q)' \in SUBSET Nat /\ IsFiniteSet(Listed(q)')
      BY <3>1, SyncAssumption, FS_Subset
    <3>3. Listed(q) \in SUBSET Listed(q)'
      BY <1>0, <3>1 DEF Listed, Run
    <3>4. Place(q, i)' = Rank(Listed(q)', i) /\ Place(q, i) = Rank(Listed(q), i)
      BY DEF Place, Rank, UpTo
    <3>5. Rank(Listed(q), i) <= Rank(Listed(q)', i)
      BY <3>2, <3>3, RankGrows
    <3>6. Listed(q) \in SUBSET Nat /\ IsFiniteSet(Listed(q))
      BY <3>2, <3>3, FS_Subset
    <3>7. Rank(Listed(q), i) \in Nat /\ Rank(Listed(q)', i) \in Nat
      BY <3>2, <3>6, RankType
    <3>8. Place(q, i)' < run[q].page => Place(q, i) < run[q].page
      BY <3>1, <3>4, <3>5, <3>7 DEF Run
    <3>9. QED BY <1>0, <1>2, <2>1, <3>8 DEF Owes, Unseen
  <2>2. CASE ~(run[q].pc \in {"page", "track"} /\ run[q].page # 0)
    BY <1>0, <1>2, <2>2 DEF Owes, Unseen
  <2>3. QED BY <2>1, <2>2
<1>3. ASSUME NEW i \in Inquiry \ wasGone
      PROVE  row'[i].streak + Cardinality(Owing(i)') <= gone'
  <2>1. Owing(i)' \in SUBSET Owing(i)
    BY <1>2 DEF Owing
  <2>2. Cardinality(Owing(i)') <= Cardinality(Owing(i))
    BY <2>1, OwingType, FS_Subset
  <2>3. row[i].streak \in Nat /\ row[i].streak + Cardinality(Owing(i)) <= gone
    BY <1>0 DEF CountInv, Counted, Row
  <2>4. QED BY <1>0, <2>2, <2>3, OwingType
<1>4. Counted'
  BY <1>0, <1>3 DEF CountInv, Counted
<1>5. QED BY <1>1, <1>4

LEMMA StepCharges == CountInv /\ [Next]_vars => CountInv'
<1> SUFFICES ASSUME CountInv, [Next]_vars PROVE CountInv'
  OBVIOUS
<1>1. IInv'
  BY StepKeeps DEF CountInv
<1>2. CASE \E i \in Inquiry : Asked(i) \/ Disappears(i) \/ Returns(i)
  BY <1>1, <1>2, ArriveCharges, DisappearCharges DEF CountInv
<1>3. CASE \E r \in Process : RunStep(r) \/ PageFails(r)
  BY <1>1, <1>3, ReadCharges, ReadKeeps, RunCharges, CountCharges, MarkCharges, EndCharges
     DEF CountInv, RunStep
<1>4. CASE \E p \in Process : \/ TickRuns(p) \/ BeginCall(p)
                              \/ FinishTick(p) \/ FinishCall(p) \/ Crash(p)
  BY <1>1, <1>4, BeginCharges, EndCharges DEF CountInv
<1>5. ASSUME UNCHANGED <<market, wasGone, gone, row, run>>
      PROVE  CountInv'
  <2>1. Kept' = Kept
    BY <1>5 DEF Kept
  <2>2. Counted' = Counted
    BY <1>5 DEF Counted, Owing, Owes, Unseen, Place, Listed
  <2>3. QED BY <1>1, <2>1, <2>2 DEF CountInv
<1>6. CASE \/ \E p \in Process : Launch(p) \/ TickIdle(p) \/ TickSkips(p)
           \/ DueComes \/ LeaseExpires \/ LockExpires \/ UNCHANGED vars
  BY <1>5, <1>6 DEF Launch, TickIdle, TickSkips, DueComes, LeaseExpires, LockExpires, vars
<1>7. QED BY <1>2, <1>3, <1>4, <1>6 DEF Next, Tick

LEMMA InitCharges == Init => CountInv
<1> SUFFICES ASSUME Init PROVE CountInv
  OBVIOUS
<1>1. IInv
  BY InitIInv
<1>2. \A r \in Process : run[r].pc = "idle" /\ run[r].window = {}
  BY DEF Init, NoRun
<1>3. \A i \in Inquiry : Owing(i) = {}
  BY <1>2 DEF Owing, Owes
<1>4. \A i \in Inquiry : row[i].streak = 0 /\ row[i].deleted = FALSE /\ market[i] = "unasked"
  BY DEF Init
<1>5. Kept
  BY <1>2, <1>4 DEF Kept
<1>6. gone = 0
  BY DEF Init
<1>7. Counted
  BY <1>2, <1>3, <1>4, <1>6, FS_EmptySet DEF Counted
<1>8. QED BY <1>1, <1>5, <1>7 DEF CountInv

\* An inquiry that has always been listed is marked source_deleted only after as
\* many disappearances of others as the threshold, however many runs there were
\* and whatever pages shifted under them (_reconcile_source_deletions,
\* increment_source_missing_streak, mark_source_deleted).
THEOREM MarksHonestly == Spec => []MarkedHonestly
<1>1. CountInv => MarkedHonestly
  BY DEF CountInv, Counted, MarkedHonestly
<1>2. QED BY <1>1, InitCharges, StepCharges, PTL DEF Spec
=============================================================================
