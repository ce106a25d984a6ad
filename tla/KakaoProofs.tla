----------------------------- MODULE KakaoProofs -----------------------------
(***************************************************************************)
(* Proofs about Kakao and KakaoLock, for any processes, senders, keys and  *)
(* bounds.                                                                 *)
(*                                                                         *)
(* Its theorems count. A process that made the lock file or works under    *)
(* it (Held) is paid for by the file itself, if it names a process at work *)
(* or is being written, or by such a file that was removed as stale        *)
(* (HeldPaid). A line that was queued, or may still be, and a claim that   *)
(* is about to be released are paid for by the row of the key or by an     *)
(* excuse (LinesPaid). The lines themselves are counted where they lie     *)
(* (CountOf), and the dispatcher takes a file only with empty hands        *)
(* (HandsFree).                                                            *)
(***************************************************************************)
EXTENDS Kakao, FiniteSetTheorems, TLAPS

-----------------------------------------------------------------------------
(* The lock.                                                               *)

\* The cardinality of a set with one member more, or less.
LEMMA AddMember ==
  ASSUME NEW S, NEW x, IsFiniteSet(S)
  PROVE  Cardinality(S \cup {x}) = Cardinality(S) + (IF x \in S THEN 0 ELSE 1)
<1>1. Cardinality(S) \in Nat
  BY FS_CardinalityType
<1>2. CASE x \in S
  <2>1. Cardinality(S \cup {x}) = Cardinality(S)
    BY <1>2, FS_AddElement, Zenon
  <2>2. QED BY <1>1, <1>2, <2>1
<1>3. CASE x \notin S
  <2>1. Cardinality(S \cup {x}) = Cardinality(S) + 1
    BY <1>3, FS_AddElement, Zenon
  <2>2. QED BY <1>1, <1>3, <2>1
<1>4. QED BY <1>2, <1>3

LEMMA RemoveMember ==
  ASSUME NEW S, NEW x, IsFiniteSet(S)
  PROVE  Cardinality(S \ {x}) = Cardinality(S) - (IF x \in S THEN 1 ELSE 0)
<1>1. Cardinality(S) \in Nat
  BY FS_CardinalityType
<1>2. CASE x \in S
  <2>1. Cardinality(S \ {x}) = Cardinality(S) - 1
    BY <1>2, FS_RemoveElement, Zenon
  <2>2. QED BY <1>1, <1>2, <2>1
<1>3. CASE x \notin S
  <2>1. Cardinality(S \ {x}) = Cardinality(S)
    BY <1>3, FS_RemoveElement, Zenon
  <2>2. QED BY <1>1, <1>3, <2>1
<1>4. QED BY <1>2, <1>3

\* What a change of one process's place does to the number of those at work.
AtWork(place) == IF place \in {"creating", "holding", "releasing"} THEN 1 ELSE 0

LEMMA HeldMoves ==
  ASSUME LockTypeOK, NEW p \in Proc, NEW to \in LockPc,
         lockPc' = [lockPc EXCEPT ![p] = to]
  PROVE  /\ Cardinality(Held) \in Nat /\ Cardinality(Held') \in Nat
         /\ Cardinality(Held') = Cardinality(Held) + AtWork(to) - AtWork(lockPc[p])
<1>1. IsFiniteSet(Held) /\ IsFiniteSet(Held')
  <2>1. Held \in SUBSET Proc /\ Held' \in SUBSET Proc /\ IsFiniteSet(Proc)
    BY LockAssumption DEF Held
  <2>2. QED BY <2>1, FS_Subset
<1>2. Cardinality(Held) \in Nat /\ Cardinality(Held') \in Nat
  BY <1>1, FS_CardinalityType
<1>3. p \in Held <=> lockPc[p] \in {"creating", "holding", "releasing"}
  BY DEF Held
<1>4. CASE to \in {"creating", "holding", "releasing"}
  <2>1. Held' = Held \cup {p}
    BY <1>4 DEF Held, LockTypeOK
  <2>2. Cardinality(Held \cup {p}) = Cardinality(Held) + (IF p \in Held THEN 0 ELSE 1)
    BY <1>1, AddMember, Zenon
  <2>3. QED BY <1>2, <1>3, <1>4, <2>1, <2>2 DEF AtWork
<1>5. CASE to \notin {"creating", "holding", "releasing"}
  <2>1. Held' = Held \ {p}
    BY <1>5 DEF Held, LockTypeOK
  <2>2. Cardinality(Held \ {p}) = Cardinality(Held) - (IF p \in Held THEN 1 ELSE 0)
    BY <1>1, RemoveMember, Zenon
  <2>3. QED BY <1>2, <1>3, <1>5, <2>1, <2>2 DEF AtWork
<1>6. QED BY <1>4, <1>5

LEMMA LockKeeps ==
  ASSUME LockInv, NEW p \in Proc,
         \/ Ask(p) \/ CreateFile(p) \/ WritePid(p) \/ FindStale(p) \/ Break(p)
         \/ GiveUp(p) \/ ReadOwn(p) \/ RemoveOwn(p) \/ RemoveFails(p) \/ Die(p)
  PROVE  LockInv'
<1>0. LockTypeOK /\ FileSpeaks /\ HeldPaid
  BY DEF LockInv
<1>1. ASSUME Ask(p) \/ FindStale(p) \/ GiveUp(p) PROVE LockInv'
  <2>1. PICK to \in {"want", "stale", "off"} :
           /\ lockPc' = [lockPc EXCEPT ![p] = to] /\ lockPc[p] \in {"off", "want"}
           /\ UNCHANGED <<lock, crashes, broken>>
    BY <1>1 DEF Ask, FindStale, GiveUp, LockGoes
  <2>2. to \in LockPc
    BY <2>1 DEF LockPc
  <2>3. /\ Cardinality(Held) \in Nat /\ Cardinality(Held') \in Nat
        /\ Cardinality(Held') = Cardinality(Held) + AtWork(to) - AtWork(lockPc[p])
    BY <1>0, <2>2, <2>1, HeldMoves, Zenon
  <2>4. LockTypeOK'
    BY <1>0, <2>1, LockAssumption DEF LockTypeOK, LockPc
  <2>5. HeldPaid'
    BY <1>0, <2>1, <2>3, LockAssumption DEF HeldPaid, Using, LockTypeOK, AtWork
  <2>6. FileSpeaks'
    BY <1>0, <2>1, LockAssumption DEF FileSpeaks, LockTypeOK
  <2>7. QED BY <2>4, <2>5, <2>6 DEF LockInv
<1>2. ASSUME CreateFile(p) PROVE LockInv'
  <2>1. /\ lockPc' = [lockPc EXCEPT ![p] = "creating"] /\ lockPc[p] = "want"
        /\ lock = Absent /\ lock' = "half" /\ UNCHANGED <<crashes, broken>>
    BY <1>2 DEF CreateFile, LockGoes
  <2>2. "creating" \in LockPc
    BY <2>1 DEF LockPc
  <2>3. /\ Cardinality(Held) \in Nat /\ Cardinality(Held') \in Nat
        /\ Cardinality(Held') = Cardinality(Held) + AtWork("creating") - AtWork(lockPc[p])
    BY <1>0, <2>2, <2>1, HeldMoves, Zenon
  <2>4. LockTypeOK'
    BY <1>0, <2>1, LockAssumption DEF LockTypeOK, LockPc
  <2>5. HeldPaid'
    BY <1>0, <2>1, <2>3, LockAssumption DEF HeldPaid, Using, LockTypeOK, AtWork
  <2>6. FileSpeaks'
    BY <1>0, <2>1, LockAssumption DEF FileSpeaks, LockTypeOK
  <2>7. QED BY <2>4, <2>5, <2>6 DEF LockInv
<1>3. ASSUME WritePid(p) PROVE LockInv'
  <2>1. /\ lockPc' = [lockPc EXCEPT ![p] = "holding"] /\ lockPc[p] = "creating"
        /\ lock = "half" /\ lock' = p /\ UNCHANGED <<crashes, broken>>
    BY <1>0, <1>3 DEF WritePid, LockGoes, FileSpeaks
  <2>2. "holding" \in LockPc
    BY <2>1 DEF LockPc
  <2>3. /\ Cardinality(Held) \in Nat /\ Cardinality(Held') \in Nat
        /\ Cardinality(Held') = Cardinality(Held) + AtWork("holding") - AtWork(lockPc[p])
    BY <1>0, <2>2, <2>1, HeldMoves, Zenon
  <2>4. LockTypeOK'
    BY <1>0, <2>1, LockAssumption DEF LockTypeOK, LockPc
  <2>5. HeldPaid'
    BY <1>0, <2>1, <2>3, LockAssumption DEF HeldPaid, Using, LockTypeOK, AtWork
  <2>6. FileSpeaks'
    BY <1>0, <2>1, LockAssumption DEF FileSpeaks, LockTypeOK
  <2>7. QED BY <2>4, <2>5, <2>6 DEF LockInv
<1>4. ASSUME Break(p) PROVE LockInv'
  <2>1. /\ lockPc' = [lockPc EXCEPT ![p] = "want"] /\ lockPc[p] = "stale"
        /\ lock' = (IF lock = "half" THEN lock ELSE Absent)
        /\ broken' = (IF lock \in Using THEN broken + 1 ELSE broken)
        /\ UNCHANGED crashes
    BY <1>4 DEF Break, LockGoes
  <2>2. "want" \in LockPc
    BY <2>1 DEF LockPc
  <2>3. /\ Cardinality(Held) \in Nat /\ Cardinality(Held') \in Nat
        /\ Cardinality(Held') = Cardinality(Held) + AtWork("want") - AtWork(lockPc[p])
    BY <1>0, <2>2, <2>1, HeldMoves, Zenon
  <2>4. LockTypeOK'
    BY <1>0, <2>1, LockAssumption DEF LockTypeOK, LockPc
  <2>5. HeldPaid'
    BY <1>0, <2>1, <2>3, LockAssumption DEF HeldPaid, Using, LockTypeOK, AtWork
  <2>6. FileSpeaks'
    BY <1>0, <2>1, LockAssumption DEF FileSpeaks, LockTypeOK
  <2>7. QED BY <2>4, <2>5, <2>6 DEF LockInv
<1>5. ASSUME ReadOwn(p) PROVE LockInv'
  <2>1. /\ lockPc' = [lockPc EXCEPT ![p] = IF lock = p THEN "releasing" ELSE "off"]
        /\ lockPc[p] = "holding" /\ UNCHANGED <<lock, crashes, broken>>
    BY <1>5 DEF ReadOwn, LockGoes
  <2>2. (IF lock = p THEN "releasing" ELSE "off") \in LockPc
    BY <2>1 DEF LockPc
  <2>3. /\ Cardinality(Held) \in Nat /\ Cardinality(Held') \in Nat
        /\ Cardinality(Held') = Cardinality(Held) + AtWork((IF lock = p THEN "releasing" ELSE "off")) - AtWork(lockPc[p])
    BY <1>0, <2>2, <2>1, HeldMoves, Zenon
  <2>4. LockTypeOK'
    BY <1>0, <2>1, LockAssumption DEF LockTypeOK, LockPc
  <2>5. HeldPaid'
    BY <1>0, <2>1, <2>3, LockAssumption DEF HeldPaid, Using, LockTypeOK, AtWork
  <2>6. FileSpeaks'
    BY <1>0, <2>1, LockAssumption DEF FileSpeaks, LockTypeOK
  <2>7. QED BY <2>4, <2>5, <2>6 DEF LockInv
<1>6. ASSUME RemoveOwn(p) \/ RemoveFails(p) PROVE LockInv'
  <2>1. /\ lockPc' = [lockPc EXCEPT ![p] = "off"] /\ lockPc[p] = "releasing"
        /\ (lock # "half" /\ lock' = Absent) \/ lock' = lock
        /\ UNCHANGED <<crashes, broken>>
    BY <1>6 DEF RemoveOwn, RemoveFails, LockGoes
  <2>2. "off" \in LockPc
    BY <2>1 DEF LockPc
  <2>3. /\ Cardinality(Held) \in Nat /\ Cardinality(Held') \in Nat
        /\ Cardinality(Held') = Cardinality(Held) + AtWork("off") - AtWork(lockPc[p])
    BY <1>0, <2>2, <2>1, HeldMoves, Zenon
  <2>4. LockTypeOK'
    BY <1>0, <2>1, LockAssumption DEF LockTypeOK, LockPc
  <2>5. HeldPaid'
    BY <1>0, <2>1, <2>3, LockAssumption DEF HeldPaid, Using, LockTypeOK, AtWork
  <2>6. FileSpeaks'
    BY <1>0, <2>1, LockAssumption DEF FileSpeaks, LockTypeOK
  <2>7. QED BY <2>4, <2>5, <2>6 DEF LockInv
<1>7. ASSUME Die(p) PROVE LockInv'
  <2>1. /\ lockPc' = [lockPc EXCEPT ![p] = "off"]
        /\ lock' = (IF lock = p \/ (lock = "half" /\ lockPc[p] = "creating")
                      THEN "dead" ELSE lock)
        /\ crashes' = crashes + 1 /\ UNCHANGED broken
    BY <1>7 DEF Die
  <2>2. "off" \in LockPc
    BY <2>1 DEF LockPc
  <2>3. /\ Cardinality(Held) \in Nat /\ Cardinality(Held') \in Nat
        /\ Cardinality(Held') = Cardinality(Held) + AtWork("off") - AtWork(lockPc[p])
    BY <1>0, <2>2, <2>1, HeldMoves, Zenon
  <2>4. LockTypeOK'
    BY <1>0, <2>1, LockAssumption DEF LockTypeOK, LockPc
  <2>5. HeldPaid'
    BY <1>0, <2>1, <2>3, LockAssumption DEF HeldPaid, Using, FileSpeaks,
                                          LockTypeOK, AtWork
  <2>6. FileSpeaks'
    BY <1>0, <2>1, LockAssumption DEF FileSpeaks, LockTypeOK
  <2>7. QED BY <2>4, <2>5, <2>6 DEF LockInv
<1>8. QED BY <1>1, <1>2, <1>3, <1>4, <1>5, <1>6, <1>7

LEMMA LockSame == LockInv /\ UNCHANGED lockVars => LockInv'
BY DEF LockInv, LockTypeOK, FileSpeaks, HeldPaid, Using, Held, lockVars

\* Who uses the window is at work, and so the bound of HeldPaid is one of users.
LEMMA UsersPaid == LockInv => OneUserUnlessBroken
<1> SUFFICES ASSUME LockInv PROVE OneUserUnlessBroken
  OBVIOUS
<1>1. Using \in SUBSET Held /\ IsFiniteSet(Held)
  <2>1. Held \in SUBSET Proc /\ IsFiniteSet(Proc)
    BY LockAssumption DEF Held
  <2>2. Using \in SUBSET Held
    BY DEF Using, Held
  <2>3. QED BY <2>1, <2>2, FS_Subset
<1>2. /\ Cardinality(Using) <= Cardinality(Held)
      /\ Cardinality(Using) \in Nat /\ Cardinality(Held) \in Nat
  BY <1>1, FS_Subset, FS_CardinalityType
<1>3. QED BY <1>2 DEF LockInv, HeldPaid, LockTypeOK, OneUserUnlessBroken
-----------------------------------------------------------------------------
(* The claims and the lines.                                               *)

\* What a change of one sender does to those busy with a key.  (A sender that
\* is idle has no key.)
InLine(at, k) == IF at.pc \in {"claimed", "open", "failed"} /\ at.key = k THEN 1 ELSE 0

LEMMA BusyMoves ==
  ASSUME sender \in Senders, NEW w \in Sender, NEW k \in Key, NEW to,
         sender' = [sender EXCEPT ![w] = to]
  PROVE  /\ Cardinality(Busy(k)) \in Nat /\ Cardinality(Busy(k)') \in Nat
         /\ Cardinality(Busy(k)') = Cardinality(Busy(k)) + InLine(to, k)
                                                        - InLine(sender[w], k)
<1>1. IsFiniteSet(Busy(k)) /\ IsFiniteSet(Busy(k)')
  <2>1. Busy(k) \in SUBSET Sender /\ Busy(k)' \in SUBSET Sender /\ IsFiniteSet(Sender)
    BY KakaoAssumption DEF Busy
  <2>2. QED BY <2>1, FS_Subset
<1>2. Cardinality(Busy(k)) \in Nat /\ Cardinality(Busy(k)') \in Nat
  BY <1>1, FS_CardinalityType
<1>3. w \in Busy(k) <=> sender[w].pc \in {"claimed", "open", "failed"} /\ sender[w].key = k
  BY DEF Busy
<1>4. CASE to.pc \in {"claimed", "open", "failed"} /\ to.key = k
  <2>1. Busy(k)' = Busy(k) \cup {w}
    BY <1>4 DEF Busy, Senders
  <2>2. Cardinality(Busy(k) \cup {w}) = Cardinality(Busy(k)) + (IF w \in Busy(k) THEN 0 ELSE 1)
    BY <1>1, AddMember, Zenon
  <2>3. QED BY <1>2, <1>3, <1>4, <2>1, <2>2 DEF InLine
<1>5. CASE ~(to.pc \in {"claimed", "open", "failed"} /\ to.key = k)
  <2>1. Busy(k)' = Busy(k) \ {w}
    BY <1>5 DEF Busy, Senders
  <2>2. Cardinality(Busy(k) \ {w}) = Cardinality(Busy(k)) - (IF w \in Busy(k) THEN 1 ELSE 0)
    BY <1>1, RemoveMember, Zenon
  <2>3. QED BY <1>2, <1>3, <1>5, <2>1, <2>2 DEF InLine
<1>6. QED BY <1>4, <1>5

Row(c) == IF c = "none" THEN 0 ELSE 1

\* A step of one sender keeps LinesPaid if it pays for what it adds.
LEMMA LinesMove ==
  ASSUME NotifyTypeOK, NotifyTypeOK', LinesPaid, NEW w \in Sender, NEW to,
         sender' = [sender EXCEPT ![w] = to],
         \A k \in Key :
           queued'[k] + InLine(to, k) + excuse[k] + Row(claim[k])
             <= queued[k] + InLine(sender[w], k) + excuse'[k] + Row(claim'[k])
  PROVE  LinesPaid'
<1> SUFFICES ASSUME NEW k \in Key PROVE LinePaid(k)'
  BY DEF LinesPaid
<1>1. /\ Cardinality(Busy(k)) \in Nat /\ Cardinality(Busy(k)') \in Nat
      /\ Cardinality(Busy(k)') = Cardinality(Busy(k)) + InLine(to, k)
                                                     - InLine(sender[w], k)
  BY BusyMoves DEF NotifyTypeOK
<1>2. queued[k] + Cardinality(Busy(k)) <= excuse[k] + Row(claim[k])
  BY DEF LinesPaid, LinePaid, Row
<1>3. /\ queued[k] \in Nat /\ queued'[k] \in Nat
      /\ excuse[k] \in Nat /\ excuse'[k] \in Nat
      /\ Row(claim[k]) \in Nat /\ Row(claim'[k]) \in Nat
      /\ InLine(to, k) \in Nat /\ InLine(sender[w], k) \in Nat
  BY DEF NotifyTypeOK, Row, InLine
<1>4. queued'[k] + Cardinality(Busy(k)') <= excuse'[k] + Row(claim'[k])
  BY <1>1, <1>2, <1>3
<1>5. QED BY <1>4 DEF LinePaid, Row

LEMMA SenderKeeps ==
  ASSUME NotifyTypeOK, LinesPaid, NEW w \in Sender,
         \/ \E k \in Key : Claim(w, k)
         \/ SenderStep(w) \/ WriteFails(w) \/ MarkFails(w) \/ SenderDies(w)
  PROVE  NotifyTypeOK' /\ LinesPaid'
<1>0. None \notin Key /\ Idle.pc = "idle"
  BY KakaoAssumption DEF Idle
<1>1. ASSUME NEW k \in Key, Claim(w, k) PROVE NotifyTypeOK' /\ LinesPaid'
  <2>1. /\ sender' = [sender EXCEPT ![w] = [pc |-> "claimed", key |-> k]]
        /\ sender[w] = Idle /\ UNCHANGED queued
        /\ claim' = [claim EXCEPT ![k] = "pending"]
        /\ late' = [late EXCEPT ![k] = FALSE]
    BY <1>1 DEF Claim
  <2>2. \/ claim[k] = "none" /\ UNCHANGED excuse
        \/ claim[k] = "pending" /\ Excuse(k)
    <3>1. CASE claim[k] = "none"
      BY <1>1, <3>1 DEF Claim
    <3>2. CASE claim[k] = "pending" /\ late[k]
      BY <1>1, <3>2, Zenon DEF Claim
    <3>3. QED BY <1>1, <3>1, <3>2 DEF Claim, Claimable
  <2>3. NotifyTypeOK'
    BY <2>1, <2>2 DEF NotifyTypeOK, Excuse, Senders
  <2>4. \A j \in Key :
          queued'[j] + InLine([pc |-> "claimed", key |-> k], j) + excuse[j] + Row(claim[j])
            <= queued[j] + InLine(sender[w], j) + excuse'[j] + Row(claim'[j])
    BY <1>0, <2>1, <2>2 DEF NotifyTypeOK, Excuse, InLine, Row
  <2>5. QED BY <2>1, <2>3, <2>4, LinesMove
<1>2. ASSUME OpenOutbox(w) PROVE NotifyTypeOK' /\ LinesPaid'
  <2> DEFINE to == [sender[w] EXCEPT !.pc = "open"]
  <2>1. /\ sender' = [sender EXCEPT ![w] = to] /\ sender[w].pc = "claimed"
        /\ UNCHANGED <<claim, late, queued, excuse>>
    BY <1>2 DEF OpenOutbox, SenderGoes
  <2>2. sender[w].key \in Key /\ to = [pc |-> "open", key |-> sender[w].key]
    BY <1>0, <2>1 DEF NotifyTypeOK, Senders
  <2>3. NotifyTypeOK'
    BY <2>1, <2>2 DEF NotifyTypeOK, Senders
  <2>4. \A j \in Key :
          queued'[j] + InLine(to, j) + excuse[j] + Row(claim[j])
            <= queued[j] + InLine(sender[w], j) + excuse'[j] + Row(claim'[j])
    BY <2>1, <2>2 DEF NotifyTypeOK, InLine, Row
  <2>5. QED BY <2>1, <2>3, <2>4, LinesMove
<1>3. ASSUME WriteLine(w) PROVE NotifyTypeOK' /\ LinesPaid'
  <2> DEFINE to == [sender[w] EXCEPT !.pc = "queued"]
  <2>1. /\ sender' = [sender EXCEPT ![w] = to] /\ sender[w].pc = "open"
        /\ queued' = [queued EXCEPT ![sender[w].key] = @ + 1]
        /\ UNCHANGED <<claim, late, excuse>>
    BY <1>3 DEF WriteLine, SenderGoes
  <2>2. sender[w].key \in Key /\ to = [pc |-> "queued", key |-> sender[w].key]
    BY <1>0, <2>1 DEF NotifyTypeOK, Senders
  <2>3. NotifyTypeOK'
    BY <2>1, <2>2 DEF NotifyTypeOK, Senders
  <2>4. \A j \in Key :
          queued'[j] + InLine(to, j) + excuse[j] + Row(claim[j])
            <= queued[j] + InLine(sender[w], j) + excuse'[j] + Row(claim'[j])
    BY <2>1, <2>2 DEF NotifyTypeOK, InLine, Row
  <2>5. QED BY <2>1, <2>3, <2>4, LinesMove
<1>4. ASSUME MarkSent(w) PROVE NotifyTypeOK' /\ LinesPaid'
  <2>1. /\ sender' = [sender EXCEPT ![w] = Idle] /\ sender[w].pc = "queued"
        /\ claim' = [claim EXCEPT ![sender[w].key] = IF @ = "none" THEN "none" ELSE "sent"]
        /\ UNCHANGED <<late, queued, excuse>>
    BY <1>4 DEF MarkSent, SenderEnds
  <2>2. NotifyTypeOK'
    BY <2>1 DEF NotifyTypeOK, Senders
  <2>3. \A j \in Key :
          queued'[j] + InLine(Idle, j) + excuse[j] + Row(claim[j])
            <= queued[j] + InLine(sender[w], j) + excuse'[j] + Row(claim'[j])
    BY <1>0, <2>1 DEF NotifyTypeOK, InLine, Row
  <2>4. QED BY <2>1, <2>2, <2>3, LinesMove
<1>5. ASSUME Release(w) PROVE NotifyTypeOK' /\ LinesPaid'
  <2>1. /\ sender' = [sender EXCEPT ![w] = Idle] /\ sender[w].pc = "failed"
        /\ claim' = [claim EXCEPT ![sender[w].key] = IF @ = "pending" THEN "none" ELSE @]
        /\ UNCHANGED <<late, queued, excuse>>
    BY <1>5 DEF Release, SenderEnds
  <2>2. NotifyTypeOK'
    BY <2>1 DEF NotifyTypeOK, Senders
  <2>3. \A j \in Key :
          queued'[j] + InLine(Idle, j) + excuse[j] + Row(claim[j])
            <= queued[j] + InLine(sender[w], j) + excuse'[j] + Row(claim'[j])
    BY <1>0, <2>1 DEF NotifyTypeOK, InLine, Row
  <2>4. QED BY <2>1, <2>2, <2>3, LinesMove
<1>6. ASSUME WriteFails(w) PROVE NotifyTypeOK' /\ LinesPaid'
  <2> DEFINE to == [sender[w] EXCEPT !.pc = "failed"]
  <2>1. /\ sender' = [sender EXCEPT ![w] = to] /\ sender[w].pc \in {"claimed", "open"}
        /\ UNCHANGED <<claim, late, queued, excuse>>
    BY <1>6 DEF WriteFails
  <2>2. sender[w].key \in Key /\ to = [pc |-> "failed", key |-> sender[w].key]
    BY <1>0, <2>1 DEF NotifyTypeOK, Senders
  <2>3. NotifyTypeOK'
    BY <2>1, <2>2 DEF NotifyTypeOK, Senders
  <2>4. \A j \in Key :
          queued'[j] + InLine(to, j) + excuse[j] + Row(claim[j])
            <= queued[j] + InLine(sender[w], j) + excuse'[j] + Row(claim'[j])
    BY <2>1, <2>2 DEF NotifyTypeOK, InLine, Row
  <2>5. QED BY <2>1, <2>3, <2>4, LinesMove
<1>7. ASSUME MarkFails(w) PROVE NotifyTypeOK' /\ LinesPaid'
  <2> DEFINE to == [sender[w] EXCEPT !.pc = "failed"]
  <2>1. /\ sender' = [sender EXCEPT ![w] = to] /\ sender[w].pc = "queued"
        /\ Excuse(sender[w].key) /\ UNCHANGED <<claim, late, queued>>
    BY <1>7 DEF MarkFails, SenderGoes
  <2>2. sender[w].key \in Key /\ to = [pc |-> "failed", key |-> sender[w].key]
    BY <1>0, <2>1 DEF NotifyTypeOK, Senders
  <2>3. NotifyTypeOK'
    BY <2>1, <2>2 DEF NotifyTypeOK, Senders, Excuse
  <2>4. \A j \in Key :
          queued'[j] + InLine(to, j) + excuse[j] + Row(claim[j])
            <= queued[j] + InLine(sender[w], j) + excuse'[j] + Row(claim'[j])
    BY <2>1, <2>2 DEF NotifyTypeOK, InLine, Row, Excuse
  <2>5. QED BY <2>1, <2>3, <2>4, LinesMove
<1>8. ASSUME SenderDies(w) PROVE NotifyTypeOK' /\ LinesPaid'
  <2>1. /\ sender' = [sender EXCEPT ![w] = Idle]
        /\ UNCHANGED <<claim, late, queued, excuse>>
    BY <1>8 DEF SenderDies, SenderEnds
  <2>2. NotifyTypeOK'
    BY <2>1 DEF NotifyTypeOK, Senders
  <2>3. \A j \in Key :
          queued'[j] + InLine(Idle, j) + excuse[j] + Row(claim[j])
            <= queued[j] + InLine(sender[w], j) + excuse'[j] + Row(claim'[j])
    BY <1>0, <2>1 DEF NotifyTypeOK, InLine, Row
  <2>4. QED BY <2>1, <2>2, <2>3, LinesMove
<1>9. QED BY <1>1, <1>2, <1>3, <1>4, <1>5, <1>6, <1>7, <1>8 DEF SenderStep
-----------------------------------------------------------------------------
(* Every step.                                                             *)

LEMMA NotifySame ==
  NotifyTypeOK /\ LinesPaid /\ UNCHANGED <<claim, sender, queued, excuse, late>>
    => NotifyTypeOK' /\ LinesPaid'
BY DEF NotifyTypeOK, LinesPaid, LinePaid, Busy

LEMMA InitIInv == Init => IInv
<1> SUFFICES ASSUME Init PROVE IInv
  OBVIOUS
<1>1. LockInv
  <2>1. Held = {}
    BY DEF Init, LockInit, Held
  <2>2. Cardinality(Held) = 0
    BY <2>1, FS_EmptySet
  <2>3. QED BY <2>2, LockAssumption
            DEF Init, LockInit, LockInv, LockTypeOK, LockPc, FileSpeaks, HeldPaid
<1>2. LinesPaid
  <2> SUFFICES ASSUME NEW k \in Key PROVE LinePaid(k)
    BY DEF LinesPaid
  <2>1. Busy(k) = {}
    BY DEF Init, Busy, Idle
  <2>2. Cardinality(Busy(k)) = 0
    BY <2>1, FS_EmptySet
  <2>3. QED BY <2>2 DEF Init, LinePaid
<1>3. NotifyTypeOK /\ DrainTypeOK
  BY DEF Init, NotifyTypeOK, DrainTypeOK, Senders
<1>4. QED BY <1>1, <1>2, <1>3 DEF IInv

LEMMA DispatcherKeeps ==
  ASSUME IInv,
         \/ DispatcherStep \/ OpenKakaoFails \/ SendRaises \/ OpenChatFails
         \/ DispatcherDies
  PROVE  IInv'
<1>1. Dispatcher \in Proc /\ LockInv /\ NotifyTypeOK /\ DrainTypeOK /\ LinesPaid
  BY KakaoAssumption DEF IInv
<1>2. UNCHANGED notifyVars
  BY DEF DispatcherStep, StartDrain, LockTimesOut, Locked, Drain, OpenKakao, Send,
         Linger, LingerEnds, EndReads, EndRemoves, OpenKakaoFails, SendRaises,
         SendLine, OpenChatFails, DispatcherDies
<1>3. NotifyTypeOK' /\ LinesPaid'
  BY <1>1, <1>2, NotifySame DEF notifyVars
<1>4. LockInv'
  <2>1. CASE UNCHANGED lockVars
    BY <1>1, <2>1, LockSame
  <2>2. CASE \/ Ask(Dispatcher) \/ GiveUp(Dispatcher) \/ WritePid(Dispatcher)
             \/ ReadOwn(Dispatcher) \/ RemoveOwn(Dispatcher) \/ RemoveFails(Dispatcher)
             \/ Die(Dispatcher)
    BY <1>1, <2>2, LockKeeps
  <2>3. QED BY <2>1, <2>2
            DEF DispatcherStep, StartDrain, LockTimesOut, Locked, Drain, OpenKakao,
                Send, Linger, LingerEnds, EndReads, EndRemoves, OpenKakaoFails,
                SendRaises, SendLine, OpenChatFails, DispatcherDies
<1>5. DrainTypeOK'
  <2>1. CASE OpenKakaoFails \/ OpenChatFails \/ DispatcherDies
    <3>1. /\ hand' = << >> /\ pc' \in {"end", "poll"} /\ (UNCHANGED slips \/ Slip)
          /\ UNCHANGED <<outbox, room, calls, uses>>
      BY <1>2, <2>1 DEF OpenKakaoFails, OpenChatFails, DispatcherDies, PcGoes, notifyVars
    <3>2. QED BY <1>1, <3>1 DEF DrainTypeOK, Slip
  <2>2. CASE Send \/ SendRaises
    <3>1. PICK times \in 0 .. 2 : SendLine(times) /\ (UNCHANGED slips \/ Slip)
      BY <2>2 DEF Send, SendRaises
    <3>2. /\ hand # << >> /\ hand' = Tail(hand) /\ outbox' = outbox
          /\ room' = [room EXCEPT ![Head(hand)] = @ + times]
          /\ pc' \in {"linger", "send"} /\ UNCHANGED <<calls, uses>>
      BY <3>1 DEF SendLine, PcGoes, notifyVars
    <3>3. Head(hand) \in Key /\ Tail(hand) \in Seq(Key)
      BY <1>1, <3>2 DEF DrainTypeOK
    <3>4. QED BY <1>1, <3>1, <3>2, <3>3 DEF DrainTypeOK, Slip
  <2>3. CASE Drain \/ Linger
    <3>1. /\ UNCHANGED <<outbox, hand>> \/ (hand' = outbox /\ outbox' = << >>)
          /\ pc' \in {"end", "linger", "path", "send"}
          /\ UNCHANGED <<room, calls, slips, uses>>
      BY <1>2, <2>3 DEF Drain, Linger, TakeOutbox, notifyVars
    <3>2. << >> \in Seq(Key)
      OBVIOUS
    <3>3. outbox' \in Seq(Key) /\ hand' \in Seq(Key)
      BY <1>1, <3>1, <3>2 DEF DrainTypeOK
    <3>4. QED BY <1>1, <3>1, <3>3 DEF DrainTypeOK
  <2>4. CASE \/ StartDrain \/ LockTimesOut \/ Locked \/ OpenKakao \/ LingerEnds
             \/ EndReads \/ EndRemoves
    BY <1>1, <1>2, <2>4
       DEF StartDrain, LockTimesOut, Locked, OpenKakao, LingerEnds, EndReads,
           EndRemoves, PcGoes, DrainTypeOK, notifyVars
  <2>5. QED BY <2>1, <2>2, <2>3, <2>4 DEF DispatcherStep
<1>6. QED BY <1>3, <1>4, <1>5 DEF IInv

LEMMA NotifyKeeps ==
  ASSUME IInv, NEW w \in Sender,
         \/ \E k \in Key : Claim(w, k)
         \/ SenderStep(w) \/ WriteFails(w) \/ MarkFails(w) \/ SenderDies(w)
  PROVE  IInv'
<1>1. LockInv /\ NotifyTypeOK /\ DrainTypeOK /\ LinesPaid
  BY DEF IInv
<1>2. NotifyTypeOK' /\ LinesPaid'
  BY <1>1, SenderKeeps
<1>3. LockInv'
  BY <1>1, LockSame
     DEF Claim, SenderStep, OpenOutbox, WriteLine, MarkSent, Release, WriteFails,
         MarkFails, SenderDies
<1>4. DrainTypeOK'
  <2>1. CASE WriteLine(w)
    <3>1. sender[w].key \in Key
      BY <1>1, <2>1 DEF WriteLine, SenderGoes, NotifyTypeOK, Senders, Idle
    <3>2. QED BY <1>1, <2>1, <3>1 DEF WriteLine, DrainTypeOK, drainVars
  <2>2. CASE \/ \E k \in Key : Claim(w, k)
             \/ OpenOutbox(w) \/ MarkSent(w) \/ Release(w)
             \/ WriteFails(w) \/ MarkFails(w) \/ SenderDies(w)
    BY <1>1, <2>2
       DEF Claim, OpenOutbox, MarkSent, Release, WriteFails, MarkFails, SenderDies,
           Slip, DrainTypeOK, drainVars
  <2>3. QED BY <2>1, <2>2 DEF SenderStep
<1>5. QED BY <1>2, <1>3, <1>4 DEF IInv

LEMMA StepKeeps == IInv /\ [Next]_vars => IInv'
<1> SUFFICES ASSUME IInv, [Next]_vars PROVE IInv'
  OBVIOUS
<1>1. LockInv /\ NotifyTypeOK /\ DrainTypeOK /\ LinesPaid
  BY DEF IInv
<1>2. CASE UNCHANGED vars
  <2>1. UNCHANGED lockVars /\ UNCHANGED notifyVars
    BY <1>2 DEF vars
  <2>2. DrainTypeOK'
    BY <1>1, <1>2 DEF vars, notifyVars, drainVars, DrainTypeOK
  <2>3. QED BY <1>1, <2>1, <2>2, LockSame, NotifySame DEF IInv, notifyVars
<1>3. CASE \E k \in Key : ClaimTimesOut(k)
  <2>1. PICK k \in Key : ClaimTimesOut(k)
    BY <1>3
  <2>2. /\ late' = [late EXCEPT ![k] = TRUE] /\ slips' \in Nat
        /\ UNCHANGED <<lockVars, claim, sender, queued, excuse, calls, outbox, drainVars, uses>>
    BY <1>1, <2>1 DEF ClaimTimesOut, Slip, DrainTypeOK
  <2>3. NotifyTypeOK' /\ LinesPaid'
    BY <1>1, <2>2 DEF NotifyTypeOK, LinesPaid, LinePaid, Busy
  <2>4. DrainTypeOK'
    BY <1>1, <2>2 DEF DrainTypeOK, drainVars
  <2>5. QED BY <1>1, <2>2, <2>3, <2>4, LockSame DEF IInv
<1>4. CASE \E p \in Proc : OtherUses(p) \/ OtherStep(p) \/ OtherDies(p) \/ TryLock(p)
  <2>1. PICK p \in Proc : OtherUses(p) \/ OtherStep(p) \/ OtherDies(p) \/ TryLock(p)
    BY <1>4
  <2>2. /\ \/ Ask(p) \/ CreateFile(p) \/ WritePid(p) \/ FindStale(p) \/ Break(p)
           \/ GiveUp(p) \/ ReadOwn(p) \/ RemoveOwn(p) \/ RemoveFails(p) \/ Die(p)
        /\ UNCHANGED <<notifyVars, outbox, drainVars, slips>> /\ uses' \in Nat
    BY <1>1, <2>1
       DEF OtherUses, OtherStep, OtherDies, TryLock, KakaoVarsSame, DrainTypeOK
  <2>3. LockInv'
    BY <1>1, <2>2, LockKeeps
  <2>4. NotifyTypeOK' /\ LinesPaid'
    BY <1>1, <2>2, NotifySame DEF notifyVars
  <2>5. DrainTypeOK'
    BY <1>1, <2>2 DEF DrainTypeOK, notifyVars, drainVars
  <2>6. QED BY <2>3, <2>4, <2>5 DEF IInv
<1>5. QED BY <1>2, <1>3, <1>4, DispatcherKeeps, NotifyKeeps DEF Next

\* The counts hold in every reachable state (kakao_lock.py, kakao_notify.py).
THEOREM Inductive == Spec => []IInv
BY InitIInv, StepKeeps, PTL DEF Spec

\* The types of the notifications and of the lock.
THEOREM TypeCorrect == Spec => []TypeOK
<1>1. IInv => TypeOK
  BY DEF IInv, LockInv, TypeOK
<1>2. QED BY <1>1, Inductive, PTL

\* The window has one user, and one more for each file of a live process that was
\* removed as stale (_is_stale_lock, release_lock).
THEOREM OneUser == Spec => []OneUserUnlessBroken
<1>1. IInv => OneUserUnlessBroken
  BY UsersPaid DEF IInv
<1>2. QED BY <1>1, Inductive, PTL

\* A key is queued once, and once more for each claim that timed out and each
\* failure after its line was written (_claim_notification, _release_notification).
THEOREM QueuedOnce == Spec => []QueuedOnceUnlessExcused
<1>1. IInv => QueuedOnceUnlessExcused
  <2> SUFFICES ASSUME IInv, NEW k \in Key PROVE queued[k] <= 1 + excuse[k]
    BY DEF QueuedOnceUnlessExcused
  <2>1. IsFiniteSet(Busy(k))
    <3>1. Busy(k) \in SUBSET Sender /\ IsFiniteSet(Sender)
      BY KakaoAssumption DEF Busy
    <3>2. QED BY <3>1, FS_Subset
  <2>2. Cardinality(Busy(k)) \in Nat
    BY <2>1, FS_CardinalityType
  <2>3. QED BY <2>2 DEF IInv, LinesPaid, LinePaid, NotifyTypeOK
<1>2. QED BY <1>1, Inductive, PTL
-----------------------------------------------------------------------------
(* Where the lines are.                                                    *)

Positions(s, k) == {i \in DOMAIN s : s[i] = k}

LEMMA CountType ==
  ASSUME NEW s \in Seq(Key), NEW k
  PROVE  /\ IsFiniteSet(Positions(s, k)) /\ CountOf(s, k) \in Nat
         /\ CountOf(s, k) = Cardinality(Positions(s, k))
<1>1. Positions(s, k) \in SUBSET (1 .. Len(s)) /\ Len(s) \in Nat
  BY DEF Positions
<1>2. IsFiniteSet(1 .. Len(s))
  BY <1>1, FS_Interval
<1>3. IsFiniteSet(Positions(s, k))
  BY <1>1, <1>2, FS_Subset
<1>4. CountOf(s, k) = Cardinality(Positions(s, k))
  BY DEF CountOf, Positions
<1>5. QED BY <1>3, <1>4, FS_CardinalityType

LEMMA CountEmpty ==
  ASSUME NEW k PROVE CountOf(<< >>, k) = 0
<1>1. {i \in DOMAIN << >> : << >>[i] = k} = {}
  OBVIOUS
<1>2. QED BY <1>1, FS_EmptySet DEF CountOf

LEMMA CountAppend ==
  ASSUME NEW s \in Seq(Key), NEW x \in Key, NEW k
  PROVE  CountOf(Append(s, x), k) = CountOf(s, k) + (IF x = k THEN 1 ELSE 0)
<1> DEFINE n == Len(s) + 1
           P == Positions(s, k)
<1>1. /\ Append(s, x) \in Seq(Key) /\ Len(s) \in Nat
      /\ DOMAIN s = 1 .. Len(s) /\ DOMAIN Append(s, x) = 1 .. n
      /\ \A i \in 1 .. Len(s) : Append(s, x)[i] = s[i]
      /\ Append(s, x)[n] = x
  OBVIOUS
<1>2. n \notin P
  BY <1>1 DEF Positions
<1>3. Positions(Append(s, x), k) = IF x = k THEN P \cup {n} ELSE P
  BY <1>1 DEF Positions
<1>4. IsFiniteSet(P) /\ Cardinality(P) \in Nat /\ CountOf(s, k) = Cardinality(P)
      /\ CountOf(Append(s, x), k) = Cardinality(Positions(Append(s, x), k))
  BY <1>1, CountType
<1> HIDE DEF P, n
<1>5. Cardinality(P \cup {n}) = Cardinality(P) + (IF n \in P THEN 0 ELSE 1)
  BY <1>4, AddMember, Zenon
<1>6. QED BY <1>2, <1>3, <1>4, <1>5

LEMMA CountTail ==
  ASSUME NEW s \in Seq(Key), s # << >>, NEW k
  PROVE  CountOf(s, k) = CountOf(Tail(s), k) + (IF Head(s) = k THEN 1 ELSE 0)
<1> DEFINE P == Positions(s, k)
           T == Positions(Tail(s), k)
           f == [i \in T |-> i + 1]
<1>1. /\ Tail(s) \in Seq(Key) /\ Len(s) \in Nat /\ Len(s) >= 1
      /\ DOMAIN s = 1 .. Len(s) /\ DOMAIN Tail(s) = 1 .. (Len(s) - 1)
      /\ \A i \in 1 .. (Len(s) - 1) : Tail(s)[i] = s[i + 1]
      /\ Head(s) = s[1]
  OBVIOUS
<1>2. \A i \in T : i \in Nat /\ i + 1 \in P \ {1}
  BY <1>1 DEF Positions
<1>3. \A j \in P \ {1} : j - 1 \in T /\ (j - 1) + 1 = j
  BY <1>1 DEF Positions
<1>4. f \in Bijection(T, P \ {1})
  <2>1. f \in [T -> P \ {1}]
    BY <1>2
  <2>2. \A i, j \in T : f[i] = f[j] => i = j
    BY <1>2
  <2>3. \A j \in P \ {1} : \E i \in T : f[i] = j
    BY <1>3
  <2> HIDE DEF f, T, P
  <2>4. QED BY <2>1, <2>2, <2>3 DEF Bijection, Injection, Surjection, IsInjective
<1>5. /\ IsFiniteSet(P) /\ Cardinality(P) \in Nat /\ CountOf(s, k) = Cardinality(P)
      /\ IsFiniteSet(T) /\ Cardinality(T) \in Nat /\ CountOf(Tail(s), k) = Cardinality(T)
  BY <1>1, CountType
<1>6. 1 \in P <=> Head(s) = k
  BY <1>1 DEF Positions
<1> HIDE DEF f, T, P
<1>7. Cardinality(P \ {1}) = Cardinality(T)
  BY <1>4, <1>5, FS_Bijection, Zenon DEF ExistsBijection
<1>8. Cardinality(P \ {1}) = Cardinality(P) - (IF 1 \in P THEN 1 ELSE 0)
  BY <1>5, RemoveMember, Zenon
<1>9. QED BY <1>5, <1>6, <1>7, <1>8

LEMMA TailOfOne == ASSUME NEW s \in Seq(Key), Len(s) = 1 PROVE Tail(s) = << >>
<1>1. s # << >>
  <2>1. s = << >> => Len(s) = 0
    BY SMT
  <2>2. QED BY <2>1
<1>2. Tail(s) \in Seq(Key)
  BY <1>1
<1>3. Len(Tail(s)) = 0
  BY <1>1
<1>4. ASSUME NEW t \in Seq(Key), Len(t) = 0 PROVE t = << >>
  BY <1>4
<1>5. QED BY <1>2, <1>3, <1>4

\* The dispatcher takes the file only when it has nothing in hand.
HandsFree == hand # << >> => pc \in {"path", "send"}

AllThere == HandsFree /\ NothingLostUnlessFailed

\* What neither fails nor moves a line.
LEMMA SameLines ==
  ASSUME IInv, AllThere, HandsFree', slips' = 0 => slips = 0, crashes' = 0 => crashes = 0,
         UNCHANGED <<queued, outbox, hand, room>> \/ slips' # 0 \/ crashes' # 0
  PROVE  AllThere'
BY DEF AllThere, NothingLostUnlessFailed, CountOf

LEMMA StepAllThere == IInv /\ AllThere /\ [Next]_vars => AllThere'
<1> SUFFICES ASSUME IInv, AllThere, [Next]_vars PROVE AllThere'
  OBVIOUS
<1>0. /\ slips \in Nat /\ crashes \in Nat /\ outbox \in Seq(Key) /\ hand \in Seq(Key)
      /\ room \in [Key -> Nat] /\ queued \in [Key -> Nat]
      /\ sender \in Senders /\ HandsFree
  BY DEF IInv, LockInv, LockTypeOK, DrainTypeOK, NotifyTypeOK, AllThere
<1>1. ASSUME NEW w \in Sender, WriteLine(w) PROVE AllThere'
  <2>1. /\ sender[w].key \in Key /\ outbox' = Append(outbox, sender[w].key)
        /\ queued' = [queued EXCEPT ![sender[w].key] = @ + 1]
        /\ UNCHANGED <<crashes, slips, hand, room, pc>>
    BY <1>0, <1>1 DEF WriteLine, SenderGoes, Senders, Idle, lockVars, drainVars
  <2>2. ASSUME NEW k \in Key, slips = 0, crashes = 0
        PROVE  queued'[k] = CountOf(outbox', k) + CountOf(hand', k) + room'[k]
    <3>1. queued[k] = CountOf(outbox, k) + CountOf(hand, k) + room[k]
      BY <2>2 DEF AllThere, NothingLostUnlessFailed
    <3>2. CountOf(outbox', k) = CountOf(outbox, k) + (IF sender[w].key = k THEN 1 ELSE 0)
      BY <1>0, <2>1, CountAppend
    <3>3. CountOf(hand', k) = CountOf(hand, k) /\ CountOf(hand, k) \in Nat
          /\ CountOf(outbox, k) \in Nat
      BY <1>0, <2>1, CountType
    <3>4. queued'[k] = queued[k] + (IF sender[w].key = k THEN 1 ELSE 0)
          /\ queued[k] \in Nat /\ room[k] \in Nat /\ room'[k] = room[k]
      BY <1>0, <2>1
    <3>5. QED BY <3>1, <3>2, <3>3, <3>4
  <2>3. NothingLostUnlessFailed'
    BY <2>1, <2>2 DEF NothingLostUnlessFailed, CountOf
  <2>4. QED BY <1>0, <2>1, <2>3 DEF AllThere, HandsFree
<1>2. CASE Drain \/ Linger
  <2>1. /\ pc \in {"drain", "linger"} /\ UNCHANGED <<queued, room, slips, crashes>>
        /\ \/ UNCHANGED <<outbox, hand>> /\ pc' \in {"end", "linger"}
           \/ /\ hand' = outbox /\ outbox' = << >>
              /\ outbox # << >> => pc' \in {"path", "send"}
    BY <1>2 DEF Drain, Linger, TakeOutbox, lockVars, notifyVars
  <2>2. hand = << >>
    BY <1>0, <2>1 DEF HandsFree
  <2>3. HandsFree'
    BY <2>1, <2>2 DEF HandsFree
  <2>4. CASE UNCHANGED <<outbox, hand>>
    BY <1>0, <2>1, <2>3, <2>4, SameLines
  <2>5. CASE hand' = outbox /\ outbox' = << >>
    <3>1. ASSUME NEW k \in Key, slips = 0, crashes = 0
          PROVE  queued'[k] = CountOf(outbox', k) + CountOf(hand', k) + room'[k]
      <4>1. queued[k] = CountOf(outbox, k) + CountOf(hand, k) + room[k]
        BY <3>1 DEF AllThere, NothingLostUnlessFailed
      <4>2. CountOf(hand, k) = 0 /\ CountOf(outbox', k) = 0
        BY <2>2, <2>5, CountEmpty
      <4>3. CountOf(hand', k) = CountOf(outbox, k) /\ CountOf(outbox, k) \in Nat
        BY <1>0, <2>5, CountType
      <4>4. QED BY <1>0, <2>1, <4>1, <4>2, <4>3
    <3>2. NothingLostUnlessFailed'
      BY <2>1, <3>1 DEF NothingLostUnlessFailed, CountOf
    <3>3. QED BY <2>3, <3>2 DEF AllThere
  <2>6. QED BY <2>1, <2>4, <2>5
<1>3. CASE Send
  <2>1. /\ pc = "send" /\ hand # << >> /\ hand' = Tail(hand)
        /\ pc' = IF Len(hand) = 1 THEN "linger" ELSE "send"
        /\ room' = [room EXCEPT ![Head(hand)] = @ + 1]
        /\ UNCHANGED <<queued, outbox, slips, crashes>>
    BY <1>3 DEF Send, SendLine, PcGoes, lockVars, notifyVars
  <2>2. HandsFree'
    <3>1. Len(hand) = 1 => Tail(hand) = << >>
      BY <1>0, TailOfOne
    <3>2. QED BY <2>1, <3>1 DEF HandsFree
  <2>3. ASSUME NEW k \in Key, slips = 0, crashes = 0
        PROVE  queued'[k] = CountOf(outbox', k) + CountOf(hand', k) + room'[k]
    <3>1. queued[k] = CountOf(outbox, k) + CountOf(hand, k) + room[k]
      BY <2>3 DEF AllThere, NothingLostUnlessFailed
    <3>2. CountOf(hand, k) = CountOf(hand', k) + (IF Head(hand) = k THEN 1 ELSE 0)
      BY <1>0, <2>1, CountTail
    <3>3. Head(hand) \in Key /\ Tail(hand) \in Seq(Key)
      BY <1>0, <2>1
    <3>4. CountOf(outbox', k) = CountOf(outbox, k)
          /\ CountOf(outbox, k) \in Nat /\ CountOf(hand', k) \in Nat
      BY <1>0, <2>1, <3>3, CountType
    <3>5. room'[k] = room[k] + (IF Head(hand) = k THEN 1 ELSE 0) /\ room[k] \in Nat
      <4>1. /\ room \in [Key -> Nat]
            /\ room' = [room EXCEPT ![Head(hand)] = room[Head(hand)] + 1]
        BY <1>0, <2>1
      <4>2. ASSUME NEW n, n = Head(hand), n \in Key
            PROVE  room'[k] = room[k] + (IF n = k THEN 1 ELSE 0) /\ room[k] \in Nat
        BY <4>1, <4>2
      <4>3. QED BY <3>3, <4>2
    <3>6. QED BY <1>0, <2>1, <3>1, <3>2, <3>4, <3>5
  <2>4. NothingLostUnlessFailed'
    BY <2>1, <2>3 DEF NothingLostUnlessFailed, CountOf
  <2>5. QED BY <2>2, <2>4 DEF AllThere
<1>4. CASE \/ StartDrain \/ LockTimesOut \/ Locked \/ OpenKakao \/ LingerEnds
           \/ EndReads \/ EndRemoves
  <2>1. /\ UNCHANGED <<queued, outbox, hand, room, slips, crashes>>
        /\ pc \in {"path", "send"} => pc' \in {"path", "send"}
    BY <1>4 DEF StartDrain, LockTimesOut, Locked, OpenKakao, LingerEnds, EndReads, EndRemoves,
                PcGoes, Ask, GiveUp, WritePid, ReadOwn, RemoveOwn, RemoveFails, LockGoes, lockVars,
                notifyVars
  <2>2. HandsFree'
    BY <1>0, <2>1 DEF HandsFree
  <2>3. QED BY <2>1, <2>2, SameLines
<1>5. CASE OpenKakaoFails \/ SendRaises \/ OpenChatFails \/ DispatcherDies
  <2>1. /\ (slips' = slips + 1 /\ crashes' = crashes) \/ (crashes' = crashes + 1 /\ slips' = slips)
        /\ hand' = << >> \/ (\E times \in 0 .. 2 : SendLine(times))
    BY <1>5 DEF OpenKakaoFails, SendRaises, OpenChatFails, DispatcherDies, Slip, Die, lockVars, SendLine
  <2>2. HandsFree'
    <3>1. ASSUME NEW times, SendLine(times) PROVE HandsFree'
      <4>1. /\ hand # << >> /\ hand' = Tail(hand)
            /\ pc' = IF Len(hand) = 1 THEN "linger" ELSE "send"
        BY <3>1 DEF SendLine, PcGoes
      <4>2. Len(hand) = 1 => Tail(hand) = << >>
        BY <1>0, TailOfOne
      <4>3. QED BY <4>1, <4>2 DEF HandsFree
    <3>2. QED BY <2>1, <3>1 DEF HandsFree
  <2>3. QED BY <1>0, <2>1, <2>2, SameLines
<1>6. ASSUME NEW w \in Sender,
             \/ \E k \in Key : Claim(w, k)
             \/ OpenOutbox(w) \/ MarkSent(w) \/ Release(w)
             \/ WriteFails(w) \/ MarkFails(w) \/ SenderDies(w)
      PROVE  AllThere'
  <2>1. /\ UNCHANGED <<queued, outbox, hand, room, pc, crashes>>
        /\ slips' = slips \/ slips' = slips + 1
    BY <1>6 DEF Claim, OpenOutbox, MarkSent, Release, WriteFails, MarkFails, SenderDies, Slip,
                lockVars, drainVars
  <2>2. HandsFree'
    BY <1>0, <2>1 DEF HandsFree
  <2>3. QED BY <1>0, <2>1, <2>2, SameLines
<1>7. CASE \/ \E k \in Key : ClaimTimesOut(k)
           \/ \E p \in Proc : OtherUses(p) \/ OtherStep(p) \/ OtherDies(p) \/ TryLock(p)
           \/ UNCHANGED vars
  <2>1. /\ UNCHANGED <<queued, outbox, hand, room, pc>>
        /\ slips' = slips \/ slips' = slips + 1
        /\ crashes' = crashes \/ crashes' = crashes + 1
    BY <1>7 DEF ClaimTimesOut, OtherUses, OtherStep, OtherDies, TryLock, KakaoVarsSame, Slip,
                Ask, CreateFile, WritePid, FindStale, Break, GiveUp, ReadOwn, RemoveOwn, RemoveFails, Die,
                vars, lockVars, notifyVars, drainVars
  <2>2. HandsFree'
    BY <1>0, <2>1 DEF HandsFree
  <2>3. QED BY <1>0, <2>1, <2>2, SameLines
<1>8. QED BY <1>1, <1>2, <1>3, <1>4, <1>5, <1>6, <1>7 DEF Next, SenderStep, DispatcherStep

\* While nothing fails, each line is in the outbox, in the dispatcher's hand or in
\* the room, exactly once, for any number of senders, processes and lines
\* (_append_json_line, _drain_atomic).
THEOREM NothingLost == Spec => []NothingLostUnlessFailed
<1>1. Init => AllThere
  <2>1. Init => /\ hand = << >> /\ outbox = << >>
                /\ \A k \in Key : queued[k] = 0 /\ room[k] = 0
    BY DEF Init
  <2>2. QED BY <2>1, CountEmpty DEF AllThere, HandsFree, NothingLostUnlessFailed
<1>2. AllThere => NothingLostUnlessFailed
  BY DEF AllThere
<1>3. QED BY <1>1, <1>2, StepAllThere, Inductive, PTL DEF Spec
=============================================================================
