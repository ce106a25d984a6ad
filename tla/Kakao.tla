-------------------------------- MODULE Kakao --------------------------------
(***************************************************************************)
(* Staff notifications in the KakaoTalk room.  notify_qna_safely claims a  *)
(* key in a table, appends a line to the outbox file and marks the key sent*)
(* (kakao_notify.py); the dispatcher, another process, takes the whole file*)
(* under the window's lock and types its lines into the room, one by one   *)
(* (naver_workflow/kakao_dispatcher.py).  A line is known here by its key. *)
(*                                                                         *)
(* An outbox that some sender has open cannot be renamed (Windows): the    *)
(* dispatcher then finds nothing in this turn.                             *)
(***************************************************************************)
EXTENDS KakaoLock, Sequences, SequencesExt

CONSTANTS
    Key,            \* notification keys: one per inquiry and outcome
    Sender,         \* threads that call notify_qna_safely
    Dispatcher,     \* the member of Proc that is the dispatcher
    None,           \* no key
    MaxCalls,       \* bound: calls of notify_qna_safely
    MaxSlips,       \* bound: failures while a line is queued, pending claims
                    \* that time out, and failures of the dispatcher
    MaxUses         \* bound: uses of the window by the other processes

ASSUME KakaoAssumption ==
    /\ Dispatcher \in Proc
    /\ None \notin Key
    /\ IsFiniteSet(Sender)
    /\ MaxCalls \in Nat /\ MaxSlips \in Nat /\ MaxUses \in Nat

VARIABLES
    claim,      \* the row of a key: "none", "pending", "sent"
    late,       \* the pending row is older than PENDING_TIMEOUT_MINUTES
    sender,     \* per sender: [pc, key]
    outbox,     \* the lines of the outbox file; << >> when there is none
    hand,       \* lines the dispatcher has read and not yet sent
    pc,         \* the dispatcher's place in drain_outbox_once
    room,       \* per key: times its text was typed into the room
    queued,     \* per key: lines ever appended
    excuse,     \* per key: events after which a second line is to be expected
    calls, slips, uses

notifyVars == <<claim, late, sender, queued, excuse, calls>>
drainVars == <<hand, pc, room>>
vars == <<lockVars, notifyVars, outbox, drainVars, slips, uses>>

Idle == [pc |-> "idle", key |-> None]

Senders == [Sender -> [pc : {"claimed", "open", "queued", "failed"}, key : Key]
                        \cup {Idle}]
NotifyTypeOK ==
    /\ claim \in [Key -> {"none", "pending", "sent"}] /\ late \in [Key -> BOOLEAN]
    /\ sender \in Senders
    /\ queued \in [Key -> Nat] /\ excuse \in [Key -> Nat]
DrainTypeOK ==
    /\ outbox \in Seq(Key) /\ hand \in Seq(Key)
    /\ pc \in {"poll", "lock", "drain", "path", "send", "linger", "end"}
    /\ room \in [Key -> Nat]
    /\ calls \in Nat /\ slips \in Nat /\ uses \in Nat

TypeOK == LockTypeOK /\ NotifyTypeOK /\ DrainTypeOK

Init ==
    /\ LockInit
    /\ claim = [k \in Key |-> "none"]
    /\ late = [k \in Key |-> FALSE]
    /\ sender = [w \in Sender |-> Idle]
    /\ outbox = << >> /\ hand = << >>
    /\ pc = "poll"
    /\ room = [k \in Key |-> 0]
    /\ queued = [k \in Key |-> 0]
    /\ excuse = [k \in Key |-> 0]
    /\ calls = 0 /\ slips = 0 /\ uses = 0

Slip ==
    /\ slips < MaxSlips
    /\ slips' = slips + 1

Excuse(k) ==
    excuse' = [excuse EXCEPT ![k] = @ + 1]

-----------------------------------------------------------------------------
(* notify_qna_safely.                                                      *)

SenderGoes(w, from, to) ==
    /\ sender[w].pc = from
    /\ sender' = [sender EXCEPT ![w].pc = to]

SenderEnds(w) ==
    sender' = [sender EXCEPT ![w] = Idle]

(* Mutant: the age of a pending row is not looked at.                      *)
ClaimableUnlessSent(k) == claim[k] # "sent"

(* Mutant: an old row is taken over whatever its status.                   *)
ClaimableOnceLate(k) == claim[k] = "none" \/ late[k]

(* _claim_notification: no row, or a pending row that has timed out.       *)
Claimable(k) ==
    claim[k] = "none" \/ (claim[k] = "pending" /\ late[k])

Claim(w, k) ==
    /\ sender[w] = Idle /\ calls < MaxCalls
    /\ Claimable(k)
    /\ calls' = calls + 1
    /\ claim' = [claim EXCEPT ![k] = "pending"]
    /\ late' = [late EXCEPT ![k] = FALSE]
    /\ sender' = [sender EXCEPT ![w] = [pc |-> "claimed", key |-> k]]
    /\ IF claim[k] = "pending" /\ late[k] THEN Excuse(k) ELSE UNCHANGED excuse
    /\ UNCHANGED <<lockVars, outbox, drainVars, queued, slips, uses>>

(* enqueue_kakao_message: the outbox is opened for appending ...           *)
OpenOutbox(w) ==
    /\ SenderGoes(w, "claimed", "open")
    /\ UNCHANGED <<lockVars, claim, late, queued, excuse, calls, outbox, drainVars, slips, uses>>

(* Mutant: the outbox is opened with "w".                                  *)
OverwriteLine(w) ==
    /\ SenderGoes(w, "open", "queued")
    /\ outbox' = <<sender[w].key>>
    /\ queued' = [queued EXCEPT ![sender[w].key] = @ + 1]
    /\ UNCHANGED <<lockVars, claim, late, excuse, calls, drainVars, slips, uses>>

(* ... the line is written and the file closed.                            *)
WriteLine(w) ==
    /\ SenderGoes(w, "open", "queued")
    /\ outbox' = Append(outbox, sender[w].key)
    /\ queued' = [queued EXCEPT ![sender[w].key] = @ + 1]
    /\ UNCHANGED <<lockVars, claim, late, excuse, calls, drainVars, slips, uses>>

(* No service folder, no room, no disk: nothing is written.                *)
WriteFails(w) ==
    /\ Slip
    /\ sender[w].pc \in {"claimed", "open"}
    /\ sender' = [sender EXCEPT ![w].pc = "failed"]
    /\ UNCHANGED <<lockVars, claim, late, queued, excuse, calls, outbox, drainVars, uses>>

(* _mark_notification_sent: an UPDATE by key, of whatever row is there.    *)
MarkSent(w) ==
    /\ sender[w].pc = "queued"
    /\ LET k == sender[w].key IN
         claim' = [claim EXCEPT ![k] = IF @ = "none" THEN "none" ELSE "sent"]
    /\ SenderEnds(w)
    /\ UNCHANGED <<lockVars, late, queued, excuse, calls, outbox, drainVars, slips, uses>>

(* The line is in the file and fsync, the close or the UPDATE raises.      *)
MarkFails(w) ==
    /\ Slip
    /\ SenderGoes(w, "queued", "failed")
    /\ Excuse(sender[w].key)
    /\ UNCHANGED <<lockVars, claim, late, queued, calls, outbox, drainVars, uses>>

(* _release_notification: the pending row of the key is deleted, whoever's *)
(* it is.                                                                  *)
Release(w) ==
    /\ sender[w].pc = "failed"
    /\ LET k == sender[w].key IN
         claim' = [claim EXCEPT ![k] = IF @ = "pending" THEN "none" ELSE @]
    /\ SenderEnds(w)
    /\ UNCHANGED <<lockVars, late, queued, excuse, calls, outbox, drainVars, slips, uses>>

(* The sender's process dies, or the release itself raises.                *)
SenderDies(w) ==
    /\ Slip
    /\ sender[w] # Idle
    /\ SenderEnds(w)
    /\ UNCHANGED <<lockVars, claim, late, queued, excuse, calls, outbox, drainVars, uses>>

(* A pending row passes PENDING_TIMEOUT_MINUTES; its sender may still be at*)
(* work.                                                                   *)
ClaimTimesOut(k) ==
    /\ Slip
    /\ claim[k] = "pending" /\ ~late[k]
    /\ late' = [late EXCEPT ![k] = TRUE]
    /\ UNCHANGED <<lockVars, claim, sender, queued, excuse, calls, outbox, drainVars, uses>>

-----------------------------------------------------------------------------
(* The dispatcher.                                                         *)

OutboxOpen == \E w \in Sender : sender[w].pc = "open"

PcGoes(from, to) ==
    /\ pc = from
    /\ pc' = to

(* drain_outbox_once finds an outbox and calls acquire_lock.               *)
StartDrain ==
    /\ PcGoes("poll", "lock")
    /\ outbox # << >>
    /\ Ask(Dispatcher)
    /\ UNCHANGED <<notifyVars, outbox, hand, room, slips, uses>>

(* acquire_lock timed out: the outbox is left for the next turn.           *)
LockTimesOut ==
    /\ PcGoes("lock", "poll")
    /\ GiveUp(Dispatcher)
    /\ UNCHANGED <<notifyVars, outbox, hand, room, slips, uses>>

Locked ==
    /\ PcGoes("lock", "drain")
    /\ WritePid(Dispatcher)
    /\ UNCHANGED <<notifyVars, outbox, hand, room, slips, uses>>

(* _drain_atomic: the file is renamed, read and removed; the lines are in  *)
(* memory only from here on.  It fails while a sender has the file open.   *)
TakeOutbox(to) ==
    IF OutboxOpen
      THEN UNCHANGED <<outbox, hand>> /\ pc' = to
      ELSE /\ hand' = outbox
           /\ outbox' = << >>
           /\ pc' = IF outbox = << >> THEN to ELSE IF pc = "drain" THEN "path" ELSE "send"

Drain ==
    /\ pc = "drain"
    /\ TakeOutbox("end")
    /\ UNCHANGED <<lockVars, notifyVars, room, slips, uses>>

(* get_kakao_path and open_kakao.                                          *)
OpenKakao ==
    /\ PcGoes("path", "send")
    /\ UNCHANGED <<lockVars, notifyVars, outbox, hand, room, slips, uses>>

(* One of them raises: return 0 with the batch in hand.                    *)
OpenKakaoFails ==
    /\ Slip
    /\ PcGoes("path", "end")
    /\ hand' = << >>
    /\ UNCHANGED <<lockVars, notifyVars, outbox, room, uses>>

(* _send_body_to_room types the text of the first line `times` times: once,*)
(* or otherwise when the first send_message raised and the relaunched      *)
(* window was tried, once more, in vain or with success.                   *)
SendLine(times) ==
    /\ PcGoes("send", IF Len(hand) = 1 THEN "linger" ELSE "send")
    /\ hand # << >>
    /\ hand' = Tail(hand)
    /\ room' = [room EXCEPT ![Head(hand)] = @ + times]
    /\ UNCHANGED <<lockVars, notifyVars, outbox, uses>>

Send == SendLine(1) /\ UNCHANGED slips

SendRaises == Slip /\ \E times \in 0 .. 2 : SendLine(times)

(* open_chat of a new room raises before the send: the exception leaves the*)
(* loop and the rest of the batch with it.                                 *)
OpenChatFails ==
    /\ Slip
    /\ PcGoes("send", "end")
    /\ hand' = << >>
    /\ UNCHANGED <<lockVars, notifyVars, outbox, room, uses>>

(* The linger loop drains again under the same lock until it finds nothing *)
(* for a while.                                                            *)
Linger ==
    /\ pc = "linger"
    /\ outbox # << >>
    /\ TakeOutbox("linger")
    /\ UNCHANGED <<lockVars, notifyVars, room, slips, uses>>

LingerEnds ==
    /\ PcGoes("linger", "end")
    /\ UNCHANGED <<lockVars, notifyVars, outbox, hand, room, slips, uses>>

(* Mutant: a turn that ends early keeps the lock.                          *)
EndKeepsLock ==
    /\ PcGoes("end", "poll")
    /\ UNCHANGED <<lockVars, notifyVars, outbox, hand, room, slips, uses>>

(* The finally clause: release_lock, then the next turn.                   *)
EndReads ==
    /\ pc = "end"
    /\ ReadOwn(Dispatcher)
    /\ pc' = IF lock = Dispatcher THEN "end" ELSE "poll"
    /\ UNCHANGED <<notifyVars, outbox, hand, room, slips, uses>>

EndRemoves ==
    /\ PcGoes("end", "poll")
    /\ RemoveOwn(Dispatcher) \/ RemoveFails(Dispatcher)
    /\ UNCHANGED <<notifyVars, outbox, hand, room, slips, uses>>

(* The dispatcher dies and is started again: what it had in hand is gone.  *)
DispatcherDies ==
    /\ Die(Dispatcher)
    /\ pc' = "poll"
    /\ hand' = << >>
    /\ UNCHANGED <<notifyVars, outbox, room, slips, uses>>

-----------------------------------------------------------------------------
(* The lock itself, and the other programs that drive the same window.     *)

KakaoVarsSame == UNCHANGED <<notifyVars, outbox, drainVars, slips>>

OtherUses(p) ==
    /\ p # Dispatcher
    /\ uses < MaxUses
    /\ Ask(p)
    /\ uses' = uses + 1
    /\ KakaoVarsSame

OtherStep(p) ==
    /\ p # Dispatcher
    /\ WritePid(p) \/ GiveUp(p) \/ ReadOwn(p) \/ RemoveOwn(p) \/ RemoveFails(p)
    /\ KakaoVarsSame /\ UNCHANGED uses

OtherDies(p) ==
    /\ p # Dispatcher
    /\ Die(p)
    /\ KakaoVarsSame /\ UNCHANGED uses

TryLock(p) ==
    /\ CreateFile(p) \/ FindStale(p) \/ Break(p)
    /\ KakaoVarsSame /\ UNCHANGED uses

-----------------------------------------------------------------------------

SenderStep(w) ==
    OpenOutbox(w) \/ WriteLine(w) \/ MarkSent(w) \/ Release(w)

DispatcherStep ==
    \/ StartDrain \/ LockTimesOut \/ Locked \/ Drain \/ OpenKakao
    \/ Send \/ Linger \/ LingerEnds \/ EndReads \/ EndRemoves

Next ==
    \/ \E w \in Sender : \/ \E k \in Key : Claim(w, k)
                         \/ SenderStep(w)
                         \/ WriteFails(w) \/ MarkFails(w) \/ SenderDies(w)
    \/ \E k \in Key : ClaimTimesOut(k)
    \/ DispatcherStep
    \/ OpenKakaoFails \/ SendRaises \/ OpenChatFails \/ DispatcherDies
    \/ \E p \in Proc : \/ OtherUses(p) \/ OtherStep(p) \/ OtherDies(p)
                       \/ TryLock(p)

(* Senders and the dispatcher run their loops, and whoever uses the window *)
(* ends some time; a file that stays gets old enough to count as stale for *)
(* a dispatcher that comes back again and again. No fairness for failures, *)
(* crashes and new calls.                                                  *)
Fairness ==
    /\ \A w \in Sender : WF_vars(SenderStep(w))
    /\ WF_vars(DispatcherStep)
    /\ \A p \in Proc : WF_vars(OtherStep(p)) /\ WF_vars(TryLock(p))
    /\ SF_vars(TryLock(Dispatcher))

Spec == Init /\ [][Next]_vars /\ Fairness

-----------------------------------------------------------------------------

(* A key is put into the outbox at most once, and once more only for a     *)
(* pending row that had timed out or a failure after the line was written: *)
(* two senders of one key, a release that deletes another sender's row and *)
(* a crash add nothing (_claim_notification, _release_notification).       *)
QueuedOnceUnlessExcused ==
    \A k \in Key : queued[k] <= 1 + excuse[k]

CountOf(s, k) == Cardinality({i \in DOMAIN s : s[i] = k})

(* While nothing has failed, every line is in the outbox, in the           *)
(* dispatcher's hand or in the room exactly once, however the appends, the *)
(* renames and the lock interleave (_append_json_line, _drain_atomic).     *)
NothingLostUnlessFailed ==
    (slips = 0 /\ crashes = 0) =>
        \A k \in Key : queued[k] = CountOf(outbox, k) + CountOf(hand, k) + room[k]

(* Every line leaves the outbox: the lock is released, timed out or broken,*)
(* and a dispatcher that dies or gives up comes back.                      *)
OutboxDrains ==
    outbox # << >> ~> outbox = << >>

-----------------------------------------------------------------------------
(* The inductive invariant.                                                *)

(* Senders that may yet write a line of key k, or release its claim.       *)
Busy(k) == {w \in Sender : /\ sender[w].pc \in {"claimed", "open", "failed"}
                           /\ sender[w].key = k}

(* The lines of a key, and the senders that may add one, are paid for by   *)
(* the key's row and by the excuses.                                       *)
LinePaid(k) ==
    queued[k] + Cardinality(Busy(k)) <= excuse[k] + (IF claim[k] = "none" THEN 0 ELSE 1)
LinesPaid == \A k \in Key : LinePaid(k)

IInv == LockInv /\ NotifyTypeOK /\ DrainTypeOK /\ LinesPaid

=============================================================================
