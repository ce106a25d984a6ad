------------------------------ MODULE KakaoLock ------------------------------
(***************************************************************************)
(* The lock file that serialises the use of the KakaoTalk window           *)
(* (kakao_lock.py).  A process takes the lock by creating the file         *)
(* exclusively and then writing its pid into it; a process that finds the  *)
(* file judges it stale by its pid or its age, removes it and tries again. *)
(* Judging and removing are two separate looks at the file system, and so  *)
(* are, in release_lock, reading one's own pid and removing the file.      *)
(*                                                                         *)
(* The program drives the Windows KakaoTalk client, so the file semantics  *)
(* are those of Windows: a file that is open cannot be removed.  A release *)
(* that fails for that reason is silent and leaves the file behind, with   *)
(* the pid of a process that is alive and has gone on.                     *)
(***************************************************************************)
EXTENDS Naturals, FiniteSets

CONSTANTS
    Proc,           \* the processes that use the KakaoTalk window
    Absent,         \* the lock file does not exist
    MaxBroken,      \* bound: locks of processes at work removed as stale
    MaxCrashes      \* bound: crashes of a process that uses the lock

ASSUME LockAssumption ==
    /\ Absent \notin Proc \cup {"half", "dead"}
    /\ {"half", "dead"} \cap Proc = {}
    /\ IsFiniteSet(Proc)
    /\ MaxBroken \in Nat /\ MaxCrashes \in Nat

VARIABLES
    lock,       \* Absent, the pid in the file, "half" (created, still open and
                \* empty) or "dead" (whoever made the file is gone)
    lockPc,     \* per process: where it is in acquire_lock and release_lock
    crashes,    \* crashes so far
    broken      \* files of processes at work removed as stale

lockVars == <<lock, lockPc, crashes, broken>>

LockPc == {"off", "want", "creating", "stale", "holding", "releasing"}

LockTypeOK ==
    /\ lock \in Proc \cup {Absent, "half", "dead"}
    /\ lockPc \in [Proc -> LockPc]
    /\ crashes \in Nat /\ broken \in Nat

LockInit ==
    /\ lock = Absent
    /\ lockPc = [p \in Proc |-> "off"]
    /\ crashes = 0
    /\ broken = 0

LockGoes(p, from, to) ==
    /\ lockPc[p] = from
    /\ lockPc' = [lockPc EXCEPT ![p] = to]

(* The processes between a successful acquire_lock and the end of their    *)
(* release_lock: they drive the window.                                    *)
Using == {p \in Proc : lockPc[p] \in {"holding", "releasing"}}

-----------------------------------------------------------------------------

(* acquire_lock is called.                                                 *)
Ask(p) ==
    /\ LockGoes(p, "off", "want")
    /\ UNCHANGED <<lock, crashes, broken>>

(* Mutant: the file is created without O_EXCL.                             *)
CreateAnyway(p) ==
    /\ LockGoes(p, "want", "creating")
    /\ lock' = "half"
    /\ UNCHANGED <<crashes, broken>>

(* os.open with O_CREAT | O_EXCL succeeds; the file is still empty.        *)
CreateFile(p) ==
    /\ lock = Absent
    /\ LockGoes(p, "want", "creating")
    /\ lock' = "half"
    /\ UNCHANGED <<crashes, broken>>

(* The pid is written and the file closed: acquire_lock returns.           *)
WritePid(p) ==
    /\ LockGoes(p, "creating", "holding")
    /\ lock' = p
    /\ UNCHANGED <<crashes, broken>>

(* What _is_stale_lock may answer for the file that is there now. A live   *)
(* lock is stale once it is stale_sec old: nothing renews the file while   *)
(* its owner works. (It is too when os.kill cannot reach the owner's       *)
(* process.)                                                               *)
JudgedStale ==
    \/ lock \in {"half", "dead"} \cup (Proc \ Using)
    \/ lock \in Using /\ broken < MaxBroken

FindStale(p) ==
    /\ JudgedStale
    /\ LockGoes(p, "want", "stale")
    /\ UNCHANGED <<lock, crashes, broken>>

(* LOCK_FILE.unlink(missing_ok=True) of whatever file is there by now; a   *)
(* file that is open stays, and the failure is swallowed.                  *)
Break(p) ==
    /\ lock \in Using => broken < MaxBroken
    /\ LockGoes(p, "stale", "want")
    /\ lock' = IF lock = "half" THEN lock ELSE Absent
    /\ broken' = IF lock \in Using THEN broken + 1 ELSE broken
    /\ UNCHANGED crashes

(* The file stayed fresh until the caller's timeout: TimeoutError.         *)
GiveUp(p) ==
    /\ lock \in Proc
    /\ LockGoes(p, "want", "off")
    /\ UNCHANGED <<lock, crashes, broken>>

(* release_lock reads the pid; only the process named there goes on.       *)
ReadOwn(p) ==
    /\ LockGoes(p, "holding", IF lock = p THEN "releasing" ELSE "off")
    /\ UNCHANGED <<lock, crashes, broken>>

(* ... and removes the file that is there by then, ...                     *)
RemoveOwn(p) ==
    /\ lock # "half"
    /\ LockGoes(p, "releasing", "off")
    /\ lock' = Absent
    /\ UNCHANGED <<crashes, broken>>

(* ... or fails to, since another process reads or writes it: the failure  *)
(* is swallowed.                                                           *)
RemoveFails(p) ==
    /\ LockGoes(p, "releasing", "off")
    /\ UNCHANGED <<lock, crashes, broken>>

(* A process dies; a file it was writing or had written stays.             *)
Die(p) ==
    /\ lockPc[p] # "off" \/ lock = p
    /\ crashes < MaxCrashes
    /\ crashes' = crashes + 1
    /\ lock' = IF lock = p \/ (lock = "half" /\ lockPc[p] = "creating")
                 THEN "dead" ELSE lock
    /\ lockPc' = [lockPc EXCEPT ![p] = "off"]
    /\ UNCHANGED broken

-----------------------------------------------------------------------------

(* The window has at most one user more than files of processes at work    *)
(* were removed as stale: breaking the lock of a process that is gone or   *)
(* has gone on, and releasing a lock that was broken and taken meanwhile,  *)
(* add no user (_is_stale_lock, release_lock).                             *)
OneUserUnlessBroken ==
    Cardinality(Using) <= 1 + broken

-----------------------------------------------------------------------------
(* The inductive invariant of the lock.                                    *)

Held == {p \in Proc : lockPc[p] \in {"creating", "holding", "releasing"}}

(* Whoever made the file or works under it is paid for: one by the file    *)
(* that is there, if it is that of a process at work or is being written,  *)
(* the others by the files that were removed.                              *)
HeldPaid ==
    Cardinality(Held) <= broken + (IF lock \in Using \cup {"half"} THEN 1 ELSE 0)

(* An empty file is open in the one process that is making it.             *)
FileSpeaks ==
    \A p \in Proc : lockPc[p] = "creating" =>
        lock = "half" /\ \A q \in Proc \ {p} : lockPc[q] # "creating"

LockInv == LockTypeOK /\ FileSpeaks /\ HeldPaid

=============================================================================
