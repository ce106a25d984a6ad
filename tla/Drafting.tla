------------------------------- MODULE Drafting -------------------------------
(***************************************************************************)
(* The drafts of one inquiry: AnswerService.generate_for_inquiry run by the*)
(* pipeline and by sessions, the workflow step ANSWER_GENERATED that keeps *)
(* them apart (WorkflowRepository, with its 15 minute lease), the edits,   *)
(* approvals, resets and cancellations of the staff (ApprovalService), and *)
(* the end of a post.  Every transaction is one action.                    *)
(*                                                                         *)
(* A draft's own text is PROGRAM; what a generator writes, its order and   *)
(* DPS look-ups and the claims behind a post are left out (DpsLookup,      *)
(* NaverPost).  So is an inquiry answered in the seller centre, whose      *)
(* drafts are edited without a review of the edit.                         *)
(***************************************************************************)
EXTENDS Naturals, Sequences, FiniteSets

CONSTANTS
  Gen,          \* threads that call generate_for_inquiry
  Pipeline,     \* the ones of the pipeline (AutomaticDraftService)
  Staff,        \* browser sessions
  Edit,         \* texts the staff types
  MaxDrafts,    \* bound: rows of answer_drafts
  MaxEvents,    \* bound: loads of the page by the staff, and deaths of generators
  MaxTakeovers, \* bound: times the step is taken over
  None

ASSUME DraftingAssumption ==
  /\ Pipeline \subseteq Gen
  /\ IsFiniteSet(Gen)
  /\ None \notin Edit /\ "PROGRAM" \notin Edit /\ None # "PROGRAM"
  /\ MaxDrafts \in Nat /\ MaxEvents \in Nat /\ MaxTakeovers \in Nat

VARIABLES
  step,         \* the status of the workflow step ANSWER_GENERATED
  aged,         \* the started_at of a RUNNING ANSWER_GENERATED is too old
  inquiry,      \* inquiries: workflow_status, approval_status, post_status
  drafts,       \* answer_drafts, in id order
  active,       \* the draft with is_active, or 0
  gen,          \* per generator: its place, its draft, whether it found it active
  staff,        \* per session: its place, the draft it loaded, whether updated_at is
                \* still what it was then, the text it writes
  replaced,     \* ghost: a generator has found its active draft replaced by another's
  opens, takeovers, crashes

vars == <<step, aged, inquiry, drafts, active, gen, staff, replaced, opens,
          takeovers, crashes>>
-----------------------------------------------------------------------------
Status == {"PENDING", "RUNNING", "COMPLETED", "FAILED", "SKIPPED"}
Text == Edit \cup {"PROGRAM"}
Row == [edited: Edit \cup {None}, final: Text \cup {None},
        review: {"PENDING", "IN_REVIEW", "APPROVED", "AUTO_FINALIZED"},
        posted: BOOLEAN]
NoJob == [pc |-> "idle", draft |-> 0, activated |-> FALSE]
NoPage == [pc |-> "closed", draft |-> 0, fresh |-> FALSE, text |-> None]

TypeOK ==
  /\ step \in Status
  /\ aged \in BOOLEAN
  /\ inquiry \in [workflow: {"NEW", "NEEDS_ATTENTION", "REVIEW_PENDING",
                             "READY_TO_POST", "POSTED"},
                  approved: BOOLEAN, posted: BOOLEAN]
  /\ drafts \in Seq(Row) /\ Len(drafts) <= MaxDrafts
  /\ active \in 0..Len(drafts)
  /\ gen \in [Gen -> [pc: {"idle", "asked", "running", "inserted", "read",
                           "complete", "status", "blocked", "failing", "attention"},
                      draft: 0..Len(drafts), activated: BOOLEAN]]
  /\ staff \in [Staff -> [pc: {"closed", "open", "edit", "edited", "marked",
                               "approve", "reset", "cleared"},
                          draft: 0..Len(drafts), fresh: BOOLEAN,
                          text: Text \cup {None}]]
  /\ replaced \in BOOLEAN
  /\ opens \in Nat /\ takeovers \in Nat /\ crashes \in Nat

Init ==
  /\ step = "PENDING"
  /\ aged = FALSE
  /\ inquiry = [workflow |-> "NEW", approved |-> FALSE, posted |-> FALSE]
  /\ drafts = <<>> /\ active = 0
  /\ gen = [g \in Gen |-> NoJob]
  /\ staff = [s \in Staff |-> NoPage]
  /\ replaced = FALSE /\ opens = 0 /\ takeovers = 0 /\ crashes = 0
-----------------------------------------------------------------------------
(* Helpers.                                                                *)

\* What an approval makes final: the edit, or else the program's own text.
TextOf(row) == IF row.edited # None THEN row.edited ELSE "PROGRAM"
\* An UPDATE of draft d, by session s or by no session, changes updated_at.
Update(d, row) == drafts' = [drafts EXCEPT ![d] = row]
Touched(d) == [s \in Staff |-> IF staff[s].draft = d
                               THEN [staff[s] EXCEPT !.fresh = FALSE] ELSE staff[s]]
Protected(d) == d # 0 /\ (drafts[d].final # None \/ drafts[d].review = "APPROVED")

GenGoes(g, pc) == gen' = [gen EXCEPT ![g].pc = pc]
StaffGoes(s, pc) == staff' = [staff EXCEPT ![s].pc = pc]
Writes(s, pc) == staff' = [Touched(staff[s].draft) EXCEPT ![s].pc = pc]
Close(s) == staff' = [staff EXCEPT ![s] = NoPage]
Workflow(status) == inquiry' = [inquiry EXCEPT !.workflow = status]
-----------------------------------------------------------------------------
(* generate_for_inquiry.                                                   *)

\* AutomaticDraftService: only for an inquiry without an active draft.
Ask(g) ==
  /\ g \in Pipeline /\ gen[g].pc = "idle" /\ active = 0
  /\ GenGoes(g, "asked")
  /\ UNCHANGED <<step, aged, inquiry, drafts, active, staff, replaced, opens,
                 takeovers, crashes>>

MayStart(g) ==
  /\ gen[g].pc = IF g \in Pipeline THEN "asked" ELSE "idle"
  /\ ~inquiry.posted

Claim(g) ==
  /\ step' = "RUNNING"
  /\ aged' = FALSE
  /\ GenGoes(g, "running")
  /\ UNCHANGED <<inquiry, drafts, active, staff, replaced, opens, crashes>>

\* _start_generation_step; a SKIPPED step, or one RUNNING within its lease, is
\* refused before anything is written.
Start(g) ==
  /\ MayStart(g)
  /\ step \in {"PENDING", "FAILED", "COMPLETED"}
  /\ Claim(g) /\ UNCHANGED takeovers

\* Mutant: a RUNNING step is taken over without a look at its age.
TakeOverAnyAge(g) ==
  /\ MayStart(g) /\ step = "RUNNING"
  /\ Claim(g) /\ takeovers' = IF aged THEN takeovers + 1 ELSE takeovers

\* recover_stale_answer_generation.
TakeOver(g) ==
  /\ MayStart(g) /\ step = "RUNNING" /\ aged
  /\ Claim(g) /\ takeovers' = takeovers + 1

\* An automatic call whose start is refused.
Refused(g) ==
  /\ gen[g].pc = "asked"
  /\ GenGoes(g, "idle")
  /\ UNCHANGED <<step, aged, inquiry, drafts, active, staff, replaced, opens,
                 takeovers, crashes>>

\* ANSWER_GENERATION_STALE_SECONDS go by.
Age ==
  /\ step = "RUNNING" /\ ~aged /\ takeovers < MaxTakeovers
  /\ aged' = TRUE
  /\ UNCHANGED <<step, inquiry, drafts, active, gen, staff, replaced, opens,
                 takeovers, crashes>>

\* create_program_draft: refused on a posted inquiry; the new row becomes the
\* active one unless the active one is approved or final.
Insert(g) ==
  /\ gen[g].pc = "running"
  /\ IF inquiry.posted
     THEN GenGoes(g, "failing") /\ UNCHANGED <<drafts, active>>
     ELSE /\ Len(drafts) < MaxDrafts
          /\ drafts' = Append(drafts, [edited |-> None, final |-> None,
                                       review |-> "PENDING", posted |-> FALSE])
          /\ active' = IF Protected(active) THEN active ELSE Len(drafts) + 1
          /\ gen' = [gen EXCEPT ![g] = [pc |-> "inserted", draft |-> Len(drafts) + 1,
                                        activated |-> ~Protected(active)]]
  /\ UNCHANGED <<step, aged, inquiry, staff, replaced, opens, takeovers, crashes>>

\* A policy block (AutoAnswerProhibitedError), or any other exception.
Stop(g) ==
  /\ gen[g].pc = "running"
  /\ GenGoes(g, "blocked") \/ GenGoes(g, "failing")
  /\ UNCHANGED <<step, aged, inquiry, drafts, active, staff, replaced, opens,
                 takeovers, crashes>>

\* The draft is read again: another generator may have replaced it, ...
ReadBack(g) ==
  /\ gen[g].pc = "inserted"
  /\ gen' = [gen EXCEPT ![g].pc = "read", ![g].activated = (active = gen[g].draft)]
  /\ replaced' = (replaced \/ (gen[g].activated /\ active # gen[g].draft))
  /\ UNCHANGED <<step, aged, inquiry, drafts, active, staff, opens, takeovers, crashes>>

\* ... and so is the active one, which must be it if it was found active.
ReadActive(g) ==
  /\ gen[g].pc = "read"
  /\ gen' = [gen EXCEPT ![g].draft = 0,
                        ![g].pc = IF gen[g].activated /\ active # gen[g].draft
                                  THEN "failing" ELSE "complete"]
  /\ UNCHANGED <<step, aged, inquiry, drafts, active, staff, replaced, opens,
                 takeovers, crashes>>

\* complete_step: only a RUNNING step, whoever runs it; else an exception.
CompleteStep(g) ==
  /\ gen[g].pc = "complete"
  /\ IF step = "RUNNING"
     THEN /\ step' = "COMPLETED"
          /\ GenGoes(g, "status")
     ELSE GenGoes(g, "failing") /\ UNCHANGED step
  /\ UNCHANGED <<aged, inquiry, drafts, active, staff, replaced, opens, takeovers,
                 crashes>>

SetStatus(g) ==
  /\ gen[g].pc = "status"
  /\ IF gen[g].activated THEN Workflow("REVIEW_PENDING") ELSE UNCHANGED inquiry
  /\ gen' = [gen EXCEPT ![g] = NoJob]
  /\ UNCHANGED <<step, aged, drafts, active, staff, replaced, opens, takeovers,
                 crashes>>

\* Mutant: a policy block is not shown to the staff.
EndStepQuietly(g) ==
  LET target == IF gen[g].pc = "blocked" THEN "SKIPPED" ELSE "FAILED" IN
  /\ gen[g].pc \in {"blocked", "failing"}
  /\ IF step = "RUNNING" \/ (target = "SKIPPED" /\ step = "FAILED")
     THEN /\ step' = target
          /\ gen' = [gen EXCEPT ![g] = IF target = "SKIPPED" THEN NoJob
                                       ELSE [@ EXCEPT !.pc = "attention"]]
     ELSE gen' = [gen EXCEPT ![g] = NoJob] /\ UNCHANGED step
  /\ UNCHANGED <<aged, inquiry, drafts, active, staff, replaced, opens, takeovers,
                 crashes>>

\* The exception handler: skip_step or fail_step; if the step does not allow it
\* any more, the exception is logged and the status is not set.
EndStep(g) ==
  LET target == IF gen[g].pc = "blocked" THEN "SKIPPED" ELSE "FAILED" IN
  /\ gen[g].pc \in {"blocked", "failing"}
  /\ IF step = "RUNNING" \/ (target = "SKIPPED" /\ step = "FAILED")
     THEN /\ step' = target
          /\ GenGoes(g, "attention")
     ELSE gen' = [gen EXCEPT ![g] = NoJob] /\ UNCHANGED step
  /\ UNCHANGED <<aged, inquiry, drafts, active, staff, replaced, opens, takeovers,
                 crashes>>

SetAttention(g) ==
  /\ gen[g].pc = "attention"
  /\ Workflow("NEEDS_ATTENTION")
  /\ gen' = [gen EXCEPT ![g] = NoJob]
  /\ UNCHANGED <<step, aged, drafts, active, staff, replaced, opens, takeovers,
                 crashes>>

Crash(g) ==
  /\ gen[g].pc # "idle" /\ opens + crashes < MaxEvents
  /\ crashes' = crashes + 1
  /\ gen' = [gen EXCEPT ![g] = NoJob]
  /\ UNCHANGED <<step, aged, inquiry, drafts, active, staff, replaced, opens,
                 takeovers>>
-----------------------------------------------------------------------------
(* The answer panel. Every rerun of the page loads the active draft, and   *)
(* the button that was clicked acts on what was loaded.                    *)

Open(s) ==
  /\ staff[s].pc = "closed" /\ active # 0 /\ opens + crashes < MaxEvents
  /\ opens' = opens + 1
  /\ staff' = [staff EXCEPT ![s] = [pc |-> "open", draft |-> active,
                                    fresh |-> TRUE, text |-> None]]
  /\ UNCHANGED <<step, aged, inquiry, drafts, active, gen, replaced, takeovers,
                 crashes>>

\* _assert_editable.
Editable == ~inquiry.posted /\ ~inquiry.approved

\* save_edited_answer up to its first write; StaleAnswerStateError otherwise.
BeginEdit(s, t) ==
  /\ staff[s].pc = "open" /\ Editable /\ staff[s].fresh
  /\ drafts[staff[s].draft].edited # t
  /\ staff' = [staff EXCEPT ![s].pc = "edit", ![s].text = t]
  /\ UNCHANGED <<step, aged, inquiry, drafts, active, gen, replaced, opens,
                 takeovers, crashes>>

SaveEdit(s) ==
  LET d == staff[s].draft IN
  /\ staff[s].pc = "edit"
  /\ IF staff[s].fresh /\ ~drafts[d].posted
     THEN Update(d, [drafts[d] EXCEPT !.edited = staff[s].text]) /\ Writes(s, "edited")
     ELSE Close(s) /\ UNCHANGED drafts
  /\ UNCHANGED <<step, aged, inquiry, active, gen, replaced, opens, takeovers, crashes>>

\* update_review_status, in a transaction of its own, whatever updated_at is.
MarkReview(s) ==
  LET d == staff[s].draft
      mark == IF staff[s].pc = "edited" THEN "IN_REVIEW" ELSE "PENDING" IN
  /\ staff[s].pc \in {"edited", "cleared"}
  /\ IF drafts[d].posted
     THEN Close(s) /\ UNCHANGED drafts
     ELSE /\ Update(d, [drafts[d] EXCEPT !.review = mark])
          /\ IF staff[s].pc = "edited" THEN Writes(s, "marked")
             ELSE staff' = [Touched(d) EXCEPT ![s] = NoPage]
  /\ UNCHANGED <<step, aged, inquiry, active, gen, replaced, opens, takeovers, crashes>>

ReviewPending(s) ==
  /\ staff[s].pc = "marked"
  /\ Workflow("REVIEW_PENDING")
  /\ Close(s)
  /\ UNCHANGED <<step, aged, drafts, active, gen, replaced, opens, takeovers, crashes>>

\* reset_edited_answer writes without comparing updated_at.
BeginReset(s) ==
  /\ staff[s].pc = "open" /\ Editable
  /\ StaffGoes(s, "reset")
  /\ UNCHANGED <<step, aged, inquiry, drafts, active, gen, replaced, opens,
                 takeovers, crashes>>

ClearEdit(s) ==
  LET d == staff[s].draft IN
  /\ staff[s].pc = "reset"
  /\ IF drafts[d].posted
     THEN Close(s) /\ UNCHANGED drafts
     ELSE Update(d, [drafts[d] EXCEPT !.edited = None]) /\ Writes(s, "cleared")
  /\ UNCHANGED <<step, aged, inquiry, active, gen, replaced, opens, takeovers, crashes>>

\* ApprovalService.approve reads the text.
BeginApprove(s) ==
  /\ staff[s].pc = "open" /\ Editable
  /\ staff' = [staff EXCEPT ![s].pc = "approve",
                            ![s].text = TextOf(drafts[staff[s].draft])]
  /\ UNCHANGED <<step, aged, inquiry, drafts, active, gen, replaced, opens,
                 takeovers, crashes>>

Approved(s) ==
  LET d == staff[s].draft IN
  /\ Update(d, [drafts[d] EXCEPT !.final = staff[s].text, !.review = "APPROVED"])
  /\ inquiry' = [inquiry EXCEPT !.approved = TRUE, !.workflow = "READY_TO_POST"]
  /\ staff' = [Touched(d) EXCEPT ![s] = NoPage]

\* Mutant: updated_at is not compared.
CommitApproveAnyVersion(s) ==
  /\ staff[s].pc = "approve"
  /\ IF Editable THEN Approved(s) ELSE Close(s) /\ UNCHANGED <<inquiry, drafts>>
  /\ UNCHANGED <<step, aged, active, gen, replaced, opens, takeovers, crashes>>

\* ApprovalRepository.approve compares with what the page had loaded.
CommitApprove(s) ==
  /\ staff[s].pc = "approve"
  /\ IF Editable /\ staff[s].fresh
     THEN Approved(s) ELSE Close(s) /\ UNCHANGED <<inquiry, drafts>>
  /\ UNCHANGED <<step, aged, active, gen, replaced, opens, takeovers, crashes>>

\* cancel_approval of the draft that was loaded, whichever was approved.
CancelApproval(s) ==
  LET d == staff[s].draft IN
  /\ staff[s].pc = "open" /\ inquiry.approved /\ staff[s].fresh
  /\ Update(d, [drafts[d] EXCEPT !.final = None, !.review = "IN_REVIEW"])
  /\ inquiry' = [inquiry EXCEPT !.approved = FALSE, !.workflow = "REVIEW_PENDING"]
  /\ staff' = [Touched(d) EXCEPT ![s] = NoPage]
  /\ UNCHANGED <<step, aged, active, gen, replaced, opens, takeovers, crashes>>

\* The page is left, or its call is refused: nothing is written.
Leave(s) ==
  /\ staff[s].pc = "open"
  /\ Close(s)
  /\ UNCHANGED <<step, aged, inquiry, drafts, active, gen, replaced, opens,
                 takeovers, crashes>>
-----------------------------------------------------------------------------
(* The pipeline after its draft, and the end of a post.                    *)

\* PostReviewRepository.finalize_auto, of the draft that was active when the run
\* read it; one that was replaced meanwhile is still given the final answer.
FinalizeAuto(d) ==
  /\ ~inquiry.posted /\ drafts[d].final = None
  /\ Update(d, [drafts[d] EXCEPT !.final = "PROGRAM", !.review = "AUTO_FINALIZED"])
  /\ staff' = Touched(d)
  /\ UNCHANGED <<step, aged, inquiry, active, gen, replaced, opens, takeovers, crashes>>

\* _hold_for_review, for what the pipeline does not post by itself.
HoldForReview ==
  /\ active # 0
  /\ Workflow("NEEDS_ATTENTION")
  /\ UNCHANGED <<step, aged, drafts, active, gen, staff, replaced, opens, takeovers,
                 crashes>>

\* NaverPostRepository.succeed, for the active draft.
Post ==
  /\ active # 0 /\ ~inquiry.posted
  /\ inquiry' = [inquiry EXCEPT !.posted = TRUE, !.workflow = "POSTED"]
  /\ Update(active, [drafts[active] EXCEPT !.posted = TRUE])
  /\ staff' = Touched(active)
  /\ UNCHANGED <<step, aged, active, gen, replaced, opens, takeovers, crashes>>
-----------------------------------------------------------------------------
GenStep(g) ==
  \/ Ask(g) \/ Start(g) \/ TakeOver(g) \/ Refused(g)
  \/ Insert(g) \/ Stop(g) \/ ReadBack(g) \/ ReadActive(g)
  \/ CompleteStep(g) \/ SetStatus(g) \/ EndStep(g) \/ SetAttention(g)
StaffStep(s) ==
  \/ Open(s) \/ Leave(s)
  \/ (\E t \in Edit : BeginEdit(s, t)) \/ SaveEdit(s)
  \/ MarkReview(s) \/ ReviewPending(s)
  \/ BeginReset(s) \/ ClearEdit(s)
  \/ BeginApprove(s) \/ CommitApprove(s) \/ CancelApproval(s)

Next ==
  \/ \E g \in Gen : GenStep(g) \/ Crash(g)
  \/ \E s \in Staff : StaffStep(s)
  \/ \E d \in DOMAIN drafts : FinalizeAuto(d)
  \/ Age \/ HoldForReview \/ Post

Spec == Init /\ [][Next]_vars
-----------------------------------------------------------------------------
(* Properties.                                                             *)

\* The step admits one generator at a time, but for those that outlived their
\* lease: there is at most one more for every time it was taken over, although
\* a late one closes the step of the one that runs.
Working == {g \in Gen : gen[g].pc \in {"running", "inserted", "read", "complete",
                                       "blocked", "failing"}}
OneGeneratorUnlessTakenOver ==
  Cardinality(Working) <= takeovers + (IF step = "RUNNING" THEN 1 ELSE 0)

IInv == TypeOK /\ OneGeneratorUnlessTakenOver

\* What an approval makes final is what the draft says at that moment, whatever
\* other sessions save or reset meanwhile.
ApprovesCurrentText ==
  [][\A d \in DOMAIN drafts :
       drafts'[d].review = "APPROVED" /\ drafts[d].review # "APPROVED" =>
         drafts'[d].final = TextOf(drafts[d])]_vars

\* A generation that has ended, and did not die, is in front of the staff, as
\* the queue selects it: without a draft only by its status.  (A final answer is
\* left to whoever made it final.)  Not so once a late generator has found its draft
\* replaced: it completes the step of the one that replaced it and sets no status,
\* and that one is refused.
Seen ==
  (/\ \A g \in Gen : gen[g].pc \in {"idle", "asked"}
   /\ crashes = 0 /\ ~replaced /\ step # "PENDING" /\ ~inquiry.posted
   /\ active # 0 => drafts[active].final = None)
  => IF drafts = <<>>
     THEN inquiry.workflow = "NEEDS_ATTENTION"
     ELSE inquiry.workflow \in {"REVIEW_PENDING", "NEEDS_ATTENTION", "READY_TO_POST"}

=============================================================================
