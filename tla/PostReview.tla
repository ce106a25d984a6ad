------------------------------ MODULE PostReview ------------------------------
(***************************************************************************)
(* What happens to one inquiry after an answer was registered: the version *)
(* history, the staff review, corrections sent to the marketplace and the  *)
(* edits a sync observes there (PostReviewRepository, NaverPostService.    *)
(* correct, the review panel of the UI, and the end of the unattended      *)
(* pipeline).  Every transaction is one action; HTTP calls, page renders   *)
(* and the sync's listing lie between them.  Inquiries do not interact     *)
(* here, so one is modelled; the claims behind a post are in NaverPost.    *)
(***************************************************************************)
EXTENDS Naturals, Sequences, FiniteSets

CONSTANTS
  Body,         \* answer texts, compared by their hash
  Poster,       \* callers of NaverPostService.post
  Pipeline,     \* the poster that is the unattended pipeline
  Staff,        \* browser sessions with the review panel open
  MaxVersions,  \* bound: rows of answer_versions
  MaxEdits,     \* bound: edits made in the seller centre
  None

ASSUME PostReviewAssumption ==
  /\ Pipeline \in Poster
  /\ None \notin Body
  /\ MaxVersions \in Nat /\ MaxEdits \in Nat

VARIABLES
  inquiry,      \* inquiries: post_status, source_answered, posted_answer_hash
  draft,        \* the active draft: its text and its posted flag
  versions,     \* answer_versions; the version number is the index
  review,       \* the row of post_reviews, if any
  corrections,  \* post_corrections, in id order, with where their request is
  market,       \* the text the marketplace shows, all it ever showed, edits
  job,          \* per poster, the local variables of its call
  page,         \* per session, what was rendered and the correction it sends
  sync          \* the inquiry as a running sync has listed it

vars == <<inquiry, draft, versions, review, corrections, market, job, page, sync>>
-----------------------------------------------------------------------------
Text == Body \cup {None}
PostStatus == {"NOT_POSTED", "POSTING", "POSTED", "POST_FAILED", "POST_UNKNOWN"}
Kind == {"AUTO_POST_INITIAL", "STAFF_CORRECTION_DRAFT",
         "NAVER_CORRECTION_APPLIED", "REVIEWED_NO_CHANGE"}
NaverStatus == {"PENDING", "POSTED", "POST_FAILED", "POST_UNKNOWN",
                "CORRECTION_PENDING"}
ReviewStatus == {"AUTO_POSTED_UNREVIEWED", "REVIEWED_NO_CHANGE",
                 "CORRECTION_PENDING", "CORRECTED_AND_REPOSTED",
                 "CORRECTION_FAILED", "POST_FAILED", "POST_UNKNOWN"}
CorrectionStatus == {"POSTING", "SUCCEEDED", "FAILED", "UNKNOWN"}
Wire == {"sent", "arrived", "lost"}

NoReview == [status |-> "none", current |-> 0]
NoPage == [pc |-> "closed", buttons |-> {}, correction |-> 0]

TypeOK ==
  /\ inquiry \in [post: PostStatus, answered: BOOLEAN, hash: Text]
  /\ draft \in [body: Body, posted: BOOLEAN]
  /\ versions \in Seq([kind: Kind, body: Body, naver: NaverStatus])
  /\ review \in {NoReview} \cup [status: ReviewStatus, current: DOMAIN versions]
  /\ corrections \in Seq([proposed: DOMAIN versions, wire: Wire,
                          status: CorrectionStatus])
  /\ market \in [shown: Text, ever: SUBSET Body, edits: 0..MaxEdits]
  /\ job \in [Poster -> [pc: {"idle", "finalized", "claimed", "written",
                              "POSTED", "POST_FAILED", "POST_UNKNOWN"},
                         body: Text]]
  /\ page \in [Staff -> [pc: {"closed", "open", "sending"},
                         buttons: SUBSET {"correct", "no_change"},
                         correction: 0..Len(corrections)]]
  /\ sync \in [pc: {"idle", "listed"}, body: Text]

Init ==
  /\ inquiry = [post |-> "NOT_POSTED", answered |-> FALSE, hash |-> None]
  /\ \E b \in Body : draft = [body |-> b, posted |-> FALSE]
  /\ versions = <<>> /\ corrections = <<>>
  /\ review = NoReview
  /\ market = [shown |-> None, ever |-> {}, edits |-> 0]
  /\ job = [p \in Poster |-> [pc |-> "idle", body |-> None]]
  /\ page = [s \in Staff |-> NoPage]
  /\ sync = [pc |-> "idle", body |-> None]
-----------------------------------------------------------------------------
(* Numbering.  UNIQUE(inquiry_id, version_number): a row whose number is   *)
(* taken makes the INSERT, and with it the transaction, fail.              *)
NumberFree(n) == n = Len(versions) + 1
Insert(rows, kind, body, naver) ==
  Append(rows, [kind |-> kind, body |-> body, naver |-> naver])
Shows(b) == [market EXCEPT !.shown = b, !.ever = @ \cup {b}]
-----------------------------------------------------------------------------
(* The unattended pipeline, and a post by hand.                            *)

Postable == inquiry.post \in {"NOT_POSTED", "POST_FAILED"} /\ ~inquiry.answered

\* finalize_auto: version 1 is created once, and reused by a later retry.
FinalizeAuto ==
  /\ job[Pipeline].pc = "idle" /\ Postable
  /\ versions' = IF versions = <<>>
                 THEN Insert(versions, "AUTO_POST_INITIAL", draft.body, "PENDING")
                 ELSE versions
  /\ job' = [job EXCEPT ![Pipeline].pc = "finalized"]
  /\ UNCHANGED <<inquiry, draft, review, corrections, market, page, sync>>

Ready(p) == job[p].pc = IF p = Pipeline THEN "finalized" ELSE "idle"
SetJob(p, pc, body) == job' = [job EXCEPT ![p] = [pc |-> pc, body |-> body]]

\* post() up to acquire: it claims the inquiry with the draft's text, or is
\* BLOCKED (which leaves the review alone).
Claim(p) ==
  /\ Ready(p)
  /\ \/ /\ Postable /\ ~draft.posted
        /\ inquiry' = [inquiry EXCEPT !.post = "POSTING"]
        /\ SetJob(p, "claimed", draft.body)
     \/ /\ p = Pipeline
        /\ SetJob(p, "idle", None)
        /\ UNCHANGED inquiry
  /\ UNCHANGED <<draft, versions, review, corrections, market, page, sync>>

MarketTakesPost(p) ==
  /\ job[p].pc = "claimed"
  /\ market' = Shows(job[p].body)
  /\ SetJob(p, "written", job[p].body)
  /\ UNCHANGED <<inquiry, draft, versions, review, corrections, page, sync>>

\* succeed, fail and mark_already_answered, which change the inquiry only while
\* it is still POSTING.  Only the pipeline goes on to record the outcome in the
\* review; ALREADY_ANSWERED is not recorded there.
Settle(p, status, hash) ==
  /\ inquiry' = IF inquiry.post = "POSTING"
                THEN [inquiry EXCEPT !.post = status, !.hash = hash] ELSE inquiry
  /\ draft' = IF inquiry.post = "POSTING" /\ status = "POSTED"
              THEN [draft EXCEPT !.posted = TRUE] ELSE draft
  /\ SetJob(p, IF p = Pipeline /\ inquiry.post = "POSTING" THEN status ELSE "idle", None)
  /\ UNCHANGED <<versions, review, corrections, market, page, sync>>

PostSucceeds(p) ==
  /\ job[p].pc = "written"
  /\ Settle(p, "POSTED", job[p].body)

\* An error the client calls certain: nothing was written.
PostFails(p) ==
  /\ job[p].pc = "claimed"
  /\ Settle(p, "POST_FAILED", inquiry.hash)

\* A timeout after, or instead of, the request's arrival.
PostTimesOut(p) ==
  /\ job[p].pc \in {"claimed", "written"}
  /\ Settle(p, "POST_UNKNOWN", inquiry.hash)

PostFindsAnswer(p) ==
  /\ job[p].pc = "claimed" /\ market.shown # None
  /\ inquiry' = IF inquiry.post = "POSTING"
                THEN [inquiry EXCEPT !.post = "POSTED", !.answered = TRUE]
                ELSE inquiry
  /\ SetJob(p, "idle", None)
  /\ UNCHANGED <<draft, versions, review, corrections, market, page, sync>>

\* create_review_after_post and mark_post_failure, in a transaction of their
\* own: version 1 gets the outcome, the review is created, or overwritten; a
\* success also makes version 1 the current one again.
RecordOutcome ==
  LET status == job[Pipeline].pc IN
  /\ status \in {"POSTED", "POST_FAILED", "POST_UNKNOWN"}
  /\ versions' = [versions EXCEPT ![1].naver = status]
  /\ review' =
       [status |-> IF status = "POSTED" THEN "AUTO_POSTED_UNREVIEWED" ELSE status,
        current |-> IF status = "POSTED" \/ review = NoReview
                    THEN 1 ELSE review.current]
  /\ SetJob(Pipeline, "idle", None)
  /\ UNCHANGED <<inquiry, draft, corrections, market, page, sync>>

\* The process dies; a restart finds the inquiry POSTING and, in time, calls it
\* POST_UNKNOWN (recover_stale_posting).
CrashPoster(p) ==
  /\ job[p].pc # "idle"
  /\ SetJob(p, "idle", None)
  /\ UNCHANGED <<inquiry, draft, versions, review, corrections, market, page, sync>>

RecoverStalePosting ==
  /\ inquiry.post = "POSTING"
  /\ inquiry' = [inquiry EXCEPT !.post = "POST_UNKNOWN"]
  /\ UNCHANGED <<draft, versions, review, corrections, market, job, page, sync>>

\* save_final_answer on a draft that is not posted, where its text can still be
\* read again.
EditDraft(b) ==
  /\ ~draft.posted /\ inquiry.post \in {"NOT_POSTED", "POST_FAILED"}
  /\ draft' = [draft EXCEPT !.body = b]
  /\ UNCHANGED <<inquiry, versions, review, corrections, market, job, page, sync>>
-----------------------------------------------------------------------------
(* The review panel.                                                       *)

\* _render_auto_post_review enables its buttons by the status of the review as
\* it is now; they are pressed later.
Buttons(status) ==
  (IF status = "POST_UNKNOWN" THEN {} ELSE {"correct"})
  \cup (IF status \in {"CORRECTION_PENDING", "POST_UNKNOWN", "CORRECTED_AND_REPOSTED"}
        THEN {} ELSE {"no_change"})
Render(s) ==
  /\ page[s].pc # "sending" /\ review # NoReview
  /\ page' = [page EXCEPT ![s] = [pc |-> "open", buttons |-> Buttons(review.status),
                                  correction |-> 0]]
  /\ UNCHANGED <<inquiry, draft, versions, review, corrections, market, job, sync>>

Pressed(s, button) == page[s].pc = "open" /\ button \in page[s].buttons
Close(s) == page' = [page EXCEPT ![s] = NoPage]

\* idx_post_correction_active.
Unresolved(c) == corrections[c].status \in {"POSTING", "UNKNOWN"}
CorrectionSlotFree == \A c \in DOMAIN corrections : ~Unresolved(c)

\* Mutant: without the index.
BeginByStatus == review.status # "POST_UNKNOWN" /\ NumberFree(review.current + 1)
\* begin_correction commits.
BeginAllowed ==
  /\ review.status # "POST_UNKNOWN"
  /\ NumberFree(review.current + 1)
  /\ CorrectionSlotFree

\* NaverPostService.correct up to the call: begin_correction opens a numbered
\* draft and an active correction, or raises; the checks before it may refuse.
Correct(s, b) ==
  /\ Pressed(s, "correct")
  /\ \/ /\ BeginAllowed
        /\ Len(versions) < MaxVersions
        /\ versions' = Insert(versions, "STAFF_CORRECTION_DRAFT", b,
                              "CORRECTION_PENDING")
        /\ corrections' = Append(corrections,
             [proposed |-> Len(versions) + 1, wire |-> "sent", status |-> "POSTING"])
        /\ review' = [status |-> "CORRECTION_PENDING", current |-> Len(versions) + 1]
        /\ page' = [page EXCEPT ![s] = [pc |-> "sending", buttons |-> {},
                                        correction |-> Len(corrections) + 1]]
     \/ Close(s) /\ UNCHANGED <<versions, corrections, review>>
  /\ UNCHANGED <<inquiry, draft, market, job, sync>>

\* The marketplace overwrites its answer, in time or after the caller gave up.
MarketTakesCorrection(c) ==
  /\ corrections[c].wire = "sent"
  /\ market' = Shows(versions[corrections[c].proposed].body)
  /\ corrections' = [corrections EXCEPT ![c].wire = "arrived"]
  /\ UNCHANGED <<inquiry, draft, versions, review, job, page, sync>>

\* complete_correction: raises, leaving the correction POSTING, when another
\* version took the next number meanwhile.
Apply(s) ==
  LET c == page[s].correction
      n == corrections[c].proposed
      body == versions[n].body IN
  /\ \/ /\ NumberFree(n + 1)
        /\ Len(versions) < MaxVersions
        /\ versions' = Insert(versions, "NAVER_CORRECTION_APPLIED", body, "POSTED")
        /\ corrections' = [corrections EXCEPT ![c].status = "SUCCEEDED"]
        /\ review' = [status |-> "CORRECTED_AND_REPOSTED",
                      current |-> Len(versions) + 1]
        /\ inquiry' = [inquiry EXCEPT !.hash = body]
     \/ /\ ~NumberFree(n + 1)
        /\ UNCHANGED <<versions, corrections, review, inquiry>>
  /\ Close(s)
  /\ UNCHANGED <<draft, market, job, sync>>

\* Mutant: a success is recorded without a reply.
CompleteUnanswered(s) == page[s].pc = "sending" /\ Apply(s)
CompleteCorrection(s) ==
  /\ page[s].pc = "sending" /\ corrections[page[s].correction].wire = "arrived"
  /\ Apply(s)

\* Mutant: the outcome of the correction taken for a status of the review.
FailVerbatim(s, status, wire) ==
  LET c == page[s].correction IN
  /\ corrections' = [corrections EXCEPT ![c].status = status, ![c].wire = wire]
  /\ review' = [review EXCEPT !.status = status]
  /\ Close(s)
  /\ UNCHANGED <<inquiry, draft, versions, market, job, sync>>
\* fail_correction; review.current stays on the draft that was refused.
FailCorrection(s, status, wire) ==
  LET c == page[s].correction IN
  /\ corrections' = [corrections EXCEPT ![c].status = status, ![c].wire = wire]
  /\ review' = [review EXCEPT !.status = IF status = "UNKNOWN" THEN "POST_UNKNOWN"
                                         ELSE "CORRECTION_FAILED"]
  /\ Close(s)
  /\ UNCHANGED <<inquiry, draft, versions, market, job, sync>>

\* Mutant: the review is not told.
CorrectionFailsSilently(s) ==
  LET c == page[s].correction IN
  /\ page[s].pc = "sending" /\ corrections[c].wire = "sent"
  /\ corrections' = [corrections EXCEPT ![c].status = "FAILED", ![c].wire = "lost"]
  /\ Close(s)
  /\ UNCHANGED <<inquiry, draft, versions, review, market, job, sync>>

\* A refusal, or no token: nothing was written.
CorrectionFails(s) ==
  /\ page[s].pc = "sending" /\ corrections[page[s].correction].wire = "sent"
  /\ FailCorrection(s, "FAILED", "lost")

CorrectionTimesOut(s) ==
  /\ page[s].pc = "sending"
  /\ FailCorrection(s, "UNKNOWN", corrections[page[s].correction].wire)

\* The session ends while the request is on its way: nothing recovers it.
CrashSession(s) ==
  /\ page[s].pc = "sending"
  /\ Close(s)
  /\ UNCHANGED <<inquiry, draft, versions, review, corrections, market, job, sync>>

\* reviewed_no_change: a copy of the current version, whatever it is, is called
\* POSTED.
ReviewedNoChange(s) ==
  /\ Pressed(s, "no_change")
  /\ \/ /\ NumberFree(review.current + 1)
        /\ Len(versions) < MaxVersions
        /\ versions' = Insert(versions, "REVIEWED_NO_CHANGE",
                              versions[review.current].body, "POSTED")
        /\ review' = [status |-> "REVIEWED_NO_CHANGE", current |-> Len(versions) + 1]
     \/ ~NumberFree(review.current + 1) /\ UNCHANGED <<versions, review>>
  /\ Close(s)
  /\ UNCHANGED <<inquiry, draft, corrections, market, job, sync>>
-----------------------------------------------------------------------------
(* The marketplace and the sync.                                           *)

SellerEdits(b) ==
  /\ market.shown \notin {None, b}
  /\ market.edits < MaxEdits
  /\ market' = [Shows(b) EXCEPT !.edits = @ + 1]
  /\ UNCHANGED <<inquiry, draft, versions, review, corrections, job, page, sync>>

SyncLists ==
  /\ sync.pc = "idle"
  /\ sync' = [pc |-> "listed", body |-> market.shown]
  /\ UNCHANGED <<inquiry, draft, versions, review, corrections, market, job, page>>

\* Mutant: a text is taken over only if none was registered.
DiffersFromNothing == sync.body # None /\ inquiry.hash = None
Differs == sync.body # None /\ sync.body # versions[review.current].body

\* The listed item: its upsert, then capture_remote_naver_edit, which compares
\* with the current version if that is POSTED.  The number may be taken: the
\* exception is logged, nothing changes.
ProcessItem ==
  LET row == [inquiry EXCEPT !.answered = (sync.body # None)] IN
  /\ sync.pc = "listed"
  /\ sync' = [pc |-> "idle", body |-> None]
  /\ IF /\ review # NoReview
        /\ versions[review.current].naver = "POSTED" /\ Differs
        /\ NumberFree(review.current + 1)
     THEN /\ Len(versions) < MaxVersions
          /\ versions' = Insert(versions, "NAVER_CORRECTION_APPLIED", sync.body,
                                "POSTED")
          /\ review' = [status |-> "CORRECTED_AND_REPOSTED",
                        current |-> Len(versions) + 1]
          /\ inquiry' = [row EXCEPT !.hash = sync.body]
     ELSE /\ inquiry' = row
          /\ UNCHANGED <<versions, review>>
  /\ UNCHANGED <<draft, corrections, market, job, page>>
-----------------------------------------------------------------------------
PosterStep(p) ==
  \/ Claim(p) \/ MarketTakesPost(p)
  \/ PostSucceeds(p) \/ PostFails(p) \/ PostTimesOut(p) \/ PostFindsAnswer(p)
SessionStep(s) ==
  \/ Render(s) \/ ReviewedNoChange(s)
  \/ CompleteCorrection(s) \/ CorrectionFails(s) \/ CorrectionTimesOut(s)
SyncStep == SyncLists \/ ProcessItem

Next ==
  \/ FinalizeAuto \/ RecordOutcome \/ RecoverStalePosting \/ SyncStep
  \/ \E p \in Poster : PosterStep(p) \/ CrashPoster(p)
  \/ \E s \in Staff : SessionStep(s) \/ CrashSession(s)
                      \/ \E b \in Body : Correct(s, b)
  \/ \E c \in DOMAIN corrections : MarketTakesCorrection(c)
  \/ \E b \in Body : EditDraft(b) \/ SellerEdits(b)

\* The sync is run by a timer, for ever; nothing else is bound to happen.
Spec == Init /\ [][Next]_vars /\ WF_vars(SyncStep)
-----------------------------------------------------------------------------
(* Properties.                                                             *)

\* A review that waits for a correction waits for one that is in progress, of
\* the version it shows.
PendingMeansPosting ==
  review.status = "CORRECTION_PENDING" =>
    \E c \in DOMAIN corrections : /\ corrections[c].status = "POSTING"
                                  /\ corrections[c].proposed = review.current

\* No second correction is sent while the marketplace may still receive an
\* earlier one: whatever sessions, time-outs, crashes and stale pages do, the
\* last correction recorded is the last one that arrives.
OneCorrectionInFlight ==
  \A c \in DOMAIN corrections :
    corrections[c].wire = "sent" => c = Len(corrections)

\* What is recorded as registered was, at some time, what customers saw: the
\* hash on the inquiry, and every applied correction.
RecordedWasShown ==
  /\ inquiry.hash # None => inquiry.hash \in market.ever
  /\ \A n \in DOMAIN versions :
       versions[n].kind = "NAVER_CORRECTION_APPLIED" => versions[n].body \in market.ever

\* If the current version stays one the sync compares with, and has room to
\* follow it, the history ends up at what the marketplace shows.
Followed == /\ review # NoReview
            /\ review.current = Len(versions) /\ Len(versions) < MaxVersions
            /\ versions[review.current].naver = "POSTED"
UpToDate ==
  market.shown # None =>
    review # NoReview /\ versions[review.current].body = market.shown
HistoryCatchesUp == <>[]Followed => <>[]UpToDate
=============================================================================
