------------------------------ MODULE NaverPost ------------------------------
(***************************************************************************)
(* Registration of an answer at the marketplace: NaverPostService.post and *)
(* the transactions of NaverPostRepository it runs, called concurrently by *)
(* staff sessions and by the unattended pipeline, over one SQLite          *)
(* database.  Every database transaction is one action (BEGIN IMMEDIATE);  *)
(* what happens between two of them (the HTTP call above all) is where     *)
(* callers interleave, crash or are declared stale by another caller.      *)
(***************************************************************************)
EXTENDS Naturals, Sequences, FiniteSets

CONSTANTS
  Inquiry,      \* rows of the table inquiries
  Target,       \* what the marketplace knows: a store and an external id
  Answer,       \* answer texts (compared by their hash)
  Poster,       \* threads that call NaverPostService.post
  Staff,        \* the posters that are operators in the UI
  Put,          \* the targets answered with PUT, which overwrites
  targetOf,     \* [Inquiry -> Target]
  MaxRetries,   \* settings.max_retries of unattended posting
  MaxAttempts,  \* bound: rows of naver_post_attempts
  MaxDrafts,    \* bound: drafts generated for one inquiry
  MaxReviews,   \* bound: edits, approvals and cancellations for one inquiry
  TrustErrors,  \* TRUE: an error that is not a timeout implies that nothing
                \* was written (the code takes this for granted)
  None

ASSUME NaverPostAssumption ==
  /\ targetOf \in [Inquiry -> Target]
  /\ Staff \subseteq Poster
  /\ Put \subseteq Target
  /\ MaxRetries \in Nat /\ MaxAttempts \in Nat /\ MaxDrafts \in Nat
  /\ MaxReviews \in Nat
  /\ TrustErrors \in BOOLEAN
  /\ None \notin Inquiry \cup Answer

VARIABLES
  inquiry,   \* inquiries: post_status, post_error_code, source flags
  draft,     \* per inquiry: its answer_drafts in id order, the active one, and
             \* whether its approval_status is APPROVED
  attempts,  \* naver_post_attempts, in id order
  wire,      \* per attempt, where its HTTP exchange stands
  market,    \* the marketplace: is the target answered, how often did we write
  job        \* per poster, the local variables of its call of post()

vars == <<inquiry, draft, attempts, wire, market, job>>
-----------------------------------------------------------------------------
PostStatus == {"NOT_POSTED", "POSTING", "POSTED", "POST_FAILED", "POST_UNKNOWN"}
AttemptStatus ==
  {"POSTING", "POSTED", "POST_FAILED", "POST_UNKNOWN", "ALREADY_ANSWERED"}
\* "target": a code of NON_RETRYABLE_TARGET_ERRORS; every other code is alike.
ErrorCode == {"none", "target", "other"}
WireState == {"unsent", "sent", "ok", "already", "refused", "no_target", "gone"}

\* source_answered and source_deleted; a row with both is refused wherever an
\* answered one is.
SourceState == {"open", "answered", "deleted"}
Pc == {"idle", "candidate", "opened", "checked", "prepared", "calling"}
\* original_answer, edited_answer and final_answer of a draft; None: NULL.
Field == {"original", "edited", "final"}

InquiryRow == [post: PostStatus, error: ErrorCode, source: SourceState]
DraftRow == [text: [Field -> Answer \cup {None}], posted: BOOLEAN]
Drafts == [rows: Seq(DraftRow), active: Nat, approved: BOOLEAN, reviews: Nat]
\* The draft and the hash an attempt also stores are not read again.
AttemptRow == [inq: Inquiry, status: AttemptStatus, error: ErrorCode,
               stale: BOOLEAN]
Job == [pc: Pc, inq: Inquiry \cup {None}, retry: BOOLEAN, draft: Nat,
        field: Field, body: Answer \cup {None}, attempt: Nat]

NoJob == [pc |-> "idle", inq |-> None, retry |-> FALSE, draft |-> 0,
          field |-> "final", body |-> None, attempt |-> 0]

DraftsOK ==
  /\ draft \in [Inquiry -> Drafts]
  /\ \A i \in Inquiry : draft[i].active \in DOMAIN draft[i].rows

TypeOK ==
  /\ inquiry \in [Inquiry -> InquiryRow]
  /\ DraftsOK
  /\ attempts \in Seq(AttemptRow)
  /\ wire \in Seq(WireState)
  /\ Len(wire) = Len(attempts)
  /\ market \in [Target -> [answered: BOOLEAN, writes: Nat]]
  /\ job \in [Poster -> Job]
-----------------------------------------------------------------------------
AttemptsOf(i) == {a \in DOMAIN attempts : attempts[a].inq = i}
FailedAttempts(i) == {a \in AttemptsOf(i) : attempts[a].status = "POST_FAILED"}

\* NaverPostRepository.latest: the newest attempt of the inquiry, if any.
LatestError(i) ==
  IF AttemptsOf(i) = {} THEN "none"
  ELSE LET a == CHOOSE x \in AttemptsOf(i) : \A y \in AttemptsOf(i) : y <= x
       IN  attempts[a].error

\* AutoPostRepository.candidates: what an unattended run may pick up.
Candidate(i) ==
  /\ inquiry[i].source = "open"
  /\ inquiry[i].post \in {"NOT_POSTED", "POST_FAILED"}
  /\ inquiry[i].error # "target"
  /\ inquiry[i].post = "POST_FAILED" =>
        Cardinality(FailedAttempts(i)) <= MaxRetries

\* Of acquire: the row itself, and every other row of its target.
Unsent(i) == inquiry[i].post \in {"NOT_POSTED", "POST_FAILED"}
SiblingsFree(i) ==
  \A j \in Inquiry \ {i} : targetOf[j] = targetOf[i] =>
    inquiry[j].post \notin {"POSTING", "POSTED", "POST_UNKNOWN"}

\* active_for_inquiry; a row is active from the first draft on.
ActiveRow(i) == draft[i].rows[draft[i].active]

\* AnswerRepository.posting_answer: the field a post takes its text from.  An
\* operator posts what the page shows, the pipeline only a final answer.
PostingField(text, manual) ==
  CASE ~manual -> "final"
    [] manual /\ text["edited"] # None -> "edited"
    [] manual /\ text["edited"] = None /\ text["original"] # None -> "original"
    [] OTHER -> "final"

\* Mutants of Acquirable: the target's other rows forgotten, a doubtful row
\* admitted, the text not compared with the draft.
AcquirableAlone(i, d, field, body) ==
  /\ Unsent(i) /\ inquiry[i].source # "answered"
  /\ ~draft[i].rows[d].posted /\ draft[i].rows[d].text[field] = body
AcquirableDoubtful(i, d, field, body) ==
  /\ Unsent(i) \/ inquiry[i].post = "POST_UNKNOWN"
  /\ inquiry[i].source # "answered"
  /\ ~draft[i].rows[d].posted /\ draft[i].rows[d].text[field] = body
  /\ SiblingsFree(i)
AcquirableAnyText(i, d, field, body) ==
  /\ Unsent(i) /\ inquiry[i].source # "answered"
  /\ ~draft[i].rows[d].posted /\ SiblingsFree(i)

\* The checks of the transaction NaverPostRepository.acquire, in its order: of
\* the draft and the field the caller chose, whatever is active or shown now.
Acquirable(i, d, field, body) ==
  /\ Unsent(i)
  /\ inquiry[i].source # "answered"
  /\ ~draft[i].rows[d].posted
  /\ draft[i].rows[d].text[field] = body
  /\ SiblingsFree(i)

\* A row of create_program_draft.
Generated(body) ==
  [text |-> [field \in Field |-> IF field = "original" THEN body ELSE None],
   posted |-> FALSE]

\* Rows imported unanswered, each with a generated draft.
Init ==
  /\ inquiry = [i \in Inquiry |-> [post |-> "NOT_POSTED", error |-> "none",
                                   source |-> "open"]]
  /\ \E body \in [Inquiry -> Answer] :
       draft = [i \in Inquiry |->
                  [rows |-> <<Generated(body[i])>>, active |-> 1,
                   approved |-> FALSE, reviews |-> 0]]
  /\ attempts = <<>>
  /\ wire = <<>>
  /\ market = [t \in Target |-> [answered |-> FALSE, writes |-> 0]]
  /\ job = [p \in Poster |-> NoJob]
-----------------------------------------------------------------------------
(* The caller's side of post().                                            *)

\* The decision to post i, with the status it is based on: the UI renders the
\* inquiry, the pipeline re-reads a candidate under its lock, and its active
\* draft.  A POST_FAILED row is retried explicitly (retry_requested).
Open(p, i) ==
  /\ job[p].pc = "idle"
  /\ LET call == [NoJob EXCEPT !.pc = "opened", !.inq = i,
                               !.retry = (inquiry[i].post = "POST_FAILED")] IN
     \/ p \in Staff /\ job' = [job EXCEPT ![p] = call]
     \/ /\ p \notin Staff /\ Candidate(i)
        /\ job' = [job EXCEPT ![p] = [call EXCEPT !.pc = "candidate",
                                                  !.draft = draft[i].active]]
  /\ UNCHANGED <<inquiry, draft, attempts, wire, market>>

Return(p) == job' = [job EXCEPT ![p] = NoJob]

\* PostReviewRepository.finalize_auto, before the pipeline calls post(): the
\* draft it read gets its original as final answer if it has none.  The
\* inquiry may also be held for review.
FinalizeAuto(p) ==
  LET i == job[p].inq
      d == job[p].draft
      row == draft[i].rows[d] IN
  /\ job[p].pc = "candidate"
  /\ \/ Return(p) /\ UNCHANGED draft
     \/ /\ Unsent(i) /\ inquiry[i].source # "answered"
        /\ job' = [job EXCEPT ![p].pc = "opened", ![p].draft = 0]
        /\ draft' = IF row.text["final"] = None /\ ~row.posted
                    THEN [draft EXCEPT ![i].rows[d].text["final"] =
                                                       row.text["original"]]
                    ELSE draft
  /\ UNCHANGED <<inquiry, attempts, wire, market>>

\* Refusals of the first read of the inquiry, and of the newest attempt; what
\* retry_requested asks for is not looked at again.
PreflightRefuses(p) ==
  LET i == job[p].inq IN
  \/ inquiry[i].source \in {"deleted", "answered"}
  \/ inquiry[i].post = "POST_FAILED" /\ ~job[p].retry
  \/ job[p].retry /\ LatestError(i) = "target"

Preflight(p) ==
  /\ job[p].pc = "opened"
  /\ \/ PreflightRefuses(p) /\ Return(p)
     \/ /\ ~PreflightRefuses(p)
        /\ job' = [job EXCEPT ![p].pc = "checked", ![p].retry = FALSE]
  /\ UNCHANGED <<inquiry, draft, attempts, wire, market>>

\* The active draft, the field of the caller's mode and its text: read here,
\* and used at the claim.  An empty text is refused (POST_ANSWER_REQUIRED).
ReadText(p, manual) ==
  LET i == job[p].inq
      text == ActiveRow(i).text
      field == PostingField(text, manual) IN
  /\ text[field] # None
  /\ job' = [job EXCEPT ![p].pc = "prepared", ![p].draft = draft[i].active,
                        ![p].field = field, ![p].body = text[field]]

\* The inquiry and its draft are read again, for staff after a dry run of the
\* same conditions, and the payload is built from the text read now.  Target
\* resolution, the technical validation or the store's credentials may refuse.
Prepare(p) ==
  LET i == job[p].inq IN
  /\ job[p].pc = "checked"
  /\ \/ Return(p)
     \/ /\ p \in Staff => Unsent(i) /\ ~ActiveRow(i).posted
        /\ ReadText(p, p \in Staff)
  /\ UNCHANGED <<inquiry, draft, attempts, wire, market>>

\* NaverPostRepository.acquire: one transaction, refused (BLOCKED) or granted.
\* The text is in the request from here on.
Acquire(p) ==
  LET i == job[p].inq
      granted == Acquirable(i, job[p].draft, job[p].field, job[p].body)
      row == [inq |-> i, status |-> "POSTING", error |-> "none",
              stale |-> FALSE] IN
  /\ job[p].pc = "prepared"
  /\ \/ /\ ~granted
        /\ Return(p)
        /\ UNCHANGED <<inquiry, attempts, wire>>
     \/ /\ granted
        /\ Len(attempts) < MaxAttempts
        /\ inquiry' = [inquiry EXCEPT ![i].post = "POSTING", ![i].error = "none"]
        /\ attempts' = Append(attempts, row)
        /\ wire' = Append(wire, "unsent")
        /\ job' = [job EXCEPT ![p] =
             [NoJob EXCEPT !.pc = "calling", !.inq = i, !.draft = job[p].draft,
                           !.attempt = Len(attempts) + 1]]
  /\ UNCHANGED <<draft, market>>

\* client.send, after the token: the request leaves, outside any transaction.
Send(p) ==
  LET a == job[p].attempt IN
  /\ job[p].pc = "calling" /\ wire[a] = "unsent"
  /\ wire' = [wire EXCEPT ![a] = "sent"]
  /\ UNCHANGED <<inquiry, draft, attempts, market, job>>
-----------------------------------------------------------------------------
(* The marketplace.                                                        *)

\* The answer is written; the reply may still be a 5xx.
MarketWrites(a) ==
  LET t == targetOf[attempts[a].inq] IN
  /\ wire[a] = "sent"
  /\ t \in Put \/ ~market[t].answered
  /\ market' = [market EXCEPT ![t].answered = TRUE,
                              ![t].writes = market[t].writes + 1]
  /\ \E reply \in {"ok"} \cup (IF TrustErrors THEN {} ELSE {"refused"}) :
        wire' = [wire EXCEPT ![a] = reply]
  /\ UNCHANGED <<inquiry, draft, attempts, job>>

\* An error status, a 404 for a verified target, or ERR-NC-101010.
MarketRefuses(a) ==
  LET t == targetOf[attempts[a].inq] IN
  /\ wire[a] = "sent"
  /\ \E reply \in {"refused", "no_target"}
                    \cup (IF market[t].answered THEN {"already"} ELSE {}) :
        wire' = [wire EXCEPT ![a] = reply]
  /\ UNCHANGED <<inquiry, draft, attempts, market, job>>

\* Someone answers in the seller centre.
SellerAnswers(t) ==
  /\ ~market[t].answered
  /\ market' = [market EXCEPT ![t].answered = TRUE]
  /\ UNCHANGED <<inquiry, draft, attempts, wire, job>>
-----------------------------------------------------------------------------
(* The outcome of the call, recorded by the poster in one transaction.     *)

\* UPDATE naver_post_attempts / inquiries ... WHERE status='POSTING': each row
\* changes only if it is still in flight.
CloseAttempt(a, status, error) ==
  attempts' = IF attempts[a].status = "POSTING"
              THEN [attempts EXCEPT ![a].status = status, ![a].error = error]
              ELSE attempts
\* Mutant: the inquiry is updated without the condition on its status.
CloseInquiryAlways(i, status, error, source) ==
  inquiry' = [inquiry EXCEPT ![i].post = status, ![i].error = error,
                             ![i].source = source]
CloseInquiry(i, status, error, source) ==
  inquiry' = IF inquiry[i].post = "POSTING"
             THEN [inquiry EXCEPT ![i].post = status, ![i].error = error,
                                  ![i].source = source]
             ELSE inquiry

\* NaverPostRepository.succeed; the attempt no longer in flight raises
\* POST_ATTEMPT_NOT_ACTIVE and rolls everything back.
Succeed(p) ==
  LET a == job[p].attempt
      i == job[p].inq IN
  /\ job[p].pc = "calling" /\ wire[a] = "ok"
  /\ IF attempts[a].status = "POSTING"
     THEN /\ CloseAttempt(a, "POSTED", "none")
          /\ CloseInquiry(i, "POSTED", "none", inquiry[i].source)
          /\ draft' = [draft EXCEPT ![i].rows[job[p].draft].posted = TRUE]
     ELSE UNCHANGED <<attempts, inquiry, draft>>
  /\ Return(p)
  /\ UNCHANGED <<wire, market>>

\* Mutant: every refusal taken for ERR-NC-101010.
MarkAnyRefusal(p) ==
  /\ job[p].pc = "calling" /\ wire[job[p].attempt] \in {"already", "refused"}
  /\ CloseAttempt(job[p].attempt, "ALREADY_ANSWERED", "other")
  /\ CloseInquiry(job[p].inq, "POSTED", "other", "answered")
  /\ Return(p)
  /\ UNCHANGED <<draft, wire, market>>

\* NaverPostRepository.mark_already_answered.
MarkAlreadyAnswered(p) ==
  /\ job[p].pc = "calling" /\ wire[job[p].attempt] = "already"
  /\ CloseAttempt(job[p].attempt, "ALREADY_ANSWERED", "other")
  /\ CloseInquiry(job[p].inq, "POSTED", "other", "answered")
  /\ Return(p)
  /\ UNCHANGED <<draft, wire, market>>

\* NaverPostRepository.fail.
Fail(p, status, error) ==
  /\ CloseAttempt(job[p].attempt, status, error)
  /\ CloseInquiry(job[p].inq, status, error, inquiry[job[p].inq].source)
  /\ Return(p)
  /\ UNCHANGED <<draft, market>>

\* An HTTP error status: POST_FAILED.
FailRefused(p) ==
  /\ job[p].pc = "calling"
  /\ wire[job[p].attempt] \in {"refused", "no_target"}
  /\ Fail(p, "POST_FAILED",
          IF wire[job[p].attempt] = "no_target" THEN "target" ELSE "other")
  /\ UNCHANGED wire

\* Mutant: a timeout taken for a certain failure.
TimeoutIsFailure(p) ==
  /\ job[p].pc = "calling" /\ wire[job[p].attempt] # "unsent"
  /\ Fail(p, "POST_FAILED", "other")
  /\ UNCHANGED wire

\* requests.Timeout, the only uncertain error: the request may still arrive.
FailTimeout(p) ==
  /\ job[p].pc = "calling" /\ wire[job[p].attempt] # "unsent"
  /\ Fail(p, "POST_UNKNOWN", "other")
  /\ UNCHANGED wire

\* Any other RequestException (NETWORK_ERROR), or no token: a certain failure.
FailNetwork(p) ==
  LET a == job[p].attempt IN
  /\ job[p].pc = "calling"
  /\ TrustErrors => wire[a] \in {"unsent", "sent"}
  /\ Fail(p, "POST_FAILED", "other")
  /\ wire' = IF TrustErrors \/ wire[a] = "unsent"
             THEN [wire EXCEPT ![a] = "gone"] ELSE wire
-----------------------------------------------------------------------------
(* The rest of the system.                                                 *)

\* The process of a poster dies, or its script run is stopped.
Crash(p) ==
  /\ job[p].pc # "idle"
  /\ Return(p)
  /\ UNCHANGED <<inquiry, draft, attempts, wire, market>>

\* started_at falls behind the 600 seconds of recover_stale_posting.
GoStale(a) ==
  /\ attempts[a].status = "POSTING" /\ ~attempts[a].stale
  /\ attempts' = [attempts EXCEPT ![a].stale = TRUE]
  /\ UNCHANGED <<inquiry, draft, wire, market, job>>

\* Mutant: staleness decides whatever the status.
StaleAnyStatus == {a \in DOMAIN attempts : attempts[a].stale}
StaleAttempts ==
  {a \in DOMAIN attempts : attempts[a].status = "POSTING" /\ attempts[a].stale}

\* Mutant: stale attempts are given back for a retry.
RecoverAsFailed ==
  /\ StaleAttempts # {}
  /\ attempts' = [a \in DOMAIN attempts |->
       IF a \in StaleAttempts
       THEN [attempts[a] EXCEPT !.status = "POST_FAILED", !.error = "other"]
       ELSE attempts[a]]
  /\ inquiry' = [i \in Inquiry |->
       IF /\ \E a \in StaleAttempts : attempts[a].inq = i
          /\ inquiry[i].post = "POSTING"
       THEN [inquiry[i] EXCEPT !.post = "POST_FAILED", !.error = "other"]
       ELSE inquiry[i]]
  /\ UNCHANGED <<draft, wire, market, job>>

\* AutoPostRepository.recover_stale_posting: all stale rows, one transaction.
RecoverStalePosting ==
  /\ StaleAttempts # {}
  /\ attempts' = [a \in DOMAIN attempts |->
       IF a \in StaleAttempts
       THEN [attempts[a] EXCEPT !.status = "POST_UNKNOWN", !.error = "other"]
       ELSE attempts[a]]
  /\ inquiry' = [i \in Inquiry |->
       IF /\ \E a \in StaleAttempts : attempts[a].inq = i
          /\ inquiry[i].post = "POSTING"
       THEN [inquiry[i] EXCEPT !.post = "POST_UNKNOWN", !.error = "other"]
       ELSE inquiry[i]]
  /\ UNCHANGED <<draft, wire, market, job>>

\* One field of one draft, and the approval, by an operator.
SetText(i, d, field, value, approved) ==
  /\ draft[i].reviews < MaxReviews
  /\ draft' = [draft EXCEPT ![i].reviews = @ + 1, ![i].approved = approved,
                            ![i].rows[d].text[field] = value]
  /\ UNCHANGED <<inquiry, attempts, wire, market, job>>

\* save_edited_answer and reset_edited_answer: any draft that is not posted,
\* the active one or one a page still shows.  (That the inquiry is not approved
\* was true when ApprovalService read it, before this transaction.)
EditDraft(i, d, edited) ==
  /\ ~draft[i].rows[d].posted
  /\ SetText(i, d, "edited", edited, draft[i].approved)

\* approve: the edit, or else the program's answer, becomes the final answer.
Approve(i, d) ==
  LET text == draft[i].rows[d].text IN
  /\ inquiry[i].post # "POSTED" /\ ~draft[i].rows[d].posted
  /\ ~draft[i].approved
  /\ SetText(i, d, "final", text[PostingField(text, TRUE)], TRUE)

\* cancel_approval, of the inquiry, with the draft a page shows.
CancelApproval(i, d) ==
  /\ draft[i].approved
  /\ SetText(i, d, "final", None, FALSE)

\* create_program_draft: a new row, unless the inquiry or a draft of it is
\* posted; it becomes the active one unless that has a final answer.
Regenerate(i, body) ==
  LET rows == draft[i].rows IN
  /\ inquiry[i].post # "POSTED"
  /\ \A d \in DOMAIN rows : ~rows[d].posted
  /\ Len(rows) < MaxDrafts
  /\ draft' = [draft EXCEPT ![i] =
       [draft[i] EXCEPT !.rows = Append(rows, Generated(body)),
                        !.active = IF ActiveRow(i).text["final"] = None
                                   THEN Len(rows) + 1 ELSE draft[i].active]]
  /\ UNCHANGED <<inquiry, attempts, wire, market, job>>

\* A sync writes what the marketplace's read model shows, which may lag; an
\* inquiry it no longer returns is flagged deleted, and cleared if it returns.
SyncSource(i) ==
  /\ \E source \in {"open", "deleted"}
                     \cup (IF market[targetOf[i]].answered THEN {"answered"} ELSE {}) :
        inquiry' = [inquiry EXCEPT ![i].source = source]
  /\ UNCHANGED <<draft, attempts, wire, market, job>>
-----------------------------------------------------------------------------
PosterStep(p) ==
  \/ FinalizeAuto(p) \/ Preflight(p) \/ Prepare(p) \/ Acquire(p) \/ Send(p)
  \/ Succeed(p) \/ MarkAlreadyAnswered(p)
  \/ FailRefused(p) \/ FailTimeout(p) \/ FailNetwork(p)

Review(i) ==
  \E d \in DOMAIN draft[i].rows :
    \/ \E edited \in Answer \cup {None} : EditDraft(i, d, edited)
    \/ Approve(i, d) \/ CancelApproval(i, d)

Next ==
  \/ \E p \in Poster : PosterStep(p) \/ Crash(p) \/ \E i \in Inquiry : Open(p, i)
  \/ \E a \in DOMAIN attempts : MarketWrites(a) \/ MarketRefuses(a) \/ GoStale(a)
  \/ \E t \in Target : SellerAnswers(t)
  \/ RecoverStalePosting
  \/ \E i \in Inquiry : SyncSource(i)
  \/ \E i \in Inquiry : Review(i) \/ \E body \in Answer : Regenerate(i, body)

Spec == Init /\ [][Next]_vars
-----------------------------------------------------------------------------
(* Properties.                                                             *)

\* The status an attempt gives to its inquiry.
Shown(status) == IF status = "ALREADY_ANSWERED" THEN "POSTED" ELSE status

\* The two tables agree after every interleaving of their guarded updates:
\* an attempt in flight, settled or doubtful is the status of its inquiry, and
\* a status other than NOT_POSTED is witnessed by an attempt.
StatusAgrees ==
  /\ \A a \in DOMAIN attempts : attempts[a].status # "POST_FAILED" =>
        inquiry[attempts[a].inq].post = Shown(attempts[a].status)
  /\ \A i \in Inquiry : inquiry[i].post # "NOT_POSTED" =>
        \E a \in AttemptsOf(i) : Shown(attempts[a].status) = inquiry[i].post

\* Of all the attempts at one marketplace target, over every inquiry row that
\* names it and every caller, at most one did not certainly fail.
OneLiveAttempt ==
  \A a, b \in DOMAIN attempts :
    /\ attempts[a].status # "POST_FAILED" /\ attempts[b].status # "POST_FAILED"
    /\ targetOf[attempts[a].inq] = targetOf[attempts[b].inq]
    => a = b

\* As long as an error the client calls certain is certain, the marketplace
\* never receives two answers of ours for one target, whatever crashes, times
\* out, is recovered as stale or arrives late.
AtMostOneWrite == TrustErrors => \A t \in Target : market[t].writes <= 1

\* An answer of ours that is published is never shown as failed or not posted.
NoForgottenWrite ==
  TrustErrors => \A t \in Target : market[t].writes > 0 =>
    \E i \in Inquiry : /\ targetOf[i] = t
                       /\ inquiry[i].post \in {"POSTING", "POSTED", "POST_UNKNOWN"}

\* POSTED claims no answer that is not there.
PostedIsPublished ==
  \A i \in Inquiry : inquiry[i].post = "POSTED" => market[targetOf[i]].answered

\* POSTED and POST_UNKNOWN are final for this code: no late reply, recovery,
\* retry or sync moves them.
Settled ==
  [][\A i \in Inquiry : inquiry[i].post \in {"POSTED", "POST_UNKNOWN"} =>
        inquiry'[i].post = inquiry[i].post]_vars

\* The text p is about to claim is the one its inquiry is shown with now, but
\* for two cases that the claim lets through: the draft is not the active one
\* any more, or it got an edit after p chose a field that is not the edit.
Current(p, manual) ==
  LET i == job[p].inq
      text == ActiveRow(i).text IN
  \/ job[p].body = text[PostingField(text, manual)]
  \/ job[p].draft # draft[i].active
  \/ manual /\ job[p].field # "edited" /\ text["edited"] # None

\* Whatever was edited, approved, taken back or generated since the text was
\* read, a claim sends the text shown now or one of the two cases above: an
\* edit that was changed or discarded and an approval that was cancelled are
\* never sent, nor is any text that no field of a draft holds.
SendsCurrentText ==
  [][\A p \in Poster : job[p].pc = "prepared" /\ job'[p].pc = "calling" =>
        /\ draft[job[p].inq].rows[job[p].draft].text[job[p].field] = job[p].body
        /\ Current(p, job[p].field # "final")]_vars

-----------------------------------------------------------------------------
(* The inductive invariant: what the code relies on but states nowhere.    *)

\* What a call of post() has read so far is there.
JobReads ==
  \A p \in Poster :
    /\ job[p].pc # "idle" => job[p].inq \in Inquiry
    /\ job[p].pc \in {"candidate", "prepared", "calling"} =>
         job[p].draft \in DOMAIN draft[job[p].inq].rows
    /\ job[p].pc = "prepared" => job[p].body \in Answer

\* A caller in flight has an attempt of its own, which nobody else settles but
\* the recovery.
JobOwns ==
  \A p \in Poster : job[p].pc = "calling" =>
    /\ job[p].attempt \in DOMAIN attempts
    /\ attempts[job[p].attempt].inq = job[p].inq
    /\ attempts[job[p].attempt].status \in {"POSTING", "POST_UNKNOWN"}
    /\ \A q \in Poster \ {p} : job[q].pc = "calling" => job[q].attempt # job[p].attempt

\* What a reply says of the marketplace, and that success had a reply.
ReplyInv ==
  \A a \in DOMAIN attempts :
    /\ wire[a] \in {"ok", "already"} => market[targetOf[attempts[a].inq]].answered
    /\ attempts[a].status \in {"POSTED", "ALREADY_ANSWERED"} =>
         wire[a] \notin {"unsent", "sent"}

\* Where certain errors are certain, a failed attempt has nothing on its way,
\* and what was written is the doing of an attempt that succeeded.
WriteInv ==
  /\ \A a \in DOMAIN attempts : attempts[a].status = "POST_FAILED" =>
       wire[a] \notin {"unsent", "sent", "ok"}
  /\ \A t \in Target : market[t].writes > 0 =>
       \E a \in DOMAIN attempts : wire[a] = "ok" /\ targetOf[attempts[a].inq] = t

\* Holds initially, is preserved by every step, and implies the invariants above.
IInv ==
  /\ TypeOK /\ JobReads /\ JobOwns /\ StatusAgrees /\ OneLiveAttempt
  /\ ReplyInv /\ PostedIsPublished
  /\ TrustErrors => WriteInv /\ AtMostOneWrite
-----------------------------------------------------------------------------
(* Refinement: the attempts at a target, and what the marketplace received,*)
(* implement one claim-write-settle register per target.                   *)
HasStatus(rows, t, S) ==
  \E a \in DOMAIN rows : rows[a].status \in S /\ targetOf[rows[a].inq] = t
PhaseIn(rows, t) ==
  IF HasStatus(rows, t, {"POSTING"}) THEN "claimed"
  ELSE IF HasStatus(rows, t, {"POST_UNKNOWN"}) THEN "doubtful"
  ELSE IF HasStatus(rows, t, {"POSTED", "ALREADY_ANSWERED"}) THEN "done"
  ELSE "open"

Register == INSTANCE PostOnce WITH
  phase <- [t \in Target |-> PhaseIn(attempts, t)],
  writes <- [t \in Target |-> market[t].writes]

\* Under TrustErrors every behaviour of the protocol is one of PostOnce.
ImplementsPostOnce == Register!Spec
=============================================================================
