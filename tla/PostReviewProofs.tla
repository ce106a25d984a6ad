--------------------------- MODULE PostReviewProofs ---------------------------
(***************************************************************************)
(* Proofs about PostReview, for any texts, posters, sessions and bounds.   *)
(*                                                                         *)
(* The invariant says what a session that waits for a reply may rely on:   *)
(* its correction is recorded as active and is its own (Waiting), the      *)
(* active correction is the last one, and one that is on its way is active *)
(* (OneActive). The rest is provenance: texts that replies, listings and   *)
(* the pipeline carry about were shown by the marketplace (Carried).       *)
(***************************************************************************)
EXTENDS PostReview, TLAPS

Version == [kind: Kind, body: Body, naver: NaverStatus]
Correction == [proposed: Nat, wire: Wire, status: CorrectionStatus]
Inq == [post: PostStatus, answered: BOOLEAN, hash: Text]
ReviewRow == [status: ReviewStatus, current: Nat]

Job == [pc: {"idle", "finalized", "claimed", "written", "POSTED", "POST_FAILED",
             "POST_UNKNOWN"}, body: Text]

\* The types, in a form that does not relate the variables to each other ...
Types ==
  /\ inquiry \in Inq
  /\ draft \in [body: Body, posted: BOOLEAN]
  /\ versions \in Seq(Version)
  /\ review \in [status: ReviewStatus \cup {"none"}, current: Nat]
  /\ corrections \in Seq(Correction)
  /\ market \in [shown: Text, ever: SUBSET Body, edits: 0..MaxEdits]
  /\ job \in [Poster -> Job]
  /\ page \in [Staff -> [pc: {"closed", "open", "sending"},
                         buttons: SUBSET {"correct", "no_change"},
                         correction: Nat]]
  /\ sync \in [pc: {"idle", "listed"}, body: Text]

\* ... and how they are related.
References ==
  /\ review = NoReview \/ (review.status # "none" /\ review.current \in DOMAIN versions)
  /\ \A c \in DOMAIN corrections : corrections[c].proposed \in DOMAIN versions
  /\ \A s \in Staff : page[s].correction \in 0..Len(corrections)

\* A page shows a review; one that waits has a correction of its own in progress.
Waiting ==
  /\ \A s \in Staff : page[s].pc # "closed" => review # NoReview
  /\ \A s \in Staff : page[s].pc = "sending" =>
       /\ page[s].correction \in DOMAIN corrections
       /\ corrections[page[s].correction].status = "POSTING"
       /\ \A t \in Staff \ {s} : page[t].pc = "sending" =>
            page[t].correction # page[s].correction

OneActive ==
  \A c \in DOMAIN corrections :
    /\ corrections[c].wire = "sent" => Unresolved(c)
    /\ Unresolved(c) => c = Len(corrections)

\* Texts that are carried about: by the pipeline and posters ...
JobCarries ==
  /\ \A p \in Poster : job[p].pc \in {"claimed", "written"} => job[p].body \in Body
  /\ \A p \in Poster : job[p].pc = "written" => job[p].body \in market.ever
  /\ job[Pipeline].pc # "idle" => versions # <<>>

\* ... by the marketplace, a listing and the requests that arrived.
Shown(b) == b # None => b \in market.ever
Carried ==
  /\ Shown(market.shown) /\ Shown(sync.body)
  /\ \A c \in DOMAIN corrections :
       corrections[c].wire = "arrived" =>
         versions[corrections[c].proposed].body \in market.ever

IInv == /\ Types /\ References /\ Waiting /\ OneActive /\ JobCarries
        /\ Carried /\ PendingMeansPosting /\ RecordedWasShown
-----------------------------------------------------------------------------
(* The post.                                                               *)

LEMMA JobType ==
  ASSUME NEW p \in Poster, NEW body \in Text, job \in [Poster -> Job],
         NEW pc \in {"idle", "finalized", "claimed", "written", "POSTED", "POST_FAILED",
                    "POST_UNKNOWN"}
  PROVE  /\ [job EXCEPT ![p] = [pc |-> pc, body |-> body]] \in [Poster -> Job]
         /\ [job EXCEPT ![p].pc = pc] \in [Poster -> Job]
<1>1. [pc |-> pc, body |-> body] \in Job /\ [job[p] EXCEPT !.pc = pc] \in Job
  BY DEF Job
<1>2. QED BY <1>1

LEMMA InitIInv == Init => IInv
<1> SUFFICES ASSUME Init PROVE IInv
  OBVIOUS
<1>1. PICK b \in Body : draft = [body |-> b, posted |-> FALSE]
  BY DEF Init
<1>2. /\ corrections = <<>> /\ DOMAIN corrections = {} /\ Len(corrections) = 0
      /\ versions = <<>> /\ DOMAIN versions = {}
  BY DEF Init
<1>3. Types
  BY <1>1, <1>2, PostReviewAssumption
     DEF Init, Types, Job, Text, PostStatus, Inq, ReviewStatus, NoReview, NoPage
<1>4. References /\ Waiting
  BY <1>2 DEF Init, References, Waiting, NoReview, NoPage
<1>5. OneActive /\ Carried /\ PendingMeansPosting /\ RecordedWasShown
  BY <1>2 DEF Init, OneActive, Carried, Shown, PendingMeansPosting, RecordedWasShown,
              NoReview
<1>6. JobCarries
  BY PostReviewAssumption DEF Init, JobCarries
<1>7. QED BY <1>3, <1>4, <1>5, <1>6 DEF IInv

\* The history only grows, and what is added as applied was shown.
HistoryGrows ==
  /\ \A n \in DOMAIN versions :
       n \in DOMAIN versions' /\ versions'[n].body = versions[n].body
  /\ \A n \in DOMAIN versions' :
       versions'[n].kind = "NAVER_CORRECTION_APPLIED" => versions'[n].body \in market'.ever

LEMMA HistorySame ==
  ASSUME IInv, UNCHANGED versions, market.ever \subseteq market'.ever
  PROVE  HistoryGrows
BY DEF IInv, RecordedWasShown, HistoryGrows

LEMMA Inserted ==
  ASSUME IInv, NEW kind \in Kind, NEW body \in Body, NEW naver \in NaverStatus,
         versions' = Insert(versions, kind, body, naver),
         market.ever \subseteq market'.ever,
         kind = "NAVER_CORRECTION_APPLIED" => body \in market'.ever
  PROVE  /\ versions' \in Seq(Version) /\ versions' # <<>> /\ HistoryGrows
         /\ Len(versions) \in Nat /\ DOMAIN versions = 1..Len(versions)
         /\ DOMAIN versions' = 1..(Len(versions) + 1)
         /\ versions'[Len(versions) + 1].body = body
<1> DEFINE v == [kind |-> kind, body |-> body, naver |-> naver]
<1>1. versions \in Seq(Version) /\ v \in Version
  BY DEF IInv, Types, Version
<1>2. v.kind = kind /\ v.body = body /\ versions' = Append(versions, v)
  BY DEF Insert
<1> HIDE DEF v
<1>3. /\ versions' \in Seq(Version) /\ versions' # <<>>
      /\ Len(versions) \in Nat /\ DOMAIN versions = 1..Len(versions)
      /\ DOMAIN versions' = 1..(Len(versions) + 1)
      /\ versions'[Len(versions) + 1] = v
      /\ \A n \in 1..Len(versions) : versions'[n] = versions[n]
  BY <1>1, <1>2
<1>4. HistoryGrows
  <2>1. \A n \in DOMAIN versions' :
          versions'[n].kind = "NAVER_CORRECTION_APPLIED" => versions'[n].body \in market'.ever
    <3> SUFFICES ASSUME NEW n \in DOMAIN versions',
                        versions'[n].kind = "NAVER_CORRECTION_APPLIED"
                 PROVE  versions'[n].body \in market'.ever
      OBVIOUS
    <3>1. CASE n = Len(versions) + 1
      BY <1>2, <1>3, <3>1
    <3>2. CASE n \in 1..Len(versions)
      BY <1>3, <3>2 DEF IInv, RecordedWasShown
    <3>3. QED BY <1>3, <3>1, <3>2
  <2>2. QED BY <1>3, <2>1 DEF HistoryGrows
<1>5. QED BY <1>2, <1>3, <1>4

\* What a step leaves true that touches neither the corrections nor the review.
LEMMA ReviewSame ==
  ASSUME IInv, HistoryGrows, UNCHANGED <<review, corrections, page>>
  PROVE  References' /\ Waiting' /\ OneActive' /\ PendingMeansPosting'
<1>1. References'
  BY DEF IInv, References, HistoryGrows
<1>2. Waiting' /\ OneActive' /\ PendingMeansPosting'
  BY DEF IInv, Waiting, OneActive, Unresolved, PendingMeansPosting
<1>3. QED BY <1>1, <1>2

LEMMA TextsKeep ==
  ASSUME IInv, HistoryGrows, market.ever \subseteq market'.ever,
         UNCHANGED corrections, Shown(market.shown)', Shown(sync.body)',
         Shown(inquiry.hash)'
  PROVE  Carried' /\ RecordedWasShown'
BY DEF IInv, References, Carried, Shown, RecordedWasShown, HistoryGrows

\* A step of a post.
LEMMA PostMoves ==
  ASSUME IInv, Types', JobCarries', HistoryGrows,
         UNCHANGED <<review, corrections, page, sync>>,
         market.ever \subseteq market'.ever,
         Shown(market.shown)', Shown(inquiry.hash)'
  PROVE  IInv'
<1>1. Shown(sync.body)'
  BY DEF IInv, Carried, Shown
<1>2. QED BY <1>1, ReviewSame, TextsKeep DEF IInv

LEMMA Settles ==
  ASSUME IInv, NEW p \in Poster, NEW status \in {"POSTED", "POST_FAILED", "POST_UNKNOWN"},
         NEW hash \in Text, Shown(hash), Settle(p, status, hash), job[p].pc # "idle"
  PROVE  IInv'
<1>1. /\ UNCHANGED <<versions, review, corrections, market, page, sync>>
      /\ inquiry' = IF inquiry.post = "POSTING"
                    THEN [inquiry EXCEPT !.post = status, !.hash = hash] ELSE inquiry
      /\ draft' = draft \/ draft' = [draft EXCEPT !.posted = TRUE]
  BY DEF Settle
<1>2. inquiry' \in Inq
  BY <1>1 DEF IInv, Types, PostStatus, Inq
<1> DEFINE pc == IF p = Pipeline /\ inquiry.post = "POSTING" THEN status ELSE "idle"
<1>3. job' = [job EXCEPT ![p] = [pc |-> pc, body |-> None]]
  BY DEF Settle, SetJob
<1>4. pc \in {"POSTED", "POST_FAILED", "POST_UNKNOWN", "idle"} /\ (p # Pipeline => pc = "idle")
  OBVIOUS
<1> HIDE DEF pc
<1>5. job' \in [Poster -> Job]
  BY <1>3, <1>4 DEF IInv, Types, Text, Job
<1>6. draft' \in [body: Body, posted: BOOLEAN]
  BY <1>1 DEF IInv, Types
<1>7. Types'
  BY <1>1, <1>2, <1>5, <1>6 DEF IInv, Types
<1>8. JobCarries'
  BY <1>1, <1>3, <1>4 DEF IInv, Types, JobCarries
<1>9. Shown(market.shown)' /\ Shown(inquiry.hash)'
  BY <1>1 DEF IInv, Types, Inq, Carried, Shown, RecordedWasShown
<1>10. QED BY <1>1, <1>7, <1>8, <1>9, HistorySame, PostMoves

LEMMA PosterKeeps ==
  ASSUME IInv,
         \/ FinalizeAuto \/ RecoverStalePosting
         \/ \E p \in Poster : PosterStep(p) \/ CrashPoster(p)
         \/ \E b \in Body : EditDraft(b)
  PROVE  IInv'
<1> DEFINE ShownSame == Shown(market.shown)' /\ Shown(inquiry.hash)'
<1>1. CASE FinalizeAuto
  <2>1. /\ UNCHANGED <<inquiry, draft, review, corrections, market, page, sync>>
        /\ \/ UNCHANGED versions /\ versions # <<>>
           \/ versions' = Insert(versions, "AUTO_POST_INITIAL", draft.body, "PENDING")
        /\ job' = [job EXCEPT ![Pipeline].pc = "finalized"]
    BY <1>1 DEF FinalizeAuto
  <2>2. draft.body \in Body
    BY DEF IInv, Types
  <2>3. versions' \in Seq(Version) /\ versions' # <<>> /\ HistoryGrows
    <3>1. CASE UNCHANGED versions /\ versions # <<>>
      BY <2>1, <3>1, HistorySame DEF IInv, Types
    <3>2. CASE versions' = Insert(versions, "AUTO_POST_INITIAL", draft.body, "PENDING")
      BY <2>1, <2>2, <3>2, Inserted DEF Kind, NaverStatus
    <3>3. QED BY <2>1, <3>1, <3>2
  <2>4. Types'
    <3>1. job' \in [Poster -> Job]
      BY <2>1, PostReviewAssumption, JobType DEF IInv, Types
    <3>2. QED BY <2>1, <2>3, <3>1 DEF IInv, Types
  <2>5. JobCarries'
    BY <2>1, <2>3 DEF IInv, Types, JobCarries
  <2>6. ShownSame
    BY <2>1 DEF IInv, Types, Inq, Carried, Shown, RecordedWasShown
  <2>7. QED BY <2>1, <2>3, <2>4, <2>5, <2>6, PostMoves
<1>2. ASSUME NEW p \in Poster, Claim(p) PROVE IInv'
  <2>1. /\ UNCHANGED <<draft, versions, review, corrections, market, page, sync>>
        /\ Ready(p)
        /\ \/ /\ job' = [job EXCEPT ![p] = [pc |-> "claimed", body |-> draft.body]]
              /\ inquiry' = [inquiry EXCEPT !.post = "POSTING"]
           \/ /\ job' = [job EXCEPT ![p] = [pc |-> "idle", body |-> None]]
              /\ UNCHANGED inquiry
    BY <1>2 DEF Claim, SetJob
  <2>2. Types'
    <3>1. draft.body \in Text /\ None \in Text /\ job \in [Poster -> Job]
      BY DEF IInv, Types, Text
    <3>2. /\ [job EXCEPT ![p] = [pc |-> "claimed", body |-> draft.body]] \in [Poster -> Job]
          /\ [job EXCEPT ![p] = [pc |-> "idle", body |-> None]] \in [Poster -> Job]
      BY <3>1, JobType
    <3>3. job' \in [Poster -> Job]
      BY <2>1, <3>2
    <3>4. inquiry' \in Inq
      BY <2>1 DEF IInv, Types, PostStatus, Inq
    <3>5. QED BY <2>1, <3>3, <3>4 DEF IInv, Types
  <2>3. JobCarries'
    <3>1. CASE job' = [job EXCEPT ![p] = [pc |-> "claimed", body |-> draft.body]]
      <4>1. draft.body \in Body /\ (p = Pipeline => job[p].pc # "idle")
        BY <2>1 DEF IInv, Types, Ready
      <4>2. QED BY <2>1, <3>1, <4>1 DEF IInv, Types, JobCarries
    <3>2. CASE job' = [job EXCEPT ![p] = [pc |-> "idle", body |-> None]]
      BY <2>1, <3>2 DEF IInv, Types, JobCarries
    <3>3. QED BY <2>1, <3>1, <3>2
  <2>4. ShownSame
    BY <2>1 DEF IInv, Types, Inq, Carried, Shown, RecordedWasShown
  <2>5. QED BY <2>1, <2>2, <2>3, <2>4, HistorySame, PostMoves
<1>3. ASSUME NEW p \in Poster, MarketTakesPost(p) PROVE IInv'
  <2>1. /\ UNCHANGED <<inquiry, draft, versions, review, corrections, page, sync>>
        /\ job[p].pc = "claimed" /\ job[p].body \in Body
        /\ job' = [job EXCEPT ![p] = [pc |-> "written", body |-> job[p].body]]
        /\ market' = [market EXCEPT !.shown = job[p].body, !.ever = @ \cup {job[p].body}]
    BY <1>3 DEF MarketTakesPost, SetJob, Shows, IInv, JobCarries
  <2>2. /\ market'.shown = job[p].body /\ market'.ever = market.ever \cup {job[p].body}
        /\ market'.edits = market.edits
    BY <2>1 DEF IInv, Types
  <2>3. Types'
    BY <2>1 DEF IInv, Types, Job, Text
  <2>4. JobCarries'
    BY <2>1, <2>2 DEF IInv, Types, JobCarries
  <2>5. ShownSame
    BY <2>1, <2>2 DEF IInv, Shown, RecordedWasShown
  <2>6. QED BY <2>1, <2>2, <2>3, <2>4, <2>5, HistorySame, PostMoves
<1>4. ASSUME NEW p \in Poster, PostSucceeds(p) \/ PostFails(p) \/ PostTimesOut(p)
      PROVE  IInv'
  <2>1. Shown(job[p].body) \/ ~PostSucceeds(p)
    BY <1>4 DEF PostSucceeds, Shown, IInv, JobCarries
  <2>2. Shown(inquiry.hash) /\ job[p].body \in Text /\ inquiry.hash \in Text
    BY DEF Shown, IInv, RecordedWasShown, Types, Job, Inq
  <2>3. QED BY <1>4, <2>1, <2>2, Settles DEF PostSucceeds, PostFails, PostTimesOut
<1>5. ASSUME NEW p \in Poster, PostFindsAnswer(p) \/ CrashPoster(p) PROVE IInv'
  <2>1. /\ UNCHANGED <<draft, versions, review, corrections, market, page, sync>>
        /\ job' = [job EXCEPT ![p] = [pc |-> "idle", body |-> None]]
        /\ \/ UNCHANGED inquiry
           \/ inquiry' = [inquiry EXCEPT !.post = "POSTED", !.answered = TRUE]
    BY <1>5 DEF PostFindsAnswer, CrashPoster, SetJob
  <2>2. inquiry' \in Inq
    BY <2>1 DEF IInv, Types, PostStatus, Inq
  <2>3. Types'
    BY <2>1, <2>2 DEF IInv, Types, Job, Text
  <2>4. JobCarries'
    BY <2>1 DEF IInv, Types, JobCarries
  <2>5. ShownSame
    BY <2>1 DEF IInv, Types, Inq, Carried, Shown, RecordedWasShown
  <2>6. QED BY <2>1, <2>3, <2>4, <2>5, HistorySame, PostMoves
<1>6. ASSUME RecoverStalePosting \/ \E b \in Body : EditDraft(b) PROVE IInv'
  <2>1. /\ UNCHANGED <<versions, review, corrections, market, job, page, sync>>
        /\ \/ UNCHANGED inquiry
           \/ inquiry' = [inquiry EXCEPT !.post = "POST_UNKNOWN"]
        /\ UNCHANGED draft \/ \E b \in Body : draft' = [draft EXCEPT !.body = b]
    BY <1>6 DEF RecoverStalePosting, EditDraft
  <2>2. Types'
    BY <2>1 DEF IInv, Types, PostStatus, Inq
  <2>3. JobCarries'
    BY <2>1 DEF IInv, JobCarries
  <2>4. ShownSame
    BY <2>1 DEF IInv, Types, Inq, Carried, Shown, RecordedWasShown
  <2>5. QED BY <2>1, <2>2, <2>3, <2>4, HistorySame, PostMoves
<1>7. QED BY <1>1, <1>2, <1>3, <1>4, <1>5, <1>6 DEF PosterStep

\* The review after a post: the version the outcome is written to exists.
LEMMA RecordKeeps == IInv /\ RecordOutcome => IInv'
<1> SUFFICES ASSUME IInv, RecordOutcome PROVE IInv'
  OBVIOUS
<1>1. PICK status \in {"POSTED", "POST_FAILED", "POST_UNKNOWN"} :
        /\ versions' = [versions EXCEPT ![1].naver = status]
        /\ review' =
             [status |-> IF status = "POSTED" THEN "AUTO_POSTED_UNREVIEWED" ELSE status,
              current |-> IF status = "POSTED" \/ review = NoReview
                          THEN 1 ELSE review.current]
        /\ job' = [job EXCEPT ![Pipeline] = [pc |-> "idle", body |-> None]]
        /\ job[Pipeline].pc # "idle"
        /\ UNCHANGED <<inquiry, draft, corrections, market, page, sync>>
  BY DEF RecordOutcome, SetJob
<1>2. /\ versions \in Seq(Version) /\ DOMAIN versions = 1..Len(versions)
      /\ Len(versions) \in Nat /\ 1 \in DOMAIN versions
  <2>1. versions \in Seq(Version) /\ versions # <<>>
    BY <1>1 DEF IInv, Types, JobCarries
  <2>2. QED BY <2>1
<1>3. /\ versions' \in Seq(Version) /\ DOMAIN versions' = DOMAIN versions /\ versions' # <<>>
      /\ \A n \in DOMAIN versions : /\ versions'[n].body = versions[n].body
                                    /\ versions'[n].kind = versions[n].kind
  <2>1. versions[1] \in Version
    BY <1>2
  <2>2. [versions[1] EXCEPT !.naver = status] \in Version
    BY <2>1 DEF Version, NaverStatus
  <2>3. QED BY <1>1, <1>2, <2>2 DEF Version
<1>4. HistoryGrows
  BY <1>1, <1>3 DEF IInv, RecordedWasShown, HistoryGrows
<1>5. /\ review'.current \in DOMAIN versions' /\ review'.status \in ReviewStatus
      /\ review'.status \notin {"none", "CORRECTION_PENDING"} /\ review' # NoReview
      /\ review' \in [status: ReviewStatus \cup {"none"}, current: Nat]
  <2>1. review = NoReview \/ review.current \in DOMAIN versions
    BY DEF IInv, References
  <2>2. (IF status = "POSTED" \/ review = NoReview THEN 1 ELSE review.current)
          \in DOMAIN versions
    BY <1>2, <2>1
  <2>3. (IF status = "POSTED" THEN "AUTO_POSTED_UNREVIEWED" ELSE status)
          \in {"AUTO_POSTED_UNREVIEWED", "POST_FAILED", "POST_UNKNOWN"}
    OBVIOUS
  <2>4. QED BY <1>1, <1>2, <1>3, <2>2, <2>3 DEF ReviewStatus, NoReview
<1>6. Types'
  <2>1. job' \in [Poster -> Job]
    BY <1>1, JobType, PostReviewAssumption DEF IInv, Types, Text
  <2>2. QED BY <1>1, <1>3, <1>5, <2>1 DEF IInv, Types
<1>7. JobCarries'
  BY <1>1, <1>3, PostReviewAssumption DEF IInv, Types, JobCarries
<1>8. References' /\ Waiting' /\ OneActive' /\ PendingMeansPosting'
  <2>1. References'
    BY <1>1, <1>3, <1>5 DEF IInv, References
  <2>2. Waiting' /\ OneActive' /\ PendingMeansPosting'
    BY <1>1, <1>5 DEF IInv, Waiting, OneActive, Unresolved, PendingMeansPosting
  <2>3. QED BY <2>1, <2>2
<1>9. Shown(market.shown)' /\ Shown(sync.body)' /\ Shown(inquiry.hash)'
  BY <1>1 DEF IInv, Carried, Shown, RecordedWasShown
<1>10. QED BY <1>1, <1>4, <1>6, <1>7, <1>8, <1>9, TextsKeep DEF IInv
-----------------------------------------------------------------------------
(* What an assignment to fields of one correction makes of the sequence.   *)

LEMMA CorrectionSet ==
  ASSUME corrections \in Seq(Correction), NEW c \in DOMAIN corrections,
         NEW st, NEW w
  PROVE  LET row(x, y) == [proposed |-> corrections[c].proposed, wire |-> x, status |-> y]
         IN  /\ [corrections EXCEPT ![c].status = st]
                  = [corrections EXCEPT ![c] = row(corrections[c].wire, st)]
             /\ [corrections EXCEPT ![c].wire = w]
                  = [corrections EXCEPT ![c] = row(w, corrections[c].status)]
<1> DEFINE old == corrections[c]
           row(x, y) == [proposed |-> old.proposed, wire |-> x, status |-> y]
<1>1. old \in [proposed: Nat, wire: Wire, status: CorrectionStatus]
  <2>1. corrections[c] \in Correction
    OBVIOUS
  <2>2. QED BY <2>1 DEF Correction
<1>2. [old EXCEPT !.status = st] = row(old.wire, st)
  BY <1>1
<1>3. [old EXCEPT !.wire = w] = row(w, old.status)
  BY <1>1
<1>4. [corrections EXCEPT ![c].status = st] = [corrections EXCEPT ![c] = row(old.wire, st)]
  BY <1>2
<1>5. [corrections EXCEPT ![c].wire = w] = [corrections EXCEPT ![c] = row(w, old.status)]
  BY <1>3
<1>6. QED BY <1>4, <1>5

-----------------------------------------------------------------------------
(* The review panel.                                                       *)

\* A page is opened or closed, or a session that waited ends.
LEMMA PageMoves ==
  ASSUME IInv, NEW s \in Staff, NEW new, page' = [page EXCEPT ![s] = new],
         \/ new = NoPage
         \/ review # NoReview /\ \E b \in SUBSET {"correct", "no_change"} :
              new = [pc |-> "open", buttons |-> b, correction |-> 0],
         UNCHANGED <<inquiry, draft, versions, review, corrections, market, job, sync>>
  PROVE  IInv'
<1>1. /\ new \in [pc: {"closed", "open", "sending"},
                  buttons: SUBSET {"correct", "no_change"}, correction: Nat]
      /\ new.pc # "sending" /\ new.correction = 0 /\ (new.pc # "closed" => review # NoReview)
  <2>1. CASE new = NoPage
    BY <2>1 DEF NoPage
  <2>2. CASE new # NoPage
    <3>1. PICK b \in SUBSET {"correct", "no_change"} :
             review # NoReview /\ new = [pc |-> "open", buttons |-> b, correction |-> 0]
      BY <2>2
    <3>2. QED BY <3>1
  <2>3. QED BY <2>1, <2>2
<1>2. /\ page' \in [Staff -> [pc: {"closed", "open", "sending"},
                              buttons: SUBSET {"correct", "no_change"}, correction: Nat]]
      /\ page'[s] = new /\ \A t \in Staff \ {s} : page'[t] = page[t]
  BY <1>1 DEF IInv, Types
<1>3. Types'
  BY <1>2 DEF IInv, Types
<1>4. References'
  <2>1. 0 \in 0..Len(corrections)
    BY DEF IInv, Types
  <2>2. QED BY <1>1, <1>2, <2>1 DEF IInv, References
<1>5. Waiting'
  BY <1>1, <1>2 DEF IInv, Waiting
<1>6. QED BY <1>3, <1>4, <1>5
          DEF IInv, OneActive, Unresolved, JobCarries, Carried, Shown,
              PendingMeansPosting, RecordedWasShown

LEMMA PageStepKeeps ==
  ASSUME IInv, NEW s \in Staff, Render(s) \/ CrashSession(s)
  PROVE  IInv'
<1>1. CASE Render(s)
  <2>1. Buttons(review.status) \in SUBSET {"correct", "no_change"}
    BY DEF Buttons
  <2>2. QED BY <1>1, <2>1, PageMoves DEF Render
<1>2. CASE CrashSession(s)
  BY <1>2, PageMoves DEF CrashSession, Close
<1>3. QED BY <1>1, <1>2

\* The next number is free only after the last version.
LEMMA CorrectKeeps ==
  ASSUME IInv, NEW s \in Staff, NEW b \in Body, Correct(s, b)
  PROVE  IInv'
<1>1. CASE /\ Close(s)
           /\ UNCHANGED <<versions, corrections, review, inquiry, draft, market, job, sync>>
  BY <1>1, PageMoves DEF Close
<1>2. CASE ~(/\ Close(s)
             /\ UNCHANGED <<versions, corrections, review, inquiry, draft, market, job, sync>>)
  <2> DEFINE n == Len(versions) + 1
             c == Len(corrections) + 1
             new == [proposed |-> n, wire |-> "sent", status |-> "POSTING"]
  <2>1. /\ versions' = Insert(versions, "STAFF_CORRECTION_DRAFT", b, "CORRECTION_PENDING")
        /\ corrections' = Append(corrections, new)
        /\ review' = [status |-> "CORRECTION_PENDING", current |-> n]
        /\ page' = [page EXCEPT ![s] = [pc |-> "sending", buttons |-> {}, correction |-> c]]
        /\ CorrectionSlotFree
        /\ UNCHANGED <<inquiry, draft, market, job, sync>>
    BY <1>2 DEF Correct, BeginAllowed
  <2>2. /\ versions' \in Seq(Version) /\ versions' # <<>> /\ HistoryGrows
        /\ Len(versions) \in Nat /\ DOMAIN versions = 1..Len(versions)
        /\ DOMAIN versions' = 1..n
    BY <2>1, Inserted DEF Kind, NaverStatus
  <2>3. /\ corrections \in Seq(Correction) /\ new \in Correction /\ n \in DOMAIN versions'
    BY <2>2 DEF IInv, Types, Correction, Wire, CorrectionStatus
  <2>4. new.proposed = n /\ new.wire = "sent" /\ new.status = "POSTING"
    OBVIOUS
  <2> HIDE DEF new, n
  <2>5. /\ corrections' \in Seq(Correction) /\ Len(corrections') = c
        /\ Len(corrections) \in Nat /\ DOMAIN corrections = 1..Len(corrections)
        /\ DOMAIN corrections' = 1..c /\ corrections'[c] = new
        /\ \A d \in 1..Len(corrections) : corrections'[d] = corrections[d]
    BY <2>1, <2>3
  <2>6. /\ page' \in [Staff -> [pc: {"closed", "open", "sending"},
                                buttons: SUBSET {"correct", "no_change"}, correction: Nat]]
        /\ page'[s] = [pc |-> "sending", buttons |-> {}, correction |-> c]
        /\ \A t \in Staff \ {s} : page'[t] = page[t]
    BY <2>1, <2>5 DEF IInv, Types
  <2>7. Types'
    BY <2>1, <2>2, <2>3, <2>5, <2>6 DEF IInv, Types, ReviewStatus, n
  <2>8. References'
    <3>1. \A d \in DOMAIN corrections' : corrections'[d].proposed \in DOMAIN versions'
      <4> SUFFICES ASSUME NEW d \in DOMAIN corrections'
                   PROVE  corrections'[d].proposed \in DOMAIN versions'
        OBVIOUS
      <4>1. CASE d = c
        BY <2>3, <2>4, <2>5, <4>1
      <4>2. CASE d \in DOMAIN corrections
        BY <2>2, <2>5, <4>2 DEF IInv, References, HistoryGrows
      <4>3. QED BY <2>5, <4>1, <4>2
    <3>2. \A t \in Staff : page'[t].correction \in 0..Len(corrections')
      BY <2>5, <2>6 DEF IInv, References
    <3>3. review'.status # "none" /\ review'.current \in DOMAIN versions'
      BY <2>1, <2>3
    <3>4. QED BY <3>1, <3>2, <3>3 DEF References
  <2>9. Waiting'
    <3>1. review' # NoReview
      BY <2>1 DEF NoReview
    <3>2. \A t \in Staff \ {s} : page'[t].pc = "sending" =>
            /\ page'[t].correction \in DOMAIN corrections
            /\ corrections'[page'[t].correction].status = "POSTING"
      BY <2>5, <2>6 DEF IInv, Waiting
    <3>3. /\ page'[s].correction = c /\ c \in DOMAIN corrections' /\ c \notin DOMAIN corrections
          /\ corrections'[c].status = "POSTING"
      BY <2>4, <2>5, <2>6
    <3>4. \A t, u \in Staff \ {s} :
            t # u /\ page'[t].pc = "sending" /\ page'[u].pc = "sending" =>
              page'[u].correction # page'[t].correction
      BY <2>6 DEF IInv, Waiting
    <3>5. QED BY <2>5, <2>6, <3>1, <3>2, <3>3, <3>4 DEF Waiting
  <2>10. OneActive'
    <3>1. \A d \in DOMAIN corrections :
            corrections[d].wire # "sent" /\ corrections[d].status \notin {"POSTING", "UNKNOWN"}
      BY <2>1 DEF IInv, OneActive, CorrectionSlotFree, Unresolved
    <3>2. QED BY <2>4, <2>5, <3>1 DEF OneActive, Unresolved
  <2>11. JobCarries' /\ PendingMeansPosting'
    <3>1. JobCarries'
      BY <2>1, <2>2 DEF IInv, JobCarries
    <3>2. c \in DOMAIN corrections' /\ corrections'[c].status = "POSTING"
      BY <2>4, <2>5
    <3>3. corrections'[c].proposed = review'.current
      BY <2>1, <2>4, <2>5
    <3>4. QED BY <3>1, <3>2, <3>3 DEF PendingMeansPosting
  <2>12. Carried' /\ RecordedWasShown'
    <3>1. \A d \in DOMAIN corrections' :
            corrections'[d].wire = "arrived" =>
              versions'[corrections'[d].proposed].body \in market'.ever
      <4> SUFFICES ASSUME NEW d \in DOMAIN corrections', corrections'[d].wire = "arrived"
                   PROVE  versions'[corrections'[d].proposed].body \in market'.ever
        OBVIOUS
      <4>1. d \in DOMAIN corrections /\ corrections'[d] = corrections[d]
        BY <2>4, <2>5
      <4>2. QED BY <2>1, <2>2, <4>1 DEF IInv, References, Carried, HistoryGrows
    <3>2. QED BY <2>1, <2>2, <3>1 DEF IInv, Carried, Shown, RecordedWasShown, HistoryGrows
  <2>13. QED BY <2>7, <2>8, <2>9, <2>10, <2>11, <2>12 DEF IInv
<1>3. QED BY <1>1, <1>2

\* What the end of a step of the review leaves true, whoever takes it: the
\* review moves to a version that exists and waits for nothing; pages only close.
LEMMA ReviewMoves ==
  ASSUME IInv, HistoryGrows, versions' \in Seq(Version),
         UNCHANGED versions \/ versions' # <<>>,
         review' \in ReviewRow, review'.status # "CORRECTION_PENDING",
         review'.current \in DOMAIN versions',
         page' = page \/ \E s \in Staff : Close(s),
         inquiry' \in Inq, Shown(inquiry.hash)',
         sync' \in [pc: {"idle", "listed"}, body: Text], Shown(sync.body)',
         UNCHANGED <<draft, corrections, market, job>>
  PROVE  IInv'
<1>1. review' # NoReview /\ review'.status # "none"
  BY DEF ReviewRow, ReviewStatus, NoReview
<1>2. /\ \A t \in Staff : page'[t] = page[t] \/ page'[t] = NoPage
      /\ page' \in [Staff -> [pc: {"closed", "open", "sending"},
                              buttons: SUBSET {"correct", "no_change"}, correction: Nat]]
  <2>1. NoPage \in [pc: {"closed", "open", "sending"},
                    buttons: SUBSET {"correct", "no_change"}, correction: Nat]
    BY DEF NoPage
  <2>2. CASE page' = page
    BY <2>2 DEF IInv, Types
  <2>3. CASE \E s \in Staff : Close(s)
    BY <2>1, <2>3 DEF IInv, Types, Close
  <2>4. QED BY <2>2, <2>3
<1>3. NoPage.pc = "closed" /\ NoPage.correction = 0
  BY DEF NoPage
<1>4. Types'
  BY <1>1, <1>2 DEF IInv, Types, Inq, ReviewRow
<1>5. References'
  <2>1. 0 \in 0..Len(corrections)
    BY DEF IInv, Types
  <2>2. QED BY <1>1, <1>2, <1>3, <2>1 DEF IInv, References, HistoryGrows
<1>6. Waiting' /\ OneActive' /\ PendingMeansPosting'
  <2>1. \A t \in Staff : page'[t].pc # "closed" => page'[t] = page[t]
    BY <1>2, <1>3
  <2>2. Waiting'
    BY <1>1, <2>1 DEF IInv, Waiting
  <2>3. OneActive' /\ PendingMeansPosting'
    BY DEF IInv, OneActive, Unresolved, PendingMeansPosting
  <2>4. QED BY <2>2, <2>3
<1>7. JobCarries'
  BY DEF IInv, JobCarries
<1>8. Shown(market.shown)' /\ market.ever \subseteq market'.ever
  BY DEF IInv, Carried, Shown
<1>9. QED BY <1>4, <1>5, <1>6, <1>7, <1>8, TextsKeep DEF IInv

LEMMA NoChangeKeeps ==
  ASSUME IInv, NEW s \in Staff, ReviewedNoChange(s)
  PROVE  IInv'
<1>1. review # NoReview /\ review.current \in DOMAIN versions
  BY DEF ReviewedNoChange, Pressed, IInv, Waiting, References
<1>2. CASE UNCHANGED <<versions, review>>
  BY <1>2, PageMoves DEF ReviewedNoChange, Close
<1>3. CASE ~UNCHANGED <<versions, review>>
  <2> DEFINE body == versions[review.current].body
  <2>1. /\ versions' = Insert(versions, "REVIEWED_NO_CHANGE", body, "POSTED")
        /\ review' = [status |-> "REVIEWED_NO_CHANGE", current |-> Len(versions) + 1]
        /\ Close(s) /\ UNCHANGED <<inquiry, draft, corrections, market, job, sync>>
    BY <1>3 DEF ReviewedNoChange
  <2>2. body \in Body
    <3>1. versions[review.current] \in Version
      BY <1>1 DEF IInv, Types
    <3>2. QED BY <3>1 DEF Version
  <2> HIDE DEF body
  <2>3. /\ versions' \in Seq(Version) /\ versions' # <<>> /\ HistoryGrows
        /\ Len(versions) \in Nat /\ DOMAIN versions' = 1..(Len(versions) + 1)
    BY <2>1, <2>2, Inserted DEF Kind, NaverStatus
  <2>4. /\ review' \in ReviewRow /\ review'.status # "CORRECTION_PENDING"
        /\ review'.current \in DOMAIN versions'
    BY <2>1, <2>3 DEF ReviewRow, ReviewStatus
  <2>5. /\ inquiry' \in Inq /\ sync' \in [pc: {"idle", "listed"}, body: Text]
        /\ Shown(inquiry.hash)' /\ Shown(sync.body)'
    BY <2>1 DEF IInv, Types, Inq, Carried, Shown, RecordedWasShown
  <2>6. QED BY <2>1, <2>3, <2>4, <2>5, ReviewMoves
<1>4. QED BY <1>2, <1>3

\* A correction in progress gets its outcome from the session that waits for it.
LEMMA CorrectionEnds ==
  ASSUME IInv, NEW s \in Staff, page[s].pc = "sending", Close(s),
         NEW new \in Correction,
         corrections' = [corrections EXCEPT ![page[s].correction] = new],
         new.proposed = corrections[page[s].correction].proposed,
         new.wire = "sent" => new.status = "UNKNOWN",
         new.wire = "arrived" => corrections[page[s].correction].wire = "arrived",
         HistoryGrows, versions' \in Seq(Version),
         UNCHANGED versions \/ versions' # <<>>,
         review' \in ReviewRow, review'.status # "CORRECTION_PENDING",
         review'.current \in DOMAIN versions',
         inquiry' \in Inq, Shown(inquiry.hash)',
         UNCHANGED <<draft, market, job, sync>>
  PROVE  IInv'
<1> DEFINE c == page[s].correction
<1>1. /\ c \in DOMAIN corrections /\ corrections[c].status = "POSTING" /\ c = Len(corrections)
      /\ \A t \in Staff \ {s} : page[t].pc = "sending" => page[t].correction # c
  BY DEF IInv, Waiting, OneActive, Unresolved
<1> HIDE DEF c
<1>2. corrections' = [corrections EXCEPT ![c] = new] /\ new.proposed = corrections[c].proposed
      /\ (new.wire = "arrived" => corrections[c].wire = "arrived")
  BY DEF c
<1>3. /\ corrections' \in Seq(Correction) /\ DOMAIN corrections' = DOMAIN corrections
      /\ Len(corrections') = Len(corrections) /\ corrections'[c] = new
      /\ \A d \in DOMAIN corrections : d # c => corrections'[d] = corrections[d]
  <2>1. corrections \in Seq(Correction)
    BY DEF IInv, Types
  <2>2. /\ DOMAIN corrections' = DOMAIN corrections /\ corrections'[c] = new
        /\ \A d \in DOMAIN corrections : d # c => corrections'[d] = corrections[d]
    BY <1>1, <1>2, <2>1
  <2>3. [corrections EXCEPT ![c] = new] \in Seq(Correction)
    BY <1>1, <2>1
  <2>4. Len([corrections EXCEPT ![c] = new]) = Len(corrections)
    BY <1>1, <2>1
  <2>5. QED BY <1>2, <2>2, <2>3, <2>4
<1>4. review' # NoReview /\ review'.status # "none"
  BY DEF ReviewRow, ReviewStatus, NoReview
<1>5. /\ page'[s] = NoPage /\ \A t \in Staff \ {s} : page'[t] = page[t]
      /\ page' \in [Staff -> [pc: {"closed", "open", "sending"},
                              buttons: SUBSET {"correct", "no_change"}, correction: Nat]]
      /\ NoPage.pc = "closed" /\ NoPage.correction = 0
  <2>1. NoPage \in [pc: {"closed", "open", "sending"},
                    buttons: SUBSET {"correct", "no_change"}, correction: Nat]
    BY DEF NoPage
  <2>2. QED BY <2>1 DEF IInv, Types, Close, NoPage
<1>6. Types'
  BY <1>3, <1>4, <1>5 DEF IInv, Types, Inq, ReviewRow
<1>7. References'
  <2>1. \A d \in DOMAIN corrections' : corrections'[d].proposed \in DOMAIN versions'
    BY <1>1, <1>2, <1>3 DEF IInv, References, HistoryGrows
  <2>2. \A t \in Staff : page'[t].correction \in 0..Len(corrections')
    <3>1. 0 \in 0..Len(corrections)
      BY DEF IInv, Types
    <3>2. QED BY <1>3, <1>5, <3>1 DEF IInv, References
  <2>3. QED BY <1>4, <2>1, <2>2 DEF References
<1>8. Waiting'
  <2>1. \A t \in Staff : page'[t].pc # "closed" => page'[t] = page[t] /\ t # s
    BY <1>5
  <2>2. \A t \in Staff : page'[t].pc = "sending" =>
          /\ page[t].correction \in DOMAIN corrections /\ page[t].correction # c
          /\ corrections[page[t].correction].status = "POSTING"
          /\ \A u \in Staff \ {t} : page[u].pc = "sending" =>
               page[u].correction # page[t].correction
    BY <1>1, <2>1 DEF IInv, Waiting
  <2>3. QED BY <1>3, <1>4, <2>1, <2>2 DEF Waiting
<1>9. OneActive'
  BY <1>1, <1>3 DEF IInv, OneActive, Unresolved
<1>10. JobCarries' /\ PendingMeansPosting'
  BY DEF IInv, JobCarries, PendingMeansPosting
<1>11. Carried'
  <2>1. ASSUME NEW d \in DOMAIN corrections', corrections'[d].wire = "arrived"
        PROVE  versions'[corrections'[d].proposed].body \in market'.ever
    <3>1. /\ d \in DOMAIN corrections /\ corrections'[d].proposed = corrections[d].proposed
          /\ corrections[d].wire = "arrived"
      BY <1>1, <1>2, <1>3, <2>1
    <3>2. QED BY <3>1 DEF IInv, References, Carried, HistoryGrows
  <2>2. QED BY <2>1 DEF IInv, Carried, Shown
<1>12. RecordedWasShown'
  BY DEF HistoryGrows, RecordedWasShown, Shown
<1>13. QED BY <1>6, <1>7, <1>8, <1>9, <1>10, <1>11, <1>12 DEF IInv

LEMMA OutcomeKeeps ==
  ASSUME IInv, NEW s \in Staff,
         CompleteCorrection(s) \/ CorrectionFails(s) \/ CorrectionTimesOut(s)
  PROVE  IInv'
<1> DEFINE c == page[s].correction
           old == corrections[c]
<1>1. /\ page[s].pc = "sending" /\ c \in DOMAIN corrections /\ review # NoReview
      /\ old.proposed \in DOMAIN versions /\ review.current \in DOMAIN versions
  BY DEF CompleteCorrection, CorrectionFails, CorrectionTimesOut, IInv, Waiting, References
<1>2. corrections \in Seq(Correction) /\ old \in Correction /\ versions \in Seq(Version)
  BY <1>1 DEF IInv, Types
<1>3. /\ old.proposed \in Nat /\ old.wire \in Wire /\ old.status \in CorrectionStatus
      /\ old = [proposed |-> old.proposed, wire |-> old.wire, status |-> old.status]
  BY <1>2 DEF Correction
<1>4. CASE CompleteCorrection(s) /\ UNCHANGED <<versions, corrections, review, inquiry>>
  BY <1>4, PageMoves DEF CompleteCorrection, Apply, Close
<1>5. CASE CompleteCorrection(s) /\ ~UNCHANGED <<versions, corrections, review, inquiry>>
  <2> DEFINE body == versions[old.proposed].body
             new == [proposed |-> old.proposed, wire |-> old.wire, status |-> "SUCCEEDED"]
  <2>1. /\ versions' = Insert(versions, "NAVER_CORRECTION_APPLIED", body, "POSTED")
        /\ corrections' = [corrections EXCEPT ![c].status = "SUCCEEDED"]
        /\ review' = [status |-> "CORRECTED_AND_REPOSTED", current |-> Len(versions) + 1]
        /\ inquiry' = [inquiry EXCEPT !.hash = body]
        /\ old.wire = "arrived" /\ Close(s) /\ UNCHANGED <<draft, market, job, sync>>
    BY <1>5 DEF CompleteCorrection, Apply
  <2>2. corrections' = [corrections EXCEPT ![c] = new]
    BY <1>1, <1>2, <2>1, CorrectionSet
  <2>3. /\ new \in Correction /\ new.proposed = old.proposed /\ new.wire = "arrived"
    BY <1>3, <2>1 DEF Correction, CorrectionStatus
  <2>4. body \in market.ever /\ body \in Body
    <3>1. versions[old.proposed] \in Version
      BY <1>1, <1>2
    <3>2. QED BY <1>1, <2>1, <3>1 DEF IInv, Carried, Version
  <2> HIDE DEF body, new
  <2>5. /\ versions' \in Seq(Version) /\ versions' # <<>> /\ HistoryGrows
        /\ Len(versions) \in Nat /\ DOMAIN versions' = 1..(Len(versions) + 1)
    BY <2>1, <2>4, Inserted DEF Kind, NaverStatus
  <2>6. /\ review' \in ReviewRow /\ review'.status # "CORRECTION_PENDING"
        /\ review'.current \in DOMAIN versions'
    BY <2>1, <2>5 DEF ReviewRow, ReviewStatus
  <2>7. inquiry' \in Inq /\ Shown(inquiry.hash)'
    BY <2>1, <2>4 DEF IInv, Types, Inq, Text, Shown
  <2>8. QED BY <1>1, <2>1, <2>2, <2>3, <2>5, <2>6, <2>7, CorrectionEnds
<1>6. ASSUME NEW status \in {"FAILED", "UNKNOWN"}, NEW wire \in Wire,
             FailCorrection(s, status, wire),
             status = "FAILED" => wire = "lost", status = "UNKNOWN" => wire = old.wire
      PROVE  IInv'
  <2> DEFINE new == [proposed |-> old.proposed, wire |-> wire, status |-> status]
             next == IF status = "UNKNOWN" THEN "POST_UNKNOWN" ELSE "CORRECTION_FAILED"
  <2>1. /\ corrections' = [corrections EXCEPT ![c].status = status, ![c].wire = wire]
        /\ review' = [review EXCEPT !.status = next]
        /\ Close(s) /\ UNCHANGED <<inquiry, draft, versions, market, job, sync>>
    BY <1>6 DEF FailCorrection
  <2>2. corrections' = [corrections EXCEPT ![c] = new]
    <3> DEFINE row(x, y) == [proposed |-> old.proposed, wire |-> x, status |-> y]
               mid == [corrections EXCEPT ![c] = row(old.wire, status)]
    <3>1. [corrections EXCEPT ![c].status = status] = mid
      BY <1>1, <1>2, CorrectionSet
    <3>2. corrections' = [mid EXCEPT ![c].wire = wire]
      BY <2>1, <3>1
    <3>3. DOMAIN mid = DOMAIN corrections /\ mid[c] = row(old.wire, status)
      BY <1>1
    <3>4. [row(old.wire, status) EXCEPT !.wire = wire] = new
      OBVIOUS
    <3>5. [mid EXCEPT ![c].wire = wire] = [mid EXCEPT ![c] = new]
      BY <3>3, <3>4
    <3>6. [mid EXCEPT ![c] = new] = [corrections EXCEPT ![c] = new]
      OBVIOUS
    <3>7. QED BY <3>2, <3>5, <3>6
  <2>3. /\ new \in Correction /\ new.proposed = old.proposed
        /\ new.wire = "sent" => new.status = "UNKNOWN"
        /\ new.wire = "arrived" => old.wire = "arrived"
    BY <1>3, <1>6 DEF Correction, CorrectionStatus
  <2>4. next \in {"POST_UNKNOWN", "CORRECTION_FAILED"}
    OBVIOUS
  <2> HIDE DEF new, next
  <2>5. /\ review' \in ReviewRow /\ review'.status # "CORRECTION_PENDING"
        /\ review'.current \in DOMAIN versions'
    BY <1>1, <2>1, <2>4 DEF IInv, Types, ReviewRow, ReviewStatus
  <2>6. inquiry' \in Inq /\ Shown(inquiry.hash)' /\ versions' \in Seq(Version)
    BY <2>1 DEF IInv, Types, RecordedWasShown, Shown
  <2>7. HistoryGrows
    BY <2>1, HistorySame
  <2>8. QED BY <1>1, <2>1, <2>2, <2>3, <2>5, <2>6, <2>7, CorrectionEnds
<1>7. CASE CorrectionFails(s)
  BY <1>6, <1>7 DEF CorrectionFails, Wire
<1>8. CASE CorrectionTimesOut(s)
  BY <1>3, <1>6, <1>8 DEF CorrectionTimesOut
<1>9. QED BY <1>4, <1>5, <1>7, <1>8
-----------------------------------------------------------------------------
(* The marketplace and the sync.                                           *)

LEMMA MarketKeeps ==
  ASSUME IInv, NEW c \in DOMAIN corrections, MarketTakesCorrection(c)
  PROVE  IInv'
<1> DEFINE body == versions[corrections[c].proposed].body
           new == [proposed |-> corrections[c].proposed, wire |-> "arrived",
                   status |-> corrections[c].status]
<1>1. /\ corrections \in Seq(Correction) /\ corrections[c] \in Correction
      /\ corrections[c].proposed \in DOMAIN versions
      /\ versions[corrections[c].proposed] \in Version
  BY DEF IInv, Types, References
<1>2. /\ corrections[c].wire = "sent"
      /\ corrections' = [corrections EXCEPT ![c].wire = "arrived"]
      /\ market' = [market EXCEPT !.shown = body, !.ever = @ \cup {body}]
      /\ UNCHANGED <<inquiry, draft, versions, review, job, page, sync>>
  BY DEF MarketTakesCorrection, Shows
<1>3. /\ body \in Body /\ new \in Correction /\ new.proposed = corrections[c].proposed
      /\ new.status = corrections[c].status /\ new.wire = "arrived"
      /\ corrections' = [corrections EXCEPT ![c] = new]
  <2>1. corrections' = [corrections EXCEPT ![c] = new]
    BY <1>1, <1>2, CorrectionSet
  <2>2. body \in Body /\ new \in Correction
    BY <1>1 DEF Correction, Version, Wire
  <2>3. QED BY <2>1, <2>2
<1> HIDE DEF new
<1>4. /\ DOMAIN corrections' = DOMAIN corrections /\ corrections'[c] = new
      /\ \A d \in DOMAIN corrections : d # c => corrections'[d] = corrections[d]
  BY <1>1, <1>3
<1>5. [corrections EXCEPT ![c] = new] \in Seq(Correction)
  BY <1>1, <1>3
<1>6. Len([corrections EXCEPT ![c] = new]) = Len(corrections)
  BY <1>1, <1>3
<1>7. /\ \A d \in DOMAIN corrections :
           /\ corrections'[d].proposed = corrections[d].proposed
           /\ corrections'[d].status = corrections[d].status
           /\ corrections'[d].wire = corrections[d].wire \/ d = c
      /\ corrections' \in Seq(Correction) /\ Len(corrections') = Len(corrections)
  BY <1>3, <1>4, <1>5, <1>6
<1>8. /\ market'.shown = body /\ market'.ever = market.ever \cup {body}
      /\ market' \in [shown: Text, ever: SUBSET Body, edits: 0..MaxEdits]
  BY <1>2, <1>3 DEF IInv, Types, Text
<1> HIDE DEF body
<1>9. Types'
  BY <1>2, <1>7, <1>8 DEF IInv, Types
<1>10. References' /\ PendingMeansPosting'
  BY <1>2, <1>4, <1>7 DEF IInv, References, PendingMeansPosting
<1>11. Waiting'
  BY <1>2, <1>4, <1>7 DEF IInv, Waiting
<1>12. OneActive'
  BY <1>3, <1>4, <1>7 DEF IInv, OneActive, Unresolved
<1>13. JobCarries' /\ RecordedWasShown'
  BY <1>2, <1>8 DEF IInv, JobCarries, RecordedWasShown
<1>14. Carried'
  BY <1>2, <1>3, <1>4, <1>7, <1>8 DEF IInv, Carried, Shown, body
<1>15. QED BY <1>9, <1>10, <1>11, <1>12, <1>13, <1>14 DEF IInv

LEMMA SellerKeeps ==
  ASSUME IInv, \/ \E b \in Body : SellerEdits(b)
               \/ SyncLists
  PROVE  IInv'
<1>1. CASE \E b \in Body : SellerEdits(b)
  <2>1. PICK b \in Body : SellerEdits(b)
    BY <1>1
  <2>2. /\ market' \in [shown: Text, ever: SUBSET Body, edits: 0..MaxEdits]
        /\ market'.shown = b /\ market'.ever = market.ever \cup {b}
        /\ UNCHANGED <<inquiry, draft, versions, review, corrections, job, page, sync>>
    <3>1. market \in [shown: Text, ever: SUBSET Body, edits: 0..MaxEdits]
      BY DEF IInv, Types
    <3>2. /\ market' = [shown |-> b, ever |-> market.ever \cup {b},
                        edits |-> market.edits + 1]
          /\ market.edits < MaxEdits
      BY <2>1, <3>1 DEF SellerEdits, Shows
    <3>3. market.edits + 1 \in 0..MaxEdits /\ b \in Text /\ market.ever \cup {b} \in SUBSET Body
      BY <3>1, <3>2, PostReviewAssumption DEF Text
    <3>4. UNCHANGED <<inquiry, draft, versions, review, corrections, job, page, sync>>
      BY <2>1 DEF SellerEdits
    <3>5. QED BY <3>2, <3>3, <3>4
  <2>3. Types' /\ JobCarries'
    BY <2>2 DEF IInv, Types, JobCarries
  <2>4. Shown(market.shown)' /\ Shown(inquiry.hash)'
    BY <2>2 DEF IInv, RecordedWasShown, Shown
  <2>5. QED BY <2>2, <2>3, <2>4, HistorySame, PostMoves
<1>2. CASE SyncLists
  <2>1. /\ sync' = [pc |-> "listed", body |-> market.shown]
        /\ UNCHANGED <<inquiry, draft, versions, review, corrections, market, job, page>>
    BY <1>2 DEF SyncLists
  <2>2. Types'
    BY <2>1 DEF IInv, Types
  <2>3. JobCarries'
    BY <2>1 DEF IInv, JobCarries
  <2>4. Shown(market.shown)' /\ Shown(sync.body)' /\ Shown(inquiry.hash)'
    BY <2>1 DEF IInv, Carried, RecordedWasShown, Shown
  <2>5. HistoryGrows
    BY <2>1, HistorySame
  <2>6. QED BY <2>1, <2>2, <2>3, <2>4, <2>5, ReviewSame, TextsKeep DEF IInv
<1>3. QED BY <1>1, <1>2

LEMMA ProcessKeeps == IInv /\ ProcessItem => IInv'
<1> SUFFICES ASSUME IInv, ProcessItem PROVE IInv'
  OBVIOUS
<1> DEFINE row == [inquiry EXCEPT !.answered = (sync.body # None)]
<1>1. /\ row \in Inq /\ row.hash = inquiry.hash
  BY DEF IInv, Types, Inq
<1>2. /\ sync' = [pc |-> "idle", body |-> None]
      /\ UNCHANGED <<draft, corrections, market, job, page>>
      /\ \/ inquiry' = row /\ UNCHANGED <<versions, review>>
         \/ /\ sync.body # None
            /\ versions' = Insert(versions, "NAVER_CORRECTION_APPLIED", sync.body, "POSTED")
            /\ review' = [status |-> "CORRECTED_AND_REPOSTED", current |-> Len(versions) + 1]
            /\ inquiry' = [row EXCEPT !.hash = sync.body]
  BY DEF ProcessItem, Differs
<1> HIDE DEF row
<1>3. sync' \in [pc: {"idle", "listed"}, body: Text] /\ Shown(sync.body)'
  BY <1>2 DEF Text, Shown
<1>4. CASE inquiry' = row /\ UNCHANGED <<versions, review>>
  <2>1. Types'
    BY <1>1, <1>2, <1>3, <1>4 DEF IInv, Types
  <2>2. JobCarries'
    BY <1>2, <1>4 DEF IInv, JobCarries
  <2>3. Shown(market.shown)' /\ Shown(inquiry.hash)'
    BY <1>1, <1>2, <1>4 DEF IInv, Carried, RecordedWasShown, Shown
  <2>4. HistoryGrows
    BY <1>2, <1>4, HistorySame
  <2>5. QED BY <1>2, <1>3, <1>4, <2>1, <2>2, <2>3, <2>4, ReviewSame, TextsKeep DEF IInv
<1>5. CASE ~(inquiry' = row /\ UNCHANGED <<versions, review>>)
  <2>1. /\ sync.body \in Body /\ sync.body \in market.ever
        /\ versions' = Insert(versions, "NAVER_CORRECTION_APPLIED", sync.body, "POSTED")
        /\ review' = [status |-> "CORRECTED_AND_REPOSTED", current |-> Len(versions) + 1]
        /\ inquiry' = [row EXCEPT !.hash = sync.body]
    BY <1>2, <1>5 DEF IInv, Types, Text, Carried, Shown
  <2>2. /\ versions' \in Seq(Version) /\ versions' # <<>> /\ HistoryGrows
        /\ Len(versions) \in Nat /\ DOMAIN versions' = 1..(Len(versions) + 1)
    BY <1>2, <2>1, Inserted DEF Kind, NaverStatus
  <2>3. /\ review' \in ReviewRow /\ review'.status # "CORRECTION_PENDING"
        /\ review'.current \in DOMAIN versions'
    BY <2>1, <2>2 DEF ReviewRow, ReviewStatus
  <2>4. inquiry' \in Inq /\ Shown(inquiry.hash)'
    BY <1>1, <1>2, <2>1 DEF Inq, Text, Shown
  <2>5. QED BY <1>2, <1>3, <2>2, <2>3, <2>4, ReviewMoves
<1>6. QED BY <1>4, <1>5
-----------------------------------------------------------------------------
LEMMA StepKeeps == IInv /\ [Next]_vars => IInv'
<1> SUFFICES ASSUME IInv, [Next]_vars PROVE IInv'
  OBVIOUS
<1>1. CASE UNCHANGED vars
  BY <1>1 DEF vars, IInv, Types, References, Waiting, OneActive, Unresolved, JobCarries,
              Carried, Shown, PendingMeansPosting, RecordedWasShown
<1>2. CASE \E s \in Staff : \/ SessionStep(s) \/ CrashSession(s)
                            \/ \E b \in Body : Correct(s, b)
  BY <1>2, PageStepKeeps, CorrectKeeps, NoChangeKeeps, OutcomeKeeps DEF SessionStep
<1>3. CASE \/ SyncStep \/ RecordOutcome \/ \E b \in Body : SellerEdits(b)
           \/ \E c \in DOMAIN corrections : MarketTakesCorrection(c)
  BY <1>3, RecordKeeps, MarketKeeps, SellerKeeps, ProcessKeeps DEF SyncStep
<1>4. QED BY <1>1, <1>2, <1>3, PosterKeeps DEF Next

\* The invariant holds in every reachable state (NaverPostService.correct,
\* PostReviewRepository).
THEOREM Inductive == Spec => []IInv
BY InitIInv, StepKeeps, PTL DEF Spec

\* The types and the references between the tables (NaverPostService.correct,
\* PostReviewRepository).
THEOREM TypeCorrect == Spec => []TypeOK
<1>1. ASSUME IInv PROVE TypeOK
  <2> DEFINE Row == [proposed: DOMAIN versions, wire: Wire, status: CorrectionStatus]
             Page == [pc: {"closed", "open", "sending"},
                      buttons: SUBSET {"correct", "no_change"},
                      correction: 0..Len(corrections)]
  <2>1. /\ inquiry \in Inq /\ draft \in [body: Body, posted: BOOLEAN]
        /\ versions \in Seq(Version) /\ corrections \in Seq(Correction)
        /\ market \in [shown: Text, ever: SUBSET Body, edits: 0..MaxEdits]
        /\ job \in [Poster -> Job] /\ sync \in [pc: {"idle", "listed"}, body: Text]
    BY <1>1 DEF IInv, Types
  <2>2. review \in {NoReview} \cup [status: ReviewStatus, current: DOMAIN versions]
    BY <1>1 DEF IInv, Types, References
  <2>3. corrections \in Seq(Row)
    <3>1. ASSUME NEW c \in 1..Len(corrections) PROVE corrections[c] \in Row
      <4>1. corrections[c] \in Correction /\ c \in DOMAIN corrections
        BY <2>1
      <4>2. corrections[c].proposed \in DOMAIN versions
        BY <1>1, <4>1 DEF IInv, References
      <4>3. QED BY <4>1, <4>2 DEF Correction
    <3> HIDE DEF Row
    <3>2. corrections \in [1..Len(corrections) -> Row] /\ Len(corrections) \in Nat
      BY <2>1, <3>1
    <3>3. QED BY <3>2
  <2>4. page \in [Staff -> Page]
    <3>1. ASSUME NEW s \in Staff PROVE page[s] \in Page
      BY <1>1 DEF IInv, Types, References
    <3> HIDE DEF Page
    <3>2. QED BY <1>1, <3>1 DEF IInv, Types
  <2>5. QED BY <2>1, <2>2, <2>3, <2>4 DEF TypeOK, Inq, Version, Job
<1>2. QED BY <1>1, Inductive, PTL

\* A review waits only for a correction that is in progress (begin_correction,
\* complete_correction, fail_correction).
THEOREM PendingIsPosting == Spec => []PendingMeansPosting
<1>1. IInv => PendingMeansPosting
  BY DEF IInv
<1>2. QED BY <1>1, Inductive, PTL

\* No correction is sent while an earlier one may still arrive, whatever sessions,
\* pages and crashes do (idx_post_correction_active).
THEOREM OneInFlight == Spec => []OneCorrectionInFlight
<1>1. IInv => OneCorrectionInFlight
  BY DEF IInv, OneActive, OneCorrectionInFlight
<1>2. QED BY <1>1, Inductive, PTL

\* What is recorded as registered was shown by the marketplace (succeed,
\* complete_correction, capture_remote_naver_edit).
THEOREM OnlyTheShown == Spec => []RecordedWasShown
<1>1. IInv => RecordedWasShown
  BY DEF IInv
<1>2. QED BY <1>1, Inductive, PTL
=============================================================================
