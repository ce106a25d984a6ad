----------------------------- MODULE PostingProofs -----------------------------
(***************************************************************************)
(* Proofs about NaverPost and MarketPost, for every set of inquiries,      *)
(* targets, texts and posters, every assignment of rows to targets and     *)
(* every bound.  What is proved of one marketplace's service holds of both *)
(* (the last part): a step of CoupangPostService is a step of              *)
(* NaverPostService over the same tables, or only reads.                   *)
(***************************************************************************)
EXTENDS MarketPost, TLAPS

USE NaverPostAssumption
-----------------------------------------------------------------------------
(* Types.                                                                  *)

\* The literals the actions write are in the sets the types name.
LEMMA Values ==
  /\ {"POSTING", "POSTED", "POST_FAILED", "POST_UNKNOWN"}
       \subseteq PostStatus \cap AttemptStatus
  /\ "ALREADY_ANSWERED" \in AttemptStatus
  /\ {"none", "target", "other"} \subseteq ErrorCode
  /\ {"unsent", "sent", "ok", "already", "refused", "no_target", "gone"}
       \subseteq WireState
  /\ {"open", "answered", "deleted"} \subseteq SourceState
  /\ {"idle", "candidate", "opened", "checked", "prepared", "calling"} \subseteq Pc
  /\ {"original", "edited", "final"} \subseteq Field
  BY DEF PostStatus, AttemptStatus, ErrorCode, WireState, SourceState, Pc, Field

\* A sequence changed at one place.
LEMMA SeqUpdate ==
  ASSUME NEW S, NEW s \in Seq(S), NEW k \in DOMAIN s, NEW e \in S
  PROVE  [s EXCEPT ![k] = e] \in Seq(S) /\ Len([s EXCEPT ![k] = e]) = Len(s)
  OBVIOUS

\* A function on 1..n is a sequence of length n.
LEMMA SeqFunction ==
  ASSUME NEW S, NEW n \in Nat, NEW f \in [1..n -> S]
  PROVE  f \in Seq(S) /\ Len(f) = n
  OBVIOUS

\* What TypeOK says of the parts, in the form the steps need.
LEMMA TypeFacts ==
  ASSUME TypeOK
  PROVE  /\ DOMAIN attempts = 1..Len(attempts) /\ Len(attempts) \in Nat
         /\ attempts \in Seq(AttemptRow) /\ wire \in Seq(WireState)
         /\ DOMAIN wire = DOMAIN attempts
         /\ \A a \in DOMAIN attempts : /\ attempts[a] \in AttemptRow
                                       /\ wire[a] \in WireState
  BY DEF TypeOK

\* Closing an attempt keeps the table's type and length.
LEMMA CloseAttemptType ==
  ASSUME TypeOK, NEW a \in DOMAIN attempts,
         NEW status \in AttemptStatus, NEW error \in ErrorCode,
         CloseAttempt(a, status, error)
  PROVE  attempts' \in Seq(AttemptRow) /\ Len(attempts') = Len(attempts)
  <1>1. attempts[a] \in AttemptRow
    BY DEF TypeOK
  <1>2. [attempts[a] EXCEPT !.status = status, !.error = error] \in AttemptRow
    BY <1>1 DEF AttemptRow
  <1> DEFINE row == [attempts[a] EXCEPT !.status = status, !.error = error]
  <1>3. attempts' = attempts \/ attempts' = [attempts EXCEPT ![a] = row]
    BY DEF CloseAttempt, TypeOK
  <1> HIDE DEF row
  <1>4. row \in AttemptRow
    BY <1>2 DEF row
  <1>5. attempts \in Seq(AttemptRow)
    BY DEF TypeOK
  <1> QED
    BY <1>3, <1>4, <1>5, SeqUpdate

\* Closing an inquiry keeps the type of the inquiries.
LEMMA CloseInquiryType ==
  ASSUME TypeOK, NEW i \in Inquiry, NEW status \in PostStatus,
         NEW error \in ErrorCode, NEW source \in SourceState,
         CloseInquiry(i, status, error, source)
  PROVE  inquiry' \in [Inquiry -> InquiryRow]
  <1> DEFINE row == [inquiry[i] EXCEPT !.post = status, !.error = error, !.source = source]
  <1>1. inquiry \in [Inquiry -> InquiryRow]
    BY DEF TypeOK
  <1>2. inquiry' = inquiry \/ inquiry' = [inquiry EXCEPT ![i] = row]
    BY <1>1 DEF CloseInquiry
  <1>3. row \in InquiryRow
    BY <1>1 DEF InquiryRow
  <1> HIDE DEF row
  <1> QED
    BY <1>1, <1>2, <1>3

\* A caller that returns leaves well-typed jobs.
LEMMA ReturnType ==
  ASSUME TypeOK, NEW p \in Poster, Return(p)
  PROVE  job' \in [Poster -> Job]
  BY Values DEF TypeOK, Return, NoJob, Job

\* The assignments to a job keep the type of the jobs.
LEMMA JobType ==
  ASSUME TypeOK, NEW p \in Poster, NEW pc \in Pc
  PROVE  /\ [job EXCEPT ![p].pc = pc] \in [Poster -> Job]
         /\ [job EXCEPT ![p].pc = pc, ![p].retry = FALSE] \in [Poster -> Job]
         /\ [job EXCEPT ![p].pc = pc, ![p].draft = 0] \in [Poster -> Job]
         /\ \A d \in Nat, f \in Field, b \in Answer :
              [job EXCEPT ![p].pc = pc, ![p].draft = d, ![p].field = f, ![p].body = b]
                \in [Poster -> Job]
  <1>1. job \in [Poster -> Job]
    BY DEF TypeOK
  <1>2. [job EXCEPT ![p].pc = pc] \in [Poster -> Job]
    BY <1>1 DEF Job
  <1>3. [job EXCEPT ![p].pc = pc, ![p].retry = FALSE] \in [Poster -> Job]
    <2> DEFINE new == [job[p] EXCEPT !.pc = pc, !.retry = FALSE]
    <2>1. [job EXCEPT ![p].pc = pc, ![p].retry = FALSE] = [job EXCEPT ![p] = new]
      BY <1>1
    <2>2. new \in Job
      BY <1>1 DEF Job
    <2> HIDE DEF new
    <2> QED
      BY <1>1, <2>1, <2>2
  <1>4. [job EXCEPT ![p].pc = pc, ![p].draft = 0] \in [Poster -> Job]
    <2> DEFINE new == [job[p] EXCEPT !.pc = pc, !.draft = 0]
    <2>1. [job EXCEPT ![p].pc = pc, ![p].draft = 0] = [job EXCEPT ![p] = new]
      BY <1>1
    <2>2. new \in Job
      BY <1>1 DEF Job
    <2> HIDE DEF new
    <2> QED
      BY <1>1, <2>1, <2>2
  <1>5. ASSUME NEW d \in Nat, NEW f \in Field, NEW b \in Answer
        PROVE  [job EXCEPT ![p].pc = pc, ![p].draft = d, ![p].field = f, ![p].body = b]
                 \in [Poster -> Job]
    <2> DEFINE new == [job[p] EXCEPT !.pc = pc, !.draft = d, !.field = f, !.body = b]
    <2>1. [job EXCEPT ![p].pc = pc, ![p].draft = d, ![p].field = f, ![p].body = b]
            = [job EXCEPT ![p] = new]
      BY <1>1
    <2>2. new \in Job
      BY <1>1 DEF Job
    <2> HIDE DEF new
    <2> QED
      BY <1>1, <2>1, <2>2
  <1> QED
    BY <1>2, <1>3, <1>4, <1>5

\* Moving one exchange keeps the type and length of wire.
LEMMA WireType ==
  ASSUME TypeOK, NEW a \in DOMAIN attempts, NEW w \in WireState
  PROVE  /\ [wire EXCEPT ![a] = w] \in Seq(WireState)
         /\ Len([wire EXCEPT ![a] = w]) = Len(wire)
  BY TypeFacts, SeqUpdate DEF TypeOK

\* The field a text is taken from is a field, and it is empty only if the fields
\* of the mode are.
LEMMA PostingFieldType ==
  ASSUME NEW text, NEW manual
  PROVE  PostingField(text, manual) \in Field
  BY Values DEF PostingField

\* What the drafts of an inquiry are, and the text a post reads.
LEMMA DraftFacts ==
  ASSUME TypeOK, NEW i \in Inquiry
  PROVE  /\ draft \in [Inquiry -> Drafts] /\ draft[i].rows \in Seq(DraftRow)
         /\ draft[i].active \in DOMAIN draft[i].rows
         /\ \A d \in DOMAIN draft[i].rows :
              /\ d \in Nat /\ draft[i].rows[d] \in DraftRow
              /\ \A f \in Field : draft[i].rows[d].text[f] \in Answer \cup {None}
  <1>1. draft \in [Inquiry -> Drafts] /\ draft[i].active \in DOMAIN draft[i].rows
    BY DEF TypeOK, DraftsOK
  <1>2. draft[i].rows \in Seq(DraftRow)
    BY <1>1 DEF Drafts
  <1>3. ASSUME NEW d \in DOMAIN draft[i].rows
        PROVE  d \in Nat /\ draft[i].rows[d] \in DraftRow
    BY <1>2
  <1>4. ASSUME NEW row \in DraftRow, NEW f \in Field
        PROVE  row.text[f] \in Answer \cup {None}
    BY DEF DraftRow
  <1> QED
    BY <1>1, <1>2, <1>3, <1>4

\* One row of an inquiry's drafts replaced.
Replaces(i, d, row) ==
  LET new == [draft[i].rows EXCEPT ![d] = row] IN
  \/ draft' = [draft EXCEPT ![i] = [draft[i] EXCEPT !.rows = new]]
  \/ \E approved \in BOOLEAN :
       draft' = [draft EXCEPT ![i] =
         [draft[i] EXCEPT !.reviews = draft[i].reviews + 1, !.approved = approved,
                          !.rows = new]]

\* The drafts stay well typed, and no row goes.
DraftsGrow ==
  /\ DraftsOK'
  /\ \A i \in Inquiry : DOMAIN draft[i].rows \subseteq DOMAIN draft'[i].rows

LEMMA ReplaceGrows ==
  ASSUME TypeOK, NEW i \in Inquiry, NEW d \in DOMAIN draft[i].rows,
         NEW row \in DraftRow, Replaces(i, d, row)
  PROVE  DraftsGrow
  <1> DEFINE rows == [draft[i].rows EXCEPT ![d] = row]
  <1>1. /\ draft \in [Inquiry -> Drafts]
        /\ \A j \in Inquiry : draft[j].active \in DOMAIN draft[j].rows
    BY DEF TypeOK, DraftsOK
  <1>2. /\ rows \in Seq(DraftRow) /\ DOMAIN rows = DOMAIN draft[i].rows
        /\ draft[i].active \in Nat
    BY <1>1 DEF Drafts
  <1> HIDE DEF rows
  <1> DEFINE kept == [draft[i] EXCEPT !.rows = rows]
             counted(v) == [draft[i] EXCEPT !.reviews = draft[i].reviews + 1,
                                            !.approved = v, !.rows = rows]
  <1>3. \/ draft' = [draft EXCEPT ![i] = kept]
        \/ \E v \in BOOLEAN : draft' = [draft EXCEPT ![i] = counted(v)]
    BY DEF Replaces, rows
  <1>4. /\ kept \in Drafts /\ kept.active = draft[i].active
        /\ kept.rows = rows
    BY <1>1, <1>2 DEF Drafts
  <1>5. ASSUME NEW v \in BOOLEAN
        PROVE  /\ counted(v) \in Drafts /\ counted(v).active = draft[i].active
               /\ counted(v).rows = rows
    <2> DEFINE old == draft[i]
               n == old.reviews + 1
               new == [old EXCEPT !.reviews = n, !.approved = v, !.rows = rows]
    <2>1. /\ old \in [rows: Seq(DraftRow), active: Nat, approved: BOOLEAN,
                      reviews: Nat]
          /\ n \in Nat
      BY <1>1 DEF Drafts
    <2> HIDE DEF old, n
    <2>2. new \in Drafts
      BY <1>2, <2>1 DEF Drafts
    <2>3. new.active = old.active /\ new.rows = rows
      BY <2>1
    <2> QED
      BY <2>2, <2>3 DEF old, n
  <1> HIDE DEF kept, counted
  <1>6. ASSUME NEW new \in Drafts, new.active = draft[i].active, new.rows = rows,
               draft' = [draft EXCEPT ![i] = new]
        PROVE  DraftsGrow
    BY <1>1, <1>2, <1>6 DEF DraftsGrow, DraftsOK
  <1> QED
    BY <1>3, <1>4, <1>5, <1>6

\* An operator's change of a text.
LEMMA SetTextGrows ==
  ASSUME TypeOK, NEW i \in Inquiry, NEW d \in DOMAIN draft[i].rows,
         NEW field \in Field, NEW value \in Answer \cup {None},
         NEW approved \in BOOLEAN, SetText(i, d, field, value, approved)
  PROVE  DraftsGrow
  <1> DEFINE old == draft[i].rows[d]
             row == [old EXCEPT !.text = [old.text EXCEPT ![field] = value]]
  <1>1. old \in DraftRow /\ draft[i] \in Drafts /\ draft \in [Inquiry -> Drafts]
    BY DraftFacts
  <1>2. row \in DraftRow
    BY <1>1 DEF DraftRow
  <1>3. draft' = [draft EXCEPT ![i] =
          [draft[i] EXCEPT !.reviews = draft[i].reviews + 1, !.approved = approved,
             !.rows = [draft[i].rows EXCEPT ![d] = row]]]
    BY <1>1 DEF SetText
  <1> HIDE DEF row, old
  <1>4. Replaces(i, d, row)
    BY <1>3 DEF Replaces
  <1> QED
    BY <1>2, <1>4, ReplaceGrows

\* A generated draft.
LEMMA RegenerateGrows ==
  ASSUME TypeOK, NEW i \in Inquiry, NEW body \in Answer, Regenerate(i, body)
  PROVE  DraftsGrow
  <1> DEFINE row == Generated(body)
             rows == Append(draft[i].rows, row)
             active == IF ActiveRow(i).text["final"] = None
                       THEN Len(draft[i].rows) + 1 ELSE draft[i].active
             new == [draft[i] EXCEPT !.rows = rows, !.active = active]
  <1>1. row \in DraftRow
    BY DEF Generated, DraftRow
  <1>2. draft[i] \in Drafts /\ draft \in [Inquiry -> Drafts]
    BY DraftFacts
  <1>3. /\ draft[i].rows \in Seq(DraftRow) /\ draft[i].active \in DOMAIN draft[i].rows
        /\ draft[i].active \in Nat
    BY DraftFacts
  <1>4. draft' = [draft EXCEPT ![i] = new]
    BY Zenon DEF Regenerate
  <1> HIDE DEF row
  <1>5. /\ rows \in Seq(DraftRow) /\ DOMAIN rows = 1..(Len(draft[i].rows) + 1)
        /\ DOMAIN draft[i].rows = 1..Len(draft[i].rows) /\ Len(draft[i].rows) \in Nat
    BY <1>1, <1>3
  <1>6. active \in DOMAIN rows /\ active \in Nat
        /\ DOMAIN draft[i].rows \subseteq DOMAIN rows
    BY <1>3, <1>5
  <1> HIDE DEF rows, active
  <1>7. new \in Drafts /\ new.rows = rows /\ new.active = active
    BY <1>2, <1>5, <1>6 DEF Drafts
  <1> HIDE DEF new
  <1> QED
    BY <1>2, <1>4, <1>6, <1>7 DEF DraftsGrow, DraftsOK, TypeOK

\* Every step lets the drafts grow.
LEMMA DraftStep ==
  ASSUME TypeOK, JobReads, [Next]_vars
  PROVE  DraftsGrow
  <1>1. CASE UNCHANGED draft
    BY <1>1 DEF DraftsGrow, TypeOK, DraftsOK
  <1>2. ASSUME NEW p \in Poster, Succeed(p)
        PROVE  DraftsGrow
    <2> DEFINE i == job[p].inq
               d == job[p].draft
               old == draft[i].rows[d]
               row == [old EXCEPT !.posted = TRUE]
    <2>1. i \in Inquiry /\ d \in DOMAIN draft[i].rows
      BY <1>2 DEF Succeed, JobReads
    <2>2. /\ old \in DraftRow /\ draft[i] \in Drafts /\ draft \in [Inquiry -> Drafts]
      BY <2>1, DraftFacts
    <2>3. row \in DraftRow
      BY <2>2 DEF DraftRow
    <2>4. CASE draft' = [draft EXCEPT ![i].rows[d].posted = TRUE]
      <3>1. draft' = [draft EXCEPT ![i] = [draft[i] EXCEPT !.rows =
              [draft[i].rows EXCEPT ![d] = row]]]
        BY <2>2, <2>4
      <3> HIDE DEF old, row, i, d
      <3>2. Replaces(i, d, row)
        BY <3>1 DEF Replaces
      <3> QED
        BY <2>1, <2>3, <3>2, ReplaceGrows
    <2> QED
      BY <1>1, <1>2, <2>4 DEF Succeed
  <1>3. ASSUME NEW p \in Poster, FinalizeAuto(p)
        PROVE  DraftsGrow
    <2> DEFINE i == job[p].inq
               d == job[p].draft
               old == draft[i].rows[d]
               text == [old.text EXCEPT !["final"] = old.text["original"]]
               row == [old EXCEPT !.text = text]
    <2>1. i \in Inquiry /\ d \in DOMAIN draft[i].rows
      BY <1>3 DEF FinalizeAuto, JobReads
    <2>2. /\ old \in DraftRow /\ draft[i] \in Drafts /\ draft \in [Inquiry -> Drafts]
      BY <2>1, DraftFacts
    <2>3. row \in DraftRow
      BY <2>2, Values DEF DraftRow
    <2>4. CASE draft' = [draft EXCEPT ![i].rows[d].text["final"] = old.text["original"]]
      <3>1. draft' = [draft EXCEPT ![i] = [draft[i] EXCEPT !.rows =
              [draft[i].rows EXCEPT ![d] = row]]]
        BY <2>2, <2>4
      <3> HIDE DEF old, row, i, d, text
      <3>2. Replaces(i, d, row)
        BY <3>1 DEF Replaces
      <3> QED
        BY <2>1, <2>3, <3>2, ReplaceGrows
    <2> QED
      BY <1>1, <1>3, <2>4 DEF FinalizeAuto
  <1>4. ASSUME NEW i \in Inquiry, Review(i)
        PROVE  DraftsGrow
    <2>1. PICK d \in DOMAIN draft[i].rows :
            \/ \E edited \in Answer \cup {None} : EditDraft(i, d, edited)
            \/ Approve(i, d) \/ CancelApproval(i, d)
      BY <1>4 DEF Review
    <2>2. draft[i].rows[d].text[PostingField(draft[i].rows[d].text, TRUE)]
            \in Answer \cup {None}
      BY DraftFacts, PostingFieldType
    <2>3. \E field \in Field, value \in Answer \cup {None}, approved \in BOOLEAN :
            SetText(i, d, field, value, approved)
      <3>1. draft[i].approved \in BOOLEAN
        BY DraftFacts DEF Drafts
      <3> QED
        BY <2>1, <2>2, <3>1, Values DEF EditDraft, Approve, CancelApproval
    <2> QED
      BY <2>3, SetTextGrows
  <1>5. ASSUME NEW i \in Inquiry, NEW body \in Answer, Regenerate(i, body)
        PROVE  DraftsGrow
    BY <1>5, RegenerateGrows
  <1>6. ASSUME NEW p \in Poster,
               \/ Preflight(p) \/ Prepare(p) \/ Acquire(p) \/ Send(p)
               \/ MarkAlreadyAnswered(p) \/ FailRefused(p) \/ FailTimeout(p)
               \/ FailNetwork(p) \/ Crash(p) \/ \E i \in Inquiry : Open(p, i)
        PROVE  UNCHANGED draft
    BY <1>6 DEF Preflight, Prepare, Acquire, Send, MarkAlreadyAnswered, FailRefused,
                FailTimeout, FailNetwork, Fail, Crash, Open
  <1>7. ASSUME NEW a \in DOMAIN attempts,
               MarketWrites(a) \/ MarketRefuses(a) \/ GoStale(a)
        PROVE  UNCHANGED draft
    BY <1>7 DEF MarketWrites, MarketRefuses, GoStale
  <1>8. ASSUME NEW t \in Target, SellerAnswers(t)
        PROVE  UNCHANGED draft
    BY <1>8 DEF SellerAnswers
  <1>9. RecoverStalePosting \/ UNCHANGED vars => UNCHANGED draft
    BY DEF RecoverStalePosting, vars
  <1>10. ASSUME NEW i \in Inquiry, SyncSource(i)
         PROVE  UNCHANGED draft
    BY <1>10 DEF SyncSource
  <1> QED
    BY <1>1, <1>2, <1>3, <1>4, <1>5, <1>6, <1>7, <1>8, <1>9, <1>10 DEF Next, PosterStep

\* What a call is opened with, and what it reads for the claim.
LEMMA OpenType ==
  ASSUME TypeOK, NEW p \in Poster, NEW i \in Inquiry, Open(p, i)
  PROVE  /\ job' \in [Poster -> Job]
         /\ \A q \in Poster \ {p} : job'[q] = job[q]
         /\ job'[p].inq = i /\ job'[p].pc \in {"opened", "candidate"}
         /\ job'[p].pc = "candidate" => job'[p].draft = draft[i].active
  <1> DEFINE call == [NoJob EXCEPT !.pc = "opened", !.inq = i,
                                   !.retry = (inquiry[i].post = "POST_FAILED")]
             auto == [call EXCEPT !.pc = "candidate", !.draft = draft[i].active]
  <1>1. job \in [Poster -> Job]
    BY DEF TypeOK
  <1>2. draft[i].active \in Nat
    BY DraftFacts
  <1>3. call \in Job /\ call.pc = "opened" /\ call.inq = i
    BY Values DEF NoJob, Job
  <1>4. auto \in Job /\ auto.pc = "candidate" /\ auto.inq = i
        /\ auto.draft = draft[i].active
    BY <1>2, <1>3, Values DEF Job
  <1>5. job' = [job EXCEPT ![p] = call] \/ job' = [job EXCEPT ![p] = auto]
    BY DEF Open
  <1> HIDE DEF call, auto
  <1> QED
    BY <1>1, <1>3, <1>4, <1>5

LEMMA ReadTextEffect ==
  ASSUME TypeOK, NEW p \in Poster, job[p].inq \in Inquiry, NEW manual,
         ReadText(p, manual)
  PROVE  /\ job' \in [Poster -> Job]
         /\ \A q \in Poster \ {p} : job'[q] = job[q]
         /\ job'[p].pc = "prepared" /\ job'[p].inq = job[p].inq
         /\ job'[p].draft = draft[job[p].inq].active
         /\ job'[p].body \in Answer
  <1> DEFINE i == job[p].inq
             d == draft[i].active
             text == ActiveRow(i).text
             field == PostingField(text, manual)
             body == text[field]
  <1>1. field \in Field
    BY PostingFieldType
  <1>2. d \in Nat /\ body \in Answer
    <2>1. d \in DOMAIN draft[i].rows /\ d \in Nat
      BY DraftFacts
    <2>2. body \in Answer \cup {None} /\ body # None
      <3>1. \A f \in Field : draft[i].rows[d].text[f] \in Answer \cup {None}
        BY <2>1, DraftFacts
      <3>2. text[field] # None
        BY DEF ReadText
      <3> HIDE DEF field
      <3> QED
        BY <1>1, <3>1, <3>2 DEF ActiveRow
    <2> HIDE DEF d, body
    <2> QED
      BY <2>1, <2>2
  <1>3. job' = [job EXCEPT ![p].pc = "prepared", ![p].draft = d, ![p].field = field,
                           ![p].body = body]
    BY DEF ReadText
  <1>4. job \in [Poster -> Job]
    BY DEF TypeOK
  <1>5. job' \in [Poster -> Job]
    <2> HIDE DEF field, body, d
    <2> QED
      BY <1>1, <1>2, <1>3, JobType, Values
  <1> HIDE DEF field, body, d
  <1> QED
    BY <1>2, <1>3, <1>4, <1>5 DEF Job, d

\* The assignments to the marketplace keep its type.
LEMMA MarketType ==
  ASSUME TypeOK, NEW t \in Target
  PROVE  /\ [market EXCEPT ![t].answered = TRUE]
              \in [Target -> [answered: BOOLEAN, writes: Nat]]
         /\ [market EXCEPT ![t].answered = TRUE, ![t].writes = market[t].writes + 1]
              \in [Target -> [answered: BOOLEAN, writes: Nat]]
  <1>1. market \in [Target -> [answered: BOOLEAN, writes: Nat]]
    BY DEF TypeOK
  <1>2. [market EXCEPT ![t].answered = TRUE]
          \in [Target -> [answered: BOOLEAN, writes: Nat]]
    BY <1>1
  <1>3. market[t].writes + 1 \in Nat
    BY <1>1
  <1>4. [market EXCEPT ![t].answered = TRUE, ![t].writes = market[t].writes + 1]
          \in [Target -> [answered: BOOLEAN, writes: Nat]]
    BY <1>1, <1>3
  <1> QED
    BY <1>2, <1>4

\* Recovery keeps the table a sequence of attempts of the same length.
LEMMA RecoverType ==
  ASSUME TypeOK, RecoverStalePosting
  PROVE  /\ attempts' \in Seq(AttemptRow) /\ Len(attempts') = Len(attempts)
         /\ inquiry' \in [Inquiry -> InquiryRow]
  <1> DEFINE Lost(r) == [r EXCEPT !.status = "POST_UNKNOWN", !.error = "other"]
  <1>1. \A r \in AttemptRow : Lost(r) \in AttemptRow
    BY Values DEF AttemptRow
  <1>2. attempts' = [a \in DOMAIN attempts |->
                       IF a \in StaleAttempts THEN Lost(attempts[a]) ELSE attempts[a]]
    BY DEF RecoverStalePosting
  <1> HIDE DEF Lost
  <1>3. attempts' \in [1..Len(attempts) -> AttemptRow]
    BY <1>1, <1>2, TypeFacts
  <1>5. attempts' \in Seq(AttemptRow) /\ Len(attempts') = Len(attempts)
    BY <1>3, TypeFacts, SeqFunction
  <1>4. inquiry' \in [Inquiry -> InquiryRow]
    <2> DEFINE unknown(i) == [inquiry[i] EXCEPT !.post = "POST_UNKNOWN", !.error = "other"]
               lost(i) == (\E a \in StaleAttempts : attempts[a].inq = i)
                            /\ inquiry[i].post = "POSTING"
    <2>1. \A i \in Inquiry : inquiry[i] \in InquiryRow
      BY DEF TypeOK
    <2>2. \A i \in Inquiry : unknown(i) \in InquiryRow
      BY <2>1, Values DEF InquiryRow
    <2>3. inquiry' = [i \in Inquiry |-> IF lost(i) THEN unknown(i) ELSE inquiry[i]]
      BY DEF RecoverStalePosting
    <2> HIDE DEF unknown, lost
    <2> QED
      BY <2>1, <2>2, <2>3
  <1> QED
    BY <1>4, <1>5

\* Every step keeps the types.
LEMMA TypeStep ==
  ASSUME TypeOK, JobReads, JobOwns, [Next]_vars
  PROVE  TypeOK'
  <1> USE TypeFacts, Values
  <1>0. DraftsOK'
    BY DraftStep DEF DraftsGrow
  <1> USE <1>0
  <1>1. ASSUME NEW p \in Poster, NEW i \in Inquiry, Open(p, i)
        PROVE  TypeOK'
    <2>1. job' \in [Poster -> Job]
      BY <1>1, OpenType
    <2> QED
      BY <1>1, <2>1 DEF Open, TypeOK
  <1>2. ASSUME NEW p \in Poster, Preflight(p)
        PROVE  TypeOK'
    <2>1. job' \in [Poster -> Job]
      <3>1. [job EXCEPT ![p].pc = "checked", ![p].retry = FALSE] \in [Poster -> Job]
        BY JobType
      <3> QED
        BY <1>2, <3>1, ReturnType DEF Preflight
    <2> QED
      BY <2>1, <1>2 DEF Preflight, TypeOK
  <1>3. ASSUME NEW p \in Poster, Prepare(p)
        PROVE  TypeOK'
    <2>1. job[p].inq \in Inquiry
      BY <1>3 DEF Prepare, JobReads
    <2>2. job' \in [Poster -> Job]
      <3>1. CASE ReadText(p, p \in Staff)
        BY <2>1, <3>1, ReadTextEffect
      <3> QED
        BY <3>1, <1>3, ReturnType DEF Prepare
    <2> QED
      BY <2>2, <1>3 DEF Prepare, TypeOK
  <1>4. ASSUME NEW p \in Poster, Acquire(p)
        PROVE  TypeOK'
    <2>1. job[p].inq \in Inquiry
      BY <1>4 DEF Acquire, JobReads
    <2>2. CASE Return(p) /\ UNCHANGED <<inquiry, attempts, wire, draft, market>>
      BY <2>2, ReturnType DEF TypeOK
    <2>3. CASE ~(Return(p) /\ UNCHANGED <<inquiry, attempts, wire, draft, market>>)
      <3> DEFINE i == job[p].inq
                 row == [inq |-> i, status |-> "POSTING", error |-> "none",
                         stale |-> FALSE]
      <3>1. row \in AttemptRow
        BY <2>1 DEF AttemptRow
      <3>2. /\ inquiry' = [inquiry EXCEPT ![i].post = "POSTING", ![i].error = "none"]
            /\ attempts' = Append(attempts, row)
            /\ wire' = Append(wire, "unsent")
            /\ job' = [job EXCEPT ![p] =
                 [NoJob EXCEPT !.pc = "calling", !.inq = i, !.draft = job[p].draft,
                               !.attempt = Len(attempts) + 1]]
            /\ UNCHANGED <<draft, market>>
        BY <1>4, <2>3 DEF Acquire
      <3> HIDE DEF row
      <3>3. /\ attempts' \in Seq(AttemptRow) /\ wire' \in Seq(WireState)
            /\ Len(attempts') = Len(wire')
        BY <3>1, <3>2 DEF TypeOK
      <3>4. inquiry' \in [Inquiry -> InquiryRow]
        <4> DEFINE taken == [inquiry[i] EXCEPT !.post = "POSTING", !.error = "none"]
        <4>1. inquiry \in [Inquiry -> InquiryRow] /\ i \in Inquiry
          BY <2>1 DEF TypeOK
        <4>2. inquiry' = [inquiry EXCEPT ![i] = taken]
          BY <3>2, <4>1
        <4>3. taken \in InquiryRow
          BY <4>1, Values DEF InquiryRow
        <4> HIDE DEF taken
        <4> QED
          BY <4>1, <4>2, <4>3
      <3>5. job' \in [Poster -> Job]
        <4>1. Len(attempts) + 1 \in Nat /\ job \in [Poster -> Job]
          BY TypeFacts DEF TypeOK
        <4>2. job[p].draft \in Nat
          BY <4>1 DEF Job
        <4> HIDE DEF i
        <4>3. [NoJob EXCEPT !.pc = "calling", !.inq = i, !.draft = job[p].draft,
                            !.attempt = Len(attempts) + 1] \in Job
          BY <2>1, <4>1, <4>2 DEF NoJob, Job, i
        <4> QED
          BY <3>2, <4>1, <4>3
      <3> QED
        BY <3>2, <3>3, <3>4, <3>5 DEF TypeOK
    <2> QED
      BY <2>2, <2>3
  <1>5. ASSUME NEW p \in Poster, Send(p)
        PROVE  TypeOK'
    <2>1. job[p].attempt \in DOMAIN wire
      BY <1>5 DEF Send, JobOwns
    <2> QED
      BY <1>5, <2>1 DEF Send, TypeOK
  <1>6. ASSUME NEW p \in Poster,
               Succeed(p) \/ MarkAlreadyAnswered(p) \/ FailRefused(p)
                 \/ FailTimeout(p) \/ FailNetwork(p)
        PROVE  TypeOK'
    <2> DEFINE i == job[p].inq
               a == job[p].attempt
    <2>1. i \in Inquiry /\ a \in DOMAIN attempts
      BY <1>6 DEF JobReads, JobOwns, Succeed, MarkAlreadyAnswered, FailRefused, FailTimeout,
                  FailNetwork
    <2>2. inquiry[i].source \in SourceState
      BY <2>1 DEF TypeOK, InquiryRow
    <2>3. job' \in [Poster -> Job]
      BY <1>6, ReturnType DEF Succeed, MarkAlreadyAnswered, FailRefused, FailTimeout,
                  FailNetwork, Fail
    <2>4. /\ inquiry' \in [Inquiry -> InquiryRow]
          /\ attempts' \in Seq(AttemptRow) /\ Len(attempts') = Len(attempts)
      <3> HIDE DEF i, a
      <3>1. \A s \in PostStatus, e \in ErrorCode, src \in SourceState :
              CloseInquiry(i, s, e, src) => inquiry' \in [Inquiry -> InquiryRow]
        BY <2>1, CloseInquiryType
      <3>2. \A s \in AttemptStatus, e \in ErrorCode : CloseAttempt(a, s, e) =>
              attempts' \in Seq(AttemptRow) /\ Len(attempts') = Len(attempts)
        BY <2>1, CloseAttemptType
      <3> USE DEF i, a
      <3>3. CASE Succeed(p)
        BY <3>1, <3>2, <3>3, <2>2 DEF Succeed, TypeOK
      <3>4. CASE MarkAlreadyAnswered(p)
        BY <3>1, <3>2, <3>4 DEF MarkAlreadyAnswered
      <3>5. CASE FailRefused(p)
        BY <3>1, <3>2, <3>5, <2>2 DEF FailRefused, Fail
      <3>6. CASE FailTimeout(p)
        BY <3>1, <3>2, <3>6, <2>2 DEF FailTimeout, Fail
      <3>7. CASE FailNetwork(p)
        BY <3>1, <3>2, <3>7, <2>2 DEF FailNetwork, Fail
      <3> QED
        BY <1>6, <3>3, <3>4, <3>5, <3>6, <3>7
    <2>5. wire' \in Seq(WireState) /\ Len(wire') = Len(wire)
      <3>1. wire' = wire \/ wire' = [wire EXCEPT ![a] = "gone"]
        <4>1. CASE Succeed(p)
          BY <4>1 DEF Succeed
        <4>2. CASE MarkAlreadyAnswered(p)
          BY <4>2 DEF MarkAlreadyAnswered
        <4>3. CASE FailRefused(p)
          BY <4>3 DEF FailRefused
        <4>4. CASE FailTimeout(p)
          BY <4>4 DEF FailTimeout
        <4>5. CASE FailNetwork(p)
          BY <4>5 DEF FailNetwork
        <4> QED
          BY <1>6, <4>1, <4>2, <4>3, <4>4, <4>5
      <3> HIDE DEF a
      <3> QED
        BY <3>1, <2>1, WireType
    <2>6. UNCHANGED market
      BY <1>6 DEF Succeed, MarkAlreadyAnswered, FailRefused, FailTimeout,
                  FailNetwork, Fail
    <2> QED
      BY <2>3, <2>4, <2>5, <2>6 DEF TypeOK
  <1>7. ASSUME NEW a \in DOMAIN attempts, MarketWrites(a) \/ MarketRefuses(a)
        PROVE  TypeOK'
    <2>1. wire' \in Seq(WireState) /\ Len(wire') = Len(wire)
      <3>1. PICK reply \in WireState : wire' = [wire EXCEPT ![a] = reply]
        BY <1>7 DEF MarketWrites, MarketRefuses
      <3> QED
        BY <3>1, WireType
    <2>2. market' \in [Target -> [answered: BOOLEAN, writes: Nat]]
      <3>1. targetOf[attempts[a].inq] \in Target
        BY DEF AttemptRow, NaverPostAssumption
      <3>2. CASE MarketWrites(a)
        BY <3>1, <3>2, MarketType DEF MarketWrites
      <3>3. CASE MarketRefuses(a)
        BY <3>3 DEF MarketRefuses, TypeOK
      <3> QED
        BY <1>7, <3>2, <3>3
    <2> QED
      BY <1>7, <2>1, <2>2 DEF TypeOK, MarketWrites, MarketRefuses
  <1>8. ASSUME NEW a \in DOMAIN attempts, GoStale(a)
        PROVE  TypeOK'
    <2>1. [attempts[a] EXCEPT !.stale = TRUE] \in AttemptRow
      BY DEF TypeOK, AttemptRow
    <2> QED
      BY <1>8, <2>1 DEF TypeOK, GoStale
  <1>9. ASSUME NEW t \in Target, SellerAnswers(t)
        PROVE  TypeOK'
    <2>1. market' \in [Target -> [answered: BOOLEAN, writes: Nat]]
      BY <1>9, MarketType DEF SellerAnswers
    <2> QED
      BY <1>9, <2>1 DEF TypeOK, SellerAnswers
  <1>10. ASSUME RecoverStalePosting
         PROVE  TypeOK'
    BY <1>10, RecoverType DEF TypeOK, RecoverStalePosting
  <1>11. ASSUME NEW i \in Inquiry, SyncSource(i)
         PROVE  TypeOK'
    <2>1. inquiry' \in [Inquiry -> InquiryRow]
      <3>1. PICK source \in SourceState :
              inquiry' = [inquiry EXCEPT ![i].source = source]
        BY <1>11 DEF SyncSource
      <3> QED
        BY <3>1 DEF TypeOK, InquiryRow
    <2> QED
      BY <1>11, <2>1 DEF TypeOK, SyncSource
  <1>12. ASSUME NEW i \in Inquiry, Review(i) \/ \E body \in Answer : Regenerate(i, body)
         PROVE  TypeOK'
    BY <1>12 DEF TypeOK, Review, EditDraft, Approve, CancelApproval, SetText, Regenerate
  <1>13. ASSUME NEW p \in Poster, Crash(p)
         PROVE  TypeOK'
    BY <1>13, ReturnType DEF TypeOK, Crash
  <1>14. CASE UNCHANGED vars
    BY <1>14 DEF vars, TypeOK
  <1>15. ASSUME NEW p \in Poster, FinalizeAuto(p)
         PROVE  TypeOK'
    <2>1. [job EXCEPT ![p].pc = "opened", ![p].draft = 0] \in [Poster -> Job]
      BY JobType
    <2>2. job' \in [Poster -> Job]
      BY <1>15, <2>1, ReturnType DEF FinalizeAuto
    <2> QED
      BY <1>15, <2>2 DEF FinalizeAuto, TypeOK
  <1> QED
    BY <1>1, <1>2, <1>3, <1>4, <1>5, <1>6, <1>7, <1>8, <1>9, <1>10, <1>11,
       <1>12, <1>13, <1>14, <1>15 DEF Next, PosterStep
-----------------------------------------------------------------------------
(* The shapes of a step. Whatever the action, a step claims an inquiry for *)
(* a new attempt, settles an attempt, recovers stale ones, moves an        *)
(* exchange, or leaves all of that alone; the invariants follow from the   *)
(* shapes.                                                                 *)

SamePosts(I) == \A i \in I : inquiry'[i].post = inquiry[i].post
SameAttempts(A) == \A a \in A : /\ attempts'[a].inq = attempts[a].inq
                                /\ attempts'[a].status = attempts[a].status
SameWire(A) == \A a \in A : wire'[a] = wire[a]
SameMarket(T) == \A t \in T : market'[t] = market[t]
QuietJobs(P) == \A p \in P : job'[p] = job[p] \/ job'[p].pc # "calling"

\* Acquire, granted.
Claims(p) ==
  LET i == job[p].inq  n == Len(attempts) + 1 IN
  /\ i \in Inquiry /\ Acquirable(i, job[p].draft, job[p].field, job[p].body)
  /\ DOMAIN attempts' = 1..n /\ DOMAIN attempts = 1..(n - 1)
  /\ SameAttempts(DOMAIN attempts) /\ SameWire(DOMAIN attempts)
  /\ attempts'[n].inq = i /\ attempts'[n].status = "POSTING"
  /\ wire'[n] = "unsent"
  /\ inquiry'[i].post = "POSTING" /\ SamePosts(Inquiry \ {i})
  /\ job'[p].pc = "calling" /\ job'[p].inq = i /\ job'[p].attempt = n
  /\ QuietJobs(Poster \ {p}) /\ SameMarket(Target)

\* An outcome recorded, which leaves an attempt recovered meanwhile as it is.
Settles(p, s) ==
  LET i == job[p].inq  a == job[p].attempt IN
  /\ job[p].pc = "calling"
  /\ a \in DOMAIN attempts /\ attempts[a].inq = i /\ i \in Inquiry
  /\ attempts[a].status \in {"POSTING", "POST_UNKNOWN"}
  /\ DOMAIN attempts' = DOMAIN attempts
  /\ SameAttempts(DOMAIN attempts \ {a}) /\ SameWire(DOMAIN attempts \ {a})
  /\ attempts'[a].inq = i
  /\ attempts'[a].status = IF attempts[a].status = "POSTING" THEN s
                           ELSE attempts[a].status
  /\ inquiry'[i].post = IF attempts[a].status = "POSTING" THEN Shown(s)
                        ELSE inquiry[i].post
  /\ SamePosts(Inquiry \ {i})
  /\ s = "POSTED" => wire[a] = "ok"
  /\ s = "ALREADY_ANSWERED" => wire[a] = "already"
  /\ wire'[a] \in {wire[a], "gone"}
  /\ TrustErrors => /\ wire[a] = "ok" => wire'[a] = "ok"
                    /\ s = "POST_FAILED" => wire'[a] \notin {"unsent", "sent", "ok"}
  /\ job'[p].pc = "idle" /\ QuietJobs(Poster \ {p}) /\ SameMarket(Target)

Recovers ==
  LET lost == StaleAttempts IN
  /\ DOMAIN attempts' = DOMAIN attempts
  /\ SameAttempts(DOMAIN attempts \ lost)
  /\ \A a \in lost : /\ a \in DOMAIN attempts /\ attempts[a].status = "POSTING"
                     /\ attempts'[a].inq = attempts[a].inq
                     /\ attempts'[a].status = "POST_UNKNOWN"
  /\ \A i \in Inquiry : inquiry'[i].post =
       IF (\E a \in lost : attempts[a].inq = i) /\ inquiry[i].post = "POSTING"
       THEN "POST_UNKNOWN" ELSE inquiry[i].post
  /\ SameWire(DOMAIN attempts) /\ SameMarket(Target) /\ QuietJobs(Poster)

\* The exchange of attempt a moves on: sent, answered, perhaps written.
Moves(a, w) ==
  LET t == targetOf[attempts[a].inq] IN
  /\ a \in DOMAIN attempts /\ t \in Target
  /\ DOMAIN attempts' = DOMAIN attempts
  /\ SameAttempts(DOMAIN attempts) /\ SameWire(DOMAIN attempts \ {a})
  /\ SamePosts(Inquiry) /\ QuietJobs(Poster) /\ SameMarket(Target \ {t})
  /\ wire'[a] = w
  /\ \/ /\ wire[a] \in {"unsent", "sent"} /\ SameMarket({t})
        /\ w = "sent" => wire[a] = "unsent"
        /\ w = "already" => market[t].answered
        /\ w \in {"sent", "refused", "no_target", "already"}
     \/ /\ wire[a] = "sent" /\ w \in {"ok", "refused"}
        /\ TrustErrors => w = "ok"
        /\ market'[t].answered /\ market'[t].writes = market[t].writes + 1

\* Nothing of this changes, but that someone may have answered.
Keeps ==
  /\ DOMAIN attempts' = DOMAIN attempts
  /\ SameAttempts(DOMAIN attempts) /\ SameWire(DOMAIN attempts)
  /\ SamePosts(Inquiry) /\ QuietJobs(Poster)
  /\ \A t \in Target : /\ market'[t].writes = market[t].writes
                       /\ market[t].answered => market'[t].answered

\* The effect of the three parts of recording an outcome.
LEMMA CloseAttemptEffect ==
  ASSUME TypeOK, NEW a \in DOMAIN attempts, NEW s \in AttemptStatus,
         NEW e \in ErrorCode, CloseAttempt(a, s, e)
  PROVE  /\ DOMAIN attempts' = DOMAIN attempts
         /\ SameAttempts(DOMAIN attempts \ {a})
         /\ attempts'[a].inq = attempts[a].inq
         /\ attempts'[a].status = IF attempts[a].status = "POSTING" THEN s
                                  ELSE attempts[a].status
  <1>1. attempts \in Seq(AttemptRow) /\ attempts[a] \in AttemptRow
    BY TypeFacts
  <1> QED
    BY <1>1 DEF CloseAttempt, SameAttempts, AttemptRow

\* The guarded update of the inquiry.
LEMMA CloseInquiryEffect ==
  ASSUME TypeOK, NEW i \in Inquiry, NEW s \in PostStatus, NEW e \in ErrorCode,
         NEW src \in SourceState, CloseInquiry(i, s, e, src)
  PROVE  /\ SamePosts(Inquiry \ {i})
         /\ inquiry'[i].post = IF inquiry[i].post = "POSTING" THEN s
                               ELSE inquiry[i].post
  <1>1. inquiry \in [Inquiry -> InquiryRow]
    BY DEF TypeOK
  <1> QED
    BY <1>1 DEF CloseInquiry, SamePosts, InquiryRow

\* The caller becomes idle and no other is touched.
LEMMA ReturnEffect ==
  ASSUME TypeOK, NEW p \in Poster, Return(p)
  PROVE  job'[p].pc = "idle" /\ QuietJobs(Poster \ {p}) /\ QuietJobs(Poster)
  <1>1. job \in [Poster -> Job]
    BY DEF TypeOK
  <1> QED
    BY <1>1 DEF Return, NoJob, QuietJobs

\* Together they settle the attempt: the two guards always agree.
LEMMA SettleEffect ==
  ASSUME TypeOK, JobReads, JobOwns, StatusAgrees,
         NEW p \in Poster, job[p].pc = "calling",
         NEW s \in AttemptStatus \ {"POSTING"}, NEW e \in ErrorCode,
         NEW src \in SourceState,
         CloseAttempt(job[p].attempt, s, e),
         CloseInquiry(job[p].inq, Shown(s), e, src),
         Return(p), UNCHANGED market,
         s = "POSTED" => wire[job[p].attempt] = "ok",
         s = "ALREADY_ANSWERED" => wire[job[p].attempt] = "already",
         \/ UNCHANGED wire
         \/ wire' = [wire EXCEPT ![job[p].attempt] = "gone"],
         TrustErrors =>
           /\ wire[job[p].attempt] = "ok" => wire'[job[p].attempt] = "ok"
           /\ s = "POST_FAILED" =>
                wire'[job[p].attempt] \notin {"unsent", "sent", "ok"}
  PROVE  Settles(p, s)
  <1> DEFINE i == job[p].inq
             a == job[p].attempt
  <1>1. /\ i \in Inquiry /\ a \in DOMAIN attempts /\ attempts[a].inq = i
        /\ attempts[a].status \in {"POSTING", "POST_UNKNOWN"}
    BY DEF JobReads, JobOwns
  <1>2. Shown(s) \in PostStatus
    BY DEF Shown, PostStatus, AttemptStatus
  <1>3. inquiry[i].post = attempts[a].status
    BY <1>1 DEF StatusAgrees, Shown
  <1>4. /\ DOMAIN attempts' = DOMAIN attempts
        /\ SameAttempts(DOMAIN attempts \ {a})
        /\ attempts'[a].inq = i
        /\ attempts'[a].status = IF attempts[a].status = "POSTING" THEN s
                                 ELSE attempts[a].status
    BY <1>1, CloseAttemptEffect
  <1>5. /\ SamePosts(Inquiry \ {i})
        /\ inquiry'[i].post = IF attempts[a].status = "POSTING" THEN Shown(s)
                              ELSE inquiry[i].post
    BY <1>1, <1>2, <1>3, CloseInquiryEffect
  <1>6. /\ SameWire(DOMAIN attempts \ {a}) /\ wire'[a] \in {wire[a], "gone"}
    BY <1>1, TypeFacts DEF SameWire
  <1>7. SameMarket(Target)
    BY DEF SameMarket
  <1> QED
    BY <1>1, <1>4, <1>5, <1>6, <1>7, ReturnEffect DEF Settles

\* Every action has one of the shapes.
LEMMA Shapes ==
  ASSUME TypeOK, JobReads, JobOwns, StatusAgrees, [Next]_vars
  PROVE  \/ \E p \in Poster : Claims(p)
         \/ \E p \in Poster, s \in AttemptStatus \ {"POSTING"} : Settles(p, s)
         \/ Recovers
         \/ \E a \in DOMAIN attempts, w \in WireState : Moves(a, w)
         \/ Keeps
  <1> USE TypeFacts, Values DEF SamePosts, SameAttempts, SameWire, SameMarket, QuietJobs
  <1>0. /\ job \in [Poster -> Job] /\ inquiry \in [Inquiry -> InquiryRow]
        /\ market \in [Target -> [answered: BOOLEAN, writes: Nat]]
    BY DEF TypeOK
  <1>1. ASSUME NEW p \in Poster, NEW i \in Inquiry, Open(p, i)
        PROVE  Keeps
    <2>1. QuietJobs(Poster)
      BY <1>1, OpenType
    <2> QED
      BY <1>0, <1>1, <2>1 DEF Open, Keeps
  <1>2. ASSUME NEW p \in Poster, FinalizeAuto(p) \/ Preflight(p) \/ Prepare(p) \/ Crash(p)
        PROVE  Keeps
    <2>1. QuietJobs(Poster)
      <3>1. CASE Return(p)
        BY <3>1, ReturnEffect
      <3>2. CASE \/ job' = [job EXCEPT ![p].pc = "checked", ![p].retry = FALSE]
                 \/ job' = [job EXCEPT ![p].pc = "opened", ![p].draft = 0]
        BY <1>0, <3>2 DEF Job
      <3>3. CASE job[p].pc = "checked" /\ ReadText(p, p \in Staff)
        BY <3>3, ReadTextEffect DEF JobReads
      <3> QED
        BY <1>2, <3>1, <3>2, <3>3 DEF FinalizeAuto, Preflight, Prepare, Crash
    <2>2. UNCHANGED <<inquiry, attempts, wire, market>>
      BY <1>2 DEF FinalizeAuto, Preflight, Prepare, Crash
    <2> QED
      BY <2>1, <2>2 DEF Keeps
  <1>4. ASSUME NEW p \in Poster, Acquire(p)
        PROVE  Claims(p) \/ Keeps
    <2>1. CASE Return(p) /\ UNCHANGED <<inquiry, attempts, wire, draft, market>>
      BY <1>0, <2>1 DEF Return, NoJob, Keeps
    <2>2. CASE ~(Return(p) /\ UNCHANGED <<inquiry, attempts, wire, draft, market>>)
      <3>1. job[p].inq \in Inquiry
        BY <1>4 DEF Acquire, JobReads
      <3>2. Acquirable(job[p].inq, job[p].draft, job[p].field, job[p].body)
        BY <1>4, <2>2 DEF Acquire
      <3> DEFINE i == job[p].inq
                 n == Len(attempts) + 1
                 row == [inq |-> i, status |-> "POSTING", error |-> "none",
                         stale |-> FALSE]
      <3>3. /\ inquiry' = [inquiry EXCEPT ![i].post = "POSTING", ![i].error = "none"]
            /\ attempts' = Append(attempts, row)
            /\ wire' = Append(wire, "unsent")
            /\ job' = [job EXCEPT ![p] =
                 [NoJob EXCEPT !.pc = "calling", !.inq = i, !.draft = job[p].draft,
                               !.attempt = n]]
            /\ UNCHANGED market
        BY <1>4, <2>2 DEF Acquire
      <3>4. inquiry'[i].post = "POSTING" /\ SamePosts(Inquiry \ {i})
        BY <1>0, <3>1, <3>3 DEF InquiryRow
      <3>5. /\ job'[p].pc = "calling" /\ job'[p].inq = i /\ job'[p].attempt = n
            /\ QuietJobs(Poster \ {p})
        BY <1>0, <3>3 DEF NoJob
      <3>6. row.inq = i /\ row.status = "POSTING"
        OBVIOUS
      <3>7. Len(wire) = Len(attempts)
        BY DEF TypeOK
      <3> HIDE DEF row
      <3>8. /\ DOMAIN attempts' = 1..n /\ DOMAIN attempts = 1..(n - 1)
            /\ SameAttempts(DOMAIN attempts) /\ attempts'[n] = row
        BY <3>3
      <3>9. SameWire(DOMAIN attempts) /\ wire'[n] = "unsent"
        BY <3>3, <3>7
      <3> QED
        BY <3>1, <3>2, <3>3, <3>4, <3>5, <3>6, <3>8, <3>9 DEF Claims
    <2> QED
      BY <2>1, <2>2
  <1>5. ASSUME NEW p \in Poster, Send(p)
        PROVE  Moves(job[p].attempt, "sent")
    BY <1>0, <1>5, NaverPostAssumption DEF Send, Moves, JobOwns, AttemptRow
  <1>6. ASSUME NEW p \in Poster, Succeed(p)
        PROVE  Settles(p, "POSTED")
    <2>1. job[p].pc = "calling" /\ job[p].inq \in Inquiry
      BY <1>6 DEF Succeed, JobReads
    <2>2. /\ inquiry[job[p].inq].source \in SourceState
          /\ inquiry[job[p].inq].post = attempts[job[p].attempt].status
      BY <1>0, <2>1 DEF InquiryRow, JobOwns, StatusAgrees, Shown
    <2>3. /\ CloseAttempt(job[p].attempt, "POSTED", "none")
          /\ CloseInquiry(job[p].inq, "POSTED", "none", inquiry[job[p].inq].source)
      BY <1>6, <2>2 DEF Succeed, CloseAttempt, CloseInquiry
    <2>4. "POSTED" = Shown("POSTED")
      BY DEF Shown
    <2> QED
      BY <1>6, <2>1, <2>2, <2>3, <2>4, SettleEffect DEF Succeed
  <1>7. ASSUME NEW p \in Poster, MarkAlreadyAnswered(p)
        PROVE  Settles(p, "ALREADY_ANSWERED")
    <2>1. "POSTED" = Shown("ALREADY_ANSWERED")
      BY DEF Shown
    <2> QED
      BY <1>7, <2>1, SettleEffect DEF MarkAlreadyAnswered
  <1>8. ASSUME NEW p \in Poster, NEW s \in {"POST_FAILED", "POST_UNKNOWN"},
               NEW e \in ErrorCode, Fail(p, s, e), job[p].pc = "calling",
               \/ UNCHANGED wire
               \/ wire' = [wire EXCEPT ![job[p].attempt] = "gone"],
               TrustErrors =>
                 /\ wire[job[p].attempt] = "ok" => wire'[job[p].attempt] = "ok"
                 /\ s = "POST_FAILED" =>
                      wire'[job[p].attempt] \notin {"unsent", "sent", "ok"}
        PROVE  Settles(p, s)
    <2>1. inquiry[job[p].inq].source \in SourceState
      BY <1>0, <1>8 DEF JobReads, InquiryRow
    <2>2. Shown(s) = s /\ s \in AttemptStatus \ {"POSTING"}
      BY <1>8 DEF Shown
    <2> QED
      BY <1>8, <2>1, <2>2, SettleEffect DEF Fail
  <1>9. ASSUME NEW p \in Poster, FailRefused(p) \/ FailTimeout(p) \/ FailNetwork(p)
        PROVE  \E s \in {"POST_FAILED", "POST_UNKNOWN"} : Settles(p, s)
    <2>1. CASE FailRefused(p)
      BY <1>8, <2>1 DEF FailRefused
    <2>2. CASE FailTimeout(p)
      BY <1>8, <2>2 DEF FailTimeout
    <2>3. CASE FailNetwork(p)
      <3>1. job[p].attempt \in DOMAIN wire
        BY <2>3 DEF FailNetwork, JobOwns
      <3> QED
        BY <1>8, <2>3, <3>1 DEF FailNetwork
    <2> QED
      BY <1>9, <2>1, <2>2, <2>3
  <1>10. ASSUME NEW a \in DOMAIN attempts, MarketWrites(a) \/ MarketRefuses(a)
         PROVE  \E w \in WireState : Moves(a, w)
    <2>1. targetOf[attempts[a].inq] \in Target
      BY NaverPostAssumption DEF AttemptRow
    <2>2. CASE MarketWrites(a)
      <3>1. PICK w \in {"ok", "refused"} : /\ TrustErrors => w = "ok"
                                           /\ wire' = [wire EXCEPT ![a] = w]
        BY <2>2 DEF MarketWrites
      <3>2. /\ market'[targetOf[attempts[a].inq]].answered
            /\ market'[targetOf[attempts[a].inq]].writes
                 = market[targetOf[attempts[a].inq]].writes + 1
            /\ SameMarket(Target \ {targetOf[attempts[a].inq]})
        BY <1>0, <2>1, <2>2 DEF MarketWrites
      <3> QED
        BY <2>1, <2>2, <3>1, <3>2 DEF MarketWrites, Moves
    <2>3. CASE MarketRefuses(a)
      <3>1. PICK w \in {"refused", "no_target", "already"} :
              /\ w = "already" => market[targetOf[attempts[a].inq]].answered
              /\ wire' = [wire EXCEPT ![a] = w]
        BY <2>3 DEF MarketRefuses
      <3> QED
        BY <2>1, <2>3, <3>1 DEF MarketRefuses, Moves
    <2> QED
      BY <1>10, <2>2, <2>3
  <1>11. ASSUME RecoverStalePosting
         PROVE  Recovers
    <2>1. DOMAIN attempts' = DOMAIN attempts
      BY <1>11 DEF RecoverStalePosting
    <2>2. SameAttempts(DOMAIN attempts \ StaleAttempts)
      BY <1>11 DEF RecoverStalePosting
    <2>3. \A a \in StaleAttempts : /\ a \in DOMAIN attempts
                                   /\ attempts[a].status = "POSTING"
                                   /\ attempts'[a].inq = attempts[a].inq
                                   /\ attempts'[a].status = "POST_UNKNOWN"
      <3> DEFINE Lost(r) == [r EXCEPT !.status = "POST_UNKNOWN", !.error = "other"]
      <3>1. \A a \in StaleAttempts : attempts'[a] = Lost(attempts[a])
        BY <1>11 DEF RecoverStalePosting, StaleAttempts
      <3>2. \A r \in AttemptRow : /\ Lost(r).inq = r.inq
                                  /\ Lost(r).status = "POST_UNKNOWN"
        BY DEF AttemptRow
      <3>3. \A a \in StaleAttempts : /\ a \in DOMAIN attempts
                                     /\ attempts[a].status = "POSTING"
                                     /\ attempts[a] \in AttemptRow
        BY DEF StaleAttempts
      <3> HIDE DEF Lost
      <3> QED
        BY <3>1, <3>2, <3>3
    <2>4. \A i \in Inquiry : inquiry'[i].post =
            IF (\E a \in StaleAttempts : attempts[a].inq = i) /\ inquiry[i].post = "POSTING"
            THEN "POST_UNKNOWN" ELSE inquiry[i].post
      BY <1>0, <1>11 DEF RecoverStalePosting, InquiryRow
    <2> QED
      BY <1>11, <2>1, <2>2, <2>3, <2>4 DEF RecoverStalePosting, Recovers
  <1>12. ASSUME NEW a \in DOMAIN attempts, GoStale(a)
         PROVE  Keeps
    BY <1>0, <1>12 DEF GoStale, Keeps
  <1>13. ASSUME NEW t \in Target, SellerAnswers(t)
         PROVE  Keeps
    BY <1>0, <1>13 DEF SellerAnswers, Keeps
  <1>14. ASSUME NEW i \in Inquiry, Review(i) \/ \E body \in Answer : Regenerate(i, body)
         PROVE  Keeps
    <2>1. UNCHANGED <<inquiry, attempts, wire, market, job>>
      BY <1>14 DEF Review, EditDraft, Approve, CancelApproval, SetText, Regenerate
    <2> QED
      BY <2>1 DEF Keeps
  <1>15. ASSUME NEW i \in Inquiry, SyncSource(i)
         PROVE  Keeps
    BY <1>0, <1>15 DEF SyncSource, Keeps
  <1>16. CASE UNCHANGED vars
    BY <1>16 DEF vars, Keeps
  <1>17. \A p \in Poster : job[p].pc = "calling" => job[p].attempt \in DOMAIN attempts
    BY DEF JobOwns
  <1> QED
    <2>1. ASSUME NEW p \in Poster, Send(p)
          PROVE  \E a \in DOMAIN attempts, w \in WireState : Moves(a, w)
      BY <1>5, <1>17, <2>1 DEF Send
    <2>2. {"POSTED", "ALREADY_ANSWERED", "POST_FAILED", "POST_UNKNOWN"}
            \subseteq AttemptStatus \ {"POSTING"}
      BY Values
    <2> QED
      BY <1>1, <1>2, <1>4, <2>1, <2>2, <1>6, <1>7, <1>9, <1>10, <1>11, <1>12,
         <1>13, <1>14, <1>15, <1>16 DEF Next, PosterStep
-----------------------------------------------------------------------------
(* The invariants, shape by shape.                                         *)

\* Every step keeps what the calls have read.
LEMMA ReadsStep ==
  ASSUME TypeOK, JobReads, [Next]_vars
  PROVE  JobReads'
  <1>0. /\ job \in [Poster -> Job] /\ inquiry \in [Inquiry -> InquiryRow]
        /\ \A i \in Inquiry : DOMAIN draft[i].rows \subseteq DOMAIN draft'[i].rows
    BY DraftStep DEF TypeOK, DraftsGrow
  <1> DEFINE Fine(p) ==
               /\ job'[p].pc # "idle" => job'[p].inq \in Inquiry
               /\ job'[p].pc \in {"candidate", "prepared", "calling"} =>
                    job'[p].draft \in DOMAIN draft'[job'[p].inq].rows
               /\ job'[p].pc = "prepared" => job'[p].body \in Answer
  <1>f. ASSUME NEW p \in Poster, Fine(p), \A q \in Poster \ {p} : job'[q] = job[q]
        PROVE  JobReads'
    BY <1>0, <1>f DEF JobReads
  <1>1. ASSUME NEW p \in Poster, Return(p)
        PROVE  JobReads'
    <2>1. job'[p].pc = "idle" /\ \A q \in Poster \ {p} : job'[q] = job[q]
      BY <1>0, <1>1 DEF Return, NoJob
    <2> QED
      BY <1>f, <2>1
  <1>2. ASSUME NEW p \in Poster, NEW i \in Inquiry, Open(p, i)
        PROVE  JobReads'
    <2>1. draft' = draft /\ draft[i].active \in DOMAIN draft[i].rows
      BY <1>2, DraftFacts DEF Open
    <2> QED
      BY <1>f, <1>2, <2>1, OpenType
  <1>3. ASSUME NEW p \in Poster, Preflight(p) \/ FinalizeAuto(p)
        PROVE  JobReads'
    <2>1. CASE \/ job' = [job EXCEPT ![p].pc = "checked", ![p].retry = FALSE]
               \/ job' = [job EXCEPT ![p].pc = "opened", ![p].draft = 0]
      <3>1. job[p].inq \in Inquiry
        BY <1>3 DEF Preflight, FinalizeAuto, JobReads
      <3>2. /\ job'[p].pc \in {"checked", "opened"} /\ job'[p].inq = job[p].inq
            /\ \A q \in Poster \ {p} : job'[q] = job[q]
        BY <1>0, <2>1 DEF Job
      <3> QED
        BY <1>f, <3>1, <3>2
    <2> QED
      BY <1>1, <1>3, <2>1 DEF Preflight, FinalizeAuto
  <1>4. ASSUME NEW p \in Poster, Prepare(p)
        PROVE  JobReads'
    <2>1. job[p].inq \in Inquiry
      BY <1>4 DEF Prepare, JobReads
    <2>2. CASE ReadText(p, p \in Staff) /\ UNCHANGED draft
      <3>1. draft[job[p].inq].active \in DOMAIN draft[job[p].inq].rows
        BY <2>1, DraftFacts
      <3> QED
        BY <1>f, <2>1, <2>2, <3>1, ReadTextEffect
    <2> QED
      BY <1>1, <1>4, <2>2 DEF Prepare
  <1>5. ASSUME NEW p \in Poster, Acquire(p)
        PROVE  JobReads'
    <2>1. CASE job' = [job EXCEPT ![p] =
                 [NoJob EXCEPT !.pc = "calling", !.inq = job[p].inq,
                               !.draft = job[p].draft,
                               !.attempt = Len(attempts) + 1]]
      <3>1. /\ job'[p].pc = "calling" /\ job'[p].inq = job[p].inq
            /\ job'[p].draft = job[p].draft
        BY <1>0, <2>1 DEF NoJob
      <3>2. \A q \in Poster \ {p} : job'[q] = job[q]
        BY <1>0, <2>1
      <3>3. /\ job[p].inq \in Inquiry
            /\ job[p].draft \in DOMAIN draft[job[p].inq].rows
        BY <1>5 DEF Acquire, JobReads
      <3> QED
        BY <1>0, <1>f, <3>1, <3>2, <3>3
    <2> QED
      BY <1>1, <1>5, <2>1 DEF Acquire
  <1>6. ASSUME NEW p \in Poster,
               Succeed(p) \/ MarkAlreadyAnswered(p) \/ FailRefused(p)
                 \/ FailTimeout(p) \/ FailNetwork(p) \/ Crash(p)
        PROVE  JobReads'
    BY <1>1, <1>6 DEF Succeed, MarkAlreadyAnswered, FailRefused, FailTimeout,
                FailNetwork, Fail, Crash
  <1>7. CASE UNCHANGED job
    BY <1>0, <1>7 DEF JobReads
  <1>8. ASSUME NEW p \in Poster, Send(p)
        PROVE  UNCHANGED job
    BY <1>8 DEF Send
  <1>9. ASSUME NEW a \in DOMAIN attempts,
               MarketWrites(a) \/ MarketRefuses(a) \/ GoStale(a)
        PROVE  UNCHANGED job
    BY <1>9 DEF MarketWrites, MarketRefuses, GoStale
  <1>10. ASSUME NEW t \in Target, SellerAnswers(t)
         PROVE  UNCHANGED job
    BY <1>10 DEF SellerAnswers
  <1>11. RecoverStalePosting \/ UNCHANGED vars => UNCHANGED job
    BY DEF RecoverStalePosting, vars
  <1>12. ASSUME NEW i \in Inquiry, SyncSource(i)
         PROVE  UNCHANGED job
    BY <1>12 DEF SyncSource
  <1>13. ASSUME NEW i \in Inquiry, Review(i) \/ \E body \in Answer : Regenerate(i, body)
         PROVE  UNCHANGED job
    BY <1>13 DEF Review, EditDraft, Approve, CancelApproval, SetText, Regenerate
  <1> QED
    BY <1>2, <1>3, <1>4, <1>5, <1>6, <1>7, <1>8, <1>9, <1>10, <1>11, <1>12, <1>13
    DEF Next, PosterStep

\* The part of the invariant that needs no trust in errors.
Core == TypeOK /\ JobReads /\ JobOwns /\ StatusAgrees /\ OneLiveAttempt

\* An inquiry that may be claimed, and its target's other rows, have no attempt
\* that did not certainly fail.
LEMMA NoLive ==
  ASSUME TypeOK, StatusAgrees, NEW i \in Inquiry, NEW d, NEW field, NEW body,
         Acquirable(i, d, field, body), NEW a \in DOMAIN attempts, targetOf[attempts[a].inq] = targetOf[i]
  PROVE  attempts[a].status = "POST_FAILED"
  <1>1. attempts[a].inq \in Inquiry /\ attempts[a].status \in AttemptStatus
    BY TypeFacts DEF AttemptRow
  <1>2. inquiry[attempts[a].inq].post \notin {"POSTING", "POSTED", "POST_UNKNOWN"}
    BY <1>1 DEF Acquirable, Unsent, SiblingsFree
  <1> QED
    BY <1>1, <1>2 DEF StatusAgrees, Shown, AttemptStatus

\* Every step keeps the ownership of attempts, the agreement of the two tables
\* and the one live attempt per target.
LEMMA CoreStep ==
  ASSUME Core, [Next]_vars
  PROVE  JobOwns' /\ StatusAgrees' /\ OneLiveAttempt'
  <1> USE DEF SamePosts, SameAttempts
  <1>0. /\ TypeOK /\ JobReads /\ JobOwns /\ StatusAgrees /\ OneLiveAttempt
        /\ \A a \in DOMAIN attempts : /\ attempts[a].inq \in Inquiry
                                      /\ attempts[a].status \in AttemptStatus
        /\ DOMAIN attempts = 1..Len(attempts) /\ Len(attempts) \in Nat
    BY TypeFacts DEF Core, AttemptRow
  <1>1. ASSUME NEW p \in Poster, Claims(p)
        PROVE  JobOwns' /\ StatusAgrees' /\ OneLiveAttempt'
    <2> DEFINE i == job[p].inq
               n == Len(attempts) + 1
    <2>1. \A a \in DOMAIN attempts : targetOf[attempts[a].inq] = targetOf[i] =>
            attempts[a].status = "POST_FAILED"
      BY <1>0, <1>1, NoLive DEF Claims
    <2>2. OneLiveAttempt'
      BY <1>0, <1>1, <2>1 DEF Claims, OneLiveAttempt
    <2>3. StatusAgrees'
      <3>1. /\ i \in Inquiry /\ n \in DOMAIN attempts' /\ n \notin DOMAIN attempts
            /\ DOMAIN attempts' = DOMAIN attempts \cup {n}
            /\ attempts'[n].inq = i /\ Shown(attempts'[n].status) = inquiry'[i].post
            /\ attempts'[n].status # "POST_FAILED"
        BY <1>0, <1>1 DEF Claims, Shown
      <3>2. \A a \in DOMAIN attempts :
              /\ attempts'[a].inq = attempts[a].inq
              /\ attempts'[a].status = attempts[a].status
        BY <1>1 DEF Claims
      <3>3. \A j \in Inquiry \ {i} : inquiry'[j].post = inquiry[j].post
        BY <1>1 DEF Claims
      <3>4. ASSUME NEW a \in DOMAIN attempts, attempts[a].status # "POST_FAILED"
            PROVE  inquiry'[attempts[a].inq].post = Shown(attempts[a].status)
        <4>1. attempts[a].inq \in Inquiry \ {i}
          BY <1>0, <2>1, <3>4
        <4> QED
          BY <1>0, <3>3, <3>4, <4>1 DEF StatusAgrees
      <3>5. ASSUME NEW j \in Inquiry \ {i}, inquiry[j].post # "NOT_POSTED"
            PROVE  \E a \in AttemptsOf(j) : Shown(attempts[a].status) = inquiry[j].post
        BY <1>0, <3>5 DEF StatusAgrees
      <3> HIDE DEF i, n
      <3>6. \A a \in DOMAIN attempts' : attempts'[a].status # "POST_FAILED" =>
              inquiry'[attempts'[a].inq].post = Shown(attempts'[a].status)
        BY <3>1, <3>2, <3>4
      <3>7. \A j \in Inquiry : inquiry'[j].post # "NOT_POSTED" =>
              \E a \in DOMAIN attempts' : /\ attempts'[a].inq = j
                                          /\ Shown(attempts'[a].status) = inquiry'[j].post
        BY <3>1, <3>2, <3>3, <3>5 DEF AttemptsOf
      <3> QED
        BY <3>6, <3>7 DEF StatusAgrees, AttemptsOf, Shown
    <2>4. JobOwns'
      BY <1>0, <1>1 DEF Claims, JobOwns, QuietJobs
    <2> QED
      BY <2>2, <2>3, <2>4
  <1>2. ASSUME NEW p \in Poster, NEW s \in AttemptStatus \ {"POSTING"}, Settles(p, s)
        PROVE  JobOwns' /\ StatusAgrees' /\ OneLiveAttempt'
    <2> DEFINE i == job[p].inq
               a == job[p].attempt
    <2>1. OneLiveAttempt'
      BY <1>0, <1>2 DEF Settles, OneLiveAttempt
    <2>2. StatusAgrees'
      <3>1. /\ a \in DOMAIN attempts /\ attempts[a].inq = i /\ i \in Inquiry
            /\ attempts[a].status \in {"POSTING", "POST_UNKNOWN"}
            /\ DOMAIN attempts' = DOMAIN attempts /\ attempts'[a].inq = i
            /\ inquiry[i].post = attempts[a].status
        BY <1>0, <1>2 DEF Settles, StatusAgrees, Shown
      <3>2. inquiry'[i].post = Shown(attempts'[a].status)
        BY <1>2, <3>1 DEF Settles, Shown
      <3>3. \A b \in DOMAIN attempts \ {a} :
              /\ attempts'[b].inq = attempts[b].inq
              /\ attempts'[b].status = attempts[b].status
        BY <1>2 DEF Settles
      <3>4. \A j \in Inquiry \ {i} : inquiry'[j].post = inquiry[j].post
        BY <1>2 DEF Settles
      <3>5. \A b \in DOMAIN attempts \ {a} :
              attempts[b].inq = i => attempts[b].status = "POST_FAILED"
        BY <1>0, <3>1 DEF OneLiveAttempt
      <3>6. \A b \in DOMAIN attempts' : attempts'[b].status # "POST_FAILED" =>
              inquiry'[attempts'[b].inq].post = Shown(attempts'[b].status)
        BY <1>0, <3>1, <3>2, <3>3, <3>4, <3>5 DEF StatusAgrees
      <3>7. \A j \in Inquiry : inquiry'[j].post # "NOT_POSTED" =>
              \E b \in AttemptsOf(j)' : Shown(attempts'[b].status) = inquiry'[j].post
        BY <1>0, <3>1, <3>2, <3>3, <3>4 DEF StatusAgrees, AttemptsOf
      <3> QED
        BY <3>6, <3>7 DEF StatusAgrees
    <2>3. JobOwns'
      <3>1. \A q \in Poster \ {p} : job'[q].pc = "calling" =>
              /\ job'[q] = job[q] /\ job[q].attempt # a
        BY <1>0, <1>2 DEF Settles, JobOwns, QuietJobs
      <3>2. job'[p].pc = "idle" /\ DOMAIN attempts' = DOMAIN attempts
        BY <1>2 DEF Settles
      <3>3. \A b \in DOMAIN attempts \ {a} :
              /\ attempts'[b].inq = attempts[b].inq
              /\ attempts'[b].status = attempts[b].status
        BY <1>2 DEF Settles
      <3> HIDE DEF a
      <3> QED
        BY <1>0, <3>1, <3>2, <3>3 DEF JobOwns
    <2> QED
      BY <2>1, <2>2, <2>3
  <1>3. ASSUME Recovers
        PROVE  JobOwns' /\ StatusAgrees' /\ OneLiveAttempt'
    <2>1. OneLiveAttempt'
      BY <1>0, <1>3 DEF Recovers, OneLiveAttempt
    <2>2. StatusAgrees'
      <3> DEFINE Lost(a) == a \in StaleAttempts
      <3>1. \A a \in DOMAIN attempts :
              /\ attempts'[a].inq = attempts[a].inq
              /\ attempts'[a].status = IF Lost(a) THEN "POST_UNKNOWN" ELSE attempts[a].status
              /\ Lost(a) => attempts[a].status = "POSTING"
        BY <1>3 DEF Recovers
      <3>2. \A i \in Inquiry : inquiry'[i].post =
              IF (\E a \in DOMAIN attempts : Lost(a) /\ attempts[a].inq = i)
                   /\ inquiry[i].post = "POSTING"
              THEN "POST_UNKNOWN" ELSE inquiry[i].post
        BY <1>3 DEF Recovers
      <3>3. DOMAIN attempts' = DOMAIN attempts
        BY <1>3 DEF Recovers
      <3> HIDE DEF Lost
      <3>4. ASSUME NEW a \in DOMAIN attempts, attempts'[a].status # "POST_FAILED"
            PROVE  inquiry'[attempts'[a].inq].post = Shown(attempts'[a].status)
        <4> DEFINE i == attempts[a].inq
        <4>1. i \in Inquiry /\ inquiry[i].post = Shown(attempts[a].status)
          BY <1>0, <3>1, <3>4 DEF StatusAgrees
        <4>2. CASE Lost(a)
          BY <3>1, <3>2, <4>1, <4>2 DEF Shown
        <4>3. CASE ~Lost(a) /\ inquiry[i].post # "POSTING"
          BY <3>1, <3>2, <4>1, <4>3
        <4>4. CASE ~Lost(a) /\ inquiry[i].post = "POSTING"
          <5>1. ASSUME NEW b \in DOMAIN attempts, Lost(b), attempts[b].inq = i
                PROVE  FALSE
            BY <1>0, <3>1, <3>4, <4>4, <5>1 DEF OneLiveAttempt
          <5> QED
            BY <3>1, <3>2, <4>1, <4>4, <5>1
        <4> QED
          BY <4>2, <4>3, <4>4
      <3>5. ASSUME NEW i \in Inquiry, inquiry'[i].post # "NOT_POSTED"
            PROVE  \E a \in DOMAIN attempts : /\ attempts'[a].inq = i
                                              /\ Shown(attempts'[a].status) = inquiry'[i].post
        <4>1. CASE \E a \in DOMAIN attempts : Lost(a) /\ attempts[a].inq = i
          BY <3>1, <3>4, <4>1
        <4>2. CASE ~ \E a \in DOMAIN attempts : Lost(a) /\ attempts[a].inq = i
          <5>1. inquiry'[i].post = inquiry[i].post
            BY <3>2, <4>2
          <5>2. PICK a \in DOMAIN attempts : /\ attempts[a].inq = i
                                             /\ Shown(attempts[a].status) = inquiry[i].post
            BY <1>0, <3>5, <5>1 DEF StatusAgrees, AttemptsOf
          <5> QED
            BY <3>1, <4>2, <5>1, <5>2
        <4> QED
          BY <4>1, <4>2
      <3> QED
        BY <3>3, <3>4, <3>5 DEF StatusAgrees, AttemptsOf, Shown
    <2>3. JobOwns'
      BY <1>0, <1>3 DEF Recovers, JobOwns, QuietJobs
    <2> QED
      BY <2>1, <2>2, <2>3
  <1>4. ASSUME /\ DOMAIN attempts' = DOMAIN attempts /\ SameAttempts(DOMAIN attempts)
               /\ SamePosts(Inquiry) /\ QuietJobs(Poster)
        PROVE  JobOwns' /\ StatusAgrees' /\ OneLiveAttempt'
    <2>1. OneLiveAttempt'
      BY <1>0, <1>4 DEF OneLiveAttempt
    <2>2. StatusAgrees'
      BY <1>0, <1>4 DEF StatusAgrees, AttemptsOf
    <2>3. JobOwns'
      BY <1>0, <1>4 DEF JobOwns, QuietJobs
    <2> QED
      BY <2>1, <2>2, <2>3
  <1> QED
    BY <1>0, <1>1, <1>2, <1>3, <1>4, Shapes DEF Moves, Keeps

\* The core of the invariant holds initially.
LEMMA InitCore == Init => Core
  <1> SUFFICES ASSUME Init PROVE Core
    OBVIOUS
  <1> USE Values
  <1>1. inquiry \in [Inquiry -> InquiryRow]
    BY DEF Init, InquiryRow, PostStatus, ErrorCode, SourceState
  <1>2. DraftsOK
    <2>1. PICK body \in [Inquiry -> Answer] :
            draft = [i \in Inquiry |->
                       [rows |-> <<Generated(body[i])>>, active |-> 1,
                        approved |-> FALSE, reviews |-> 0]]
      BY DEF Init
    <2>2. \A i \in Inquiry : Generated(body[i]) \in DraftRow
      BY DEF Generated, DraftRow
    <2> QED
      BY <2>1, <2>2 DEF DraftsOK, Drafts
  <1>3. /\ attempts \in Seq(AttemptRow) /\ wire \in Seq(WireState)
        /\ Len(wire) = Len(attempts) /\ DOMAIN attempts = {}
    BY DEF Init
  <1>4. market \in [Target -> [answered: BOOLEAN, writes: Nat]]
    BY DEF Init
  <1>5. job \in [Poster -> Job]
    BY DEF Init, NoJob, Job
  <1>6. TypeOK
    BY <1>1, <1>2, <1>3, <1>4, <1>5 DEF TypeOK
  <1>7. JobReads /\ JobOwns
    BY DEF Init, NoJob, JobReads, JobOwns
  <1>8. StatusAgrees /\ OneLiveAttempt
    BY <1>3 DEF Init, StatusAgrees, OneLiveAttempt
  <1> QED
    BY <1>6, <1>7, <1>8 DEF Core

\* It is an invariant of the specification.
LEMMA CoreInv == Spec => []Core
  <1>1. Core /\ [Next]_vars => Core'
    <2> SUFFICES ASSUME Core, [Next]_vars PROVE Core'
      OBVIOUS
    <2>1. TypeOK' /\ JobReads'
      BY TypeStep, ReadsStep DEF Core
    <2>2. JobOwns' /\ StatusAgrees' /\ OneLiveAttempt'
      BY CoreStep
    <2> QED
      BY <2>1, <2>2 DEF Core
  <1> QED
    BY <1>1, InitCore, PTL DEF Spec

\* Every variable keeps its type.
THEOREM TypeCorrect == Spec => []TypeOK
  BY CoreInv, PTL DEF Core

\* The inquiries and their attempts never disagree, for any number of callers,
\* rows and attempts.
THEOREM StatusesAgree == Spec => []StatusAgrees
  BY CoreInv, PTL DEF Core

\* No target is ever attempted a second time while an earlier attempt may have
\* reached it, for any number of callers, rows and attempts.
THEOREM OneLive == Spec => []OneLiveAttempt
  BY CoreInv, PTL DEF Core
-----------------------------------------------------------------------------
(* What the marketplace received.                                          *)

Replies == ReplyInv /\ PostedIsPublished
Writes == WriteInv /\ AtMostOneWrite

\* Replies and POSTED stay backed by the marketplace.
LEMMA RepliesStep ==
  ASSUME Core, Replies, [Next]_vars
  PROVE  Replies'
  <1> USE DEF SamePosts, SameAttempts, SameWire, SameMarket
  <1>0. /\ TypeOK /\ JobReads /\ JobOwns /\ StatusAgrees /\ ReplyInv /\ PostedIsPublished
        /\ \A a \in DOMAIN attempts : /\ attempts[a].inq \in Inquiry
                                      /\ attempts[a].status \in AttemptStatus
        /\ \A i \in Inquiry : targetOf[i] \in Target
    BY TypeFacts, NaverPostAssumption DEF Core, Replies, AttemptRow
  <1>1. ASSUME NEW p \in Poster, Claims(p)
        PROVE  Replies'
    BY <1>0, <1>1 DEF Claims, Replies, ReplyInv, PostedIsPublished
  <1>2. ASSUME NEW p \in Poster, NEW s \in AttemptStatus \ {"POSTING"}, Settles(p, s)
        PROVE  Replies'
    <2>1. ReplyInv'
      BY <1>0, <1>2 DEF Settles, ReplyInv
    <2>2. PostedIsPublished'
      BY <1>0, <1>2 DEF Settles, ReplyInv, PostedIsPublished, Shown, AttemptStatus
    <2> QED
      BY <2>1, <2>2 DEF Replies
  <1>3. ASSUME Recovers
        PROVE  Replies'
    BY <1>0, <1>3 DEF Recovers, Replies, ReplyInv, PostedIsPublished
  <1>4. ASSUME NEW a \in DOMAIN attempts, NEW w \in WireState, Moves(a, w)
        PROVE  Replies'
    <2>1. \A t \in Target : market[t].answered => market'[t].answered
      BY <1>4 DEF Moves
    <2>2. ReplyInv'
      BY <1>0, <1>4, <2>1 DEF Moves, ReplyInv
    <2>3. PostedIsPublished'
      BY <1>0, <1>4, <2>1 DEF Moves, PostedIsPublished
    <2> QED
      BY <2>2, <2>3 DEF Replies
  <1>5. ASSUME Keeps
        PROVE  Replies'
    BY <1>0, <1>5 DEF Keeps, Replies, ReplyInv, PostedIsPublished
  <1> QED
    BY <1>0, <1>1, <1>2, <1>3, <1>4, <1>5, Shapes

\* Where errors are certain, writes stay backed by a successful attempt.
LEMMA WritesStep ==
  ASSUME Core, TrustErrors, Writes, [Next]_vars
  PROVE  Writes'
  <1> USE DEF SamePosts, SameAttempts, SameWire, SameMarket
  <1>0. /\ TypeOK /\ JobReads /\ JobOwns /\ StatusAgrees /\ OneLiveAttempt
        /\ WriteInv /\ AtMostOneWrite
        /\ \A a \in DOMAIN attempts : /\ attempts[a].inq \in Inquiry
                                      /\ attempts[a].status \in AttemptStatus
        /\ \A t \in Target : market[t].writes \in Nat
        /\ DOMAIN attempts = 1..Len(attempts) /\ Len(attempts) \in Nat
    BY TypeFacts DEF Core, Writes, AttemptRow, TypeOK
  <1>1. ASSUME NEW p \in Poster, Claims(p)
        PROVE  Writes'
    <2>1. AtMostOneWrite'
      BY <1>0, <1>1 DEF Claims, AtMostOneWrite
    <2>2. WriteInv'
      BY <1>0, <1>1 DEF Claims, WriteInv
    <2> QED
      BY <2>1, <2>2 DEF Writes
  <1>2. ASSUME NEW p \in Poster, NEW s \in AttemptStatus \ {"POSTING"}, Settles(p, s)
        PROVE  Writes'
    <2>1. AtMostOneWrite'
      BY <1>0, <1>2 DEF Settles, AtMostOneWrite
    <2>2. WriteInv'
      BY <1>0, <1>2 DEF Settles, WriteInv
    <2> QED
      BY <2>1, <2>2 DEF Writes
  <1>3. ASSUME Recovers
        PROVE  Writes'
    BY <1>0, <1>3 DEF Recovers, Writes, WriteInv, AtMostOneWrite
  <1>4. ASSUME NEW a \in DOMAIN attempts, NEW w \in WireState, Moves(a, w)
        PROVE  Writes'
    <2> DEFINE t == targetOf[attempts[a].inq]
    <2>1. CASE w = "ok"
      <3>1. /\ wire[a] = "sent" /\ t \in Target
            /\ market'[t].writes = market[t].writes + 1
        BY <1>4, <2>1 DEF Moves
      <3>2. attempts[a].status # "POST_FAILED"
        BY <1>0, <3>1 DEF WriteInv
      <3>3. market[t].writes = 0
        BY <1>0, <3>1, <3>2 DEF WriteInv, OneLiveAttempt
      <3>4. AtMostOneWrite'
        BY <1>0, <1>4, <3>1, <3>3 DEF Moves, AtMostOneWrite
      <3>5. WriteInv'
        <4>1. \A b \in DOMAIN attempts' : attempts'[b].status = "POST_FAILED" =>
                wire'[b] \notin {"unsent", "sent", "ok"}
          BY <1>0, <1>4, <3>2 DEF Moves, WriteInv
        <4>2. ASSUME NEW u \in Target, market'[u].writes > 0
              PROVE  \E b \in DOMAIN attempts' :
                       wire'[b] = "ok" /\ targetOf[attempts'[b].inq] = u
          <5>1. CASE u = t
            BY <1>4, <2>1, <5>1 DEF Moves
          <5>2. CASE u # t
            <6>1. market[u].writes > 0
              BY <1>4, <4>2, <5>2 DEF Moves
            <6>2. PICK b \in DOMAIN attempts :
                    wire[b] = "ok" /\ targetOf[attempts[b].inq] = u
              BY <1>0, <6>1 DEF WriteInv
            <6> QED
              BY <1>4, <3>1, <6>2 DEF Moves
          <5> QED
            BY <5>1, <5>2
        <4> QED
          BY <4>1, <4>2 DEF WriteInv
      <3> QED
        BY <3>4, <3>5 DEF Writes
    <2>2. CASE w # "ok"
      <3>1. /\ SameMarket(Target) /\ wire[a] \in {"unsent", "sent"}
        BY <1>4, <2>2 DEF Moves
      <3>2. attempts[a].status # "POST_FAILED"
        BY <1>0, <3>1 DEF WriteInv
      <3>3. /\ DOMAIN attempts' = DOMAIN attempts
            /\ \A b \in DOMAIN attempts : /\ attempts'[b].inq = attempts[b].inq
                                          /\ attempts'[b].status = attempts[b].status
                                          /\ b # a => wire'[b] = wire[b]
            /\ \A u \in Target : market'[u] = market[u]
        BY <1>4, <3>1 DEF Moves, SameWire, SameMarket
      <3>4. wire[a] # "ok" /\ WriteInv
        BY <1>0, <3>1
      <3>5. WriteInv'
        <4>1. \A b \in DOMAIN attempts : attempts[b].status = "POST_FAILED" =>
                b # a /\ wire'[b] \notin {"unsent", "sent", "ok"}
          BY <3>2, <3>3, <3>4 DEF WriteInv
        <4>2. ASSUME NEW u \in Target, market[u].writes > 0
              PROVE  \E b \in DOMAIN attempts :
                       wire'[b] = "ok" /\ targetOf[attempts[b].inq] = u
          <5>1. PICK b \in DOMAIN attempts :
                  wire[b] = "ok" /\ targetOf[attempts[b].inq] = u
            BY <3>4, <4>2 DEF WriteInv
          <5> QED
            BY <3>3, <3>4, <5>1
        <4> QED
          BY <3>3, <4>1, <4>2 DEF WriteInv
      <3>6. AtMostOneWrite'
        BY <1>0, <3>3 DEF AtMostOneWrite
      <3> QED
        BY <3>5, <3>6 DEF Writes
    <2> QED
      BY <2>1, <2>2
  <1>5. ASSUME Keeps
        PROVE  Writes'
    BY <1>0, <1>5 DEF Keeps, Writes, WriteInv, AtMostOneWrite
  <1> QED
    BY <1>0, <1>1, <1>2, <1>3, <1>4, <1>5, Shapes

\* The invariant TLC checks holds at first.
LEMMA InitIInv == Init => IInv
  <1> SUFFICES ASSUME Init PROVE IInv
    OBVIOUS
  <1>1. /\ DOMAIN attempts = {} /\ \A t \in Target : market[t].writes = 0
        /\ \A i \in Inquiry : inquiry[i].post = "NOT_POSTED"
    BY DEF Init
  <1> QED
    BY <1>1, InitCore DEF Core, IInv, ReplyInv, PostedIsPublished, WriteInv,
                          AtMostOneWrite

\* Every step keeps it.
LEMMA IInvStep ==
  ASSUME IInv, [Next]_vars
  PROVE  IInv'
  <1>1. Core /\ Replies
    BY DEF IInv, Core, Replies
  <1>2. Core'
    BY <1>1, TypeStep, ReadsStep, CoreStep DEF Core
  <1>3. Replies'
    BY <1>1, RepliesStep
  <1>4. TrustErrors => Writes'
    BY <1>1, WritesStep DEF IInv, Writes
  <1> QED
    BY <1>2, <1>3, <1>4 DEF IInv, Core, Replies, Writes

\* It is an invariant.
THEOREM Inductive == Spec => []IInv
  BY InitIInv, IInvStep, PTL DEF Spec

\* The marketplace receives at most one answer of ours for a target, if errors
\* are what the client takes them for.
THEOREM OneWrite == Spec => []AtMostOneWrite
  <1>1. IInv => AtMostOneWrite
    BY DEF IInv, AtMostOneWrite
  <1> QED
    BY <1>1, Inductive, PTL

\* An inquiry is POSTED only when its target is answered.
THEOREM Published == Spec => []PostedIsPublished
  <1>1. IInv => PostedIsPublished
    BY DEF IInv
  <1> QED
    BY <1>1, Inductive, PTL

LEMMA NoneForgotten == IInv => NoForgottenWrite
  <1> SUFFICES ASSUME IInv, TrustErrors, NEW t \in Target, market[t].writes > 0
               PROVE  \E i \in Inquiry :
                        /\ targetOf[i] = t
                        /\ inquiry[i].post \in {"POSTING", "POSTED", "POST_UNKNOWN"}
    BY DEF NoForgottenWrite
  <1>1. TypeOK /\ WriteInv /\ StatusAgrees
    BY DEF IInv
  <1>2. PICK a \in DOMAIN attempts : wire[a] = "ok" /\ targetOf[attempts[a].inq] = t
    BY <1>1 DEF WriteInv
  <1>3. /\ attempts[a].inq \in Inquiry
        /\ attempts[a].status \in AttemptStatus \ {"POST_FAILED"}
    BY <1>1, <1>2, TypeFacts DEF WriteInv, AttemptRow
  <1>4. inquiry[attempts[a].inq].post \in {"POSTING", "POSTED", "POST_UNKNOWN"}
    BY <1>1, <1>3 DEF StatusAgrees, Shown, AttemptStatus
  <1> QED
    BY <1>2, <1>3, <1>4

\* What was written is never shown as failed or not posted.
THEOREM NothingForgotten == Spec => []NoForgottenWrite
  BY NoneForgotten, Inductive, PTL
-----------------------------------------------------------------------------
(* Finality.                                                               *)

FinalKept ==
  \A i \in Inquiry : inquiry[i].post \in {"POSTED", "POST_UNKNOWN"} =>
    inquiry'[i].post = inquiry[i].post

LEMMA FinalStep == Core /\ [Next]_vars => FinalKept
  <1> SUFFICES ASSUME Core, [Next]_vars, NEW i \in Inquiry,
                      inquiry[i].post \in {"POSTED", "POST_UNKNOWN"}
               PROVE  inquiry'[i].post = inquiry[i].post
    BY DEF FinalKept
  <1> USE DEF SamePosts
  <1>0. TypeOK /\ JobReads /\ JobOwns /\ StatusAgrees
    BY DEF Core
  <1>1. ASSUME NEW p \in Poster, Claims(p)
        PROVE  inquiry'[i].post = inquiry[i].post
    BY <1>1 DEF Claims, Acquirable, Unsent
  <1>2. ASSUME NEW p \in Poster, NEW s \in AttemptStatus \ {"POSTING"}, Settles(p, s)
        PROVE  inquiry'[i].post = inquiry[i].post
    BY <1>0, <1>2 DEF Settles, StatusAgrees, Shown
  <1> QED
    BY <1>0, <1>1, <1>2, Shapes DEF Recovers, Moves, Keeps

\* POSTED and POST_UNKNOWN are final, in every instance.
THEOREM SettledForGood == Spec => Settled
  BY FinalStep, CoreInv, PTL DEF FinalKept, Settled, Spec

\* What a claim sends is shown now, or is one of the two cases.
Sends ==
  \A p \in Poster : job[p].pc = "prepared" /\ job'[p].pc = "calling" =>
    /\ draft[job[p].inq].rows[job[p].draft].text[job[p].field] = job[p].body
    /\ Current(p, job[p].field # "final")

\* Every step sends such a text.
LEMMA SendsStep ==
  ASSUME Core, [Next]_vars
  PROVE  Sends
  <1> SUFFICES ASSUME NEW p \in Poster, job[p].pc = "prepared", job'[p].pc = "calling"
               PROVE  /\ draft[job[p].inq].rows[job[p].draft].text[job[p].field] = job[p].body
                      /\ Current(p, job[p].field # "final")
    BY DEF Sends
  <1>0. TypeOK /\ JobReads /\ JobOwns /\ StatusAgrees /\ job \in [Poster -> Job]
    BY DEF Core, TypeOK
  <1>1. \A q \in Poster : Claims(q) => q = p
    BY DEF Claims, QuietJobs
  <1>2. Claims(p)
    BY <1>0, <1>1, Shapes DEF Settles, Recovers, Moves, Keeps, QuietJobs
  <1> DEFINE i == job[p].inq
             text == draft[i].rows[job[p].draft].text
  <1>3. text[job[p].field] = job[p].body /\ job[p].body # None
    BY <1>0, <1>2 DEF Claims, Acquirable, JobReads
  <1>4. job[p].field \in {"original", "edited", "final"}
    BY <1>0 DEF Job, Field
  <1>5. CASE job[p].draft # draft[i].active
    BY <1>3, <1>5 DEF Current
  <1>6. CASE job[p].draft = draft[i].active
    <2>1. ActiveRow(i).text = text
      BY <1>6 DEF ActiveRow
    <2> HIDE DEF text
    <2>2. CASE job[p].field = "final"
      <3>1. PostingField(text, FALSE) = "final"
        BY DEF PostingField
      <3> QED
        BY <1>3, <2>1, <2>2, <3>1 DEF Current, text
    <2>3. CASE job[p].field = "edited"
      <3>1. PostingField(text, TRUE) = "edited"
        BY <1>3, <2>3 DEF PostingField
      <3> QED
        BY <1>3, <2>1, <2>3, <3>1 DEF Current, text
    <2>4. CASE job[p].field = "original" /\ text["edited"] = None
      <3>1. PostingField(text, TRUE) = "original"
        BY <1>3, <2>4 DEF PostingField
      <3> QED
        BY <1>3, <2>1, <2>4, <3>1 DEF Current, text
    <2>5. CASE job[p].field = "original" /\ text["edited"] # None
      BY <1>3, <2>1, <2>5 DEF Current, text
    <2> QED
      BY <1>4, <2>2, <2>3, <2>4, <2>5
  <1> QED
    BY <1>5, <1>6

\* A claim sends the text shown at that moment, but for the two cases the claim
\* lets through, in every instance.
THEOREM CurrentText == Spec => SendsCurrentText
  <1>1. Core /\ [Next]_vars => Sends
    BY SendsStep
  <1> QED
    BY <1>1, CoreInv, PTL DEF Sends, SendsCurrentText, Spec
-----------------------------------------------------------------------------
(* Refinement of PostOnce.                                                 *)

\* The phase of a target depends on its attempts' statuses only.
LEMMA PhaseSame ==
  ASSUME NEW q, NEW r, NEW t,
         \A a \in DOMAIN q : targetOf[q[a].inq] = t =>
           a \in DOMAIN r /\ targetOf[r[a].inq] = t /\ r[a].status = q[a].status,
         \A a \in DOMAIN r : targetOf[r[a].inq] = t =>
           a \in DOMAIN q /\ targetOf[q[a].inq] = t
  PROVE  PhaseIn(q, t) = PhaseIn(r, t)
  <1>1. \A S : HasStatus(q, t, S) <=> HasStatus(r, t, S)
    BY DEF HasStatus
  <1> QED
    BY <1>1 DEF PhaseIn

\* A target without a live attempt is open.
LEMMA PhaseNone ==
  ASSUME NEW r, NEW t,
         \A a \in DOMAIN r : targetOf[r[a].inq] = t => r[a].status = "POST_FAILED"
  PROVE  PhaseIn(r, t) = "open"
  <1>1. \A S : "POST_FAILED" \notin S => ~HasStatus(r, t, S)
    BY DEF HasStatus
  <1> QED
    BY <1>1 DEF PhaseIn

PhaseFor(status) == CASE status = "POSTING" -> "claimed"
                      [] status = "POST_UNKNOWN" -> "doubtful"
                      [] OTHER -> "done"

\* A target's one live attempt decides its phase.
LEMMA PhaseLive ==
  ASSUME NEW r, NEW t, NEW a \in DOMAIN r, targetOf[r[a].inq] = t,
         r[a].status \in AttemptStatus \ {"POST_FAILED"},
         \A b \in DOMAIN r \ {a} : targetOf[r[b].inq] = t => r[b].status = "POST_FAILED"
  PROVE  PhaseIn(r, t) = PhaseFor(r[a].status)
  <1>1. \A S : "POST_FAILED" \notin S => (HasStatus(r, t, S) <=> r[a].status \in S)
    BY DEF HasStatus
  <1> QED
    BY <1>1 DEF PhaseIn, PhaseFor, AttemptStatus

\* Every step is a step or a stutter of the register.
LEMMA RefineStep ==
  ASSUME TrustErrors, IInv, IInv', [Next]_vars
  PROVE  [Register!Next]_<<[t \in Target |-> PhaseIn(attempts, t)],
                           [t \in Target |-> market[t].writes]>>
  <1> DEFINE ph == [t \in Target |-> PhaseIn(attempts, t)]
             wr == [t \in Target |-> market[t].writes]
             Same(t) == PhaseIn(attempts', t) = PhaseIn(attempts, t)
             Others(t) == \A u \in Target \ {t} : Same(u)
  <1> USE DEF SamePosts, SameAttempts, SameWire, SameMarket
  <1>0. /\ TypeOK /\ JobReads /\ JobOwns /\ StatusAgrees /\ OneLiveAttempt
        /\ WriteInv /\ ReplyInv /\ WriteInv'
        /\ \A a \in DOMAIN attempts : /\ attempts[a].inq \in Inquiry
                                      /\ attempts[a].status \in AttemptStatus
        /\ \A i \in Inquiry : targetOf[i] \in Target
        /\ \A t \in Target : market[t].writes \in Nat
        /\ DOMAIN attempts = 1..Len(attempts) /\ Len(attempts) \in Nat
    BY TypeFacts, NaverPostAssumption DEF IInv, AttemptRow, TypeOK
  <1>1. ASSUME NEW p \in Poster, Claims(p)
        PROVE  \E t \in Target : Register!Claim(t)
    <2> DEFINE t == targetOf[job[p].inq]
               n == Len(attempts) + 1
    <2>1. /\ t \in Target /\ n \in DOMAIN attempts' /\ targetOf[attempts'[n].inq] = t
          /\ attempts'[n].status = "POSTING"
          /\ DOMAIN attempts' \ {n} = DOMAIN attempts /\ n \notin DOMAIN attempts
      BY <1>0, <1>1 DEF Claims
    <2>2. \A a \in DOMAIN attempts : targetOf[attempts[a].inq] = t =>
            attempts[a].status = "POST_FAILED"
      BY <1>0, <1>1, NoLive DEF Claims
    <2>3. \A a \in DOMAIN attempts : /\ attempts'[a].inq = attempts[a].inq
                                     /\ attempts'[a].status = attempts[a].status
      BY <1>1 DEF Claims
    <2> HIDE DEF t, n
    <2>4. PhaseIn(attempts, t) = "open"
      BY <2>2, PhaseNone
    <2>5. PhaseIn(attempts', t) = PhaseFor("POSTING")
      BY <2>1, <2>2, <2>3, PhaseLive, Values
    <2>6. Others(t)
      <3> SUFFICES ASSUME NEW u \in Target \ {t} PROVE Same(u)
        OBVIOUS
      <3>1. \A a \in DOMAIN attempts' : targetOf[attempts'[a].inq] = u =>
              /\ a \in DOMAIN attempts /\ targetOf[attempts[a].inq] = u
              /\ attempts[a].status = attempts'[a].status
        BY <2>1, <2>3
      <3>2. \A a \in DOMAIN attempts : targetOf[attempts[a].inq] = u =>
              a \in DOMAIN attempts' /\ targetOf[attempts'[a].inq] = u
        BY <2>1, <2>3
      <3> QED
        BY <3>1, <3>2, PhaseSame
    <2>7. wr' = wr
      BY <1>1 DEF Claims
    <2>8. ph' = [ph EXCEPT ![t] = "claimed"]
      BY <2>1, <2>5, <2>6 DEF PhaseFor
    <2> QED
      BY <2>1, <2>4, <2>7, <2>8 DEF Register!Claim
  <1>2. ASSUME NEW p \in Poster, NEW s \in AttemptStatus \ {"POSTING"}, Settles(p, s)
        PROVE  [Register!Next]_<<ph, wr>>
    <2> DEFINE a == job[p].attempt
               t == targetOf[job[p].inq]
    <2>1. /\ a \in DOMAIN attempts /\ t \in Target /\ DOMAIN attempts' = DOMAIN attempts
          /\ targetOf[attempts[a].inq] = t /\ targetOf[attempts'[a].inq] = t
          /\ attempts[a].status \in {"POSTING", "POST_UNKNOWN"}
          /\ attempts'[a].status = IF attempts[a].status = "POSTING" THEN s
                                   ELSE attempts[a].status
      BY <1>0, <1>2 DEF Settles
    <2>2. \A b \in DOMAIN attempts \ {a} : /\ attempts'[b].inq = attempts[b].inq
                                           /\ attempts'[b].status = attempts[b].status
      BY <1>2 DEF Settles
    <2>3. \A b \in DOMAIN attempts \ {a} : targetOf[attempts[b].inq] = t =>
            attempts[b].status = "POST_FAILED"
      BY <1>0, <2>1 DEF OneLiveAttempt
    <2> HIDE DEF a, t
    <2>4. Others(t)
      <3> SUFFICES ASSUME NEW u \in Target \ {t} PROVE Same(u)
        OBVIOUS
      <3> QED
        BY <2>1, <2>2, PhaseSame
    <2>5. wr' = wr
      BY <1>2 DEF Settles
    <2>6. CASE attempts[a].status = "POST_UNKNOWN"
      <3>1. Same(t)
        BY <2>1, <2>2, <2>6, PhaseSame
      <3>2. ph' = ph
        BY <2>4, <3>1
      <3> QED
        BY <2>5, <3>2
    <2>7. CASE attempts[a].status = "POSTING"
      <3>1. PhaseIn(attempts, t) = "claimed"
        BY <2>1, <2>3, <2>7, PhaseLive, Values DEF PhaseFor
      <3>2. CASE s = "POST_FAILED"
        <4>1. PhaseIn(attempts', t) = "open"
          BY <2>1, <2>2, <2>3, <2>7, <3>2, PhaseNone
        <4>2. \A b \in DOMAIN attempts' : targetOf[attempts'[b].inq] = t =>
                attempts'[b].status = "POST_FAILED"
          BY <2>1, <2>2, <2>3, <2>7, <3>2
        <4>3. wr[t] = 0
          BY <1>0, <1>2, <2>1, <4>2 DEF WriteInv, Settles
        <4>4. ph' = [ph EXCEPT ![t] = "open"]
          BY <2>1, <2>4, <4>1
        <4> QED
          BY <2>1, <2>5, <3>1, <4>3, <4>4 DEF Register!Next, Register!Release
      <3>3. CASE s # "POST_FAILED"
        <4>1. PhaseIn(attempts', t) = PhaseFor(s)
          BY <2>1, <2>2, <2>3, <2>7, <3>3, PhaseLive, Values
        <4>2. CASE s = "POST_UNKNOWN"
          <5>1. ph' = [u \in Target |-> IF u \in {t} THEN "doubtful" ELSE ph[u]]
            BY <2>1, <2>4, <4>1, <4>2 DEF PhaseFor
          <5>2. {t} \in SUBSET Target /\ Register!GiveUp({t})
            BY <2>1, <2>5, <3>1, <5>1 DEF Register!GiveUp
          <5> QED
            BY <5>2 DEF Register!Next
        <4>3. CASE s # "POST_UNKNOWN"
          <5>1. ph' = [ph EXCEPT ![t] = "done"]
            BY <2>1, <2>4, <4>1, <4>3 DEF PhaseFor
          <5> QED
            BY <2>1, <2>5, <3>1, <5>1 DEF Register!Next, Register!Finish
        <4> QED
          BY <4>2, <4>3
      <3> QED
        BY <3>2, <3>3
    <2> QED
      BY <2>1, <2>6, <2>7
  <1>3. ASSUME Recovers
        PROVE  [Register!Next]_<<ph, wr>>
    <2> DEFINE S == {targetOf[attempts[a].inq] : a \in StaleAttempts}
    <2>1. \A a \in StaleAttempts : /\ a \in DOMAIN attempts
                                   /\ attempts[a].status = "POSTING"
                                   /\ attempts'[a].inq = attempts[a].inq
                                   /\ attempts'[a].status = "POST_UNKNOWN"
      BY <1>3 DEF Recovers
    <2>2. /\ DOMAIN attempts' = DOMAIN attempts
          /\ \A a \in DOMAIN attempts \ StaleAttempts :
               /\ attempts'[a].inq = attempts[a].inq
               /\ attempts'[a].status = attempts[a].status
      BY <1>3 DEF Recovers
    <2>3. wr' = wr
      BY <1>3 DEF Recovers
    <2>4. ASSUME NEW a \in StaleAttempts
          PROVE  /\ PhaseIn(attempts, targetOf[attempts[a].inq]) = "claimed"
                 /\ PhaseIn(attempts', targetOf[attempts[a].inq]) = "doubtful"
      <3> DEFINE t == targetOf[attempts[a].inq]
      <3>1. \A b \in DOMAIN attempts \ {a} : targetOf[attempts[b].inq] = t =>
              attempts[b].status = "POST_FAILED"
        BY <1>0, <2>1 DEF OneLiveAttempt
      <3>2. PhaseIn(attempts, t) = PhaseFor("POSTING")
        BY <2>1, <3>1, PhaseLive, Values
      <3>3. \A b \in DOMAIN attempts' \ {a} : targetOf[attempts'[b].inq] = t =>
              attempts'[b].status = "POST_FAILED"
        BY <2>1, <2>2, <3>1
      <3>4. /\ a \in DOMAIN attempts' /\ targetOf[attempts'[a].inq] = t
            /\ attempts'[a].status = "POST_UNKNOWN"
        BY <2>1, <2>2
      <3>5. PhaseIn(attempts', t) = PhaseFor("POST_UNKNOWN")
        BY <3>3, <3>4, PhaseLive, Values
      <3> QED
        BY <3>2, <3>5 DEF PhaseFor
    <2>5. ASSUME NEW u \in Target \ S
          PROVE  Same(u)
      <3>1. \A a \in DOMAIN attempts : targetOf[attempts[a].inq] = u => a \notin StaleAttempts
        OBVIOUS
      <3>2. \A a \in DOMAIN attempts : targetOf[attempts'[a].inq] = u => a \notin StaleAttempts
        BY <2>1
      <3> QED
        BY <2>2, <3>1, <3>2, PhaseSame
    <2>6. CASE StaleAttempts = {}
      <3>1. ph' = ph
        BY <2>5, <2>6
      <3> QED
        BY <2>3, <3>1
    <2>7. CASE StaleAttempts # {}
      <3>1. S \in SUBSET Target /\ S # {}
        BY <1>0, <2>1, <2>7
      <3>2. \A t \in S : /\ PhaseIn(attempts, t) = "claimed"
                         /\ PhaseIn(attempts', t) = "doubtful"
        BY <2>4
      <3>3. ph' = [u \in Target |-> IF u \in S THEN "doubtful" ELSE ph[u]]
        BY <2>5, <3>1, <3>2
      <3>4. Register!GiveUp(S)
        BY <2>3, <3>1, <3>2, <3>3 DEF Register!GiveUp
      <3> QED
        BY <3>1, <3>4 DEF Register!Next
    <2> QED
      BY <2>6, <2>7
  <1>4. ASSUME DOMAIN attempts' = DOMAIN attempts, SameAttempts(DOMAIN attempts)
        PROVE  ph' = ph
    <2>1. \A u \in Target : Same(u)
      BY <1>4, PhaseSame
    <2> QED
      BY <2>1
  <1>5. ASSUME NEW a \in DOMAIN attempts, NEW w \in WireState, Moves(a, w)
        PROVE  [Register!Next]_<<ph, wr>>
    <2> DEFINE t == targetOf[attempts[a].inq]
    <2>1. ph' = ph
      BY <1>4, <1>5 DEF Moves
    <2>2. CASE w = "ok"
      <3>1. /\ wire[a] = "sent" /\ t \in Target
            /\ market'[t].writes = market[t].writes + 1
            /\ \A u \in Target \ {t} : market'[u] = market[u]
        BY <1>5, <2>2 DEF Moves
      <3>2. attempts[a].status \in {"POSTING", "POST_UNKNOWN"}
        BY <1>0, <3>1 DEF WriteInv, ReplyInv, AttemptStatus
      <3>3. \A b \in DOMAIN attempts \ {a} : targetOf[attempts[b].inq] = t =>
              attempts[b].status = "POST_FAILED"
        BY <1>0, <3>2 DEF OneLiveAttempt
      <3>4. PhaseIn(attempts, t) \in {"claimed", "doubtful"}
        <4>1. PhaseIn(attempts, t) = PhaseFor(attempts[a].status)
          BY <3>2, <3>3, PhaseLive, Values
        <4> QED
          BY <3>2, <4>1 DEF PhaseFor
      <3>5. wr[t] = 0
        BY <1>0, <3>1, <3>3 DEF WriteInv
      <3>6. wr' = [wr EXCEPT ![t] = 1]
        BY <3>1, <3>5
      <3> QED
        BY <2>1, <3>1, <3>4, <3>5, <3>6 DEF Register!Next, Register!Write
    <2>3. CASE w # "ok"
      <3>1. SameMarket(Target)
        BY <1>0, <1>5, <2>3 DEF Moves
      <3>2. wr' = wr
        BY <3>1
      <3> QED
        BY <2>1, <3>2
    <2> QED
      BY <2>2, <2>3
  <1>6. ASSUME Keeps
        PROVE  ph' = ph /\ wr' = wr
    BY <1>4, <1>6 DEF Keeps
  <1> HIDE DEF ph, wr
  <1>7. [Register!Next]_<<ph, wr>>
    BY <1>0, <1>1, <1>2, <1>3, <1>5, <1>6, Shapes DEF Register!Next
  <1> QED
    BY <1>7 DEF ph, wr

\* Nothing is claimed at first.
LEMMA InitRegister == Init => Register!Init
  <1> SUFFICES ASSUME Init PROVE Register!Init
    OBVIOUS
  <1>1. \A t \in Target : PhaseIn(attempts, t) = "open" /\ market[t].writes = 0
    BY PhaseNone DEF Init
  <1> QED
    BY <1>1 DEF Register!Init

\* As long as errors are what the client takes them for, registration is, for
\* every target, the claim-write-settle register of PostOnce.
THEOREM Refinement ==
  ASSUME TrustErrors
  PROVE  Spec => ImplementsPostOnce
  <1>1. IInv /\ IInv' /\ [Next]_vars =>
          [Register!Next]_<<[t \in Target |-> PhaseIn(attempts, t)],
                            [t \in Target |-> market[t].writes]>>
    BY RefineStep
  <1> QED
    BY <1>1, InitRegister, Inductive, PTL DEF Spec, ImplementsPostOnce, Register!Spec
-----------------------------------------------------------------------------
(* The two services over one set of tables.                                *)

\* The two reads of _resolve change the caller's locals only.
Reads(p) == Resolve(p) \/ ResolveDraft(p)

\* Every step is one of the other service, or a read of Coupang's.
LEMMA StepOrRead ==
  ASSUME IInv, MarketNext
  PROVE  Next \/ \E p \in Poster : Reads(p)
  <1>1. ASSUME NEW p \in Poster, Call(p)
        PROVE  PosterStep(p) \/ Reads(p)
    BY <1>1 DEF Call, CoupangStep, PosterStep, Reads, NetworkError, NotConfigured
  <1>2. ASSUME NEW a \in DOMAIN attempts, Refuses(a)
        PROVE  MarketRefuses(a)
    BY <1>2 DEF Refuses, CoupangRefuses, MarketRefuses
  <1>3. ASSUME NEW i \in Inquiry, Sync(i)
        PROVE  SyncSource(i)
    BY <1>3 DEF Sync, CoupangSync, SyncSource
  <1> QED
    BY <1>1, <1>2, <1>3 DEF MarketNext, Next

\* A read leaves the caller idle or further on with what it has read.
LEMMA ReadEffect ==
  ASSUME IInv, NEW p \in Poster, Reads(p)
  PROVE  /\ UNCHANGED <<inquiry, draft, attempts, wire, market>>
         /\ job' \in [Poster -> Job]
         /\ \A q \in Poster \ {p} : job'[q] = job[q]
         /\ job'[p].pc \in {"idle", "checked", "prepared"}
         /\ job'[p].pc # "idle" => job'[p].inq \in Inquiry
         /\ job'[p].pc = "prepared" =>
              /\ job'[p].draft \in DOMAIN draft[job'[p].inq].rows
              /\ job'[p].body \in Answer
  <1>0. /\ job \in [Poster -> Job]
        /\ job[p].pc # "idle" => job[p].inq \in Inquiry
        /\ TypeOK
    BY DEF IInv, TypeOK, JobReads
  <1>1. CASE Return(p) /\ UNCHANGED <<inquiry, draft, attempts, wire, market>>
    BY <1>0, <1>1, ReturnType DEF Return, NoJob
  <1>2. CASE /\ job[p].pc = "opened"
             /\ job' = [job EXCEPT ![p].pc = "checked", ![p].retry = FALSE]
             /\ UNCHANGED <<inquiry, draft, attempts, wire, market>>
    <2>1. job' \in [Poster -> Job]
      BY <1>0, <1>2, JobType, Values
    <2> QED
      BY <1>0, <1>2, <2>1 DEF Job
  <1>3. CASE /\ job[p].pc = "checked"
             /\ ReadText(p, TRUE)
             /\ UNCHANGED <<inquiry, draft, attempts, wire, market>>
    <2>1. job[p].inq \in Inquiry
      BY <1>0, <1>3
    <2>2. draft[job[p].inq].active \in DOMAIN draft[job[p].inq].rows
      BY <1>0, <2>1, DraftFacts
    <2> QED
      BY <1>0, <1>3, <2>1, <2>2, ReadTextEffect
  <1>4. \/ Return(p) /\ UNCHANGED <<inquiry, draft, attempts, wire, market>>
        \/ /\ job[p].pc = "opened"
           /\ job' = [job EXCEPT ![p].pc = "checked", ![p].retry = FALSE]
           /\ UNCHANGED <<inquiry, draft, attempts, wire, market>>
        \/ /\ job[p].pc = "checked"
           /\ ReadText(p, TRUE)
           /\ UNCHANGED <<inquiry, draft, attempts, wire, market>>
    BY Zenon DEF Reads, Resolve, ResolveDraft
  <1> QED
    BY <1>1, <1>2, <1>3, <1>4

\* So it keeps the invariant.
LEMMA ReadStep ==
  ASSUME IInv, NEW p \in Poster, Reads(p)
  PROVE  IInv'
  <1>1. TypeOK'
    BY ReadEffect DEF IInv, TypeOK, DraftsOK
  <1>2. JobReads'
    BY ReadEffect DEF IInv, JobReads
  <1>3. JobOwns'
    BY ReadEffect DEF IInv, JobOwns
  <1>4. StatusAgrees' /\ OneLiveAttempt' /\ ReplyInv' /\ PostedIsPublished'
    BY ReadEffect DEF IInv, StatusAgrees, AttemptsOf, OneLiveAttempt, ReplyInv,
                      PostedIsPublished
  <1>5. TrustErrors => WriteInv' /\ AtMostOneWrite'
    BY ReadEffect DEF IInv, WriteInv, AtMostOneWrite
  <1> QED
    BY <1>1, <1>2, <1>3, <1>4, <1>5 DEF IInv

\* Every step of either service keeps the invariant.
LEMMA MarketStep ==
  ASSUME IInv, [MarketNext]_vars
  PROVE  IInv' /\ ([Next]_vars \/ UNCHANGED <<inquiry, draft, attempts, wire, market>>)
  <1>1. CASE UNCHANGED vars
    BY <1>1, IInvStep
  <1>2. CASE Next
    BY <1>2, IInvStep
  <1>3. CASE \E p \in Poster : Reads(p)
    BY <1>3, ReadStep, ReadEffect
  <1> QED
    BY <1>1, <1>2, <1>3, StepOrRead

\* The invariant of one service is that of both together, for any number of
\* callers and rows of either marketplace.
THEOREM MarketInductive == MarketSpec => []IInv
  BY InitIInv, MarketStep, PTL DEF MarketSpec

\* With both services on the same tables, a target has one attempt that did not
\* fail; where errors are certain it gets one answer of ours, and none is
\* forgotten; and what is shown as posted is answered.
THEOREM MarketOneWrite ==
  MarketSpec => /\ []OneLiveAttempt /\ []AtMostOneWrite
                /\ []NoForgottenWrite /\ []PostedIsPublished
  <1>1. IInv => OneLiveAttempt
    BY DEF IInv
  <1>2. IInv => AtMostOneWrite
    BY DEF IInv, AtMostOneWrite
  <1>3. IInv => PostedIsPublished
    BY DEF IInv
  <1> QED
    BY <1>1, <1>2, <1>3, NoneForgotten, MarketInductive, PTL

\* Neither service changes a row that is posted or doubtful.
THEOREM MarketSettled == MarketSpec => Settled
  <1>1. IInv /\ [MarketNext]_vars => FinalKept
    <2> SUFFICES ASSUME IInv, [MarketNext]_vars PROVE FinalKept
      OBVIOUS
    <2>1. CASE [Next]_vars
      BY <2>1, FinalStep DEF IInv, Core
    <2>2. CASE UNCHANGED inquiry
      BY <2>2 DEF FinalKept
    <2> QED
      BY <2>1, <2>2, MarketStep
  <1> QED
    BY <1>1, MarketInductive, PTL DEF FinalKept, Settled, MarketSpec

\* Both services send the text shown at the claim, but for the two cases.
THEOREM MarketCurrentText == MarketSpec => SendsCurrentText
  <1>1. IInv /\ [MarketNext]_vars => Sends
    <2> SUFFICES ASSUME IInv, [MarketNext]_vars PROVE Sends
      OBVIOUS
    <2>1. Core
      BY DEF IInv, Core
    <2>2. CASE [Next]_vars
      BY <2>1, <2>2, SendsStep
    <2>3. CASE \E p \in Poster : Reads(p)
      BY <2>3, ReadEffect DEF Sends
    <2> QED
      BY <2>2, <2>3, StepOrRead
  <1> QED
    BY <1>1, MarketInductive, PTL DEF Sends, SendsCurrentText, MarketSpec

\* Where errors are certain, both services together implement, for every target
\* of either marketplace, the register of PostOnce.
THEOREM MarketRefinement ==
  ASSUME TrustErrors
  PROVE  MarketSpec => ImplementsPostOnce
  <1>1. Init => Register!Init
    BY InitRegister
  <1>2. IInv /\ IInv' /\ [MarketNext]_vars =>
          [Register!Next]_<<[t \in Target |-> PhaseIn(attempts, t)],
                            [t \in Target |-> market[t].writes]>>
    <2> SUFFICES ASSUME IInv, IInv', [MarketNext]_vars
                 PROVE  [Register!Next]_<<[t \in Target |-> PhaseIn(attempts, t)],
                                          [t \in Target |-> market[t].writes]>>
      OBVIOUS
    <2>1. CASE [Next]_vars
      BY <2>1, RefineStep
    <2>2. CASE UNCHANGED <<attempts, market>>
      BY <2>2
    <2> QED
      BY <2>1, <2>2, MarketStep
  <1> QED
    BY <1>1, <1>2, MarketInductive, PTL DEF MarketSpec, ImplementsPostOnce, Register!Spec
=============================================================================
