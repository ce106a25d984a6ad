----------------------------- MODULE MarketPost -----------------------------
(***************************************************************************)
(* The same tables with a second marketplace: rows of Coupang stores are   *)
(* posted by CoupangPostService, which brings its own checks, its own      *)
(* request and its own reading of the reply, and shares acquire, succeed   *)
(* and fail of NaverPostRepository with NaverPostService.                  *)
(***************************************************************************)
EXTENDS NaverPost

CONSTANT Coupang   \* the targets of Coupang stores; a reply is a POST

ASSUME MarketAssumption == Coupang \subseteq Target \ Put

OfCoupang(i) == targetOf[i] \in Coupang
-----------------------------------------------------------------------------
(* CoupangPostService.post.                                                *)

\* _resolve, what it asks of the inquiry: a read outside the transaction of
\* acquire.  (Coupang rows are never flagged deleted.)
Resolve(p) ==
  LET i == job[p].inq IN
  /\ job[p].pc = "opened"
  /\ IF /\ inquiry[i].source # "answered"
        /\ Unsent(i)
        /\ inquiry[i].post = "POST_FAILED" => job[p].retry
     THEN job' = [job EXCEPT ![p].pc = "checked", ![p].retry = FALSE]
     ELSE Return(p)
  /\ UNCHANGED <<inquiry, draft, attempts, wire, market>>

\* _resolve, what it asks of the draft: read later, with the text to be sent.
\* The technical validation, the account or its credentials may refuse.
ResolveDraft(p) ==
  LET i == job[p].inq IN
  /\ job[p].pc = "checked"
  /\ \/ Return(p)
     \/ ~ActiveRow(i).posted /\ ReadText(p, TRUE)
  /\ UNCHANGED <<inquiry, draft, attempts, wire, market>>

\* Mutant: a broken connection counts as a failure, as it does at the other
\* marketplace.
NetworkErrorIsFailure(p) ==
  /\ job[p].pc = "calling" /\ wire[job[p].attempt] # "unsent"
  /\ Fail(p, "POST_FAILED", "other")
  /\ UNCHANGED wire

\* NETWORK_ERROR, a timeout or a connection that broke: POST_UNKNOWN, and the
\* request may still arrive.
NetworkError(p) == FailTimeout(p)

\* No key, no WING id: refused before anything is sent, after the claim.
NotConfigured(p) ==
  /\ job[p].pc = "calling" /\ wire[job[p].attempt] = "unsent"
  /\ FailNetwork(p)

CoupangStep(p) ==
  \/ FinalizeAuto(p) \/ Resolve(p) \/ ResolveDraft(p) \/ Acquire(p) \/ Send(p)
  \/ Succeed(p) \/ FailRefused(p) \/ NetworkError(p) \/ NotConfigured(p)

\* Any status but 200, a reply that is there already (DUPLICATE_REPLY)
\* included: _classify names it, and no code of Coupang rules out a retry.
CoupangRefuses(a) ==
  /\ wire[a] = "sent"
  /\ wire' = [wire EXCEPT ![a] = "refused"]
  /\ UNCHANGED <<inquiry, draft, attempts, market, job>>

\* The Coupang sync, which does not look for deleted inquiries.
CoupangSync(i) ==
  /\ \E source \in {"open"}
                     \cup (IF market[targetOf[i]].answered THEN {"answered"} ELSE {}) :
        inquiry' = [inquiry EXCEPT ![i].source = source]
  /\ UNCHANGED <<draft, attempts, wire, market, job>>
-----------------------------------------------------------------------------
(* AutoPostPipelineService._poster_for and the review page pick the service*)
(* by the store of the inquiry.                                            *)
Call(p) ==
  /\ job[p].pc # "idle"
  /\ IF OfCoupang(job[p].inq) THEN CoupangStep(p) ELSE PosterStep(p)

Refuses(a) ==
  IF OfCoupang(attempts[a].inq) THEN CoupangRefuses(a) ELSE MarketRefuses(a)

Sync(i) == IF OfCoupang(i) THEN CoupangSync(i) ELSE SyncSource(i)

MarketNext ==
  \/ \E p \in Poster : Call(p) \/ Crash(p) \/ \E i \in Inquiry : Open(p, i)
  \/ \E a \in DOMAIN attempts : MarketWrites(a) \/ Refuses(a) \/ GoStale(a)
  \/ \E t \in Target : SellerAnswers(t)
  \/ RecoverStalePosting
  \/ \E i \in Inquiry : Sync(i)
  \/ \E i \in Inquiry : Review(i) \/ \E body \in Answer : Regenerate(i, body)

MarketSpec == Init /\ [][MarketNext]_vars
=============================================================================
