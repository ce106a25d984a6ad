# A verification project for qa-auto

qa-auto collects the questions customers ask in two shops (Naver, Coupang),
drafts answers, and registers them at the marketplace: by an operator's click,
or unattended. A registered answer is public at once, cannot be taken back by
this program, and may be written by several threads and processes over one
SQLite database, through an HTTP call whose outcome is not always known. This
directory holds TLA+ models of that program's stateful parts, their TLC
configurations, and proofs checked by TLAPS.

All paths below are relative to the repository. `PROJECT.json` gives, for every
definition, the lines it stands for, and for every property a mutant of the
model that violates it.

## 1. Inventory

| Component | State it keeps | Operations | Hard behaviour | What makes it correct |
|---|---|---|---|---|
| Answer registration: `services/naver_post_service.py`, `repositories/naver_post_repository.py`, `api/naver_answer_client.py`, `services/naver_post_dry_run_service.py`, `services/naver_post_payload_builder.py` | `inquiries.post_status`, `naver_post_attempts` | `post`, `acquire`, `succeed`, `fail`, `mark_already_answered`, `correct` | concurrent callers, timeouts, late writes, crash between claim and outcome | one claim per target, at most one write, no published answer forgotten, statuses agree |
| Coupang posting: `services/coupang_post_service.py`, `api/coupang_post_client.py` | the same tables | `post` | the draft is read before the claim; other errors are doubtful | the same invariant over the same tables |
| Unattended posting: `services/naver_auto_post_scheduler.py`, `services/auto_post_runtime_service.py`, `repositories/auto_post_repository.py`, `repositories/auto_post_event_repository.py`, `ui/auto_post_panel.py`, `qa_streamlit_start_browser.py` | the switch per market, the outbox `auto_sync_events`, the scheduler's lease, the locks, a timer and flags per process | enable, disable, pause, panel save, ensure, start, stop, tick, `run_once`, claim, complete, fail, block, unblock, recover | two processes, leases that expire under a run, operators in the middle of a run, restarts | one sender per inquiry, claims end, pending events are served |
| Unattended pipeline: `services/auto_post_pipeline_service.py` and the services it calls | none of its own | `run_pending` | every step may raise, the lock of the inquiry expires | bounded sends, every item settled |
| Review after posting: `repositories/post_review_repository.py`, `NaverPostService.correct`, the review panel | reviews, corrections, answer versions | create, begin, complete and fail a correction, close, capture an edit | corrections against syncs, closings, timeouts and stale pages | one correction in flight; the history is true and catches up |
| Drafts, approval, workflow: `services/answer_service.py` (its control), `services/approval_service.py`, `repositories/answer_repository.py`, `repositories/approval_repository.py`, `repositories/workflow_repository.py` | drafts, the active one, approvals, workflow steps | generate, take over, save, reset, approve, cancel, finalize | a lease that is taken over while its owner lives; pages that act on what they loaded | what is approved is what was shown; no inquiry disappears from the staff's queue |
| Inquiry store: `repositories/inquiry_repository.py`, `repositories/database.py` | the inquiry, its source flags, the deletion streak | upsert, mark, count and clear deletion | a read model that lags behind the marketplace | an answered inquiry is not posted to |
| Synchronisation: `services/inquiry_sync_service.py`, `services/naver_inquiry_sync_service.py`, `services/naver_auto_sync_scheduler.py`, `services/inquiry_sync_orchestrator.py`, `services/manual_inquiry_sync_service.py`, `services/auto_post_confirmation_service.py`, `services/coupang_inquiry_sync_service.py`, `repositories/naver_sync_repository.py` | sync runs, the lease, the store's lock, streaks | sync, upsert, reconcile, create event, run after sync | lists that shift while read, failing pages, runs side by side, deaths | what is listed is stored; nothing listed is called deleted lightly |
| Kakao: `kakao_lock.py`, `kakao_notify.py`, `naver_workflow/kakao_dispatcher.py` | a lock file, a claims table, an outbox file | claim, queue, mark, release, lock, drain, send, linger | stale locks, interrupted sends, concurrent senders | one user of the window, one line per key, no line lost |
| DPS look-ups: `services/dps_enrichment_service.py`, `dps/keepalive_runtime.py`, `dps/session_scheduler.py`, `dps/cdp_session.py`, the monitor of `dps/agent_server.py` | the step `DPS_LOOKUP`, a lock, an event, the keepalive's schedule | enrich, plan, apply, monitor, click | look-ups and the keepalive share one browser window | a look-up has priority, one look-up per inquiry, calls end |
| DPS browser automation: `dps/dps_ui_automation.py`, `dps/cdp_backend.py`, `dps/chrome_tab_manager.py`, the jobs of `dps/agent_server.py` | a browser | read pages | - | not modelled (section 6) |
| Learning: `services/learning_index_sync_hook.py`, `services/learning_semantic_sync.py`, `services/learning_semantic_index.py`, `services/learning_index_repair_scheduler.py`, `repositories/learning_repository.py` | rows, an index file, the worker's flags | store, notify, sync, repair | coalesced requests, failing passes, silent writes | the index catches up with the rows |
| Answer generation: rules and language models behind `services/answer_service.py` | texts | analyse, ground, write | - | a choice of outcome in `Drafting` and `DpsLookup` |
| Configuration, sign-in, scripts, acceptance data | settings | - | - | not modelled |

How they interact: a sync upserts inquiries in one transaction, and adds an event
to the outbox in later ones; it then wakes the scheduler of its process and runs
it (`AUTO_SYNC_COMPLETED`). A run claims events one by one and hands each inquiry
to the pipeline, which drafts (a generation, with its DPS look-up) and calls
`NaverPostService.post` or `CoupangPostService.post`, the functions the review
workspace calls for an operator; an unattended answer then gets a review record.
Edits, approvals and corrections store Learnings, which the index follows.
Outcomes are announced in a chat room by the dispatcher, another process.
Streamlit's server and a sidecar started by `qa_streamlit_start_browser.py` do all
this over the same database. Nothing else is shared: whatever a thread knows
beyond a transaction it has read before, and most hazards are of that kind.

## 2. Modules

| Module | What it is | Composed with |
|---|---|---|
| `PostOnce` | The abstract promise: per target a register that is claimed, written at most once, and finished, given back only while nothing was written, or left doubtful for good. | refined by `NaverPost`, `MarketPost` |
| `NaverPost` | The posting protocol: `post` and the transactions it runs, for any number of callers, rows and targets, with the marketplace, crashes and recovery. | |
| `MarketPost` | Both marketplaces' services over the same tables. | extends `NaverPost` |
| `AutoPostQueue` | Outbox, switch, schedulers, leases, locks, runs, operators, launches, crashes. | |
| `PostReview` | What follows a registration: versions, review, corrections, seller edits, syncs. | |
| `Drafting` | Generations of one inquiry, their workflow step and lease, and the staff's edits and approvals. | |
| `SyncRuns` | Timers, lease, lock and runs of the collection, and the marking of deletions. | |
| `DpsLookup` | The look-ups of an inquiry against the keepalive. | |
| `LearningIndex` | Learnings, the coalescing worker, the sync of the index, the repair. | |
| `KakaoLock` | The lock file of the chat window. | |
| `Kakao` | Claims, outbox, dispatcher. | extends `KakaoLock` |
| `*Proofs` | The theorems of the module that is named; `PostingProofs` has those of `NaverPost` and `MarketPost`. | |
| `MC*` | The functions, constants and symmetries of the instances TLC checks. | |

In all of them a database transaction is one action (`BEGIN IMMEDIATE` serialises
them), and so is each read that a later step relies on; an HTTP call has its
request, its effect and its reply at different times; a process may die between
any two actions where the model has deaths. Texts are values compared for
equality, as their hashes are.

### NaverPost, MarketPost

`inquiry`, `draft` and `attempts` are the tables (rows of `naver_post_attempts` in
order of their ids), `wire` says for each attempt where its HTTP exchange stands,
`market` is the marketplace, and `job[p]` holds the locals of caller `p` inside
`post`. A draft has its three texts (`original_answer`, `edited_answer`,
`final_answer`) and its posted flag; `draft[i]` has the drafts of an inquiry, the
active one, and whether the inquiry is approved.

| Action | Code |
|---|---|
| `Open` | the decision to post: a page was rendered, or a candidate re-read under its lock, with its active draft |
| `FinalizeAuto` | the hold for review, or `PostReviewRepository.finalize_auto` before the pipeline's post |
| `Preflight` | the first read of `post` and its refusals, among them the explicit retry |
| `Prepare`, `ReadText` | the second read, the dry run's conditions for staff, the draft, the field of the caller's mode (`posting_answer`) and its text |
| `Acquire` | `NaverPostRepository.acquire`, which looks at that draft and that field again |
| `Send`, `MarketWrites`, `MarketRefuses` | `client.send`, and what the marketplace makes of it |
| `Succeed`, `MarkAlreadyAnswered`, `FailRefused`, `FailTimeout`, `FailNetwork` | the transaction that records the outcome |
| `RecoverStalePosting`, `GoStale` | `AutoPostRepository.recover_stale_posting` and its 600 s |
| `EditDraft`, `Approve`, `CancelApproval`, `Regenerate`, `SyncSource` | what others do to any draft of the inquiry and to the inquiry |
| `Crash`, `SellerAnswers` | a process dies; somebody answers in the seller centre |
| `Resolve`, `ResolveDraft`, `NotConfigured`, `NetworkError`, `CoupangRefuses`, `CoupangSync` (`MarketPost`) | what `CoupangPostService` and its client do differently |

Of the error codes only those of `NON_RETRYABLE_TARGET_ERRORS` differ from the
others. A timeout may be recorded at any moment after the request left, so the
write may come long after. `TrustErrors` is the assumption the client makes without
saying so: an error other than a timeout means that nothing was written. The
properties that count writes state it (a reset connection or a 5xx may in truth
hide a write, and then a retry writes twice); the proofs say where they need it.
The Coupang client is stricter: a connection that breaks is doubtful too.

`acquire` does not ask whether the draft is still the active one, nor which field a
post would take now. `SendsCurrentText` therefore says that the text sent is the one
shown at the claim (`Current`) but for two cases, which section 5 names, and that it
is in any case what the chosen field of the chosen draft holds: an edit that was
changed or discarded in between, and an approval that was cancelled, are never sent.
`ApprovalService` reads the approval before the transaction that saves an edit, so
`EditDraft` does not ask for it; `Approve` and `CancelApproval` do, in theirs.

### AutoPostQueue

`on` holds the columns `naver_enabled` and `coupang_enabled`; the column `enabled`
is their maximum in every writer, and so `Enabled` is derived. `retries` is the
column `max_retries`, with the highest value it has had: an operator sets it, a
pause and a restart turn a zero into a one, and a run keeps the value it began with
(`limit`). `event` and `post`
are the rows of the outbox and the inquiries behind them, `sync` the place of the
sync that found the inquiry, `ui[p]` an operator's call in progress, `sched[p]` the
scheduler object (`_started`, its timer), `run[p]` the locals of `run_once` and
`run_pending`, `lease` and `lock` the owners of the leader lease and of the
inquiries' locks. A lease and a lock that have expired are `None`; a claim or a send
for which the 600 s have passed is `stale`, and these flags are raised at any time:
no property depends on how long anything takes.

What is one step although the code makes several: `ensure_auto_post_scheduler`,
`_tick` with the head of `run_once` (they read the same columns twice), and the
release of the inquiry's lock with the end of its event. The pause of a run is two
steps, as it is two transactions, and that of a tick is one; that `pause()` reads
`max_retries` before it writes it back is part of its first. The server's
operators act one call at a time. A process that dies leaves its owner id behind
(`Dead`): ids are made of a process id and a UUID and never return. The sidecar's
own exit is a `Crash` of it. Taken as on: the switch of the automatic sync and the
environment's flags. Left out: the global `enable()` and `disable()` of the runtime
service, which only tests call. A staff post of the same inquiry is in `NaverPost`.

### PostReview

`versions` is `answer_versions` in order of the version number (the table's
UNIQUE makes the number the index), `review` the inquiry's row of `post_reviews`,
`corrections` the rows of `post_corrections` with the place of their HTTP
exchange. `job[p]` is a caller of `post`, `page[s]` what a session's panel last
rendered. `FinalizeAuto` and `RecordOutcome` are the pipeline's two ends,
`Claim`/`MarketTakesPost`/`PostSucceeds`/... a shorter `post` (its claims are
`NaverPost`'s), `Correct` is `correct` up to its call, `MarketTakesCorrection` the
marketplace, `CompleteCorrection`, `CorrectionFails` and `CorrectionTimesOut` what
follows, `ReviewedNoChange` the button, `SellerEdits` an edit in the seller centre,
`SyncLists` and `ProcessItem` the sync that notices it.

### Drafting

`step` is the workflow step `ANSWER_GENERATED`, `drafts` the rows of
`answer_drafts`, `gen[g]` a call of `generate_for_inquiry`, `staff[s]` a page with the
draft it loaded, `fresh` while the draft's `updated_at` is the one loaded. The
actions follow the function: `Ask`, `Start`, `TakeOver` (after `Age`, the 15
minutes), `Insert`, `ReadBack` and `ReadActive` (its own draft read again, then the
active one), `CompleteStep`, `SetStatus`, or `Stop`, `EndStep` and `SetAttention`.
The staff's are `Open`, `BeginEdit`/`SaveEdit`/`MarkReview`/`ReviewPending`, `BeginReset`/`ClearEdit`, `BeginApprove`/`CommitApprove`,
`CancelApproval`. What is written in a draft is `PROGRAM` or an edit. The inquiry is
not answered in the seller centre meanwhile: the edits of one that is
(`approval_service.py:134-148`, `214`) are not reviewed and not modelled.

### SyncRuns

The marketplace's list is read one inquiry per page, by position, while
inquiries appear, disappear and return, so that a page can skip or repeat one.
`run[r]` holds the locals of `sync_inquiries`; `BeginRun`, `ReadPage`, `PageFails`,
`Track`, `Release`, `Observe` (with `ClearSeen` and `CountMissing`) and `MarkDeleted` are
its steps. `Tick` is the scheduler's, with its lease and its lock; `BeginCall` and
`FinishCall` are a manual sync or a confirmation after a post. Leases and locks may
expire at any time and processes may die.

### DpsLookup

`enrich` is followed from its step (`StartStep`) through the announcement, the one
lock of the window, the look-up, the event cleared, to the step's end; `PlanWith`,
`PlanWithout`, `SafeRestart`, `SafeFail` and `Apply` are the generation's own writes
to the same step. `KeeperTick` to `KeeperEnds` are the keepalive's pass, which asks
whether a look-up waits (`KeeperChecks`), verifies the tab and clicks (`KeeperClicks`).
The look-ups of other inquiries meet these only at the lock and the event. A process
whose keepalive runtime is not started (`keepalive_runtime.py:143-147`) runs its look-ups
without the lock and is not modelled.

### LearningIndex

`rows` is the table, `file` the index: per row a vector, known by its text, and the
fingerprint recorded for it. `writer[w]` is a request that stores a Learning and runs the
hook after its commit (`Request`, `Spawn`), `flags` are the worker's `_running` and
`_pending`, `pass[t]` a pass of the worker or the repair (`ReadPopulation`, then
`SavePass` or `FailPass`, the embeddings in between). `ChangeSilently` is every write
that tells nobody. A version with another model finds the file `foreign` and refuses every
pass as long as it holds a vector (`RebuildRequired`, `RefusePass`); the rebuild by
hand (`scripts/rebuild_learning_semantic_index.py`) is not modelled. The repair sets
its next timer as its tick ends: if that thread does not start, `timer` stays unset
until a restart (`Finish`), and so it does if the first one fails.

### KakaoLock, Kakao

`lock` is the lock file: absent, half written, somebody's, or a dead process's. To
judge it and to remove it are two steps, and so are to read one's own pid and to
remove one's own lock. `claim` is the table of keys, `outbox` the file, `hand` the
lines the dispatcher has taken, `room` what was typed. File semantics are those of
Windows, where an open file is neither removed nor renamed: a release may thus fail
in silence (`RemoveFails`, `kakao_lock.py:118-121`) and leave the file of a process that
has gone on. (The unlink of a stale file that fails is tried again at once and is no
step of its own.) `excuse` counts for each key what explains a second line. An append
(`WriteLine`) is one step from the first byte to the close: two processes whose bytes
mix in the file are outside the model.

## 3. Runs

| Run | Instance (distinct states) | What it shows |
|---|---|---|
| `NaverPost` | 2 rows of 1 target, an operator and the pipeline, 1 text, 2 attempts, 1 retry (925 000) | `OneLiveAttempt`, `StatusAgrees`, `AtMostOneWrite`, `NoForgottenWrite`, `PostedIsPublished`, `Settled`, `ImplementsPostOnce`, and `IInv` of the proofs |
| `MarketPost` | 1 Coupang row, 2 texts, 2 drafts, 2 reviews, 2 attempts (2.4 million) | `SendsCurrentText`, and `IInv` with the second service |
| `AutoPostQueue` | server and sidecar, 1 event, 3 claims, no retry until a restart sets one (6.1 million) | `OneSender`, `FailedSendsBounded`, `SettledByItsClaim` |
| `AutoPostQueueLive` | server that crashes, an operator who switches, 2 claims, 1 retry (276 000) | `IInv`, `ClaimEnds`, `PendingServed`, `UnknownTurnsOff` |
| `AutoPostQueueSidecar` | server, and a sidecar that dies and returns, 1 claim (209 000) | `SendingEnds` |
| `PostReview` | pipeline, 2 sessions, 2 texts, 3 versions, 1 seller edit (1.1 million) | `TypeOK`, `PendingMeansPosting`, `OneCorrectionInFlight`, `RecordedWasShown`, `HistoryCatchesUp` |
| `Drafting` | 2 generators, 2 sessions, 1 edit, 2 drafts, 1 takeover (4.2 million) | `IInv`, `Seen`, `ApprovesCurrentText` |
| `SyncRuns` | 2 processes, 2 inquiries, threshold 2, 1 shift, 1 failing page, 1 death (432 000) | `IInv`, `MarkedHonestly`, `Mirrored` |
| `DpsLookup` | a session, the generation, the keepalive (53 000) | `IInv`, `PriorityUnlessPassed`, `LookupsEnd` |
| `LearningIndex` | 2 rows, 2 texts, 2 writers, 2 writes, 1 fault, files of either model (337 000) | `IInv`, `NoRequestLost`, `EventuallyIndexed` |
| `Kakao` | 2 senders of 2 keys, dispatcher, another user, 1 stale lock, 1 crash, 2 failures (665 000) | `IInv`, `OneUserUnlessBroken`, `QueuedOnceUnlessExcused`, `NothingLostUnlessFailed`, `OutboxDrains` |
| `AutoPostQueueStuck` | server that crashes | violates `SendingRecovered` (section 5) |

### Bounds, and why they are enough

*Posting.* Two callers and two rows make every conflict `acquire` knows (same row,
sibling row), two attempts a retry after each kind of outcome. `NaverPost` has one
text and no reviews; with two texts, two drafts and two operations on them
(`MaxReviews`: edits, approvals, cancellations) the rows are cut to one, as the text
of an attempt concerns that row alone. Its calls all post as staff do, since the
Coupang service always takes the text shown (`manual=True`): that the pipeline
sends the final answer of a Naver row at the claim is shown by the proof only. A larger
instance of `MarketPost` with a Naver row beside the Coupang row does not finish
in reasonable time; the proof covers any mixture.

*Queue.* Three claims let an event be lost to recovery twice while the first run
still holds it; with one claim the sidecar's run has every conflict over its send.
Operators and crashes are in the smaller liveness runs (`Switchable`, `Mortal`).
The first run starts with the switch off or as a previous server left it on; then
the restart saves `max_retries` 0 as 1, and three failed sends reach the bound.

*Review.* Three versions hold the first, a correction and a seller's edit, in every
order; two sessions are needed for one to act on a page the other has outdated.

*Drafts.* One takeover lets two generators work at once, and two drafts let one
replace the other's. The order of events that differ in nothing but names is
factored out by symmetry.

*Syncs.* The threshold is 2 (3 in the code), so that one shift is below it. Two
inquiries are what a shift needs: one disappears and the other moves a page up. A
repeated page (`PAGINATION_FAILED`) needs three, and that branch of `ReadPage` is
not reached.

*Index, chat.* Two writes can be one before and one in a pass; passes and spawned
threads fail as often as they like, the process dies once. Two keys tell a line from another
one, two senders compete for one key.

Deadlock is not checked: an inquiry that is posted leaves nothing to do, and the
bounds end the rest.

### Fairness

Steps of a thread that is alive are taken in the end, since they are code that
goes on (`WF`); clocks advance; and beyond that, per run:

- `AutoPostQueue*`: a sync that began creates its event unless its process dies; the
  automatic sync completes again and again, which ensures the scheduler and runs it
  (`naver_auto_sync_scheduler.py:307-314`); the server is started again after a crash.
- `SyncRuns`: the timers tick, the server is started again, leases and locks expire.
- `DpsLookup`: the window's lock is a lock of `threading`, given to whoever waits often
  enough (`SF` of `Acquire`).
- `LearningIndex`: a timer that is set ticks; a pass that may start again and again
  does get the lock of the index (`SF`); of the repair's passes that are not refused,
  any may fail, but not all of them for ever (`SF` of `SavePass("repair")`: an endpoint
  that is down for good, or turns down one row for good, is excluded). What the code
  itself makes permanent, the refusal of another model and a timer that was not set,
  is not assumed away: `EventuallyIndexed` names both. Deaths are bounded by `MaxFaults`.
- `Kakao`: senders, the dispatcher and other users of the window go on, and a process
  that polls the lock takes it when it stays free. A file that a failed release left
  behind gets 600 seconds old, though every turn of the dispatcher gives up after 300:
  one that comes back again and again finds it stale (`SF` of `TryLock(Dispatcher)`).
- `PostReview`: the sync runs for ever.

Operators, sidecars, customers and marketplaces owe nothing, and `NaverPost` has no
liveness property: what ends a send there is the queue's recovery.

## 4. Proofs

For every value of the constants that satisfies the named assumptions. These say of
what kind a constant is, and that there are finitely many processes where a theorem
counts them, and finitely many inquiries where a sync pages through them:

| Theorem | Statement |
|---|---|
| `PostingProofs!Inductive` | `Spec => []IInv` |
| `TypeCorrect`, `StatusesAgree`, `OneLive`, `Published` | `[]TypeOK`, `[]StatusAgrees`, `[]OneLiveAttempt`, `[]PostedIsPublished` |
| `OneWrite`, `NothingForgotten` | `[]AtMostOneWrite`, `[]NoForgottenWrite`, which are stated under `TrustErrors` |
| `SettledForGood`, `CurrentText` | the action properties `Settled`, `SendsCurrentText` |
| `Refinement` | `Spec => ImplementsPostOnce`, under `TrustErrors` |
| `MarketInductive`, `MarketOneWrite`, `MarketSettled`, `MarketCurrentText`, `MarketRefinement` | all of these for `MarketSpec`: rows of both marketplaces in one database |
| `AutoPostQueueProofs!Inductive`, `TypeCorrect`, `OneSends` | `[]IInv`, `[]TypeOK`, `[]OneSender` |
| `SettledByOwner` | `Spec => SettledByItsClaim` |
| `SendsBounded` | `[]FailedSendsBounded` |
| `DpsLookupProofs!Lookups` | `Spec => []IInv` |
| `Priority` | `Spec => PriorityUnlessPassed` |
| `LearningIndexProofs!Inductive`, `RequestsServed` | `[]IInv`, `[]NoRequestLost` |
| `SyncRunsProofs!Inductive`, `OneCollects` | `[]IInv`; two runs in `Collecting` are the same run |
| `MarksHonestly` | `[]MarkedHonestly` |
| `DraftingProofs!OneGenerator`, `GenerationsSeen` | `[]IInv`, `[]Seen` |
| `Inductive` | `[]Inv`, the invariant behind both |
| `ApprovesAsSaid` | `Spec => ApprovesCurrentText` |
| `PostReviewProofs!Inductive`, `TypeCorrect` | `[]IInv`, `[]TypeOK` |
| `PendingIsPosting`, `OneInFlight`, `OnlyTheShown` | `[]PendingMeansPosting`, `[]OneCorrectionInFlight`, `[]RecordedWasShown` |
| `KakaoProofs!Inductive`, `TypeCorrect` | `[]IInv`, `[]TypeOK` |
| `OneUser`, `QueuedOnce`, `NothingLost` | `[]OneUserUnlessBroken`, `[]QueuedOnceUnlessExcused`, `[]NothingLostUnlessFailed` |

*NaverPost.* The properties are not inductive alone. That at most one attempt at a
target is live follows from `acquire`, which looks at the statuses of inquiries and
not at attempts; so `StatusAgrees` must come with it. It is preserved by the guarded
updates because a caller in flight has an attempt of its own that only the
recovery can have touched (`JobOwns`), and because a single live attempt decides its
inquiry's status. That a posted row is published needs what a reply says of the
marketplace (`ReplyInv`); that nothing is written twice needs that a failed attempt
has nothing left on its way and that a write belongs to an attempt (`WriteInv`). The
conjunction is `IInv`; one lemma per action shows that it is preserved. For the
refinement each action maps to a claim, a write, a finish, a release, a giving up
of several targets, or to no change; the lemmas on `PhaseIn` say how an appended
or a settled attempt moves its target. For `SendsCurrentText` the drafts of an
inquiry are only added to and rewritten in place (`DraftsGrow`), so that the draft a
caller chose is there at the claim (`JobReads`); that its field still holds the text
is the claim's own check, and what is shown follows case by case from how the field
was chosen.

*MarketPost.* Each step of the Coupang service is a step of `NaverPost` or a read
that moves a caller's locals in a way the invariant does not see; so the invariant,
the action properties and the refinement carry over without a second argument.

*AutoPostQueue.* `OneSender` must survive two leaders, an expired lock and a recovered
claim; what remains is the inquiry's own status. A run that sends has its inquiry
`POSTING`, or `POST_UNKNOWN` once recovered (`RunInv`), and acquiring needs neither: so a
second run cannot begin to send. For `SettledByItsClaim` the owner written in the
event must belong to the very claim of that run: `ClaimInv` relates the claim's
count in the run and in the event, and says that events out of processing have no
owner, nor events that are not created yet. For `FailedSendsBounded` the sends that
failed, the one on its way and the runs that passed the check and have not acquired
yet are paid for by the retries and the processes (`Paid`): a run passes the
check only while no send is on its way and a retry is left, so that what it adds is
paid for by the processes alone; acquiring and failing only move the charge on. The
retries that count are the highest value of the setting, which no run's limit
exceeds (`LimitInv`).

*DpsLookup.* `IInv` says that the look-ups whose step nobody else has ended are one at
most (`OneLookupUnlessOrphaned`), that the lock belongs to who is at work (`LockHeld`)
and that an event that is not set was cleared by a look-up that ended while the
others waited (`EventSpeaks`). From the last one follows what the keepalive's look at the
event is worth until its click (`CheckSpeaks`), and why `PriorityUnlessPassed` needs its
two exceptions.

*LearningIndex.* `NoRequestLost` speaks of the moment when no pass is to come; what is
inductive is that each owed row is settled or has a pass to come (`OwedInv`). A row
counts as settled when the index holds its text, when a true fingerprint cannot keep
it out (`PrintsTrue`), and when a pass that is embedding has seen the row as it now
is: that pass will replace the file (`OnePass`: no other one will). A request that
finds the slot claimed may rely on it because a claimed slot has a thread, or a
writer about to start one (`SlotHeld`), and only one (`OneClaim`).

*SyncRuns.* A run takes the lock as it begins and gives it back as it stops collecting;
the lock of a run that died is `Dead` until its time has passed, and `Dead` never
collects. `MarkedHonestly` counts: of an inquiry that was never gone, the streak and
the runs that owe it a count (`Owing`) are at most the disappearances of others
(`Counted`). A run comes to owe a count when the inquiry's place in the listing falls
behind the page it reads next (`Place`, `Owes`), and reading a page never does that
(`RankReaches`: every page up to the last has an inquiry). A disappearance does,
once for the run that collects, and there is only one (`OneCollects`). When the run
counts, what it owed becomes the streak.

*Drafting.* A generation at work is paid for by the step that is `RUNNING` or by a
takeover. `Seen` speaks of the moment when nobody is at work; what is inductive is
that, while the inquiry is `NEW`, a generation that began is somebody's turn
(`Turns`): of one at work under the running step, of one that has yet to set the
status, or of whoever made the active draft final. That chain breaks once a late
generator reads its own draft as replaced (`replaced`), and `Seen` excepts it
(section 5). For `ApprovesCurrentText` a session
on its way to approve holds the text of its draft for as long as the draft is as the
session loaded it (`Says`), and the guarded update of `approve` asks for just that.

*PostReview.* A reply to a correction changes the row the session remembers, and a
crash or a closing may have come in between: so a session that waits has a row of
its own that is still `POSTING` (`Waiting`). The index keeps one row unresolved, and
that row is the last (`OneActive`); a request on its way belongs to it, hence
`OneCorrectionInFlight`. What is recorded as shown comes from the draft, a listing or
a correction, each by way of somebody's locals (`JobCarries`, `Carried`).

*Kakao.* These theorems count. The processes between creating and giving back the lock
file are paid for, one by the file that is there, if its process is at work, and one by
each file of a process at work that was removed (`HeldPaid`): a file left behind by a
failed release pays for nobody. An empty file is open in the one process that is making
it, and cannot be taken from it (`FileSpeaks`). Of a key,
the lines written and the senders that may still write one are paid for by the
key's row and by the excuses (`LinesPaid`): a claim pays for its sender, a takeover or
a release after the line was written adds an excuse. The lines of `NothingLostUnlessFailed`
are counted in the two sequences they move through (`CountAppend`, `CountTail`); taking
the file overwrites the dispatcher's list, and what makes that harmless is that the
list is empty whenever it does (`HandsFree`).

Every safety property that a passing run checks is a theorem too, invariants and action
properties alike, as are the two refinements. Model-checked only are the liveness
properties (`ClaimEnds`, `PendingServed`, `UnknownTurnsOff`, `SendingEnds`,
`HistoryCatchesUp`, `EventuallyIndexed`, `OutboxDrains`, `Mirrored`, `LookupsEnd`): what
follows from fairness is out of the prover's reach.

## 5. Disagreements

`AutoPostQueueStuck` shows one with a run. The server dies in a send; a restart turns
the switch off, recovery of stale sends is skipped while it is off
(`naver_auto_post_scheduler.py:622`), and it cannot be turned on while something is
`POSTING` (`auto_post_runtime_service.py:70`). The messages of the recovery
(`naver_auto_post_scheduler.py:639`, `auto_post_pipeline_service.py:407`) speak of a
restart. The run assumes that the server stays up afterwards.

The following are interleavings or sequences of the models in which the code does
something else than a text of the repository says or an operator would expect. They
are steps the models have; the properties above are stated so that they hold in
spite of them.

*Posting.*
- A failed inquiry is to be sent again by an explicit retry only
  (`docs/naver_operations_finalization.md:124`). `post` checks that on a read before
  the claim (`naver_post_service.py:295-304`), and `acquire` takes an inquiry that has
  failed since like one never posted.
- "An explicit operator post uses the text the operator is looking at"
  (`answer_repository.py:26`). The claim hashes the field chosen at the read, of the
  draft read then (`naver_post_repository.py:93-133`), without `is_active`: a draft
  generated in between, or a first edit saved after the program's answer was read, does
  not refuse it (`FINAL_ANSWER_CHANGED`), and the older text is sent. These are
  the two cases `Current` excepts.
- The Coupang client takes a 5xx for a certain failure, and `DUPLICATE_REPLY`, which
  says that the inquiry is answered, becomes `POST_FAILED`. An exception other than
  `CoupangPostError` leaves the row `POSTING` until the recovery.

*The switch.*
- Saving the panel's interval writes the switch as the page rendered it, and for both
  markets (`auto_post_panel.py:55`, `auto_post_repository.py:86-111`): a market the
  operator never turned on may be on.
- A sync reads the switch, the operator turns it on and unblocks the outbox, the sync
  inserts its event as blocked (`inquiry_sync_service.py:490`,
  `auto_post_event_repository.py:277-287`): it stays blocked while its market is on.
- `int(settings.get("max_retries") or 1)` reads a zero as absent
  (`auto_post_runtime_service.py:238`, `naver_auto_post_scheduler.py:586`): an operator
  who saved "실패 재시도 0" (`auto_post_panel.py:42-49`) gets one retry after the next
  pause or restart.
- A run that read the switch and the scope claims an event after the operator turned
  its market off (`naver_auto_post_scheduler.py:328`).

*Review.*
- A closing on a stale page takes the version number a correction under way would be
  recorded under (`post_review_repository.py:221-245`, the proposed number plus one):
  the insert fails, and the correction stays `POSTING` although the marketplace shows
  it. So does one whose server dies.
- `create_review_after_post` sets the current version back to the one posted, and
  a later insert may collide. Hence the hypothesis of `HistoryCatchesUp`.
- A closing marks the version it shows `POSTED`, one that was never shown included;
  `RecordedWasShown` speaks of applied corrections.

*Drafts.*
- An answer generated while another is approved is not to take its place
  (`answer_repository.py:219-221`), but whether there is one is decided when the draft
  is inserted; what the staff approves later compares `updated_at` of its own draft
  only, so that an approved answer need not be the active one.
- A step's owner has no token: a generator that outlived its lease ends the step of the
  one that took it over, and a third may start beside it. If the one that took over has
  replaced its draft by then, it ends the step and sets no status
  (`answer_service.py:4481-4491`, `4742-4747`), and the other, whose step is gone, is refused
  both its end and its failure: the inquiry stays `NEW` with an active draft and nobody
  at work, outside of what the staff's queue selects (`4919-4921`).
- A step skipped by a policy block is not started again; one whose process died is
  `RUNNING` until the lease ends.
- `finalize_auto` takes the program's text even if the staff has saved an edit.

*Syncs.*
- A confirmation after a post and an operator's click are syncs like any other, and count
  towards the streak of missing inquiries; "Three costs half an hour of latency"
  (`naver_inquiry_sync_service.py:46-52`) supposes that only the timer's runs do.
- The reconciliation runs after the store's lock was released, so two of them may
  count at once; `mark_source_deleted` does not read the streak again.

*DPS.*
- "gives the CDP lookup path priority" (`keepalive_runtime.py:3-5`, `37-39`) holds for one
  look-up: the event is shared, and the first of two that ends clears it for both.
- The keepalive does not check the event "immediately before" its click
  (`keepalive_runtime.py:38-39`): it verifies the tab in between
  (`agent_server.py:1030-1042`), and the click overtakes a look-up that announces itself
  in that window.
- A look-up that dies, or whose result cannot be stored, leaves the step `RUNNING`, and
  later look-ups of that inquiry are refused.
- A draft marked stale by a new date (`review_workspace.py:2985-2989`) is posted like
  another.

*Learning.*
- The hook of `LearningRepository` "is invoked OUTSIDE the transaction on purpose"
  (`learning_repository.py:288-293`), but `_insert_common_learning` runs it inside its
  caller's. The pages that manage common Learnings make a repository without the
  hook, although "the moment it is saved" is promised
  (`learning_index_repair_scheduler.py:3-4`); the repair makes up for it.
- Whatever goes wrong, "the model was changed" included, "the next sync picks the row up"
  (`learning_index_sync_hook.py:5-8`). After a change of the model no sync does: each one
  is refused (`learning_semantic_sync.py:233-245`, `323-324`) until somebody rebuilds the
  index by hand. "Never raises" (`learning_index_repair_scheduler.py:116`) holds for the
  pass but not for the timer set in its `finally`: if it does not start, `_started` stays
  set, later calls of `start` return early (`101-103`), and the repair has ended for good.

*Chat.*
- A room that does not open drops the rest of the batch; the comment expects the retry
  to take over (`kakao_dispatcher.py:215`), which only encloses the sending.
- "동일한 문의는 카카오톡으로 한 번만 알린다" (`kakao_notify.py:577`): a key whose sender
  timed out, or failed after its line was written, is queued again.
- Removing a stale lock is a second look at the file: two waiters may both find it, and
  the slower one removes the lock of the faster. `MaxBroken` counts these.

## 6. What is not modelled, and the plan

`PROJECT.json` lists every component with its status, and every hazard with the
properties that cover it or the reason why none does. Not modelled for good:

- What an answer says: the rules over wording, product facts, similar cases and
  language models (`services/*knowledge*`, `spec_attributes.py`, `semantic_*`, `gpt_*`,
  `answer/`). They are functions of texts to texts; the models choose their
  outcome. This is the larger part of the program's lines.
- The automation of browser and desktop pages (`dps_ui_automation.py`, `cdp_backend.py`,
  `chrome_tab_manager.py`): its states belong to the browser.
- The look-up jobs of `dps/agent_server.py`: `LEGACY_AGENT_DORMANT`
  (`services/dps_agent_client.py`) keeps that server from starting; its monitor, which
  the production path reuses, is in `DpsLookup`.
- Layout, lists, search, configuration, sign-in, migrations and scripts.

The plan for what is left:

1. Proofs: for each liveness property the safe half of its argument (which step is
   always possible, and what it brings nearer), as invariants that a theorem states.
2. Compositions: that the queue's view of an inquiry (`post`) is implemented by
   `NaverPost`; `SyncRuns` with the creation of events in `AutoPostQueue`.
3. The remaining workflow steps, and the pages of the Coupang sync.
