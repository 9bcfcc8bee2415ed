# Verification of Croquito

Croquito turns a survey sketch or a survey collected in the field into a reviewed
scene, a DXF package, a measurement bulletin and a budget. This directory holds
TLA+ specifications of the protocols that carry that work, TLC configurations
that check them and TLAPS proofs:

- the synchronisation of a survey collected offline (phone, network, routes);
- one job: its review and scene revisions, approvals, traces, packages, chat;
- the photos of a job as field evidence, read by AI providers on request;
- one valuation round and one estimate round, from sources to workbook;
- the worker's command queue under all of them, and the outbox of domain events.

Paths below are relative to `src/`; `main.py` is
`services/api/src/croquito_api/main.py` and `local_queue.py` is
`services/worker/src/croquito_worker/local_queue.py`.

## 1. Inventory

| component | state it keeps | operations | talks to |
|---|---|---|---|
| Survey routes (`main.py` 20528-21030) | tables `survey_records`, `survey_operation_records`, `survey_media_records`, `idempotency_records` | batch of operations, state, presign, confirm, complete | phones (HTTP), bucket (signed URLs), worker queue |
| Field outbox (`apps/field/src/outbox`, `storage`, `domain`) | IndexedDB: survey, operations with seq and status; memory: undo stack | collection commands, undo, conclusion | sync engine through the repository |
| Sync engine (`apps/field/src/sync`) | memory: conflict, server version, completed, the pass under way | pass, conflict decision, refresh of the panel | outbox, survey routes, bucket |
| Jobs, revisions, approval (`main.py` 8921-13564) | jobs, review and scene revisions, approvals, exports, traces, chat turns | ingestion, element acts, decisions, rectification, annotation, approval, trace, package, chat | worker queue, bucket |
| Field evidence (`main.py` 19795-20526, `local_queue.py` 3589-3850, `survey_photo_analysis.py`) | links, photos, analyses, confirmed values; documents in the bucket | link, unlink, attach, confirm, reading, classification, value | worker queue, bucket, providers |
| Valuation rounds (`valuation_rounds.py`, `packages/valuation`) | root row, plates, append-only revisions | plates, extraction, decision, shortlist, code acts, identity links, bulletin, approval, export | worker queue, bucket |
| Estimate rounds (`estimate_rounds.py`, `precedents.py`) | root row with the cascade, append-only revisions, precedents | sources, regime, suggestions, decisions, closures, revocations, estimate, approval, export | event outbox, bucket |
| Worker command queue (`local_queue.py`, `push_server.py`) | status columns of the rows above | one handler per command: claim, work, outcome | database, bucket, providers |
| Domain event outbox (`domain_event_publisher.py`) | `domain_events` with `published_at` | record with the act, list, publish, mark | event bus |
| AI providers (`providers.py`) | a budget per delivery | call, retry, reserve arm | external services |
| Capture on the phone, geometry and extraction, survey export, kits and templates, catalogues and metrics, identity, office web app, infrastructure | none, or none of a protocol of their own | see `PROJECT.json` | |

What makes each correct:

- **Survey routes.** Every phone has a log of operations numbered 1..n; a batch
  enters whole and in order or not at all; an acknowledgement is for ever; one
  Idempotency-Key has one answer; a survey closes only over evidence that is in
  the bucket, and a closing that is reported has its export published; a closed
  survey does not change.
- **Outbox and engine.** Nothing collected is lost or left behind for ever;
  numbers are never shared; what the phone holds for acknowledged is where the
  phone put it; once all is sent the server shows the phone's survey; what the
  person gave up in a conflict does not come back; a conclusion closes the survey.
- **Jobs.** Revisions form chains without forks; a reference names one element
  for ever; a scene that rests on a decision taken back is blocked; a trace lands
  on the heads it was accepted over; a package carries an approved revision.
- **Reviews.** What is drawn comes from the decision in force or is held back;
  nothing is drawn twice; lines agree with the decisions on their proposals, a
  calibration with the scene it names; what a person recorded travels to every
  later revision.
- **Field evidence.** A confirmed value was read in the photo that was confirmed;
  a budget is spent by calls and by nothing else; a published analysis ends.
- **Rounds.** A workbook leaves only with a content somebody signed, and in an
  estimate somebody other than its builder; sources, codes, precedents and
  signature agree; what somebody declared complete is what counts as complete; a
  bulletin that no longer describes its worksite is said to be stale.
- **Worker queue.** Paid work is done once per command; a late outcome changes
  nothing it should not; every command gets its outcome; an outcome is final.
- **Event outbox.** Every event recorded is delivered at least once, and never
  before those its act had seen.

What is hard: the API runs as several instances over PostgreSQL at READ
COMMITTED, with unique constraints as the only arbiter of most acts; messages are
published after the commit; a document is read before a transaction and written
in it; the phone repeats calls whose first attempt may still be running, restarts
at any point, and renumbers its operations after a conflict; the worker queue
delivers at least once, and again while the first delivery runs; a worker may die
between any two of its transactions. The list with lines is under `hazards` in
`PROJECT.json`.

## 2. Modules

| module | role |
|---|---|
| `SurveyServer` | the five survey routes, one action per transaction boundary of each handler |
| `SurveyLedger` | what the routes promise the phones: a log per phone, extended whole, never shortened |
| `FieldSync` | outbox, engine and network composed with the handlers of `SurveyServer` (`INSTANCE`) |
| `CroquiJob` | one job: ingestion, review and scene chains, approvals, traces, packages, chat, and the worker that serves them |
| `JobReview` | what the acts on one job write into its next review and scene: decisions, side columns, calibration, accepted lines, the rectangle solved again, the trace, the refresh of proposals |
| `FieldEvidence` | one photo of a job: routes, bucket, queue, worker, providers |
| `CodePackage` | what a code set says of one reading, and the acts on it (pure operators) |
| `ValuationRound` | one valuation round: plates, extraction, revisions, code packages, links, bulletin and its stamp, overlay, and the worker; extends `CodePackage` |
| `EventOutbox` | the table of events and the runs of the relay |
| `EstimateRound` | one estimate round, composed with `EventOutbox` (`INSTANCE`) |
| `SurveyServerProofs` | theorems about `SurveyServer`: its log, and what its answers promise; the step refinement of `SurveyLedger` |
| `FieldSyncProofs`, `FieldPacketProofs` | theorems about `FieldSync`: the operations and their numbers; the packets, and the closed survey |
| `CroquiJobProofs`, `JobReviewProofs`, `FieldEvidenceProofs`, `ValuationRoundProofs`, `EstimateRoundProofs` | theorems about the module each is named after; the last one about `EventOutbox` too |
| `MC...` | constants of the runs: requests, scenarios, symmetry |

Three conventions hold in every module. A handler is split wherever another
process can commit, or put an object in the bucket, between its reads and its
writes; reads next to each other with no write of others between them that a
property tells apart are one step. The writes of a transaction appear at its
COMMIT, where its unique constraints are checked. And the ORM writes only the
columns that changed in the object the handler had read, so a version is the
value read plus one and an increment can be lost, as in the code. Identity,
tenancy, audit rows and the wording of answers are left out.

### SurveyServer

One survey of one tenant. A *worker* is an API instance running one handler: the
handlers are `async` functions without an `await` around synchronous sessions, so
two of them interleave only when they run on different instances.

| handler | actions |
|---|---|
| `submit_survey_operations` | `SubmitBegin` (validation, replay, status) · `SubmitCreate` (INSERT of the survey) · `SubmitCompare` (stored ids, last seq, contiguity) · `SubmitWrite` (flush, idempotency record, commit) |
| `get_survey` | `GetSurvey` |
| `presign_survey_media` | `PresignBegin` · `PresignSign` |
| `confirm_survey_media` | `ConfirmBegin` (HEAD of the object) · `ConfirmAccept` (commit) · `ConfirmPublish` (message, or back to PRESIGNED) |
| `complete_survey` | `CompleteBegin` · `CompleteGate` (media) · `CompleteClose` (commit) · `CompletePublish` |

`Crash` ends any of them; the bucket takes a PUT while the URL lasts
(`PutObject`, `UrlExpires`). The variables are the tables (`survey`, `stored`,
`media`, `idem`), the bucket (`url`, `blob`), the handlers (`txn`), the answers
and the counts of messages (`exports`, `analyses`).

- The flush that writes and the commit after it are one step: the rows stay
  locked in between. The INSERT of the survey waits for a concurrent one.
- `Written` overwrites version and packet but never the status, and
  `CompleteClose` only the status.
- A packet (`SurveyPacket`) is a record of the operations it reflects, whether it
  declares the conclusion, and the digests it references.
- Sessions do not expire their objects at commit, so answers after a commit speak
  of the record as it was read.
- The declared size and type of a media are part of its digest here. In the GCS
  profile the checksum is not compared by the route; `blob` then stands for
  objects of the right size.
- A refused publication (`QUEUE_TRANSPORT_ERRORS`) is possible at every
  publication; with `queue_url` unset the publications do nothing, which the
  model does not include.
- `crossed` is a history variable: a batch that added a photo or wrote the packet
  committed over a closing it had not seen, or the other way about (`LandsOnClosed`,
  `ClosesUnread`). No code reads it; `ClosedWithEvidence` speaks of the closed row
  until then.

### FieldSync

| code | actions |
|---|---|
| `applyCommand`: read history, draw seq / `saveSurveyWithOperation` | `Collect`, `ConcludeSurvey`, `UndoLast` / `SaveCommand` |
| `runSync` | `SyncSurvey` (reads the survey), `NoToken`, `SendBatch` (reads the queue, marks it pending, sends), `SubmitAcked`, `Conflicted`, `Refused`, `StateRead`, `SurveyCompleted`; `Proceed` is the loop over the media and the four conditions of the completion |
| `uploadOne` | `Presigned`, `Upload`, `UploadRefused`, `MediaConfirmed`, `MediaRefused` |
| `withRetry`, `apiClient` | `TransientAnswer`, `NetworkError` (through `Again`, `GiveUp`), `Unauthorized` |
| `applyConflictDecision` | `ResolveConflict` (reads), `KeepLocal` or `AcceptServer` (writes), `SyncDecision` (its pass) |
| closing the app | `AppClosed`: memory goes, IndexedDB stays |

Each await of the engine is a boundary between actions. A request may be
delivered late, after the phone gave up on it (`Deliver` takes any request in
`net`); a request whose connection the server dropped is noticed at no cost.
`NewAttempt` tells attempts of the same call apart, so an answer is taken only by
the attempt it answers.

`SharedQueue` is the set of builds a run looks at; `shared` is the one a behaviour
has and never changes. `TRUE`: passes and commands take turns in one queue, which
is what the comment of `SyncEngineDeps.queue` says. `FALSE`: each has its own,
which is how `FieldApp.tsx` builds them. `AckedInPlace`, `TurnsConverge`,
`ConcludedIsClosed` and the part `SeqUnique` of `WellFormed` speak of the first
build only; the other properties of both. `AckedInPlace` speaks of a phone that has
superseded nothing (`Pristine`), `DecisionHolds` of a behaviour with at most one
fault; section 6 says what happens beyond. `CommandDuringPass`
shows what the built one does to `PacketConverges`.

A conflict may come back at every pass, and each decision sends batches. `Reserve` is
how many batches a phone keeps for after a decision, so that `MaxBatches` ends the
passes made under an open conflict and never the ones that follow its decision.

Left out: progress counters and phases of the screen, `refreshLocal` (display
only), media missing from the phone (the app never deletes them), batches that
exceed the contract's size. A 401 in a media call counts there as a failed call,
as `uploadOne` treats it.

### SurveyLedger

The promise to the phones. `SurveyServer!Ledger` maps the table to one sequence
per phone and the acknowledgements to a set of operations; `ImplementsLedger`
says every step of the routes appends a run of new operations to one phone's
sequence and acknowledges only recorded ones, or stutters.

### CroquiJob

Each request is served by a slot of `Request`, each delivery by a slot of `Worker`.

| code | actions |
|---|---|
| first SELECTs of every act, `base_version` | `Begin` |
| `_next_element_ref`; `_resolve_scene`, `_annotation_target`; `create_export`'s row | `LookForRefs`; `LookAtScene`; `LookForExport` |
| `create_revision`, `declare_element`, `revoke_element` | `CreateRevision`, `DeclareElement`, `RevokeElement` |
| `declare_review_element`, `revoke_review_element` | `DeclareReviewElement`, `RevokeReviewElement` |
| `submit_review_decisions`, `rectify_review_decisions` | `SubmitReviewDecisions`, `RectifyReviewDecisions` |
| `annotate_dimension`, `approve_scene` | `AnnotateDimension`, `ApproveScene` |
| `create_trace_solve`, `create_export`, `create_chat_turn` | `CreateTraceSolve`, `CreateExport`, `CreateChatTurn`, then `Enqueue` after the commit |
| `create_job` repeated | `RepeatCreateJob` |
| `_handle_upload` | `CheckIngested` · `Ingest` or `MarkFailed` |
| `_handle_trace_solve` | `Claim` · `Solve` · `Land` |
| `_handle_export` | `Claim` · `Build` · `FinishExport` |
| `_handle_chat_turn` | `Claim` · `Ask` · `AnswerTurn` |

`Deliver` hands a message to a free worker, the same one again if it was not
acknowledged; `Crash` leaves rows and message as they are.

- The packet has one reading, and a decision is known by the review version that
  records it; a reference by its ordinal. A reference cited anywhere in either
  chain counts as given out (`Cited`), as `_next_element_ref` scans it.
- No job of the hosted worker carries a rectangle request, so only traces and
  reviewers write scenes. What the browser adds to a scene (`create_revision`)
  carries no reference.
- A failure of the store is an exception: the message stays, the row too.
- Replays of a trace or chat request return the stored response and publish
  nothing; those of `create_job` publish again.

### JobReview

The same two chains as `CroquiJob`, looked at for what the revisions hold. Each
writer is a slot of `Request`: a route, the trace that lands, or
`refresh-proposals`. `Begin` reads the review (and, for a refresh, the scene that
review points at), `LookAtScene` the latest scene, the act's own action commits
(`Extend`), and `Refuse` stands for a body its guards refuse.

| code | actions |
|---|---|
| `submit_review_decisions`, `rectify_review_decisions` | `SubmitReviewDecisions`, `RectifyReviewDecisions`, with `SolvedReview` and `SolvedScene` for `_resolve_scene_after_review_change` |
| `declare_review_chain`, `mutate_review_witnesses`, `mutate_review_field_observations` | `DeclareReviewChain`, `MutateReviewWitnesses`, `MutateReviewFieldObservations` |
| `declare_`, `revoke_`, `relabel_review_element` | `DeclareReviewElement`, `RevokeReviewElement`, `RelabelReviewElement` |
| `create_proposal_calibration`, `decide_proposal`, `decide_proposal_batch`, `correct_proposal_shape` | `CreateProposalCalibration`, `DecideProposal`, `DecideProposalBatch`, `CorrectProposalShape` |
| `annotate_dimension`, `annotate_note_endpoint`, `create_revision` | `AnnotateDimension`, `AnnotateNote`, `CreateRevision` |
| `_handle_trace_solve`, `_insert_traced_revisions` | `LandTrace` |
| `refresh_proposals`, `insert_next_review_revision` | `RefreshProposals` |

- Geometry is what the properties tell apart: the `frame` (who made the exact
  lines, and the values that shaped them), the lines accepted from proposals (and
  whether a later act still recognises them as accepted), what is drawn of which
  reading under which decision, and two critical issues. `revalidate_calibration`
  solves the anchors again: same frame and same snapshot give the same transform,
  another frame or a snapshot that drifted does not. A refresh that recomputes
  the same proposals keeps the snapshot.
- A trace is one slot from its acceptance to its landing, with nothing of the
  queue: `CroquiJob` has the command. Two traces of one job are over the same
  lines of the drawing, so that the anchors of one exist in the other.
- A batch of decisions has one reading. `rectangle` is the part of the rectangle's
  readings that is still undecided at the start. Bodies are abstracted to a value
  (`short`, `long`, or a note without an element); observations are of one photo
  with a draft.
- Left out: rejected suggestions of elements, the shadow of confidence, blockers,
  `trace_acceptance_json`, replays by Idempotency-Key.

### FieldEvidence

One photo, of a survey linked to the job or attached to the job itself.

| code | actions |
|---|---|
| first reads of a route, gates, `base_version` | `Begin` |
| `link_survey_to_job`, `unlink_survey_from_job` | `CommitLink`, `CommitUnlink` |
| `presign_job_field_photo` / PUT under the URL | `CommitPresign` / `Upload` |
| `confirm_job_field_photo` | `LookAtObject` (HEAD, bytes, digest) · `CommitPhoto` |
| `request_field_photo_reading`, `..._classification` | `CommitAnalysis` · `Enqueue`; `RepeatRequest` for the same key again |
| `confirm_field_photo_value` | `LookAtReadings` · `CommitValue` |
| `set_ai_processing_entitlement` | `SetEntitlement` |
| `_handle_field_evidence_analysis` | `Check` (status) · `Claim` (RUNNING, media, gates) · `Fetch` (bytes, digest) · the pass · `Store` (document) · `Settle` (status) · `Return` (acknowledged) |
| `RetryingProviderAdapter`, `BudgetedProviderAdapter`, `run_provider_pass` | `Reserve` · `CallAnswered` or `CallFailed` (through `Released`, `GiveUp`) |

- The SELECT of the status and the UPDATE to RUNNING are two steps: no lock and no
  condition ties them.
- A delivery has a budget of its own, as `build_real_provider_suite` makes one;
  its unit is the reservation of one call. The retry deadline is wall-clock time
  and is modelled as giving up at any attempt; `Ceiling` is the limit on attempts.
- The upload URL stays good for some minutes whatever happens to the row, so
  `Upload` may replace the object at any time after the presign; in a survey the
  photo is CONFIRMED from the start. The other idempotent replays return the
  stored answer and change nothing.

### ValuationRound

| code | actions |
|---|---|
| every route: root and `base_version`, head and plates, second head of `append_revision` | `Load` · `Read` · `Carry` |
| `associate_valuation_plate` | `CommitPlate` |
| `create_valuation_plates_extraction` and the singular route | `CommitExtraction` · `Enqueue`; `Replay` |
| `decide_valuation_takeoff_items` | `CommitDecision` |
| `get_valuation_code_suggestions`, its recompute | `CommitSuggestions` |
| `decide_valuation_item_code`, `close_valuation_item_package`, `revoke_valuation_item_code` | `CommitCode`, with `Confirm`, `Deny`, `Close`, `Revoke` of `CodePackage` |
| `declare_valuation_identity_link` | `CommitLink` |
| `build_valuation_calc`, `approve_valuation_round`, `export_valuation_bulletin` | `CommitBulletin`, `CommitApproval`, `CommitExport` |
| `_claim_round_extraction` | `Claim`, `NothingClaimed`, `ClaimCommit` |
| `_extract_round_plate`, `_write_round_extraction` | `Extract` · `PublishRead` · `Published` or `NotPublished` |
| `_settle_round_extraction` | `SettleRead` · `SettleCommit` |
| `_handle_takeoff_overlay_rerender` | `Draw` · `Store` · `DeclareRead` · `DeclareCommit` |

A packet is known by the version of the revision that wrote it, so equal numbers
mean equal digests. `Locked` is the row a worker's open transaction holds.

- One reading of each plate is looked at: decided, given codes, declared to be the
  element of another plate's reading. The others are taken as priced, and the
  catalogue as installed. A batch of codes has one code, as the route builds it.
- A bulletin (`Measured`) is the packets it was measured from, the lines
  `<<plate, code>>` it prints, and the readings it counts as zero. A matrix posted
  with the build is known by the codes it takes from the first plate's reading.
- `stamp` is the digest stored beside the bulletin; `Sources` is what goes into the
  digest and `Stale` what the reading of a round derives from the two.
- `declared` records, for `DeclarationsStand`, what was declared complete;
  `crossed`, for `StaleIsSaid`, that since the last bulletin was built an approval
  or an export wrote back the bulletin, or the stamp, of before it.
- Code sets of the regime of one code per element (`schema_version` 1.0.0) are left
  out: a round of today does not begin one.

### EstimateRound and EventOutbox

| code | actions |
|---|---|
| root and `base_version`; head; second head of `append_revision` | `Load` · `Read` · `Carry` |
| `set_estimate_target`, `set_estimate_regime` | `CommitTarget`, `CommitRegime` |
| install, reorder, remove a source | `CommitCascade` |
| suggestions, recompute | `CommitSuggestions`, `CommitRecompute` |
| `decide_estimate_item_code`, `close_estimate_item_package`, `revoke_estimate_item_code` | `CommitDecision`, `CommitClosure`, `CommitRevocation` |
| `build_estimate`, `approve_estimate_round`, `export_estimate_workbook` | `CommitEstimate`, `CommitApproval`, `CommitExport` |
| `_record_domain_event` in those transactions | `Recorded`, which is `Outbox!Record` |
| `pending_domain_events`, `drain_domain_events` | `List` · `Publish` or `Refused` · `Mark` or `Killed` |

The takeoff is taken as reviewed: its items are fixed. The routes never await, so
requests overlap only when the API runs more than one instance; `setting` says how
many a behaviour has. `crossed` is a history variable that says of what kind an act
was that committed over something it had not read (`Crosses`): `sources` (the cascade
or the regime moved under an act on them), `citations` (the codes moved under a
removal, or the cascade under a confirmation), `codes` (the codes or the approval
moved under a decision). Events are numbered in the order of their commits;
`created_at` is taken before the COMMIT, and the writers' clocks are taken to
agree, so an event may be stored ahead of others that committed before it, but
never ahead of those its transaction had seen.

## 3. Runs

| run | instance | shows |
|---|---|---|
| `SurveyServer` | 2 instances; 2 phones and 3 operations, 5 requests sent any number of times, or 1 phone and 1 photo, 4 requests, or 2 phones of which one adds a photo while the other closes, 4 requests | `LedgerContiguous`, `AckIsStored`, `OneAckPerKey`, refinement of `SurveyLedger`; `ClosedWithEvidence`, `ClosedIsPublished` |
| `FieldSyncSafety` | 2 instances, 1 fault; one phone in either build (4 operations, 3 batches, a conclusion when it takes turns), or two phones in either build (2 operations, 2 batches each) | `WellFormed`, `AckedIsStored`, `AckedInPlace`, `TurnsConverge`, `DecisionHolds`, `CompletedIsFrozen` |
| `FieldSyncLiveness` | 1 phone, 6 batches (3 kept for after a decision), 1 fault, fair; 2 operations, a photo and 1 instance, concluded when they take turns, or 3 operations and 2 instances in either build | `OutboxDrains`, `ConcludedIsClosed` |
| `CroquiJob` | 2 requests, 2 deliveries, 2 commands of a kind, 7 scenarios, fair | `RefNamesOneElement`, `SupersededIsBlocked`, `ExportedWasApproved`, `TraceLandsOnItsBase`, `OutcomeIsFinal`, `EveryCommandSettles` |
| `JobReview` | 2 writers, 2 readings, 2 proposals, 2 names, 9 scenarios | `WellFormed`, `DrawnFromForce`, `LinesAreDecided`, `CalibrationFitsItsScene`, `FrozenUntilRecalibrated`, `RecordsTravel` |
| `FieldEvidence` | 2 requests, 2 deliveries, 3 calls a budget, 2 attempts an arm, 8 scenarios, fair | `BudgetIsWhatWasSent`, `ConfirmedIsRead`, `EveryAnalysisSettles` |
| `ValuationRound` | 2 plates, 2 requests, 2 deliveries, 2 attempts, 2 codes, 14 scenarios | `PaidOncePerCommand`, `NoCommandForgotten`, `ExportedWasSigned`, `DeclarationsStand`, `LateWorkIsHarmless`, `StaleIsSaid` |
| `EstimateRound` | 1 or 2 instances, 2 items, 2 sources, 2 people, 2 relay runs of 2 events, 7 scenarios, fair | `DispatchedUnderFourEyes`, `CodesAreGrounded`, `SignedCodesHold`, `DeliveredInOrder`, `EveryEventDelivered` |

`WellFormed` and `CodesAreGrounded` are conjunctions of named parts: the type
invariant with what the validators of the documents promise together; in
`EstimateRound`, `ContractedIsClean`, `CitedIsInstalled` and
`PrecedentIsConfirmed`. `LateWorkIsHarmless` is `LateOutcomeIsHarmless` and
`DeclaresTheCurrentPacket`. The modules whose `TypeOK` is in no run state it for the
reader and for the proofs; those of `SurveyServer`, `CroquiJob`, `FieldEvidence` and
`ValuationRound` are proved.

Four more runs, `CommandDuringPass`, `ClosedRowHasEvidence`, `ContractRaced` and
`SignedAfterRevocation`, check what a comment of the repository says and find the code
doing otherwise. Seven configurations beside them (section 6) end in a counterexample
in the same way. Most of them show what a property above leaves out:

| property that holds | what it leaves out | configuration that shows it |
|---|---|---|
| `AckedInPlace`, `TurnsConverge`, `SeqUnique` | the build with two queues | `CommandDuringPass` |
| `ClosedWithEvidence` | a batch and a closing that cross (`crossed`) | `ClosedRowHasEvidence` |
| `CompletedIsFrozen` | a batch that had read the survey open | `ClosedTakesNothing` |
| `OutboxDrains` | a conflict in front of the person | `KeepLocalLeavesTheGap` |
| `CodesAreGrounded` (`ContractedIsClean`) | two acts on the sources that cross | `ContractRaced` |
| `CodesAreGrounded` (`CitedIsInstalled`) | a removal and a confirmation that cross | `CitedSourceRemoved` |
| `SignedCodesHold` | a decision that crosses an approval | `RevokedUnderApproval` |
| `SignedCodesHold` | a code revoked before the approval | `SignedAfterRevocation` |
| `StaleIsSaid` | an export that crosses a rebuild | `ExportRestoresStamp` |
| `RecordsTravel` | the columns two writers do not list | `HistoryTravels` |

**Bounds of the survey runs.** `MaxMessages` bounds the messages counted per
command: the properties ask whether one exists. `MaxBatches` bounds the batches of
a phone, `MaxAttempts` stands for `MAX_ATTEMPTS` (4 in the code, 2 here: one that
fails and one more), `MaxFaults` bounds crashes, lost connections and expired
tokens together. Two instances are what two transactions need to collide, and the
unique constraints let one of any number through. Three operations of which two
belong to one phone suffice for a gap, a repeated number and a number taken by
another operation; the fourth in `FieldSyncSafety` lets a decision follow commands
on both sides of a conflict. One fault reaches every window between two steps; no
behaviour of a passing liveness run ends on `MaxBatches` with something to send, or
`OutboxDrains` and `ConcludedIsClosed` would fail. The `CONSTRAINT` of that run
(`Stories`) keeps a behaviour either to two operations and a photo, served by one
instance (with a fault and a conclusion in turns, the only build `ConcludedIsClosed`
speaks of; without them out of turn), or to three operations and two instances,
enough for `keep_local` to renumber an operation that is stored already. A behaviour
that leaves both is not followed; none leaves both by being short of batches.
`FieldSyncSafety` looks at two instances of the model at once: its
`CONSTRAINT` (`Bounds`) keeps a behaviour either to one phone, with the longer
bounds, or to two phones with shorter ones; a phone concludes only alone and
taking turns. So does
`SurveyServer`: `OneStory` keeps a behaviour to the requests of two phones that
collect, to those of one photo on its way to a closed survey, or to those of a batch
that adds a photo and the closing it meets; in the second it stops when a request has
had three different answers, in the third when it has had two (`ClosedWithEvidence`
and `ClosedIsPublished` are also proved, of any number). The requests of
`MCSurveyServer` are bodies a phone can produce: successive passes of one phone,
and the same key with another body, which a pass never sends but the route must
refuse.

**Scenarios of the other runs.** A scenario says how many acts of each kind the
behaviour takes, crashes, failures of the store and replays included, and nothing
about their order: they come in every order, overlap wherever there are slots, and
any of them may be missing. Each scenario brings together the acts that can
disturb one another, with enough of each to do it twice where it matters (two
traces over one base, two decisions over one packet, two extractions of one plate,
a code confirmed, revoked and confirmed again). Two requests and two deliveries
are what a collision needs; what crosses three of them crosses two first, and for
`CroquiJob` the theorems of section 4 hold for any number.

Symmetry is used on the instances of the API only, never in a run with a liveness
property (`DecisionHolds` and `ImplementsLedger` are safety properties).
`CHECK_DEADLOCK FALSE`: the system may stop, when everything is sent and nobody
acts, or when a scenario is used up.

**Fairness.** In `FieldSync`, weak fairness for the pass (the person presses
"Enviar" again, as the screen asks), for what has begun (a command, the engine's
own steps, a handler's next step), for the arrival of the request being awaited,
and for a connection being closed when no answer can come; strong fairness for a
publication, since the broker does not refuse for ever; none for commands,
decisions, expiry, faults and requests nobody waits for. In `CroquiJob` and
`FieldEvidence`, weak fairness for a handler that has begun and for a delivery,
including its start when a message waits: the queue redelivers what is not
acknowledged. Nothing makes a client send. In `EstimateRound` the relay is
scheduled again and again (weak fairness of `List`), and neither refusals nor
kills are for ever (strong fairness of `Publish` and `Mark`).

**What the properties leave out, and why.**

- `AckedInPlace`, `SeqUnique`, `TurnsConverge`, `ConcludedIsClosed`: the build with
  two queues, whose behaviour is a finding (section 6). `TurnsConverge` also leaves
  out surveys two phones collect, of which the code makes no promise, and surveys with
  a decision for the server's version. `ConcludedIsClosed` excepts a URL that ran out
  before its upload.
- `AckedInPlace`: a phone that has superseded something. What it let go of may still
  be in a batch on its way, and take the number of what it collected afterwards.
- `DecisionHolds`: behaviours with more than one fault, where it fails (section 6).
- `SeqUnique`: acknowledged operations. After `keep_local` renumbered an operation that
  is stored, it may share the number of an acknowledged one until the next
  acknowledgement.
- `ConcludedIsClosed`: more than one instance. A conflict then needs the person, whom
  nothing makes decide.
- `CompletedIsFrozen`: the step of a batch that read the survey open before the
  closing committed (`NoneInHand`), unless every phone had had everything
  acknowledged (`AllAcked`), which is when the engine asks for the closing of its own
  survey. The rest is `ClosedTakesNothing`.
- `ClosedWithEvidence`: the packet of a closed row after a batch and a closing
  crossed (`ClosedRowHasEvidence`). What the closing itself answered is never left
  out.
- `OutboxDrains`: operations of a closed survey, and those of a phone that is showing
  a conflict. A decision may bring the conflict back (`KeepLocalLeavesTheGap`), so
  nothing says that the person is asked only once.
- `ContractedIsClean`, `CitedIsInstalled`, `PrecedentIsConfirmed`, `SignedCodesHold`:
  any number of instances, until an act commits over something of its kind that it
  had not read (`crossed`). With one instance nothing crosses. `ContractRaced`,
  `CitedSourceRemoved` and `RevokedUnderApproval` show what happens then; a precedent
  left in the index by a decision that dropped another has no run, since no line
  promises that it goes.
- `SignedCodesHold` speaks of what moves under a signature, not of what moved between
  the building and the signature: that is `SignedAfterRevocation`, and needs one
  instance only.
- `ConfirmedIsRead`, second part, and `EveryAnalysisSettles` after an
  interruption: deliveries that overlap.
- `EveryAnalysisSettles` speaks of a published message while the photo is the
  job's and its object the one confirmed; otherwise the handler raises at every
  delivery.
- `StaleIsSaid`: an approval or an export that read the bulletin or its stamp before
  the bulletin was built again (`crossed`), until the next one is built (section 6).
- `EveryCommandSettles`, `NoCommandForgotten`: a message the transport refused,
  and a delivery that broke off past its claim (section 6).

## 4. Proofs

Each theorem below holds for every value of the constants: any number of phones,
requests, deliveries, instances, any scenario. Each rests on an inductive
invariant, because a handler decides on what it read some steps ago and the
properties say nothing about what is in its hands. The assumptions are the named
`ASSUME`s of the modules, which every run evaluates.

### The survey routes

`SurveyServerProofs` proves `TypeCorrect` (`Spec => []TypeOK`),
`LedgerIsContiguous` (`LedgerContiguous`), `AcksAreStored` (`AckIsStored`) and
`StoredForEver`: no step removes a stored operation or changes its number. `Op` is
finite and each operation has one device (`OpAssumption`), and requests are well
formed (`RequestsAssumption`).

`LedgerContiguous` is not inductive: that the write of a batch keeps the log
contiguous depends on what its handler learned one step earlier, while other
instances wrote. The invariant `IInv` has four parts: `TypeOK`; `Contiguous`, the
ledger property in the form the steps use; `Underway`, what each handler knows (a
batch handler holds a batch of one device; one about to write holds new
operations that continued *some* earlier end of that device's log, an end never
above the present one); and `Promised`, that every acknowledgement given or kept
in an idempotency record is stored, so that a replayed one is as good.

The step that matters is `SubmitWrite`. Its batch takes the numbers after the last
one seen at the comparison. If the log has grown since, the first of them is
taken, since the log is contiguous, and the unique constraint refuses the batch
(`Clash`). So without a clash the last seen is the last there is, and the log
becomes 1..n+k. Dropping the unique constraint breaks the theorem, and is the
mutant of `LedgerContiguous`.

The second half of the module adds `CInv`: a record of idempotency is unique in its scope
and says what its route answers (`KeptRight`), an acknowledgement was kept with
the body it answers (`AcksKept`), a confirmed media has its object
(`ConfirmedIsWhole`), and a handler past a check knows what no later step undoes
(`Serving`): a closing reads its own copy of the packet and nothing takes an
object out of the bucket, so what it checked still holds when it commits. `ClosedRow`
says the same of the row itself once it is closed and nothing `crossed`: a handler
that wrote the packet after it read the survey open is what `crossed` records. From it
`OneAcknowledgement` (`OneAckPerKey`), `ClosureHasItsEvidence`
(`ClosedWithEvidence`) and `ClosureIsPublished` (`ClosedIsPublished`).
`Refinement` proves `Spec => ImplementsLedger`: a write without a clash extends
the log of one phone by exactly its batch, in order; an answer acknowledges
recorded operations; every other step stutters.

### The field app

`FieldSyncProofs` and `FieldPacketProofs` prove their theorems of the composition:
any number of phones, operations, photos, batches, attempts, faults and instances.

`AckedStored` (`AckedIsStored`), in either build: what a phone takes off its outbox as
acknowledged is in the server's log. It is the property the whole protocol is for. The
invariant (`Inv`) follows an acknowledgement from the write that decides it to the
phone that reads it. A handler about to write knows of every operation of its batch
that it is stored or will be by this write (`Planned`, established by the comparison,
which may be many commits old); what it answers and what it keeps for a replay name
only operations that are stored (`Backed`); no row of the log is deleted, so an answer
is as good however late it arrives; and the phone marks only what the answer to its
own request names. It needs no assumption on the constants; the others take
`OutboxAssumption` (`Op` is finite, each operation has one device).

`PhonesContiguous` (`LedgerContiguous`), in either build: the log of each phone is
1..n with these phones as the clients of the routes, whose requests are here what the
engine sends and not a given set. Its invariant `Base` adds to `Inv` the types of the
outbox, that every batch still readable somewhere is one its phone has drawn (`Post`,
`Books`), and what a handler about to write knows (`Handlers`: its batch continues an
end the log has had).

`AckedPlaced` (`AckedInPlace`), when passes and commands take turns: an acknowledged
operation is stored under the number the phone gives it. The number alone says too
little: `keep_local` gives new numbers to operations of which the server may hold a
part under old ones, and batches with the old ones may still arrive. `Full` adds to
`Base`, for each phone (`InTurn`),

- `Turns`: a command and a pass are never both under way, so what either has read of
  the outbox is the outbox;
- `Ordered`, while nothing was superseded: `Placed`. What the server holds of the
  queue is a prefix of it in its order, after what was acknowledged (`Stacked`,
  `Above`); a batch that carries an operation carries what precedes it, in the same
  order (`Nested`); the last of the queue has only ever had the number it has
  (`Anchored`), because a renumbering puts the operation of its decision, a new one,
  last; and each other one is followed by the next number, or sits for ever at a
  number already passed (`Linked`, `Gap`);
- `Settles`: once anything acknowledges the batch the phone waits for, the whole queue
  is where the phone has it.

So a batch sent after a renumbering over what is already stored either is refused,
because the first number the server does not hold does not follow what it holds, or
carries the queue as the server has it.

`PhonesConverge` (`TurnsConverge`), when passes and commands take turns: a phone that
collects its survey alone, has given nothing up and has nothing left to send is what
the server shows. The server keeps the packet of the last batch it accepts, batches
arrive in any order, and a packet is read before the operations that leave with it.
`Whole` adds to `Full` what is known of the letters and of the row (`Mail`, `Desk`,
`Shapes`, `Withdrawals`) and, for a phone alone that gave nothing up (`Story`):

- `Pile`: the packets of the phone, of its batches still readable and of the server
  are layers (`Layered`). They are ordered by the operations they reflect; the packet
  of a batch reflects all it carries; and of two batches the one with the older packet
  carries nothing that the other does not carry or the server does not store. A late
  batch that would take the server back therefore has nothing new to store, and one
  that stores nothing does not touch the row;
- `Course`: what a pass is about to send is the packet of the phone, and so is the
  snapshot of a conflict that comes with nothing pending. Such a conflict answers a
  completion, since the engine completes only with nothing pending, and accepting it
  changes nothing.

When everything is acknowledged it is stored (`AckedStored`), what is stored is
reflected, so the packet shown reflects all the phone's operations and is the phone's.

`ClosedStays` (`CompletedIsFrozen`), any number of instances, in either build: a closed
survey takes no operation and keeps its packet, once the batches that had read it open
are through or when everything was acknowledged. It rests on two facts about a handler
past the check of the status: it read the row open (`ReadOpen`), so when none that did
is left there is none at all; and what its batch carries has been drawn, so when
everything drawn is acknowledged, and therefore stored (`AckedStored`), it finds nothing
new to write and leaves the row alone (`NothingFresh`).

### The job

`CroquiJobProofs` proves, with `ConstantsAssumption` only, `TypeCorrect`,
`RefsNameOneElement` (`RefNamesOneElement`), `SupersededBlocked`
(`SupersededIsBlocked`), `PackagesApproved` (`ExportedWasApproved`),
`TracesLandOnTheirBase` (`TraceLandsOnItsBase`) and `OutcomesAreFinal`
(`OutcomeIsFinal`).

`IInv` is `TypeOK` with six more parts: `Grounded` (requests, messages
and deliveries are about rows that exist, of the kind their handler expects),
`Refs` (a reference given out is in the revision that brought it, and names one
element), `Geometry` (the head is blocked when a decision it rests on is no longer
in force, and `Beheld`, below), `Exports` (a package is asked for when its scene is
approved, and in the bucket once COMPLETED), `Landings` (a trace about to land
found both heads where its row says) and `Exclusive` (a command has one delivery
past its claim, and its row is RUNNING).

The argument runs on one lemma, `Onwards`: no step rewrites a revision or changes
what a command is about; chains only grow at the end. So what a request read stays
true of the prefix it read, and a commit that the unique index lets through found
the chain no longer than it was read: what was true of the prefix is true of the
head it extends. The steps that move a chain are classified once (`SceneMoves`,
`ReviewMoves`, `BothMove`), and each part of the invariant is shown for the three
classes rather than for each act. Rectification needs its second SELECT: `Beheld`
says that one that can still commit read the geometry of the head, whichever
scene the head is by then.

`JobReviewProofs` proves the six properties of its run: `DocumentsAreWellFormed`,
`DrawingsFollowDecisions`, `LinesStandOnDecisions`, `CalibrationStands` (of every
state), `LinesStayFrozen` and `RecordsAreCarried` (of every step). They relate the
head of one chain to the head of the other, and an act that brings a review only
is judged against a scene it does not extend, which may have moved on meanwhile.
`Beheld` is again what carries it: while nobody brought a review, the scene such a
writer looked at is drawn as the latest, because a scene that comes without a
review is a copy of the one before it; and when somebody did, the unique index
refuses the writer. The other parts are `Agree` (drawings with decisions, lines with
acceptances), `Sound` (of one review: decisions dated, one active observation,
elements apart) and `Fitting` (the calibration is of the scene and the snapshot it
names). Each act is shown once to keep them, as a lemma about its document.

`FieldEvidenceProofs` proves `TypeCorrect`, `BudgetHolds`
(`BudgetIsWhatWasSent`), `ConfirmedValuesAreRead` (`ConfirmedIsRead`) and
`EndedStands`: while deliveries do not overlap no step takes back the outcome of an
analysis that has ended or rewrites its document. `Account` says that what a
delivery has spent is what it has sent, and one more while it is calling, whatever
the others do: a call refused by the budget found it all sent. For the confirmed
values, a request relies on a row it read two steps earlier staying settled:
`Single` says why it does where deliveries do not overlap (there is one, and the
row it carries is not settled), and `Cites` is what remains when they do.

### The rounds

`ValuationRoundProofs` proves `TypeCorrect`, `PaidOnce` (`PaidOncePerCommand`),
`NothingForgotten` (`NoCommandForgotten`), `ExportedSigned` (`ExportedWasSigned`),
`DeclarationsHold` (`DeclarationsStand`), `LateWorkHarmless`
(`LateWorkIsHarmless`) and `StaleSaid` (`StaleIsSaid`), from `ConstantsAssumption`.
`IInv` has two sides.

- `Commands`, of the worker. A delivery is told from the others by the command and
  the plate its message is about (`Target`; the singular route names none and is
  about the first), not by the row, which may have gone to a later command
  meanwhile. `Owned` and `Announced` say that rows, messages and deliveries are of
  commands made durable; `Claims`, what a delivery has in hand at each point (the
  lock of its row while it claims or settles, nothing paid yet while it extracts);
  `Apart`, that no two are at work for one command on one plate; `Untouched`, that
  for a plate still queued nothing was paid and nobody is at work. A redelivery
  finds the row taken; a repeated command finds it running, done or failed; a
  command that takes the plate again is another command.
- `Sound`, of the API. `Vouched` (what a revision calls signed was signed, what it
  calls declared was declared, its links do not chain) holds of the head *and of
  every revision a request has in hand*: an act writes again what it read, and it
  may have read a long time ago. `Granted` keeps with it what the act was accepted
  on.

`StaleSaid` (`StaleIsSaid`) has an invariant of its own beside `IInv`. A stamp holds
the codes and the links themselves, but of each packet only its digest; an act
writes again packets it read long before, so an old digest may come back, and the
stamp must not match it with another packet. `Founded` says that there is a record
of every packet ever written, by plate and by the version that wrote it, in which
the packets of the head and of every revision in hand are found (`Recorded`), and
from which the stamp of the head gives back exactly what its bulletin was built
from (`Described`), unless `crossed`. An act that writes a packet extends the record
at the version it takes, which nothing in hand has reached; an act that builds
takes bulletin and stamp from one revision, recorded. When the stamp equals the
digest of the head, the record gives the head itself. Two requests are not enough
to see why the exception is needed: with three, an export puts an old stamp back
over a rebuilt bulletin and a late closure brings the old codes back under it.

`EstimateRoundProofs` proves `FourEyesHold` (`DispatchedUnderFourEyes`),
`CodesStayGrounded` (`CodesAreGrounded`), `DeliveryInOrder` (`DeliveredInOrder`)
and `SignedCodesStand` (`SignedCodesHold`). `Witnessed` is `Vouched` for the head
and for what each request read: its estimate was built by the builder it names or
already signed by another, its approval and its workbook were built by one person
and signed by another. `CodesAreGrounded` is part of the invariant itself. `Uncrossed`
says that a request that commits without adding to `crossed` commits over the cascade,
the regime, the codes or the approval it decided on, so what it was accepted for still
holds there; a request that does add to it is let off by the property from then on.
Nothing is assumed of how many instances there are.
`OInv` is about the outbox: the stored order is a permutation in which an event
comes after those its transaction had seen (`Ordered`), the events before those in
a run's batch are in the batch or with the broker (`Running`), and the broker had
heard of what an event had seen when it heard of the event (`Told`). A run
publishes its batch in the stored order, so no event overtakes another in it, and
what is not in it was delivered before.

### Only model-checked

- Every liveness property: liveness under fairness is beyond the prover.
- `DecisionHolds`, with at most one fault. It depends on how many faults it takes to
  make a batch lose the race to itself, and an invariant for it would count them.
- `WellFormed` (`TypeOK` and `SeqUnique`). In the build with turns, and while nothing
  was superseded, `Ordered` gives the operations in an outbox different numbers
  (`Distinct`); that it stays so after a decision is checked only.
- The properties of the configurations of section 6, which the code does not satisfy.

## 5. What the plan has left

The proofs that remain are the two named above: `SeqUnique` after a decision and
`DecisionHolds` with one fault. The modelling that remains is in section 7.

## 6. Where the code and its own words disagree

With a run:

- `CommandDuringPass`: `sync/engine.ts:77` speaks of one serial queue for
  synchronisation and commands; `ui/FieldApp.tsx:189-205` builds two. A command
  may be acknowledged with a packet that does not show it.
- `ClosedRowHasEvidence`: "Concluir com foto pendente publicaria um levantamento cuja
  evidência ainda está no aparelho" (`main.py:20942`). `complete_survey` reads packet
  and media (`20980-20993`) and writes the row later (`21002`); a batch that read the
  survey open writes the packet later too (`20654-20668`). On two instances the batch
  of a second phone adds a photo over the closing: the row is COMPLETED, its photo is
  still pending.
- `ContractRaced`: "Rodada sob contrato nunca contém fonte proibida — nem por declaração
  posterior, nem por instalação" (`main.py:17294`). The declaration checks the cascade
  it loaded, the installation the regime it loaded; the version of the root is compared
  when the row is read and not when it is written, so the two do not collide.
- `SignedAfterRevocation`: "descobrir depois que um orçamento assinado não corresponde
  aos códigos — não tem volta" (`estimate_rounds.py:1412`). Build, revoke a code,
  approve: one instance and no overlap. The approval asks who built the estimate
  (`main.py:18963-18977`), not whether its codes are still in force, and the export
  that follows prints them.

With a configuration to run by hand, which ends in the counterexample told here:

- `ClosedTakesNothing`: "Concluído não aceita operação nova" (`database.py:1536`). The
  status is read once (`main.py:20599`), and at the commit nothing looks at the row
  again: the batch of one phone is stored after another phone closed the survey.
- `KeepLocalLeavesTheGap`: `keep_local` numbers the operations again because "sem isto,
  o mesmo buraco de sequência que abriu o conflito reapareceria em todo reenvio"
  (`engine.ts:729-733`). It numbers with them the ones whose answer was lost and that
  the server has. The server filters those by their identity, as the comment says, and
  is left without their numbers: the operations behind them start after a hole, and
  every pass that sends them is refused. What is refused acknowledges nothing, so the
  stored ones are still pending at the next decision, and another `keep_local` leaves
  the same hole; only `accept_server`, which gives the operations up, ends it.
  `OutboxDrains` accepts that, since the conflict is in front of the person.
- `CitedSourceRemoved`: "Recusa remover uma fonte que alguma decisão de código já citou"
  (`estimate_rounds.py:860`). The removal checks the head it read and writes the root;
  the confirmation checks the root it read and adds a revision. On two instances the
  code in force ends up citing a source that is gone.
- `RevokedUnderApproval`: a revocation under an approval "seria deixar uma assinatura
  nominal apontando para um conjunto de códigos que mudou depois dela, sem nada no
  sistema notando" (`estimate_rounds.py:1408`). The check is on the head the revocation
  read; `append_revision` reads the head again, so one that overlaps the approval takes
  the version after it and carries its signature over.
- `DecisionDropsPacket`: the plates a decision did not touch "viajam idênticas,
  copiadas da cabeça" (`valuation_rounds.py:1195`); they are copied from the head
  read before, and `append_revision` takes the version after the head it reads
  again (`:411`), so a packet published in between is dropped without a conflict.
- `ExportRestoresStamp`: the stamp of a bulletin "nunca mais é tocado até a próxima
  montagem" (`valuation_rounds.py:175`), but the export writes back the map of
  digests it read (`main.py:16555-16566`), so one that overlaps a rebuild puts the
  old stamp under the new bulletin, and that one is shown as stale, or, when a late
  act brings the old sources back, as up to date.
- `HistoryTravels`: the side columns of a review "viajam inteiras para a revisão
  seguinte" (`main.py:6064`), since to forget one "apagaria trabalho humano em
  silêncio". The worker's two writers do not list `shape_corrections_json`
  (`local_queue.py:1975-2080`, `review_store.py:231-317`); the acts on witnesses and
  observations do not list `element_declarations_json` (`main.py:10003-10028`,
  `10204-10229`).

Met while modelling, without a configuration of their own:

- *Survey.* With two queues a phone may hold an operation acknowledged under a number
  that is not the server's, and two operations under one number. One batch is sent
  twice to two instances and the second copy loses the race, so that the conflict
  carries no sequence; `keep_local` renumbers from 1, and the next batch is refused
  with the real sequence; a command that draws its number while the second
  `keep_local` holds the queue it read (`engine.ts:706`) takes the number that was
  missing, and the batch is accepted with operations stored under other numbers in
  it. That is five operations and four batches, more than the run takes;
  `AckedIsStored` holds of it, `AckedInPlace` is claimed of one queue only.
  Even when passes and commands take turns, what a person gave up in a conflict may
  come back. The POST of a batch runs out of time on one instance while its retry
  loses the race on another, so that the conflict carries no sequence; `keep_local`
  renumbers from 1 what the server has in part; the next conflict is answered with
  `accept_server`; and the batch that was on its way all the while turns out to be
  the one the log was waiting for: its operations are stored and its packet replaces
  the one that was accepted. It takes two faults, five operations and five batches;
  with one fault and the same bounds it does not happen (`DecisionHolds`).
  An interrupted upload is to be signed again (`main.py:20788`,
  `engine.ts:649`); the idempotency record replays the expired URL for ever.
  Repeating the completion is the way back of a lost export message
  (`main.py:20958`, `engine.ts:596`); once the state reads COMPLETED the engine
  never repeats it.
- *Drawings.* `JobReview` and `CroquiJob` show three more. To inherit the stamp of
  approval "seria alegar um ato humano que não houve" (`main.py:5991`), and
  `annotate_dimension` copies it (`main.py:11153-11170`). Accepted geometry "nunca é
  reprojetada nem descartada" (`main.py:7031`), but a dimension takes the mark of
  acceptance off the line (`dimension_annotation.py:145-152`) and the next solving
  drops it. With a calibration that does not survive the current scene gains
  `CALIBRATION_SUPERSEDED` (`review_refresh.py:10-12`), but after a decision that
  solves nothing the review points at no scene, and the refresh drops the
  calibration without an issue (`review_refresh.py:203-206`).
- *Jobs.* When the store fails, an export or chat delivery raises with its row
  RUNNING (`local_queue.py:1870`, `2501`) while a redelivery claims only QUEUED or
  FAILED rows: it stays RUNNING. `create_export` does not look at its
  Idempotency-Key and queues again an export that is RUNNING, where the handler
  says "exactly once per approved revision" (`local_queue.py:1793`). The status
  that guards the ingestion is a check, not a claim: two deliveries, or a
  `create_job` repeated after a failure, pay the providers again, and a late
  ingestion writes back the status of the job. A FAILED chat turn may be taken up
  again by a stale duplicate. An approved revision stays exportable after a
  rectification blocked the head. An acceptance over a scene that is not the
  calibration's checks that the anchors exist in it, not that they are where they
  were (`main.py:10498-10506`). A decision that loses its race at the first flush
  (`main.py:9355`) is answered as an error of the server and not as a conflict.
- *Field evidence.* "Estado terminal não chama de novo" (`local_queue.py:3650`) is
  a SELECT before an UPDATE without a condition: of two deliveries that overlap,
  the second replaces the document a value may have been confirmed from, and may
  take PROCESSED back to RUNNING, where it stays if that delivery then dies.
  FAILED_TRANSIENT "diz que reprocessar a mensagem pode resolver"
  (`survey_photo_analysis.py:110`), but it is terminal: a new request publishes a
  message that is acknowledged without work. A photo unlinked or replaced after
  the request leaves the row RUNNING and its message redelivered until the queue
  gives up. Two instances may leave two ACTIVE confirmations of one reading: no
  unique constraint arbitrates.
- *Valuation.* The mirror of the plates on the root may stay behind when two
  plates settle at once (`local_queue.py:544`). Two requests that overlap queue the
  same plate twice (`valuation_rounds.py:1016` against `1046-1084`). An increment
  of the root's version by the worker can be lost. An approval that overlaps a
  rebuild puts the bulletin it read back beside the new stamp, and the round is
  shown as up to date (`main.py:16377-16474`, `valuation_rounds.py:411`). Code acts
  that overlap drop one another like decisions do; a last decision that overlaps
  another may reject a reading that has codes, and the bulletin is refused from
  then on (`CALC_ASSIGNMENT_UNKNOWN_ITEM`). No route takes a link back: with a
  rejected end it refuses the bulletin for good. The worksite is to err
  on the visible side, "nunca de esconder" (`docs/adr/0057-*.md:97`), but only the takeoff of its ends is looked at
  (`worksite_calc.py:216-251`): when the code of the reading that is kept was
  denied, the other one still counts as zero and the element is in no line. With a
  matrix the lines are the matrix's (`calc_matrix.py:443-530`): a code revoked or
  never confirmed prints, and a confirmed one the matrix omits does not, where
  `apply_code_revocation` calls leaving the set "falha fechada". A reading of the
  shortlist that loses its race to a reading of another plate, or to an act, finds
  no shortlist and raises (`main.py:15461-15472`), where the comment says that to
  lose is nobody's failure.
- *Estimate.* On two instances, a precedent is recorded while its code is revoked; a
  decision that overlaps another drops it (`estimate_rounds.py:849-852`); an approval
  that overlaps a rebuild is judged by the builder of the head it read. On one,
  removing the uncited source that heads the cascade is allowed (`863-866`), after
  which every decision is refused as decided under another catalogue (`837-842`).

## 7. Not modelled

`PROJECT.json` lists every component with its reason. Most of the repository's
lines are of kinds with no protocol to explore: vision, geometry solvers, tracing
and DXF (numeric, sequential, over floating-point coordinates); prompts, schemas
and wire formats of providers; readers and writers of price tables and
spreadsheets; command-line tools, screens, configuration and infrastructure. The
map therefore covers the routes, the handlers of the worker and the domain guards
they call, and a small share of the whole.

Of the components that are modelled in part: the rejected suggestions, shadow
scores and blockers of a review; the confrontation of a valuation round with the
scene (no code outside the tests gives a reading the `element_ref` it compares by,
so the act writes nothing) and its amendment dossier; plate and takeoff
decisions of an estimate (the shape of the valuation's); the survey's export,
photo and audio commands, which write pure conversions under stable keys; the
stage log of a job; kits, templates and platform catalogues, single-writer tables
with a refusal on a repeated version.

## 8. Running

    tlc -workers 2 -config SurveyServer.cfg MCSurveyServer
    tlc -workers 2 -config FieldSyncSafety.cfg MCFieldSync
    tlc -workers 2 -config CroquiJob.cfg MCCroquiJob
    tlc -workers 2 -config JobReview.cfg MCJobReview
    tlc -workers 2 -config FieldEvidence.cfg MCFieldEvidence
    tlc -workers 2 -config ValuationRound.cfg MCValuationRound
    tlc -workers 2 -config EstimateRound.cfg MCEstimateRound
    tlapm SurveyServerProofs.tla
    tlapm FieldSyncProofs.tla
    tlapm FieldPacketProofs.tla
    tlapm CroquiJobProofs.tla
    tlapm JobReviewProofs.tla
    tlapm FieldEvidenceProofs.tla
    tlapm ValuationRoundProofs.tla
    tlapm EstimateRoundProofs.tla

`FieldSyncLiveness.cfg`, `CommandDuringPass.cfg` and `KeepLocalLeavesTheGap.cfg` go with
`MCFieldSync`; `ClosedRowHasEvidence.cfg` and `ClosedTakesNothing.cfg` with
`MCSurveyServer`; `ContractRaced.cfg`, `CitedSourceRemoved.cfg`,
`RevokedUnderApproval.cfg` and `SignedAfterRevocation.cfg` with `MCEstimateRound`;
`DecisionDropsPacket.cfg` and `ExportRestoresStamp.cfg` with `MCValuationRound`;
`HistoryTravels.cfg` with `MCJobReview`. Every passing run ends within five minutes.

Definitions commented as a *mutant of* another are plausible bugs: with the body
of the original replaced by the mutant's, a run must fail. They are used by
nothing else.
