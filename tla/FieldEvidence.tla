------------------------------ MODULE FieldEvidence ------------------------------
(***************************************************************************)
(* One photo as field evidence of a job: attached to the job or linked     *)
(* with its survey, read and classified by the worker on request, and the  *)
(* values a reviewer confirms from the reading.                            *)
(*                                                                         *)
(* A route reads the database, looks at the bucket where it does, and      *)
(* commits; the worker may act between any two of these, another instance  *)
(* of the API too.  Reads of the database next to each other are one step. *)
(* A repeated command is its stored answer, and is modelled where it does  *)
(* more than that.  The photo of a survey is confirmed, the survey closed. *)
(***************************************************************************)
EXTENDS Integers, Sequences, FiniteSets, FiniteSetsExt, SequencesExt

CONSTANTS
    Reading,    \* what a provider may read in the photo (ids made of the content)
    Request,    \* requests the instances of the API serve at once
    Worker,     \* consumers of the queue
    Limit,      \* how many calls the budget of a delivery pays for
    Ceiling,    \* RETRY_ATTEMPT_CEILING
    Scenario    \* what the model starts with, and how many acts of each kind it takes

Task == {"reading", "classification"}

Kind == {"link", "unlink", "presign", "confirm", "reading", "classification", "repeat",
         "value", "upload", "entitlement", "interruption"}

ASSUME ConstantsAssumption ==
    /\ IsFiniteSet(Worker)
    /\ Limit \in Nat \ {0} /\ Ceiling \in Nat \ {0}
    /\ \A s \in Scenario :
          /\ s.origin \in {"survey", "standalone"}
          /\ {s.real, s.consented, s.reserve, s.overlap} \subseteq BOOLEAN
          /\ s.accepts \in [Kind -> Nat]

VARIABLES
    setting,    \* the scenario
    left,       \* the acts it still takes
    version,    \* JobRecord.version
    linked,     \* JobSurveyLinkRecord exists
    photo,      \* the status of the photo's row
    object,     \* what is in the bucket under the photo's key
    entitled,   \* the tenant's entitlement is ACTIVE
    analysis,   \* FieldEvidenceAnalysisRecord.status per task
    artifact,   \* the document under each analysis' key
    values,     \* FieldPhotoValueConfirmationRecord, in order
    request,    \* what each request has read and where it is
    queue,      \* analyze_field_evidence messages
    delivery    \* what each worker is doing

rows == <<version, linked, photo, entitled, analysis, values>>
bucket == <<object, artifact>>
vars == <<setting, left, rows, bucket, request, queue, delivery>>

NoDocument == [outcome |-> "none", readings |-> {}, of |-> "none"]

Waiting == [pc |-> "idle", kind |-> "none", version |-> 0, found |-> FALSE, reading |-> {},
            previous |-> 0]

\* A worker's CostBudget is new at each delivery; sent and failure are history.
Free == [pc |-> "idle", message |-> <<>>, allowed |-> FALSE, found |-> FALSE, bytes |-> "none",
         arm |-> "anthropic", attempts |-> 0, spent |-> 0, sent |-> 0, failure |-> "none",
         outcome |-> "none", readings |-> {}]

Init ==
    /\ setting \in Scenario
    /\ left = setting.accepts
    /\ version = 1
    /\ linked = FALSE
    /\ photo = IF setting.origin = "survey" THEN "CONFIRMED" ELSE "ABSENT"
    /\ object = IF setting.origin = "survey" THEN "declared" ELSE "none"
    /\ entitled = TRUE
    /\ analysis = [t \in Task |-> "ABSENT"]
    /\ artifact = [t \in Task |-> NoDocument]
    /\ values = <<>>
    /\ request = [r \in Request |-> Waiting]
    /\ queue = {}
    /\ delivery = [w \in Worker |-> Free]

-----------------------------------------------------------------------------
(* Requests.                                                                 *)

\* One act of a kind is used up.
Take(kind) ==
    /\ left[kind] > 0
    /\ left' = [left EXCEPT ![kind] = @ - 1]

OfJob == setting.origin = "standalone" \/ linked

\* _load_field_photo_target.
Target == photo = "CONFIRMED" /\ OfJob

\* Both gates, asked only where a photo may leave the platform.
MayAsk(task) ==
    IF setting.real THEN entitled /\ setting.consented ELSE task = "reading"

\* What each kind of request finds already there; only what is new compares base_version.
Exists(kind) ==
    CASE kind = "link"    -> linked
      [] kind = "unlink"  -> ~linked
      [] kind = "presign" -> photo # "ABSENT"
      [] kind = "confirm" -> photo = "CONFIRMED"
      [] kind \in Task    -> analysis[kind] # "ABSENT"
      [] kind = "value"   -> FALSE

\* What refuses a request before anything is written.
Refuses(kind) ==
    CASE kind \in {"link", "unlink"} -> setting.origin = "standalone"
      [] kind = "presign"            -> setting.origin = "survey"
      [] kind = "confirm"            -> setting.origin = "survey" \/ photo = "ABSENT"
      [] kind \in Task               -> ~Target \/ ~MayAsk(kind)
      [] kind = "value"              -> ~Target \/ analysis["reading"] # "PROCESSED"

\* base is the version the client had seen.
Begin(r, kind, base) ==
    /\ request[r] = Waiting
    /\ Take(kind)
    /\ request' =
         IF Refuses(kind) \/ (base # version /\ ~Exists(kind))
         THEN request
         ELSE [request EXCEPT ![r] = [Waiting EXCEPT
                 !.pc = IF kind \in {"confirm", "value"} THEN "look" ELSE "commit",
                 !.kind = kind, !.version = version, !.found = Exists(kind)]]
    /\ UNCHANGED <<setting, rows, bucket, queue, delivery>>

Ready(r, kinds) == request[r].pc = "commit" /\ request[r].kind \in kinds

Answered(r) == request' = [request EXCEPT ![r] = Waiting]

Found(r) == request[r].found

\* The ORM writes the version it read plus one.
Bump(r) == version' = request[r].version + 1

CommitLink(r) ==
    /\ Ready(r, {"link"})
    /\ IF Found(r) \/ linked   \* answered as it is, or uq_job_survey_link
       THEN UNCHANGED <<linked, version>>
       ELSE linked' = TRUE /\ Bump(r)
    /\ Answered(r)
    /\ UNCHANGED <<setting, left, photo, entitled, analysis, values, bucket, queue, delivery>>

CommitUnlink(r) ==
    /\ Ready(r, {"unlink"})
    /\ IF Found(r)
       THEN UNCHANGED <<linked, version>>
       ELSE linked' = FALSE /\ Bump(r)
    /\ Answered(r)
    /\ UNCHANGED <<setting, left, photo, entitled, analysis, values, bucket, queue, delivery>>

\* The URL signed after the commit lets Upload happen.
CommitPresign(r) ==
    /\ Ready(r, {"presign"})
    /\ IF Found(r) \/ photo # "ABSENT"   \* signed again, or uq_job_field_photo_digest
       THEN UNCHANGED <<photo, version>>
       ELSE photo' = "PRESIGNED" /\ Bump(r)
    /\ Answered(r)
    /\ UNCHANGED <<setting, left, linked, entitled, analysis, values, bucket, queue, delivery>>

\* The client stores an object under the signed URL; outside the s3 profile no checksum
\* is bound to it, and it stays good after the photo is confirmed.
Upload ==
    /\ Take("upload")
    /\ photo # "ABSENT"
    /\ object' \in {"declared", "other"}
    /\ UNCHANGED <<setting, rows, artifact, request, queue, delivery>>

\* confirm_job_field_photo: HEAD, bytes and digest.
LookAtObject(r) ==
    /\ request[r].pc = "look" /\ request[r].kind = "confirm"
    /\ IF Found(r) \/ object = "declared"
       THEN request' = [request EXCEPT ![r].pc = "commit"]
       ELSE Answered(r)
    /\ UNCHANGED <<setting, left, rows, bucket, queue, delivery>>

CommitPhoto(r) ==
    /\ Ready(r, {"confirm"})
    /\ IF Found(r)
       THEN UNCHANGED <<photo, version>>
       ELSE photo' = "CONFIRMED" /\ Bump(r)
    /\ Answered(r)
    /\ UNCHANGED <<setting, left, linked, entitled, analysis, values, bucket, queue, delivery>>

\* An analysis that exists is published again, whatever its status.
CommitAnalysis(r) ==
    LET task == request[r].kind
        clash == ~Found(r) /\ analysis[task] # "ABSENT"   \* uq_field_evidence_analysis_target
    IN  /\ Ready(r, Task)
        /\ IF Found(r) \/ clash
           THEN UNCHANGED <<analysis, version>>
           ELSE analysis' = [analysis EXCEPT ![task] = "QUEUED"] /\ Bump(r)
        /\ IF clash THEN Answered(r) ELSE request' = [request EXCEPT ![r].pc = "enqueue"]
        /\ UNCHANGED <<setting, left, linked, photo, entitled, values, bucket, queue, delivery>>

\* The same Idempotency-Key: published again only if the analysis still waits.
RepeatRequest(r, task) ==
    /\ request[r] = Waiting
    /\ Take("repeat")
    /\ analysis[task] = "QUEUED"
    /\ request' = [request EXCEPT ![r] = [Waiting EXCEPT !.pc = "enqueue", !.kind = task]]
    /\ UNCHANGED <<setting, rows, bucket, queue, delivery>>

InFlight == queue \cup {delivery[w].message : w \in Worker}

NewMessage(task) == <<task, Min({n \in 1..(Cardinality(InFlight) + 1) : <<task, n>> \notin InFlight})>>

\* The transport may refuse; the caller is told to repeat the command.
Enqueue(r) ==
    /\ request[r].pc = "enqueue"
    /\ queue' \in {queue, queue \cup {NewMessage(request[r].kind)}}
    /\ Answered(r)
    /\ UNCHANGED <<setting, left, rows, bucket, delivery>>

\* A later SELECT: the confirmation in force for the reading.
InForce(reading) == {i \in DOMAIN values : values[i].active /\ values[i].reading = reading}

\* confirm_field_photo_value: the reading must be in the document now.
LookAtReadings(r) ==
    /\ request[r].pc = "look" /\ request[r].kind = "value"
    /\ \/ /\ artifact["reading"].readings = {}
          /\ Answered(r)
       \/ \E reading \in artifact["reading"].readings :
             request' = [request EXCEPT ![r].pc = "commit", ![r].reading = {reading},
                                        ![r].previous = Max(InForce(reading) \cup {0})]
    /\ UNCHANGED <<setting, left, rows, bucket, queue, delivery>>

CommitValue(r) ==
    /\ Ready(r, {"value"})
    /\ \E reading \in request[r].reading :
          values' = Append([i \in DOMAIN values |->
                                IF i = request[r].previous
                                THEN [values[i] EXCEPT !.active = FALSE] ELSE values[i]],
                           [reading |-> reading, active |-> TRUE])
    /\ Bump(r)
    /\ Answered(r)
    /\ UNCHANGED <<setting, left, linked, photo, entitled, analysis, bucket, queue, delivery>>

\* set_ai_processing_entitlement.
SetEntitlement ==
    /\ Take("entitlement")
    /\ entitled' = ~entitled
    /\ UNCHANGED <<setting, version, linked, photo, analysis, values, bucket, request, queue,
                   delivery>>

Handle(r) ==
    \/ CommitLink(r) \/ CommitUnlink(r) \/ CommitPresign(r)
    \/ LookAtObject(r) \/ CommitPhoto(r)
    \/ CommitAnalysis(r) \/ Enqueue(r)
    \/ LookAtReadings(r) \/ CommitValue(r)

-----------------------------------------------------------------------------
(* The worker.  A normal return acknowledges the message; an exception      *)
(* leaves it, and the row as it is, for another delivery.                   *)

At(w, pc) == delivery[w].pc = pc

TaskOf(w) == delivery[w].message[1]

Go(w, state) == delivery' = [delivery EXCEPT ![w] = state]

Ack(w) == Go(w, Free) /\ queue' = queue \ {delivery[w].message}

\* A message is delivered again before its acknowledgement only where overlap is looked at.
Deliver(w, message) ==
    /\ delivery[w] = Free
    /\ setting.overlap \/ \A v \in Worker : delivery[v] = Free
    /\ Go(w, [Free EXCEPT !.pc = "checking", !.message = message])
    /\ UNCHANGED <<setting, left, rows, bucket, request, queue>>

\* Mutant of Settled: a row another delivery took is left to it.
SettledOrTaken == {"RUNNING", "PROCESSED", "DRAFT", "SKIPPED_DISABLED",
                   "SKIPPED_NO_ENTITLEMENT", "FAILED_TRANSIENT", "FAILED_PERMANENT"}

\* The statuses that are not carried out again; RUNNING is, by whoever gets the message.
Settled == {"PROCESSED", "DRAFT", "SKIPPED_DISABLED", "SKIPPED_NO_ENTITLEMENT",
            "FAILED_TRANSIENT", "FAILED_PERMANENT"}

\* The SELECT and the UPDATE to RUNNING are two statements of one transaction.
Check(w) ==
    /\ At(w, "checking")
    /\ IF analysis[TaskOf(w)] \in Settled
       THEN Ack(w)
       ELSE Go(w, [delivery[w] EXCEPT !.pc = "claiming"]) /\ UNCHANGED queue
    /\ UNCHANGED <<setting, left, rows, bucket, request>>

\* With the row, the media and both gates, as they are at this delivery.
Claim(w) ==
    /\ At(w, "claiming")
    /\ analysis' = [analysis EXCEPT ![TaskOf(w)] = "RUNNING"]
    /\ Go(w, [delivery[w] EXCEPT !.pc = "fetching", !.found = Target,
                                 !.allowed = entitled /\ setting.consented])
    /\ UNCHANGED <<setting, left, version, linked, photo, entitled, values, bucket, request, queue>>

\* Mutant of Whole: any object under the key is analysed.
WholeWhatever == object # "none"

\* The bytes have the digest that was confirmed.
Whole == object = "declared"

\* What the passes answer without calling a provider.
Skipped(w) ==
    IF ~setting.real THEN {"SKIPPED_DISABLED"}
    ELSE IF ~delivery[w].allowed THEN {"SKIPPED_NO_ENTITLEMENT"} ELSE {}

\* The media missing, unconfirmed, unlinked, without bytes or with others: an exception.
Fetch(w) ==
    /\ At(w, "fetching")
    /\ IF delivery[w].found /\ Whole
       THEN \/ /\ Skipped(w) = {}
               /\ Go(w, [delivery[w] EXCEPT !.pc = "reserving", !.bytes = object])
            \/ \E outcome \in Skipped(w) :
                  Go(w, [delivery[w] EXCEPT !.pc = "storing", !.bytes = object,
                                            !.outcome = outcome])
       ELSE Go(w, Free)
    /\ UNCHANGED <<setting, left, rows, bucket, request, queue>>

\* CostBudget.reserve, before every attempt; a refusal is not retried, nor taken to the
\* reserve arm.
Reserve(w) ==
    LET d == delivery[w]
    IN  /\ At(w, "reserving")
        /\ Go(w, IF d.spent + 1 > Limit
                 THEN [d EXCEPT !.pc = "storing", !.outcome = "FAILED_PERMANENT",
                                !.failure = "BUDGET_EXCEEDED"]
                 ELSE [d EXCEPT !.pc = "calling", !.spent = @ + 1, !.attempts = @ + 1])
        /\ UNCHANGED <<setting, left, rows, bucket, request, queue>>

CallAnswered(w) ==
    /\ At(w, "calling")
    /\ \E reading \in Reading :
          Go(w, [delivery[w] EXCEPT !.pc = "storing", !.sent = @ + 1, !.outcome = "DONE",
                                    !.readings = IF TaskOf(w) = "reading" THEN {reading} ELSE {}])
    /\ UNCHANGED <<setting, left, rows, bucket, request, queue>>

\* Mutant of Released: what was reserved stays spent.
ReleasedNever(d, reached) == d.spent

\* CostBudget.release: an attempt that never left costs nothing.
Released(d, reached) == IF reached THEN d.spent ELSE Max({0, d.spent - 1})

\* The arm after this one.  Classification has no reserve.
Reserves(d) == d.arm = "anthropic" /\ d.message[1] = "reading" /\ setting.reserve

\* An arm that gives up: its turn goes to the reserve, or the pass has failed.
GiveUp(d, outcome) ==
    IF Reserves(d) THEN [d EXCEPT !.pc = "reserving", !.arm = "openai", !.attempts = 0]
    ELSE [d EXCEPT !.pc = "storing", !.outcome = outcome]

\* RetryingProviderAdapter: transport failures are tried again until the ceiling or the
\* deadline, which may pass at any attempt.
CallFailed(w, transient, reached) ==
    LET d == [delivery[w] EXCEPT !.spent = Released(delivery[w], reached),
                                 !.sent = IF reached THEN @ + 1 ELSE @]
    IN  /\ At(w, "calling")
        /\ ~reached => transient
        /\ \/ /\ transient /\ d.attempts < Ceiling
              /\ Go(w, [d EXCEPT !.pc = "reserving"])
           \/ Go(w, GiveUp(d, IF transient THEN "FAILED_TRANSIENT" ELSE "FAILED_PERMANENT"))
        /\ UNCHANGED <<setting, left, rows, bucket, request, queue>>

\* The document goes under its stable key, before the status.
Store(w) ==
    /\ At(w, "storing")
    /\ artifact' = [artifact EXCEPT ![TaskOf(w)] =
                      [outcome |-> delivery[w].outcome, readings |-> delivery[w].readings,
                       of |-> delivery[w].bytes]]
    /\ Go(w, [delivery[w] EXCEPT !.pc = "settling"])
    /\ UNCHANGED <<setting, left, rows, object, request, queue>>

\* Mutant of FinalStatus: an outcome is kept as the provider pass names it.
FinalStatusRaw(task, outcome) == outcome

\* A reading is always processed: its quality was measured offline.
FinalStatus(task, outcome) ==
    IF task = "reading" THEN "PROCESSED" ELSE IF outcome = "DONE" THEN "DRAFT" ELSE outcome

Settle(w) ==
    /\ At(w, "settling")
    /\ analysis' = [analysis EXCEPT ![TaskOf(w)] = FinalStatus(TaskOf(w), delivery[w].outcome)]
    /\ Go(w, [delivery[w] EXCEPT !.pc = "returning"])
    /\ UNCHANGED <<setting, left, version, linked, photo, entitled, values, bucket, request, queue>>

Return(w) ==
    /\ At(w, "returning")
    /\ Ack(w)
    /\ UNCHANGED <<setting, left, rows, bucket, request>>

\* The worker dies, or the bucket or the database fails under it.
Interrupted(w) ==
    /\ delivery[w] # Free
    /\ Take("interruption")
    /\ Go(w, Free)
    /\ UNCHANGED <<setting, rows, bucket, request, queue>>

Run(w) ==
    \/ Check(w) \/ Claim(w) \/ Fetch(w) \/ Reserve(w)
    \/ CallAnswered(w) \/ \E transient, reached \in BOOLEAN : CallFailed(w, transient, reached)
    \/ Store(w) \/ Settle(w) \/ Return(w)

-----------------------------------------------------------------------------

Receive ==
    \E r \in Request :
       \/ \E kind \in Kind \ {"repeat", "upload", "entitlement", "interruption"}, base \in 1..version :
             Begin(r, kind, base)
       \/ \E task \in Task : RepeatRequest(r, task)

Delivered == \E w \in Worker, message \in queue : Deliver(w, message)

Next ==
    \/ Receive
    \/ \E r \in Request : Handle(r)
    \/ Upload
    \/ SetEntitlement
    \/ Delivered
    \/ \E w \in Worker : Run(w) \/ Interrupted(w)

Spec == Init /\ [][Next]_vars

\* The queue delivers what it holds; a handler that started goes on, on either side.
FairSpec ==
    /\ Spec
    /\ WF_vars(Delivered)
    /\ \A w \in Worker : WF_vars(Run(w))
    /\ \A r \in Request : WF_vars(Handle(r))

-----------------------------------------------------------------------------
(* Properties.                                                               *)

Status == {"ABSENT", "QUEUED", "RUNNING"} \cup Settled

Outcome == {"none", "DONE", "SKIPPED_DISABLED", "SKIPPED_NO_ENTITLEMENT", "FAILED_TRANSIENT",
            "FAILED_PERMANENT"}

Object == {"none", "declared", "other"}

\* The type of every variable; the statuses are those database.py and the worker write.
TypeOK ==
    /\ version \in Nat
    /\ {linked, entitled} \subseteq BOOLEAN
    /\ photo \in {"ABSENT", "PRESIGNED", "CONFIRMED"}
    /\ object \in Object
    /\ analysis \in [Task -> Status]
    /\ artifact \in [Task -> [outcome : Outcome, readings : SUBSET Reading, of : Object]]
    /\ values \in Seq([reading : Reading, active : BOOLEAN])
    /\ queue \subseteq Task \X Nat
    /\ \A r \in Request : request[r].pc \in {"idle", "look", "commit", "enqueue"}
    /\ \A w \in Worker :
          /\ delivery[w].pc \in {"idle", "checking", "claiming", "fetching", "reserving",
                                "calling", "storing", "settling", "returning"}
          /\ delivery[w].spent \in 0..Limit /\ delivery[w].attempts \in 0..Ceiling
          /\ delivery[w].outcome \in Outcome

\* No delivery sends more calls than its budget pays for, and the budget refuses a call
\* only when that many did leave: attempts that never reached a provider do not cost the
\* reserve arm its turn (BudgetedProviderAdapter).
BudgetIsWhatWasSent ==
    \A w \in Worker :
        /\ delivery[w].sent <= Limit
        /\ delivery[w].failure = "BUDGET_EXCEEDED" => delivery[w].sent = Limit

\* A confirmed value was read in the photo as it was confirmed, whatever was put under its
\* key since; and while deliveries do not overlap, what it cites stays in the document the
\* panel shows ("estado terminal não chama de novo").
ConfirmedIsRead ==
    \A i \in DOMAIN values :
        /\ artifact["reading"].of = "declared"
        /\ ~setting.overlap => values[i].reading \in artifact["reading"].readings

\* A delivery that overlaps another is interrupted: the other may take the message away,
\* and the row, taken back to RUNNING, stays there.
InterruptedOver == setting.overlap /\ left["interruption"] < setting.accepts["interruption"]

\* A published analysis ends, whatever worker dies on it, while the photo is the job's and
\* its object is the one confirmed.
EveryAnalysisSettles ==
    \A t \in Task :
        (\E message \in queue : message[1] = t)
            ~> \/ analysis[t] \notin {"QUEUED", "RUNNING"}
               \/ ~Target \/ object # "declared"
               \/ InterruptedOver
=============================================================================
