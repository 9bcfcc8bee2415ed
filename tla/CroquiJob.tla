--------------------------------- MODULE CroquiJob ---------------------------------
(***************************************************************************)
(* One job: the ingestion of its document, the two append-only chains the  *)
(* reviewers write (readings and scene), the approval of a scene, and the  *)
(* commands that run in the worker (batch trace, CAD package, chat turn).  *)
(* Several API instances and several deliveries share the rows under READ  *)
(* COMMITTED: each SELECT is a step of its own, a transaction's writes     *)
(* appear at its COMMIT, where uq_review_version, uq_scene_version,        *)
(* uq_export_target and uq_chat_turn_sequence arbitrate.                   *)
(*                                                                         *)
(* The packet has one reading.  A decision is known by the version of the  *)
(* review that records it, 0 when there is none; an element_ref by its     *)
(* ordinal.  The job has no rectangle request, like every job the hosted   *)
(* worker ingests, so that only traces and reviewers write scenes.         *)
(***************************************************************************)
EXTENDS Integers, Sequences, FiniteSets

CONSTANTS
    Requests,     \* HTTP requests the API serves at once
    Workers,      \* deliveries the queue has in flight at once
    MaxCommands,  \* bound: commands whose outcome EveryCommandSettles follows
    Scenario      \* bounds: how many acts of each kind are accepted, how many commands are
                  \* repeated, how many deliveries die or find the object store failing

Act == {"edit", "declare", "revoke", "declareOnReview", "revokeOnReview", "decide", "rectify",
        "annotate", "approve", "trace", "export", "chat"}

Bounded == Act \cup {"repeat", "crash", "storage"}

ASSUME ConstantsAssumption ==
    /\ Requests \in Nat \ {0} /\ Workers \in Nat \ {0} /\ MaxCommands \in Nat
    /\ Scenario \subseteq [Bounded -> Nat]

VARIABLES
    job,        \* jobs.status
    reviews,    \* review_revisions, by version: the decision in force, the refs declared
    scenes,     \* scene_revisions, by version
    approvals,  \* the scene versions with an ApprovalRecord
    commands,   \* the rows of trace_solves, export_artifacts and chat_turns
    packages,   \* export packages in the bucket
    request,    \* where each request being served is, and what it has read
    queue,      \* messages not yet acknowledged
    worker,     \* where each delivery is
    minted,     \* history: the element_refs the server gave out, and where
    lost,       \* history: messages the transport refused, or whose delivery broke off
    left        \* what is left of the scenario

chains == <<reviews, scenes>>
rows == <<job, chains, approvals, commands, packages>>
vars == <<rows, request, queue, worker, minted, lost, left>>

Request == 1..Requests

Worker == 1..Workers

Upload == [kind |-> "upload", id |-> 0]

Waiting == [pc |-> "idle", act |-> "none", on |-> 0, review |-> 0, scene |-> 0, highest |-> 0,
             row |-> 0, queued |-> FALSE, job |-> "UPLOADED"]

Free == [pc |-> "idle", message |-> Upload, scene |-> 0]

\* Which of the idle slots takes the next request or message is immaterial: the first.
Idle(i, slots) == slots[i].pc = "idle" /\ \A j \in DOMAIN slots : slots[j].pc = "idle" => i <= j

\* create_job committed and published the upload.
Init ==
    /\ job = "UPLOADED"
    /\ reviews = <<>>
    /\ scenes = <<>>
    /\ approvals = {}
    /\ commands = <<>>
    /\ packages = {}
    /\ request = [r \in Request |-> Waiting]
    /\ queue = {Upload}
    /\ worker = [w \in Worker |-> Free]
    /\ minted = {}
    /\ lost = {}
    /\ left \in Scenario

InFlight(row) == row.status \in {"QUEUED", "RUNNING"}

Rows(kind) == {c \in DOMAIN commands : commands[c].kind = kind}

\* The head of a chain: the revision with the highest version.
Current(chain) == chain[Len(chain)]

\* The row of the package of a scene revision, if it was ever asked for.
ExportOf(v) == {c \in Rows("export") : commands[c].scene = v}

\* The refs a set of revisions cites.
RefsOf(chain, versions) == UNION {chain[v].refs : v \in versions \cap DOMAIN chain}

\* Mutant of Cited: the current scene and the current review only.
CitedNow == RefsOf(scenes, {Len(scenes)}) \cup RefsOf(reviews, {Len(reviews)})

\* What _next_element_ref scans: every revision of both chains, those revoked since included.
Cited == RefsOf(scenes, DOMAIN scenes) \cup RefsOf(reviews, DOMAIN reviews)

\* Mutant of MayExport: the stamp alone.
MayExportStamped(v) == scenes[v].approved /\ ~scenes[v].held

\* create_export: the stamp of the scene, the record of the act, no critical issue open.
MayExport(v) == scenes[v].approved /\ v \in approvals /\ ~scenes[v].held

-----------------------------------------------------------------------------
(* The API.  A body names the versions its client saw; one that is refused   *)
(* leaves nothing behind.                                                    *)

\* What the body may point at: an element_ref, a scene revision, or nothing.
Target == {0} \cup DOMAIN scenes \cup Cited

\* What the first SELECT must find.
Accepts(act, on) ==
    /\ act \in {"edit", "declare", "annotate"} => scenes # <<>>
    /\ act = "edit" => ~Current(scenes).approved
    /\ act = "revoke" => scenes # <<>> /\ on \in Current(scenes).refs
    /\ act = "revokeOnReview" => on \in Current(reviews).refs
    /\ act = "decide" => Current(reviews).decision = 0
    /\ act \in {"rectify", "annotate"} => Current(reviews).decision # 0
    /\ act = "approve" => on \in DOMAIN scenes /\ ~scenes[on].approved /\ ~scenes[on].held
    /\ act = "export" => on \in DOMAIN scenes /\ MayExport(on)
    /\ act = "chat" => \A c \in Rows("chat") : ~InFlight(commands[c])
    /\ act \notin {"revoke", "revokeOnReview", "approve", "export"} => on = 0

\* The acts with a second SELECT before they write.
LooksAgain == {"declare", "declareOnReview", "rectify", "annotate", "approve", "trace", "export"}

\* Arrival and first SELECT, at the versions the client saw.
Begin(r, act) ==
    /\ Idle(r, request)
    /\ reviews # <<>>
    /\ left[act] > 0
    /\ left' = [left EXCEPT ![act] = @ - 1]
    /\ \E on \in Target :
          /\ Accepts(act, on)
          /\ request' = [request EXCEPT ![r] =
                [Waiting EXCEPT !.pc = IF act \in LooksAgain THEN "look" ELSE "ready",
                                !.act = act, !.on = on, !.review = Len(reviews),
                                !.scene = Len(scenes), !.job = job,
                                !.row = Cardinality(Rows("chat"))]]
    /\ UNCHANGED <<rows, queue, worker, minted, lost>>

Looking(r, acts) == request[r].pc = "look" /\ request[r].act \in acts

Ready(r, act) == request[r].pc = "ready" /\ request[r].act = act

Answered(r) == request' = [request EXCEPT ![r] = Waiting]

Seen(r, state) == request' = [request EXCEPT ![r] = state]

\* _next_element_ref, after the head was read.
LookForRefs(r) ==
    /\ Looking(r, {"declare", "declareOnReview"})
    /\ \E highest \in Cited \cup {0} :
          /\ \A ref \in Cited : ref <= highest
          /\ Seen(r, [request[r] EXCEPT !.pc = "ready", !.highest = highest])
    /\ UNCHANGED <<rows, queue, worker, minted, lost, left>>

\* The latest scene: rectify takes the one it finds, the others refuse one that moved.
LookAtScene(r) ==
    /\ Looking(r, {"rectify", "annotate", "trace", "approve"})
    /\ LET expected == IF request[r].act = "approve" THEN request[r].on ELSE request[r].scene
       IN  Seen(r, IF request[r].act = "rectify" \/ Len(scenes) = expected
                   THEN [request[r] EXCEPT !.pc = "ready", !.scene = Len(scenes)]
                   ELSE Waiting)
    /\ UNCHANGED <<rows, queue, worker, minted, lost, left>>

\* The row of the package of this revision; a COMPLETED one is the answer.
LookForExport(r) ==
    /\ Looking(r, {"export"})
    /\ LET found == ExportOf(request[r].on)
       IN  \/ /\ found = {}
             /\ Seen(r, [request[r] EXCEPT !.pc = "ready", !.row = 0])
          \/ \E c \in found :
                Seen(r, IF commands[c].status = "COMPLETED" THEN Waiting
                        ELSE [request[r] EXCEPT !.pc = "ready", !.row = c,
                                 !.queued = commands[c].status = "QUEUED"])
    /\ UNCHANGED <<rows, queue, worker, minted, lost, left>>

\* No other transaction took the next version of the chains this one appends to.
Fits(r, review, scene) ==
    /\ review # <<>> => Len(reviews) = request[r].review
    /\ scene # <<>> => Len(scenes) = request[r].scene

\* COMMIT of at most one revision of each chain, or IntegrityError and nothing.
Extend(r, review, scene) ==
    /\ reviews' = IF Fits(r, review, scene) THEN reviews \o review ELSE reviews
    /\ scenes' = IF Fits(r, review, scene) THEN scenes \o scene ELSE scenes
    /\ Answered(r)
    /\ UNCHANGED <<commands, packages, queue, worker, lost, left>>

Untouched == UNCHANGED <<job, approvals, minted>>

BaseReview(r) == reviews[request[r].review]

BaseScene(r) == scenes[request[r].scene]

\* A hypothesis is added to the scene: everything else travels.
CreateRevision(r) ==
    /\ Ready(r, "edit")
    /\ Extend(r, <<>>, <<BaseScene(r)>>)
    /\ Untouched

\* _scene_with_element_ref: a revision of its own, never approved.
WithRefs(scene, refs) == [scene EXCEPT !.refs = refs, !.approved = FALSE]

\* The ref this act gives out, and the revision that brings it.
Minted(r, side, chain) ==
    [ref |-> request[r].highest + 1, side |-> side, version |-> Len(chain) + 1]

DeclareElement(r) ==
    LET scene == <<WithRefs(BaseScene(r), BaseScene(r).refs \cup {request[r].highest + 1})>>
    IN  /\ Ready(r, "declare")
        /\ Extend(r, <<>>, scene)
        /\ minted' = minted \cup
              IF Fits(r, <<>>, scene) THEN {Minted(r, "scene", scenes)} ELSE {}
        /\ UNCHANGED <<job, approvals>>

RevokeElement(r) ==
    /\ Ready(r, "revoke")
    /\ Extend(r, <<>>, <<WithRefs(BaseScene(r), BaseScene(r).refs \ {request[r].on})>>)
    /\ Untouched

DeclareReviewElement(r) ==
    LET review == <<[BaseReview(r) EXCEPT !.refs = @ \cup {request[r].highest + 1}]>>
    IN  /\ Ready(r, "declareOnReview")
        /\ Extend(r, review, <<>>)
        /\ minted' = minted \cup
              IF Fits(r, review, <<>>) THEN {Minted(r, "review", reviews)} ELSE {}
        /\ UNCHANGED <<job, approvals>>

RevokeReviewElement(r) ==
    /\ Ready(r, "revokeOnReview")
    /\ Extend(r, <<[BaseReview(r) EXCEPT !.refs = @ \ {request[r].on}]>>, <<>>)
    /\ Untouched

Decided(r) == <<[BaseReview(r) EXCEPT !.decision = request[r].review + 1]>>

SubmitReviewDecisions(r) ==
    /\ Ready(r, "decide")
    /\ Extend(r, Decided(r), <<>>)
    /\ Untouched

\* The latest scene, if its geometry holds the decision rectified, is succeeded by one that
\* carries READING_DECISION_SUPERSEDED.
RectifyReviewDecisions(r) ==
    /\ Ready(r, "rectify")
    /\ Extend(r, Decided(r),
              IF request[r].scene # 0 /\ BaseReview(r).decision \in BaseScene(r).rests
              THEN <<[BaseScene(r) EXCEPT !.held = TRUE, !.approved = FALSE]>> ELSE <<>>)
    /\ Untouched

\* The dimension rests on the decision; the stamp of approval is copied with the scene.
AnnotateDimension(r) ==
    /\ Ready(r, "annotate")
    /\ Extend(r, <<BaseReview(r)>>,
              <<[BaseScene(r) EXCEPT !.rests = @ \cup {BaseReview(r).decision}]>>)
    /\ Untouched

ApproveScene(r) ==
    LET scene == <<[BaseScene(r) EXCEPT !.approved = TRUE]>>
    IN  /\ Ready(r, "approve")
        /\ Extend(r, <<>>, scene)
        /\ IF Fits(r, <<>>, scene)
           THEN approvals' = approvals \cup {Len(scenes) + 1} /\ job' = "APPROVED"
           ELSE UNCHANGED <<approvals, job>>
        /\ UNCHANGED minted

Command(kind, review, scene) ==
    [kind |-> kind, review |-> review, scene |-> scene, status |-> "QUEUED"]

\* The COMMIT of a command; its message goes out afterwards.
Record(r, table, c) ==
    /\ commands' = table
    /\ Seen(r, [Waiting EXCEPT !.pc = "enqueue", !.row = c])
    /\ UNCHANGED <<chains, approvals, packages, queue, worker, minted, lost, left>>

NewCommand == Len(commands) + 1

\* uq_export_target, uq_chat_turn_sequence: another request inserted the same row.
Refused(r) ==
    Answered(r) /\ UNCHANGED <<rows, queue, worker, minted, lost, left>>

CreateTraceSolve(r) ==
    /\ Ready(r, "trace")
    /\ Record(r, commands \o <<Command("trace", request[r].review, request[r].scene)>>, NewCommand)
    /\ UNCHANGED job

\* A row found QUEUED is left as it is by now; one found RUNNING or FAILED is queued again,
\* whatever it is by now.  The same for the status of the job.
CreateExport(r) ==
    LET c == request[r].row
        status == IF request[r].job = "EXPORTING" THEN job ELSE "EXPORTING"
    IN  /\ Ready(r, "export")
        /\ \/ /\ c = 0 /\ ExportOf(request[r].on) = {}
              /\ Record(r, commands \o <<Command("export", 0, request[r].on)>>, NewCommand)
              /\ job' = status
           \/ /\ c = 0 /\ ExportOf(request[r].on) # {}
              /\ Refused(r)
           \/ /\ c # 0
              /\ Record(r, IF request[r].queued THEN commands
                           ELSE [commands EXCEPT ![c].status = "QUEUED"], c)
              /\ job' = status

CreateChatTurn(r) ==
    /\ Ready(r, "chat")
    /\ IF Cardinality(Rows("chat")) = request[r].row
       THEN /\ Record(r, commands \o <<Command("chat", 0, 0)>>, NewCommand)
            /\ UNCHANGED job
       ELSE Refused(r)

Message(c) == [kind |-> commands[c].kind, id |-> c]

\* After the COMMIT; the transport may refuse, and these routes do not publish again.
Enqueue(r) ==
    LET message == Message(request[r].row)
    IN  /\ request[r].pc = "enqueue"
        /\ \/ queue' = queue \cup {message} /\ UNCHANGED lost
           \/ lost' = lost \cup {message} /\ UNCHANGED queue
        /\ Answered(r)
        /\ UNCHANGED <<rows, worker, minted, left>>

\* create_job with the same Idempotency-Key: the stored answer, and the message again.
RepeatCreateJob ==
    /\ left["repeat"] > 0
    /\ left' = [left EXCEPT !["repeat"] = @ - 1]
    /\ queue' = queue \cup {Upload}
    /\ UNCHANGED <<rows, request, worker, minted, lost>>

Handle(r) ==
    \/ LookForRefs(r) \/ LookAtScene(r) \/ LookForExport(r)
    \/ CreateRevision(r) \/ DeclareElement(r) \/ RevokeElement(r)
    \/ DeclareReviewElement(r) \/ RevokeReviewElement(r)
    \/ SubmitReviewDecisions(r) \/ RectifyReviewDecisions(r) \/ AnnotateDimension(r)
    \/ ApproveScene(r)
    \/ CreateTraceSolve(r) \/ CreateExport(r) \/ CreateChatTurn(r) \/ Enqueue(r)

-----------------------------------------------------------------------------
(* The worker.  A normal return acknowledges the message; an exception, a    *)
(* crash or a deadline leaves it to be delivered again.                      *)

At(w, pc) == worker[w].pc = pc

Put(w, state) == worker' = [worker EXCEPT ![w] = state]

Go(w, pc) == Put(w, [worker[w] EXCEPT !.pc = pc])

Ack(w) == Put(w, Free) /\ queue' = queue \ {worker[w].message}

Row(w) == commands[worker[w].message.id]

\* The UPDATE of the row this delivery is about.
Status(w, status) == commands' = [commands EXCEPT ![worker[w].message.id].status = status]

\* The handler raised: the delivery ends without an acknowledgement.
Raise(w) == Put(w, Free) /\ lost' = lost \cup {worker[w].message}

Deliver(w, message) ==
    /\ Idle(w, worker)
    /\ Put(w, [Free EXCEPT !.pc = IF message = Upload THEN "ingesting" ELSE "claiming",
                           !.message = message])
    /\ UNCHANGED <<rows, request, queue, minted, lost, left>>

Ingested == {"REVIEW_REQUIRED", "APPROVED", "EXPORTING", "COMPLETED"}

\* _handle_upload: the status, read before the document is fetched and the providers paid.
CheckIngested(w) ==
    /\ At(w, "ingesting")
    /\ IF job \in Ingested THEN Ack(w) ELSE Go(w, "reading") /\ UNCHANGED queue
    /\ UNCHANGED <<rows, request, minted, lost, left>>

\* Mutant of FirstReview: the snapshot is appended to whatever is there.
FirstReviewAgain == reviews \o <<[decision |-> 0, refs |-> {}]>>

\* insert_review_revision_v1 refuses a job that has a review.
FirstReview == IF reviews = <<>> THEN <<[decision |-> 0, refs |-> {}]>> ELSE reviews

Ingest(w) ==
    /\ At(w, "reading")
    /\ reviews' = FirstReview
    /\ job' = "REVIEW_REQUIRED"
    /\ Ack(w)
    /\ UNCHANGED <<scenes, approvals, commands, packages, request, minted, lost, left>>

\* No authorisation, an invalid document, the budget exhausted.
MarkFailed(w) ==
    /\ At(w, "reading")
    /\ job' = "FAILED"
    /\ Ack(w)
    /\ UNCHANGED <<chains, approvals, commands, packages, request, minted, lost, left>>

\* Mutant of Claimable: whatever is not finished.
ClaimableUnfinished == {"QUEUED", "RUNNING", "FAILED"}

\* The statuses the UPDATE of a claim takes to RUNNING.
Claimable == {"QUEUED", "FAILED"}

\* Where each command goes on from its claim.
Work == [trace |-> "solving", export |-> "building", chat |-> "answering"]

Claim(w) ==
    /\ At(w, "claiming")
    /\ IF Row(w).status \in Claimable
       THEN Status(w, "RUNNING") /\ Go(w, Work[Row(w).kind]) /\ UNCHANGED queue
       ELSE Ack(w) /\ UNCHANGED commands
    /\ UNCHANGED <<job, chains, approvals, packages, request, minted, lost, left>>

\* Mutant of Unmoved: the readings only.
UnmovedReview(row) == Len(reviews) = row.review

\* The heads are still those the reviewer accepted.
Unmoved(row) == Len(reviews) = row.review /\ Len(scenes) = row.scene

\* _handle_trace_solve: a conflict is a result, like a batch the solver refuses.
Solve(w) ==
    /\ At(w, "solving")
    /\ \/ /\ Unmoved(Row(w))
          /\ Put(w, [worker[w] EXCEPT !.pc = "landing", !.scene = Len(scenes)])
          /\ UNCHANGED <<commands, queue>>
       \/ Status(w, "COMPLETED") /\ Ack(w)
       \/ Unmoved(Row(w)) /\ Status(w, "FAILED") /\ Ack(w)
    /\ UNCHANGED <<job, chains, approvals, packages, request, minted, lost, left>>

\* The geometry is solved anew from the decision in force and the refs of the accepted review.
Traced(review) ==
    [rests |-> {review.decision} \ {0}, held |-> FALSE, refs |-> review.refs, approved |-> FALSE]

\* Mutant of LandConflict: the row is left RUNNING.
LandConflictUnrecorded(w) == UNCHANGED <<chains, commands>>

\* IntegrityError: another act took the version, and the conflict is the outcome.
LandConflict(w) == UNCHANGED chains /\ Status(w, "COMPLETED")

\* One transaction for both revisions and the outcome.
Land(w) ==
    LET base == reviews[Row(w).review]
    IN  /\ At(w, "landing")
        /\ IF Len(reviews) = Row(w).review /\ Len(scenes) = worker[w].scene
           THEN /\ reviews' = reviews \o <<base>>
                /\ scenes' = scenes \o <<Traced(base)>>
                /\ Status(w, "COMPLETED")
           ELSE LandConflict(w)
        /\ Ack(w)
        /\ UNCHANGED <<job, approvals, packages, request, minted, lost, left>>

\* _handle_export: built, audited and stored, or refused by the audit, or the store fails.
Build(w) ==
    /\ At(w, "building")
    /\ \/ /\ packages' = packages \cup {worker[w].message.id}
          /\ Go(w, "finishing")
          /\ UNCHANGED <<job, commands, queue, lost, left>>
       \/ /\ Status(w, "FAILED") /\ job' = "FAILED" /\ Ack(w)
          /\ UNCHANGED <<packages, lost, left>>
       \/ /\ left["storage"] > 0
          /\ left' = [left EXCEPT !["storage"] = @ - 1]
          /\ Raise(w)
          /\ UNCHANGED <<job, commands, packages, queue>>
    /\ UNCHANGED <<chains, approvals, request, minted>>

\* _finish_export writes whatever the row is by now.
FinishExport(w) ==
    /\ At(w, "finishing")
    /\ Status(w, "COMPLETED")
    /\ job' = "COMPLETED"
    /\ Ack(w)
    /\ UNCHANGED <<chains, approvals, packages, request, minted, lost, left>>

\* _handle_chat_turn: the page is fetched and the provider called, or the store fails.
Ask(w) ==
    /\ At(w, "answering")
    /\ \/ Go(w, "answered") /\ UNCHANGED <<lost, left>>
       \/ /\ left["storage"] > 0
          /\ left' = [left EXCEPT !["storage"] = @ - 1]
          /\ Raise(w)
    /\ UNCHANGED <<rows, request, queue, minted>>

AnswerTurn(w) ==
    /\ At(w, "answered")
    /\ \E status \in {"COMPLETED", "FAILED"} : Status(w, status)
    /\ Ack(w)
    /\ UNCHANGED <<job, chains, approvals, packages, request, minted, lost, left>>

\* The process dies: what it had committed stays, and so does its message.
Crash(w) ==
    /\ left["crash"] > 0
    /\ ~At(w, "idle")
    /\ left' = [left EXCEPT !["crash"] = @ - 1]
    /\ Raise(w)
    /\ UNCHANGED <<rows, request, queue, minted>>

Run(w) ==
    \/ \E message \in queue : Deliver(w, message)
    \/ CheckIngested(w) \/ Ingest(w) \/ MarkFailed(w)
    \/ Claim(w) \/ Solve(w) \/ Land(w) \/ Build(w) \/ FinishExport(w) \/ Ask(w) \/ AnswerTurn(w)

Next ==
    \/ \E r \in Request : Handle(r) \/ \E act \in Act : Begin(r, act)
    \/ \E w \in Worker : Run(w) \/ Crash(w)
    \/ RepeatCreateJob

Spec == Init /\ [][Next]_vars

\* A request being served ends, and so does a delivery: the process is scheduled, or it
\* crashed.  Nothing makes a client send.
FairSpec ==
    /\ Spec
    /\ \A r \in Request : WF_vars(Handle(r))
    /\ \A w \in Worker : WF_vars(Run(w))

-----------------------------------------------------------------------------
(* What the code promises.                                                   *)

Statuses == {"QUEUED", "RUNNING", "COMPLETED", "FAILED"}
JobStatuses == Ingested \cup {"UPLOADED", "FAILED"}
Kinds == {"trace", "export", "chat"}

Readings == [decision : Nat, refs : SUBSET Nat]
Scene == [rests : SUBSET Nat, held : BOOLEAN, refs : SUBSET Nat, approved : BOOLEAN]
CommandRow == [kind : Kinds, review : Nat, scene : Nat, status : Statuses]
Messages == [kind : Kinds \cup {"upload"}, id : Nat]
Mint == [ref : Nat, side : {"scene", "review"}, version : Nat]

Serving ==
    [pc : {"idle", "look", "ready", "enqueue"}, act : Act \cup {"none"}, on : Nat, review : Nat,
     scene : Nat, highest : Nat, row : Nat, queued : BOOLEAN, job : JobStatuses]

Delivery ==
    [pc : {"idle", "ingesting", "reading", "claiming", "solving", "landing", "building",
           "finishing", "answering", "answered"}, message : Messages, scene : Nat]

\* Every variable stays within its columns and its control points.
TypeOK ==
    /\ job \in JobStatuses
    /\ reviews \in Seq(Readings)
    /\ scenes \in Seq(Scene)
    /\ approvals \subseteq 1..Len(scenes)
    /\ commands \in Seq(CommandRow)
    /\ packages \subseteq 1..Len(commands)
    /\ request \in [Request -> Serving]
    /\ queue \subseteq Messages
    /\ worker \in [Worker -> Delivery]
    /\ minted \subseteq Mint
    /\ lost \subseteq Messages
    /\ left \in [Bounded -> Nat]

\* _next_element_ref: "nunca reaproveitado".  A ref names one element for the life of the
\* job, revocations and new traces included; the docstring admits one exception, two
\* declarations at the same moment on the two sides.
RefNamesOneElement ==
    \A a, b \in minted : a.ref = b.ref /\ a.side = b.side => a = b

\* rectify_review_decisions: a head scene whose geometry rests on a decision no longer in
\* force carries the critical issue and no approval, whichever traces, annotations,
\* approvals and late ingestions crossed the rectification.
SupersededIsBlocked ==
    scenes # <<>> /\ ~(Current(scenes).rests \subseteq {Current(reviews).decision})
        => Current(scenes).held /\ ~Current(scenes).approved

\* A trace lands only on the two heads the reviewer accepted it over: no act that came in
\* between is silently drawn over.
TraceLandsOnItsBase ==
    [][\A w \in Worker : At(w, "landing") /\ worker'[w] # worker[w] /\ scenes' # scenes
          => Len(reviews) = Row(w).review /\ Len(scenes) = Row(w).scene]_vars

\* A package declared COMPLETED is in the bucket, and is of a revision somebody approved.
ExportedWasApproved ==
    \A c \in Rows("export") :
        commands[c].status = "COMPLETED" => c \in packages /\ commands[c].scene \in approvals

\* "Replay of a recorded outcome never re-solves" and never rewrites an answer: a trace or a
\* chat turn COMPLETED stays as it was, however often its message is delivered.
OutcomeIsFinal ==
    [][\A c \in Rows("trace") \cup Rows("chat") :
          commands[c].status = "COMPLETED" => commands'[c] = commands[c]]_vars

\* A command nobody answered yet, and one whose message was lost or delivery broke off.
Pending(c) == c \in {d \in DOMAIN commands : InFlight(commands[d])}

BrokeOff(c) == \E message \in lost : message.id = c

\* Every command made durable gets its outcome; unless the transport refused its message or
\* its delivery broke off, after which nothing takes a RUNNING row back.
EveryCommandSettles == \A c \in 1..MaxCommands : Pending(c) ~> ~Pending(c) \/ BrokeOff(c)
=============================================================================
