--------------------------------- MODULE JobReview ---------------------------------
(***************************************************************************)
(* What the two append-only chains of one job carry from revision to       *)
(* revision: the readings and their decisions, the side columns reviewers  *)
(* write, the proposals of the vision model, their calibration, and the    *)
(* geometry they put in the scene.  CroquiJob models the job around it:    *)
(* approvals, commands, queue and deliveries; here a trace is accepted and *)
(* landed by one slot, and refresh-proposals is one more writer.           *)
(*                                                                         *)
(* Each SELECT is a step, a transaction's writes appear at its COMMIT, and *)
(* uq_review_version and uq_scene_version arbitrate.  A record is known by *)
(* the version of the review that brought it.                              *)
(***************************************************************************)
EXTENDS Integers, Sequences, FiniteSets

CONSTANTS
    Readings,   \* the readings of the packet
    Proposals,  \* the proposals of the snapshot
    Labels,     \* names an element may have
    Requests,   \* writers at once
    Scenario    \* bounds: the rectangle asked for at the seed, how many acts of each kind

Act == {"edit", "decide", "rectify", "chain", "witness", "observe", "calibrate", "propose",
        "batch", "correct", "dimension", "note", "declare", "revoke", "relabel", "trace",
        "refresh"}

ASSUME ConstantsAssumption ==
    /\ Requests \in Nat \ {0}
    /\ Scenario \subseteq [rectangle : SUBSET Readings, acts : [Act -> Nat]]

VARIABLES
    rectangle,  \* the readings solver_request_json waits for; {} when the job has none
    reviews,    \* review_revisions, by version
    scenes,     \* scene_revisions, by version
    request,    \* where each writer is, and the versions it has read
    left        \* what is left of the scenario

vars == <<rectangle, reviews, scenes, request, left>>

Request == 1..Requests

\* How a decision may leave a reading: rejected, confirmed as an annotation without an
\* element, or confirmed on an element with one of two values.
Measured == {"short", "long"}
Confirmed == {"noted"} \cup Measured
Outcomes == {"rejected"} \cup Confirmed

Undecided == [at |-> 0, outcome |-> "none"]

\* The exact geometry a calibration anchors to: the ids of its entities follow from the maker
\* (uuid5 of the feature), their coordinates from the values that shaped it.
NoFrame == [maker |-> "none", shape |-> {}]

Uncalibrated == [made |-> 0, scene |-> 0, frame |-> NoFrame, snapshot |-> 0]

\* insert_review_revision_v1, as seed-review calls it.
FirstReview ==
    [readings |-> [x \in Readings |-> Undecided], decided |-> [p \in Proposals |-> "open"],
     calibration |-> Uncalibrated, snapshot |-> 0, chains |-> {}, witnesses |-> {},
     observations |-> <<>>, elements |-> <<>>, corrections |-> {}, scene |-> 0]

NoScene == [frame |-> NoFrame, drawn |-> {}, lines |-> {}, issues |-> {}]

Waiting == [pc |-> "idle", act |-> "none", review |-> 0, scene |-> 0]

Init ==
    \E s \in Scenario :
        /\ rectangle = s.rectangle
        /\ left = s.acts
        /\ reviews = <<FirstReview>>
        /\ scenes = <<>>
        /\ request = [r \in Request |-> Waiting]

Current(chain) == chain[Len(chain)]

LatestScene == IF scenes = <<>> THEN NoScene ELSE Current(scenes)

BaseReview(r) == reviews[request[r].review]

BaseScene(r) == IF request[r].scene = 0 THEN NoScene ELSE scenes[request[r].scene]

\* The versions a commit of this writer would bring.
NextReview(r) == request[r].review + 1

NextScene(r) == request[r].scene + 1

Seen(r, state) == request' = [request EXCEPT ![r] = state]

Ready(r, act) == request[r].pc = "ready" /\ request[r].act = act

-----------------------------------------------------------------------------
(* Reading before writing.                                                   *)

\* The acts whose handler reads the latest scene after the review.
LooksAtScene == {"decide", "rectify", "calibrate", "propose", "batch", "correct", "dimension",
                 "note", "trace"}

\* First SELECT, at the version the client saw.  refresh-proposals goes on from the scene the
\* review points at, and not from the latest.
Begin(r, act) ==
    /\ request[r].pc = "idle"
    /\ \A q \in 1..(r - 1) : request[q].pc # "idle"
    /\ left[act] > 0
    /\ left' = [left EXCEPT ![act] = @ - 1]
    /\ Seen(r, [pc |-> IF act \in LooksAtScene THEN "look" ELSE "ready", act |-> act,
                review |-> Len(reviews),
                scene |-> IF act = "refresh" THEN Current(reviews).scene ELSE Len(scenes)])
    /\ UNCHANGED <<rectangle, reviews, scenes>>

\* The latest scene: the acts on readings take the one they find, the others refuse one that
\* is not the one their client saw.
LookAtScene(r) ==
    /\ request[r].pc = "look"
    /\ Seen(r, IF request[r].act \in {"decide", "rectify"} \/ Len(scenes) = request[r].scene
               THEN [request[r] EXCEPT !.pc = "ready", !.scene = Len(scenes)]
               ELSE Waiting)
    /\ UNCHANGED <<rectangle, reviews, scenes, left>>

\* A body no guard below admits, a trace the solver refuses, a lost connection.
Refuse(r) ==
    /\ request[r].pc = "ready"
    /\ Seen(r, Waiting)
    /\ UNCHANGED <<rectangle, reviews, scenes, left>>

\* No other transaction took the next version of the chains this one appends to.
Fits(chain, version, appended) == appended = <<>> \/ Len(chain) = version

\* Mutant of Extend: every INSERT commits on its own.
ExtendEach(r, review, scene) ==
    /\ reviews' = IF Fits(reviews, request[r].review, review) THEN reviews \o review ELSE reviews
    /\ scenes' = IF Fits(scenes, request[r].scene, scene) THEN scenes \o scene ELSE scenes
    /\ Seen(r, Waiting)
    /\ UNCHANGED <<rectangle, left>>

\* COMMIT of at most one revision of each chain, or IntegrityError and nothing.
Extend(r, review, scene) ==
    LET fits == /\ Fits(reviews, request[r].review, review)
                /\ Fits(scenes, request[r].scene, scene)
    IN  /\ reviews' = IF fits THEN reviews \o review ELSE reviews
        /\ scenes' = IF fits THEN scenes \o scene ELSE scenes
        /\ Seen(r, Waiting)
        /\ UNCHANGED <<rectangle, left>>

\* The acts that bring a review and leave the scene alone.
AppendReview(r, review) == Extend(r, <<review>>, <<>>)

\* create_revision: a hypothesis; approvals and scene elements copy the geometry likewise.
CreateRevision(r) ==
    /\ Ready(r, "edit")
    /\ request[r].scene # 0
    /\ Extend(r, <<>>, <<BaseScene(r)>>)

-----------------------------------------------------------------------------
(* Decisions on readings, and the rectangle solved anew from them.           *)

\* solve_rectangle has no blocker: every reading asked for is confirmed on an element.
Solvable(review) ==
    rectangle # {} /\ \A x \in rectangle : review.readings[x].outcome \in Measured

\* _human_accepted_entities.
Preserved(scene) == {l \in scene.lines : l.accepted}

\* Mutant of Revalidated: the calibration follows the scene without being solved again.
RestampedOnly(calibration, frame, snapshot, version) ==
    IF calibration = Uncalibrated THEN Uncalibrated ELSE [calibration EXCEPT !.scene = version]

\* revalidate_calibration: the anchors give the same transform on this scene, or none.
Revalidated(calibration, frame, snapshot, version) ==
    IF calibration # Uncalibrated /\ calibration.frame = frame /\ calibration.snapshot = snapshot
    THEN [calibration EXCEPT !.scene = version]
    ELSE Uncalibrated

SolverFrame(review) ==
    [maker |-> "solver", shape |-> {<<x, review.readings[x].outcome>> : x \in rectangle}]

\* The decision in force of a reading, drawn in a scene version.
Drawing(review, x, version) ==
    [reading |-> x, at |-> review.readings[x].at, made |-> version]

\* Mutant of Frozen: only the decision that drops the calibration holds the lines back.
FrozenAtTheDrop(before, kept, calibration) ==
    IF kept # {} /\ before # Uncalibrated /\ calibration = Uncalibrated
    THEN {"CALIBRATION_SUPERSEDED"} ELSE {}

\* Accepted lines without a calibration are held back.
Frozen(before, kept, calibration) ==
    IF kept # {} /\ calibration = Uncalibrated THEN {"CALIBRATION_SUPERSEDED"} ELSE {}

\* _resolve_scene_after_review_change: the rectangle, and the lines a professional accepted.
\* Nothing else of the latest scene survives, its issues neither.
SolvedScene(r, review) ==
    LET frame == SolverFrame(review)
        kept == Preserved(BaseScene(r))
    IN  [frame |-> frame,
         drawn |-> {Drawing(review, x, NextScene(r)) : x \in rectangle},
         lines |-> kept,
         issues |-> Frozen(review.calibration, kept,
                           Revalidated(review.calibration, frame, review.snapshot, NextScene(r)))]

SolvedReview(r, review) ==
    [review EXCEPT !.scene = NextScene(r),
                   !.calibration = Revalidated(@, SolverFrame(review), review.snapshot,
                                               NextScene(r))]

Decided(r, x, outcome) ==
    [BaseReview(r) EXCEPT !.readings[x] = [at |-> NextReview(r), outcome |-> outcome]]

\* A scene that is not solved leaves the new review pointing at none.
SubmitReviewDecisions(r) ==
    /\ Ready(r, "decide")
    /\ \E x \in Readings, outcome \in Outcomes :
          LET review == Decided(r, x, outcome)
          IN  /\ BaseReview(r).readings[x].at = 0
              /\ IF Solvable(review)
                 THEN Extend(r, <<SolvedReview(r, review)>>, <<SolvedScene(r, review)>>)
                 ELSE AppendReview(r, [review EXCEPT !.scene = 0])

\* Mutant of Holding: the scene the review points at.
HoldingPointed(r) == IF BaseReview(r).scene = 0 THEN NoScene ELSE scenes[BaseReview(r).scene]

\* The scene searched for entities that hold the decision: the latest.
Holding(r) == BaseScene(r)

\* _entities_holding_decisions and _with_critical_issue.
Superseded(r, at) ==
    IF \E d \in Holding(r).drawn : d.at = at
    THEN <<[BaseScene(r) EXCEPT !.issues = @ \cup {"READING_DECISION_SUPERSEDED"}]>> ELSE <<>>

RectifyReviewDecisions(r) ==
    /\ Ready(r, "rectify")
    /\ \E x \in Readings, outcome \in Outcomes :
          LET before == BaseReview(r).readings[x]
              review == Decided(r, x, outcome)
              held == Superseded(r, before.at)
          IN  /\ before.at # 0 /\ outcome # before.outcome
              /\ IF Solvable(review)
                 THEN Extend(r, <<SolvedReview(r, review)>>, <<SolvedScene(r, review)>>)
                 ELSE Extend(r, <<IF held = <<>> THEN review
                                  ELSE [review EXCEPT !.scene = NextScene(r)]>>, held)

-----------------------------------------------------------------------------
(* The side columns.                                                         *)

\* The column without one of its records, or with the record of this act.
Changes(r, column) == {column \cup {NextReview(r)}} \cup {column \ {at} : at \in column}

DeclareReviewChain(r) ==
    /\ Ready(r, "chain")
    /\ \E chains \in Changes(r, BaseReview(r).chains) :
          AppendReview(r, [BaseReview(r) EXCEPT !.chains = chains])

\* The two acts on field evidence list the columns they carry, and the elements are not in
\* the list: the row takes the default of the column.
WithoutElements(review) == [review EXCEPT !.elements = <<>>]

\* A witness is for a confirmed reading.
MutateReviewWitnesses(r) ==
    /\ Ready(r, "witness")
    /\ \E witnesses \in Changes(r, BaseReview(r).witnesses) :
          /\ NextReview(r) \in witnesses =>
                \E x \in Readings : BaseReview(r).readings[x].outcome \in Confirmed
          /\ AppendReview(r, WithoutElements([BaseReview(r) EXCEPT !.witnesses = witnesses]))

Observation(r, status) == <<[at |-> NextReview(r), status |-> status]>>

Observed(review, statuses) ==
    \E i \in DOMAIN review.observations : review.observations[i].status \in statuses

\* Mutant of Supersede: the observation corrected stays in force.
SupersedeNothing(observations) == observations

\* Mutant of Supersede: a status the column does not know.
CorrectStatus(observations) ==
    [i \in DOMAIN observations |->
        IF observations[i].status = "ACTIVE"
        THEN [observations[i] EXCEPT !.status = "CORRECTED"] ELSE observations[i]]

\* The observation in force, once corrected.
Supersede(observations) ==
    [i \in DOMAIN observations |->
        IF observations[i].status = "ACTIVE"
        THEN [observations[i] EXCEPT !.status = "SUPERSEDED"] ELSE observations[i]]

\* Record, correct or dismiss, on one photo with a draft.
MutateReviewFieldObservations(r) ==
    /\ Ready(r, "observe")
    /\ LET review == BaseReview(r)
           Becomes(observations) ==
              AppendReview(r, WithoutElements([review EXCEPT !.observations = observations]))
       IN  \/ /\ ~Observed(review, {"ACTIVE"})
              /\ Becomes(review.observations \o Observation(r, "ACTIVE"))
           \/ /\ Observed(review, {"ACTIVE"})
              /\ Becomes(Supersede(review.observations) \o Observation(r, "ACTIVE"))
           \/ /\ ~Observed(review, {"ACTIVE", "DISMISSED"})
              /\ Becomes(review.observations \o Observation(r, "DISMISSED"))

ActiveElements(review) == {i \in DOMAIN review.elements : review.elements[i].active}

\* Mutant of LabelFree: the names of the elements in force are not looked at.
LabelUnchecked(review, label, ignoring) == TRUE

\* _review_element_label_owner finds nobody; an element may have no name.
LabelFree(review, label, ignoring) ==
    label = "" \/ \A i \in ActiveElements(review) \ ignoring : review.elements[i].label # label

DeclareReviewElement(r) ==
    /\ Ready(r, "declare")
    /\ \E group \in SUBSET Proposals \ {{}}, label \in Labels \cup {""} :
          LET element == [at |-> NextReview(r), label |-> label, group |-> group,
                          active |-> TRUE]
          IN  /\ \A i \in ActiveElements(BaseReview(r)) :
                    BaseReview(r).elements[i].group \cap group = {}
              /\ LabelFree(BaseReview(r), label, {})
              /\ AppendReview(r, [BaseReview(r) EXCEPT !.elements = @ \o <<element>>])

RevokeReviewElement(r) ==
    /\ Ready(r, "revoke")
    /\ \E i \in ActiveElements(BaseReview(r)) :
          AppendReview(r, [BaseReview(r) EXCEPT !.elements[i].active = FALSE])

RelabelReviewElement(r) ==
    /\ Ready(r, "relabel")
    /\ \E i \in ActiveElements(BaseReview(r)), label \in Labels :
          /\ LabelFree(BaseReview(r), label, {i})
          /\ AppendReview(r, [BaseReview(r) EXCEPT !.elements[i].label = label])

-----------------------------------------------------------------------------
(* Calibration, proposals, annotations.                                      *)

CreateProposalCalibration(r) ==
    /\ Ready(r, "calibrate")
    /\ request[r].scene # 0
    /\ AppendReview(r, [BaseReview(r) EXCEPT
          !.calibration = [made |-> NextReview(r), scene |-> request[r].scene,
                           frame |-> BaseScene(r).frame, snapshot |-> BaseReview(r).snapshot],
          !.scene = request[r].scene])

\* The calibration of the review may serve: it is of this scene, or its anchors exist in it.
Usable(r) ==
    LET calibration == BaseReview(r).calibration
    IN  /\ calibration # Uncalibrated
        /\ \/ calibration.scene = request[r].scene
           \/ calibration.frame.maker = BaseScene(r).frame.maker

\* approximate_entity_from_proposal, under the calibration in force.
Projected(r, p) == [proposal |-> p, under |-> BaseReview(r).calibration.made, accepted |-> TRUE]

Decisions(r, group, action) ==
    [BaseReview(r) EXCEPT !.decided = [p \in Proposals |-> IF p \in group THEN action ELSE @[p]]]

\* The whole group or nothing; a rejection leaves the review on the latest scene.
DecideGroup(r, group) ==
    /\ request[r].scene # 0
    /\ \A p \in group : BaseReview(r).decided[p] = "open"
    /\ \/ /\ Usable(r)
          /\ Extend(r, <<[Decisions(r, group, "accept") EXCEPT !.scene = NextScene(r)]>>,
                    <<[BaseScene(r) EXCEPT !.lines = @ \cup {Projected(r, p) : p \in group}]>>)
       \/ AppendReview(r, [Decisions(r, group, "reject") EXCEPT !.scene = request[r].scene])

DecideProposal(r) ==
    Ready(r, "propose") /\ \E p \in Proposals : DecideGroup(r, {p})

DecideProposalBatch(r) ==
    Ready(r, "batch") /\ \E group \in SUBSET Proposals \ {{}} : DecideGroup(r, group)

\* A form drawn by a person, derived from proposals nobody decided.
CorrectProposalShape(r) ==
    /\ Ready(r, "correct")
    /\ request[r].scene # 0
    /\ \E p \in Proposals : BaseReview(r).decided[p] = "open"
    /\ AppendReview(r, [BaseReview(r) EXCEPT !.corrections = @ \cup {NextReview(r)}])

\* Mutant of Undrawn: a decision is drawn once, and the reading once per decision.
UndrawnDecision(r, x) ==
    \A d \in BaseScene(r).drawn : d.reading # x \/ d.at # BaseReview(r).readings[x].at

\* No dimension and no text of the scene is of this reading.
Undrawn(r, x) == \A d \in BaseScene(r).drawn : d.reading # x

\* _annotation_target.
Annotable(r, x) ==
    /\ request[r].scene # 0
    /\ BaseReview(r).readings[x].outcome \in Confirmed
    /\ Undrawn(r, x)

Annotated(r, x, scene) ==
    Extend(r, <<[BaseReview(r) EXCEPT !.scene = NextScene(r)]>>,
           <<[scene EXCEPT !.drawn = @ \cup {Drawing(BaseReview(r), x, NextScene(r))}]>>)

\* annotate_traced_line stretches the line to the value and takes over its provenance: an
\* anchor, a line accepted from a proposal, or any other.
AnnotateDimension(r) ==
    /\ Ready(r, "dimension")
    /\ \E x \in Readings :
          /\ Annotable(r, x)
          /\ \/ Annotated(r, x, [BaseScene(r) EXCEPT
                   !.frame.shape = @ \cup {<<x, BaseReview(r).readings[x].outcome>>}])
             \/ \E l \in BaseScene(r).lines :
                   Annotated(r, x, [BaseScene(r) EXCEPT
                      !.lines = (@ \ {l}) \cup {[l EXCEPT !.accepted = FALSE]}])
             \/ Annotated(r, x, BaseScene(r))

AnnotateNote(r) ==
    Ready(r, "note") /\ \E x \in Readings : Annotable(r, x) /\ Annotated(r, x, BaseScene(r))

-----------------------------------------------------------------------------
(* The worker: a trace that lands, a snapshot that is refreshed.             *)

\* solve_trace over the same lines of the drawing, with the readings it could apply.
Traced(r, applied, value) ==
    [frame |-> [maker |-> "trace", shape |-> {<<"trace", value>>}],
     drawn |-> {Drawing(BaseReview(r), x, NextScene(r)) : x \in applied},
     lines |-> {}, issues |-> {}]

\* The columns listed by the two writers of the worker: shape_corrections_json is not one.
WithoutCorrections(review) == [review EXCEPT !.corrections = {}]

\* _handle_trace_solve and _insert_traced_revisions.
LandTrace(r) ==
    /\ Ready(r, "trace")
    /\ \E applied \in SUBSET {x \in Readings : BaseReview(r).readings[x].outcome \in Confirmed},
          value \in Measured :
          Extend(r, <<WithoutCorrections([BaseReview(r) EXCEPT !.scene = NextScene(r)])>>,
                 <<Traced(r, applied, value)>>)

\* Mutant of Refreshed: one more column is forgotten.
RefreshedWithoutWitnesses(review, snapshot, calibration, scene) ==
    WithoutCorrections([review EXCEPT !.snapshot = snapshot, !.calibration = calibration,
                                      !.scene = scene, !.witnesses = {}])

\* insert_next_review_revision.
Refreshed(review, snapshot, calibration, scene) ==
    WithoutCorrections([review EXCEPT !.snapshot = snapshot, !.calibration = calibration,
                                      !.scene = scene])

\* refresh_proposals: the new snapshot moves the anchors beyond the tolerance, or does not.
RefreshProposals(r) ==
    /\ Ready(r, "refresh")
    /\ \E snapshot \in {BaseReview(r).snapshot, NextReview(r)} :
          LET review == BaseReview(r)
              at == request[r].scene
              kept == IF at = 0 THEN Uncalibrated
                      ELSE Revalidated(review.calibration, BaseScene(r).frame, snapshot, at)
              held == at # 0 /\ review.calibration # Uncalibrated /\ kept = Uncalibrated
                         /\ Preserved(BaseScene(r)) # {}
          IN  Extend(r,
                 <<Refreshed(review, snapshot, kept, IF held THEN NextScene(r) ELSE at)>>,
                 IF held
                 THEN <<[BaseScene(r) EXCEPT !.issues = @ \cup {"CALIBRATION_SUPERSEDED"}]>>
                 ELSE <<>>)

Commit(r) ==
    \/ CreateRevision(r) \/ SubmitReviewDecisions(r) \/ RectifyReviewDecisions(r)
    \/ DeclareReviewChain(r) \/ MutateReviewWitnesses(r) \/ MutateReviewFieldObservations(r)
    \/ DeclareReviewElement(r) \/ RevokeReviewElement(r) \/ RelabelReviewElement(r)
    \/ CreateProposalCalibration(r) \/ DecideProposal(r) \/ DecideProposalBatch(r)
    \/ CorrectProposalShape(r) \/ AnnotateDimension(r) \/ AnnotateNote(r)
    \/ LandTrace(r) \/ RefreshProposals(r)

Next == \E r \in Request : LookAtScene(r) \/ Refuse(r) \/ Commit(r) \/ \E act \in Act : Begin(r, act)

Spec == Init /\ [][Next]_vars

-----------------------------------------------------------------------------
(* What the code promises.                                                   *)

Frame ==
    [maker : {"none", "solver", "trace"}, shape : SUBSET ((Readings \cup {"trace"}) \X Confirmed)]

Review ==
    [readings : [Readings -> [at : Nat, outcome : Outcomes \cup {"none"}]],
     decided : [Proposals -> {"open", "accept", "reject"}],
     calibration : [made : Nat, scene : Nat, frame : Frame, snapshot : Nat], snapshot : Nat,
     chains : SUBSET Nat, witnesses : SUBSET Nat,
     observations : Seq([at : Nat, status : {"ACTIVE", "SUPERSEDED", "DISMISSED"}]),
     elements : Seq([at : Nat, label : Labels \cup {""}, group : SUBSET Proposals, active : BOOLEAN]),
     corrections : SUBSET Nat, scene : Nat]

SceneRevision ==
    [frame : Frame, drawn : SUBSET [reading : Readings, at : Nat, made : Nat],
     lines : SUBSET [proposal : Proposals, under : Nat, accepted : BOOLEAN],
     issues : SUBSET {"CALIBRATION_SUPERSEDED", "READING_DECISION_SUPERSEDED"}]

\* Every variable stays within its columns and its control points.
TypeOK ==
    /\ rectangle \subseteq Readings
    /\ reviews \in Seq(Review)
    /\ scenes \in Seq(SceneRevision)
    /\ request \in [Request -> [pc : {"idle", "look", "ready"}, act : Act \cup {"none"},
                                review : Nat, scene : Nat]]
    /\ left \in [Act -> Nat]

\* _annotation_target: "Esta leitura ja esta no desenho".  No reading is drawn twice, by two
\* annotators or by one after the solver, its rectification or a trace.
DrawnOnce ==
    \A d, e \in LatestScene.drawn : d.reading = e.reading => d = e

\* mutate_review_field_observations: one observation of the photo is in force at most, however
\* records, corrections and dismissals of several reviewers meet.
OneActiveObservation ==
    \A i, j \in DOMAIN Current(reviews).observations :
        /\ Current(reviews).observations[i].status = "ACTIVE"
        /\ Current(reviews).observations[j].status = "ACTIVE"
        => i = j

\* declare_review_element: a hint must find one referent.  Active elements share no proposal
\* and no name.
ElementsApart ==
    LET elements == Current(reviews).elements
    IN  \A i, j \in ActiveElements(Current(reviews)) :
            i # j => /\ elements[i].group \cap elements[j].group = {}
                     /\ elements[i].label = "" \/ elements[i].label # elements[j].label

\* Acts that cross leave documents the code can read: typed, one observation in force, one
\* referent per hint, one drawing per reading.
WellFormed == TypeOK /\ OneActiveObservation /\ ElementsApart /\ DrawnOnce

\* rectify_review_decisions, annotate_dimension and the solver together: what the head scene
\* draws is drawn from the decision in force, or the scene is held back, however
\* rectifications, annotations, traces and refreshes cross.
DrawnFromForce ==
    \A d \in LatestScene.drawn :
        \/ d.at = Current(reviews).readings[d.reading].at
        \/ "READING_DECISION_SUPERSEDED" \in LatestScene.issues

\* decide_proposal: the line and the decision are one act.  The head scene has at most one
\* line of a proposal, and the head review has its acceptance.
LinesAreDecided ==
    \A l \in LatestScene.lines :
        /\ Current(reviews).decided[l.proposal] = "accept"
        /\ \A m \in LatestScene.lines : m.proposal = l.proposal => m = l

\* revalidate_calibration: the calibration in force was solved on the snapshot in force and on
\* the geometry of the very scene it names, through re-solves, traces and refreshes; that is
\* why an acceptance over that scene needs no other test.
CalibrationFitsItsScene ==
    LET review == Current(reviews)
    IN  review.calibration # Uncalibrated =>
            /\ review.calibration.snapshot = review.snapshot
            /\ scenes[review.calibration.scene].frame = review.calibration.frame

\* _resolve_scene_after_review_change: "frozen behind a critical issue until a professional
\* recalibrates".  Lines held back are not let go by decisions, rectifications or refreshes
\* while the job has no calibration.
FrozenUntilRecalibrated ==
    [][/\ "CALIBRATION_SUPERSEDED" \in LatestScene.issues \ LatestScene'.issues
       /\ Preserved(LatestScene') # {}
       => Current(reviews).calibration # Uncalibrated]_vars

\* _carried_review_context: chains, witnesses, observations and decisions on proposals travel
\* to every revision that succeeds, whoever writes it; only a retraction takes one away.
RecordsTravel ==
    [][LET old == Current(reviews)
           new == Current(reviews')
           Commits(act) == \E r \in Request : Ready(r, act) /\ request'[r] # request[r]
       IN  /\ old.chains \subseteq new.chains \/ Commits("chain")
           /\ old.witnesses \subseteq new.witnesses \/ Commits("witness")
           /\ \A i \in DOMAIN old.observations : new.observations[i].at = old.observations[i].at
           /\ \A p \in Proposals : old.decided[p] \in {"open", new.decided[p]}]_vars

\* _carried_review_context: the corrections of a form and the identities of elements, the
\* revoked ones included, "viajam inteiras para a revisao seguinte".
HistoryTravels ==
    [][LET old == Current(reviews)
           new == Current(reviews')
       IN  old.corrections \subseteq new.corrections /\ Len(old.elements) <= Len(new.elements)]_vars
=============================================================================
