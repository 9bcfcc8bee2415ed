------------------------------ MODULE EstimateRound ------------------------------
(***************************************************************************)
(* One estimate round of /v1/estimate-rounds: the cascade of price sources *)
(* on the root row, the append-only chain of revisions with the codes, the *)
(* estimate and its approval, the index of precedents, and the events of   *)
(* the acts.  Every route loads the root and checks base_version, reads    *)
(* the head, decides and commits; the routes never await, so requests      *)
(* overlap only when the API runs more than one instance.  The acts that   *)
(* append a revision meet at the unique (round, version); those that only  *)
(* update the root meet nowhere.                                           *)
(*                                                                         *)
(* The takeoff is taken as reviewed: its confirmed items are fixed.  A     *)
(* code is known by the source it is cited from, a label by its item, and  *)
(* every estimate is built with a calculation matrix.                      *)
(***************************************************************************)
EXTENDS Integers, Sequences, FiniteSets, FiniteSetsExt, SequencesExt

CONSTANTS
    Item,         \* items of the takeoff
    Source,       \* price catalogues, one of each origin
    Contractual,  \* those of REGIME_ALLOWED_ORIGINS
    Subject,      \* who builds and who approves; one may have both roles
    Relay,        \* runs of the outbox relay that may overlap
    RelayLimit,   \* how many events a run of the relay takes
    Instances,    \* the most instances of the API
    Scenario      \* what the model starts with: instances, relays, sources installed,
                  \* items confirmed, and how many requests of each kind are accepted

Kind == {"target", "regime", "install", "reorder", "remove", "suggest", "recompute",
         "confirm", "reject", "close", "revoke", "build", "approve", "export"}

ASSUME ConstantsAssumption ==
    /\ Contractual \subseteq Source /\ IsFiniteSet(Source)
    /\ Instances \in Nat \ {0} /\ RelayLimit \in Nat \ {0}
    /\ \A s \in Scenario :
          /\ s.instances \in 1..Instances /\ s.relays \subseteq Relay
          /\ s.cascade \in Seq(Source) /\ IsInjective(s.cascade)
          /\ s.items \subseteq Item /\ s.accepts \in [Kind -> Nat]

VARIABLES
    setting,     \* the scenario
    left,        \* what is left of its requests
    root,        \* the root row: version, cascade and regime
    head,        \* the revision with the highest version
    precedents,  \* the index: the codes this worksite taught, by label and source
    request,     \* where each request being served is, and what it has read
    built,       \* history: who built which content
    signed,      \* history: who approved which content
    crossed,     \* history: what was ever written over something that had not been read
    stored, seen, published, relay, delivered

roundVars == <<root, head, precedents, built, signed, crossed>>
outboxVars == <<stored, seen, published, relay, delivered>>
vars == <<setting, left, roundVars, request, outboxVars>>

Outbox == INSTANCE EventOutbox

Request == 1..Instances

\* code_assignments_json; the anchor is its catalog_sha256.
NoCodes == [anchor |-> "none", confirmed |-> {}, closed |-> {}, rejected |-> {}]

\* The estimate: what content_digest covers.
NoContent == [lines |-> {}, unpriced |-> {}, bdi |-> 0]

NoApproval == [by |-> "nobody", of |-> NoContent]

NoRevision ==
    [version |-> 0, shortlist |-> FALSE, codes |-> NoCodes, estimate |-> NoContent,
     builder |-> "nobody", approval |-> NoApproval, workbook |-> NoContent]

NoAct == [kind |-> "none"]

Waiting == [pc |-> "idle", act |-> NoAct, root |-> [version |-> 0, cascade |-> <<>>,
            contracted |-> FALSE], view |-> NoRevision, at |-> 0, events |-> 0]

\* The bodies a client may send, and who signs where it matters.
Act ==
    [kind : {"target", "regime", "suggest", "recompute", "export"}]
    \cup [kind : {"install", "remove"}, source : Source]
    \cup [kind : {"reorder"}, order : UNION {SetToSeqs(S) : S \in SUBSET Source}]
    \cup [kind : {"confirm", "revoke"}, item : Item, source : Source]
    \cup [kind : {"reject", "close"}, item : Item]
    \cup [kind : {"build"}, bdi : {1, 2}, by : Subject]
    \cup [kind : {"approve"}, by : Subject]

Init ==
    /\ setting \in Scenario
    /\ left = setting.accepts
    /\ root = [version |-> Len(setting.cascade) + 1, cascade |-> setting.cascade,
               contracted |-> FALSE]
    /\ head = NoRevision
    /\ precedents = {}
    /\ request = [r \in Request |-> Waiting]
    /\ built = {}
    /\ signed = {}
    /\ crossed = {}
    /\ Outbox!Init

-----------------------------------------------------------------------------
(* The domain.                                                               *)

Installed(cascade) == Range(cascade)

Decided(codes) == {c[1] : c \in codes.confirmed} \cup codes.rejected

\* closed_item_ids: the declared closures and every rejection.
Closed(codes) == codes.closed \cup codes.rejected

\* _ensure_batch_decidable: the codes were decided under the catalogue that heads the
\* cascade now.
Anchored(codes, cascade) == codes = NoCodes \/ codes.anchor = cascade[1]

CitedBy(codes) == {c[2] : c \in codes.confirmed}

\* Mutant of MayInstall: an origin outside the contract is installed.
MayInstallAny(source, base) == source \notin Installed(base.cascade)

\* ensure_source_installable.
MayInstall(source, base) ==
    /\ base.contracted => source \in Contractual
    /\ source \notin Installed(base.cascade)

\* Mutant of MayRemove: the lock looks at the closed packages only.
MayRemoveOpen(source, base, codes) ==
    /\ source \in Installed(base.cascade)
    /\ \A c \in codes.confirmed : c[2] = source => c[1] \notin codes.closed

\* require_cascade, require_cascade_source_unlocked and removed_cascade.
MayRemove(source, base, codes) ==
    /\ source \in Installed(base.cascade)
    /\ source \notin CitedBy(codes)

\* ensure_regime_declarable.
MayDeclare(base) == Installed(base.cascade) \subseteq Contractual

\* Whether an item takes another decision.
Open(item, codes, cascade) ==
    /\ item \in setting.items
    /\ cascade # <<>>
    /\ Anchored(codes, cascade)
    /\ item \notin Closed(codes)

\* Mutant of MayReject: confirmed codes do not stand in the way.
MayRejectConfirmed(item, codes, cascade) == Open(item, codes, cascade)

\* A rejection says that no service prices the item: none may be confirmed.
MayReject(item, codes, cascade) ==
    Open(item, codes, cascade) /\ item \notin Decided(codes)

\* Mutant of MayRevoke: nobody asks whether the estimate was approved.
MayRevokeSigned(item, source, rev) == <<item, source>> \in rev.codes.confirmed

\* revoke_estimate_item_code: an approval of whatever content refuses it.
MayRevoke(item, source, rev) ==
    /\ <<item, source>> \in rev.codes.confirmed
    /\ rev.approval = NoApproval

\* build_worksite_estimate: every item decided, every package closed, every source at hand.
MayBuild(codes, cascade) ==
    /\ codes.confirmed # {} /\ cascade # <<>>
    /\ setting.items = Decided(codes)
    /\ setting.items \subseteq Closed(codes)
    /\ CitedBy(codes) \subseteq Installed(cascade)

\* Mutant of MayApprove: the role is enough.
MayApproveOwn(by, rev) == rev.estimate # NoContent

\* approve_estimate_round: whoever built the estimate of the head does not sign it.
MayApprove(by, rev) == rev.estimate # NoContent /\ by # rev.builder

\* Estimate.export_errors.
MayExport(rev) == rev.estimate # NoContent /\ rev.approval.of = rev.estimate

\* What the routes check on the root they loaded and the revision they read.
Accepts(act, base, rev) ==
    \/ act.kind \in {"target"}
    \/ act.kind = "regime" /\ MayDeclare(base)
    \/ act.kind = "install" /\ MayInstall(act.source, base)
    \/ act.kind = "remove" /\ MayRemove(act.source, base, rev.codes)
    \/ /\ act.kind = "reorder" /\ rev.codes = NoCodes
       /\ base.cascade # <<>> /\ Installed(act.order) = Installed(base.cascade)
    \/ act.kind = "suggest" /\ ~rev.shortlist /\ base.cascade # <<>>
    \/ act.kind = "recompute" /\ base.cascade # <<>>
    \/ /\ act.kind = "confirm"
       /\ Open(act.item, rev.codes, base.cascade)
       /\ act.source \in Installed(base.cascade)
       /\ <<act.item, act.source>> \notin rev.codes.confirmed
    \/ act.kind = "reject" /\ MayReject(act.item, rev.codes, base.cascade)
    \/ /\ act.kind = "close"
       /\ Open(act.item, rev.codes, base.cascade)
       /\ act.item \in Decided(rev.codes)
    \/ act.kind = "revoke" /\ MayRevoke(act.item, act.source, rev)
    \/ act.kind = "build" /\ MayBuild(rev.codes, base.cascade)
    \/ act.kind = "approve" /\ MayApprove(act.by, rev)
    \/ act.kind = "export" /\ MayExport(rev)

-----------------------------------------------------------------------------
(* The routes.                                                               *)

\* Which of the idle requests is served next is immaterial: the first.
Idle == Min({r \in Request : request[r].pc = "idle"} \cup {Instances + 1})

\* require_base_version passed: a client that saw another version was refused.
Load(r, act) ==
    /\ r = Idle /\ r <= setting.instances
    /\ left[act.kind] > 0
    /\ left' = [left EXCEPT ![act.kind] = @ - 1]
    /\ request' = [request EXCEPT ![r] =
          [Waiting EXCEPT !.pc = "loaded", !.act = act, !.root = root, !.events = Len(stored)]]
    /\ UNCHANGED <<setting, roundVars, outboxVars>>

OfTheRoot == {"target", "regime", "install", "reorder", "remove"}

\* The head is read, and the act accepted or refused.
Read(r) ==
    LET act == request[r].act
    IN  /\ request[r].pc = "loaded"
        /\ IF Accepts(act, request[r].root, head)
           THEN /\ request' = [request EXCEPT ![r] =
                      [@ EXCEPT !.pc = IF act.kind \in OfTheRoot THEN "ready" ELSE "read",
                                !.view = head]]
                /\ UNCHANGED left
           ELSE /\ request' = [request EXCEPT ![r] = Waiting]
                /\ left' = [left EXCEPT ![act.kind] = @ + 1]
        /\ UNCHANGED <<setting, roundVars, outboxVars>>

\* append_revision reads the head AGAIN: what the act does not change comes from it.
Carry(r) ==
    /\ request[r].pc = "read"
    /\ request' = [request EXCEPT ![r].pc = "ready", ![r].at = head.version]
    /\ UNCHANGED <<setting, left, roundVars, outboxVars>>

Ready(r, kind) == request[r].pc = "ready" /\ request[r].act.kind = kind

Done(r) == request' = [request EXCEPT ![r] = Waiting] /\ UNCHANGED <<setting, left>>

\* The root takes the version this session read plus one, whatever it is by now.
NextVersion(r) == request[r].root.version + 1

OfTheSources == {"regime", "install", "reorder", "remove"}

OfTheCodes == {"confirm", "reject", "close", "revoke"}

\* The root or the head is no longer what r read: another instance committed since.
OtherSources(r) == root.cascade # request[r].root.cascade

OtherRegime(r) == root.contracted # request[r].root.contracted

OtherCodes(r) == head.codes # request[r].view.codes

OtherApproval(r) == head.approval # request[r].view.approval

\* History: what r overlaps when it commits.  Nothing in the code records it.
Crosses(r) ==
    LET kind == request[r].act.kind
    IN  {c \in {"sources"} : kind \in OfTheSources /\ (OtherSources(r) \/ OtherRegime(r))}
        \cup {c \in {"citations"} : \/ kind = "remove" /\ OtherCodes(r)
                                    \/ kind = "confirm" /\ OtherSources(r)}
        \cup {c \in {"codes"} : kind \in OfTheCodes /\ (OtherCodes(r) \/ OtherApproval(r))}

\* The event of the act, in the same transaction.
Recorded(r) == Outbox!Record(request[r].events)

CommitTarget(r) ==
    /\ Ready(r, "target")
    /\ root' = [root EXCEPT !.version = NextVersion(r)]
    /\ Recorded(r) /\ Done(r)
    /\ UNCHANGED <<head, precedents, built, signed, crossed>>

\* set_estimate_regime, the one act of the round without an event.
CommitRegime(r) ==
    /\ Ready(r, "regime")
    /\ root' = [root EXCEPT !.version = NextVersion(r), !.contracted = TRUE]
    /\ crossed' = crossed \cup Crosses(r)
    /\ Done(r)
    /\ UNCHANGED <<head, precedents, built, signed, outboxVars>>

\* The cascade column is rewritten whole, from the root as it was loaded, where a source
\* is once.
NewCascade(act, cascade) ==
    CASE act.kind = "install" -> Append(cascade, act.source)
      [] act.kind = "reorder" -> act.order
      [] act.kind = "remove" -> RemoveAt(cascade, CHOOSE i \in DOMAIN cascade : cascade[i] = act.source)

CommitCascade(r) ==
    /\ \E kind \in {"install", "reorder", "remove"} : Ready(r, kind)
    /\ root' = [root EXCEPT !.version = NextVersion(r),
                            !.cascade = NewCascade(request[r].act, request[r].root.cascade)]
    /\ crossed' = crossed \cup Crosses(r)
    /\ Recorded(r) /\ Done(r)
    /\ UNCHANGED <<head, precedents, built, signed>>

\* COMMIT of a revision; uq_estimate_round_version refuses a position already taken.
CommitRevision(r, revision) ==
    /\ Done(r)
    /\ IF head.version = request[r].at
       THEN /\ head' = [revision EXCEPT !.version = @ + 1]
            /\ root' = [root EXCEPT !.version = NextVersion(r)]
            /\ crossed' = crossed \cup Crosses(r)
            /\ Recorded(r)
       ELSE UNCHANGED <<head, root, crossed, outboxVars>>

\* get_estimate_code_suggestions: derived, so no version, no audit and no event; the loser
\* serves the shortlist of the winner.
CommitSuggestions(r) ==
    /\ Ready(r, "suggest")
    /\ Done(r)
    /\ IF head.version = request[r].at
       THEN head' = [head EXCEPT !.version = @ + 1, !.shortlist = TRUE]
       ELSE UNCHANGED head
    /\ UNCHANGED <<root, precedents, built, signed, crossed, outboxVars>>

CommitRecompute(r) ==
    /\ Ready(r, "recompute")
    /\ CommitRevision(r, [head EXCEPT !.shortlist = TRUE])
    /\ UNCHANGED <<precedents, built, signed>>

\* decide_estimate_item_code: the set READ BEFORE, with the decision added.
CommitDecision(r) ==
    LET act == request[r].act
        codes == [request[r].view.codes EXCEPT !.anchor = request[r].root.cascade[1]]
    IN  /\ \/ /\ Ready(r, "confirm")
              /\ CommitRevision(r, [head EXCEPT !.codes =
                    [codes EXCEPT !.confirmed = @ \cup {<<act.item, act.source>>}]])
           \/ /\ Ready(r, "reject")
              /\ CommitRevision(r, [head EXCEPT !.codes =
                    [codes EXCEPT !.rejected = @ \cup {act.item}]])
        /\ UNCHANGED <<precedents, built, signed>>

\* Mutant of Forget: only the code of a closed package is forgotten.
ForgetClosed(codes, item, source) ==
    IF item \in codes.closed THEN {<<item, source>>} ELSE {}

\* revoke_closure_precedent: the observation goes whether the package is closed or not.
Forget(codes, item, source) == {<<item, source>>}

\* close_estimate_item_package, with record_closure_precedents in the same transaction.
CommitClosure(r) ==
    LET act == request[r].act
        codes == request[r].view.codes
    IN  /\ Ready(r, "close")
        /\ CommitRevision(r, [head EXCEPT !.codes =
              [codes EXCEPT !.closed = @ \cup {act.item}]])
        /\ precedents' = IF head.version = request[r].at
                         THEN precedents \cup {c \in codes.confirmed : c[1] = act.item}
                         ELSE precedents
        /\ UNCHANGED <<built, signed>>

\* revoke_estimate_item_code: the pair leaves, the closure of its item falls with it.
CommitRevocation(r) ==
    LET act == request[r].act
        codes == request[r].view.codes
    IN  /\ Ready(r, "revoke")
        /\ CommitRevision(r, [head EXCEPT !.codes =
              [codes EXCEPT !.confirmed = @ \ {<<act.item, act.source>>},
                            !.closed = @ \ {act.item}]])
        /\ precedents' = IF head.version = request[r].at
                         THEN precedents \ Forget(codes, act.item, act.source)
                         ELSE precedents
        /\ UNCHANGED <<built, signed>>

\* build_estimate: the codes of the revision read BEFORE, its approval carried forward.
CommitEstimate(r) ==
    LET act == request[r].act
        view == request[r].view
        content == [lines |-> view.codes.confirmed, unpriced |-> view.codes.rejected,
                    bdi |-> act.bdi]
    IN  /\ Ready(r, "build")
        /\ CommitRevision(r, [head EXCEPT !.estimate = content, !.builder = act.by,
                                          !.approval = view.approval])
        /\ built' = IF head.version = request[r].at
                    THEN built \cup {<<content, act.by>>} ELSE built
        /\ UNCHANGED <<precedents, signed>>

\* approve_estimate_round: the estimate read, approved; the builder is the head's by now.
CommitApproval(r) ==
    LET act == request[r].act
        content == request[r].view.estimate
    IN  /\ Ready(r, "approve")
        /\ CommitRevision(r, [head EXCEPT !.estimate = content,
                                          !.approval = [by |-> act.by, of |-> content]])
        /\ signed' = IF head.version = request[r].at
                     THEN signed \cup {<<content, act.by>>} ELSE signed
        /\ UNCHANGED <<precedents, built>>

\* export_estimate_workbook: the workbook of the estimate read.
CommitExport(r) ==
    /\ Ready(r, "export")
    /\ CommitRevision(r, [head EXCEPT !.workbook = request[r].view.estimate])
    /\ UNCHANGED <<precedents, built, signed>>

Handle(r) ==
    \/ Read(r) \/ Carry(r)
    \/ CommitTarget(r) \/ CommitRegime(r) \/ CommitCascade(r)
    \/ CommitSuggestions(r) \/ CommitRecompute(r)
    \/ CommitDecision(r) \/ CommitClosure(r) \/ CommitRevocation(r)
    \/ CommitEstimate(r) \/ CommitApproval(r) \/ CommitExport(r)

RoundUnchanged == UNCHANGED <<setting, left, roundVars, request>>

\* A run of the relay, beside the requests.
Relays(k) == k \in setting.relays /\ Outbox!Drain(k) /\ RoundUnchanged

Next ==
    \/ \E r \in Request : Handle(r) \/ \E act \in Act : Load(r, act)
    \/ \E k \in Relay : Relays(k)

Spec == Init /\ [][Next]_vars

\* The relay is run again and again, and neither the refusals of the broker nor the deaths
\* of the runs are for ever.
Fairness ==
    \A k \in Relay :
        LET Does(A) == k \in setting.relays /\ A /\ RoundUnchanged
        IN  /\ WF_vars(Does(Outbox!List(k)))
            /\ SF_vars(Does(Outbox!Publish(k)))
            /\ SF_vars(Does(Outbox!Mark(k)))

FairSpec == Spec /\ Fairness

-----------------------------------------------------------------------------
(* What the code promises.                                                   *)

Pairs == Item \X Source
Codes == [anchor : Source \cup {"none"}, confirmed : SUBSET Pairs, closed : SUBSET Item,
          rejected : SUBSET Item]
Contents == [lines : SUBSET Pairs, unpriced : SUBSET Item, bdi : 0..2]
Subjects == Subject \cup {"nobody"}
Roots == [version : Nat, cascade : Seq(Source), contracted : BOOLEAN]
Revisions == [version : Nat, shortlist : BOOLEAN, codes : Codes, estimate : Contents,
              builder : Subjects, approval : [by : Subjects, of : Contents],
              workbook : Contents]

\* Every variable stays within its columns; a rejected item has neither code nor closure.
TypeOK ==
    /\ setting \in Scenario
    /\ left \in [Kind -> Nat]
    /\ root \in Roots /\ IsInjective(root.cascade)
    /\ head \in Revisions
    /\ head.codes.rejected \cap {c[1] : c \in head.codes.confirmed} = {}
    /\ precedents \in SUBSET Pairs
    /\ request \in [Request -> [pc : {"idle", "loaded", "read", "ready"},
                                act : Act \cup {NoAct}, root : Roots, view : Revisions,
                                at : Nat, events : Nat]]
    /\ built \in SUBSET (Contents \X Subject)
    /\ signed \in SUBSET (Contents \X Subject)
    /\ crossed \in SUBSET {"sources", "citations", "codes"}
    /\ Outbox!TypeOK

\* Four eyes: however the building, the approval and the export of several people overlap,
\* and whatever is carried forward, a workbook leaves only with a content that somebody
\* built and somebody ELSE signed.
DispatchedUnderFourEyes ==
    head.workbook # NoContent =>
        \E b \in built, s \in signed :
            b[1] = head.workbook /\ s[1] = head.workbook /\ b[2] # s[2]

\* A round under contract holds no source of a forbidden origin, neither by a later
\* declaration nor by an installation, with any number of instances, as long as no act on
\* the sources commits over sources it had not read.
ContractedIsClean ==
    "sources" \notin crossed /\ root.contracted => Installed(root.cascade) \subseteq Contractual

\* A code in force cites a source of the cascade, however sources are installed, removed
\* and installed again around decisions and revocations, as long as nothing is written
\* over what had not been read.
CitedIsInstalled == crossed = {} => CitedBy(head.codes) \subseteq Installed(root.cascade)

\* The index teaches no code this worksite has undone: a precedent is a code in force, even
\* after the closure of its package fell, as long as no decision drops another one.
PrecedentIsConfirmed == "codes" \notin crossed => precedents \subseteq head.codes.confirmed

\* What is decided on stands on what it was decided from, whatever acts fall in between.
CodesAreGrounded == ContractedIsClean /\ CitedIsInstalled /\ PrecedentIsConfirmed

\* Under an approval, of whatever content, no code leaves and no closure falls, and once
\* every package is closed nothing moves at all: the revocation looks at the approval, the
\* decisions at the closures, each as it read them.  A decision that commits over codes or
\* an approval it had not read is let off.
SignedCodesHold ==
    [][ "codes" \notin crossed' /\ head.approval # NoApproval =>
          /\ head.codes.confirmed \subseteq head'.codes.confirmed
          /\ Closed(head.codes) \subseteq Closed(head'.codes)
          /\ setting.items \subseteq Closed(head.codes) => head'.codes = head.codes ]_vars

\* The comments of the code promise more than that; runs of their own refute each.

\* "Rodada sob contrato nunca contem fonte proibida - nem por declaracao posterior, nem por
\* instalacao" (main.py:17294).
ContractIsNeverDirty == root.contracted => Installed(root.cascade) \subseteq Contractual

\* "Recusa remover uma fonte que alguma decisao de codigo ja citou" (estimate_rounds.py:860).
CitedIsNeverRemoved == CitedBy(head.codes) \subseteq Installed(root.cascade)

\* A signature never points at codes that changed after it (estimate_rounds.py:1408).
SignatureSeesNoRevocation ==
    [][head.approval # NoApproval => head.codes.confirmed \subseteq head'.codes.confirmed]_vars

\* An estimate that is signed corresponds to the codes (estimate_rounds.py:1412).
SignedFitsTheCodes ==
    head.estimate # NoContent /\ head.approval.of = head.estimate =>
        head.estimate.lines \subseteq head.codes.confirmed

\* Nobody hears of an act of the round before the acts it had seen, whatever is refused,
\* timed out, killed or published twice.
DeliveredInOrder == Outbox!DeliveredInOrder

\* Every event reaches the broker when the relay is run: none stored late, refused, or left
\* by a run that died is forgotten once the acts pause.
EveryEventDelivered ==
    setting.relays # {} => []<>(Range(delivered) = 1..Len(stored))
=============================================================================
