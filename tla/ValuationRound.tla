------------------------------ MODULE ValuationRound ------------------------------
(***************************************************************************)
(* One valuation round of /v1/valuation-rounds: the plates of the worksite *)
(* and their paid extraction, the append-only chain of revisions, and the  *)
(* human acts that decide the takeoff, build the bulletin, approve and     *)
(* export it.  Several API instances and several queue workers write the   *)
(* same rows under READ COMMITTED: the check of base_version, the reads an *)
(* act decides on, the second read of the head and the COMMIT are steps of *)
(* their own, and the unique constraints (round, version) and              *)
(* (round, plate_id) arbitrate at the COMMIT.                              *)
(*                                                                         *)
(* A packet is known by the version of the revision that wrote it, so that *)
(* equal numbers mean equal digests.  Of the readings of a plate one is    *)
(* looked at, the one codes are decided for and links are declared about;  *)
(* the others are taken as priced.  The catalogue is taken as installed.   *)
(***************************************************************************)
EXTENDS Integers, Sequences, FiniteSets, CodePackage

CONSTANTS
    Limit,        \* WORKSITE_PLATE_LIMIT
    Code,         \* codes of the catalogue
    Requests,     \* HTTP requests the API serves at once
    Workers,      \* deliveries the queue has in flight at once
    Attempts,     \* _ROUND_PUBLISH_ATTEMPTS
    Scenario      \* bounds: the plates associated at the start and how far they are, how many
                  \* requests of each kind are accepted, how many commands are repeated and
                  \* how many workers die; the model starts with one of them

Kind == {"append", "extract", "extractOne", "decide", "decideAll", "rejectAll",
         "suggest", "recompute", "confirm", "deny", "close", "revoke", "link",
         "build", "buildWithMatrix", "approve", "export", "replay", "crash"}

Stage == {"associated", "extracted", "reviewed", "priced"}

ASSUME ConstantsAssumption ==
    /\ Limit \in Nat \ {0} /\ Code # {}
    /\ Requests \in Nat \ {0} /\ Workers \in Nat \ {0}
    /\ Attempts \in Nat \ {0}
    /\ Scenario \subseteq [plates : 0..Limit, stage : Stage, left : [Kind -> Nat]]

VARIABLES
    round,    \* the root row: version and extraction_status
    plates,   \* the rows of valuation_round_plates, in order of position
    head,     \* the revision with the highest version
    intent,   \* the extraction commands made durable; the index is the extraction_id
    request,  \* where each request being served is, and what it has read
    queue,    \* messages not yet acknowledged
    worker,   \* where each delivery is, and what it has read
    paid,     \* history: calls to the provider, by extraction and plate
    signed,   \* history: the bulletins somebody approved
    lost,     \* history: messages the transport refused, or whose delivery died
    declared, \* history: the packages somebody declared complete, by plate
    crossed,  \* history: since the last bulletin was built, an approval or an export wrote
              \* back the bulletin, or the stamp, of before it
    left      \* what is left of the scenario

rowVars == <<round, plates, head, intent>>
historyVars == <<paid, signed, lost, declared, crossed>>
vars == <<rowVars, request, queue, worker, historyVars, left>>

Request == 1..Requests

Worker == 1..Workers

Position == 1..Limit

NoPacket == [rev |-> 0, open |-> FALSE, reading |-> "proposed"]

Extracted(rev, p) == rev.packets[p].rev # 0

Reviewed(rev, p) == Extracted(rev, p) /\ ~rev.packets[p].open

\* The calculation matrix posted: what it takes from the reading of the first plate.
NoMatrix == [posted |-> FALSE, codes |-> {}]

Confirmed(rev, p) == rev.packets[p].reading = "confirmed"

Discarded(rev) == {l.discarded : l \in rev.links}

\* The codes the reading of a plate is printed under; the matrix is the first plate's.
Printed(rev, p, matrix) ==
    IF p = 1 /\ matrix.posted THEN matrix.codes
    ELSE IF Confirmed(rev, p) THEN rev.codes[p].confirmed ELSE {}

\* A bulletin: the packet each plate was measured from, the lines of the readings, and those
\* printed with their quantity and counted as zero.
Measured(rev, rows, matrix) ==
    [matrix |-> matrix.posted,
     packets |-> [p \in Position |-> rev.packets[p].rev],
     lines |-> {line \in (1..rows) \X Code : line[2] \in Printed(rev, line[1], matrix)},
     fused |-> Discarded(rev)]

Blank == [matrix |-> FALSE, packets |-> [p \in Position |-> 0], lines |-> {}, fused |-> {}]

\* Mutant of Sources: the links are left out of the digest.
SourcesUnlinked(rev, rows, matrix) ==
    [rows |-> rows, packets |-> [p \in Position |-> rev.packets[p].rev],
     codes |-> rev.codes, links |-> {}, matrix |-> matrix]

\* bulletin_sources_digest: what a bulletin was made from.
Sources(rev, rows, matrix) ==
    [rows |-> rows, packets |-> [p \in Position |-> rev.packets[p].rev],
     codes |-> rev.codes, links |-> rev.links, matrix |-> matrix]

\* bulletin_sources_state: how the round is shown, derived at every reading.
Stale(rev, rows) == rev.bulletin # Blank /\ rev.stamp # Sources(rev, rows, rev.matrix)

InFlight(row) == row.status \in {"queued", "running"}

Body(kinds, on, codes, keeps) == [kind : kinds, on : on, codes : codes, keeps : keeps]

\* The plate an act is about, by its id or the first by default.
SinglePlate == {{p} : p \in Position}

\* The plates of the two readings a link is about.
PlatePair == {on \in SUBSET Position : \E p, q \in Position : p # q /\ on = {p, q}}

\* The bodies a client may send.
Act ==
    Body({"append", "build", "approve", "export"}, {{}}, {{}}, {0})
    \cup Body({"decide", "decideAll", "rejectAll", "suggest", "deny", "close"}, SinglePlate, {{}}, {0})
    \cup Body({"extractOne", "recompute"}, {{1}}, {{}}, {0})
    \cup Body({"extract"}, SUBSET Position \ {{}}, {{}}, {0})
    \cup Body({"confirm", "revoke"}, SinglePlate, {{c} : c \in Code}, {0})
    \cup Body({"buildWithMatrix"}, {{}}, SUBSET Code, {0})
    \cup {act \in Body({"link"}, PlatePair, {{}}, Position) : act.keeps \in act.on}

Extraction(e, p) == [kind |-> "extract", id |-> e, plate |-> p]

Overlay(v) == [kind |-> "overlay", id |-> v, plate |-> 1]

\* One message per plate of a batch; the singular route names none.
Messages(command, e) ==
    {Extraction(e, p) : p \in IF command.kind = "extractOne" THEN {0} ELSE command.on}

\* The head of a round whose first plates are at this stage.
HeadAt(count, stage) ==
    LET at(p) == IF p <= count THEN stage ELSE "associated"
        packets == [p \in Position |->
            IF at(p) = "associated" THEN NoPacket
            ELSE IF at(p) = "extracted" THEN [NoPacket EXCEPT !.rev = p, !.open = TRUE]
            ELSE [rev |-> p, open |-> FALSE, reading |-> "confirmed"]]
        codes == [p \in Position |->
            IF at(p) = "priced" THEN Close(Confirm(Undecided, {CHOOSE c \in Code : TRUE}))
            ELSE Undecided]
        empty == [packets |-> [p \in Position |-> NoPacket],
                  codes |-> [p \in Position |-> Undecided], links |-> {}]
    IN  [version |-> IF stage = "associated" THEN 0 ELSE count,
         packets |-> packets, codes |-> codes, links |-> {},
         shortlist |-> [p \in Position |-> "none"],
         bulletin |-> Blank, matrix |-> NoMatrix, stamp |-> Sources(empty, 0, NoMatrix),
         approval |-> Blank, overlay |-> packets[1].rev, workbook |-> Blank]

NoAct == [kind |-> "none", on |-> {}, codes |-> {}, keeps |-> 0]

Waiting == [pc |-> "idle", act |-> NoAct, base |-> 0, rows |-> 0,
            view |-> HeadAt(0, "associated"), at |-> 0, messages |-> {}]

Free == [pc |-> "idle", job |-> Extraction(0, 0), plate |-> 0, mirror |-> "none",
         at |-> 0, tries |-> 0]

\* Which of the idle slots takes the next request or message is immaterial: the first.
Idle(slots, i) == slots[i].pc = "idle" /\ \A j \in 1..(i - 1) : slots[j].pc # "idle"

\* Every plate that has a packet was extracted by a command of before.
Init ==
    \E s \in Scenario :
        LET extracted == IF s.stage = "associated" THEN "none" ELSE "done"
        IN  /\ round = [version |-> s.plates + 1, status |-> extracted]
            /\ plates = [p \in 1..s.plates |-> [status |-> extracted, id |-> 0]]
            /\ head = HeadAt(s.plates, s.stage)
            /\ declared = {<<p, head.codes[p].confirmed>> :
                               p \in {q \in Position : head.codes[q].closed}}
            /\ left = s.left
            /\ intent = <<>>
            /\ request = [r \in Request |-> Waiting]
            /\ queue = {}
            /\ worker = [w \in Worker |-> Free]
            /\ paid = <<>>
            /\ signed = {}
            /\ lost = {}
            /\ crossed = FALSE

-----------------------------------------------------------------------------
(* The API: every route loads the root and checks base_version, reads the   *)
(* head and the plates, decides, and commits.                               *)

\* require_base_version passed: a client that saw another version was refused.
Load(r, act) ==
    /\ Idle(request, r)
    /\ left[act.kind] > 0
    /\ left' = [left EXCEPT ![act.kind] = @ - 1]
    /\ request' = [request EXCEPT ![r] =
                      [Waiting EXCEPT !.pc = "loaded", !.act = act, !.base = round.version]]
    /\ UNCHANGED <<rowVars, queue, worker, historyVars>>

\* Mutant of MayAppend: one plate too many.
MayAppendOneMore(rows) == Len(rows) <= Limit

\* append_round_plate refuses a worksite that is full.
MayAppend(rows) == Len(rows) < Limit

\* queue_plate_extractions refuses what is published or in flight.
MayExtract(on, rev, rows) ==
    /\ on \subseteq DOMAIN rows
    /\ \A p \in on : ~Extracted(rev, p) /\ ~InFlight(rows[p])

\* Mutant of MayLink: a reading is discarded once, but may be kept as well.
MayLinkOnce(link, links) == link.discarded \notin {l.discarded : l \in links}

\* validate_no_link_chain and its companions: a reading is discarded once, and a reading
\* that is kept is not discarded.
MayLink(link, links) ==
    /\ link.discarded \notin {l.kept : l \in links} \cup {l.discarded : l \in links}
    /\ link.kept \notin {l.discarded : l \in links}

Link(act) == [kept |-> act.keeps, discarded |-> CHOOSE p \in act.on : p # act.keeps]

Posted(act) == [posted |-> act.kind = "buildWithMatrix", codes |-> act.codes]

\* What build_worksite_bulletin asks of a reading: confirmed, it is decided and its package
\* complete, unless its quantity counts elsewhere; only the matrix takes packages of several
\* codes; and nothing is decided for a reading that is not confirmed.
Priced(rev, p, matrix) ==
    LET s == rev.codes[p]
    IN  IF Confirmed(rev, p)
        THEN /\ IsDecided(s)
             /\ IsOpen(s) => p \in Discarded(rev)
             /\ Cardinality(s.confirmed) > 1 => p = 1 /\ matrix.posted
        ELSE ~IsDecided(s)

\* build_worksite_takeoff_bulletins: every plate extracted and reviewed, both ends of every
\* link confirmed, and every reading priced.
MayBuild(rev, rows, matrix) ==
    /\ rows > 0
    /\ \A p \in 1..rows : Reviewed(rev, p) /\ Priced(rev, p, matrix)
    /\ \A l \in rev.links : Confirmed(rev, l.kept) /\ Confirmed(rev, l.discarded)

\* Mutant of MayExport: approved once, whatever was approved.
MayExportApproved(rev) == rev.bulletin # Blank /\ rev.approval # Blank

\* The gate of ensure_exportable: an approval of this very content.
MayExport(rev) == rev.bulletin # Blank /\ rev.approval = rev.bulletin

Accepts(act, rev, rows) ==
    \/ act.kind = "append" /\ MayAppend(rows)
    \/ act.kind \in {"extract", "extractOne"} /\ MayExtract(act.on, rev, rows)
    \/ /\ act.kind = "link"
       /\ \A p \in DOMAIN rows : Extracted(rev, p)
       /\ act.on \subseteq DOMAIN rows
       /\ MayLink(Link(act), rev.links)
    \/ /\ act.kind \in {"build", "buildWithMatrix"}
       /\ MayBuild(rev, Len(rows), Posted(act))
    \/ act.kind = "approve" /\ rev.bulletin # Blank
    \/ act.kind = "export" /\ MayExport(rev)
    \/ \E p \in act.on \cap DOMAIN rows :
          LET s == rev.codes[p]
          IN  \/ act.kind \in {"decide", "decideAll", "rejectAll"} /\ rev.packets[p].open
              \/ act.kind = "suggest" /\ rev.shortlist[p] = "none" /\ Reviewed(rev, p)
              \/ act.kind = "recompute" /\ Reviewed(rev, p)
              \/ act.kind = "confirm" /\ Confirmed(rev, p) /\ MayConfirm(s, act.codes)
              \/ act.kind = "deny" /\ Confirmed(rev, p) /\ MayDeny(s)
              \/ act.kind = "close" /\ Extracted(rev, p) /\ MayClose(s)
              \/ act.kind = "revoke" /\ Extracted(rev, p) /\ MayRevoke(s, act.codes)

Read(r) ==
    LET act == request[r].act
        next == IF act.kind \in {"append", "extract", "extractOne"} THEN "ready" ELSE "read"
    IN  /\ request[r].pc = "loaded"
        /\ request' = [request EXCEPT ![r] =
              IF Accepts(act, head, plates)
              THEN [@ EXCEPT !.pc = next, !.rows = Len(plates), !.view = head]
              ELSE Waiting]
        /\ left' = IF Accepts(act, head, plates) THEN left
                   ELSE [left EXCEPT ![act.kind] = @ + 1]
        /\ UNCHANGED <<rowVars, queue, worker, historyVars>>

\* append_revision reads the head AGAIN: what the act does not change comes from it.
Carry(r) ==
    /\ request[r].pc = "read"
    /\ request' = [request EXCEPT ![r].pc = "ready", ![r].at = head.version]
    /\ UNCHANGED <<rowVars, queue, worker, historyVars, left>>

Ready(r, kinds) == request[r].pc = "ready" /\ request[r].act.kind \in kinds

\* The root takes the version this session read plus one, whatever it is by now.
NextVersion(r) == request[r].base + 1

\* uq_valuation_round_version refuses a position already taken.
Commits(r) == head.version = request[r].at

\* COMMIT of a revision.
Stored(r, revision, version, messages) ==
    /\ IF Commits(r)
       THEN /\ head' = [revision EXCEPT !.version = @ + 1]
            /\ round' = [round EXCEPT !.version = version]
            /\ request' = [request EXCEPT ![r] =
                  IF messages = {} THEN Waiting
                  ELSE [Waiting EXCEPT !.pc = "enqueue", !.messages = messages]]
       ELSE /\ request' = [request EXCEPT ![r] = Waiting]
            /\ UNCHANGED <<head, round>>
    /\ UNCHANGED <<plates, intent, queue, worker, paid, lost, left>>

CommitRevision(r, revision, messages) == Stored(r, revision, NextVersion(r), messages)

\* plate_packet_changes, plate_assignments_changes, plate_suggestions_changes: the first plate
\* has a column of its own; for the others the whole map is written again, from the revision
\* read BEFORE.
Rewritten(column, read, p, document) ==
    IF p = 1 THEN [column EXCEPT ![1] = document]
    ELSE [read EXCEPT ![1] = column[1], ![p] = document]

\* associate_valuation_plate: the position is the number of rows read, plus one.
CommitPlate(r) ==
    /\ Ready(r, {"append"})
    /\ IF Len(plates) = request[r].rows
       THEN /\ plates' = Append(plates, [status |-> "none", id |-> 0])
            /\ round' = [round EXCEPT !.version = NextVersion(r)]
       ELSE UNCHANGED <<plates, round>>
    /\ request' = [request EXCEPT ![r] = Waiting]
    /\ UNCHANGED <<head, intent, queue, worker, historyVars, left>>

\* A worker's open transaction holds the row of its plate.
Locked(p) ==
    \E w \in Worker : worker[w].pc \in {"claiming", "settling"} /\ worker[w].plate = p

\* create_valuation_plates_extraction, and the singular route: no revision is written, so
\* nothing arbitrates, and the rows are written whatever they hold by now.
CommitExtraction(r) ==
    LET on == request[r].act.on
        e == Len(intent) + 1
    IN  /\ Ready(r, {"extract", "extractOne"})
        /\ \A p \in on : ~Locked(p)
        /\ plates' = [p \in DOMAIN plates |->
                         IF p \in on THEN [status |-> "queued", id |-> e] ELSE plates[p]]
        /\ round' = [version |-> NextVersion(r), status |-> "queued"]
        /\ intent' = Append(intent, request[r].act)
        /\ paid' = Append(paid, [p \in Position |-> 0])
        /\ request' = [request EXCEPT ![r] =
              [Waiting EXCEPT !.pc = "enqueue", !.messages = Messages(request[r].act, e)]]
        /\ UNCHANGED <<head, queue, worker, signed, lost, declared, crossed, left>>

\* decide_valuation_takeoff_items: a batch that leaves readings to be reviewed, or the last
\* one, which confirms or rejects the reading looked at.
CommitDecision(r) ==
    LET act == request[r].act
        packet == [rev |-> head.version + 1, open |-> act.kind = "decide",
                   reading |-> IF act.kind = "decide" THEN "proposed"
                               ELSE IF act.kind = "decideAll" THEN "confirmed" ELSE "rejected"]
    IN  /\ Ready(r, {"decide", "decideAll", "rejectAll"})
        /\ \E p \in act.on :
              CommitRevision(r,
                  [head EXCEPT !.packets = Rewritten(@, request[r].view.packets, p, packet)],
                  IF p = 1 THEN {Overlay(packet.rev)} ELSE {})
        /\ UNCHANGED <<signed, declared, crossed>>

\* get_valuation_code_suggestions writes without advancing the version of the round;
\* recompute_valuation_code_suggestions is an act of a person.
CommitSuggestions(r) ==
    LET act == request[r].act
        document == IF act.kind = "suggest" THEN "lexical" ELSE "recomputed"
    IN  /\ Ready(r, {"suggest", "recompute"})
        /\ \E p \in act.on :
              Stored(r,
                  [head EXCEPT !.shortlist = Rewritten(@, request[r].view.shortlist, p, document)],
                  IF act.kind = "suggest" THEN round.version ELSE NextVersion(r), {})
        /\ UNCHANGED <<signed, declared, crossed>>

\* apply_code_assignments and apply_code_revocation.
Decided(act, s) ==
    CASE act.kind = "confirm" -> Confirm(s, act.codes)
      [] act.kind = "deny" -> Deny(s)
      [] act.kind = "close" -> Close(s)
      [] act.kind = "revoke" -> Revoke(s, act.codes)

\* decide_valuation_item_code, close_valuation_item_package, revoke_valuation_item_code: the
\* set of the plate as it was read, with the act on it.
CommitCode(r) ==
    LET act == request[r].act
        read == request[r].view.codes
    IN  /\ Ready(r, {"confirm", "deny", "close", "revoke"})
        /\ \E p \in act.on :
              /\ CommitRevision(r,
                    [head EXCEPT !.codes = Rewritten(@, read, p, Decided(act, read[p]))], {})
              /\ declared' = IF act.kind = "close" /\ Commits(r)
                             THEN declared \cup {<<p, read[p].confirmed>>} ELSE declared
        /\ UNCHANGED <<signed, crossed>>

\* declare_valuation_identity_link: the list read, with one more.
CommitLink(r) ==
    /\ Ready(r, {"link"})
    /\ CommitRevision(r,
          [head EXCEPT !.links = request[r].view.links \cup {Link(request[r].act)}], {})
    /\ UNCHANGED <<signed, declared, crossed>>

\* build_valuation_calc: a bulletin of the revision read BEFORE, stamped with the digest of
\* its sources, with its approval carried forward and its artifact_digests_json.
CommitBulletin(r) ==
    LET view == request[r].view
        rows == request[r].rows
        matrix == Posted(request[r].act)
    IN  /\ Ready(r, {"build", "buildWithMatrix"})
        /\ CommitRevision(r, [head EXCEPT
              !.bulletin = Measured(view, rows, matrix), !.matrix = matrix,
              !.stamp = Sources(view, rows, matrix),
              !.approval = view.approval, !.overlay = view.overlay], {})
        /\ crossed' = (crossed /\ ~Commits(r))
        /\ UNCHANGED <<signed, declared>>

\* approve_valuation_round: the bulletin read, approved as it was read.
CommitApproval(r) ==
    LET read == request[r].view.bulletin
    IN  /\ Ready(r, {"approve"})
        /\ CommitRevision(r, [head EXCEPT !.bulletin = read, !.approval = read], {})
        /\ signed' = IF Commits(r) THEN signed \cup {read} ELSE signed
        /\ crossed' = (crossed \/ (Commits(r) /\ read # head.bulletin))
        /\ UNCHANGED declared

\* export_valuation_bulletin: the workbook of the bulletin read, stored under the digest of
\* its content; refs and digests of the revision read BEFORE.
CommitExport(r) ==
    LET view == request[r].view
    IN  /\ Ready(r, {"export"})
        /\ CommitRevision(r, [head EXCEPT !.workbook = view.bulletin,
                                          !.stamp = view.stamp, !.overlay = view.overlay], {})
        /\ crossed' = (crossed \/ (Commits(r) /\ view.stamp # head.stamp))
        /\ UNCHANGED <<signed, declared>>

\* After the COMMIT; the transport may refuse any of them, and nothing is published again
\* unless the client repeats the command.
Enqueue(r) ==
    /\ request[r].pc = "enqueue"
    /\ \E sent \in SUBSET request[r].messages :
          /\ queue' = queue \cup sent
          /\ lost' = lost \cup (request[r].messages \ sent)
    /\ request' = [request EXCEPT ![r] = Waiting]
    /\ UNCHANGED <<rowVars, worker, paid, signed, declared, crossed, left>>

\* The same Idempotency-Key again: the stored answer, and every message published again.
Replay(e) ==
    /\ left["replay"] > 0
    /\ left' = [left EXCEPT !["replay"] = @ - 1]
    /\ queue' = queue \cup Messages(intent[e], e)
    /\ UNCHANGED <<rowVars, request, worker, historyVars>>

Handle(r) ==
    \/ Read(r) \/ Carry(r) \/ Enqueue(r)
    \/ CommitPlate(r) \/ CommitExtraction(r) \/ CommitDecision(r)
    \/ CommitSuggestions(r) \/ CommitCode(r) \/ CommitLink(r)
    \/ CommitBulletin(r) \/ CommitApproval(r) \/ CommitExport(r)

-----------------------------------------------------------------------------
(* The worker: a delivery acknowledges its message by returning; a message  *)
(* not acknowledged in time is delivered again while the first one runs.    *)

Put(w, state) == worker' = [worker EXCEPT ![w] = state]

\* Normal return: the message is acknowledged.
Ack(w) == Put(w, Free) /\ queue' = queue \ {worker[w].job}

\* _mirror_round_extraction, from the rows this transaction sees.
Mirror(rows) ==
    LET Some(status) == \E p \in DOMAIN rows : rows[p].status = status
    IN  IF Some("running") THEN "running"
        ELSE IF Some("queued") THEN "queued"
        ELSE IF Some("failed") THEN "failed"
        ELSE IF Some("done") THEN "done" ELSE round.status

SetRow(p, status) == [plates EXCEPT ![p].status = status]

\* Mutant of Mine: the row is running, whoever runs it.
MineIfRunning(w) ==
    LET p == worker[w].plate IN p \in DOMAIN plates /\ plates[p].status = "running"

\* The plate is still the one this delivery claimed: the WHERE of both outcomes.
Mine(w) ==
    LET p == worker[w].plate
    IN  p \in DOMAIN plates /\ plates[p] = [status |-> "running", id |-> worker[w].job.id]

\* Mutant of Claimable: claimed on the root, as before the plates had rows.
ClaimableOnRoot(job) ==
    IF round.status = "running" THEN {}
    ELSE {p \in DOMAIN plates : /\ plates[p] = [status |-> "queued", id |-> job.id]
                                /\ job.plate \in {0, p}}

\* Mutant of Claimable: a row already running is taken again.
ClaimableAgain(job) ==
    {p \in DOMAIN plates : InFlight(plates[p]) /\ plates[p].id = job.id /\ job.plate \in {0, p}}

\* The rows the UPDATE of the claim matches.
Claimable(job) ==
    {p \in DOMAIN plates : /\ plates[p] = [status |-> "queued", id |-> job.id]
                           /\ job.plate \in {0, p}}

\* _claim_round_extraction up to the UPDATE of the root: the row is taken, the mirror read.
Claim(w, job) ==
    /\ Idle(worker, w)
    /\ job.kind = "extract"
    /\ \E p \in Claimable(job) :
           /\ \A q \in Claimable(job) : p <= q
           /\ ~Locked(p)
           /\ Put(w, [Free EXCEPT !.pc = "claiming", !.job = job, !.plate = p,
                                  !.mirror = Mirror(SetRow(p, "running"))])
    /\ UNCHANGED <<rowVars, request, queue, historyVars, left>>

\* _NOTHING_CLAIMED: acknowledged without work.
NothingClaimed(w, job) ==
    /\ Idle(worker, w)
    /\ job.kind = "extract"
    /\ Claimable(job) = {}
    /\ queue' = queue \ {job}
    /\ UNCHANGED <<rowVars, request, worker, historyVars, left>>

ClaimCommit(w) ==
    /\ worker[w].pc = "claiming"
    /\ plates' = SetRow(worker[w].plate, "running")
    /\ round' = [round EXCEPT !.status = worker[w].mirror]
    /\ Put(w, [worker[w] EXCEPT !.pc = "extracting", !.mirror = "none"])
    /\ UNCHANGED <<head, intent, request, queue, historyVars, left>>

\* _extract_round_plate: it may fail before the provider is called, or after.
Extract(w) ==
    /\ worker[w].pc = "extracting"
    /\ \/ /\ paid' = [paid EXCEPT ![worker[w].job.id][worker[w].plate] = @ + 1]
          /\ \E pc \in {"publish", "fail"} : Put(w, [worker[w] EXCEPT !.pc = pc])
       \/ Put(w, [worker[w] EXCEPT !.pc = "fail"]) /\ UNCHANGED paid
    /\ UNCHANGED <<rowVars, request, queue, signed, lost, declared, crossed, left>>

\* _write_round_extraction reads the head ...
PublishRead(w) ==
    /\ worker[w].pc = "publish"
    /\ Put(w, [worker[w] EXCEPT !.pc = "insert", !.at = head.version, !.tries = @ + 1])
    /\ UNCHANGED <<rowVars, request, queue, historyVars, left>>

\* The packet, at the column of its plate; the overlay is drawn from the packet itself.
WithPacket(p, packet) ==
    [head EXCEPT !.version = packet.rev, !.packets[p] = packet,
                 !.overlay = IF p = 1 THEN packet.rev ELSE @]

\* ... and commits revision, plate, root and mirror together; the UPDATE of the root's
\* version comes before the mirror is read, so here the root row is already locked.
Published(w) ==
    /\ worker[w].pc = "insert"
    /\ head.version = worker[w].at
    /\ Mine(w)
    /\ head' = WithPacket(worker[w].plate, [NoPacket EXCEPT !.rev = head.version + 1, !.open = TRUE])
    /\ plates' = SetRow(worker[w].plate, "done")
    /\ round' = [version |-> round.version + 1, status |-> Mirror(plates')]
    /\ Ack(w)
    /\ UNCHANGED <<intent, request, historyVars, left>>

\* The head moved: IntegrityError, tried again; or the plate is no longer this extraction's.
NotPublished(w) ==
    /\ worker[w].pc = "insert"
    /\ \/ head.version # worker[w].at
       \/ ~Mine(w)
    /\ Put(w, [worker[w] EXCEPT !.at = 0, !.pc =
                  IF head.version # worker[w].at /\ worker[w].tries < Attempts
                  THEN "publish" ELSE "fail"])
    /\ UNCHANGED <<rowVars, request, queue, historyVars, left>>

\* _settle_round_extraction up to the UPDATE of the root.
SettleRead(w) ==
    /\ worker[w].pc = "fail"
    /\ Put(w, [worker[w] EXCEPT !.pc = "settling",
                  !.plate = IF Mine(w) THEN @ ELSE 0,
                  !.mirror = Mirror(IF Mine(w) THEN SetRow(worker[w].plate, "failed") ELSE plates)])
    /\ UNCHANGED <<rowVars, request, queue, historyVars, left>>

SettleCommit(w) ==
    /\ worker[w].pc = "settling"
    /\ plates' = IF worker[w].plate = 0 THEN plates ELSE SetRow(worker[w].plate, "failed")
    /\ round' = [round EXCEPT !.status = worker[w].mirror]
    /\ Ack(w)
    /\ UNCHANGED <<head, intent, request, historyVars, left>>

\* Mutant of Current: some packet is published.
CurrentIfAny(job) == head.packets[1].rev # 0

\* The head still carries the packet the command names.
Current(job) == head.packets[1].rev = job.id

\* _handle_takeoff_overlay_rerender: the packet is read, drawn outside any transaction ...
Draw(w, job) ==
    /\ Idle(worker, w)
    /\ job.kind = "overlay"
    /\ IF Current(job)
       THEN Put(w, [Free EXCEPT !.pc = "drawing", !.job = job]) /\ UNCHANGED queue
       ELSE queue' = queue \ {job} /\ UNCHANGED worker
    /\ UNCHANGED <<rowVars, request, historyVars, left>>

\* ... checked again and stored; a drawing the domain refuses ends the command ...
Store(w) ==
    /\ worker[w].pc = "drawing"
    /\ \/ /\ Current(worker[w].job)
          /\ Put(w, [worker[w] EXCEPT !.pc = "declare"])
          /\ UNCHANGED queue
       \/ Ack(w)
    /\ UNCHANGED <<rowVars, request, historyVars, left>>

\* ... _publish_takeoff_overlay reads the head once more ...
DeclareRead(w) ==
    /\ worker[w].pc = "declare"
    /\ IF Current(worker[w].job) /\ head.overlay # worker[w].job.id
       THEN Put(w, [worker[w] EXCEPT !.pc = "declaring", !.at = head.version]) /\ UNCHANGED queue
       ELSE Ack(w)
    /\ UNCHANGED <<rowVars, request, historyVars, left>>

\* ... and declares the drawing, or leaves the message to be delivered again.
DeclareCommit(w) ==
    /\ worker[w].pc = "declaring"
    /\ IF head.version = worker[w].at
       THEN /\ head' = [head EXCEPT !.version = @ + 1, !.overlay = worker[w].job.id]
            /\ Ack(w)
       ELSE Put(w, Free) /\ UNCHANGED <<head, queue>>
    /\ UNCHANGED <<round, plates, intent, request, historyVars, left>>

\* The process dies: its open transaction is undone and its message stays.
Crash(w) ==
    /\ left["crash"] > 0
    /\ worker[w].pc # "idle"
    /\ Put(w, Free)
    /\ left' = [left EXCEPT !["crash"] = @ - 1]
    /\ lost' = lost \cup {worker[w].job}
    /\ UNCHANGED <<rowVars, request, queue, paid, signed, declared, crossed>>

Work(w) ==
    \/ \E job \in queue : Claim(w, job) \/ NothingClaimed(w, job) \/ Draw(w, job)
    \/ ClaimCommit(w) \/ Extract(w)
    \/ PublishRead(w) \/ Published(w) \/ NotPublished(w)
    \/ SettleRead(w) \/ SettleCommit(w)
    \/ Store(w) \/ DeclareRead(w) \/ DeclareCommit(w)

Next ==
    \/ \E r \in Request : Handle(r) \/ \E act \in Act : Load(r, act)
    \/ \E e \in 1..Len(intent) : Replay(e)
    \/ \E w \in Worker : Work(w) \/ Crash(w)

Spec == Init /\ [][Next]_vars

-----------------------------------------------------------------------------
(* What the code promises.                                                   *)

Packets == [rev : Nat, open : BOOLEAN, reading : {"proposed", "confirmed", "rejected"}]
Links == [kept : Position, discarded : Position]
Matrices == [posted : BOOLEAN, codes : SUBSET Code]
Contents == [matrix : BOOLEAN, packets : [Position -> Nat],
             lines : SUBSET (Position \X Code), fused : SUBSET Position]
Stamps == [rows : 0..Limit, packets : [Position -> Nat], codes : [Position -> Package(Code)],
           links : SUBSET Links, matrix : Matrices]
Revision == [version : Nat, packets : [Position -> Packets], codes : [Position -> Package(Code)],
             shortlist : [Position -> {"none", "lexical", "recomputed"}], links : SUBSET Links,
             bulletin : Contents, matrix : Matrices, stamp : Stamps,
             approval : Contents, overlay : Nat, workbook : Contents]
Job == [kind : {"extract", "overlay"}, id : Nat, plate : 0..Limit]

\* Every variable stays within its columns and its control points.
TypeOK ==
    /\ round \in [version : Nat, status : {"none", "queued", "running", "failed", "done"}]
    /\ plates \in Seq([status : {"none", "queued", "running", "failed", "done"}, id : Nat])
    /\ Len(plates) <= Limit
    /\ head \in Revision
    /\ intent \in Seq(Act)
    /\ request \in [Request -> [pc : {"idle", "loaded", "read", "ready", "enqueue"},
                                act : Act \cup {NoAct}, base : Nat, rows : 0..Limit,
                                view : Revision, at : Nat, messages : SUBSET Job]]
    /\ queue \in SUBSET Job
    /\ worker \in [Worker ->
          [pc : {"idle", "claiming", "extracting", "publish", "insert", "fail", "settling",
                 "drawing", "declare", "declaring"},
           job : Job, plate : 0..Limit,
           mirror : {"none", "queued", "running", "failed", "done"}, at : Nat, tries : Nat]]
    /\ paid \in Seq([Position -> Nat])
    /\ Len(paid) = Len(intent)
    /\ signed \in SUBSET Contents
    /\ lost \in SUBSET Job
    /\ declared \in SUBSET (Position \X SUBSET Code)
    /\ crossed \in BOOLEAN
    /\ left \in [Kind -> Nat]

\* "no maximo uma vez por comando enfileirado": redeliveries, repeated commands and crashes
\* never make one extraction call the provider twice for the same plate.
PaidOncePerCommand ==
    \A e \in DOMAIN paid, p \in Position : paid[e][p] <= 1

\* A late outcome never overwrites a later extraction that took the plate: no worker step
\* changes a row that belongs to another extraction than its own.
LateOutcomeIsHarmless ==
    [][\A w \in Worker, p \in DOMAIN plates :
          worker'[w] # worker[w] /\ plates'[p] # plates[p] => plates[p].id = worker[w].job.id]_vars

\* No workbook leaves with a content nobody signed, however the approval, the rebuilding
\* of the bulletin and the export of other requests interleave.
ExportedWasSigned == head.workbook # Blank => head.workbook \in signed

\* The overlay a worker declares is never that of a packet that is no longer the head's.
DeclaresTheCurrentPacket ==
    [][\A w \in Worker : worker[w].pc = "declaring" /\ head' # head /\ worker'[w] # worker[w]
          => head'.overlay = head'.packets[1].rev]_vars

\* What a worker learned before a new act of a reviewer never lands over it.
LateWorkIsHarmless == LateOutcomeIsHarmless /\ DeclaresTheCurrentPacket

\* A delivery at work on a plate it has claimed.
Holds(w, p) ==
    /\ worker[w].pc \in {"extracting", "publish", "insert", "fail", "settling"}
    /\ worker[w].plate = p /\ worker[w].job.id = plates[p].id

\* No command is forgotten: a queued plate has its message on the way, a running one has a
\* delivery that will declare its outcome; unless the transport refused the message or the
\* worker died, which only a new act of the reviewer repairs.
NoCommandForgotten ==
    \A p \in DOMAIN plates :
        LET Among(jobs) == \E q \in {0, p} : Extraction(plates[p].id, q) \in jobs
        IN  /\ plates[p].status = "queued" =>
                  Among(queue) \/ Among(lost) \/ \E r \in Request : Among(request[r].messages)
            /\ plates[p].status = "running" => Among(lost) \/ \E w \in Worker : Holds(w, p)

\* plate_packet_changes: "as folhas que este ato nao tocou viajam identicas, copiadas da
\* cabeca": a decision leaves the packets of the other plates as the head has them.
UntouchedPlatesTravel ==
    [][\A r \in Request :
          Ready(r, {"decide", "decideAll", "rejectAll"}) /\ head' # head /\ request'[r] # request[r] =>
             \A p \in Position \ request[r].act.on : head'.packets[p] = head.packets[p]]_vars

\* The bulletin on record is shown as up to date and is not what the plates, their codes and
\* their links now say.
Deceives(rev, rows) ==
    /\ rev.bulletin # Blank
    /\ ~Stale(rev, rows)
    /\ rev.bulletin # Measured(rev, rows, rev.matrix) \/ ~MayBuild(rev, rows, rev.matrix)

\* However plates, decisions, revocations, links and builds interleave with approvals and
\* exports, a bulletin that no longer describes the worksite is said to be stale; unless an
\* approval or an export that overlapped its building put bulletin and stamp at odds.
StaleIsSaid == Deceives(head, Len(plates)) => crossed

\* BULLETIN_SOURCES_DIGEST: "é escrito no ato que monta a medição e nunca mais é tocado até a
\* próxima montagem": the stamp of the head changes when a bulletin is built, and only then.
StampStaysUntilRebuilt ==
    [][head'.stamp # head.stamp =>
          \E r \in Request : Ready(r, {"build", "buildWithMatrix"}) /\ request'[r] # request[r]]_vars

\* A package that counts as complete has the codes it had when somebody declared it complete,
\* and no reading is discarded twice or discarded in favour of one that is discarded itself,
\* whichever acts overlapped.
DeclarationsStand ==
    /\ \A p \in Position :
          head.codes[p].closed => <<p, head.codes[p].confirmed>> \in declared
    /\ \A l, m \in head.links : l # m => l.discarded \notin {m.discarded, m.kept}
=============================================================================
