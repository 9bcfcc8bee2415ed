------------------------------ MODULE SurveyServer ------------------------------
(***************************************************************************)
(* The /v1/surveys routes of the API (services/api/.../main.py) for ONE    *)
(* survey of one tenant, over the tables of database.py.                   *)
(*                                                                         *)
(* A handler runs in a worker (a Cloud Run instance serving one request).  *)
(* It is split where another instance can commit between its reads and its *)
(* writes: the database is PostgreSQL at READ COMMITTED and no row is      *)
(* version-checked, so each SELECT sees the last commit and the ORM writes *)
(* back what it computed from what it had read.  The flush that writes and *)
(* the commit after it are one step: the flushed rows stay locked, so no   *)
(* other transaction can act between the two.                              *)
(*                                                                         *)
(* Which client sends what is not decided here: any body of Requests may   *)
(* arrive at any time and any number of times, so lost, repeated, delayed  *)
(* and reordered requests are all behaviours.  FieldSync.tla composes the  *)
(* same handlers with the real client.                                     *)
(***************************************************************************)
EXTENDS Integers, FiniteSets, FiniteSetsExt

CONSTANTS
    Device,       \* device_id of the phones that collect this survey
    Op,           \* operation_id, globally unique (crypto.randomUUID)
    OpDevice,     \* the device that created each operation
    Batch,        \* Idempotency-Key of a batch (newBatchId)
    Digest,       \* sha256 of the photos and audios a packet references
    Worker,       \* API instances able to run a handler at the same time
    Requests,     \* requests the clients of this specification may send
    MaxMessages   \* bound on the messages counted per queue command

ASSUME OpAssumption ==
    /\ IsFiniteSet(Op)
    /\ OpDevice \in [Op -> Device]

VARIABLES
    survey,    \* SurveyRecord: status, version, snapshot_json
    stored,    \* SurveyOperationRecord: the seq of each stored operation, 0 if none
    idem,      \* IdempotencyRecord: the bodies answered, with the answer kept
    media,     \* SurveyMediaRecord.status per digest
    url,       \* the upload URL signed for a digest: none, live or expired
    blob,      \* digests whose object is in the bucket, whole
    txn,       \* what each worker is doing
    answers,   \* every response sent, with the request it answers
    exports,   \* export_survey messages published
    analyses,  \* analyze_survey_photo / transcribe_survey_audio messages per digest
    crossed    \* history: a batch and the completion of the survey ran over each other

vars == <<survey, stored, idem, media, url, blob, txn, answers, exports, analyses, crossed>>

dbVars == <<survey, stored, idem, crossed>>
mediaVars == <<media, url, blob>>
queueVars == <<exports, analyses>>

-----------------------------------------------------------------------------
(* Data.                                                                    *)

\* SurveyPacket: which commands of the devices it reflects, whether it declares
\* the survey concluded, and which media it references.
Content == [seen : SUBSET Op, concluded : BOOLEAN, media : SUBSET Digest]

NoContent == [seen |-> {}, concluded |-> FALSE, media |-> {}]

Survey == [status : {"ABSENT", "OPEN", "COMPLETED"}, version : Nat, content : Content]

\* Request bodies.  seqs[o] = 0: operation o is not in the batch.
SubmitBody == [kind : {"submit"}, key : Batch, dev : Device,
               seqs : [Op -> Nat], content : Content]
CompleteBody == [kind : {"complete"}, base : Nat]
MediaBody == [kind : {"presign", "confirm"}, digest : Digest]
GetBody == [kind : {"get"}]
Body == SubmitBody \cup CompleteBody \cup MediaBody \cup GetBody

\* attempt distinguishes the retries of one call: they carry the same body.
Request == [from : Device, attempt : Nat, body : Body]

ASSUME RequestsAssumption == Requests \subseteq Request

AckAnswer == [code : {"ack"}, ops : SUBSET Op, version : Nat]
ConflictAnswer == [code : {"conflict"}, version : Nat, last : Nat, snapshot : Content]
StateAnswer == [code : {"state"}, survey : Survey, confirmed : SUBSET Digest]
PlainAnswer == [code : {"race", "missing", "invalid", "reused", "not_concluded",
                        "media_pending", "not_referenced", "mismatch", "url",
                        "unavailable", "failed"}]
Answer == AckAnswer \cup ConflictAnswer \cup StateAnswer \cup PlainAnswer

\* A handler in progress: the ORM object it read and the operations it will insert.
Idle == [pc |-> "idle"]
Stage == {"create", "compare", "write", "gate", "close", "export",
          "sign", "accept", "analyse"}
Running == [pc : Stage, req : Request, read : Survey, created : BOOLEAN,
            fresh : SUBSET Op]

-----------------------------------------------------------------------------
(* What the handlers read.                                                  *)

Ops(b) == {o \in Op : b.seqs[o] # 0}

SeqsOf(d) == {stored[o] : o \in {p \in Op : OpDevice[p] = d}} \ {0}

\* _last_seq_by_device: max(seq) per device; a device with no row counts as 0.
LastSeq(d) == Max(SeqsOf(d) \cup {0})

ConfirmedOrPresigned == {g \in Digest : media[g] # "ABSENT"}   \* mutant of Confirmed

Confirmed == {g \in Digest : media[g] = "CONFIRMED"}

\* The operations F of batch b take exactly the sequence numbers after `last`.
Continues(b, F, last) ==
    /\ \A o, p \in F : b.seqs[o] = b.seqs[p] => o = p
    /\ {b.seqs[o] : o \in F} = (last + 1)..(last + Cardinality(F))

\* (operation, key) of the idempotency record, per route; the key of a
\* completion is the version it closes and that of a presign is the digest.
Scope(b) == CASE b.kind = "submit"   -> <<"submit", b.key>>
              [] b.kind = "complete" -> <<"complete", b.base>>
              [] b.kind = "presign"  -> <<"presign", b.digest>>
              [] OTHER               -> <<b.kind, 0>>

Known(b) == \E e \in idem : Scope(e.body) = Scope(b)

Kept(b) == CHOOSE e \in idem : Scope(e.body) = Scope(b)

Plain(code) == [code |-> code]

\* _idempotent_response: the answer kept, or IDEMPOTENCY_KEY_REUSED.
Replay(b) == IF Kept(b).body = b THEN Kept(b).answer ELSE Plain("reused")

\* _survey_conflict: the record as this handler read it, the sequence as it is now.
Conflict(read, d) == [code |-> "conflict", version |-> read.version,
                      last |-> LastSeq(d), snapshot |-> read.content]

\* Mutant of State: a signed upload is reported as a media that arrived.
StateOfPresigned(read) == [code |-> "state", survey |-> read,
                           confirmed |-> ConfirmedOrPresigned]

State(read) == [code |-> "state", survey |-> read, confirmed |-> Confirmed]

-----------------------------------------------------------------------------
(* Steps of a handler.                                                      *)

Reply(w, r, a) ==
    /\ answers' = answers \cup {[req |-> r, says |-> a]}
    /\ txn' = [txn EXCEPT ![w] = Idle]

Advance(w, stage) ==
    /\ txn' = [txn EXCEPT ![w].pc = stage]
    /\ UNCHANGED answers

Begin(w, r, stage, read) ==
    /\ txn' = [txn EXCEPT ![w] = [pc |-> stage, req |-> r, read |-> read,
                                  created |-> FALSE, fresh |-> {}]]
    /\ UNCHANGED answers

KeepNothing(r, a) == UNCHANGED idem   \* mutant of Keep

Keep(r, a) == idem' = idem \cup {[body |-> r.body, answer |-> a]}

Receives(w, r, kind) == txn[w] = Idle /\ r.body.kind = kind
At(w, stage) == txn[w].pc = stage

-----------------------------------------------------------------------------
(* POST /v1/surveys/{id}/operations                                         *)

\* _validate_survey_batch: an operation of another device refuses the batch.
Malformed(b) == \E o \in Ops(b) : OpDevice[o] # b.dev

NeverShut == FALSE   \* mutant of Shut

Shut == survey.status = "COMPLETED"

SubmitBegin(w, r) ==
    LET fresh == ~Malformed(r.body) /\ ~Known(r.body) IN
    /\ Receives(w, r, "submit")
    /\ \/ /\ Malformed(r.body)
          /\ Reply(w, r, Plain("invalid"))
       \/ /\ ~Malformed(r.body)
          /\ Known(r.body)
          /\ Reply(w, r, Replay(r.body))
       \/ /\ fresh
          /\ Shut
          /\ Reply(w, r, Conflict(survey, r.body.dev))
       \/ /\ fresh
          /\ ~Shut
          /\ Begin(w, r, IF survey.status = "ABSENT" THEN "create" ELSE "compare", survey)
    /\ UNCHANGED <<dbVars, mediaVars, queueVars>>

\* The INSERT of the survey row waits while another open transaction holds the
\* same primary key, and fails if that transaction has committed it.
SubmitCreate(w) ==
    /\ At(w, "create")
    /\ ~\E v \in Worker : txn[v].pc \in {"compare", "write"} /\ txn[v].created
    /\ \/ /\ survey.status # "ABSENT"
          /\ Reply(w, txn[w].req, Plain("race"))
       \/ /\ survey.status = "ABSENT"
          /\ txn' = [txn EXCEPT ![w].pc = "compare", ![w].created = TRUE,
                                ![w].read = [status |-> "OPEN", version |-> 1,
                                             content |-> txn[w].req.body.content]]
          /\ UNCHANGED answers
    /\ UNCHANGED <<dbVars, mediaVars, queueVars>>

\* Mutant of Unseen: known by their number instead of their operation_id.
UnseenByNumber(b) == {o \in Ops(b) : b.seqs[o] > LastSeq(b.dev)}

\* Those not in stored_ids.
Unseen(b) == {o \in Ops(b) : stored[o] = 0}

\* stored_ids, last_seq and the contiguity check.
SubmitCompare(w) ==
    LET r == txn[w].req
        fresh == Unseen(r.body)
        contiguous == fresh = {} \/ Continues(r.body, fresh, LastSeq(r.body.dev))
    IN  /\ At(w, "compare")
        /\ \/ /\ ~contiguous
              /\ Reply(w, r, Conflict(txn[w].read, r.body.dev))
           \/ /\ contiguous
              /\ txn' = [txn EXCEPT ![w].pc = "write", ![w].fresh = fresh]
              /\ UNCHANGED answers
        /\ UNCHANGED <<dbVars, mediaVars, queueVars>>

\* Mutant of Clash: no unique (tenant, survey, device, seq).
ClashOfIds(b, fresh) == \E o \in fresh : stored[o] # 0

\* The primary key (tenant, id) or the unique (tenant, survey, device, seq) is taken.
Clash(b, fresh) == \E o \in fresh : stored[o] # 0 \/ b.seqs[o] \in SeqsOf(b.dev)

\* Mutant of Written: the snapshot stays behind.
WrittenWithoutSnapshot(t) ==
    IF t.created THEN t.read
    ELSE IF t.fresh = {} THEN survey
    ELSE [survey EXCEPT !.version = t.read.version + 1]

\* The row after the flush.  The ORM writes version and snapshot from what the
\* handler read (a column whose value did not change is not written), never status.
Written(t) ==
    IF t.created THEN t.read
    ELSE IF t.fresh = {} THEN survey
    ELSE [survey EXCEPT !.version = t.read.version + 1,
                        !.content = IF t.req.body.content = t.read.content
                                    THEN @ ELSE t.req.body.content]

\* History, no code: this batch, begun before the completion committed, changes the
\* packet of the survey now closed.
LandsOnClosed(t) ==
    /\ survey.status = "COMPLETED"
    /\ t.read.status = "OPEN"
    /\ Written(t).content # survey.content

Ack(t) == [code |-> "ack", ops |-> Ops(t.req.body),
           version |-> IF t.created \/ t.fresh = {} THEN t.read.version
                       ELSE t.read.version + 1]

\* flush, _store_idempotent_response and commit.  A duplicate idempotency key is
\* an IntegrityError nobody catches: HTTP 500.
SubmitWrite(w) ==
    LET t == txn[w]
        b == t.req.body
    IN  /\ At(w, "write")
        /\ \/ /\ Clash(b, t.fresh)
              /\ Reply(w, t.req, Plain("race"))
              /\ UNCHANGED dbVars
           \/ /\ ~Clash(b, t.fresh)
              /\ Known(b)
              /\ Reply(w, t.req, Plain("failed"))
              /\ UNCHANGED dbVars
           \/ /\ ~Clash(b, t.fresh)
              /\ ~Known(b)
              /\ stored' = [o \in Op |-> IF o \in t.fresh THEN b.seqs[o] ELSE stored[o]]
              /\ survey' = Written(t)
              /\ crossed' = (crossed \/ LandsOnClosed(t))
              /\ Keep(t.req, Ack(t))
              /\ Reply(w, t.req, Ack(t))
        /\ UNCHANGED <<mediaVars, queueVars>>

-----------------------------------------------------------------------------
(* GET /v1/surveys/{id}                                                     *)

GetSurvey(w, r) ==
    /\ Receives(w, r, "get")
    /\ Reply(w, r, IF survey.status = "ABSENT" THEN Plain("missing") ELSE State(survey))
    /\ UNCHANGED <<dbVars, mediaVars, queueVars>>

-----------------------------------------------------------------------------
(* POST /v1/surveys/{id}/complete                                           *)

\* A repeated command publishes the export again before it replays the answer.
CompleteBegin(w, r) ==
    /\ Receives(w, r, "complete")
    /\ \/ /\ survey.status = "ABSENT"
          /\ Reply(w, r, Plain("missing"))
          /\ UNCHANGED exports
       \/ /\ survey.status # "ABSENT"
          /\ Known(r.body)
          /\ \/ /\ exports < MaxMessages
                /\ exports' = exports + 1
                /\ Reply(w, r, Replay(r.body))
             \/ /\ Reply(w, r, Plain("unavailable"))
                /\ UNCHANGED exports
       \/ /\ survey.status # "ABSENT"
          /\ ~Known(r.body)
          /\ survey.status # "OPEN" \/ survey.version # r.body.base
          /\ Reply(w, r, Conflict(survey, r.from))
          /\ UNCHANGED exports
       \/ /\ survey.status = "OPEN"
          /\ ~Known(r.body)
          /\ survey.version = r.body.base
          /\ ~survey.content.concluded
          /\ Reply(w, r, Plain("not_concluded"))
          /\ UNCHANGED exports
       \/ /\ survey.status = "OPEN"
          /\ ~Known(r.body)
          /\ survey.version = r.body.base
          /\ survey.content.concluded
          /\ Begin(w, r, "gate", survey)
          /\ UNCHANGED exports
    /\ UNCHANGED <<dbVars, mediaVars, analyses>>

\* Every media the packet references must have been confirmed.
CompleteGate(w) ==
    /\ At(w, "gate")
    /\ \/ /\ ~(txn[w].read.content.media \subseteq Confirmed)
          /\ Reply(w, txn[w].req, Plain("media_pending"))
       \/ /\ txn[w].read.content.media \subseteq Confirmed
          /\ Advance(w, "close")
    /\ UNCHANGED <<dbVars, mediaVars, queueVars>>

Closed(t) == State([t.read EXCEPT !.status = "COMPLETED"])

\* History, no code: a batch changed the packet since this completion read it.
ClosesUnread(t) == survey.content # t.read.content

\* Only status is dirty, so only status is written.
CompleteClose(w) ==
    /\ At(w, "close")
    /\ \/ /\ Known(txn[w].req.body)
          /\ Reply(w, txn[w].req, Plain("failed"))
          /\ UNCHANGED <<survey, idem, crossed>>
       \/ /\ ~Known(txn[w].req.body)
          /\ survey' = [survey EXCEPT !.status = "COMPLETED"]
          /\ crossed' = (crossed \/ ClosesUnread(txn[w]))
          /\ Keep(txn[w].req, Closed(txn[w]))
          /\ Advance(w, "export")
    /\ UNCHANGED <<stored, mediaVars, queueVars>>

\* Mutant of CompletePublish: a refusal of the broker is swallowed.
CompletePublishSilently(w) ==
    /\ At(w, "export")
    /\ exports' \in {exports, exports + 1} \cap 0..MaxMessages
    /\ Reply(w, txn[w].req, Closed(txn[w]))
    /\ UNCHANGED <<dbVars, mediaVars, analyses>>

\* enqueue_survey_export, after the commit.
CompletePublish(w) ==
    /\ At(w, "export")
    /\ \/ /\ exports < MaxMessages
          /\ exports' = exports + 1
          /\ Reply(w, txn[w].req, Closed(txn[w]))
       \/ /\ Reply(w, txn[w].req, Plain("unavailable"))
          /\ UNCHANGED exports
    /\ UNCHANGED <<dbVars, mediaVars, analyses>>

-----------------------------------------------------------------------------
(* POST /v1/surveys/{id}/media/presign and .../media/{sha256}/confirm       *)

PresignBegin(w, r) ==
    /\ Receives(w, r, "presign")
    /\ \/ /\ survey.status = "ABSENT"
          /\ Reply(w, r, Plain("missing"))
       \/ /\ survey.status # "ABSENT"
          /\ Known(r.body)
          /\ Reply(w, r, Replay(r.body))
       \/ /\ survey.status # "ABSENT"
          /\ ~Known(r.body)
          /\ r.body.digest \notin survey.content.media
          /\ Reply(w, r, Plain("not_referenced"))
       \/ /\ survey.status # "ABSENT"
          /\ ~Known(r.body)
          /\ r.body.digest \in survey.content.media
          /\ txn' = [txn EXCEPT ![w] =
                       [pc |-> "sign", req |-> r, read |-> survey, fresh |-> {},
                        created |-> media[r.body.digest] = "ABSENT"]]
          /\ UNCHANGED answers
    /\ UNCHANGED <<dbVars, mediaVars, queueVars>>

\* The row is inserted, or its declared type and size rewritten; the URL lasts
\* fifteen minutes and is kept in the idempotency record with the answer.
PresignSign(w) ==
    LET t == txn[w]
        g == t.req.body.digest
        taken == t.created /\ media[g] # "ABSENT"
    IN  /\ At(w, "sign")
        /\ \/ /\ taken \/ Known(t.req.body)
              /\ Reply(w, t.req, Plain("failed"))
              /\ UNCHANGED <<idem, media, url>>
           \/ /\ ~taken
              /\ ~Known(t.req.body)
              /\ media' = [media EXCEPT ![g] = IF t.created THEN "PRESIGNED" ELSE @]
              /\ url' = [url EXCEPT ![g] = "live"]
              /\ Keep(t.req, Plain("url"))
              /\ Reply(w, t.req, Plain("url"))
        /\ UNCHANGED <<survey, stored, blob, crossed, queueVars>>

\* head_upload compares the object with the size and checksum declared.
ConfirmBegin(w, r) ==
    LET g == r.body.digest IN
    /\ Receives(w, r, "confirm")
    /\ \/ /\ survey.status = "ABSENT" \/ media[g] = "ABSENT"
          /\ Reply(w, r, Plain("missing"))
       \/ /\ survey.status # "ABSENT"
          /\ media[g] = "CONFIRMED"
          /\ Reply(w, r, State(survey))
       \/ /\ survey.status # "ABSENT"
          /\ media[g] = "PRESIGNED"
          /\ g \notin blob
          /\ Reply(w, r, Plain("mismatch"))
       \/ /\ survey.status # "ABSENT"
          /\ media[g] = "PRESIGNED"
          /\ g \in blob
          /\ Begin(w, r, "accept", survey)
    /\ UNCHANGED <<dbVars, mediaVars, queueVars>>

\* Commits CONFIRMED ...
ConfirmAccept(w) ==
    /\ At(w, "accept")
    /\ media' = [media EXCEPT ![txn[w].req.body.digest] = "CONFIRMED"]
    /\ Advance(w, "analyse")
    /\ UNCHANGED <<dbVars, url, blob, queueVars>>

\* ... then publishes the processing, or takes the confirmation back.
ConfirmPublish(w) ==
    LET g == txn[w].req.body.digest IN
    /\ At(w, "analyse")
    /\ \/ /\ analyses[g] < MaxMessages
          /\ analyses' = [analyses EXCEPT ![g] = @ + 1]
          /\ Reply(w, txn[w].req, State(txn[w].read))
          /\ UNCHANGED media
       \/ /\ media' = [media EXCEPT ![g] = "PRESIGNED"]
          /\ Reply(w, txn[w].req, Plain("unavailable"))
          /\ UNCHANGED analyses
    /\ UNCHANGED <<dbVars, url, blob, exports>>

\* The client's PUT to the bucket, which the signature admits while it lasts.
PutObject(g) ==
    /\ url[g] = "live"
    /\ blob' = blob \cup {g}
    /\ UNCHANGED <<dbVars, media, url, txn, answers, queueVars>>

UrlExpires(g) ==
    /\ url[g] = "live"
    /\ url' = [url EXCEPT ![g] = "expired"]
    /\ UNCHANGED <<dbVars, media, blob, txn, answers, queueVars>>

\* The instance dies: its transaction is rolled back and nobody is answered.
Crash(w) ==
    /\ txn[w] # Idle
    /\ txn' = [txn EXCEPT ![w] = Idle]
    /\ UNCHANGED <<dbVars, mediaVars, answers, queueVars>>

-----------------------------------------------------------------------------

Init ==
    /\ survey = [status |-> "ABSENT", version |-> 0, content |-> NoContent]
    /\ stored = [o \in Op |-> 0]
    /\ idem = {}
    /\ media = [g \in Digest |-> "ABSENT"]
    /\ url = [g \in Digest |-> "none"]
    /\ blob = {}
    /\ txn = [w \in Worker |-> Idle]
    /\ answers = {}
    /\ exports = 0
    /\ analyses = [g \in Digest |-> 0]
    /\ crossed = FALSE

Receive(w, r) ==
    \/ SubmitBegin(w, r)
    \/ GetSurvey(w, r)
    \/ CompleteBegin(w, r)
    \/ PresignBegin(w, r)
    \/ ConfirmBegin(w, r)

Continue(w) ==
    \/ SubmitCreate(w)
    \/ SubmitCompare(w)
    \/ SubmitWrite(w)
    \/ CompleteGate(w)
    \/ CompleteClose(w)
    \/ CompletePublish(w)
    \/ PresignSign(w)
    \/ ConfirmAccept(w)
    \/ ConfirmPublish(w)

Storage(g) == PutObject(g) \/ UrlExpires(g)

Next ==
    \/ \E w \in Worker :
          \/ \E r \in Requests : Receive(w, r)
          \/ Continue(w)
          \/ Crash(w)
    \/ \E g \in Digest : Storage(g)

Spec == Init /\ [][Next]_vars

-----------------------------------------------------------------------------
(* Properties.                                                              *)

Txn == {Idle} \cup Running

\* The type of every variable (the SQL columns and the response bodies).
TypeOK ==
    /\ survey \in Survey
    /\ stored \in [Op -> Nat]
    /\ idem \subseteq [body : Body, answer : Answer]
    /\ media \in [Digest -> {"ABSENT", "PRESIGNED", "CONFIRMED"}]
    /\ url \in [Digest -> {"none", "live", "expired"}]
    /\ blob \subseteq Digest
    /\ txn \in [Worker -> Txn]
    /\ answers \subseteq [req : Request, says : Answer]
    /\ exports \in Nat
    /\ analyses \in [Digest -> Nat]
    /\ crossed \in BOOLEAN

\* However the batches of a device are retried, duplicated and interleaved over
\* the instances, its stored operations carry the sequence 1..n: no gap and no
\* number used twice (submit_survey_operations, rule 3 of its docstring).
LedgerContiguous ==
    \A d \in Device :
        /\ SeqsOf(d) = 1..LastSeq(d)
        /\ \A o, p \in Op :
              OpDevice[o] = d /\ OpDevice[p] = d /\ stored[o] # 0 /\ stored[o] = stored[p]
              => o = p

\* An operation the server has acknowledged to anybody is in its table: the
\* client may stop offering it (SurveyOperationsAckResponse).
AckIsStored ==
    \A a \in answers : a.says.code = "ack" => \A o \in a.says.ops : stored[o] # 0

\* One Idempotency-Key is acknowledged with one answer, even when two instances
\* run the same batch at once (uq_idempotency_scope).
OneAckPerKey ==
    \A x, y \in answers :
        /\ x.says.code = "ack" /\ y.says.code = "ack"
        /\ x.req.body.key = y.req.body.key
        => x.says = y.says

\* No survey is closed on evidence that is still in the phone (complete_survey): the
\* packet a completion checked declares the conclusion and has its media in the bucket,
\* and so does the packet of the closed row, whatever became of the upload between the
\* checks and the commit and whatever arrived afterwards -- unless a batch and the
\* completion ran over each other on two instances.
ClosedWithEvidence ==
    /\ \A e \in idem :
          e.body.kind = "complete" =>
              /\ e.answer.survey.content.concluded
              /\ e.answer.survey.content.media \subseteq blob
    /\ survey.status = "COMPLETED" /\ ~crossed =>
          /\ survey.content.concluded
          /\ survey.content.media \subseteq blob

\* "Concluir com foto pendente publicaria um levantamento cuja evidência ainda está no
\* aparelho" (complete_survey): refuted, by a batch that adds a photo while the
\* completion is between its checks and its commit.
ClosedRowHasEvidence ==
    survey.status = "COMPLETED" =>
        /\ survey.content.concluded
        /\ survey.content.media \subseteq blob

\* "Concluído não aceita operação nova" (SurveyRecord): refuted, by a batch that read
\* the status before the completion committed.
ClosedTakesNothing ==
    [][survey.status = "COMPLETED" => stored' = stored]_vars

\* Whoever is told that its completion succeeded has had an export published,
\* even when the instance died between the commit and the publication and the
\* command had to be repeated (complete_survey: "uma mensagem perdida no
\* transporte precisa de caminho de volta").
ClosedIsPublished ==
    \A a \in answers :
        a.req.body.kind = "complete" /\ a.says.code = "state" => exports > 0

\* The ledger of a device: its stored operations in sequence.
Log(d) == [i \in 1..LastSeq(d) |-> CHOOSE o \in Op : OpDevice[o] = d /\ stored[o] = i]

Acked == UNION {a.says.ops : a \in {x \in answers : x.says.code = "ack"}}

Ledger == INSTANCE SurveyLedger WITH ledger <- [d \in Device |-> Log(d)], acked <- Acked

\* The routes implement the ledger: a batch extends its device's log whole and
\* in order, nothing leaves the log, and only what is in it is acknowledged.
ImplementsLedger == Ledger!Spec
=============================================================================
