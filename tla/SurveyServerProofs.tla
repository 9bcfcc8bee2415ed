--------------------------- MODULE SurveyServerProofs ---------------------------
(***************************************************************************)
(* Theorems about SurveyServer, for any number of phones, operations,      *)
(* media and instances of the API, and any requests the clients send.      *)
(*                                                                         *)
(* The ledger is contiguous because of two facts the code establishes at   *)
(* different moments: the contiguity check, made against the last sequence *)
(* number the handler saw, and the unique index, enforced when it writes.  *)
(* Ready states what the first leaves true until the second is met.        *)
(*                                                                         *)
(* What the routes promise their clients beyond that, one acknowledgement  *)
(* per key and a closure that had its evidence and is exported, rests on   *)
(* CInv: a record of idempotency is written once per scope and says what   *)
(* its route answers, and a handler past a check knows something that no   *)
(* later step undoes (Serves), because a completed request reads its own   *)
(* copy of the packet and no object ever leaves the bucket.  The row that  *)
(* is closed has that evidence too (ClosedRow) until a batch crosses the   *)
(* completion, which is what the history variable crossed remembers.       *)
(*                                                                         *)
(* That the routes implement SurveyLedger rests on the contiguous ledger:  *)
(* a write lands right after the last stored operation of its device.      *)
(***************************************************************************)
EXTENDS SurveyServer, TLAPS, FiniteSetTheorems, SequenceTheorems

-----------------------------------------------------------------------------
(* The inductive invariant.                                                 *)

\* LedgerContiguous, with the type of its counter.
Contiguous ==
    /\ \A d \in Device : LastSeq(d) \in Nat
    /\ LedgerContiguous

\* A handler about to write: the operations it does not insert are stored, and
\* those it inserts continue a sequence the device had reached when it looked.
Ready(t) ==
    LET b == t.req.body IN
    /\ t.fresh \subseteq Ops(b)
    /\ \A o \in Ops(b) \ t.fresh : stored[o] # 0
    /\ \A o, p \in t.fresh : b.seqs[o] = b.seqs[p] => o = p
    /\ t.fresh # {} =>
          \E l \in 0..LastSeq(b.dev) :
              {b.seqs[o] : o \in t.fresh} = (l + 1)..(l + Cardinality(t.fresh))

Submitting(t) == t.pc \in {"create", "compare", "write"}

Sound(t) ==
    /\ Submitting(t) => t.req.body.kind = "submit" /\ ~Malformed(t.req.body)
    /\ t.pc = "write" => Ready(t)

Underway == \A w \in Worker : Sound(txn[w])

\* What an acknowledgement promises, whether it was sent or is kept for a replay.
Honoured(a) == a.code = "ack" => \A o \in a.ops : stored[o] # 0

Promised ==
    /\ \A e \in idem : Honoured(e.answer)
    /\ \A a \in answers : Honoured(a.says)

IInv == TypeOK /\ Contiguous /\ Underway /\ Promised

-----------------------------------------------------------------------------
(* Data.                                                                    *)

\* The greatest element of 0..n, as LastSeq computes it.
LEMMA MaxOfRun ==
    ASSUME NEW n \in Nat
    PROVE  Max((1..n) \cup {0}) = n
  <1> DEFINE S == (1..n) \cup {0}
  <1>1. n \in S /\ \A y \in S : n >= y
    OBVIOUS
  <1>2. \A x \in S : (\A y \in S : x >= y) => x = n
    BY <1>1
  <1> QED
    BY <1>1, <1>2 DEF Max

\* A request belongs to the body of the route its kind names.
LEMMA BodyKinds ==
    ASSUME NEW r \in Request
    PROVE  /\ r.from \in Device
           /\ r.body \in Body
           /\ r.body.kind = "submit" => r.body \in SubmitBody
           /\ r.body.kind = "complete" => r.body \in CompleteBody
           /\ r.body.kind \in {"presign", "confirm"} => r.body \in MediaBody
  BY DEF Request, Body, SubmitBody, CompleteBody, MediaBody, GetBody

\* Every answer a handler builds is one of the response bodies.
LEMMA AnswerForms ==
    /\ \A S \in SUBSET Op, v \in Nat : [code |-> "ack", ops |-> S, version |-> v] \in Answer
    /\ \A s \in Survey, d \in Device :
          LastSeq(d) \in Nat => Conflict(s, d) \in Answer
    /\ \A s \in Survey : State(s) \in Answer
    /\ \A c \in {"race", "missing", "invalid", "reused", "not_concluded", "media_pending",
                 "not_referenced", "mismatch", "url", "unavailable", "failed"} :
          Plain(c) \in Answer
  <1>1. \A s \in Survey : s.version \in Nat /\ s.content \in Content
    BY DEF Survey
  <1>2. Confirmed \in SUBSET Digest
    BY DEF Confirmed
  <1> QED
    BY <1>1, <1>2 DEF Answer, AckAnswer, ConflictAnswer, StateAnswer, PlainAnswer,
                      Conflict, State, Plain

\* _idempotent_response returns a well formed answer, and one that was kept
\* keeps its promise.
LEMMA ReplayForm ==
    ASSUME TypeOK, NEW b, Known(b)
    PROVE  /\ Replay(b) \in Answer
           /\ Promised => Honoured(Replay(b))
  <1>1. Kept(b) \in idem
    BY DEF Known, Kept
  <1>2. Kept(b).answer \in Answer
    BY <1>1 DEF TypeOK
  <1>3. Plain("reused") \in Answer /\ Honoured(Plain("reused"))
    BY AnswerForms DEF Honoured, Plain
  <1>4. Promised => Honoured(Kept(b).answer)
    BY <1>1 DEF Promised
  <1> QED
    BY <1>2, <1>3, <1>4 DEF Replay

-----------------------------------------------------------------------------
(* What the steps of a handler do to txn and answers.                       *)

\* A worker at a stage of a handler is running one.
LEMMA AtRuns ==
    ASSUME TypeOK, NEW w \in Worker, NEW s \in Stage, At(w, s)
    PROVE  txn[w] \in Running
  BY DEF TypeOK, Txn, At, Idle, Stage

\* Answering a request keeps the types of txn and answers.
LEMMA ReplyType ==
    ASSUME TypeOK, NEW w \in Worker, NEW r \in Request, NEW a \in Answer, Reply(w, r, a)
    PROVE  /\ txn' \in [Worker -> Txn]
           /\ answers' \subseteq [req : Request, says : Answer]
  BY DEF TypeOK, Reply, Txn

\* Going to the next stage keeps the types of txn and answers.
LEMMA AdvanceType ==
    ASSUME TypeOK, NEW w \in Worker, txn[w] \in Running, NEW s \in Stage, Advance(w, s)
    PROVE  /\ txn' \in [Worker -> Txn]
           /\ answers' \subseteq [req : Request, says : Answer]
  BY DEF TypeOK, Advance, Txn, Running

\* Starting a handler keeps the types of txn and answers.
LEMMA BeginType ==
    ASSUME TypeOK, NEW w \in Worker, NEW r \in Request, NEW s \in Stage,
           NEW read \in Survey, Begin(w, r, s, read)
    PROVE  /\ txn' \in [Worker -> Txn]
           /\ answers' \subseteq [req : Request, says : Answer]
  BY DEF TypeOK, Begin, Txn, Running

-----------------------------------------------------------------------------
(* Type correctness, one lemma per group of routes.                         *)

\* submit_survey_operations keeps every type, from its first read to its commit.
LEMMA SubmitType ==
    ASSUME TypeOK, Contiguous, NEW w \in Worker,
           (\E r \in Requests : SubmitBegin(w, r)) \/ SubmitCreate(w) \/ SubmitCompare(w)
              \/ SubmitWrite(w),
           Underway
    PROVE  TypeOK'
  <1>1. ASSUME NEW r \in Requests, SubmitBegin(w, r) PROVE TypeOK'
    <2>1. r \in Request /\ r.body \in SubmitBody
      BY <1>1, BodyKinds, RequestsAssumption DEF SubmitBegin, Receives
    <2>2. r.body.dev \in Device
      BY <2>1 DEF SubmitBody
    <2>3. UNCHANGED <<dbVars, mediaVars, queueVars>>
      BY <1>1 DEF SubmitBegin
    <2>4. /\ txn' \in [Worker -> Txn]
          /\ answers' \subseteq [req : Request, says : Answer]
      <3>1. CASE Reply(w, r, Plain("invalid"))
        BY <3>1, <2>1, ReplyType, AnswerForms
      <3>2. CASE Known(r.body) /\ Reply(w, r, Replay(r.body))
        BY <3>2, <2>1, ReplyType, ReplayForm
      <3>3. CASE Reply(w, r, Conflict(survey, r.body.dev))
        <4>1. Conflict(survey, r.body.dev) \in Answer
          BY <2>2, AnswerForms DEF TypeOK, Contiguous
        <4> QED
          BY <3>3, <2>1, <4>1, ReplyType
      <3>4. CASE \E s \in {"create", "compare"} : Begin(w, r, s, survey)
        BY <3>4, <2>1, BeginType DEF TypeOK, Stage
      <3> QED
        BY <1>1, <3>1, <3>2, <3>3, <3>4 DEF SubmitBegin
    <2> QED
      BY <2>3, <2>4 DEF TypeOK, dbVars, mediaVars, queueVars
  <1>2. CASE SubmitCreate(w)
    <2>1. txn[w] \in Running
      BY <1>2, AtRuns DEF SubmitCreate, Stage
    <2>2. txn[w].req \in Request /\ txn[w].req.body \in SubmitBody
      BY <1>2, <2>1, BodyKinds DEF SubmitCreate, Running, Underway, Sound, Submitting, At
    <2>3. txn[w].req.body.content \in Content
      BY <2>2 DEF SubmitBody
    <2>4. /\ txn' \in [Worker -> Txn]
          /\ answers' \subseteq [req : Request, says : Answer]
      <3>1. CASE Reply(w, txn[w].req, Plain("race"))
        BY <3>1, <2>2, ReplyType, AnswerForms
      <3>2. CASE /\ txn' = [txn EXCEPT ![w].pc = "compare", ![w].created = TRUE,
                                ![w].read = [status |-> "OPEN", version |-> 1,
                                             content |-> txn[w].req.body.content]]
                 /\ UNCHANGED answers
        <4>1. [status |-> "OPEN", version |-> 1, content |-> txn[w].req.body.content] \in Survey
          BY <2>3 DEF Survey
        <4>2. txn'[w] \in Running
          BY <2>1, <3>2, <4>1 DEF TypeOK, Running, Stage
        <4> QED
          BY <3>2, <4>2 DEF TypeOK, Txn
      <3> QED
        BY <1>2, <3>1, <3>2 DEF SubmitCreate
    <2> QED
      BY <1>2, <2>4 DEF SubmitCreate, TypeOK, dbVars, mediaVars, queueVars
  <1>3. CASE SubmitCompare(w)
    <2>1. txn[w] \in Running
      BY <1>3, AtRuns DEF SubmitCompare, Stage
    <2>2. txn[w].req \in Request /\ txn[w].req.body \in SubmitBody /\ txn[w].read \in Survey
      BY <1>3, <2>1, BodyKinds DEF SubmitCompare, Running, Underway, Sound, Submitting, At
    <2>3. /\ txn' \in [Worker -> Txn]
          /\ answers' \subseteq [req : Request, says : Answer]
      <3>1. CASE Reply(w, txn[w].req, Conflict(txn[w].read, txn[w].req.body.dev))
        <4>1. Conflict(txn[w].read, txn[w].req.body.dev) \in Answer
          BY <2>2, AnswerForms DEF Contiguous, SubmitBody
        <4> QED
          BY <3>1, <4>1, <2>2, ReplyType
      <3>2. CASE /\ txn' = [txn EXCEPT ![w].pc = "write", ![w].fresh = Unseen(txn[w].req.body)]
                 /\ UNCHANGED answers
        <4>1. Unseen(txn[w].req.body) \in SUBSET Op
          BY DEF Unseen, Ops
        <4>2. txn'[w] \in Running
          BY <2>1, <3>2, <4>1 DEF TypeOK, Running, Stage
        <4> QED
          BY <3>2, <4>2 DEF TypeOK, Txn
      <3> QED
        BY <1>3, <3>1, <3>2 DEF SubmitCompare
    <2> QED
      BY <1>3, <2>3 DEF SubmitCompare, TypeOK, dbVars, mediaVars, queueVars
  <1>4. CASE SubmitWrite(w)
    <2> DEFINE t == txn[w]
               b == t.req.body
    <2>1. t \in Running
      BY <1>4, AtRuns DEF SubmitWrite, Stage
    <2>2. t.req \in Request /\ b \in SubmitBody /\ t.read \in Survey
      BY <1>4, <2>1, BodyKinds DEF SubmitWrite, Running, Underway, Sound, Submitting, At
    <2>3. b.content \in Content /\ b.seqs \in [Op -> Nat]
      BY <2>2 DEF SubmitBody
    <2>4. t.read.version \in Nat
      BY <2>2 DEF Survey
    <2>5. Written(t) \in Survey
      <3> DEFINE c == IF b.content = t.read.content THEN survey.content ELSE b.content
      <3>1. c \in Content
        BY <2>3 DEF TypeOK, Survey
      <3>2. t.read.version + 1 \in Nat
        BY <2>4
      <3>3. ASSUME NEW v \in Nat, NEW k \in Content
            PROVE  [survey EXCEPT !.version = v, !.content = k] \in Survey
        BY DEF TypeOK, Survey
      <3>4. [survey EXCEPT !.version = t.read.version + 1, !.content = c] \in Survey
        BY <3>1, <3>2, <3>3
      <3> QED
        BY <2>2, <3>4 DEF Written, TypeOK
    <2>6. Ack(t) \in Answer
      <3>1. Ops(b) \in SUBSET Op
        BY DEF Ops
      <3>2. (IF t.created \/ t.fresh = {} THEN t.read.version ELSE t.read.version + 1) \in Nat
        BY <2>4
      <3> QED
        BY <3>1, <3>2, AnswerForms DEF Ack
    <2>7. ASSUME NEW a \in Answer, Reply(w, t.req, a)
          PROVE  /\ txn' \in [Worker -> Txn]
                 /\ answers' \subseteq [req : Request, says : Answer]
      BY <2>2, <2>7, ReplyType
    <2>8. CASE UNCHANGED dbVars /\ \E c \in {"race", "failed"} : Reply(w, t.req, Plain(c))
      BY <1>4, <2>7, <2>8, AnswerForms
         DEF SubmitWrite, TypeOK, dbVars, mediaVars, queueVars
    <2>9. CASE /\ stored' = [o \in Op |-> IF o \in t.fresh THEN b.seqs[o] ELSE stored[o]]
               /\ survey' = Written(t)
               /\ crossed' = (crossed \/ LandsOnClosed(t))
               /\ Keep(t.req, Ack(t))
               /\ Reply(w, t.req, Ack(t))
      <3>1. stored' \in [Op -> Nat]
        BY <2>3, <2>9 DEF TypeOK
      <3>2. idem' \subseteq [body : Body, answer : Answer]
        BY <2>2, <2>6, <2>9 DEF TypeOK, Keep, Request
      <3>3. crossed' \in BOOLEAN
        BY <2>9 DEF TypeOK, LandsOnClosed
      <3> QED
        BY <1>4, <2>5, <2>6, <2>7, <2>9, <3>1, <3>2, <3>3 DEF SubmitWrite, TypeOK, mediaVars, queueVars
    <2> QED
      BY <1>4, <2>8, <2>9 DEF SubmitWrite
  <1> QED
    BY <1>1, <1>2, <1>3, <1>4

\* get_survey and complete_survey keep every type.
LEMMA CompleteType ==
    ASSUME TypeOK, Contiguous, NEW w \in Worker,
           (\E r \in Requests : GetSurvey(w, r) \/ CompleteBegin(w, r))
              \/ CompleteGate(w) \/ CompleteClose(w) \/ CompletePublish(w)
    PROVE  TypeOK'
  <1>1. ASSUME NEW r \in Request, NEW a \in Answer, Reply(w, r, a)
        PROVE  /\ txn' \in [Worker -> Txn]
               /\ answers' \subseteq [req : Request, says : Answer]
    BY <1>1, ReplyType
  <1>2. ASSUME NEW s \in Stage, At(w, s)
        PROVE  /\ txn[w] \in Running
               /\ txn[w].req \in Request
               /\ txn[w].read \in Survey
               /\ Closed(txn[w]) \in Answer
    <2>1. txn[w] \in Running
      BY <1>2, AtRuns
    <2>2. txn[w].req \in Request /\ txn[w].read \in Survey
      BY <2>1 DEF Running
    <2>3. [txn[w].read EXCEPT !.status = "COMPLETED"] \in Survey
      BY <2>2 DEF Survey
    <2> QED
      BY <2>1, <2>2, <2>3, AnswerForms DEF Closed
  <1>3. ASSUME NEW r \in Requests, GetSurvey(w, r) PROVE TypeOK'
    <2>1. r \in Request
      BY RequestsAssumption
    <2>2. (IF survey.status = "ABSENT" THEN Plain("missing") ELSE State(survey)) \in Answer
      BY AnswerForms DEF TypeOK
    <2> QED
      BY <1>1, <1>3, <2>1, <2>2 DEF GetSurvey, TypeOK, dbVars, mediaVars, queueVars
  <1>4. ASSUME NEW r \in Requests, CompleteBegin(w, r) PROVE TypeOK'
    <2>1. r \in Request /\ r.from \in Device
      BY RequestsAssumption, BodyKinds
    <2>2. exports' \in Nat
      BY <1>4 DEF CompleteBegin, TypeOK
    <2>3. CASE \E c \in {"missing", "unavailable", "not_concluded"} : Reply(w, r, Plain(c))
      BY <1>1, <1>4, <2>1, <2>2, <2>3, AnswerForms
         DEF CompleteBegin, TypeOK, dbVars, mediaVars
    <2>4. CASE Known(r.body) /\ Reply(w, r, Replay(r.body))
      BY <1>1, <1>4, <2>1, <2>2, <2>4, ReplayForm DEF CompleteBegin, TypeOK, dbVars, mediaVars
    <2>5. CASE Reply(w, r, Conflict(survey, r.from))
      <3>1. Conflict(survey, r.from) \in Answer
        BY <2>1, AnswerForms DEF TypeOK, Contiguous
      <3> QED
        BY <1>1, <1>4, <2>1, <2>2, <2>5, <3>1 DEF CompleteBegin, TypeOK, dbVars, mediaVars
    <2>6. CASE Begin(w, r, "gate", survey)
      <3>1. /\ txn' \in [Worker -> Txn]
            /\ answers' \subseteq [req : Request, says : Answer]
        BY <2>1, <2>6, BeginType DEF TypeOK, Stage
      <3> QED
        BY <1>4, <2>2, <3>1 DEF CompleteBegin, TypeOK, dbVars, mediaVars
    <2> QED
      BY <1>4, <2>3, <2>4, <2>5, <2>6 DEF CompleteBegin
  <1>5. CASE CompleteGate(w)
    <2>1. txn[w] \in Running /\ txn[w].req \in Request
      BY <1>2, <1>5 DEF CompleteGate, Stage
    <2>2. CASE Reply(w, txn[w].req, Plain("media_pending"))
      BY <1>1, <1>5, <2>1, <2>2, AnswerForms
         DEF CompleteGate, TypeOK, dbVars, mediaVars, queueVars
    <2>3. CASE Advance(w, "close")
      <3>1. /\ txn' \in [Worker -> Txn]
            /\ answers' \subseteq [req : Request, says : Answer]
        BY <2>1, <2>3, AdvanceType DEF Stage
      <3> QED
        BY <1>5, <3>1 DEF CompleteGate, TypeOK, dbVars, mediaVars, queueVars
    <2> QED
      BY <1>5, <2>2, <2>3 DEF CompleteGate
  <1>6. CASE CompleteClose(w)
    <2>1. txn[w] \in Running /\ txn[w].req \in Request /\ Closed(txn[w]) \in Answer
      BY <1>2, <1>6 DEF CompleteClose, Stage
    <2>2. CASE Reply(w, txn[w].req, Plain("failed")) /\ UNCHANGED <<survey, idem>>
      BY <1>1, <1>6, <2>1, <2>2, AnswerForms DEF CompleteClose, TypeOK, mediaVars, queueVars
    <2>3. CASE /\ survey' = [survey EXCEPT !.status = "COMPLETED"]
               /\ Keep(txn[w].req, Closed(txn[w]))
               /\ Advance(w, "export")
      <3>1. /\ txn' \in [Worker -> Txn]
            /\ answers' \subseteq [req : Request, says : Answer]
        BY <2>1, <2>3, AdvanceType DEF Stage
      <3>2. survey' \in Survey
        BY <2>3 DEF TypeOK, Survey
      <3>3. idem' \subseteq [body : Body, answer : Answer]
        BY <2>1, <2>3 DEF TypeOK, Keep, Request
      <3> QED
        BY <1>6, <3>1, <3>2, <3>3 DEF CompleteClose, TypeOK, mediaVars, queueVars
    <2> QED
      BY <1>6, <2>2, <2>3 DEF CompleteClose
  <1>7. CASE CompletePublish(w)
    <2>1. txn[w].req \in Request /\ Closed(txn[w]) \in Answer
      BY <1>2, <1>7 DEF CompletePublish, Stage
    <2>2. exports' \in Nat
      BY <1>7 DEF CompletePublish, TypeOK
    <2>3. \E a \in Answer : Reply(w, txn[w].req, a)
      BY <1>7, <2>1, AnswerForms DEF CompletePublish
    <2> QED
      BY <1>1, <1>7, <2>1, <2>2, <2>3 DEF CompletePublish, TypeOK, dbVars, mediaVars
  <1> QED
    BY <1>3, <1>4, <1>5, <1>6, <1>7

\* presign_survey_media and confirm_survey_media keep every type.
LEMMA MediaType ==
    ASSUME TypeOK, NEW w \in Worker,
           (\E r \in Requests : PresignBegin(w, r) \/ ConfirmBegin(w, r))
              \/ PresignSign(w) \/ ConfirmAccept(w) \/ ConfirmPublish(w)
    PROVE  TypeOK'
  <1>1. ASSUME NEW r \in Request, NEW a \in Answer, Reply(w, r, a)
        PROVE  /\ txn' \in [Worker -> Txn]
               /\ answers' \subseteq [req : Request, says : Answer]
    BY <1>1, ReplyType
  <1>2. ASSUME NEW s \in Stage, At(w, s)
        PROVE  /\ txn[w] \in Running
               /\ txn[w].req \in Request
               /\ txn[w].read \in Survey
    BY <1>2, AtRuns DEF Running
  <1>3. State(survey) \in Answer
    BY AnswerForms DEF TypeOK
  <1>4. ASSUME NEW r \in Requests, PresignBegin(w, r) PROVE TypeOK'
    <2>1. r \in Request
      BY RequestsAssumption
    <2>2. CASE \E a \in Answer : Reply(w, r, a)
      BY <1>1, <1>4, <2>1, <2>2 DEF PresignBegin, TypeOK, dbVars, mediaVars, queueVars
    <2>3. CASE /\ txn' = [txn EXCEPT ![w] =
                       [pc |-> "sign", req |-> r, read |-> survey, fresh |-> {},
                        created |-> media[r.body.digest] = "ABSENT"]]
               /\ UNCHANGED answers
      <3>1. txn' \in [Worker -> Txn]
        BY <2>1, <2>3 DEF TypeOK, Txn, Running, Stage
      <3> QED
        BY <1>4, <2>3, <3>1 DEF PresignBegin, TypeOK, dbVars, mediaVars, queueVars
    <2> QED
      BY <1>4, <2>2, <2>3, AnswerForms, ReplayForm DEF PresignBegin
  <1>5. CASE PresignSign(w)
    <2>1. txn[w].req \in Request
      BY <1>2, <1>5 DEF PresignSign, Stage
    <2>2. \E a \in Answer : Reply(w, txn[w].req, a)
      BY <1>5, AnswerForms DEF PresignSign
    <2>3. idem' \subseteq [body : Body, answer : Answer]
      BY <1>5, <2>1, AnswerForms DEF PresignSign, TypeOK, Keep, Request
    <2>4. /\ media' \in [Digest -> {"ABSENT", "PRESIGNED", "CONFIRMED"}]
          /\ url' \in [Digest -> {"none", "live", "expired"}]
      BY <1>5 DEF PresignSign, TypeOK
    <2> QED
      BY <1>1, <1>5, <2>1, <2>2, <2>3, <2>4 DEF PresignSign, TypeOK, queueVars
  <1>6. ASSUME NEW r \in Requests, ConfirmBegin(w, r) PROVE TypeOK'
    <2>1. r \in Request
      BY RequestsAssumption
    <2>2. CASE \E a \in Answer : Reply(w, r, a)
      BY <1>1, <1>6, <2>1, <2>2 DEF ConfirmBegin, TypeOK, dbVars, mediaVars, queueVars
    <2>3. CASE Begin(w, r, "accept", survey)
      <3>1. /\ txn' \in [Worker -> Txn]
            /\ answers' \subseteq [req : Request, says : Answer]
        BY <2>1, <2>3, BeginType DEF TypeOK, Stage
      <3> QED
        BY <1>6, <3>1 DEF ConfirmBegin, TypeOK, dbVars, mediaVars, queueVars
    <2> QED
      BY <1>3, <1>6, <2>2, <2>3, AnswerForms DEF ConfirmBegin
  <1>7. CASE ConfirmAccept(w)
    <2>1. txn[w] \in Running
      BY <1>2, <1>7 DEF ConfirmAccept, Stage
    <2>2. /\ txn' \in [Worker -> Txn]
          /\ answers' \subseteq [req : Request, says : Answer]
      BY <1>7, <2>1, AdvanceType DEF ConfirmAccept, Stage
    <2>3. media' \in [Digest -> {"ABSENT", "PRESIGNED", "CONFIRMED"}]
      BY <1>7 DEF ConfirmAccept, TypeOK
    <2> QED
      BY <1>7, <2>2, <2>3 DEF ConfirmAccept, TypeOK, dbVars, queueVars
  <1>8. CASE ConfirmPublish(w)
    <2>1. txn[w].req \in Request /\ txn[w].read \in Survey
      BY <1>2, <1>8 DEF ConfirmPublish, Stage
    <2>2. \E a \in Answer : Reply(w, txn[w].req, a)
      BY <1>8, <2>1, AnswerForms DEF ConfirmPublish
    <2>3. /\ media' \in [Digest -> {"ABSENT", "PRESIGNED", "CONFIRMED"}]
          /\ analyses' \in [Digest -> Nat]
      BY <1>8 DEF ConfirmPublish, TypeOK
    <2> QED
      BY <1>1, <1>8, <2>1, <2>2, <2>3 DEF ConfirmPublish, TypeOK, dbVars
  <1> QED
    BY <1>4, <1>5, <1>6, <1>7, <1>8

\* The bucket, the clock of its URLs and a crash keep every type.
LEMMA StorageType ==
    ASSUME TypeOK, (\E w \in Worker : Crash(w)) \/ (\E g \in Digest : Storage(g))
    PROVE  TypeOK'
  <1>1. ASSUME NEW w \in Worker, Crash(w) PROVE TypeOK'
    BY <1>1 DEF Crash, TypeOK, Txn, dbVars, mediaVars, queueVars
  <1>2. ASSUME NEW g \in Digest, PutObject(g) PROVE TypeOK'
    BY <1>2 DEF PutObject, TypeOK, dbVars, queueVars
  <1>3. ASSUME NEW g \in Digest, UrlExpires(g) PROVE TypeOK'
    BY <1>3 DEF UrlExpires, TypeOK, dbVars, queueVars
  <1> QED
    BY <1>1, <1>2, <1>3 DEF Storage

-----------------------------------------------------------------------------
(* The ledger.                                                              *)

\* The only step that writes survey_operations.
Inserts(w) ==
    LET t == txn[w] IN
    /\ At(w, "write")
    /\ ~Clash(t.req.body, t.fresh)
    /\ stored' = [o \in Op |-> IF o \in t.fresh THEN t.req.body.seqs[o] ELSE stored[o]]

\* survey_operations changes only where submit_survey_operations inserts.
LEMMA StoredChanges ==
    ASSUME [Next]_vars
    PROVE  stored' = stored \/ \E w \in Worker : Inserts(w)
  <1>1. CASE UNCHANGED vars
    BY <1>1 DEF vars
  <1>2. ASSUME NEW w \in Worker, NEW r \in Requests, Receive(w, r)
        PROVE  stored' = stored
    BY <1>2 DEF Receive, SubmitBegin, GetSurvey, CompleteBegin, PresignBegin, ConfirmBegin, dbVars
  <1>3. ASSUME NEW w \in Worker, Continue(w), ~SubmitWrite(w)
        PROVE  stored' = stored
    BY <1>3 DEF Continue, SubmitCreate, SubmitCompare, CompleteGate, CompleteClose,
                CompletePublish, PresignSign, ConfirmAccept, ConfirmPublish, dbVars
  <1>4. ASSUME NEW w \in Worker, SubmitWrite(w)
        PROVE  stored' = stored \/ Inserts(w)
    BY <1>4 DEF SubmitWrite, Inserts, dbVars
  <1>5. ASSUME NEW w \in Worker, Crash(w)
        PROVE  stored' = stored
    BY <1>5 DEF Crash, dbVars
  <1>6. ASSUME NEW g \in Digest, Storage(g)
        PROVE  stored' = stored
    BY <1>6 DEF Storage, PutObject, UrlExpires, dbVars
  <1> QED
    BY <1>1, <1>2, <1>3, <1>4, <1>5, <1>6 DEF Next

\* What a write finds: a batch of its own device, numbered right after the
\* sequence it saw.
LEMMA Inserted ==
    ASSUME IInv, NEW w \in Worker, Inserts(w)
    PROVE  LET b == txn[w].req.body
               fresh == txn[w].fresh
           IN  /\ b \in SubmitBody
               /\ fresh \subseteq Ops(b)
               /\ \A o \in Ops(b) : OpDevice[o] = b.dev
               /\ \A o \in fresh : stored[o] = 0 /\ b.seqs[o] \notin SeqsOf(b.dev)
               /\ Ready(txn[w])
               /\ Cardinality(fresh) \in Nat
  <1> DEFINE b == txn[w].req.body
             fresh == txn[w].fresh
  <1>1. txn[w] \in Running
    BY AtRuns DEF IInv, Inserts, Stage
  <1>2. b.kind = "submit" /\ ~Malformed(b) /\ Ready(txn[w])
    BY DEF IInv, Underway, Sound, Submitting, Inserts, At
  <1>3. b \in SubmitBody
    BY <1>1, <1>2, BodyKinds DEF Running
  <1>4. fresh \subseteq Ops(b) /\ Ops(b) \subseteq Op
    BY <1>2 DEF Ready, Ops
  <1>5. \A o \in Ops(b) : OpDevice[o] = b.dev
    BY <1>2 DEF Malformed
  <1>6. \A o \in fresh : stored[o] = 0 /\ b.seqs[o] \notin SeqsOf(b.dev)
    BY DEF Inserts, Clash
  <1>7. Cardinality(fresh) \in Nat
    BY <1>4, FS_Subset, FS_CardinalityType, OpAssumption
  <1> QED
    BY <1>2, <1>3, <1>4, <1>5, <1>6, <1>7

\* An operation once stored keeps its number, and no device loses ground.
LEMMA StoredGrows ==
    ASSUME IInv, [Next]_vars
    PROVE  \A o \in Op : stored[o] # 0 => stored'[o] = stored[o]
  <1>1. ASSUME NEW w \in Worker, Inserts(w), NEW o \in Op, stored[o] # 0
        PROVE  stored'[o] = stored[o]
    BY <1>1, Inserted DEF Inserts
  <1> QED
    BY <1>1, StoredChanges

\* The contiguity check and the unique index together: the sequence the handler
\* saw is still the last one, so the batch lands right after it.
LEMMA InsertContinues ==
    ASSUME IInv, NEW w \in Worker, Inserts(w), txn[w].fresh # {},
           NEW d \in Device, d = txn[w].req.body.dev
    PROVE  LET b == txn[w].req.body
               n == LastSeq(d)
               k == Cardinality(txn[w].fresh)
           IN  /\ n \in Nat /\ k \in Nat
               /\ {b.seqs[o] : o \in txn[w].fresh} = (n + 1)..(n + k)
               /\ SeqsOf(d)' = 1..(n + k)
  <1> DEFINE b == txn[w].req.body
             fresh == txn[w].fresh
             n == LastSeq(d)
             k == Cardinality(fresh)
             image == {b.seqs[o] : o \in fresh}
  <1>1. /\ b \in SubmitBody /\ fresh \subseteq Ops(b) /\ k \in Nat /\ Ready(txn[w])
        /\ \A o \in Ops(b) : OpDevice[o] = b.dev
        /\ \A o \in fresh : stored[o] = 0 /\ b.seqs[o] \notin SeqsOf(b.dev)
    BY Inserted
  <1>2. \A o \in fresh : b.seqs[o] \in Nat \ {0} /\ OpDevice[o] = d
    BY <1>1 DEF SubmitBody, Ops
  <1>3. n \in Nat /\ SeqsOf(d) = 1..n
    BY DEF IInv, Contiguous, LedgerContiguous
  <1>4. PICK l \in 0..n : image = (l + 1)..(l + k)
    BY <1>1 DEF Ready
  <1>5. l + 1 \in image
    <2>1. image # {}
      OBVIOUS
    <2>2. \A S : S # {} /\ S = (l + 1)..(l + k) => l + 1 \in S
      BY <1>1, <1>3
    <2> QED
      BY <1>4, <2>1, <2>2
  <1>6. l + 1 \notin 1..n
    BY <1>1, <1>3, <1>5
  <1>7. l = n
    BY <1>3, <1>4, <1>6
  <1>8. SeqsOf(d)' = SeqsOf(d) \cup image
    <2>1. SeqsOf(d)' = {stored'[o] : o \in {p \in Op : OpDevice[p] = d}} \ {0}
      BY DEF SeqsOf
    <2>2. \A o \in Op : stored'[o] = IF o \in fresh THEN b.seqs[o] ELSE stored[o]
      BY DEF Inserts
    <2>3. fresh \subseteq Op
      BY <1>1 DEF Ops
    <2>4. ASSUME NEW x \in SeqsOf(d) PROVE x \in SeqsOf(d)'
      BY <1>1, <2>1, <2>2, <2>4 DEF SeqsOf
    <2>5. ASSUME NEW x \in image PROVE x \in SeqsOf(d)'
      BY <1>2, <2>1, <2>2, <2>3, <2>5
    <2>6. ASSUME NEW x \in SeqsOf(d)' PROVE x \in SeqsOf(d) \cup image
      BY <2>1, <2>2, <2>6 DEF SeqsOf
    <2> QED
      BY <2>4, <2>5, <2>6
  <1>9. (1..n) \cup ((n + 1)..(n + k)) = 1..(n + k)
    BY <1>1, <1>3
  <1> QED
    BY <1>1, <1>3, <1>4, <1>7, <1>8, <1>9

\* No step of any route breaks the numbering of a device's operations.
LEMMA ContiguousStep ==
    ASSUME IInv, [Next]_vars
    PROVE  Contiguous'
  <1>1. CASE stored' = stored
    BY <1>1 DEF IInv, Contiguous, LedgerContiguous, LastSeq, SeqsOf
  <1>2. ASSUME NEW w \in Worker, Inserts(w), txn[w].fresh = {} PROVE stored' = stored
    BY <1>2 DEF Inserts, IInv, TypeOK
  <1>3. ASSUME NEW w \in Worker, Inserts(w), txn[w].fresh # {} PROVE Contiguous'
    <2> DEFINE b == txn[w].req.body
               fresh == txn[w].fresh
               n == LastSeq(b.dev)
               k == Cardinality(fresh)
    <2>0. b.dev \in Device
      BY <1>3, Inserted DEF SubmitBody
    <2>1. /\ n \in Nat /\ k \in Nat
          /\ {b.seqs[o] : o \in fresh} = (n + 1)..(n + k)
          /\ \A d \in Device : d = b.dev => SeqsOf(d)' = 1..(n + k)
      BY <1>3, <2>0, InsertContinues
    <2>2. /\ b \in SubmitBody /\ fresh \subseteq Ops(b) /\ Ready(txn[w])
          /\ \A o \in Ops(b) : OpDevice[o] = b.dev
      BY <1>3, Inserted
    <2>3. \A o \in Op : stored'[o] = IF o \in fresh THEN b.seqs[o] ELSE stored[o]
      BY <1>3 DEF Inserts
    <2>4. b.dev \in Device /\ SeqsOf(b.dev) = 1..n
      BY <2>2 DEF SubmitBody, IInv, Contiguous, LedgerContiguous
    <2>5. ASSUME NEW d \in Device, d = b.dev PROVE LastSeq(d)' = n + k
      <3>1. LastSeq(d)' = Max(SeqsOf(d)' \cup {0})
        BY DEF LastSeq
      <3>2. n + k \in Nat /\ Max((1..(n + k)) \cup {0}) = n + k
        BY <2>1, MaxOfRun
      <3> QED
        BY <2>1, <2>5, <3>1, <3>2
    <2>6. ASSUME NEW o \in Op, NEW p \in Op, OpDevice[o] = b.dev, OpDevice[p] = b.dev,
                 stored'[o] # 0, stored'[o] = stored'[p]
          PROVE  o = p
      <3>1. CASE o \in fresh /\ p \in fresh
        BY <2>2, <2>3, <2>6, <3>1 DEF Ready
      <3>2. ASSUME NEW x \in fresh, NEW y \in Op \ fresh, OpDevice[y] = b.dev,
                   stored'[y] # 0
            PROVE  stored'[x] # stored'[y]
        <4>1. stored'[y] \in SeqsOf(b.dev)
          BY <2>3, <3>2 DEF SeqsOf
        <4>2. stored'[x] \in (n + 1)..(n + k)
          BY <2>1, <2>2, <2>3 DEF Ops
        <4> QED
          BY <2>1, <2>4, <4>1, <4>2
      <3>3. CASE o \notin fresh /\ p \notin fresh
        BY <2>3, <2>4, <2>6, <3>3 DEF IInv, Contiguous, LedgerContiguous
      <3> QED
        BY <2>6, <3>1, <3>2, <3>3
    <2>7. ASSUME NEW d \in Device, d # b.dev
          PROVE  /\ SeqsOf(d)' = SeqsOf(d)
                 /\ \A o \in Op : OpDevice[o] = d => stored'[o] = stored[o]
      <3>1. \A o \in Op : OpDevice[o] = d => stored'[o] = stored[o]
        BY <2>2, <2>3, <2>7
      <3> QED
        BY <3>1 DEF SeqsOf
    <2>8. \A d \in Device : d # b.dev => LastSeq(d)' = LastSeq(d)
      BY <2>7 DEF LastSeq
    <2>9. \A d \in Device : LastSeq(d)' \in Nat
      BY <2>1, <2>5, <2>8 DEF IInv, Contiguous
    <2>10. LedgerContiguous'
      <3> SUFFICES ASSUME NEW d \in Device
                   PROVE  /\ SeqsOf(d)' = 1..(LastSeq(d)')
                          /\ \A o, p \in Op :
                                OpDevice[o] = d /\ OpDevice[p] = d
                                /\ stored'[o] # 0 /\ stored'[o] = stored'[p] => o = p
        BY DEF LedgerContiguous
      <3>1. CASE d = b.dev
        BY <2>1, <2>5, <2>6, <3>1
      <3>2. CASE d # b.dev
        BY <2>7, <2>8, <3>2 DEF IInv, Contiguous, LedgerContiguous
      <3> QED
        BY <3>1, <3>2
    <2> QED
      BY <2>9, <2>10 DEF Contiguous
  <1> QED
    BY <1>1, <1>2, <1>3, StoredChanges

\* _last_seq_by_device never goes back.
LEMMA LastSeqGrows ==
    ASSUME IInv, [Next]_vars, NEW d \in Device
    PROVE  LastSeq(d) \in Nat /\ LastSeq(d)' \in Nat /\ LastSeq(d) <= LastSeq(d)'
  <1>1. LastSeq(d) \in Nat /\ SeqsOf(d) = 1..LastSeq(d)
    BY DEF IInv, Contiguous, LedgerContiguous
  <1>2. LastSeq(d)' \in Nat /\ SeqsOf(d)' = 1..(LastSeq(d)')
    BY ContiguousStep DEF Contiguous, LedgerContiguous
  <1>3. ASSUME NEW x \in SeqsOf(d) PROVE x \in SeqsOf(d)'
    <2>1. PICK o \in Op : OpDevice[o] = d /\ stored[o] = x /\ x # 0
      BY <1>3 DEF SeqsOf
    <2>2. stored'[o] = x
      BY <2>1, StoredGrows
    <2> QED
      BY <2>1, <2>2 DEF SeqsOf
  <1>4. ASSUME NEW m \in Nat, NEW n \in Nat, \A x \in 1..m : x \in 1..n
        PROVE  m <= n
    <2>1. CASE m = 0
      BY <2>1
    <2>2. CASE m # 0
      BY <1>4, <2>2
    <2> QED
      BY <2>1, <2>2
  <1> QED
    BY <1>1, <1>2, <1>3, <1>4

-----------------------------------------------------------------------------
(* Handlers under way.                                                      *)

\* What a handler about to write relies on survives the steps of the others.
LEMMA ReadyStays ==
    ASSUME IInv, [Next]_vars, NEW t \in Running, t.req.body \in SubmitBody, Ready(t)
    PROVE  Ready(t)'
  <1> DEFINE b == t.req.body
             k == Cardinality(t.fresh)
  <1>1. b.dev \in Device
    BY DEF SubmitBody
  <1>2. \A o \in Ops(b) \ t.fresh : stored'[o] # 0
    BY StoredGrows DEF Ready, Ops
  <1>3. ASSUME t.fresh # {}
        PROVE  \E l \in 0..(LastSeq(b.dev)') : {b.seqs[o] : o \in t.fresh} = (l + 1)..(l + k)
    <2>1. PICK l \in 0..LastSeq(b.dev) : {b.seqs[o] : o \in t.fresh} = (l + 1)..(l + k)
      BY <1>3 DEF Ready
    <2>2. l \in 0..(LastSeq(b.dev)')
      BY <1>1, LastSeqGrows
    <2> QED
      BY <2>1, <2>2
  <1> QED
    BY <1>2, <1>3 DEF Ready, Ops

\* Only three steps leave a handler of a batch under way.
LEMMA Submissions ==
    ASSUME TypeOK, Next, NEW v \in Worker, txn'[v] # txn[v], Submitting(txn'[v])
    PROVE  \/ \E r \in Requests :
                 /\ SubmitBegin(v, r)
                 /\ ~Malformed(r.body)
                 /\ \E s \in {"create", "compare"} : Begin(v, r, s, survey)
           \/ SubmitCreate(v) /\ txn'[v].pc = "compare" /\ txn'[v].req = txn[v].req
           \/ SubmitCompare(v) /\ txn'[v].pc = "write"
  <1> USE DEF TypeOK, Submitting
  <1>1. ASSUME NEW w \in Worker, NEW r, NEW a, Reply(w, r, a) PROVE FALSE
    BY <1>1 DEF Reply, Idle
  <1>2. ASSUME NEW w \in Worker, NEW s, Advance(w, s), s \notin {"create", "compare", "write"},
               txn[w] \in Running
        PROVE  FALSE
    BY <1>2 DEF Advance, Running
  <1>3. ASSUME NEW w \in Worker, NEW r, NEW s, Begin(w, r, s, survey),
               s \notin {"create", "compare", "write"}
        PROVE  FALSE
    BY <1>3 DEF Begin
  <1>4. ASSUME NEW w \in Worker, NEW r \in Requests, SubmitBegin(w, r)
        PROVE  /\ SubmitBegin(v, r)
               /\ ~Malformed(r.body)
               /\ \E s \in {"create", "compare"} : Begin(v, r, s, survey)
    <2>1. /\ ~Malformed(r.body)
          /\ \E s \in {"create", "compare"} : Begin(w, r, s, survey)
      BY <1>1, <1>4 DEF SubmitBegin
    <2>2. w = v
      BY <2>1 DEF Begin
    <2> QED
      BY <1>4, <2>1, <2>2
  <1>5. ASSUME NEW w \in Worker, SubmitCreate(w)
        PROVE  SubmitCreate(v) /\ txn'[v].pc = "compare" /\ txn'[v].req = txn[v].req
    <2>1. txn[w] \in Running
      BY <1>5, AtRuns DEF SubmitCreate, Stage
    <2>2. txn' = [txn EXCEPT ![w].pc = "compare", ![w].created = TRUE,
                             ![w].read = [status |-> "OPEN", version |-> 1,
                                          content |-> txn[w].req.body.content]]
      BY <1>1, <1>5 DEF SubmitCreate
    <2>3. w = v
      BY <2>2
    <2> QED
      BY <1>5, <2>1, <2>2, <2>3 DEF Running
  <1>6. ASSUME NEW w \in Worker, SubmitCompare(w)
        PROVE  SubmitCompare(v) /\ txn'[v].pc = "write"
    <2>1. txn[w] \in Running
      BY <1>6, AtRuns DEF SubmitCompare, Stage
    <2>2. txn' = [txn EXCEPT ![w].pc = "write", ![w].fresh = Unseen(txn[w].req.body)]
      BY <1>1, <1>6 DEF SubmitCompare
    <2>3. w = v
      BY <2>2
    <2> QED
      BY <1>6, <2>1, <2>2, <2>3 DEF Running
  <1>7. ASSUME NEW w \in Worker, SubmitWrite(w) PROVE FALSE
    BY <1>1, <1>7 DEF SubmitWrite
  <1>8. ASSUME NEW w \in Worker, NEW r \in Requests,
               GetSurvey(w, r) \/ CompleteBegin(w, r) \/ ConfirmBegin(w, r)
        PROVE  FALSE
    BY <1>1, <1>3, <1>8 DEF GetSurvey, CompleteBegin, ConfirmBegin
  <1>9. ASSUME NEW w \in Worker, NEW r \in Requests, PresignBegin(w, r) PROVE FALSE
    BY <1>1, <1>9 DEF PresignBegin
  <1>10. ASSUME NEW w \in Worker,
                CompleteGate(w) \/ CompleteClose(w) \/ ConfirmAccept(w)
         PROVE  FALSE
    <2>1. txn[w] \in Running
      BY <1>10, AtRuns DEF CompleteGate, CompleteClose, ConfirmAccept, Stage
    <2> QED
      BY <1>1, <1>2, <1>10, <2>1 DEF CompleteGate, CompleteClose, ConfirmAccept
  <1>11. ASSUME NEW w \in Worker,
                CompletePublish(w) \/ PresignSign(w) \/ ConfirmPublish(w)
         PROVE  FALSE
    BY <1>1, <1>11 DEF CompletePublish, PresignSign, ConfirmPublish
  <1>12. ASSUME NEW w \in Worker, Crash(w) PROVE FALSE
    BY <1>12 DEF Crash, Idle
  <1>13. ASSUME NEW g \in Digest, Storage(g) PROVE FALSE
    BY <1>13 DEF Storage, PutObject, UrlExpires
  <1> QED
    BY <1>4, <1>5, <1>6, <1>7, <1>8, <1>9, <1>10, <1>11, <1>12, <1>13
       DEF Next, Receive, Continue

\* What each handler knows of its batch stays true at every step of the routes.
LEMMA UnderwayStep ==
    ASSUME IInv, [Next]_vars
    PROVE  Underway'
  <1> SUFFICES ASSUME NEW v \in Worker PROVE Sound(txn[v])'
    BY DEF Underway
  <1>1. CASE txn'[v] = txn[v]
    <2>1. Sound(txn[v])
      BY DEF IInv, Underway
    <2>2. ASSUME txn[v].pc = "write" PROVE \A t : t = txn[v] => Ready(t)'
      <3>1. txn[v] \in Running /\ txn[v].req.body \in SubmitBody
        BY <2>1, <2>2, AtRuns, BodyKinds DEF IInv, At, Stage, Sound, Submitting, Running
      <3> QED
        BY <2>1, <2>2, <3>1, ReadyStays DEF Sound
    <2> QED
      BY <1>1, <2>1, <2>2 DEF Sound, Submitting, Malformed, Ops, Ready
  <1>2. CASE txn'[v] # txn[v] /\ ~Submitting(txn'[v])
    BY <1>2 DEF Sound, Submitting
  <1>3. CASE txn'[v] # txn[v] /\ Submitting(txn'[v])
    <2>1. TypeOK /\ Next
      BY <1>3 DEF IInv, vars
    <2>2. ASSUME NEW r \in Requests, SubmitBegin(v, r), ~Malformed(r.body),
                 NEW s \in {"create", "compare"}, Begin(v, r, s, survey)
          PROVE  Sound(txn[v])'
      <3>1. txn'[v].pc = s /\ txn'[v].req = r
        BY <2>1, <2>2 DEF Begin, TypeOK
      <3>2. r.body.kind = "submit"
        BY <2>2 DEF SubmitBegin, Receives
      <3> QED
        BY <2>2, <3>1, <3>2 DEF Sound, Submitting, Malformed, Ops
    <2>3. ASSUME SubmitCreate(v), txn'[v].pc = "compare", txn'[v].req = txn[v].req
          PROVE  Sound(txn[v])'
      <3>1. txn[v].req.body.kind = "submit" /\ ~Malformed(txn[v].req.body)
        BY <2>3 DEF IInv, Underway, Sound, Submitting, SubmitCreate, At
      <3> QED
        BY <2>3, <3>1 DEF Sound, Submitting, Malformed, Ops
    <2>4. ASSUME SubmitCompare(v), txn'[v].pc = "write"
          PROVE  Sound(txn[v])'
      <3> DEFINE b == txn[v].req.body
                 new == Unseen(b)
      <3>1. b.kind = "submit" /\ ~Malformed(b) /\ txn[v] \in Running
        BY <2>4, AtRuns DEF IInv, Underway, Sound, Submitting, SubmitCompare, At, Stage
      <3>2. b \in SubmitBody /\ b.dev \in Device
        BY <3>1, BodyKinds DEF Running, SubmitBody
      <3>3. /\ txn' = [txn EXCEPT ![v].pc = "write", ![v].fresh = new]
            /\ new = {} \/ Continues(b, new, LastSeq(b.dev))
        BY <2>1, <2>4 DEF SubmitCompare, Reply, Idle, TypeOK
      <3>4. txn'[v].req = txn[v].req /\ txn'[v].fresh = new
        BY <2>1, <3>1, <3>3 DEF TypeOK, Running
      <3>5. stored' = stored
        BY <2>4 DEF SubmitCompare, dbVars
      <3>6. LastSeq(b.dev) \in Nat
        BY <3>2 DEF IInv, Contiguous
      <3>7. ASSUME NEW t, t.req.body = b, t.fresh = new PROVE Ready(t)
        <4>1. new \subseteq Ops(b) /\ \A o \in Ops(b) \ new : stored[o] # 0
          BY DEF Unseen
        <4>2. \A o, p \in new : b.seqs[o] = b.seqs[p] => o = p
          BY <3>3 DEF Continues
        <4>3. new # {} => {b.seqs[o] : o \in new}
                             = (LastSeq(b.dev) + 1)..(LastSeq(b.dev) + Cardinality(new))
          BY <3>3 DEF Continues
        <4>4. LastSeq(b.dev) \in 0..LastSeq(b.dev)
          BY <3>6
        <4> QED
          BY <3>7, <4>1, <4>2, <4>3, <4>4 DEF Ready
      <3>8. \A t : Ready(t) => Ready(t)'
        BY <3>5 DEF Ready, Ops, LastSeq, SeqsOf
      <3>9. \A t : t = txn'[v] => Ready(t)'
        BY <3>4, <3>7, <3>8
      <3> QED
        BY <2>4, <3>1, <3>4, <3>9 DEF Sound, Submitting, Malformed, Ops, Ready
    <2> QED
      BY <1>3, <2>1, <2>2, <2>3, <2>4, Submissions
  <1> QED
    BY <1>1, <1>2, <1>3

-----------------------------------------------------------------------------
(* Acknowledgements.                                                        *)

\* Only a batch answers, or keeps, an acknowledgement; and it keeps its word.
LEMMA AnswersHonoured ==
    ASSUME IInv, Next
    PROVE  /\ \A a \in answers' \ answers : Honoured(a.says)'
           /\ \A e \in idem' \ idem : Honoured(e.answer)'
  <1> DEFINE Kept1 == \A e \in idem' \ idem : Honoured(e.answer)'
             Told == \A a \in answers' \ answers : Honoured(a.says)'
  <1>1. ASSUME NEW a, a.code # "ack" PROVE Honoured(a) /\ Honoured(a)'
    BY <1>1 DEF Honoured
  <1>2. ASSUME NEW a \in Answer, Honoured(a) PROVE Honoured(a)'
    BY <1>2, StoredGrows DEF Honoured, Answer, AckAnswer, ConflictAnswer, StateAnswer, PlainAnswer
  <1>3. ASSUME NEW w, NEW r, NEW a, Reply(w, r, a), Honoured(a)' PROVE Told
    BY <1>3 DEF Reply, Honoured
  <1>4. \A c : Plain(c).code = c
    BY DEF Plain
  <1>5. \A s, d : Conflict(s, d).code = "conflict" /\ State(s).code = "state"
    BY DEF Conflict, State
  <1>6. ASSUME NEW b, Known(b) PROVE \A a : a = Replay(b) => Honoured(a)'
    BY <1>2, <1>6, ReplayForm DEF IInv
  <1>7. ASSUME NEW w \in Worker, NEW r \in Requests, SubmitBegin(w, r) PROVE Told /\ Kept1
    <2>1. Kept1
      BY <1>7 DEF SubmitBegin, dbVars
    <2>2. CASE UNCHANGED answers
      BY <2>1, <2>2
    <2>3. CASE \E a : Reply(w, r, a) /\ Honoured(a)'
      BY <1>3, <2>1, <2>3
    <2> QED
      BY <1>1, <1>4, <1>5, <1>6, <1>7, <2>1, <2>2, <2>3 DEF SubmitBegin, Begin
  <1>8. ASSUME NEW w \in Worker, SubmitWrite(w) PROVE Told /\ Kept1
    <2> DEFINE t == txn[w]
    <2>1. CASE UNCHANGED dbVars /\ \E c \in {"race", "failed"} : Reply(w, t.req, Plain(c))
      BY <1>1, <1>3, <1>4, <2>1 DEF dbVars
    <2>2. CASE /\ Inserts(w)
               /\ Keep(t.req, Ack(t))
               /\ Reply(w, t.req, Ack(t))
      <3>1. /\ t.fresh \subseteq Ops(t.req.body)
            /\ \A o \in Ops(t.req.body) \ t.fresh : stored[o] # 0
        BY <2>2, Inserted DEF Ready
      <3>2. ASSUME NEW o \in Ops(t.req.body) PROVE stored'[o] # 0
        BY <2>2, <3>1, StoredGrows DEF Inserts, Ops
      <3>3. Ack(t).ops = Ops(t.req.body)
        BY DEF Ack
      <3>4. \A a : a = Ack(t) => Honoured(a)'
        BY <3>2, <3>3 DEF Honoured
      <3> QED
        BY <1>3, <2>2, <3>4 DEF Keep
    <2> QED
      BY <1>8, <2>1, <2>2 DEF SubmitWrite, Inserts
  <1>9. ASSUME NEW w \in Worker, CompleteClose(w) PROVE Told /\ Kept1
    <2>1. \A a : a = Closed(txn[w]) => Honoured(a)'
      BY <1>1, <1>5 DEF Closed
    <2> QED
      BY <1>1, <1>3, <1>4, <1>9, <2>1 DEF CompleteClose, Keep, Advance
  <1>10. ASSUME NEW w \in Worker, PresignSign(w) PROVE Told /\ Kept1
    BY <1>1, <1>3, <1>4, <1>10 DEF PresignSign, Keep
  <1>11. ASSUME NEW w \in Worker, NEW r \in Requests,
                GetSurvey(w, r) \/ CompleteBegin(w, r) \/ PresignBegin(w, r) \/ ConfirmBegin(w, r)
         PROVE  Told /\ Kept1
    <2>1. Kept1
      BY <1>11 DEF GetSurvey, CompleteBegin, PresignBegin, ConfirmBegin, dbVars
    <2>2. CASE UNCHANGED answers
      BY <2>1, <2>2
    <2>3. CASE \E a : Reply(w, r, a) /\ Honoured(a)'
      BY <1>3, <2>1, <2>3
    <2>4. UNCHANGED answers \/ \E a : Reply(w, r, a) /\ Honoured(a)'
      BY <1>1, <1>4, <1>5, <1>6, <1>11
         DEF GetSurvey, CompleteBegin, PresignBegin, ConfirmBegin, Begin
    <2> QED
      BY <2>1, <2>2, <2>3, <2>4
  <1>12. ASSUME NEW w \in Worker,
                \/ SubmitCreate(w) \/ SubmitCompare(w) \/ CompleteGate(w)
                \/ CompletePublish(w) \/ ConfirmAccept(w) \/ ConfirmPublish(w)
         PROVE  Told /\ Kept1
    <2>1. Kept1
      BY <1>12 DEF SubmitCreate, SubmitCompare, CompleteGate, CompletePublish,
                   ConfirmAccept, ConfirmPublish, dbVars
    <2>2. CASE UNCHANGED answers
      BY <2>1, <2>2
    <2>3. CASE \E a : Reply(w, txn[w].req, a) /\ Honoured(a)'
      BY <1>3, <2>1, <2>3
    <2>4. UNCHANGED answers \/ \E a : Reply(w, txn[w].req, a) /\ Honoured(a)'
      BY <1>1, <1>4, <1>5, <1>12
         DEF SubmitCreate, SubmitCompare, CompleteGate, CompletePublish,
             ConfirmAccept, ConfirmPublish, Advance, Closed
    <2> QED
      BY <2>1, <2>2, <2>3, <2>4
  <1>13. ASSUME (\E w \in Worker : Crash(w)) \/ (\E g \in Digest : Storage(g))
         PROVE  Told /\ Kept1
    BY <1>13 DEF Crash, Storage, PutObject, UrlExpires, dbVars
  <1> QED
    BY <1>7, <1>8, <1>9, <1>10, <1>11, <1>12, <1>13 DEF Next, Receive, Continue

\* No step leaves an acknowledgement, sent or kept, naming an operation not stored.
LEMMA PromisedStep ==
    ASSUME IInv, [Next]_vars
    PROVE  Promised'
  <1>1. ASSUME NEW a \in Answer, Honoured(a) PROVE Honoured(a)'
    BY <1>1, StoredGrows DEF Honoured, Answer, AckAnswer, ConflictAnswer, StateAnswer, PlainAnswer
  <1>2. /\ \A a \in answers : a.says \in Answer /\ Honoured(a.says)
        /\ \A e \in idem : e.answer \in Answer /\ Honoured(e.answer)
    BY DEF IInv, TypeOK, Promised
  <1>3. CASE UNCHANGED vars
    BY <1>1, <1>2, <1>3 DEF vars, Promised
  <1>4. CASE Next
    <2>1. /\ \A a \in answers' \ answers : Honoured(a.says)'
          /\ \A e \in idem' \ idem : Honoured(e.answer)'
      BY <1>4, AnswersHonoured
    <2>2. /\ \A a \in answers : Honoured(a.says)'
          /\ \A e \in idem : Honoured(e.answer)'
      BY <1>1, <1>2
    <2> QED
      BY <2>1, <2>2 DEF Promised
  <1> QED
    BY <1>3, <1>4

-----------------------------------------------------------------------------
(* The theorems.                                                            *)

\* Every step of the routes keeps every type.
LEMMA TypeStep ==
    ASSUME IInv, [Next]_vars
    PROVE  TypeOK'
  <1>1. CASE UNCHANGED vars
    BY <1>1 DEF vars, IInv, TypeOK
  <1>2. CASE Next
    BY <1>2, SubmitType, CompleteType, MediaType, StorageType
       DEF IInv, Next, Receive, Continue
  <1> QED
    BY <1>1, <1>2

\* The invariant holds of the empty tables.
LEMMA InitInvariant ==
    ASSUME Init
    PROVE  IInv
  <1>1. TypeOK
    BY DEF Init, TypeOK, Survey, Content, NoContent, Txn
  <1>2. \A d \in Device : SeqsOf(d) = {} /\ LastSeq(d) = 0
    <2>1. \A d \in Device : SeqsOf(d) = {}
      BY DEF Init, SeqsOf
    <2>2. Max((1..0) \cup {0}) = 0
      BY MaxOfRun
    <2> QED
      BY <2>1, <2>2 DEF LastSeq
  <1>3. Contiguous
    <2>1. \A n : n = 0 => 1..n = {} /\ n \in Nat
      OBVIOUS
    <2>2. \A d \in Device : SeqsOf(d) = 1..LastSeq(d) /\ LastSeq(d) \in Nat
      BY <1>2, <2>1
    <2>3. \A o \in Op : stored[o] = 0
      BY DEF Init
    <2> QED
      BY <2>2, <2>3 DEF Contiguous, LedgerContiguous
  <1>4. Underway /\ Promised
    BY DEF Init, Underway, Sound, Submitting, Promised, Idle
  <1> QED
    BY <1>1, <1>3, <1>4 DEF IInv

\* The inductive invariant holds of every behaviour of the routes.
THEOREM Invariance == Spec => []IInv
  <1>1. Init => IInv
    BY InitInvariant
  <1>2. IInv /\ [Next]_vars => IInv'
    BY TypeStep, ContiguousStep, UnderwayStep, PromisedStep DEF IInv
  <1> QED
    BY <1>1, <1>2, PTL DEF Spec

\* Every variable keeps its type: no handler stores or answers a malformed row.
THEOREM TypeCorrect == Spec => []TypeOK
  <1>1. IInv => TypeOK
    BY DEF IInv
  <1> QED
    BY <1>1, Invariance, PTL

\* submit_survey_operations keeps the operations of every device numbered 1..n.
THEOREM LedgerIsContiguous == Spec => []LedgerContiguous
  <1>1. IInv => LedgerContiguous
    BY DEF IInv, Contiguous
  <1> QED
    BY <1>1, Invariance, PTL

\* An acknowledgement, fresh or replayed, never names an operation that is not stored.
THEOREM AcksAreStored == Spec => []AckIsStored
  <1>1. IInv => AckIsStored
    BY DEF IInv, Promised, Honoured, AckIsStored
  <1> QED
    BY <1>1, Invariance, PTL

\* A stored operation is never renumbered or removed (the outbox may forget it).
THEOREM StoredForEver ==
    Spec => [][\A o \in Op : stored[o] # 0 => stored'[o] = stored[o]]_vars
  <1>1. IInv /\ [Next]_vars
           => [\A o \in Op : stored[o] # 0 => stored'[o] = stored[o]]_vars
    BY StoredGrows
  <1> QED
    BY <1>1, Invariance, PTL DEF Spec

-----------------------------------------------------------------------------
(* The promises of the routes: the invariant they rest on.                  *)

\* What a running handler knows of its request and of the packet it read.
Serves(t) ==
    /\ t.pc \in {"compare", "write"} => t.read.status = "OPEN"
    /\ t.pc \in {"gate", "close", "export"} =>
          t.req.body.kind = "complete" /\ t.read.content.concluded
    /\ t.pc \in {"close", "export"} => t.read.content.media \subseteq blob
    /\ t.pc = "sign" => t.req.body.kind = "presign"
    /\ t.pc \in {"accept", "analyse"} => t.req.body.kind = "confirm"
    /\ t.pc = "accept" => t.req.body.digest \in blob

Serving == \A w \in Worker : Serves(txn[w])

\* What each route keeps for a replay.
Keeps(e) ==
    /\ e.answer.code = "ack" => e.body.kind = "submit"
    /\ e.body.kind = "complete" =>
          /\ e.answer.survey.content.concluded
          /\ e.answer.survey.content.media \subseteq blob

\* uq_idempotency_scope.
OneRecord == \A e, f \in idem : Scope(e.body) = Scope(f.body) => e = f

KeptRight == OneRecord /\ \A e \in idem : Keeps(e)

\* An acknowledgement was kept with the body it answers.
AcksKept ==
    \A a \in answers :
        a.says.code = "ack" =>
            /\ a.req.body.kind = "submit"
            /\ [body |-> a.req.body, answer |-> a.says] \in idem

ConfirmedIsWhole == Confirmed \subseteq blob

\* The row of a closed survey, when no batch ran over its completion.
ClosedRow ==
    survey.status = "COMPLETED" /\ ~crossed =>
        survey.content.concluded /\ survey.content.media \subseteq blob

CInv ==
    /\ Serving
    /\ KeptRight
    /\ AcksKept
    /\ ConfirmedIsWhole
    /\ ClosedRow
    /\ ClosedIsPublished

-----------------------------------------------------------------------------
(* The bucket.                                                              *)

\* Nothing the routes or the clients do takes an object out of the bucket.
LEMMA BlobGrows ==
    ASSUME [Next]_vars
    PROVE  blob \subseteq blob'
  <1>1. CASE UNCHANGED vars
    BY <1>1 DEF vars
  <1>2. ASSUME NEW w \in Worker, NEW r \in Requests, Receive(w, r)
        PROVE  blob' = blob
    BY <1>2 DEF Receive, SubmitBegin, GetSurvey, CompleteBegin, PresignBegin, ConfirmBegin,
                mediaVars
  <1>3. ASSUME NEW w \in Worker, Continue(w)
        PROVE  blob' = blob
    BY <1>3 DEF Continue, SubmitCreate, SubmitCompare, SubmitWrite, CompleteGate,
                CompleteClose, CompletePublish, PresignSign, ConfirmAccept, ConfirmPublish,
                mediaVars
  <1>4. ASSUME NEW w \in Worker, Crash(w)
        PROVE  blob' = blob
    BY <1>4 DEF Crash, mediaVars
  <1>5. ASSUME NEW g \in Digest, Storage(g)
        PROVE  blob \subseteq blob'
    BY <1>5 DEF Storage, PutObject, UrlExpires
  <1> QED
    BY <1>1, <1>2, <1>3, <1>4, <1>5 DEF Next

\* A media counts as confirmed only with its object in the bucket.
LEMMA ConfirmedStep ==
    ASSUME IInv, CInv, [Next]_vars
    PROVE  ConfirmedIsWhole'
  <1> SUFFICES ASSUME NEW g \in Digest, media'[g] = "CONFIRMED" PROVE g \in blob'
    BY DEF ConfirmedIsWhole, Confirmed
  <1>1. media[g] = "CONFIRMED" => g \in blob
    BY DEF CInv, ConfirmedIsWhole, Confirmed
  <1>2. CASE media' = media
    BY <1>1, <1>2, BlobGrows
  <1>3. ASSUME NEW w \in Worker, ConfirmAccept(w) PROVE g \in blob'
    <2>1. txn[w].req.body.digest \in blob
      BY <1>3 DEF CInv, Serving, Serves, ConfirmAccept, At
    <2> QED
      BY <1>1, <1>3, <2>1, BlobGrows DEF ConfirmAccept, IInv, TypeOK
  <1>4. ASSUME NEW w \in Worker, PresignSign(w) PROVE g \in blob'
    BY <1>1, <1>4, BlobGrows DEF PresignSign, IInv, TypeOK
  <1>5. ASSUME NEW w \in Worker, ConfirmPublish(w) PROVE g \in blob'
    BY <1>1, <1>5, BlobGrows DEF ConfirmPublish, IInv, TypeOK
  <1>6. \/ media' = media
        \/ \E w \in Worker : ConfirmAccept(w) \/ PresignSign(w) \/ ConfirmPublish(w)
    <2>1. CASE UNCHANGED vars
      BY <2>1 DEF vars
    <2>2. ASSUME NEW w \in Worker, NEW r \in Requests, Receive(w, r)
          PROVE  media' = media
      BY <2>2 DEF Receive, SubmitBegin, GetSurvey, CompleteBegin, PresignBegin, ConfirmBegin,
                  mediaVars
    <2>3. ASSUME NEW w \in Worker,
                 \/ SubmitCreate(w) \/ SubmitCompare(w) \/ SubmitWrite(w) \/ CompleteGate(w)
                 \/ CompleteClose(w) \/ CompletePublish(w)
          PROVE  media' = media
      BY <2>3 DEF SubmitCreate, SubmitCompare, SubmitWrite, CompleteGate, CompleteClose,
                  CompletePublish, mediaVars
    <2>4. ASSUME (\E w \in Worker : Crash(w)) \/ (\E h \in Digest : Storage(h))
          PROVE  media' = media
      BY <2>4 DEF Crash, Storage, PutObject, UrlExpires, mediaVars
    <2> QED
      BY <2>1, <2>2, <2>3, <2>4 DEF Next, Continue
  <1> QED
    BY <1>2, <1>3, <1>4, <1>5, <1>6

-----------------------------------------------------------------------------
(* The handlers.                                                            *)

\* A handler changes stage only by a step of its own.
LEMMA Moves ==
    ASSUME IInv, Next, NEW v \in Worker, txn'[v] # txn[v]
    PROVE  \/ \E r \in Requests : Receive(v, r)
           \/ Continue(v)
           \/ Crash(v)
  <1>1. ASSUME NEW w \in Worker, w # v, NEW r, NEW a, Reply(w, r, a) PROVE FALSE
    BY <1>1 DEF Reply, IInv, TypeOK
  <1>2. ASSUME NEW w \in Worker, w # v, NEW s, Advance(w, s) PROVE FALSE
    BY <1>2 DEF Advance, IInv, TypeOK
  <1>3. ASSUME NEW w \in Worker, w # v, NEW r, NEW s, Begin(w, r, s, survey) PROVE FALSE
    BY <1>3 DEF Begin, IInv, TypeOK
  <1>4. ASSUME NEW w \in Worker, w # v, NEW r \in Requests, Receive(w, r) PROVE FALSE
    <2>1. CASE SubmitBegin(w, r) \/ GetSurvey(w, r) \/ CompleteBegin(w, r) \/ ConfirmBegin(w, r)
      BY <1>1, <1>3, <1>4, <2>1 DEF SubmitBegin, GetSurvey, CompleteBegin, ConfirmBegin
    <2>2. CASE PresignBegin(w, r)
      BY <1>1, <1>4, <2>2 DEF PresignBegin, IInv, TypeOK
    <2> QED
      BY <1>4, <2>1, <2>2 DEF Receive
  <1>5. ASSUME NEW w \in Worker, w # v, Continue(w) PROVE FALSE
    <2>1. CASE SubmitCreate(w) \/ SubmitCompare(w) \/ SubmitWrite(w)
      BY <1>1, <1>5, <2>1 DEF SubmitCreate, SubmitCompare, SubmitWrite, IInv, TypeOK
    <2>2. CASE \/ CompleteGate(w) \/ CompleteClose(w) \/ CompletePublish(w)
               \/ PresignSign(w) \/ ConfirmAccept(w) \/ ConfirmPublish(w)
      BY <1>1, <1>2, <1>5, <2>2
         DEF CompleteGate, CompleteClose, CompletePublish, PresignSign, ConfirmAccept,
             ConfirmPublish
    <2> QED
      BY <1>5, <2>1, <2>2 DEF Continue
  <1>6. ASSUME NEW w \in Worker, w # v, Crash(w) PROVE FALSE
    BY <1>6 DEF Crash, IInv, TypeOK
  <1>7. ASSUME NEW g \in Digest, Storage(g) PROVE FALSE
    BY <1>7 DEF Storage, PutObject, UrlExpires
  <1> QED
    BY <1>4, <1>5, <1>6, <1>7 DEF Next

\* What a handler knows stays true until it ends.
LEMMA ServingStep ==
    ASSUME IInv, CInv, [Next]_vars
    PROVE  Serving'
  <1> SUFFICES ASSUME NEW v \in Worker PROVE Serves(txn[v])'
    BY DEF Serving
  <1>0. Serves(txn[v]) /\ blob \subseteq blob' /\ ConfirmedIsWhole
    BY BlobGrows DEF CInv, Serving
  <1>1. CASE txn'[v] = txn[v]
    BY <1>0, <1>1 DEF Serves
  <1>2. CASE txn'[v].pc \in {"idle", "create"}
    BY <1>2 DEF Serves
  <1>3. CASE txn'[v] # txn[v] /\ txn'[v].pc \notin {"idle", "create"}
    <2> USE DEF IInv, TypeOK
    <2>1. ASSUME NEW r, NEW a, Reply(v, r, a) PROVE FALSE
      BY <1>3, <2>1 DEF Reply, Idle
    <2>2. ASSUME NEW r \in Requests, Receive(v, r) PROVE Serves(txn[v])'
      <3>1. CASE SubmitBegin(v, r)
        <4>1. /\ Begin(v, r, IF survey.status = "ABSENT" THEN "create" ELSE "compare", survey)
              /\ ~Shut
          BY <2>1, <3>1 DEF SubmitBegin
        <4>2. /\ txn'[v].pc = (IF survey.status = "ABSENT" THEN "create" ELSE "compare")
              /\ txn'[v].read = survey
          BY <4>1 DEF Begin
        <4>3. survey.status = "OPEN"
          BY <1>3, <4>1, <4>2 DEF Shut, Survey
        <4> QED
          BY <4>2, <4>3 DEF Serves
      <3>2. CASE GetSurvey(v, r)
        BY <2>1, <3>2 DEF GetSurvey
      <3>3. CASE CompleteBegin(v, r)
        <4>1. /\ Begin(v, r, "gate", survey) /\ survey.content.concluded
              /\ r.body.kind = "complete"
          BY <2>1, <3>3 DEF CompleteBegin, Receives
        <4>2. txn'[v].pc = "gate" /\ txn'[v].req = r /\ txn'[v].read = survey
          BY <4>1 DEF Begin
        <4> QED
          BY <4>1, <4>2 DEF Serves
      <3>4. CASE PresignBegin(v, r)
        <4>1. r.body.kind = "presign" /\ txn'[v].pc = "sign" /\ txn'[v].req = r
          BY <2>1, <3>4 DEF PresignBegin, Receives
        <4> QED
          BY <4>1 DEF Serves
      <3>5. CASE ConfirmBegin(v, r)
        <4>1. /\ Begin(v, r, "accept", survey) /\ r.body.digest \in blob
              /\ r.body.kind = "confirm"
          BY <2>1, <3>5 DEF ConfirmBegin, Receives
        <4>2. txn'[v].pc = "accept" /\ txn'[v].req = r
          BY <4>1 DEF Begin
        <4> QED
          BY <1>0, <4>1, <4>2 DEF Serves
      <3> QED
        BY <2>2, <3>1, <3>2, <3>3, <3>4, <3>5 DEF Receive
    <2>3. ASSUME NEW s \in Stage, NEW z \in Stage, At(v, s), Advance(v, z)
          PROVE  txn'[v].pc = z /\ txn'[v].req = txn[v].req /\ txn'[v].read = txn[v].read
      <3>1. txn[v] \in Running
        BY <2>3, AtRuns
      <3> QED
        BY <2>3, <3>1 DEF Advance, Running
    <2>4. ASSUME Continue(v) PROVE Serves(txn[v])'
      <3>1. CASE SubmitCreate(v) \/ SubmitCompare(v)
        <4>1. txn[v] \in Running
          BY <3>1, AtRuns DEF SubmitCreate, SubmitCompare, Stage
        <4>2. CASE SubmitCreate(v)
          <5>1. txn' = [txn EXCEPT ![v].pc = "compare", ![v].created = TRUE,
                                   ![v].read = [status |-> "OPEN", version |-> 1,
                                                content |-> txn[v].req.body.content]]
            BY <2>1, <4>2 DEF SubmitCreate
          <5>2. txn'[v].pc = "compare" /\ txn'[v].read.status = "OPEN"
            BY <4>1, <5>1 DEF Running
          <5> QED
            BY <5>2 DEF Serves
        <4>3. CASE SubmitCompare(v)
          <5>1. PICK fresh : /\ At(v, "compare")
                             /\ txn' = [txn EXCEPT ![v].pc = "write", ![v].fresh = fresh]
            BY <2>1, <4>3 DEF SubmitCompare
          <5>2. txn'[v].pc = "write" /\ txn'[v].read = txn[v].read
            BY <4>1, <5>1 DEF Running
          <5> QED
            BY <1>0, <5>1, <5>2 DEF Serves, At
        <4> QED
          BY <3>1, <4>2, <4>3
      <3>2. CASE SubmitWrite(v) \/ CompletePublish(v) \/ PresignSign(v) \/ ConfirmPublish(v)
        BY <2>1, <3>2 DEF SubmitWrite, CompletePublish, PresignSign, ConfirmPublish
      <3>3. CASE CompleteGate(v)
        <4>1. At(v, "gate") /\ Advance(v, "close") /\ txn[v].read.content.media \subseteq Confirmed
          BY <2>1, <3>3 DEF CompleteGate
        <4>2. txn'[v].pc = "close" /\ txn'[v].req = txn[v].req /\ txn'[v].read = txn[v].read
          BY <2>3, <4>1 DEF Stage
        <4> QED
          BY <1>0, <4>1, <4>2 DEF Serves, At, ConfirmedIsWhole
      <3>4. CASE CompleteClose(v)
        <4>1. At(v, "close") /\ Advance(v, "export")
          BY <2>1, <3>4 DEF CompleteClose
        <4>2. txn'[v].pc = "export" /\ txn'[v].req = txn[v].req /\ txn'[v].read = txn[v].read
          BY <2>3, <4>1 DEF Stage
        <4> QED
          BY <1>0, <4>1, <4>2 DEF Serves, At
      <3>5. CASE ConfirmAccept(v)
        <4>1. At(v, "accept") /\ Advance(v, "analyse")
          BY <2>1, <3>5 DEF ConfirmAccept
        <4>2. txn'[v].pc = "analyse" /\ txn'[v].req = txn[v].req
          BY <2>3, <4>1 DEF Stage
        <4> QED
          BY <1>0, <4>1, <4>2 DEF Serves, At
      <3> QED
        BY <2>4, <3>1, <3>2, <3>3, <3>4, <3>5 DEF Continue
    <2>5. ASSUME Crash(v) PROVE FALSE
      BY <1>3, <2>5 DEF Crash, Idle
    <2>6. Next
      BY <1>3 DEF vars
    <2> QED
      BY <1>3, <2>2, <2>4, <2>5, <2>6, Moves
  <1> QED
    BY <1>1, <1>2, <1>3

\* The evidence of a closed survey: a completion that no batch crossed commits what it
\* checked, and a batch that lands on the closed row is counted as crossing.
LEMMA ClosedRowStep ==
    ASSUME IInv, CInv, [Next]_vars
    PROVE  ClosedRow'
  <1>1. ClosedRow /\ blob \subseteq blob' /\ survey \in Survey
    BY BlobGrows DEF CInv, IInv, TypeOK
  <1>2. CASE UNCHANGED <<survey, crossed>>
    BY <1>1, <1>2 DEF ClosedRow
  <1>3. ASSUME NEW w \in Worker, SubmitWrite(w) PROVE ClosedRow'
    <2> DEFINE t == txn[w]
    <2>1. t.read.status = "OPEN"
      BY <1>3 DEF CInv, Serving, Serves, SubmitWrite, At
    <2>2. CASE t.created /\ survey' = Written(t)
      BY <2>1, <2>2 DEF Written, ClosedRow
    <2>3. CASE ~t.created /\ survey' = Written(t) /\ crossed' = (crossed \/ LandsOnClosed(t))
      <3>1. survey'.status = survey.status
        BY <1>1, <2>3 DEF Written, Survey
      <3>2. survey.status = "COMPLETED" /\ ~crossed' => survey'.content = survey.content
        BY <2>1, <2>3 DEF LandsOnClosed
      <3> QED
        BY <1>1, <2>3, <3>1, <3>2 DEF ClosedRow
    <2> QED
      BY <1>2, <1>3, <2>2, <2>3 DEF SubmitWrite, dbVars
  <1>4. ASSUME NEW w \in Worker, CompleteClose(w) PROVE ClosedRow'
    <2>1. txn[w].read.content.concluded /\ txn[w].read.content.media \subseteq blob
      BY <1>4 DEF CInv, Serving, Serves, CompleteClose, At
    <2>2. CASE /\ survey' = [survey EXCEPT !.status = "COMPLETED"]
               /\ crossed' = (crossed \/ ClosesUnread(txn[w]))
      <3>1. survey'.content = survey.content
        BY <1>1, <2>2 DEF Survey
      <3> QED
        BY <1>1, <2>1, <2>2, <3>1 DEF ClosesUnread, ClosedRow
    <2> QED
      BY <1>2, <1>4, <2>2 DEF CompleteClose
  <1>5. \/ UNCHANGED <<survey, crossed>>
        \/ \E w \in Worker : SubmitWrite(w) \/ CompleteClose(w)
    <2>1. CASE UNCHANGED vars
      BY <2>1 DEF vars
    <2>2. ASSUME NEW w \in Worker, NEW r \in Requests, Receive(w, r)
          PROVE  UNCHANGED <<survey, crossed>>
      BY <2>2 DEF Receive, SubmitBegin, GetSurvey, CompleteBegin, PresignBegin, ConfirmBegin,
                  dbVars
    <2>3. ASSUME NEW w \in Worker,
                 \/ SubmitCreate(w) \/ SubmitCompare(w) \/ CompleteGate(w)
                 \/ CompletePublish(w) \/ PresignSign(w) \/ ConfirmAccept(w)
                 \/ ConfirmPublish(w) \/ Crash(w)
          PROVE  UNCHANGED <<survey, crossed>>
      BY <2>3 DEF SubmitCreate, SubmitCompare, CompleteGate, CompletePublish, PresignSign,
                  ConfirmAccept, ConfirmPublish, Crash, dbVars
    <2>4. ASSUME NEW g \in Digest, Storage(g)
          PROVE  UNCHANGED <<survey, crossed>>
      BY <2>4 DEF Storage, PutObject, UrlExpires, dbVars
    <2> QED
      BY <2>1, <2>2, <2>3, <2>4 DEF Next, Continue
  <1> QED
    BY <1>2, <1>3, <1>4, <1>5

-----------------------------------------------------------------------------
(* The records of idempotency.                                              *)

\* A handler keeps an answer.
Writes(w, answer) ==
    /\ ~Known(txn[w].req.body)
    /\ Keep(txn[w].req, answer)

\* A record is written by the three commands that have an Idempotency-Key, where the scope is
\* free.
LEMMA RecordsChange ==
    ASSUME [Next]_vars
    PROVE  \/ idem' = idem
           \/ \E w \in Worker :
                 \/ SubmitWrite(w) /\ Writes(w, Ack(txn[w]))
                 \/ CompleteClose(w) /\ Writes(w, Closed(txn[w]))
                 \/ PresignSign(w) /\ Writes(w, Plain("url"))
  <1>1. CASE UNCHANGED vars
    BY <1>1 DEF vars
  <1>2. ASSUME NEW w \in Worker, NEW r \in Requests, Receive(w, r)
        PROVE  idem' = idem
    BY <1>2 DEF Receive, SubmitBegin, GetSurvey, CompleteBegin, PresignBegin, ConfirmBegin, dbVars
  <1>3. ASSUME NEW w \in Worker, SubmitWrite(w)
        PROVE  idem' = idem \/ Writes(w, Ack(txn[w]))
    BY <1>3 DEF SubmitWrite, Writes, dbVars
  <1>4. ASSUME NEW w \in Worker, CompleteClose(w)
        PROVE  idem' = idem \/ Writes(w, Closed(txn[w]))
    BY <1>4 DEF CompleteClose, Writes
  <1>5. ASSUME NEW w \in Worker, PresignSign(w)
        PROVE  idem' = idem \/ Writes(w, Plain("url"))
    BY <1>5 DEF PresignSign, Writes
  <1>6. ASSUME NEW w \in Worker,
               \/ SubmitCreate(w) \/ SubmitCompare(w) \/ CompleteGate(w) \/ CompletePublish(w)
               \/ ConfirmAccept(w) \/ ConfirmPublish(w) \/ Crash(w)
        PROVE  idem' = idem
    BY <1>6 DEF SubmitCreate, SubmitCompare, CompleteGate, CompletePublish, ConfirmAccept,
                ConfirmPublish, Crash, dbVars
  <1>7. ASSUME NEW g \in Digest, Storage(g)
        PROVE  idem' = idem
    BY <1>7 DEF Storage, PutObject, UrlExpires, dbVars
  <1> QED
    BY <1>1, <1>2, <1>3, <1>4, <1>5, <1>6, <1>7 DEF Next, Continue

\* Records are never rewritten, one is kept per scope, and it says what its route answers.
LEMMA KeptStep ==
    ASSUME IInv, CInv, [Next]_vars
    PROVE  KeptRight' /\ idem \subseteq idem'
  <1>1. blob \subseteq blob' /\ OneRecord /\ \A e \in idem : Keeps(e)
    BY BlobGrows DEF CInv, KeptRight
  <1>2. \A e \in idem : Keeps(e)'
    BY <1>1 DEF Keeps
  <1>3. ASSUME NEW w \in Worker, NEW a, Writes(w, a),
               \A e : e = [body |-> txn[w].req.body, answer |-> a] => Keeps(e)'
        PROVE  KeptRight' /\ idem \subseteq idem'
    <2>1. idem' = idem \cup {[body |-> txn[w].req.body, answer |-> a]}
      BY <1>3 DEF Writes, Keep
    <2>2. \A f \in idem : Scope(f.body) # Scope(txn[w].req.body)
      BY <1>3 DEF Writes, Known
    <2>3. OneRecord'
      BY <1>1, <2>1, <2>2 DEF OneRecord
    <2> QED
      BY <1>2, <1>3, <2>1, <2>3 DEF KeptRight
  <1>4. ASSUME NEW w \in Worker, SubmitWrite(w), Writes(w, Ack(txn[w]))
        PROVE  KeptRight' /\ idem \subseteq idem'
    <2>1. txn[w].req.body.kind = "submit"
      BY <1>4 DEF IInv, Underway, Sound, Submitting, SubmitWrite, At
    <2>2. \A e : e = [body |-> txn[w].req.body, answer |-> Ack(txn[w])] => Keeps(e)'
      BY <2>1 DEF Keeps
    <2> QED
      BY <1>3, <1>4, <2>2
  <1>5. ASSUME NEW w \in Worker, CompleteClose(w), Writes(w, Closed(txn[w]))
        PROVE  KeptRight' /\ idem \subseteq idem'
    <2>1. /\ txn[w].read.content.concluded
          /\ txn[w].read.content.media \subseteq blob
      BY <1>5 DEF CInv, Serving, Serves, CompleteClose, At
    <2>2. txn[w].read \in Survey
      BY <1>5, AtRuns DEF IInv, CompleteClose, Stage, Running
    <2>3. Closed(txn[w]).code = "state" /\ Closed(txn[w]).survey.content = txn[w].read.content
      BY <2>2 DEF Closed, State, Survey
    <2>4. \A e : e = [body |-> txn[w].req.body, answer |-> Closed(txn[w])] => Keeps(e)'
      BY <1>1, <2>1, <2>3 DEF Keeps
    <2> QED
      BY <1>3, <1>5, <2>4
  <1>6. ASSUME NEW w \in Worker, PresignSign(w), Writes(w, Plain("url"))
        PROVE  KeptRight' /\ idem \subseteq idem'
    <2>1. txn[w].req.body.kind = "presign"
      BY <1>6 DEF CInv, Serving, Serves, PresignSign, At
    <2>2. \A e : e = [body |-> txn[w].req.body, answer |-> Plain("url")] => Keeps(e)'
      BY <2>1 DEF Keeps, Plain
    <2> QED
      BY <1>3, <1>6, <2>2
  <1>7. CASE idem' = idem
    BY <1>1, <1>2, <1>7 DEF KeptRight, OneRecord
  <1> QED
    BY <1>4, <1>5, <1>6, <1>7, RecordsChange

-----------------------------------------------------------------------------
(* The answers.                                                             *)

\* What may be said anew in a step: a replay, an acknowledgement that is kept, a completion
\* once published, the state of the survey to who asked for it or confirmed a media, or a
\* refusal.
LEMMA NewAnswers ==
    ASSUME IInv, CInv, Next, NEW a \in answers' \ answers
    PROVE  \/ /\ Known(a.req.body)
              /\ a.says = Replay(a.req.body)
              /\ a.req.body.kind = "complete" => exports' = exports + 1
           \/ \E w \in Worker : /\ SubmitWrite(w) /\ Writes(w, Ack(txn[w]))
                               /\ a = [req |-> txn[w].req, says |-> Ack(txn[w])]
           \/ a.says.code = "state" /\ exports' = exports + 1
           \/ a.says.code = "state" /\ a.req.body.kind # "complete"
           \/ a.says.code \notin {"ack", "state"}
  <1> DEFINE Goal ==
          \/ /\ Known(a.req.body)
             /\ a.says = Replay(a.req.body)
             /\ a.req.body.kind = "complete" => exports' = exports + 1
          \/ \E w \in Worker : /\ SubmitWrite(w) /\ Writes(w, Ack(txn[w]))
                              /\ a = [req |-> txn[w].req, says |-> Ack(txn[w])]
          \/ a.says.code = "state" /\ exports' = exports + 1
          \/ a.says.code = "state" /\ a.req.body.kind # "complete"
          \/ a.says.code \notin {"ack", "state"}
  <1>1. ASSUME NEW w, NEW r, NEW says, Reply(w, r, says)
        PROVE  a = [req |-> r, says |-> says]
    BY <1>1 DEF Reply
  <1>2. \A c : Plain(c).code = c
    BY DEF Plain
  <1>3. \A s, d : Conflict(s, d).code = "conflict" /\ State(s).code = "state"
    BY DEF Conflict, State
  <1>4. ASSUME NEW w, NEW r, NEW c, Reply(w, r, Plain(c)), c \notin {"ack", "state"}
        PROVE  Goal
    BY <1>1, <1>2, <1>4
  <1>5. ASSUME NEW w, NEW r, NEW s, NEW d, Reply(w, r, Conflict(s, d)) PROVE Goal
    BY <1>1, <1>3, <1>5
  <1>6. ASSUME NEW w, NEW r, NEW s, Reply(w, r, State(s)), r.body.kind # "complete"
        PROVE  Goal
    BY <1>1, <1>3, <1>6
  <1>7. ASSUME NEW w, NEW r, Known(r.body), Reply(w, r, Replay(r.body)),
               r.body.kind = "complete" => exports' = exports + 1
        PROVE  Goal
    BY <1>1, <1>7
  <1>8. ASSUME answers' = answers PROVE FALSE
    BY <1>8
  <1>9. ASSUME NEW w \in Worker, NEW r \in Requests, SubmitBegin(w, r) PROVE Goal
    BY <1>4, <1>5, <1>7, <1>8, <1>9 DEF SubmitBegin, Begin, Receives
  <1>10. ASSUME NEW w \in Worker, NEW r \in Requests, GetSurvey(w, r) PROVE Goal
    BY <1>4, <1>6, <1>10 DEF GetSurvey, Receives
  <1>11. ASSUME NEW w \in Worker, NEW r \in Requests, CompleteBegin(w, r) PROVE Goal
    BY <1>4, <1>5, <1>7, <1>8, <1>11 DEF CompleteBegin, Begin, Receives
  <1>12. ASSUME NEW w \in Worker, NEW r \in Requests, PresignBegin(w, r) PROVE Goal
    BY <1>4, <1>7, <1>8, <1>12 DEF PresignBegin, Receives
  <1>13. ASSUME NEW w \in Worker, NEW r \in Requests, ConfirmBegin(w, r) PROVE Goal
    BY <1>4, <1>6, <1>8, <1>13 DEF ConfirmBegin, Begin, Receives
  <1>14. ASSUME NEW w \in Worker, SubmitCreate(w) \/ SubmitCompare(w) PROVE Goal
    BY <1>4, <1>5, <1>8, <1>14 DEF SubmitCreate, SubmitCompare
  <1>15. ASSUME NEW w \in Worker, SubmitWrite(w) PROVE Goal
    <2>1. CASE \E c \in {"race", "failed"} : Reply(w, txn[w].req, Plain(c))
      BY <1>4, <2>1
    <2>2. CASE Writes(w, Ack(txn[w])) /\ Reply(w, txn[w].req, Ack(txn[w]))
      BY <1>1, <1>15, <2>2
    <2> QED
      BY <1>15, <2>1, <2>2 DEF SubmitWrite, Writes
  <1>16. ASSUME NEW w \in Worker, CompleteGate(w) \/ CompleteClose(w) PROVE Goal
    BY <1>4, <1>8, <1>16 DEF CompleteGate, CompleteClose, Advance
  <1>17. ASSUME NEW w \in Worker, CompletePublish(w) PROVE Goal
    <2>1. CASE exports' = exports + 1 /\ Reply(w, txn[w].req, Closed(txn[w]))
      BY <1>1, <1>3, <2>1 DEF Closed
    <2> QED
      BY <1>4, <1>17, <2>1 DEF CompletePublish
  <1>18. ASSUME NEW w \in Worker, PresignSign(w) \/ ConfirmAccept(w) PROVE Goal
    BY <1>4, <1>8, <1>18 DEF PresignSign, ConfirmAccept, Advance
  <1>19. ASSUME NEW w \in Worker, ConfirmPublish(w) PROVE Goal
    <2>1. txn[w].req.body.kind = "confirm"
      BY <1>19 DEF CInv, Serving, Serves, ConfirmPublish, At
    <2> QED
      BY <1>4, <1>6, <1>19, <2>1 DEF ConfirmPublish
  <1>20. ASSUME (\E w \in Worker : Crash(w)) \/ (\E g \in Digest : Storage(g)) PROVE Goal
    BY <1>8, <1>20 DEF Crash, Storage, PutObject, UrlExpires
  <1> QED
    BY <1>9, <1>10, <1>11, <1>12, <1>13, <1>14, <1>15, <1>16, <1>17, <1>18, <1>19, <1>20
       DEF Next, Receive, Continue

\* The exports published are counted, never taken back.
LEMMA ExportsGrow ==
    ASSUME IInv, [Next]_vars
    PROVE  exports' \in {exports, exports + 1}
  <1>1. CASE UNCHANGED vars
    BY <1>1 DEF vars
  <1>2. ASSUME NEW w \in Worker, NEW r \in Requests, Receive(w, r)
        PROVE  exports' \in {exports, exports + 1}
    BY <1>2 DEF Receive, SubmitBegin, GetSurvey, CompleteBegin, PresignBegin, ConfirmBegin,
                queueVars
  <1>3. ASSUME NEW w \in Worker, Continue(w)
        PROVE  exports' \in {exports, exports + 1}
    BY <1>3 DEF Continue, SubmitCreate, SubmitCompare, SubmitWrite, CompleteGate,
                CompleteClose, CompletePublish, PresignSign, ConfirmAccept, ConfirmPublish,
                queueVars
  <1>4. ASSUME (\E w \in Worker : Crash(w)) \/ (\E g \in Digest : Storage(g))
        PROVE  exports' = exports
    BY <1>4 DEF Crash, Storage, PutObject, UrlExpires, queueVars
  <1> QED
    BY <1>1, <1>2, <1>3, <1>4 DEF Next

\* Every acknowledgement given is the one kept for its key, or is kept with it.
LEMMA AcksKeptStep ==
    ASSUME IInv, CInv, [Next]_vars
    PROVE  AcksKept'
  <1>1. idem \subseteq idem'
    BY KeptStep
  <1>2. \A a \in answers :
           a.says.code = "ack" =>
               /\ a.req.body.kind = "submit"
               /\ [body |-> a.req.body, answer |-> a.says] \in idem'
    BY <1>1 DEF CInv, AcksKept
  <1>3. CASE answers' = answers
    BY <1>2, <1>3 DEF AcksKept
  <1>4. ASSUME Next, NEW a \in answers' \ answers, a.says.code = "ack"
        PROVE  /\ a.req.body.kind = "submit"
               /\ [body |-> a.req.body, answer |-> a.says] \in idem'
    <2>1. CASE Known(a.req.body) /\ a.says = Replay(a.req.body)
      <3> DEFINE e == Kept(a.req.body)
      <3>1. e \in idem
        BY <2>1 DEF Known, Kept
      <3>2. e.body = a.req.body /\ e.answer = a.says
        BY <1>4, <2>1 DEF Replay, Plain
      <3>3. e = [body |-> e.body, answer |-> e.answer]
        BY <3>1 DEF IInv, TypeOK
      <3>4. e.body.kind = "submit"
        BY <1>4, <3>1, <3>2 DEF CInv, KeptRight, Keeps
      <3> QED
        BY <1>1, <3>1, <3>2, <3>3, <3>4
    <2>2. ASSUME NEW w \in Worker, SubmitWrite(w), Writes(w, Ack(txn[w])),
                 a = [req |-> txn[w].req, says |-> Ack(txn[w])]
          PROVE  /\ a.req.body.kind = "submit"
                 /\ [body |-> a.req.body, answer |-> a.says] \in idem'
      <3>1. txn[w].req.body.kind = "submit"
        BY <2>2 DEF IInv, Underway, Sound, Submitting, SubmitWrite, At
      <3>2. [body |-> txn[w].req.body, answer |-> Ack(txn[w])] \in idem'
        BY <2>2 DEF Writes, Keep
      <3> QED
        BY <2>2, <3>1, <3>2
    <2> QED
      BY <1>4, <2>1, <2>2, NewAnswers
  <1>5. CASE Next
    BY <1>2, <1>4, <1>5 DEF AcksKept
  <1> QED
    BY <1>3, <1>5 DEF vars

\* Nobody is told of a completion before an export was published.
LEMMA PublishedStep ==
    ASSUME IInv, CInv, [Next]_vars
    PROVE  ClosedIsPublished'
  <1>1. exports \in Nat /\ exports' \in {exports, exports + 1}
    BY ExportsGrow DEF IInv, TypeOK
  <1>2. \A a \in answers :
           a.req.body.kind = "complete" /\ a.says.code = "state" => exports' > 0
    BY <1>1 DEF CInv, ClosedIsPublished
  <1>3. CASE answers' = answers
    BY <1>2, <1>3 DEF ClosedIsPublished
  <1>4. ASSUME Next, NEW a \in answers' \ answers,
               a.req.body.kind = "complete", a.says.code = "state"
        PROVE  exports' > 0
    <2>1. ASSUME NEW w \in Worker, a = [req |-> txn[w].req, says |-> Ack(txn[w])]
          PROVE  FALSE
      BY <1>4, <2>1 DEF Ack
    <2>2. exports' = exports + 1
      BY <1>4, <2>1, NewAnswers
    <2> QED
      BY <1>1, <2>2
  <1>5. CASE Next
    BY <1>2, <1>4, <1>5 DEF ClosedIsPublished
  <1> QED
    BY <1>3, <1>5 DEF vars

-----------------------------------------------------------------------------
(* The contract with the clients.                                           *)

\* What the routes keep, say and know of the evidence, in every behaviour.
THEOREM ContractInvariance == Spec => [](IInv /\ CInv)
  <1>1. Init => CInv
    BY DEF Init, CInv, Serving, Serves, KeptRight, OneRecord, AcksKept, ConfirmedIsWhole,
           Confirmed, ClosedRow, ClosedIsPublished, Idle
  <1>2. IInv /\ CInv /\ [Next]_vars => CInv'
    BY ServingStep, KeptStep, AcksKeptStep, ConfirmedStep, ClosedRowStep, PublishedStep DEF CInv
  <1> QED
    BY <1>1, <1>2, Invariance, PTL DEF Spec

\* Two instances that run the same batch at once, and every replay since, give one answer.
THEOREM OneAcknowledgement == Spec => []OneAckPerKey
  <1>1. IInv /\ CInv => OneAckPerKey
    <2> SUFFICES ASSUME IInv, CInv, NEW x \in answers, NEW y \in answers,
                        x.says.code = "ack", y.says.code = "ack",
                        x.req.body.key = y.req.body.key
                 PROVE  x.says = y.says
      BY DEF OneAckPerKey
    <2> DEFINE e == [body |-> x.req.body, answer |-> x.says]
               f == [body |-> y.req.body, answer |-> y.says]
    <2>1. e \in idem /\ f \in idem /\ x.req.body.kind = "submit" /\ y.req.body.kind = "submit"
      BY DEF CInv, AcksKept
    <2>2. Scope(e.body) = Scope(f.body)
      BY <2>1 DEF Scope
    <2>3. e = f
      BY <2>1, <2>2 DEF CInv, KeptRight, OneRecord
    <2> QED
      BY <2>3
  <1> QED
    BY <1>1, ContractInvariance, PTL

\* What a completion checked has its evidence for ever, and so has the row of the closed
\* survey, except where a batch and the completion ran over each other
\* (ClosedRowHasEvidence shows what is left then).
THEOREM ClosureHasItsEvidence == Spec => []ClosedWithEvidence
  <1>1. CInv => ClosedWithEvidence
    BY DEF CInv, KeptRight, Keeps, ClosedRow, ClosedWithEvidence
  <1> QED
    BY <1>1, ContractInvariance, PTL

\* A completion that was confirmed to anybody has had its export published.
THEOREM ClosureIsPublished == Spec => []ClosedIsPublished
  <1>1. CInv => ClosedIsPublished
    BY DEF CInv
  <1> QED
    BY <1>1, ContractInvariance, PTL

-----------------------------------------------------------------------------
(* The routes implement the ledger.                                         *)

\* The log of a device, as the refinement maps it: the operation that carries each number.
LEMMA LogEntries ==
    IInv => \A d \in Device :
               /\ LastSeq(d) \in Nat
               /\ Log(d) \in [1..LastSeq(d) -> Op]
               /\ \A i \in 1..LastSeq(d) : OpDevice[Log(d)[i]] = d /\ stored[Log(d)[i]] = i
  <1> SUFFICES ASSUME IInv, NEW d \in Device
               PROVE  /\ LastSeq(d) \in Nat
                      /\ Log(d) \in [1..LastSeq(d) -> Op]
                      /\ \A i \in 1..LastSeq(d) :
                            OpDevice[Log(d)[i]] = d /\ stored[Log(d)[i]] = i
    OBVIOUS
  <1>1. LastSeq(d) \in Nat /\ SeqsOf(d) = 1..LastSeq(d)
    BY DEF IInv, Contiguous, LedgerContiguous
  <1>2. ASSUME NEW i \in 1..LastSeq(d)
        PROVE  \E o \in Op : OpDevice[o] = d /\ stored[o] = i
    BY <1>1 DEF SeqsOf
  <1> QED
    BY <1>1, <1>2 DEF Log

\* Every stored operation is in the log of its device.
LEMMA StoredIsLogged ==
    IInv => \A o \in Op : stored[o] # 0 => \E i \in 1..LastSeq(OpDevice[o]) : Log(OpDevice[o])[i] = o
  <1> SUFFICES ASSUME IInv, NEW o \in Op, stored[o] # 0
               PROVE  \E i \in 1..LastSeq(OpDevice[o]) : Log(OpDevice[o])[i] = o
    OBVIOUS
  <1> DEFINE d == OpDevice[o]
             i == stored[o]
  <1>1. d \in Device
    BY OpAssumption
  <1>2. i \in 1..LastSeq(d)
    BY <1>1 DEF IInv, Contiguous, LedgerContiguous, SeqsOf
  <1>3. /\ OpDevice[Log(d)[i]] = d /\ stored[Log(d)[i]] = i
        /\ Log(d)[i] \in Op
    BY <1>1, <1>2, LogEntries
  <1>4. Log(d)[i] = o
    BY <1>1, <1>3 DEF IInv, Contiguous, LedgerContiguous
  <1> QED
    BY <1>2, <1>4

\* Only stored operations are acknowledged: the acknowledged part of the ledger is recorded.
LEMMA AckedIsRecorded ==
    IInv => Acked \subseteq Ledger!Recorded /\ Acked \subseteq Op
  <1> SUFFICES ASSUME IInv, NEW o \in Acked PROVE o \in Ledger!Recorded /\ o \in Op
    OBVIOUS
  <1>1. PICK a \in answers : a.says.code = "ack" /\ o \in a.says.ops
    BY DEF Acked
  <1>2. stored[o] # 0
    BY <1>1 DEF IInv, Promised, Honoured
  <1>3. o \in Op
    BY <1>1 DEF IInv, TypeOK, Answer, AckAnswer, ConflictAnswer, StateAnswer, PlainAnswer
  <1> DEFINE d == OpDevice[o]
  <1>4. d \in Device
    BY <1>3, OpAssumption
  <1>5. PICK i \in 1..LastSeq(d) : Log(d)[i] = o
    BY <1>2, <1>3, StoredIsLogged
  <1>6. DOMAIN Log(d) = 1..LastSeq(d)
    BY DEF Log
  <1>7. o \in Ledger!Entries(Log(d))
    BY <1>5, <1>6 DEF Ledger!Entries
  <1> QED
    BY <1>3, <1>4, <1>7 DEF Ledger!Recorded

\* No answer is taken back.
LEMMA AnswersGrow ==
    ASSUME [Next]_vars
    PROVE  answers \subseteq answers'
  <1>1. CASE UNCHANGED vars
    BY <1>1 DEF vars
  <1>2. ASSUME NEW w, NEW r, NEW a, Reply(w, r, a) PROVE answers \subseteq answers'
    BY <1>2 DEF Reply
  <1>3. ASSUME NEW w \in Worker, NEW r \in Requests, Receive(w, r)
        PROVE  answers \subseteq answers'
    BY <1>2, <1>3 DEF Receive, SubmitBegin, GetSurvey, CompleteBegin, PresignBegin,
                      ConfirmBegin, Begin
  <1>4. ASSUME NEW w \in Worker, Continue(w)
        PROVE  answers \subseteq answers'
    BY <1>2, <1>4 DEF Continue, SubmitCreate, SubmitCompare, SubmitWrite, CompleteGate,
                      CompleteClose, CompletePublish, PresignSign, ConfirmAccept,
                      ConfirmPublish, Advance
  <1>5. ASSUME (\E w \in Worker : Crash(w)) \/ (\E g \in Digest : Storage(g))
        PROVE  answers \subseteq answers'
    BY <1>5 DEF Crash, Storage, PutObject, UrlExpires
  <1> QED
    BY <1>1, <1>3, <1>4, <1>5 DEF Next

\* The operations a write adds, in the order of their numbers.
Added(d, n, k) ==
    [i \in 1..k |-> CHOOSE o \in Op : OpDevice[o] = d /\ stored'[o] = n + i]

\* A function that is one sequence and then another is their concatenation.
LEMMA Appended ==
    ASSUME NEW S, NEW n \in Nat, NEW k \in Nat, NEW l \in [1..n -> S], NEW s \in [1..k -> S],
           NEW z \in [1..(n + k) -> S],
           \A i \in 1..n : z[i] = l[i],
           \A i \in (n + 1)..(n + k) : z[i] = s[i - n]
    PROVE  z = l \o s
  <1>1. l \in Seq(S) /\ Len(l) = n
    OBVIOUS
  <1>2. s \in Seq(S) /\ Len(s) = k
    OBVIOUS
  <1>3. n + k \in Nat
    OBVIOUS
  <1>4. z \in Seq(S) /\ Len(z) = n + k
    BY <1>3
  <1>5. l \o s \in Seq(S) /\ Len(l \o s) = n + k
    BY <1>1, <1>2
  <1>6. ASSUME NEW i \in 1..(n + k)
        PROVE  /\ i <= n => (l \o s)[i] = l[i]
               /\ ~(i <= n) => (l \o s)[i] = s[i - n]
    <2>1. i \in 1..(Len(l) + Len(s))
      BY <1>1, <1>2
    <2>2. (l \o s)[i] = IF i <= Len(l) THEN l[i] ELSE s[i - Len(l)]
      BY <1>1, <1>2, <2>1, ConcatProperties, Zenon
    <2> QED
      BY <1>1, <2>2
  <1>7. ASSUME NEW i \in 1..(n + k) PROVE z[i] = (l \o s)[i]
    <2>1. CASE i <= n
      <3>1. i \in 1..n
        BY <2>1
      <3>2. z[i] = l[i]
        BY <3>1
      <3>3. (l \o s)[i] = l[i]
        BY <1>6, <2>1
      <3> QED
        BY <3>2, <3>3
    <2>2. CASE ~(i <= n)
      <3>1. i \in (n + 1)..(n + k)
        BY <2>2
      <3>2. z[i] = s[i - n]
        BY <3>1
      <3>3. (l \o s)[i] = s[i - n]
        BY <1>6, <2>2
      <3> QED
        BY <3>2, <3>3
    <2> QED
      BY <2>1, <2>2
  <1> QED
    BY <1>4, <1>5, <1>7, SeqEqual

\* A write appends to the log of its device a run of new operations, each once.
LEMMA InsertAppends ==
    ASSUME IInv, IInv', [Next]_vars, NEW w \in Worker, Inserts(w), txn[w].fresh # {},
           NEW d \in Device, d = txn[w].req.body.dev
    PROVE  /\ \E s \in Ledger!Runs(d) : Log(d)' = Log(d) \o s
           /\ \A e \in Device \ {d} : Log(e)' = Log(e)
  <1> DEFINE b == txn[w].req.body
             fresh == txn[w].fresh
             n == LastSeq(d)
             k == Cardinality(fresh)
             s == Added(d, n, k)
             new == {o \in Op : OpDevice[o] = d} \ Ledger!Entries(Log(d))
  <1>1. /\ b \in SubmitBody /\ fresh \subseteq Ops(b)
        /\ \A o \in Ops(b) : OpDevice[o] = d
        /\ \A o \in fresh : stored[o] = 0
    BY Inserted
  <1>3. n \in Nat /\ k \in Nat /\ SeqsOf(d)' = 1..(n + k)
    BY InsertContinues
  <1>4. /\ LastSeq(d)' \in Nat /\ SeqsOf(d)' = 1..LastSeq(d)'
        /\ \A o, p \in Op : OpDevice[o] = d /\ OpDevice[p] = d /\ stored'[o] # 0
                              /\ stored'[o] = stored'[p] => o = p
    BY DEF IInv, Contiguous, LedgerContiguous
  <1>5. LastSeq(d)' = n + k
    BY <1>3, <1>4
  <1>6. /\ Log(d) \in [1..n -> Op]
        /\ \A i \in 1..n : OpDevice[Log(d)[i]] = d /\ stored[Log(d)[i]] = i
    BY LogEntries
  <1>7. \A o \in Op : stored[o] # 0 => stored'[o] = stored[o]
    BY StoredGrows
  <1>8. ASSUME NEW i \in 1..k
        PROVE  /\ s[i] \in Op /\ OpDevice[s[i]] = d /\ stored'[s[i]] = n + i
               /\ stored[s[i]] = 0
    <2>1. \E o \in Op : OpDevice[o] = d /\ stored'[o] = n + i
      <3>1. n + i \in SeqsOf(d)'
        BY <1>3
      <3> QED
        BY <3>1 DEF SeqsOf
    <2>2. s[i] \in Op /\ OpDevice[s[i]] = d /\ stored'[s[i]] = n + i
      BY <2>1 DEF Added
    <2>3. SeqsOf(d) = 1..n
      BY DEF IInv, Contiguous, LedgerContiguous
    <2>4. stored[s[i]] # n + i
      BY <1>3, <2>2, <2>3 DEF SeqsOf
    <2> QED
      BY <1>7, <2>2, <2>4
  <1>9. ASSUME NEW o \in Ledger!Entries(Log(d)) PROVE stored[o] # 0
    BY <1>3, <1>6 DEF Ledger!Entries
  <1>10. s \in [1..k -> new]
    BY <1>8, <1>9 DEF Added
  <1>11. \A i, j \in DOMAIN s : s[i] = s[j] => i = j
    BY <1>3, <1>8 DEF Added
  <1>12. k \in 0..Cardinality(new)
    <2>1. IsFiniteSet(new)
      BY OpAssumption, FS_Subset
    <2>2. fresh \subseteq new
      BY <1>1, <1>9 DEF Ops
    <2> QED
      BY <1>3, <2>1, <2>2, FS_Subset, FS_CardinalityType
  <1>13. s \in Ledger!Runs(d)
    <2>1. [e \in Device |-> Log(e)][d] = Log(d)
      OBVIOUS
    <2>2. Ledger!Cardinality(new) = Cardinality(new)
      BY DEF Ledger!Cardinality, Cardinality
    <2> QED
      BY <1>10, <1>11, <1>12, <2>1, <2>2 DEF Ledger!Runs
  <1>14. Log(d)' = Log(d) \o s
    <2>1. Log(d)' = [i \in 1..(n + k) |-> CHOOSE o \in Op : OpDevice[o] = d /\ stored'[o] = i]
      BY <1>5 DEF Log
    <2>2. ASSUME NEW i \in 1..n PROVE Log(d)'[i] = Log(d)[i]
      <3>1. Log(d)[i] \in Op /\ OpDevice[Log(d)[i]] = d /\ stored'[Log(d)[i]] = i
        BY <1>3, <1>6, <1>7
      <3>2. \A o \in Op : OpDevice[o] = d /\ stored'[o] = i => o = Log(d)[i]
        BY <1>3, <1>4, <3>1
      <3> QED
        BY <1>3, <2>1, <3>1, <3>2
    <2>3. ASSUME NEW i \in (n + 1)..(n + k) PROVE Log(d)'[i] = s[i - n]
      <3>1. i - n \in 1..k /\ n + (i - n) = i /\ i \in 1..(n + k)
        BY <1>3
      <3> QED
        BY <2>1, <3>1 DEF Added
    <2>4. s \in [1..k -> Op]
      BY <1>10
    <2>5. Log(d)' \in [1..(n + k) -> Op]
      <3>1. \A i \in 1..(n + k) : \E o \in Op : OpDevice[o] = d /\ stored'[o] = i
        BY <1>3 DEF SeqsOf
      <3> QED
        BY <2>1, <3>1
    <2> HIDE DEF n, k, s
    <2> QED
      BY <1>3, <1>6, <2>2, <2>3, <2>4, <2>5, Appended
  <1>15. ASSUME NEW e \in Device \ {d} PROVE Log(e)' = Log(e)
    <2>1. \A o \in Op : OpDevice[o] = e => stored'[o] = stored[o]
      BY <1>1 DEF Inserts
    <2>2. SeqsOf(e)' = SeqsOf(e)
      BY <2>1 DEF SeqsOf
    <2>3. LastSeq(e)' = LastSeq(e)
      BY <2>2 DEF LastSeq
    <2> DEFINE Was(i) == CHOOSE o \in Op : OpDevice[o] = e /\ stored[o] = i
               Is(i) == CHOOSE o \in Op : OpDevice[o] = e /\ stored'[o] = i
    <2>4. ASSUME NEW i PROVE Is(i) = Was(i)
      <3>1. \A o \in Op : (OpDevice[o] = e /\ stored'[o] = i)
                            <=> (OpDevice[o] = e /\ stored[o] = i)
        BY <2>1
      <3> QED
        BY <3>1
    <2>5. /\ Log(e) = [i \in 1..LastSeq(e) |-> Was(i)]
          /\ Log(e)' = [i \in 1..LastSeq(e)' |-> Is(i)]
      BY DEF Log
    <2> HIDE DEF Was, Is
    <2> QED
      BY <2>3, <2>4, <2>5
  <1> QED
    BY <1>13, <1>14, <1>15

\* The empty run extends every log and changes none.
LEMMA NothingNew ==
    ASSUME IInv, NEW d \in Device
    PROVE  << >> \in Ledger!Runs(d) /\ Log(d) \o << >> = Log(d)
  <1> DEFINE new == {o \in Op : OpDevice[o] = d} \ Ledger!Entries(Log(d))
  <1>1. Log(d) \in Seq(Op)
    BY LogEntries
  <1>2. IsFiniteSet(new)
    BY OpAssumption, FS_Subset
  <1>3. 0 \in 0..Cardinality(new)
    BY <1>2, FS_CardinalityType
  <1>4. Ledger!Cardinality(new) = Cardinality(new)
    BY DEF Ledger!Cardinality, Cardinality
  <1>5. << >> \in [1..0 -> new]
    OBVIOUS
  <1>6. [e \in Device |-> Log(e)][d] = Log(d)
    OBVIOUS
  <1>7. \A i, j \in DOMAIN << >> : << >>[i] = << >>[j] => i = j
    OBVIOUS
  <1>8. << >> \in Ledger!Runs(d)
    BY <1>3, <1>4, <1>5, <1>6, <1>7 DEF Ledger!Runs
  <1> QED
    BY <1>1, <1>8, ConcatEmptySeq

\* While nothing is stored the logs stand.
LEMMA LogStands ==
    ASSUME stored' = stored, NEW d \in Device
    PROVE  Log(d)' = Log(d)
  <1>1. SeqsOf(d)' = SeqsOf(d)
    BY DEF SeqsOf
  <1>2. LastSeq(d)' = LastSeq(d)
    BY <1>1 DEF LastSeq
  <1> QED
    BY <1>2 DEF Log

\* Every step of the routes is a step of the ledger, or leaves it as it was.
LEMMA LedgerStep ==
    ASSUME IInv, IInv', [Next]_vars, Acked' \subseteq Ledger!Recorded', Acked' \subseteq Op
    PROVE  [Ledger!Next]_(Ledger!vars)
  <1> DEFINE logs == [d \in Device |-> Log(d)]
  <1>1. \E S \in SUBSET Ledger!Recorded' : Acked' = Acked \cup S
    <2>1. Acked \subseteq Acked'
      BY AnswersGrow DEF Acked
    <2> QED
      BY <2>1
  <1>2. ASSUME NEW d \in Device, \E s \in Ledger!Runs(d) : Log(d)' = Log(d) \o s,
               \A e \in Device \ {d} : Log(e)' = Log(e)
        PROVE  Ledger!Next
    <2>1. PICK s \in Ledger!Runs(d) : Log(d)' = Log(d) \o s
      BY <1>2
    <2>2. logs' = [logs EXCEPT ![d] = Log(d) \o s]
      BY <1>2, <2>1
    <2>3. logs[d] = Log(d)
      OBVIOUS
    <2>4. logs' = [logs EXCEPT ![d] = logs[d] \o s]
      BY <2>2, <2>3
    <2> QED
      BY <1>1, <2>4 DEF Ledger!Next, Ledger!Record
  <1>3. CASE stored' = stored
    <2>1. \A d \in Device : Log(d)' = Log(d)
      BY <1>3, LogStands
    <2>2. CASE Acked' = Acked
      BY <2>1, <2>2 DEF Ledger!vars
    <2>3. CASE Acked' # Acked
      <3>1. PICK o \in Acked' : o \notin Acked
        BY <1>1, <2>3
      <3>2. OpDevice[o] \in Device
        BY <3>1, OpAssumption
      <3>3. PICK d \in Device : d = OpDevice[o]
        BY <3>2
      <3> QED
        BY <1>2, <2>1, NothingNew
    <2> QED
      BY <2>2, <2>3
  <1>4. ASSUME NEW w \in Worker, Inserts(w), txn[w].fresh # {} PROVE Ledger!Next
    <2>1. txn[w].req.body.dev \in Device
      BY <1>4, Inserted DEF SubmitBody
    <2>2. PICK d \in Device : d = txn[w].req.body.dev
      BY <2>1
    <2>3. /\ \E s \in Ledger!Runs(d) : Log(d)' = Log(d) \o s
          /\ \A e \in Device \ {d} : Log(e)' = Log(e)
      BY <1>4, <2>2, InsertAppends
    <2> QED
      BY <1>2, <2>3
  <1>5. ASSUME NEW w \in Worker, Inserts(w), txn[w].fresh = {} PROVE stored' = stored
    BY <1>5 DEF Inserts, IInv, TypeOK
  <1> QED
    BY <1>3, <1>4, <1>5, StoredChanges

\* The ledgers start empty.
LEMMA LedgerInit ==
    ASSUME IInv, Init
    PROVE  Ledger!Init
  <1>1. Acked = {}
    BY DEF Init, Acked
  <1>2. ASSUME NEW d \in Device PROVE Log(d) = << >>
    <2>1. SeqsOf(d) = {}
      BY OpAssumption DEF Init, SeqsOf
    <2>2. LastSeq(d) = 0
      <3>1. LastSeq(d) \in Nat /\ 1..LastSeq(d) = {}
        BY <2>1 DEF IInv, Contiguous, LedgerContiguous
      <3> QED
        BY <3>1
    <2> QED
      BY <2>2 DEF Log
  <1> QED
    BY <1>1, <1>2 DEF Ledger!Init

\* For every set of phones, operations, instances and requests, the routes implement the
\* ledger: a batch extends its device's log whole and in order, nothing leaves the log, and
\* only what is in it is acknowledged.
THEOREM Refinement == Spec => ImplementsLedger
  <1>1. IInv /\ Init => Ledger!Init
    BY LedgerInit
  <1>2. IInv => Acked \subseteq Ledger!Recorded /\ Acked \subseteq Op
    BY AckedIsRecorded
  <1>3. /\ IInv /\ IInv' /\ [Next]_vars
        /\ Acked' \subseteq Ledger!Recorded' /\ Acked' \subseteq Op
        => [Ledger!Next]_(Ledger!vars)
    BY LedgerStep
  <1>4. (Acked \subseteq Ledger!Recorded /\ Acked \subseteq Op)'
        => Acked' \subseteq Ledger!Recorded' /\ Acked' \subseteq Op
    OBVIOUS
  <1>5. IInv' /\ IInv /\ [Next]_vars => [Ledger!Next]_(Ledger!vars)
    BY <1>2, <1>3, <1>4, PTL
  <1> QED
    BY <1>1, <1>5, Invariance, PTL DEF Spec, ImplementsLedger, Ledger!Spec
=============================================================================
