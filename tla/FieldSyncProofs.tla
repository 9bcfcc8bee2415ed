----------------------------- MODULE FieldSyncProofs -----------------------------
(***************************************************************************)
(* What the field app takes off its outbox is in the server's log, and     *)
(* where: for any number of phones, operations, media and API instances,   *)
(* whatever the network loses, repeats or delays, whatever is closed,      *)
(* killed, renumbered or superseded.                                       *)
(*                                                                         *)
(* AckedStored, in both builds of the engine, follows an acknowledgement   *)
(* from the write that decides it to the phone that reads it.  A handler   *)
(* about to write knows of every operation of its batch that it is stored  *)
(* or will be (Planned); what it answers, and what it keeps for a replay,  *)
(* names only operations that are stored (Backed); no row of the log is    *)
(* ever deleted, so the answer is as good when it arrives, however late;   *)
(* and the phone marks only what the answer to its own request names.      *)
(*                                                                         *)
(* PhonesContiguous, in both builds, is the contiguous ledger of           *)
(* SurveyServer with these phones as its clients instead of a set of       *)
(* requests: what is about to be inserted continues a sequence the phone   *)
(* had reached (Continued), every letter is a batch its phone really drew  *)
(* (Proper), and what is stored was created and numbered (Base).           *)
(*                                                                         *)
(* AckedPlaced, for the build in which passes and commands take turns and  *)
(* a phone that has superseded nothing, is about numbers: the acknowledged *)
(* operations are where the phone has them.  It rests on the order of the  *)
(* queue (Placed): a batch holds a prefix of it, what the server holds of  *)
(* it is a prefix, and the first number that disagrees with the server     *)
(* makes every batch that holds it be refused; on Turns, what a phone is   *)
(* doing rests on the outbox as it is; and on Settles, the batch awaited   *)
(* is in place once anything acknowledges it.                              *)
(***************************************************************************)
EXTENDS FieldSync, FiniteSetTheorems, WellFoundedInduction, TLAPS

-----------------------------------------------------------------------------
(* The inductive invariant.                                                 *)

\* An acknowledgement names operations that are stored.
Backed(answer) ==
    answer.code = "ack" => \A o \in Op : o \in answer.ops => stored[o] # 0

\* A handler in progress has the five fields of Running.
Filled(t) ==
    t = [pc |-> t.pc, req |-> t.req, read |-> t.read, created |-> t.created,
         fresh |-> t.fresh]

\* What is about to be written with its batch: what it inserts is in the batch, and
\* what it does not is stored.
Planned(t) ==
    t.pc = "write" =>
        /\ \A o \in Op : o \in t.fresh => t.req.body.seqs[o] # 0
        /\ \A o \in Op : t.req.body.seqs[o] # 0 => o \in t.fresh \/ stored[o] # 0

Handles(t) == (t = S!Idle \/ Filled(t)) /\ Planned(t)

ServerInv ==
    /\ txn = [w \in Worker |-> txn[w]]
    /\ \A w \in Worker : Handles(txn[w])
    /\ \A a \in answers : Backed(a.says)
    /\ \A e \in idem : Backed(e.answer)

Inv ==
    /\ ServerInv
    /\ status = [o \in Op |-> status[o]]
    /\ AckedIsStored

-----------------------------------------------------------------------------
(* Steps of the server.                                                     *)

\* What a handler says that is no acknowledgement of its own.
LEMMA PlainBacked == ASSUME NEW code, code # "ack" PROVE Backed(S!Plain(code))
BY DEF Backed, S!Plain

LEMMA StateBacked == ASSUME NEW read PROVE Backed(S!State(read))
BY DEF Backed, S!State

LEMMA ConflictBacked == ASSUME NEW read, NEW d PROVE Backed(S!Conflict(read, d))
BY DEF Backed, S!Conflict

\* A replay is the answer kept, or a refusal.
LEMMA ReplayBacked ==
    ASSUME ServerInv, NEW b, S!Known(b)
    PROVE  Backed(S!Replay(b))
<1>1. S!Kept(b) \in idem
  BY DEF S!Known, S!Kept
<1>2. Backed(S!Kept(b).answer)
  BY <1>1 DEF ServerInv
<1>3. Backed(S!Plain("reused"))
  BY PlainBacked
<1>4. QED
  BY <1>2, <1>3 DEF S!Replay

\* A step that stores nothing, changes one handler at most, and says and keeps
\* nothing but backed answers.
LEMMA Quiet ==
    ASSUME ServerInv, stored' = stored,
           \A a \in answers' : a \in answers \/ Backed(a.says),
           \A e \in idem' : e \in idem \/ Backed(e.answer),
           \/ txn' = txn
           \/ \E w \in Worker : \E t : txn' = [txn EXCEPT ![w] = t] /\ Handles(t)
    PROVE  ServerInv'
<1>1. \A x : Backed(x) => Backed(x)'
  BY DEF Backed
<1>2. \A t : Handles(t) => Handles(t)'
  BY DEF Handles, Filled, Planned, S!Idle
<1>3. /\ txn' = [w \in Worker |-> txn'[w]]
      /\ \A w \in Worker : Handles(txn'[w])
  BY DEF ServerInv
<1>4. \A a \in answers' : Backed(a.says)
  BY DEF ServerInv
<1>5. \A e \in idem' : Backed(e.answer)
  BY DEF ServerInv
<1>6. QED
  BY <1>1, <1>2, <1>3, <1>4, <1>5 DEF ServerInv

LEMMA IdleHandles == Handles(S!Idle)
BY DEF Handles, Planned, S!Idle

\* A handler answers and is done.
LEMMA Replies ==
    ASSUME ServerInv, NEW w \in Worker, NEW r, NEW x, Backed(x), S!Reply(w, r, x),
           stored' = stored, \A e \in idem' : e \in idem \/ Backed(e.answer)
    PROVE  ServerInv'
<1>1. txn' = [txn EXCEPT ![w] = S!Idle] /\ Handles(S!Idle)
  BY IdleHandles DEF S!Reply
<1>2. \A a \in answers' : a \in answers \/ Backed(a.says)
  BY DEF S!Reply
<1>3. QED
  BY <1>1, <1>2, Quiet

\* A handler goes on to a stage that is not the write.
LEMMA Advances ==
    ASSUME ServerInv, NEW w \in Worker, NEW stage, stage # "write",
           txn[w].pc # "idle", S!Advance(w, stage), stored' = stored,
           \A e \in idem' : e \in idem \/ Backed(e.answer)
    PROVE  ServerInv'
<1> DEFINE t == [txn[w] EXCEPT !.pc = stage]
<1>1. Filled(txn[w])
  BY DEF ServerInv, Handles, S!Idle
<1>2. Filled(t) /\ t.pc = stage
  BY <1>1 DEF Filled
<1>3. Handles(t)
  BY <1>2 DEF Handles, Planned
<1>4. txn' = [txn EXCEPT ![w] = t]
  BY DEF S!Advance
<1>5. \A a \in answers' : a \in answers \/ Backed(a.says)
  BY DEF S!Advance
<1> HIDE DEF t
<1>6. QED
  BY <1>3, <1>4, <1>5, Quiet

\* A handler begins.
LEMMA Begins ==
    ASSUME ServerInv, NEW w \in Worker, NEW r, NEW stage, stage # "write", NEW read,
           NEW created, NEW fresh,
           txn' = [txn EXCEPT ![w] = [pc |-> stage, req |-> r, read |-> read,
                                      created |-> created, fresh |-> fresh]],
           answers' = answers, stored' = stored, idem' = idem
    PROVE  ServerInv'
<1> DEFINE t == [pc |-> stage, req |-> r, read |-> read, created |-> created,
                 fresh |-> fresh]
<1>1. Handles(t)
  BY DEF Handles, Filled, Planned
<1> HIDE DEF t
<1>2. txn' = [txn EXCEPT ![w] = t]
  BY DEF t
<1>3. QED
  BY <1>1, <1>2, Quiet

\* A request that reaches an instance.
LEMMA Receives ==
    ASSUME ServerInv, NEW w \in Worker, NEW r, S!Receive(w, r)
    PROVE  ServerInv' /\ stored' = stored
<1>1. stored' = stored /\ idem' = idem
  BY DEF S!Receive, S!SubmitBegin, S!GetSurvey, S!CompleteBegin, S!PresignBegin,
         S!ConfirmBegin, S!dbVars
<1>2. \A x : Backed(x) /\ S!Reply(w, r, x) => ServerInv'
  BY <1>1, Replies
<1>3. \A code : code # "ack" /\ S!Reply(w, r, S!Plain(code)) => ServerInv'
  BY <1>2, PlainBacked
<1>4. \A read : S!Reply(w, r, S!State(read)) => ServerInv'
  BY <1>2, StateBacked
<1>5. \A read, d : S!Reply(w, r, S!Conflict(read, d)) => ServerInv'
  BY <1>2, ConflictBacked
<1>6. S!Known(r.body) /\ S!Reply(w, r, S!Replay(r.body)) => ServerInv'
  BY <1>2, ReplayBacked
<1>7. ASSUME NEW stage, NEW read, stage # "write", S!Begin(w, r, stage, read)
      PROVE  ServerInv'
  <2>1. PICK created, fresh : created = FALSE /\ fresh = {}
    OBVIOUS
  <2>2. /\ txn' = [txn EXCEPT ![w] = [pc |-> stage, req |-> r, read |-> read,
                                      created |-> created, fresh |-> fresh]]
        /\ answers' = answers
    BY <1>7, <2>1 DEF S!Begin
  <2>3. QED
    BY <1>1, <1>7, <2>2, Begins
<1>8. CASE S!SubmitBegin(w, r)
  BY <1>1, <1>3, <1>5, <1>6, <1>7, <1>8 DEF S!SubmitBegin
<1>9. CASE S!GetSurvey(w, r)
  BY <1>1, <1>3, <1>4, <1>9 DEF S!GetSurvey
<1>10. CASE S!CompleteBegin(w, r)
  BY <1>1, <1>3, <1>5, <1>6, <1>7, <1>10 DEF S!CompleteBegin
<1>11. CASE S!PresignBegin(w, r)
  <2>1. CASE txn' = [txn EXCEPT ![w] =
                       [pc |-> "sign", req |-> r, read |-> survey, fresh |-> {},
                        created |-> media[r.body.digest] = "ABSENT"]] /\ answers' = answers
    <3>1. PICK created, fresh, stage :
             created = (media[r.body.digest] = "ABSENT") /\ fresh = {} /\ stage = "sign"
      OBVIOUS
    <3>2. txn' = [txn EXCEPT ![w] = [pc |-> stage, req |-> r, read |-> survey,
                                     created |-> created, fresh |-> fresh]]
      BY <2>1, <3>1
    <3>3. QED
      <4>1. stage # "write"
        BY <3>1
      <4>2. stored' = stored /\ idem' = idem /\ answers' = answers
        BY <1>1, <2>1
      <4>3. QED
        BY <3>2, <4>1, <4>2, Begins
  <2>2. QED
    BY <1>1, <1>3, <1>6, <1>11, <2>1 DEF S!PresignBegin
<1>12. CASE S!ConfirmBegin(w, r)
  BY <1>1, <1>3, <1>4, <1>7, <1>12 DEF S!ConfirmBegin
<1>13. QED
  BY <1>8, <1>9, <1>10, <1>11, <1>12 DEF S!Receive

\* The fields a handler rewrites leave it filled.
LEMMA Refilled ==
    ASSUME NEW x, Filled(x), NEW pc, NEW fresh
    PROVE  [x EXCEPT !.pc = pc, !.fresh = fresh] =
           [pc |-> pc, req |-> x.req, read |-> x.read, created |-> x.created, fresh |-> fresh]
<1>1. PICK req, old, read, created, fresh0 :
         /\ req = x.req /\ old = x.pc /\ read = x.read /\ created = x.created
         /\ fresh0 = x.fresh
  OBVIOUS
<1>2. x = [pc |-> old, req |-> req, read |-> read, created |-> created, fresh |-> fresh0]
  BY <1>1 DEF Filled
<1>3. [x EXCEPT !.pc = pc] =
      [pc |-> pc, req |-> req, read |-> read, created |-> created, fresh |-> fresh0]
  BY <1>2
<1>4. PICK y : y = [pc |-> pc, req |-> req, read |-> read, created |-> created,
                    fresh |-> fresh0]
  OBVIOUS
<1>5. [y EXCEPT !.fresh = fresh] =
      [pc |-> pc, req |-> req, read |-> read, created |-> created, fresh |-> fresh]
  BY <1>4
<1>6. [x EXCEPT !.pc = pc, !.fresh = fresh] = [y EXCEPT !.fresh = fresh]
  BY <1>3, <1>4
<1>7. QED
  BY <1>1, <1>5, <1>6

\* The handler that has inserted the row of the survey.
Founded(x, created, read) ==
    [x EXCEPT !.pc = "compare", !.created = created, !.read = read]

LEMMA Refounded ==
    ASSUME NEW x, Filled(x), NEW created, NEW read
    PROVE  Filled(Founded(x, created, read)) /\ Founded(x, created, read).pc = "compare"
<1> DEFINE pc == "compare"
<1>1. PICK req, old, read0, created0, fresh :
         /\ req = x.req /\ old = x.pc /\ read0 = x.read /\ created0 = x.created
         /\ fresh = x.fresh
  OBVIOUS
<1>2. x = [pc |-> old, req |-> req, read |-> read0, created |-> created0, fresh |-> fresh]
  BY <1>1 DEF Filled
<1>3. [x EXCEPT !.pc = pc] =
      [pc |-> pc, req |-> req, read |-> read0, created |-> created0, fresh |-> fresh]
  BY <1>2
<1>4. PICK y : y = [pc |-> pc, req |-> req, read |-> read0, created |-> created0,
                    fresh |-> fresh]
  OBVIOUS
<1>5. [y EXCEPT !.created = created] =
      [pc |-> pc, req |-> req, read |-> read0, created |-> created, fresh |-> fresh]
  BY <1>4
<1>6. PICK z : z = [pc |-> pc, req |-> req, read |-> read0, created |-> created,
                    fresh |-> fresh]
  OBVIOUS
<1>7. [z EXCEPT !.read = read] =
      [pc |-> pc, req |-> req, read |-> read, created |-> created, fresh |-> fresh]
  BY <1>6
<1>8. y = [x EXCEPT !.pc = pc] /\ z = [y EXCEPT !.created = created]
  BY <1>3, <1>4, <1>5, <1>6
<1>9. Founded(x, created, read) = [z EXCEPT !.read = read]
  BY <1>8 DEF Founded
<1>10. QED
  BY <1>7, <1>9 DEF Filled

\* The comparison plans the write: what is new will be inserted, the rest is stored.
LEMMA Compares ==
    ASSUME ServerInv, NEW w \in Worker, S!SubmitCompare(w)
    PROVE  ServerInv' /\ stored' = stored
<1>1. stored' = stored /\ idem' = idem /\ txn[w].pc = "compare"
  BY DEF S!SubmitCompare, S!dbVars, S!At
<1>2. Filled(txn[w])
  BY <1>1 DEF ServerInv, Handles, S!Idle
<1> DEFINE fresh == S!Unseen(txn[w].req.body)
           t == [txn[w] EXCEPT !.pc = "write", !.fresh = fresh]
<1>3. CASE txn' = [txn EXCEPT ![w].pc = "write", ![w].fresh = fresh] /\ answers' = answers
  <2>1. Filled(t) /\ t.pc = "write" /\ t.fresh = fresh /\ t.req = txn[w].req
    <3>1. t = [pc |-> "write", req |-> txn[w].req, read |-> txn[w].read,
               created |-> txn[w].created, fresh |-> fresh]
      BY <1>2, Refilled
    <3> HIDE DEF t, fresh
    <3>2. QED
      BY <3>1 DEF Filled
  <2>2. \A o \in Op : o \in fresh <=> txn[w].req.body.seqs[o] # 0 /\ stored[o] = 0
    BY DEF S!Unseen, S!Ops
  <2>3. Handles(t)
    BY <2>1, <2>2 DEF Handles, Planned
  <2>4. txn' = [txn EXCEPT ![w] = t]
    BY <1>3
  <2> HIDE DEF t, fresh
  <2>5. QED
    BY <1>1, <1>3, <2>3, <2>4, Quiet
<1>4. CASE S!Reply(w, txn[w].req, S!Conflict(txn[w].read, txn[w].req.body.dev))
  BY <1>1, <1>4, ConflictBacked, Replies
<1>5. QED
  BY <1>1, <1>3, <1>4 DEF S!SubmitCompare

\* The write stores what its acknowledgement names, and takes no row away.
LEMMA Writes ==
    ASSUME ServerInv, NEW w \in Worker, S!SubmitWrite(w)
    PROVE  ServerInv' /\ \A o \in Op : stored[o] # 0 => stored'[o] # 0
<1> DEFINE t == txn[w]
           b == t.req.body
<1>1. t.pc = "write"
  BY DEF S!SubmitWrite, S!At
<1>2. /\ \A o \in Op : o \in t.fresh => b.seqs[o] # 0
      /\ \A o \in Op : b.seqs[o] # 0 => o \in t.fresh \/ stored[o] # 0
  BY <1>1 DEF ServerInv, Handles, Planned
<1>3. CASE UNCHANGED S!dbVars /\ \E code \in {"race", "failed"} : S!Reply(w, t.req, S!Plain(code))
  <2>1. stored' = stored /\ idem' = idem
    BY <1>3 DEF S!dbVars
  <2>2. QED
    BY <1>3, <2>1, PlainBacked, Replies
<1>4. CASE /\ stored' = [o \in Op |-> IF o \in t.fresh THEN b.seqs[o] ELSE stored[o]]
           /\ S!Keep(t.req, S!Ack(t))
           /\ S!Reply(w, t.req, S!Ack(t))
  <2>1. \A o \in Op : stored[o] # 0 => stored'[o] # 0
    BY <1>2, <1>4
  <2>2. \A o \in Op : o \in S!Ack(t).ops => stored'[o] # 0
    BY <1>2, <1>4 DEF S!Ack, S!Ops
  <2>3. PICK ack : ack = S!Ack(t)
    OBVIOUS
  <2>4. Backed(ack)'
    BY <2>2, <2>3 DEF Backed
  <2>5. \A x : Backed(x) => Backed(x)'
    BY <2>1 DEF Backed
  <2>6. \A x : Handles(x) => Handles(x)'
    BY <2>1 DEF Handles, Filled, Planned, S!Idle
  <2>7. /\ txn' = [txn EXCEPT ![w] = S!Idle]
        /\ answers' = answers \cup {[req |-> t.req, says |-> ack]}
        /\ idem' = idem \cup {[body |-> b, answer |-> ack]}
    BY <1>4, <2>3 DEF S!Reply, S!Keep
  <2>8. \A a \in answers' : Backed(a.says)'
    BY <2>4, <2>5, <2>7 DEF ServerInv
  <2>9. \A e \in idem' : Backed(e.answer)'
    BY <2>4, <2>5, <2>7 DEF ServerInv
  <2>10. /\ txn' = [v \in Worker |-> txn'[v]]
         /\ \A v \in Worker : Handles(txn'[v])
    BY <2>7, IdleHandles DEF ServerInv
  <2>11. QED
    BY <2>1, <2>6, <2>8, <2>9, <2>10 DEF ServerInv
<1>5. QED
  BY <1>3, <1>4 DEF S!SubmitWrite

\* A handler goes on.
LEMMA GoesOn ==
    ASSUME ServerInv, NEW w \in Worker, S!Continue(w)
    PROVE  ServerInv' /\ \A o \in Op : stored[o] # 0 => stored'[o] # 0
<1> USE DEF S!At
<1>1. CASE S!SubmitCreate(w)
  <2>1. stored' = stored /\ idem' = idem /\ txn[w].pc = "create"
    BY <1>1 DEF S!SubmitCreate, S!dbVars
  <2>2. Filled(txn[w])
    BY <2>1 DEF ServerInv, Handles, S!Idle
  <2>3. PICK read, created :
           /\ read = [status |-> "OPEN", version |-> 1,
                      content |-> txn[w].req.body.content]
           /\ created = TRUE
    OBVIOUS
  <2> DEFINE t == Founded(txn[w], created, read)
  <2>4. CASE txn' = [txn EXCEPT ![w] = t] /\ answers' = answers
    <3>1. Filled(t) /\ t.pc = "compare"
      BY <2>2, Refounded
    <3>2. Handles(t)
      BY <3>1 DEF Handles, Planned
    <3> HIDE DEF t
    <3>3. QED
      BY <2>1, <2>4, <3>2, Quiet
  <2>5. CASE S!Reply(w, txn[w].req, S!Plain("race"))
    BY <2>1, <2>5, PlainBacked, Replies
  <2>6. QED
    BY <1>1, <2>1, <2>3, <2>4, <2>5 DEF S!SubmitCreate, Founded
<1>2. CASE S!SubmitCompare(w)
  BY <1>2, Compares
<1>3. CASE S!SubmitWrite(w)
  BY <1>3, Writes
<1>4. CASE S!CompleteGate(w)
  <2>1. stored' = stored /\ idem' = idem /\ txn[w].pc = "gate"
    BY <1>4 DEF S!CompleteGate, S!dbVars
  <2>2. QED
    BY <1>4, <2>1, PlainBacked, Replies, Advances DEF S!CompleteGate
<1>5. CASE S!CompleteClose(w)
  <2>1. stored' = stored /\ txn[w].pc = "close"
    BY <1>5 DEF S!CompleteClose
  <2>2. CASE idem' = idem /\ S!Reply(w, txn[w].req, S!Plain("failed"))
    BY <2>1, <2>2, PlainBacked, Replies
  <2>3. CASE S!Keep(txn[w].req, S!Closed(txn[w])) /\ S!Advance(w, "export")
    <3>1. Backed(S!Closed(txn[w]))
      BY StateBacked DEF S!Closed
    <3>2. \A e \in idem' : e \in idem \/ Backed(e.answer)
      BY <2>3, <3>1 DEF S!Keep
    <3>3. QED
      BY <2>1, <2>3, <3>2, Advances
  <2>4. QED
    BY <1>5, <2>1, <2>2, <2>3 DEF S!CompleteClose
<1>6. CASE S!CompletePublish(w)
  <2>1. stored' = stored /\ idem' = idem
    BY <1>6 DEF S!CompletePublish, S!dbVars
  <2>2. Backed(S!Closed(txn[w]))
    BY StateBacked DEF S!Closed
  <2>3. QED
    BY <1>6, <2>1, <2>2, PlainBacked, Replies DEF S!CompletePublish
<1>7. CASE S!PresignSign(w)
  <2>1. stored' = stored
    BY <1>7 DEF S!PresignSign
  <2>2. Backed(S!Plain("failed")) /\ Backed(S!Plain("url"))
    BY PlainBacked
  <2>3. CASE idem' = idem /\ S!Reply(w, txn[w].req, S!Plain("failed"))
    BY <2>1, <2>2, <2>3, Replies
  <2>4. CASE S!Keep(txn[w].req, S!Plain("url")) /\ S!Reply(w, txn[w].req, S!Plain("url"))
    <3>1. \A e \in idem' : e \in idem \/ Backed(e.answer)
      BY <2>2, <2>4 DEF S!Keep
    <3>2. QED
      BY <2>1, <2>2, <2>4, <3>1, Replies
  <2>5. QED
    BY <1>7, <2>1, <2>3, <2>4 DEF S!PresignSign
<1>8. CASE S!ConfirmAccept(w)
  <2>1. stored' = stored /\ idem' = idem /\ txn[w].pc = "accept"
    BY <1>8 DEF S!ConfirmAccept, S!dbVars
  <2>2. QED
    BY <1>8, <2>1, Advances DEF S!ConfirmAccept
<1>9. CASE S!ConfirmPublish(w)
  <2>1. stored' = stored /\ idem' = idem
    BY <1>9 DEF S!ConfirmPublish, S!dbVars
  <2>2. Backed(S!Plain("unavailable")) /\ Backed(S!State(txn[w].read))
    BY PlainBacked, StateBacked
  <2>3. QED
    BY <1>9, <2>1, <2>2, Replies DEF S!ConfirmPublish
<1>10. QED
  BY <1>1, <1>2, <1>3, <1>4, <1>5, <1>6, <1>7, <1>8, <1>9 DEF S!Continue

-----------------------------------------------------------------------------
(* Steps of the phone and of the network.                                   *)

\* A step that neither stores nor answers, and acknowledges nothing.
LEMMA Idles ==
    ASSUME Inv, UNCHANGED <<stored, idem, txn>>, \A a \in answers' : a \in answers,
           status' = [o \in Op |-> status'[o]],
           \A o \in Op : status'[o] = "acked" => status[o] = "acked"
    PROVE  Inv'
<1>1. ServerInv'
  BY Quiet DEF Inv
<1>2. QED
  BY <1>1 DEF Inv, AckedIsStored

\* The phone marks what the answer to its own request names.
LEMMA Marks ==
    ASSUME Inv, NEW d \in Device, SubmitAcked(d)
    PROVE  Inv'
<1>1. PICK a \in answers :
         /\ answers' = answers \ {a}
         /\ a.says.code = "ack"
         /\ status' = [o \in Op |-> IF o \in Acknowledged(a) THEN "acked" ELSE status[o]]
  BY DEF SubmitAcked, Received
<1>2. UNCHANGED <<stored, idem, txn>>
  BY DEF SubmitAcked, serverVars
<1>3. \A o \in Op : o \in Acknowledged(a) => stored[o] # 0
  BY <1>1 DEF Inv, ServerInv, Backed, Acknowledged
<1>4. ServerInv'
  BY <1>1, <1>2, Quiet DEF Inv
<1>5. AckedIsStored'
  BY <1>1, <1>2, <1>3 DEF Inv, AckedIsStored
<1>6. QED
  BY <1>1, <1>4, <1>5 DEF Inv

\* The server goes on and the phones do not.
LEMMA Serves ==
    ASSUME Inv, ServerInv', status' = status,
           \A o \in Op : stored[o] # 0 => stored'[o] # 0
    PROVE  Inv'
BY DEF Inv, AckedIsStored

\* Every step of the composition keeps the invariant.
LEMMA InvNext == ASSUME Inv, [Next]_vars PROVE Inv'
<1> USE DEF serverVars, outboxVars, stateVars, S!dbVars, S!mediaVars, S!queueVars
<1>1. ASSUME UNCHANGED <<stored, idem, txn>>, \A a \in answers' : a \in answers,
             status' = status
      PROVE  Inv'
  BY <1>1, Idles DEF Inv
<1>3. ASSUME NEW d \in Device, Command(d) \/ SaveCommand(d) \/ SyncSurvey(d) \/ ResolveConflict(d)
      PROVE  Inv'
  <2>1. CASE Command(d)
    BY <1>1, <2>1 DEF Command, Collect, ConcludeSurvey, UndoLast, Apply
  <2>2. CASE SaveCommand(d)
    <3>1. UNCHANGED <<stored, idem, txn>> /\ answers' = answers
      BY <2>2 DEF SaveCommand
    <3>2. status' = [status EXCEPT ![NewOp(d)] = "local"]
      BY <2>2 DEF SaveCommand
    <3>3. /\ status' = [o \in Op |-> status'[o]]
          /\ \A o \in Op : status'[o] = "acked" => status[o] = "acked"
      BY <3>2 DEF Inv
    <3>4. QED
      BY <3>1, <3>3, Idles
  <2>3. CASE SyncSurvey(d)
    BY <1>1, <2>3 DEF SyncSurvey, BeginPass
  <2>4. CASE ResolveConflict(d)
    BY <1>1, <2>4 DEF ResolveConflict
  <2>5. QED
    BY <1>3, <2>1, <2>2, <2>3, <2>4
<1>4. ASSUME NEW d \in Device, Engine(d)
      PROVE  Inv'
  <2>1. CASE KeepLocal(d)
    <3>1. UNCHANGED <<stored, idem, txn>> /\ answers' = answers
      BY <2>1 DEF KeepLocal
    <3>2. status' = [o \in Op |-> IF o \in engine[d].pending \cup {NewOp(d)}
                                  THEN "local" ELSE status[o]]
      BY <2>1 DEF KeepLocal
    <3>3. QED
      BY <3>1, <3>2, Idles
  <2>2. CASE AcceptServer(d)
    <3>1. UNCHANGED <<stored, idem, txn>> /\ answers' = answers
      BY <2>2 DEF AcceptServer
    <3>2. status' = [o \in Op |-> IF o = NewOp(d) THEN "local"
                                  ELSE IF o \in engine[d].abandoned THEN "superseded"
                                  ELSE status[o]]
      BY <2>2 DEF AcceptServer
    <3>3. QED
      BY <3>1, <3>2, Idles
  <2>3. CASE SyncDecision(d)
    BY <1>1, <2>3 DEF SyncDecision, BeginPass
  <2>4. CASE SendBatch(d)
    <3>1. UNCHANGED <<stored, idem, txn>> /\ answers' = answers
      BY <2>4 DEF SendBatch
    <3>2. status' = status \/ status' = [o \in Op |-> IF o \in Pending(d) THEN "pending"
                                                     ELSE status[o]]
      BY <2>4 DEF SendBatch
    <3>3. QED
      BY <1>1, <3>1, <3>2, Idles
  <2>5. CASE SubmitAcked(d)
    BY <2>5, Marks
  <2>6. CASE Conflicted(d)
    BY <1>1, <2>6 DEF Conflicted, Received
  <2>7. CASE Refused(d)
    BY <1>1, <2>7 DEF Refused, Received
  <2>8. CASE StateRead(d)
    BY <1>1, <2>8 DEF StateRead, Received
  <2>9. CASE SurveyCompleted(d)
    BY <1>1, <2>9 DEF SurveyCompleted, Received
  <2>10. CASE TransientAnswer(d)
    BY <1>1, <2>10 DEF TransientAnswer, Received
  <2>11. CASE Presigned(d)
    BY <1>1, <2>11 DEF Presigned, Received
  <2>12. CASE Upload(d)
    BY <1>1, <2>12 DEF Upload, S!PutObject
  <2>13. CASE UploadRefused(d)
    BY <1>1, <2>13 DEF UploadRefused
  <2>14. CASE MediaConfirmed(d)
    BY <1>1, <2>14 DEF MediaConfirmed, Received
  <2>15. CASE MediaRefused(d)
    BY <1>1, <2>15 DEF MediaRefused, Received
  <2>16. QED
    BY <1>4, <2>1, <2>2, <2>3, <2>4, <2>5, <2>6, <2>7, <2>8, <2>9, <2>10, <2>11, <2>12,
       <2>13, <2>14, <2>15 DEF Engine
<1>5. ASSUME NEW d \in Device, Fault(d)
      PROVE  Inv'
  <2>1. CASE NoToken(d)
    BY <1>1, <2>1 DEF NoToken
  <2>2. CASE NetworkError(d)
    BY <1>1, <2>2 DEF NetworkError
  <2>3. CASE Unauthorized(d)
    BY <1>1, <2>3 DEF Unauthorized
  <2>4. CASE AppClosed(d)
    BY <1>1, <2>4 DEF AppClosed
  <2>5. QED
    BY <1>5, <2>1, <2>2, <2>3, <2>4 DEF Fault
<1>6. ASSUME NEW w \in Worker, NEW r, Deliver(w, r)
      PROVE  Inv'
  BY <1>6, Receives, Serves DEF Deliver, Inv
<1>7. ASSUME NEW w \in Worker, Serve(w)
      PROVE  Inv'
  BY <1>7, GoesOn, Serves DEF Serve, Inv
<1>8. ASSUME NEW w \in Worker, ServerCrash(w)
      PROVE  Inv'
  <2>1. stored' = stored /\ idem' = idem /\ answers' = answers /\ status' = status
    BY <1>8 DEF ServerCrash, S!Crash
  <2>2. txn' = [txn EXCEPT ![w] = S!Idle] /\ Handles(S!Idle)
    BY <1>8, IdleHandles DEF ServerCrash, S!Crash
  <2>3. ServerInv'
    BY <2>1, <2>2, Quiet DEF Inv
  <2>4. QED
    BY <2>1, <2>3, Serves
<1>9. ASSUME NEW g \in Digest, UrlExpires(g)
      PROVE  Inv'
  BY <1>1, <1>9 DEF UrlExpires, S!UrlExpires
<1>10. CASE DropAnswer
  BY <1>1, <1>10 DEF DropAnswer
<1>11. CASE UNCHANGED vars
  BY <1>1, <1>11 DEF vars
<1>12. QED
  BY <1>3, <1>4, <1>5, <1>6, <1>7, <1>8, <1>9, <1>10, <1>11 DEF Next

LEMMA InvInit == ASSUME Init PROVE Inv
<1>1. /\ txn = [w \in Worker |-> S!Idle]
      /\ answers = {} /\ idem = {}
      /\ status = [o \in Op |-> "unborn"]
  BY DEF Init, S!Init
<1>2. ServerInv
  BY <1>1, IdleHandles DEF ServerInv
<1>3. QED
  BY <1>1, <1>2 DEF Inv, AckedIsStored

\* What a phone believes acknowledged is in the server's log (runSync takes it off the
\* outbox for good): in both builds, through lost, late and repeated requests, restarts
\* of the app and of the API, and both decisions of prancha 6b.
THEOREM AckedStored == Spec => []AckedIsStored
<1>1. Inv => AckedIsStored
  BY DEF Inv
<1>2. QED
  BY InvInit, InvNext, <1>1, PTL DEF Spec

-----------------------------------------------------------------------------
(* The order of a phone's queue: its pending operations P, the acknowledged A, the *)
(* numbers q the phone gave them, the positions s the server did, and the batches B *)
(* of that phone not yet forgotten.                                          *)

Top(P, q, p) == \A r \in P : q[r] <= q[p]

\* Every batch that carries the operation carries it under its present number.
Fixed(q, B, p) == \A b \in B : b.seqs[p] # 0 => b.seqs[p] = q[p]

\* An operation with no successor, numbered below something acknowledged: it can
\* never be written where it is.
Gap(A, q, s, B, p) ==
    /\ s[p] = 0
    /\ \E a \in A : q[p] <= q[a]
    /\ Fixed(q, B, p)

Distinct(P, q) == \A p, r \in P : q[p] = q[r] => p = r

\* The server holds a prefix of the queue, in the order of the queue.
Stacked(P, q, s) ==
    \A p, r \in P : q[p] < q[r] /\ s[r] # 0 => s[p] # 0 /\ s[p] < s[r]

Above(P, A, s) == \A a \in A, p \in P : s[p] # 0 => s[a] < s[p]

InPlace(A, q, s) == \A a \in A : s[a] # 0 /\ s[a] = q[a]

\* A batch that carries an operation carries what precedes it in the queue, before it.
Nested(P, q, B) ==
    \A b \in B : \A p, r \in P :
        b.seqs[p] # 0 /\ q[r] < q[p] => b.seqs[r] # 0 /\ b.seqs[r] < b.seqs[p]

Anchored(P, q, s, B) ==
    \A p \in P : Top(P, q, p) => Fixed(q, B, p) /\ (s[p] # 0 => s[p] = q[p])

Linked(P, A, q, s, B) ==
    \A p \in P : \/ Top(P, q, p)
                 \/ \E r \in P : q[r] = q[p] + 1
                 \/ Gap(A, q, s, B, p)

Placed(P, A, q, s, B) ==
    /\ Distinct(P, q)
    /\ Stacked(P, q, s)
    /\ Above(P, A, s)
    /\ InPlace(A, q, s)
    /\ Nested(P, q, B)
    /\ Anchored(P, q, s, B)
    /\ Linked(P, A, q, s, B)

\* What the queue is made of.
Queue(P, A, q, s, B) ==
    /\ P \subseteq Op /\ A \subseteq Op
    /\ \A o \in Op : q[o] \in Nat /\ s[o] \in Nat
    /\ \A b \in B : \A o \in Op : b.seqs[o] \in Nat

-----------------------------------------------------------------------------
(* What the steps do to the order.                                           *)

\* Fewer batches, and nothing else.
LEMMA PlacedFewer ==
    ASSUME NEW P, NEW A, NEW q, NEW s, NEW B, Placed(P, A, q, s, B),
           P \subseteq Op, A \subseteq Op, NEW q2, NEW s2, NEW B2, B2 \subseteq B,
           \A o \in P \cup A : q2[o] = q[o] /\ s2[o] = s[o]
    PROVE  Placed(P, A, q2, s2, B2)
<1> USE DEF Placed
<1>1. \A p \in P : Top(P, q2, p) <=> Top(P, q, p)
  BY DEF Top
<1>2. \A p \in P : Fixed(q, B, p) => Fixed(q2, B2, p)
  BY DEF Fixed
<1>3. \A p \in P : Gap(A, q, s, B, p) => Gap(A, q2, s2, B2, p)
  BY <1>2 DEF Gap
<1>4. Distinct(P, q2) /\ Stacked(P, q2, s2) /\ Above(P, A, s2) /\ InPlace(A, q2, s2)
  BY DEF Distinct, Stacked, Above, InPlace
<1>5. Nested(P, q2, B2)
  BY DEF Nested
<1>6. Anchored(P, q2, s2, B2)
  BY <1>1, <1>2 DEF Anchored
<1>7. Linked(P, A, q2, s2, B2)
  BY <1>1, <1>3 DEF Linked
<1>8. QED
  BY <1>4, <1>5, <1>6, <1>7

\* A new operation at the end of the queue, above everything live.
LEMMA PlacedSaved ==
    ASSUME NEW P, NEW A, NEW q, NEW s, NEW B, Placed(P, A, q, s, B), Queue(P, A, q, s, B),
           NEW o \in Op, o \notin P \cup A, s[o] = 0, \A b \in B : b.seqs[o] = 0,
           NEW q2, \A x \in P \cup A : q2[x] = q[x],
           NEW m \in Nat, q2[o] = m + 1, \A x \in P \cup A : q[x] <= m,
           m # 0 => \E x \in P \cup A : q[x] = m,
           \A x \in P : q[x] # 0
    PROVE  Placed(P \cup {o}, A, q2, s, B)
<1> USE DEF Placed
<1> DEFINE P2 == P \cup {o}
<1>1. Top(P2, q2, o) /\ \A p \in P : ~Top(P2, q2, p)
  BY DEF Top, Queue
<1>2. Fixed(q2, B, o) /\ \A p \in P : Fixed(q, B, p) => Fixed(q2, B, p)
  BY DEF Fixed
<1>3. Distinct(P2, q2)
  BY DEF Distinct, Queue
<1>4. Stacked(P2, q2, s)
  BY DEF Stacked, Queue
<1>5. Above(P2, A, s) /\ InPlace(A, q2, s)
  BY DEF Above, InPlace
<1>6. Nested(P2, q2, B)
  BY DEF Nested, Queue
<1>7. Anchored(P2, q2, s, B)
  BY <1>1, <1>2 DEF Anchored
<1>8. ASSUME NEW p \in P PROVE (\E r \in P2 : q2[r] = q2[p] + 1) \/ Gap(A, q2, s, B, p)
  <2>1. CASE Top(P, q, p)
    <3>1. CASE q[p] = m
      BY <3>1
    <3>2. CASE q[p] # m
      <4>1. q[p] <= m /\ m # 0 /\ q[p] \in Nat
        BY <3>2 DEF Queue
      <4>2. PICK a \in P \cup A : q[a] = m
        BY <4>1
      <4>3. a \in A /\ q[p] < q[a]
        BY <2>1, <3>2, <4>1, <4>2 DEF Top, Queue
      <4>4. Fixed(q, B, p) /\ (s[p] # 0 => s[p] = q[p])
        BY <2>1 DEF Anchored
      <4>5. s[p] = 0
        <5>1. s[a] = q[a]
          BY <4>3 DEF InPlace
        <5>2. s[p] # 0 => s[a] < s[p]
          BY <4>3 DEF Above
        <5>3. s[p] \in Nat /\ q[p] \in Nat /\ q[a] \in Nat /\ s[a] \in Nat
          BY <4>3 DEF Queue
        <5>4. QED
          BY <4>3, <4>4, <5>1, <5>2, <5>3
      <4>6. q2[p] <= q2[a]
        BY <4>1, <4>2, <4>3
      <4>7. QED
        BY <1>2, <4>3, <4>4, <4>5, <4>6 DEF Gap
    <3>3. QED
      BY <3>1, <3>2
  <2>2. CASE \E r \in P : q[r] = q[p] + 1
    BY <2>2
  <2>3. CASE Gap(A, q, s, B, p)
    BY <1>2, <2>3 DEF Gap
  <2>4. QED
    BY <2>1, <2>2, <2>3 DEF Linked
<1>9. Linked(P2, A, q2, s, B)
  BY <1>1, <1>8 DEF Linked
<1>10. QED
  BY <1>3, <1>4, <1>5, <1>6, <1>7, <1>9

\* The queue is sent as it stands.
LEMMA PlacedSent ==
    ASSUME NEW P, NEW A, NEW q, NEW s, NEW B, Placed(P, A, q, s, B), Queue(P, A, q, s, B),
           NEW c, \A o \in P : c.seqs[o] = q[o] /\ q[o] # 0, NEW B2, \A b \in B2 : b \in B \/ b = c
    PROVE  Placed(P, A, q, s, B2)
<1> USE DEF Placed
<1>1. \A p \in P : Fixed(q, B, p) => Fixed(q, B2, p)
  BY DEF Fixed
<1>2. \A p \in P : Gap(A, q, s, B, p) => Gap(A, q, s, B2, p)
  BY <1>1 DEF Gap
<1>3. Nested(P, q, B2)
  BY DEF Nested
<1>4. Anchored(P, q, s, B2)
  BY <1>1 DEF Anchored
<1>5. Linked(P, A, q, s, B2)
  BY <1>2 DEF Linked
<1>6. QED
  BY <1>3, <1>4, <1>5

\* A batch of the phone is written: F of its operations, after everything stored.
LEMMA PlacedWritten ==
    ASSUME NEW P, NEW A, NEW q, NEW s, NEW B, Placed(P, A, q, s, B), Queue(P, A, q, s, B),
           NEW b \in B, NEW F, NEW L \in Nat, \A o \in P \cup A : s[o] <= L,
           \A o \in P \cup A : o \in F => s[o] = 0 /\ b.seqs[o] # 0 /\ b.seqs[o] > L,
           \A o \in P \cup A : b.seqs[o] # 0 => o \in F \/ s[o] # 0,
           NEW s2, \A o \in P \cup A : s2[o] = IF o \in F THEN b.seqs[o] ELSE s[o],
           NEW B2, B2 \subseteq B
    PROVE  Placed(P, A, q, s2, B2)
<1> USE DEF Placed
<1>1. \A a \in A : s2[a] = s[a]
  BY DEF InPlace
<1>2. \A p \in P : s[p] # 0 => s2[p] = s[p]
  OBVIOUS
<1>3. \A p \in P : Fixed(q, B, p) => Fixed(q, B2, p)
  BY DEF Fixed
<1>4. Stacked(P, q, s2)
  <2>1. SUFFICES ASSUME NEW p \in P, NEW r \in P, q[p] < q[r], s2[r] # 0
                 PROVE  s2[p] # 0 /\ s2[p] < s2[r]
    BY DEF Stacked
  <2>2. /\ s[p] \in Nat /\ s[r] \in Nat /\ b.seqs[p] \in Nat /\ b.seqs[r] \in Nat
        /\ s[p] <= L /\ s[r] <= L
    BY DEF Queue
  <2>3. CASE r \in F
    <3>1. s2[r] = b.seqs[r] /\ b.seqs[r] > L
      BY <2>3
    <3>2. b.seqs[p] # 0 /\ b.seqs[p] < b.seqs[r]
      BY <2>1, <2>3 DEF Nested
    <3>3. p \in F \/ s[p] # 0
      BY <3>2
    <3>4. CASE p \in F
      BY <3>1, <3>2, <3>4
    <3>5. CASE p \notin F
      BY <2>2, <3>1, <3>3, <3>5
    <3>6. QED
      BY <3>4, <3>5
  <2>4. CASE r \notin F
    <3>1. s2[r] = s[r] /\ s[r] # 0
      BY <2>1, <2>4
    <3>2. s[p] # 0 /\ s[p] < s[r]
      BY <2>1, <3>1 DEF Stacked
    <3>3. QED
      BY <1>2, <3>1, <3>2
  <2>5. QED
    BY <2>3, <2>4
<1>5. Above(P, A, s2)
  <2>1. SUFFICES ASSUME NEW a \in A, NEW p \in P, s2[p] # 0 PROVE s2[a] < s2[p]
    BY DEF Above
  <2>2. /\ s[p] \in Nat /\ s[a] \in Nat /\ b.seqs[p] \in Nat
        /\ s[p] <= L /\ s[a] <= L /\ s2[a] = s[a]
    BY <1>1 DEF Queue
  <2>3. CASE p \in F
    BY <2>2, <2>3
  <2>4. CASE p \notin F
    BY <2>1, <2>2, <2>4 DEF Above
  <2>5. QED
    BY <2>3, <2>4
<1>6. InPlace(A, q, s2)
  BY <1>1 DEF InPlace
<1>7. Nested(P, q, B2)
  BY DEF Nested
<1>8. Anchored(P, q, s2, B2)
  <2>1. ASSUME NEW p \in P, Fixed(q, B, p), s[p] # 0 => s[p] = q[p], s2[p] # 0
        PROVE  s2[p] = q[p]
    BY <2>1 DEF Fixed
  <2>2. QED
    BY <1>3, <2>1 DEF Anchored
<1>9. \A p \in P : Gap(A, q, s, B, p) => Gap(A, q, s2, B2, p)
  <2>1. SUFFICES ASSUME NEW p \in P, Gap(A, q, s, B, p) PROVE s2[p] = 0
    BY <1>3 DEF Gap
  <2>2. PICK a \in A : q[p] <= q[a]
    BY <2>1 DEF Gap
  <2>3. s[a] = q[a] /\ s[a] <= L
    BY DEF InPlace
  <2>4. CASE p \in F
    <3>1. b.seqs[p] = q[p] /\ b.seqs[p] > L
      BY <2>1, <2>4 DEF Gap, Fixed
    <3>2. q[p] \in Nat /\ q[a] \in Nat
      BY DEF Queue
    <3>3. QED
      BY <2>2, <2>3, <3>1, <3>2
  <2>5. QED
    BY <2>1, <2>4 DEF Gap
<1>10. Linked(P, A, q, s2, B2)
  BY <1>9 DEF Linked
<1>11. QED
  BY <1>4, <1>5, <1>6, <1>7, <1>8, <1>10

\* The queue is renumbered in its order, and a decision closes it.
Renumbered(P, A, s, B, q, o, n, last, place, q2) ==
    /\ o \in Op /\ o \notin P \cup A /\ s[o] = 0 /\ \A b \in B : b.seqs[o] = 0
    /\ n \in Nat /\ last \in Nat /\ place \in [P -> 1..n]
    /\ \A k \in 1..n : \E p \in P : place[p] = k
    /\ \A p, r \in P : /\ place[p] = place[r] => p = r
                       /\ q[p] < q[r] => place[p] < place[r]
    /\ \A p \in P : q2[p] = last + place[p]
    /\ q2[o] = last + 1 + n
    /\ \A a \in A : q2[a] = q[a] /\ a \notin P

LEMMA PlacedRenumbered ==
    ASSUME NEW P, NEW A, NEW q, NEW s, NEW B, Placed(P, A, q, s, B), Queue(P, A, q, s, B),
           NEW o, NEW n, NEW last, NEW place, NEW q2,
           Renumbered(P, A, s, B, q, o, n, last, place, q2)
    PROVE  Placed(P \cup {o}, A, q2, s, B)
<1> USE DEF Placed, Renumbered
<1> DEFINE P2 == P \cup {o}
<1>1. \A p \in P : place[p] \in 1..n /\ q[p] \in Nat
  BY DEF Queue
<1>2. \A p \in P : q2[p] < q2[o]
  BY <1>1
<1>3. \A p, r \in P : q2[p] < q2[r] => q[p] < q[r]
  <2>1. SUFFICES ASSUME NEW p \in P, NEW r \in P, q2[p] < q2[r] PROVE q[p] < q[r]
    OBVIOUS
  <2>2. place[p] < place[r]
    BY <1>1, <2>1
  <2>3. ~(q[r] < q[p])
    BY <1>1, <2>2
  <2>4. q[r] # q[p]
    BY <1>1, <2>2 DEF Distinct
  <2>5. QED
    BY <1>1, <2>3, <2>4
<1>4. Top(P2, q2, o) /\ \A p \in P : ~Top(P2, q2, p)
  <2>1. q2[o] \in Nat /\ \A p \in P : q2[p] \in Nat
    BY <1>1
  <2>2. QED
    BY <1>2, <2>1 DEF Top
<1>5. Distinct(P2, q2)
  <2>1. \A p, r \in P : q2[p] = q2[r] => p = r
    BY <1>1
  <2>2. \A p \in P : q2[p] # q2[o]
    BY <1>1
  <2>3. QED
    BY <2>1, <2>2 DEF Distinct
<1>6. Stacked(P2, q2, s)
  <2>1. ~\E r \in P2 : q2[o] < q2[r]
    BY <1>1, <1>2
  <2>2. QED
    BY <1>3, <2>1 DEF Stacked
<1>7. Above(P2, A, s) /\ InPlace(A, q2, s)
  BY DEF Above, InPlace
<1>8. Nested(P2, q2, B)
  <2>1. \A p \in P : ~(q2[o] < q2[p])
    BY <1>1
  <2>2. QED
    BY <1>3, <2>1 DEF Nested
<1>9. Anchored(P2, q2, s, B)
  BY <1>4 DEF Anchored, Fixed
<1>10. ASSUME NEW p \in P PROVE \E r \in P2 : q2[r] = q2[p] + 1
  <2>1. CASE place[p] = n
    BY <2>1
  <2>2. CASE place[p] # n
    <3>1. place[p] + 1 \in 1..n
      BY <1>1, <2>2
    <3>2. PICK r \in P : place[r] = place[p] + 1
      BY <3>1
    <3>3. QED
      BY <1>1, <3>2
  <2>3. QED
    BY <2>1, <2>2
<1>11. Linked(P2, A, q2, s, B)
  BY <1>4, <1>10 DEF Linked
<1>12. QED
  BY <1>5, <1>6, <1>7, <1>8, <1>9, <1>11

\* One operation alone, in no batch.
LEMMA PlacedAlone ==
    ASSUME NEW A, NEW q, NEW s, NEW B, InPlace(A, q, s), NEW o, s[o] = 0, q[o] \in Nat,
           \A b \in B : b.seqs[o] = 0
    PROVE  Placed({o}, A, q, s, B)
<1>1. Top({o}, q, o) /\ ~(q[o] < q[o])
  BY DEF Top
<1>2. QED
  BY <1>1 DEF Placed, Distinct, Stacked, Above, Nested, Anchored, Linked, Fixed

\* Nothing pending.
LEMMA PlacedNone ==
    ASSUME NEW A, NEW q, NEW s, NEW B, InPlace(A, q, s)
    PROVE  Placed({}, A, q, s, B)
BY DEF Placed, Distinct, Stacked, Above, Nested, Anchored, Linked

\* A set of naturals that has an element has a least one.
LEMMA LeastOf ==
    ASSUME NEW N \in SUBSET Nat, N # {}
    PROVE  \E x \in N : \A y \in N : x <= y
<1> DEFINE R == {ss \in Nat \X Nat : ss[1] < ss[2]}
<1>1. IsWellFoundedOn(R, Nat)
  BY NatLessThanWellFounded DEF OpToRel
<1>2. PICK x \in N : \A y \in N : <<y, x>> \notin R
  <2> HIDE DEF R
  <2>1. QED
    BY <1>1, WFMin
<1>3. \A y \in N : ~(y < x)
  <2> TAKE y \in N
  <2>1. <<y, x>> \in Nat \X Nat /\ <<y, x>>[1] = y /\ <<y, x>>[2] = x
    OBVIOUS
  <2>2. QED
    BY <1>2, <2>1
<1>4. QED
  BY <1>3

\* A batch the server finds contiguous, made of the whole queue, finds nothing of the
\* queue stored out of place: what keep_local renumbered over a batch it did not know
\* to be stored is refused, until it falls where it was.
LEMMA PlacedAccepted ==
    ASSUME NEW P, NEW A, NEW q, NEW s, NEW B, Placed(P, A, q, s, B), Queue(P, A, q, s, B),
           NEW L \in Nat, \A o \in P \cup A : s[o] <= L,
           \A k \in 1..L : \E x \in P \cup A : s[x] = k,
           \A o \in P : s[o] = 0 => q[o] > L,
           \A o \in P : s[o] = 0 => \A k \in (L + 1)..q[o] : \E y \in P : s[y] = 0 /\ q[y] = k
    PROVE  \A p \in P : s[p] # 0 => s[p] = q[p]
<1> USE DEF Placed
<1> DEFINE W == {p \in P : s[p] # 0 /\ s[p] # q[p]}
<1>1. SUFFICES ASSUME W # {} PROVE FALSE
  OBVIOUS
<1>2. PICK p \in W : \A r \in W : s[r] <= s[p]
  <2> DEFINE N == {L - s[r] : r \in W}
  <2>1. \A r \in W : s[r] \in Nat /\ s[r] <= L /\ L - s[r] \in Nat
    BY DEF Queue
  <2>2. N \in SUBSET Nat /\ N # {}
    BY <1>1, <2>1
  <2>3. PICK x \in N : \A y \in N : x <= y
    <3> HIDE DEF N
    <3>1. QED
      BY <2>2, LeastOf
  <2>4. PICK p \in W : x = L - s[p]
    OBVIOUS
  <2>5. \A r \in W : L - s[p] <= L - s[r]
    BY <2>3, <2>4
  <2>6. \A r \in W : s[r] <= s[p]
    BY <2>1, <2>5
  <2>7. QED
    BY <2>6
<1>3. p \in P /\ s[p] # 0 /\ s[p] # q[p] /\ s[p] \in Nat /\ q[p] \in Nat /\ s[p] <= L
  BY DEF Queue
<1>4. PICK r \in P : q[r] = q[p] + 1
  BY <1>3 DEF Anchored, Linked, Gap
<1>5. q[r] \in Nat /\ s[r] \in Nat
  BY DEF Queue
\* Nothing of the queue sits right after p, but its successor.
<1>6. ASSUME NEW x \in P \cup A, s[x] = s[p] + 1 PROVE x = r
  <2>1. s[x] # 0
    BY <1>3, <1>6
  <2>2. x \in P
    <3>1. CASE x \in A
      <4>1. s[x] < s[p]
        BY <1>3, <3>1 DEF Above
      <4>2. QED
        BY <1>3, <1>6, <4>1
    <3>2. QED
      BY <3>1
  <2>3. q[x] \in Nat
    BY <2>2 DEF Queue
  <2>4. ~(q[x] < q[p])
    <3>1. SUFFICES ASSUME q[x] < q[p] PROVE FALSE
      OBVIOUS
    <3>2. s[x] < s[p]
      BY <1>3, <2>2, <3>1 DEF Stacked
    <3>3. QED
      BY <1>3, <1>6, <3>2
  <2>5. q[x] # q[p]
    <3>1. x # p
      BY <1>3, <1>6
    <3>2. QED
      BY <1>3, <2>2, <3>1 DEF Distinct
  <2>6. ~(q[r] < q[x])
    <3>1. SUFFICES ASSUME q[r] < q[x] PROVE FALSE
      OBVIOUS
    <3>2. s[r] # 0 /\ s[r] < s[x]
      BY <2>1, <2>2, <3>1 DEF Stacked
    <3>3. q[p] < q[r]
      BY <1>3, <1>4
    <3>4. s[p] < s[r]
      BY <1>3, <3>2, <3>3 DEF Stacked
    <3>5. QED
      BY <1>3, <1>5, <1>6, <3>2, <3>4
  <2>7. q[x] = q[r]
    BY <1>3, <1>4, <2>3, <2>4, <2>5, <2>6
  <2>8. QED
    BY <2>2, <2>7 DEF Distinct
<1>7. s[p] < q[p]
  <2>1. CASE s[r] # 0
    <3>1. s[p] < s[r]
      BY <1>3, <1>4, <2>1 DEF Stacked
    <3>2. r \notin W
      BY <1>2, <1>3, <1>5, <3>1
    <3>3. s[r] = q[r]
      BY <2>1, <3>2
    <3>4. QED
      BY <1>3, <1>4, <3>1, <3>3
  <2>2. CASE s[r] = 0
    <3>1. q[r] > L
      BY <2>2
    <3>2. QED
      BY <1>3, <1>4, <3>1
  <2>3. QED
    BY <2>1, <2>2
<1>8. CASE s[r] # 0
  <2>1. s[p] < s[r] /\ s[r] <= L
    BY <1>3, <1>4, <1>8 DEF Stacked
  <2>2. s[p] + 1 \in 1..L
    BY <1>3, <1>5, <2>1
  <2>3. PICK x \in P \cup A : s[x] = s[p] + 1
    BY <2>2
  <2>4. s[r] = s[p] + 1
    BY <1>6, <2>3
  <2>5. r \notin W
    BY <1>2, <1>3, <2>4
  <2>6. s[r] = q[r]
    BY <1>8, <2>5
  <2>7. QED
    BY <1>3, <1>4, <2>4, <2>6
<1>9. CASE s[r] = 0
  <2>1. s[p] = L
    <3>1. SUFFICES ASSUME s[p] < L PROVE FALSE
      BY <1>3
    <3>2. s[p] + 1 \in 1..L
      BY <1>3, <3>1
    <3>3. PICK x \in P \cup A : s[x] = s[p] + 1
      BY <3>2
    <3>4. s[r] = s[p] + 1
      BY <1>6, <3>3
    <3>5. QED
      BY <1>3, <1>9, <3>4
  <2>2. q[p] \in (L + 1)..q[r]
    BY <1>3, <1>4, <1>7, <2>1
  <2>3. PICK y \in P : s[y] = 0 /\ q[y] = q[p]
    BY <1>9, <2>2
  <2>4. y = p
    BY <1>3, <2>3 DEF Distinct
  <2>5. QED
    BY <1>3, <2>3, <2>4
<1>10. QED
  BY <1>8, <1>9

-----------------------------------------------------------------------------
(* The invariant of the composition.                                         *)

\* Requests that may still be read by somebody: travelling, in a handler, answered,
\* or to be sent again.
Letters ==
    net \cup {txn[w].req : w \in {v \in Worker : txn[v] # S!Idle}}
        \cup {a.req : a \in answers}
        \cup {engine[d].req : d \in {e \in Device : Awaiting(e)}}

\* A batch carries operations its phone has created, under a key its phone has drawn.
Proper(b) ==
    b.kind = "submit" =>
        /\ b.dev \in Device
        /\ b.seqs \in [Op -> Nat]
        /\ b.key[2] \in Nat /\ b.key[2] <= batches[b.dev]
        /\ \A o \in Op : b.seqs[o] # 0 => OpDevice[o] = b.dev /\ status[o] # "unborn"

Post == \A r \in Letters : r.from \in Device /\ Proper(r.body)

\* An acknowledgement names the whole batch; a conflict gives the last number.
Entered(x, b) ==
    /\ x.code = "ack" => \A o \in Op : b.seqs[o] # 0 => o \in x.ops
    /\ x.code = "conflict" => x.last \in Nat

Books ==
    /\ \A e \in idem : Proper(e.body) /\ Entered(e.answer, e.body)
    /\ \A a \in answers : Entered(a.says, a.req.body)

\* A handler serves the route of its request.
Routed(t) ==
    /\ t.pc \in {"create", "compare", "write"} => t.req.body.kind = "submit"
    /\ t.pc \in {"gate", "close"} => t.req.body.kind = "complete"
    /\ t.pc = "sign" => t.req.body.kind = "presign"

\* What is about to be inserted continues a sequence the phone had reached on the server.
Continued(b, F) ==
    /\ F \subseteq Op
    /\ \A o, p \in F : b.seqs[o] = b.seqs[p] => o = p
    /\ F # {} => \E l, n \in Nat : /\ l <= S!LastSeq(b.dev)
                                   /\ {b.seqs[o] : o \in F} = (l + 1)..n

Handlers ==
    \A w \in Worker : /\ Routed(txn[w])
                      /\ txn[w].pc = "write" => Continued(txn[w].req.body, txn[w].fresh)

\* LedgerContiguous, with the type of its counter.
Contiguous ==
    /\ \A d \in Device : S!LastSeq(d) \in Nat
    /\ S!LedgerContiguous

\* What is numbered was created, and what is stored is numbered.
Born ==
    \A o \in Op : /\ stored[o] # 0 => status[o] # "unborn"
                  /\ status[o] # "unborn" => seq[o] # 0

\* A call in course has its four fields.
Waiting(e) ==
    /\ e = [pc |-> e.pc, pass |-> e.pass, req |-> e.req, round |-> e.round]
    /\ e.req = [from |-> e.req.from, attempt |-> e.req.attempt, body |-> e.req.body]

\* What a decision read from the outbox.
Weighed(e) ==
    /\ e.pending \subseteq Op
    /\ \A o \in e.abandoned : o \in Op /\ status[o] # "unborn"

Phone(d) ==
    /\ command[d] # Rest => command[d].seq \in Nat \ {0}
    /\ conflict[d].open => conflict[d].last \in Nat
    /\ engine[d].pc = "decide" => conflict[d].open /\ Weighed(engine[d])
    /\ Awaiting(d) => Waiting(engine[d])

Outbox ==
    /\ seq \in [Op -> Nat]
    /\ stored \in [Op -> Nat]
    /\ status \in [Op -> {"unborn", "local", "pending", "acked", "superseded"}]
    /\ batches \in [Device -> Nat]
    /\ engine = [d \in Device |-> engine[d]]
    /\ command = [d \in Device |-> command[d]]
    /\ conflict = [d \in Device |-> conflict[d]]
    /\ \A d \in Device : Phone(d)

Base == Inv /\ Outbox /\ Post /\ Books /\ Handlers /\ Contiguous /\ Born

-----------------------------------------------------------------------------
(* What the server does, seen from the queue of a phone.                     *)

\* A handler that has just accepted its batch.
Accepts(w, t) ==
    /\ txn[w].pc = "compare"
    /\ t.req = txn[w].req
    /\ t.fresh = S!Unseen(t.req.body)
    /\ t.fresh = {} \/ S!Continues(t.req.body, t.fresh, S!LastSeq(t.req.body.dev))

Task(w, t) ==
    /\ t.req \in Letters
    /\ Routed(t)
    /\ t.pc = "write" => Accepts(w, t)

Answer(a) ==
    /\ a.req \in Letters
    /\ Entered(a.says, a.req.body)
    /\ a.says.code = "ack" => \E e \in idem : e.body = a.req.body

\* A step of an instance that stores nothing and enters no batch.
Calm(w) ==
    /\ stored' = stored
    /\ \E t : txn' = [txn EXCEPT ![w] = t] /\ (t = S!Idle \/ Task(w, t))
    /\ \A a \in answers' : a \in answers \/ Answer(a)
    /\ \A e \in idem' : e \in idem \/ (e.body.kind # "submit" /\ Entered(e.answer, e.body))

\* The handler commits its batch.
Commits(w) ==
    LET t == txn[w]
        b == t.req.body
    IN  /\ t.pc = "write"
        /\ ~S!Clash(b, t.fresh)
        /\ stored' = [o \in Op |-> IF o \in t.fresh THEN b.seqs[o] ELSE stored[o]]
        /\ idem' = idem \cup {[body |-> b, answer |-> S!Ack(t)]}
        /\ answers' = answers \cup {[req |-> t.req, says |-> S!Ack(t)]}
        /\ txn' = [txn EXCEPT ![w] = S!Idle]

LEMMA PlainEntered ==
    ASSUME NEW b, NEW code, code \notin {"ack", "conflict"} PROVE Entered(S!Plain(code), b)
BY DEF Entered, S!Plain

LEMMA StateEntered == ASSUME NEW read, NEW b PROVE Entered(S!State(read), b)
BY DEF Entered, S!State

LEMMA ConflictEntered ==
    ASSUME Contiguous, NEW read, NEW d \in Device, NEW b PROVE Entered(S!Conflict(read, d), b)
BY DEF Entered, S!Conflict, Contiguous

LEMMA ReplayEntered ==
    ASSUME Books, NEW b, S!Known(b)
    PROVE  /\ Entered(S!Replay(b), b)
           /\ S!Replay(b).code = "ack" => \E e \in idem : e.body = b
<1>1. S!Kept(b) \in idem
  BY DEF S!Known, S!Kept
<1>2. Entered(S!Kept(b).answer, S!Kept(b).body)
  BY <1>1 DEF Books
<1>3. Entered(S!Plain("reused"), b) /\ S!Plain("reused").code # "ack"
  BY PlainEntered DEF S!Plain
<1>4. QED
  BY <1>1, <1>2, <1>3 DEF S!Replay

\* A handler answers and is done.
LEMMA CalmReply ==
    ASSUME NEW w \in Worker, NEW r \in Letters, NEW x, S!Reply(w, r, x), stored' = stored,
           Entered(x, r.body), x.code = "ack" => \E e \in idem : e.body = r.body,
           \A e \in idem' : e \in idem \/ (e.body.kind # "submit" /\ Entered(e.answer, e.body))
    PROVE  Calm(w)
<1>1. PICK a : a = [req |-> r, says |-> x]
  OBVIOUS
<1>2. Answer(a)
  BY <1>1 DEF Answer
<1>3. \A y \in answers' : y \in answers \/ Answer(y)
  BY <1>1, <1>2 DEF S!Reply
<1>4. QED
  BY <1>3 DEF Calm, S!Reply

\* A handler goes on.
LEMMA CalmTask ==
    ASSUME NEW w \in Worker, NEW t, txn' = [txn EXCEPT ![w] = t], answers' = answers,
           stored' = stored, Task(w, t),
           \A e \in idem' : e \in idem \/ (e.body.kind # "submit" /\ Entered(e.answer, e.body))
    PROVE  Calm(w)
BY DEF Calm

LEMMA CalmAdvance ==
    ASSUME Inv, Handlers, NEW w \in Worker, NEW stage, S!Advance(w, stage),
           txn[w].pc # "idle", stored' = stored,
           stage \in {"close", "export", "accept", "analyse"}, stage = "close" => txn[w].pc = "gate",
           \A e \in idem' : e \in idem \/ (e.body.kind # "submit" /\ Entered(e.answer, e.body))
    PROVE  Calm(w)
<1>1. Filled(txn[w])
  BY DEF Inv, ServerInv, Handles, S!Idle
<1>2. PICK t : t = [txn[w] EXCEPT !.pc = stage]
  OBVIOUS
<1>3. t.pc = stage /\ t.req = txn[w].req
  BY <1>1, <1>2 DEF Filled
<1>4. t.req \in Letters
  BY <1>3 DEF Letters, S!Idle
<1>5. Task(w, t)
  BY <1>3, <1>4 DEF Task, Routed, Handlers
<1>6. QED
  BY <1>2, <1>5, CalmTask DEF S!Advance

LEMMA CalmBegin ==
    ASSUME NEW w \in Worker, NEW r \in Letters, NEW stage, NEW read, NEW created, NEW fresh,
           txn' = [txn EXCEPT ![w] = [pc |-> stage, req |-> r, read |-> read,
                                      created |-> created, fresh |-> fresh]],
           answers' = answers, stored' = stored, idem' = idem, stage # "write",
           stage \in {"create", "compare"} => r.body.kind = "submit",
           stage \in {"gate", "close"} => r.body.kind = "complete",
           stage = "sign" => r.body.kind = "presign"
    PROVE  Calm(w)
<1>1. PICK t : t = [pc |-> stage, req |-> r, read |-> read, created |-> created,
                    fresh |-> fresh]
  OBVIOUS
<1>2. Task(w, t)
  BY <1>1 DEF Task, Routed
<1>3. QED
  BY <1>1, <1>2, CalmTask

\* A request that reaches an instance.
LEMMA CalmReceive ==
    ASSUME Base, NEW w \in Worker, NEW r \in Letters, S!Receive(w, r)
    PROVE  Calm(w)
<1>1. stored' = stored /\ idem' = idem
  BY DEF S!Receive, S!SubmitBegin, S!GetSurvey, S!CompleteBegin, S!PresignBegin,
         S!ConfirmBegin, S!dbVars
<1>2. ASSUME NEW x, Entered(x, r.body), x.code = "ack" => \E e \in idem : e.body = r.body,
             S!Reply(w, r, x)
      PROVE  Calm(w)
  BY <1>1, <1>2, CalmReply
<1>3. ASSUME NEW code, code \notin {"ack", "conflict"}, S!Reply(w, r, S!Plain(code))
      PROVE  Calm(w)
  <2>1. S!Plain(code).code # "ack"
    BY <1>3 DEF S!Plain
  <2>2. QED
    BY <1>2, <1>3, <2>1, PlainEntered
<1>4. ASSUME NEW read, S!Reply(w, r, S!State(read)) PROVE Calm(w)
  <2>1. S!State(read).code # "ack"
    BY DEF S!State
  <2>2. QED
    BY <1>2, <1>4, <2>1, StateEntered
<1>5. ASSUME NEW read, NEW d \in Device, S!Reply(w, r, S!Conflict(read, d)) PROVE Calm(w)
  <2>1. S!Conflict(read, d).code # "ack"
    BY DEF S!Conflict
  <2>2. QED
    BY <1>2, <1>5, <2>1, ConflictEntered DEF Base
<1>6. S!Known(r.body) /\ S!Reply(w, r, S!Replay(r.body)) => Calm(w)
  BY <1>2, ReplayEntered DEF Base
<1>7. ASSUME NEW stage, NEW read, S!Begin(w, r, stage, read), stage # "write",
             stage \in {"create", "compare"} => r.body.kind = "submit",
             stage \in {"gate", "close"} => r.body.kind = "complete",
             stage = "sign" => r.body.kind = "presign"
      PROVE  Calm(w)
  <2>1. PICK created, fresh : created = FALSE /\ fresh = {}
    OBVIOUS
  <2>2. /\ txn' = [txn EXCEPT ![w] = [pc |-> stage, req |-> r, read |-> read,
                                      created |-> created, fresh |-> fresh]]
        /\ answers' = answers
    BY <1>7, <2>1 DEF S!Begin
  <2>3. QED
    BY <1>1, <1>7, <2>2, CalmBegin
<1>8. r.from \in Device /\ (r.body.kind = "submit" => r.body.dev \in Device)
  BY DEF Base, Post, Proper
<1>9. CASE S!SubmitBegin(w, r)
  <2>1. r.body.kind = "submit"
    BY <1>9 DEF S!SubmitBegin, S!Receives
  <2>2. QED
    BY <1>1, <1>3, <1>5, <1>6, <1>7, <1>8, <1>9, <2>1 DEF S!SubmitBegin
<1>10. CASE S!GetSurvey(w, r)
  BY <1>1, <1>3, <1>4, <1>10 DEF S!GetSurvey
<1>11. CASE S!CompleteBegin(w, r)
  <2>1. r.body.kind = "complete"
    BY <1>11 DEF S!CompleteBegin, S!Receives
  <2>2. QED
    BY <1>1, <1>3, <1>5, <1>6, <1>7, <1>8, <1>11, <2>1 DEF S!CompleteBegin
<1>12. CASE S!PresignBegin(w, r)
  <2>1. CASE txn' = [txn EXCEPT ![w] =
                       [pc |-> "sign", req |-> r, read |-> survey, fresh |-> {},
                        created |-> media[r.body.digest] = "ABSENT"]] /\ answers' = answers
    <3>1. PICK created, fresh, stage :
             created = (media[r.body.digest] = "ABSENT") /\ fresh = {} /\ stage = "sign"
      OBVIOUS
    <3>2. txn' = [txn EXCEPT ![w] = [pc |-> stage, req |-> r, read |-> survey,
                                     created |-> created, fresh |-> fresh]]
      BY <2>1, <3>1
    <3>3. r.body.kind = "presign"
      BY <1>12 DEF S!PresignBegin, S!Receives
    <3>4. /\ stage # "write" /\ stage \notin {"create", "compare", "gate", "close"}
          /\ answers' = answers
      BY <2>1, <3>1
    <3>5. QED
      BY <1>1, <3>2, <3>3, <3>4, CalmBegin
  <2>2. QED
    BY <1>1, <1>3, <1>6, <1>12, <2>1 DEF S!PresignBegin
<1>13. CASE S!ConfirmBegin(w, r)
  BY <1>1, <1>3, <1>4, <1>7, <1>13 DEF S!ConfirmBegin
<1>14. QED
  BY <1>9, <1>10, <1>11, <1>12, <1>13 DEF S!Receive

\* The handler that has inserted the row of the survey keeps its request.
LEMMA FoundedReq ==
    ASSUME NEW x, Filled(x), NEW created, NEW read
    PROVE  Founded(x, created, read).pc = "compare" /\ Founded(x, created, read).req = x.req
<1>1. PICK req, old, read0, created0, fresh :
         /\ req = x.req /\ old = x.pc /\ read0 = x.read /\ created0 = x.created
         /\ fresh = x.fresh
  OBVIOUS
<1>2. x = [pc |-> old, req |-> req, read |-> read0, created |-> created0, fresh |-> fresh]
  BY <1>1 DEF Filled
<1>3. PICK y : y = [x EXCEPT !.pc = "compare"]
  OBVIOUS
<1>4. y = [pc |-> "compare", req |-> req, read |-> read0, created |-> created0,
           fresh |-> fresh]
  BY <1>2, <1>3
<1>5. PICK z : z = [y EXCEPT !.created = created]
  OBVIOUS
<1>6. z = [pc |-> "compare", req |-> req, read |-> read0, created |-> created,
           fresh |-> fresh]
  BY <1>4, <1>5
<1>7. [z EXCEPT !.read = read] =
      [pc |-> "compare", req |-> req, read |-> read, created |-> created, fresh |-> fresh]
  BY <1>6
<1>8. Founded(x, created, read) = [z EXCEPT !.read = read]
  BY <1>3, <1>5 DEF Founded
<1>9. QED
  BY <1>1, <1>7, <1>8

\* A handler goes on, and stores nothing unless it commits a batch.
LEMMA CalmContinue ==
    ASSUME Base, NEW w \in Worker, S!Continue(w)
    PROVE  Calm(w) \/ Commits(w)
<1> USE DEF S!At
<1> DEFINE r == txn[w].req
<1>1. txn[w].pc # "idle" => r \in Letters /\ Filled(txn[w])
  BY DEF Letters, Base, Inv, ServerInv, Handles, S!Idle
<1>2. r \in Letters => r.from \in Device /\ (r.body.kind = "submit" => r.body.dev \in Device)
  BY DEF Base, Post, Proper
<1>3. ASSUME txn[w].pc # "idle", stored' = stored,
             \A e \in idem' : e \in idem \/ (e.body.kind # "submit" /\ Entered(e.answer, e.body)),
             NEW x, Entered(x, r.body), x.code # "ack", S!Reply(w, r, x)
      PROVE  Calm(w)
  BY <1>1, <1>3, CalmReply
<1>4. ASSUME txn[w].pc # "idle", stored' = stored,
             \A e \in idem' : e \in idem \/ (e.body.kind # "submit" /\ Entered(e.answer, e.body)),
             NEW code, code \notin {"ack", "conflict"}, S!Reply(w, r, S!Plain(code))
      PROVE  Calm(w)
  <2>1. S!Plain(code).code # "ack"
    BY <1>4 DEF S!Plain
  <2>2. QED
    BY <1>3, <1>4, <2>1, PlainEntered
<1>5. ASSUME txn[w].pc # "idle", stored' = stored,
             \A e \in idem' : e \in idem \/ (e.body.kind # "submit" /\ Entered(e.answer, e.body)),
             NEW read, S!Reply(w, r, S!State(read))
      PROVE  Calm(w)
  <2>1. S!State(read).code # "ack"
    BY DEF S!State
  <2>2. QED
    BY <1>3, <1>5, <2>1, StateEntered
<1>6. CASE S!SubmitCreate(w)
  <2>1. stored' = stored /\ idem' = idem /\ txn[w].pc = "create" /\ r \in Letters /\ Filled(txn[w])
    BY <1>1, <1>6 DEF S!SubmitCreate, S!dbVars
  <2>2. PICK read, created :
           /\ read = [status |-> "OPEN", version |-> 1,
                      content |-> txn[w].req.body.content]
           /\ created = TRUE
    OBVIOUS
  <2>3. CASE txn' = [txn EXCEPT ![w] = Founded(txn[w], created, read)] /\ answers' = answers
    <3>1. PICK t : t = Founded(txn[w], created, read)
      OBVIOUS
    <3>2. t.pc = "compare" /\ t.req = r
      BY <2>1, <3>1, FoundedReq
    <3>3. r.body.kind = "submit"
      BY <2>1 DEF Base, Handlers, Routed
    <3>4. Task(w, t)
      BY <2>1, <3>2, <3>3 DEF Task, Routed
    <3>5. QED
      BY <2>1, <2>3, <3>1, <3>4, CalmTask
  <2>4. CASE S!Reply(w, r, S!Plain("race"))
    BY <1>4, <2>1, <2>4
  <2>5. QED
    BY <1>6, <2>1, <2>2, <2>3, <2>4 DEF S!SubmitCreate, Founded
<1>7. CASE S!SubmitCompare(w)
  <2>1. stored' = stored /\ idem' = idem /\ txn[w].pc = "compare" /\ r \in Letters /\ Filled(txn[w])
    BY <1>1, <1>7 DEF S!SubmitCompare, S!dbVars
  <2>2. r.body.kind = "submit" /\ r.body.dev \in Device
    BY <1>2, <2>1 DEF Base, Handlers, Routed
  <2>3. PICK fresh : fresh = S!Unseen(r.body)
    OBVIOUS
  <2>4. CASE /\ txn' = [txn EXCEPT ![w].pc = "write", ![w].fresh = fresh]
             /\ answers' = answers
             /\ fresh = {} \/ S!Continues(r.body, fresh, S!LastSeq(r.body.dev))
    <3>1. PICK t : t = [txn[w] EXCEPT !.pc = "write", !.fresh = fresh]
      OBVIOUS
    <3>2. t = [pc |-> "write", req |-> txn[w].req, read |-> txn[w].read,
               created |-> txn[w].created, fresh |-> fresh]
      BY <2>1, <3>1, Refilled
    <3>3. t.pc = "write" /\ t.req = r /\ t.fresh = fresh
      BY <3>2
    <3>4. Accepts(w, t)
      BY <2>1, <2>3, <2>4, <3>3 DEF Accepts
    <3>5. Task(w, t)
      BY <2>1, <2>2, <3>3, <3>4 DEF Task, Routed
    <3>6. QED
      BY <2>1, <2>4, <3>1, <3>5, CalmTask
  <2>5. CASE S!Reply(w, r, S!Conflict(txn[w].read, r.body.dev))
    <3>1. S!Conflict(txn[w].read, r.body.dev).code # "ack"
      BY DEF S!Conflict
    <3>2. QED
      BY <1>3, <2>1, <2>2, <2>5, <3>1, ConflictEntered DEF Base
  <2>6. QED
    BY <1>7, <2>3, <2>4, <2>5 DEF S!SubmitCompare
<1>8. CASE S!SubmitWrite(w)
  <2>1. txn[w].pc = "write"
    BY <1>8 DEF S!SubmitWrite
  <2>2. CASE UNCHANGED S!dbVars /\ \E code \in {"race", "failed"} : S!Reply(w, r, S!Plain(code))
    <3>1. stored' = stored /\ idem' = idem
      BY <2>2 DEF S!dbVars
    <3>2. QED
      BY <1>4, <2>1, <2>2, <3>1
  <2>3. CASE /\ ~S!Clash(r.body, txn[w].fresh)
             /\ stored' = [o \in Op |-> IF o \in txn[w].fresh THEN r.body.seqs[o] ELSE stored[o]]
             /\ S!Keep(r, S!Ack(txn[w]))
             /\ S!Reply(w, r, S!Ack(txn[w]))
    BY <2>1, <2>3 DEF Commits, S!Keep, S!Reply
  <2>4. QED
    BY <1>8, <2>2, <2>3 DEF S!SubmitWrite
<1>9. CASE S!CompleteGate(w)
  <2>1. stored' = stored /\ idem' = idem /\ txn[w].pc = "gate"
    BY <1>9 DEF S!CompleteGate, S!dbVars
  <2>2. CASE S!Advance(w, "close")
    BY <2>1, <2>2, CalmAdvance DEF Base
  <2>3. QED
    BY <1>4, <1>9, <2>1, <2>2 DEF S!CompleteGate
<1>10. CASE S!CompleteClose(w)
  <2>1. stored' = stored /\ txn[w].pc = "close"
    BY <1>10 DEF S!CompleteClose
  <2>2. CASE idem' = idem /\ S!Reply(w, r, S!Plain("failed"))
    BY <1>4, <2>1, <2>2
  <2>3. CASE S!Keep(r, S!Closed(txn[w])) /\ S!Advance(w, "export")
    <3>1. Entered(S!Closed(txn[w]), r.body) /\ r.body.kind # "submit"
      BY <2>1, StateEntered DEF S!Closed, Base, Handlers, Routed
    <3>2. \A e \in idem' : e \in idem \/ (e.body.kind # "submit" /\ Entered(e.answer, e.body))
      BY <2>3, <3>1 DEF S!Keep
    <3>3. QED
      BY <2>1, <2>3, <3>2, CalmAdvance DEF Base
  <2>4. QED
    BY <1>10, <2>2, <2>3 DEF S!CompleteClose
<1>11. CASE S!CompletePublish(w)
  <2>1. stored' = stored /\ idem' = idem /\ txn[w].pc = "export"
    BY <1>11 DEF S!CompletePublish, S!dbVars
  <2>2. QED
    BY <1>4, <1>5, <1>11, <2>1 DEF S!CompletePublish, S!Closed
<1>12. CASE S!PresignSign(w)
  <2>1. stored' = stored /\ txn[w].pc = "sign"
    BY <1>12 DEF S!PresignSign
  <2>2. CASE idem' = idem /\ S!Reply(w, r, S!Plain("failed"))
    BY <1>4, <2>1, <2>2
  <2>3. CASE S!Keep(r, S!Plain("url")) /\ S!Reply(w, r, S!Plain("url"))
    <3>1. Entered(S!Plain("url"), r.body) /\ r.body.kind # "submit"
      BY <2>1, PlainEntered DEF Base, Handlers, Routed
    <3>2. \A e \in idem' : e \in idem \/ (e.body.kind # "submit" /\ Entered(e.answer, e.body))
      BY <2>3, <3>1 DEF S!Keep
    <3>3. QED
      BY <1>4, <2>1, <2>3, <3>2
  <2>4. QED
    BY <1>12, <2>2, <2>3 DEF S!PresignSign
<1>13. CASE S!ConfirmAccept(w)
  <2>1. stored' = stored /\ idem' = idem /\ txn[w].pc = "accept" /\ S!Advance(w, "analyse")
    BY <1>13 DEF S!ConfirmAccept, S!dbVars
  <2>2. QED
    BY <2>1, CalmAdvance DEF Base
<1>14. CASE S!ConfirmPublish(w)
  <2>1. stored' = stored /\ idem' = idem /\ txn[w].pc = "analyse"
    BY <1>14 DEF S!ConfirmPublish, S!dbVars
  <2>2. QED
    BY <1>4, <1>5, <1>14, <2>1 DEF S!ConfirmPublish
<1>15. QED
  BY <1>6, <1>7, <1>8, <1>9, <1>10, <1>11, <1>12, <1>13, <1>14 DEF S!Continue

LEMMA CalmCrash == ASSUME NEW w \in Worker, S!Crash(w) PROVE Calm(w)
BY DEF S!Crash, S!dbVars, Calm

-----------------------------------------------------------------------------
(* The server's steps keep the invariant.                                    *)

\* The instance of SurveyServer counts and compares as this module does.
LEMMA SameCardinality == ASSUME NEW F PROVE S!Cardinality(F) = Cardinality(F)
BY DEF S!Cardinality, Cardinality

LEMMA SameMax == ASSUME NEW F PROVE S!Max(F) = Max(F)
BY DEF S!Max, Max

\* The phones do nothing.
Aside ==
    /\ net' \subseteq net
    /\ UNCHANGED <<engine, seq, status, batches, command, conflict>>

LEMMA LettersShrink ==
    ASSUME Base, Aside, NEW w \in Worker, NEW t, txn' = [txn EXCEPT ![w] = t],
           t = S!Idle \/ t.req \in Letters,
           \A a \in answers' : a \in answers \/ a.req \in Letters
    PROVE  \A r \in Letters' : r \in Letters
<1>1. txn = [v \in Worker |-> txn[v]]
  BY DEF Base, Inv, ServerInv
<1>2. \A r \in net' : r \in Letters
  BY DEF Aside, Letters
<1>3. ASSUME NEW v \in Worker, txn'[v] # S!Idle PROVE txn'[v].req \in Letters
  <2>1. CASE v = w
    BY <1>1, <1>3, <2>1
  <2>2. CASE v # w
    <3>1. txn'[v] = txn[v]
      BY <1>1, <2>2
    <3>2. QED
      BY <1>3, <3>1 DEF Letters
  <2>3. QED
    BY <2>1, <2>2
<1>4. \A a \in answers' : a.req \in Letters
  BY DEF Letters
<1>5. \A d \in Device : Awaiting(d)' => Awaiting(d) /\ engine'[d].req = engine[d].req
  BY DEF Aside, Awaiting
<1>6. \A d \in Device : Awaiting(d)' => engine'[d].req \in Letters
  BY <1>5 DEF Letters
<1>7. QED
  BY <1>2, <1>3, <1>4, <1>6 DEF Letters

LEMMA ProperStays ==
    ASSUME NEW b, Proper(b), \A d \in Device : batches'[d] \in Nat /\ batches[d] \in Nat /\ batches[d] <= batches'[d],
           \A o \in Op : status[o] # "unborn" => status'[o] # "unborn"
    PROVE  Proper(b)'
<1>1. SUFFICES ASSUME b.kind = "submit" PROVE Proper(b)'
  BY DEF Proper
<1>2. b.dev \in Device /\ b.key[2] \in Nat /\ b.key[2] <= batches[b.dev]
  BY <1>1 DEF Proper
<1>3. b.key[2] <= batches'[b.dev]
  BY <1>2
<1>4. QED
  BY <1>1, <1>2, <1>3 DEF Proper

\* The phones being aside, their part of the invariant stands.
LEMMA AsideKeeps ==
    ASSUME Base, Aside, \A r \in Letters' : r \in Letters
    PROVE  /\ \A d \in Device : Phone(d)'
           /\ Post'
           /\ \A b : Proper(b) => Proper(b)'
           /\ (stored' \in [Op -> Nat]) => Outbox'
<1>1. \A b : Proper(b) => Proper(b)'
  BY DEF Aside, Proper
<1>2. Post'
  BY <1>1 DEF Base, Post
<1>3. \A d \in Device : Phone(d)'
  BY DEF Aside, Phone, Base, Outbox, Awaiting, Weighed
<1>4. stored' \in [Op -> Nat] => Outbox'
  BY <1>3 DEF Aside, Base, Outbox
<1>5. QED
  BY <1>1, <1>2, <1>3, <1>4

LEMMA CalmKeeps ==
    ASSUME Base, Aside, NEW w \in Worker, Calm(w)
    PROVE  /\ Outbox' /\ Post' /\ Books' /\ Handlers' /\ Contiguous' /\ Born'
           /\ \A r \in Letters' : r \in Letters
<1>1. stored' = stored /\ status' = status /\ seq' = seq
  BY DEF Calm, Aside
<1>2. PICK t : txn' = [txn EXCEPT ![w] = t] /\ (t = S!Idle \/ Task(w, t))
  BY DEF Calm
<1>3. \A a \in answers' : a \in answers \/ Answer(a)
  BY DEF Calm
<1>4. \A r \in Letters' : r \in Letters
  <2>1. t = S!Idle \/ t.req \in Letters
    BY <1>2 DEF Task
  <2>2. \A a \in answers' : a \in answers \/ a.req \in Letters
    BY <1>3 DEF Answer
  <2>3. QED
    BY <1>2, <2>1, <2>2, LettersShrink
<1>5. Outbox' /\ Post' /\ \A b : Proper(b) => Proper(b)'
  BY <1>1, <1>4, AsideKeeps DEF Base, Outbox
<1>6. Books'
  <2>1. \A x, b : Entered(x, b) => Entered(x, b)'
    BY DEF Entered
  <2>2. \A e \in idem' : e \in idem \/ (e.body.kind # "submit" /\ Entered(e.answer, e.body))
    BY DEF Calm
  <2>3. \A e \in idem' : Proper(e.body)' /\ Entered(e.answer, e.body)'
    BY <1>5, <2>1, <2>2 DEF Base, Books, Proper
  <2>4. \A a \in answers' : Entered(a.says, a.req.body)'
    BY <1>3, <2>1 DEF Base, Books, Answer
  <2>5. QED
    BY <2>3, <2>4 DEF Books
<1>7. \A d : S!LastSeq(d)' = S!LastSeq(d) /\ S!SeqsOf(d)' = S!SeqsOf(d)
  BY <1>1 DEF S!LastSeq, S!SeqsOf
<1>8. Contiguous'
  BY <1>1, <1>7 DEF Base, Contiguous, S!LedgerContiguous
<1>9. \A b, F : Continued(b, F) => Continued(b, F)'
  BY <1>7 DEF Continued
<1>10. Handlers'
  <2>1. ASSUME NEW v \in Worker
        PROVE  /\ Routed(txn'[v])
               /\ txn'[v].pc = "write" => Continued(txn'[v].req.body, txn'[v].fresh)
    <3>1. CASE v # w
      <4>1. txn'[v] = txn[v]
        BY <1>2, <3>1 DEF Base, Inv, ServerInv
      <4>2. QED
        BY <4>1 DEF Base, Handlers
    <3>2. CASE v = w
      <4>1. txn'[v] = t
        BY <1>2, <3>2 DEF Base, Inv, ServerInv
      <4>2. CASE t = S!Idle
        BY <4>1, <4>2 DEF S!Idle, Routed
      <4>3. CASE Task(w, t)
        <5>1. Routed(t) /\ t.req \in Letters
          BY <4>3 DEF Task
        <5>2. ASSUME t.pc = "write" PROVE Continued(t.req.body, t.fresh)
          <6>1. PICK b, F : b = t.req.body /\ F = t.fresh
            OBVIOUS
          <6>2. F = S!Unseen(b) /\ (F = {} \/ S!Continues(b, F, S!LastSeq(b.dev)))
            BY <4>3, <5>2, <6>1 DEF Task, Accepts
          <6>3. b.dev \in Device
            BY <5>1, <5>2, <6>1 DEF Routed, Base, Post, Proper
          <6>4. F \subseteq Op
            BY <6>2 DEF S!Unseen, S!Ops
          <6>5. IsFiniteSet(F) /\ Cardinality(F) \in Nat
            BY <6>4, FS_Subset, FS_CardinalityType, OutboxAssumption DEF OutboxAssumption
          <6>6. PICK L, k : L = S!LastSeq(b.dev) /\ k = Cardinality(F)
            OBVIOUS
          <6>7. L \in Nat /\ k \in Nat
            BY <6>3, <6>5, <6>6 DEF Base, Contiguous
          <6>8. CASE F = {}
            BY <6>1, <6>8 DEF Continued
          <6>9. CASE S!Continues(b, F, S!LastSeq(b.dev))
            <7>1. /\ \A o, p \in F : b.seqs[o] = b.seqs[p] => o = p
                  /\ {b.seqs[o] : o \in F} = (L + 1)..(L + k)
              BY <6>6, <6>9, SameCardinality DEF S!Continues
            <7>2. \E l, n \in Nat : l <= L /\ {b.seqs[o] : o \in F} = (l + 1)..n
              <8>1. L + k \in Nat /\ L <= L
                BY <6>7
              <8>2. QED
                BY <6>7, <7>1, <8>1
            <7>3. QED
              BY <6>1, <6>4, <6>6, <7>1, <7>2 DEF Continued
          <6>10. QED
            BY <6>2, <6>8, <6>9
        <5>3. QED
          BY <4>1, <5>1, <5>2
      <4>4. QED
        BY <1>2, <4>2, <4>3
    <3>3. QED
      BY <3>1, <3>2
  <2>2. \A x : Routed(x) => Routed(x)'
    BY DEF Routed
  <2>3. QED
    BY <1>9, <2>1, <2>2 DEF Handlers
<1>11. Born'
  BY <1>1 DEF Base, Born
<1>12. QED
  BY <1>4, <1>5, <1>6, <1>8, <1>10, <1>11

\* The greatest element of 0..n, as LastSeq computes it.
LEMMA GreatestOfRun ==
    ASSUME NEW n \in Nat
    PROVE  S!Max((1..n) \cup {0}) = n
<1> DEFINE R == (1..n) \cup {0}
<1>1. n \in R /\ \A y \in R : n >= y
  OBVIOUS
<1>2. \A x \in R : (\A y \in R : x >= y) => x = n
  BY <1>1
<1>3. QED
  BY <1>1, <1>2 DEF S!Max

\* F is what is inserted of batch b of a phone whose last number is L: own operations,
\* none of which was stored, in a run after L; the rest of the batch is stored.
Inserts(b, F, L) ==
    /\ b.kind = "submit" /\ b.dev \in Device /\ b.seqs \in [Op -> Nat]
    /\ F \subseteq Op
    /\ \A o \in Op : b.seqs[o] # 0 => OpDevice[o] = b.dev /\ status[o] # "unborn"
    /\ \A o \in Op : b.seqs[o] # 0 => o \in F \/ stored[o] # 0
    /\ \A o \in F : stored[o] = 0 /\ b.seqs[o] # 0 /\ b.seqs[o] > L
    /\ \A o, p \in F : b.seqs[o] = b.seqs[p] => o = p
    /\ L \in Nat
    /\ F # {} => \E n \in Nat : n >= L /\ {b.seqs[o] : o \in F} = (L + 1)..n

\* What a commit inserts.  The check made against the last number the handler saw and the
\* unique index together say that nothing of the phone got in between.
LEMMA CommitContinues ==
    ASSUME Base, NEW w \in Worker, Commits(w),
           NEW b, b = txn[w].req.body, NEW F, F = txn[w].fresh,
           NEW L, L = S!LastSeq(b.dev)
    PROVE  Inserts(b, F, L)
<1>1. txn[w].pc = "write" /\ txn[w].req \in Letters
  BY DEF Commits, Letters, S!Idle
<1>2. b.kind = "submit" /\ Continued(b, F)
  BY <1>1 DEF Base, Handlers, Routed
<1>3. /\ b.dev \in Device /\ b.seqs \in [Op -> Nat]
      /\ \A o \in Op : b.seqs[o] # 0 => OpDevice[o] = b.dev /\ status[o] # "unborn"
  BY <1>1, <1>2 DEF Base, Post, Proper
<1>4. F \subseteq Op /\ \A o, p \in F : b.seqs[o] = b.seqs[p] => o = p
  BY <1>2 DEF Continued
<1>5. /\ \A o \in F : b.seqs[o] # 0
      /\ \A o \in Op : b.seqs[o] # 0 => o \in F \/ stored[o] # 0
  BY <1>1, <1>4 DEF Base, Inv, ServerInv, Handles, Planned
<1>6. \A o \in F : stored[o] = 0 /\ b.seqs[o] \notin S!SeqsOf(b.dev)
  BY DEF Commits, S!Clash
<1>7. L \in Nat /\ S!SeqsOf(b.dev) = 1..L
  BY <1>3 DEF Base, Contiguous, S!LedgerContiguous
<1>8. \A o \in F : b.seqs[o] > L
  <2>1. SUFFICES ASSUME NEW o \in F PROVE b.seqs[o] > L
    OBVIOUS
  <2>2. b.seqs[o] \in Nat /\ b.seqs[o] # 0 /\ b.seqs[o] \notin 1..L
    BY <1>3, <1>4, <1>5, <1>6, <1>7
  <2>3. QED
    BY <1>7, <2>2
<1>9. ASSUME F # {}
      PROVE  \E n \in Nat : n >= L /\ {b.seqs[o] : o \in F} = (L + 1)..n
  <2>1. PICK l, n \in Nat : l <= L /\ {b.seqs[o] : o \in F} = (l + 1)..n
    BY <1>2, <1>9 DEF Continued
  <2>2. PICK o \in F : TRUE
    BY <1>9
  <2>3. b.seqs[o] \in (l + 1)..n /\ b.seqs[o] > L
    BY <1>8, <2>1
  <2>4. l + 1 \in (l + 1)..n /\ n > L
    BY <1>7, <2>1, <2>3
  <2>5. PICK p \in F : b.seqs[p] = l + 1
    BY <2>1, <2>4
  <2>6. l = L
    <3>1. l + 1 > L
      BY <1>8, <2>5
    <3>2. QED
      BY <1>7, <2>1, <3>1
  <2>7. QED
    BY <1>7, <2>1, <2>4, <2>6
<1>10. QED
  BY <1>2, <1>3, <1>4, <1>5, <1>6, <1>7, <1>8, <1>9 DEF Inserts

\* The ledger stays a run from 1, and never loses ground.
LEMMA CommitRuns ==
    ASSUME Base, NEW w \in Worker, Commits(w)
    PROVE  /\ Contiguous'
           /\ \A d \in Device : S!LastSeq(d) \in Nat /\ S!LastSeq(d) <= S!LastSeq(d)'
           /\ stored' \in [Op -> Nat]
           /\ \A o \in Op : stored[o] # 0 => stored'[o] = stored[o]
           /\ \A o \in Op : stored'[o] # 0 => status[o] # "unborn"
<1>1. PICK b, F : b = txn[w].req.body /\ F = txn[w].fresh
  OBVIOUS
<1>2. PICK L : L = S!LastSeq(b.dev)
  OBVIOUS
<1>3. /\ b.kind = "submit" /\ b.dev \in Device /\ b.seqs \in [Op -> Nat]
      /\ F \subseteq Op
      /\ \A o \in Op : b.seqs[o] # 0 => OpDevice[o] = b.dev /\ status[o] # "unborn"
      /\ \A o \in Op : b.seqs[o] # 0 => o \in F \/ stored[o] # 0
      /\ \A o \in F : stored[o] = 0 /\ b.seqs[o] # 0 /\ b.seqs[o] > L
      /\ \A o, p \in F : b.seqs[o] = b.seqs[p] => o = p
      /\ L \in Nat
      /\ F # {} => \E n \in Nat : n >= L /\ {b.seqs[o] : o \in F} = (L + 1)..n
  <2>1. Inserts(b, F, L)
    BY <1>1, <1>2, CommitContinues
  <2>2. QED
    BY <2>1 DEF Inserts
<1>4. stored' = [o \in Op |-> IF o \in F THEN b.seqs[o] ELSE stored[o]]
  BY <1>1 DEF Commits
<1>5. stored \in [Op -> Nat]
  BY DEF Base, Outbox
<1>6. /\ stored' \in [Op -> Nat]
      /\ \A o \in Op : stored'[o] = IF o \in F THEN b.seqs[o] ELSE stored[o]
  BY <1>3, <1>4, <1>5
<1>7. \A o \in Op : stored[o] # 0 => stored'[o] = stored[o]
  BY <1>3, <1>6
<1>8. \A o \in Op : stored'[o] # 0 => status[o] # "unborn"
  BY <1>3, <1>6 DEF Base, Born
<1>9. \A d : S!SeqsOf(d)' = {stored'[o] : o \in {p \in Op : OpDevice[p] = d}} \ {0}
  BY DEF S!SeqsOf
<1>10. \A d : S!SeqsOf(d) = {stored[o] : o \in {p \in Op : OpDevice[p] = d}} \ {0}
  BY DEF S!SeqsOf
<1>11. \A d : S!LastSeq(d)' = S!Max(S!SeqsOf(d)' \cup {0}) /\ S!LastSeq(d) = S!Max(S!SeqsOf(d) \cup {0})
  BY DEF S!LastSeq
<1>12. \A d \in Device :
          /\ S!LastSeq(d) \in Nat /\ S!SeqsOf(d) = 1..S!LastSeq(d)
          /\ \A o, p \in Op :
                OpDevice[o] = d /\ OpDevice[p] = d /\ stored[o] # 0 /\ stored[o] = stored[p]
                => o = p
  BY DEF Base, Contiguous, S!LedgerContiguous
<1>13. ASSUME NEW d \in Device
       PROVE  /\ S!LastSeq(d)' \in Nat /\ S!LastSeq(d) <= S!LastSeq(d)'
              /\ S!SeqsOf(d)' = 1..(S!LastSeq(d)')
              /\ \A o, p \in Op :
                    OpDevice[o] = d /\ OpDevice[p] = d /\ stored'[o] # 0
                    /\ stored'[o] = stored'[p] => o = p
  <2>1. CASE d # b.dev \/ F = {}
    <3>1. \A o \in Op : OpDevice[o] = d => stored'[o] = stored[o]
      BY <1>3, <1>6, <2>1
    <3>2. S!SeqsOf(d)' = S!SeqsOf(d)
      BY <1>9, <1>10, <3>1
    <3>3. S!LastSeq(d)' = S!LastSeq(d)
      BY <1>11, <3>2
    <3>4. QED
      BY <1>12, <3>1, <3>2, <3>3
  <2>2. CASE d = b.dev /\ F # {}
    <3>1. PICK n \in Nat : n >= L /\ {b.seqs[o] : o \in F} = (L + 1)..n
      BY <1>3, <2>2
    <3>2. L = S!LastSeq(d) /\ S!SeqsOf(d) = 1..L
      BY <1>2, <1>12, <2>2
    <3>3. S!SeqsOf(d)' = 1..n
      <4>1. ASSUME NEW x \in S!SeqsOf(d)' PROVE x \in 1..n
        <5>1. PICK o \in Op : OpDevice[o] = d /\ x = stored'[o] /\ x # 0
          BY <1>9, <4>1
        <5>2. CASE o \in F
          <6>1. x \in (L + 1)..n
            BY <1>6, <3>1, <5>1, <5>2
          <6>2. QED
            BY <1>3, <6>1
        <5>3. CASE o \notin F
          <6>1. x \in S!SeqsOf(d)
            BY <1>6, <1>10, <5>1, <5>3
          <6>2. x \in 1..L
            BY <3>2, <6>1
          <6>3. QED
            BY <1>3, <3>1, <6>2
        <5>4. QED
          BY <5>2, <5>3
      <4>2. ASSUME NEW x \in 1..n PROVE x \in S!SeqsOf(d)'
        <5>1. CASE x \in 1..L
          <6>1. PICK o \in Op : OpDevice[o] = d /\ x = stored[o] /\ x # 0
            BY <1>10, <3>2, <5>1
          <6>2. stored'[o] = x
            BY <1>7, <6>1
          <6>3. QED
            BY <1>9, <6>1, <6>2
        <5>2. CASE x \notin 1..L
          <6>1. x \in (L + 1)..n /\ x # 0
            BY <1>3, <4>2, <5>2
          <6>2. PICK o \in F : b.seqs[o] = x
            BY <3>1, <6>1
          <6>3. o \in Op /\ OpDevice[o] = d /\ stored'[o] = x
            BY <1>3, <1>6, <2>2, <6>2
          <6>4. QED
            BY <1>9, <6>1, <6>3
        <5>3. QED
          BY <5>1, <5>2
      <4>3. QED
        BY <4>1, <4>2
    <3>4. S!LastSeq(d)' = n
      BY <1>11, <3>3, GreatestOfRun
    <3>5. ASSUME NEW o \in Op, NEW p \in Op, OpDevice[o] = d, OpDevice[p] = d,
                 stored'[o] # 0, stored'[o] = stored'[p]
          PROVE  o = p
      <4>1. \A x \in Op : x \notin F /\ OpDevice[x] = d /\ stored'[x] # 0 =>
                 stored[x] = stored'[x] /\ stored[x] \in 1..L
        BY <1>6, <1>10, <3>2
      <4>2. \A x \in F : stored'[x] = b.seqs[x] /\ b.seqs[x] > L
        BY <1>3, <1>6
      <4>3. CASE o \in F /\ p \in F
        BY <1>3, <3>5, <4>2, <4>3
      <4>4. CASE o \notin F /\ p \notin F
        BY <1>12, <3>5, <4>1, <4>4
      <4>5. \A x \in F, y \in Op : y \notin F /\ OpDevice[y] = d /\ stored'[y] # 0 =>
                 stored'[x] # stored'[y]
        BY <1>3, <4>1, <4>2
      <4>6. QED
        BY <3>5, <4>3, <4>4, <4>5
    <3>6. QED
      BY <1>3, <3>1, <3>2, <3>3, <3>4, <3>5
  <2>3. QED
    BY <2>1, <2>2
<1>14. Contiguous'
  BY <1>13 DEF Contiguous, S!LedgerContiguous
<1>15. QED
  BY <1>6, <1>7, <1>8, <1>12, <1>13, <1>14

LEMMA CommitKeeps ==
    ASSUME Base, Aside, NEW w \in Worker, Commits(w)
    PROVE  /\ Outbox' /\ Post' /\ Books' /\ Handlers' /\ Contiguous' /\ Born'
           /\ \A r \in Letters' : r \in Letters
<1>1. PICK b, F, ack : b = txn[w].req.body /\ F = txn[w].fresh /\ ack = S!Ack(txn[w])
  OBVIOUS
<1>2. txn[w].req \in Letters /\ b = txn[w].req.body /\ Proper(b)
  BY <1>1 DEF Commits, Letters, S!Idle, Base, Post
<1>3. /\ Contiguous'
      /\ \A d \in Device : S!LastSeq(d) \in Nat /\ S!LastSeq(d) <= S!LastSeq(d)'
      /\ stored' \in [Op -> Nat]
      /\ \A o \in Op : stored'[o] # 0 => status[o] # "unborn"
  BY CommitRuns
<1>4. /\ txn' = [txn EXCEPT ![w] = S!Idle]
      /\ answers' = answers \cup {[req |-> txn[w].req, says |-> ack]}
      /\ idem' = idem \cup {[body |-> b, answer |-> ack]}
  BY <1>1 DEF Commits
<1>5. \A r \in Letters' : r \in Letters
  <2>1. PICK t : t = S!Idle
    OBVIOUS
  <2>2. txn' = [txn EXCEPT ![w] = t] /\ \A a \in answers' : a \in answers \/ a.req \in Letters
    BY <1>2, <1>4, <2>1
  <2>3. QED
    BY <2>1, <2>2, LettersShrink
<1>6. Outbox' /\ Post' /\ \A x : Proper(x) => Proper(x)'
  BY <1>3, <1>5, AsideKeeps
<1>7. Entered(ack, b)
  BY <1>1 DEF Entered, S!Ack, S!Ops
<1>8. Books'
  <2>1. \A x, y : Entered(x, y) => Entered(x, y)'
    BY DEF Entered
  <2>2. \A e \in idem' : Proper(e.body) /\ Entered(e.answer, e.body)
    BY <1>2, <1>4, <1>7 DEF Base, Books
  <2>3. \A a \in answers' : Entered(a.says, a.req.body)
    BY <1>2, <1>4, <1>7 DEF Base, Books
  <2>4. QED
    BY <1>6, <2>1, <2>2, <2>3 DEF Books
<1>9. Handlers'
  <2>1. \A v \in Worker : txn'[v] = txn[v] \/ txn'[v] = S!Idle
    BY <1>4 DEF Base, Inv, ServerInv
  <2>2. \A x : Routed(x) => Routed(x)'
    BY DEF Routed
  <2>3. \A x, G : x.dev \in Device /\ Continued(x, G) => Continued(x, G)'
    <3>1. SUFFICES ASSUME NEW x, NEW G, x.dev \in Device, Continued(x, G)
                   PROVE  Continued(x, G)'
      OBVIOUS
    <3>2. PICK L, M : L = S!LastSeq(x.dev) /\ M = S!LastSeq(x.dev)'
      OBVIOUS
    <3>3. L \in Nat /\ M \in Nat /\ L <= M
      BY <1>3, <3>1, <3>2 DEF Contiguous
    <3>4. ASSUME G # {} PROVE \E l, n \in Nat : l <= M /\ {x.seqs[o] : o \in G} = (l + 1)..n
      <4>1. PICK l, n \in Nat : l <= L /\ {x.seqs[o] : o \in G} = (l + 1)..n
        BY <3>1, <3>2, <3>4 DEF Continued
      <4>2. l <= M
        BY <3>3, <4>1
      <4>3. QED
        BY <4>1, <4>2
    <3>5. G \subseteq Op /\ \A o, p \in G : x.seqs[o] = x.seqs[p] => o = p
      BY <3>1 DEF Continued
    <3>6. QED
      BY <3>2, <3>4, <3>5 DEF Continued
  <2>4. ASSUME NEW v \in Worker
        PROVE  /\ Routed(txn'[v])
               /\ txn'[v].pc = "write" =>
                     \E x, G : x = txn'[v].req.body /\ G = txn'[v].fresh /\ Continued(x, G)'
    <3>1. CASE txn'[v] = S!Idle
      BY <3>1 DEF S!Idle, Routed
    <3>2. CASE txn'[v] = txn[v]
      <4>1. Routed(txn[v])
        BY DEF Base, Handlers
      <4>2. PICK x, G : x = txn[v].req.body /\ G = txn[v].fresh
        OBVIOUS
      <4>3. ASSUME txn[v].pc = "write" PROVE Continued(x, G)'
        <5>1. txn[v].req \in Letters /\ txn[v].req.body.kind = "submit"
          BY <4>1, <4>3 DEF Letters, S!Idle, Routed
        <5>2. x.dev \in Device
          BY <4>2, <5>1 DEF Base, Post, Proper
        <5>3. Continued(x, G)
          BY <4>2, <4>3 DEF Base, Handlers
        <5>4. QED
          BY <2>3, <5>2, <5>3
      <4>4. QED
        BY <3>2, <4>1, <4>2, <4>3
    <3>3. QED
      BY <2>1, <3>1, <3>2
  <2>5. QED
    BY <2>2, <2>4 DEF Handlers
<1>10. Born'
  BY <1>3 DEF Aside, Base, Born
<1>11. QED
  BY <1>3, <1>5, <1>6, <1>8, <1>9, <1>10

-----------------------------------------------------------------------------
(* What the phones do, seen from the queue.                                  *)

\* A phone acts: the server only loses answers.
Phoned ==
    /\ UNCHANGED <<stored, idem, txn>>
    /\ answers' \subseteq answers

\* A place of the engine that awaits nothing.
Silent(e) == e.pc \notin {"submit", "get", "presign", "put", "confirm", "complete"}

\* A call that sends no batch but the one being sent.
Calling(d, e) ==
    /\ ~Silent(e)
    /\ Waiting(e)
    /\ e.req.from \in Device
    /\ e.req.body.kind # "submit" \/ \E r \in Letters : r.body = e.req.body
    /\ e.pc = "submit" => Awaits(d, "submit") /\ e.req.body = engine[d].req.body
    /\ e.pc # "decide"

\* The engine goes from one call to the next, or ends its pass.
Moves(d) ==
    \E e : /\ engine' = [engine EXCEPT ![d] = e]
           /\ \/ Silent(e) /\ e.pc # "decide" /\ net' \subseteq net
              \/ Calling(d, e) /\ net' \subseteq net \cup {e.req}

LEMMA StopMoves == ASSUME NEW d \in Device, Stop(d) PROVE Moves(d)
<1>1. PICK e : e = Rest
  OBVIOUS
<1>2. Silent(e) /\ e.pc # "decide"
  BY <1>1 DEF Silent, Rest
<1>3. QED
  BY <1>1, <1>2 DEF Moves, Stop

LEMMA CallMoves ==
    ASSUME NEW d \in Device, NEW pass, NEW pc, NEW body, Call(d, pass, pc, body),
           pc \in {"get", "presign", "put", "confirm", "complete"}, body.kind # "submit"
    PROVE  Moves(d)
<1>1. PICK n : n = NewAttempt(d)
  OBVIOUS
<1>2. PICK r : r = [from |-> d, attempt |-> n, body |-> body]
  OBVIOUS
<1>3. PICK e : e = [pc |-> pc, pass |-> pass, req |-> r, round |-> 1]
  OBVIOUS
<1>4. engine' = [engine EXCEPT ![d] = e] /\ net' = net \cup {e.req}
  BY <1>1, <1>2, <1>3 DEF Call
<1>5. r.from = d /\ r.body = body /\ e.req = r /\ e.pc = pc
  BY <1>2, <1>3
<1>6. r = [from |-> r.from, attempt |-> r.attempt, body |-> r.body]
  BY <1>2
<1>7. e = [pc |-> e.pc, pass |-> e.pass, req |-> e.req, round |-> e.round]
  BY <1>3
<1>8. Calling(d, e)
  BY <1>5, <1>6, <1>7 DEF Calling, Waiting, Silent
<1>9. QED
  BY <1>4, <1>8 DEF Moves

LEMMA ProceedMoves ==
    ASSUME NEW d \in Device, NEW pass, NEW ver, NEW done, Proceed(d, pass, ver, done)
    PROVE  Moves(d)
<1>1. ASSUME NEW g, NEW p, Call(d, p, "presign", [kind |-> "presign", digest |-> g]) PROVE Moves(d)
  <2>1. PICK body, pc : body = [kind |-> "presign", digest |-> g] /\ pc = "presign"
    OBVIOUS
  <2>2. body.kind # "submit" /\ pc \in {"get", "presign", "put", "confirm", "complete"}
    BY <2>1
  <2>3. QED
    BY <1>1, <2>1, <2>2, CallMoves
<1>2. ASSUME Call(d, pass, "complete", [kind |-> "complete", base |-> ver]) PROVE Moves(d)
  <2>1. PICK body, pc : body = [kind |-> "complete", base |-> ver] /\ pc = "complete"
    OBVIOUS
  <2>2. body.kind # "submit" /\ pc \in {"get", "presign", "put", "confirm", "complete"}
    BY <2>1
  <2>3. QED
    BY <1>2, <2>1, <2>2, CallMoves
<1>3. QED
  BY <1>1, <1>2, StopMoves DEF Proceed

\* A retry carries the same body.
LEMMA AgainMoves ==
    ASSUME Base, NEW d \in Device, Awaiting(d), Again(d)
    PROVE  Moves(d)
<1>1. Waiting(engine[d]) /\ engine[d].req \in Letters /\ engine[d].req.from \in Device
  BY DEF Base, Outbox, Phone, Letters, Post
<1>2. PICK pc, pass, req, round :
         pc = engine[d].pc /\ pass = engine[d].pass /\ req = engine[d].req
         /\ round = engine[d].round
  OBVIOUS
<1>3. PICK from, attempt, body : from = req.from /\ attempt = req.attempt /\ body = req.body
  OBVIOUS
<1>4. /\ engine[d] = [pc |-> pc, pass |-> pass, req |-> req, round |-> round]
      /\ req = [from |-> from, attempt |-> attempt, body |-> body]
  BY <1>1, <1>2, <1>3 DEF Waiting
<1>5. pc # "decide" /\ from \in Device /\ \E r \in Letters : r.body = body
  BY <1>1, <1>2, <1>3 DEF Awaiting
<1>6. CASE engine' = [engine EXCEPT ![d].round = @ + 1] /\ UNCHANGED net
  <2>1. PICK e, next : e = [engine[d] EXCEPT !.round = @ + 1] /\ next = round + 1
    OBVIOUS
  <2>2. e = [pc |-> pc, pass |-> pass, req |-> req, round |-> next]
    BY <1>4, <2>1
  <2>3. /\ e = [pc |-> e.pc, pass |-> e.pass, req |-> e.req, round |-> e.round]
        /\ e.req = req /\ e.pc = pc
    BY <2>2
  <2>4. Calling(d, e)
    BY <1>2, <1>3, <1>4, <1>5, <2>3 DEF Calling, Waiting, Awaits, Silent, Awaiting
  <2>5. QED
    BY <1>6, <2>1, <2>4 DEF Moves
<1>7. CASE LET r == [engine[d].req EXCEPT !.attempt = NewAttempt(d)] IN
           /\ engine' = [engine EXCEPT ![d].round = @ + 1, ![d].req = r]
           /\ net' = net \cup {r}
  <2>1. PICK n, next : n = NewAttempt(d) /\ next = round + 1
    OBVIOUS
  <2>2. PICK r : r = [engine[d].req EXCEPT !.attempt = NewAttempt(d)]
    OBVIOUS
  <2>3. r = [from |-> from, attempt |-> n, body |-> body]
    <3>1. r = [req EXCEPT !.attempt = n]
      BY <1>2, <2>1, <2>2
    <3>2. QED
      BY <1>4, <3>1
  <2>4. r.from = from /\ r.body = body /\ r = [from |-> r.from, attempt |-> r.attempt, body |-> r.body]
    BY <2>3
  <2>5. PICK e : e = [engine[d] EXCEPT !.round = @ + 1, !.req = r]
    OBVIOUS
  <2>6. PICK f : f = [engine[d] EXCEPT !.round = @ + 1]
    OBVIOUS
  <2>7. f = [pc |-> pc, pass |-> pass, req |-> req, round |-> next]
    BY <1>4, <2>1, <2>6
  <2>8. e = [f EXCEPT !.req = r]
    BY <2>5, <2>6
  <2>9. e = [pc |-> pc, pass |-> pass, req |-> r, round |-> next]
    BY <2>7, <2>8
  <2>10. /\ e = [pc |-> e.pc, pass |-> e.pass, req |-> e.req, round |-> e.round]
         /\ e.req = r /\ e.pc = pc
    BY <2>9
  <2>11. Calling(d, e)
    BY <1>2, <1>3, <1>4, <1>5, <2>4, <2>10 DEF Calling, Waiting, Awaits, Silent, Awaiting
  <2>12. engine' = [engine EXCEPT ![d] = e] /\ net' = net \cup {e.req}
    <3>1. /\ engine' = [engine EXCEPT ![d].round = @ + 1, ![d].req = r]
          /\ net' = net \cup {r}
      BY <1>7, <2>2
    <3>2. engine' = [engine EXCEPT ![d] = e]
      BY <2>5, <3>1
    <3>3. QED
      BY <2>10, <3>1, <3>2
  <2>13. QED
    BY <2>11, <2>12 DEF Moves
<1>8. QED
  BY <1>6, <1>7 DEF Again

LEMMA GiveUpMoves == ASSUME NEW d \in Device, GiveUp(d) PROVE Moves(d)
BY StopMoves, ProceedMoves DEF GiveUp

LEMMA PresignedMoves ==
    ASSUME Base, NEW d \in Device, Awaits(d, "presign"), UNCHANGED net,
           engine' = [engine EXCEPT ![d].pc = "put", ![d].round = 1]
    PROVE  Moves(d)
<1>1. Waiting(engine[d]) /\ engine[d].req \in Letters /\ engine[d].req.from \in Device
  BY DEF Base, Outbox, Phone, Letters, Post, Awaiting, Awaits
<1>2. PICK pc, pass, req, round, put, one :
         /\ pc = engine[d].pc /\ pass = engine[d].pass /\ req = engine[d].req
         /\ round = engine[d].round /\ put = "put" /\ one = 1
  OBVIOUS
<1>3. engine[d] = [pc |-> pc, pass |-> pass, req |-> req, round |-> round]
  BY <1>1, <1>2 DEF Waiting
<1>4. PICK e : e = [engine[d] EXCEPT !.pc = put, !.round = one]
  OBVIOUS
<1>5. PICK f : f = [engine[d] EXCEPT !.pc = put]
  OBVIOUS
<1>6. f = [pc |-> put, pass |-> pass, req |-> req, round |-> round]
  BY <1>3, <1>5
<1>7. e = [f EXCEPT !.round = one]
  BY <1>4, <1>5
<1>8. e = [pc |-> put, pass |-> pass, req |-> req, round |-> one]
  BY <1>6, <1>7
<1>9. /\ e = [pc |-> e.pc, pass |-> e.pass, req |-> e.req, round |-> e.round]
      /\ e.req = req /\ e.pc = "put"
  BY <1>2, <1>8
<1>10. req = [from |-> req.from, attempt |-> req.attempt, body |-> req.body]
  BY <1>1, <1>2 DEF Waiting
<1>11. Calling(d, e)
  BY <1>1, <1>2, <1>9, <1>10 DEF Calling, Waiting, Silent
<1>12. engine' = [engine EXCEPT ![d] = e]
  BY <1>2, <1>4
<1>13. QED
  BY <1>11, <1>12 DEF Moves

\* A step of a phone that leaves its queue alone.
Still(d) ==
    /\ Phoned
    /\ UNCHANGED <<seq, status, batches, shared>>
    /\ Moves(d)
    /\ command' = command \/ command' = [command EXCEPT ![d] = Rest]
    /\ \/ conflict' = conflict
       \/ \E c : conflict' = [conflict EXCEPT ![d] = c] /\ (c.open => c.last \in Nat)
    /\ shared => engine[d] # Rest \/ command'[d] = Rest \/ engine'[d] = Rest

LEMMA BusyAwaiting == ASSUME NEW d, Awaiting(d) PROVE engine[d] # Rest
BY DEF Awaiting, Rest

LEMMA BusyAwaits == ASSUME NEW d, NEW pc, pc # "idle", Awaits(d, pc) PROVE engine[d] # Rest
BY DEF Awaits, Rest

LEMMA StillBegin ==
    ASSUME Base, NEW d \in Device, NEW override, BeginPass(d, override),
           shared => engine[d] # Rest \/ command[d] = Rest
    PROVE  Still(d)
<1> USE DEF serverVars, outboxVars, stateVars
<1>1. PICK e : e = [pc |-> "token",
                    pass |-> [survey |-> packet[d],
                              sends |-> IF override = {} THEN packet[d]
                                        ELSE CHOOSE s \in override : TRUE,
                              todo |-> {}, current |-> {}, failed |-> FALSE]]
  OBVIOUS
<1>2. e.pc = "token"
  BY <1>1
<1>3. engine' = [engine EXCEPT ![d] = e] /\ net' = net
  BY <1>1 DEF BeginPass
<1>4. Moves(d)
  BY <1>2, <1>3 DEF Moves, Silent
<1>5. PICK c : c = NoConflict
  OBVIOUS
<1>6. conflict' = [conflict EXCEPT ![d] = c] /\ ~c.open
  BY <1>5 DEF BeginPass, NoConflict
<1>7. Phoned /\ UNCHANGED <<seq, status, batches, shared>> /\ command' = command
  BY DEF BeginPass, Phoned
<1>8. QED
  BY <1>4, <1>6, <1>7 DEF Still

\* The opened conflict has the server's last number, or 0.
LEMMA OpenedConflict ==
    ASSUME Base, NEW d \in Device, NEW a \in answers, OpenConflict(d, a)
    PROVE  \E c : conflict' = [conflict EXCEPT ![d] = c] /\ (c.open => c.last \in Nat)
<1>1. CASE a.says.code = "conflict"
  <2>1. PICK c : c = [open |-> TRUE, last |-> a.says.last, snapshot |-> {a.says.snapshot}]
    OBVIOUS
  <2>2. a.says.last \in Nat
    BY <1>1 DEF Base, Books, Entered
  <2>3. c.last \in Nat
    BY <2>1, <2>2
  <2>4. conflict' = [conflict EXCEPT ![d] = c]
    BY <1>1, <2>1 DEF OpenConflict
  <2>5. QED
    BY <2>3, <2>4
<1>2. CASE a.says.code # "conflict"
  <2>1. PICK c : c = [open |-> TRUE, last |-> 0, snapshot |-> {}]
    OBVIOUS
  <2>2. c.last \in Nat
    BY <2>1
  <2>3. conflict' = [conflict EXCEPT ![d] = c]
    BY <1>2, <2>1 DEF OpenConflict
  <2>4. QED
    BY <2>2, <2>3
<1>3. QED
  BY <1>1, <1>2

\* Everything the engine does between reading the outbox and marking it, and every
\* fault, leaves the queue alone.
LEMMA StillEngine ==
    ASSUME Base, NEW d \in Device,
           \/ SyncSurvey(d) \/ SyncDecision(d) \/ Conflicted(d) \/ Refused(d) \/ StateRead(d)
           \/ SurveyCompleted(d) \/ TransientAnswer(d) \/ Presigned(d) \/ Upload(d)
           \/ UploadRefused(d) \/ MediaConfirmed(d) \/ MediaRefused(d) \/ Fault(d)
    PROVE  Still(d)
<1> USE DEF serverVars, outboxVars, stateVars, S!dbVars, S!queueVars
<1>1. ASSUME Phoned, UNCHANGED <<seq, status, batches, shared, command, conflict>>, Moves(d),
             engine[d] # Rest
      PROVE  Still(d)
  BY <1>1 DEF Still
<1>2. ASSUME NEW pc, pc # "idle", Awaits(d, pc) PROVE engine[d] # Rest
  BY <1>2, BusyAwaits
<1>3. CASE SyncSurvey(d)
  <2>1. PICK override : override = {}
    OBVIOUS
  <2>2. BeginPass(d, override) /\ (shared => command[d] = Rest)
    BY <1>3, <2>1 DEF SyncSurvey, Turn
  <2>3. QED
    BY <2>2, StillBegin
<1>4. CASE SyncDecision(d)
  <2>1. engine[d] # Rest
    BY <1>4 DEF SyncDecision, Awaits, Rest
  <2>2. QED
    BY <1>4, <2>1, StillBegin DEF SyncDecision
<1>5. CASE Conflicted(d)
  <2>1. PICK a \in answers : OpenConflict(d, a) /\ Received(d, a) /\ Stop(d)
    BY <1>5 DEF Conflicted, Received
  <2>2. engine[d] # Rest
    BY <1>5 DEF Conflicted, Awaits, Rest
  <2>3. Phoned /\ UNCHANGED <<seq, status, batches, shared, command>>
    BY <1>5, <2>1 DEF Conflicted, Phoned, Received
  <2>4. \E c : conflict' = [conflict EXCEPT ![d] = c] /\ (c.open => c.last \in Nat)
    BY <2>1, OpenedConflict
  <2>5. QED
    BY <2>1, <2>2, <2>3, <2>4, StopMoves DEF Still
<1>6. CASE Refused(d)
  <2>1. engine[d] # Rest
    BY <1>6 DEF Refused, Awaits, Rest
  <2>2. Phoned /\ UNCHANGED <<seq, status, batches, shared, command, conflict>> /\ Stop(d)
    BY <1>6 DEF Refused, Phoned, Received
  <2>3. QED
    BY <1>1, <2>1, <2>2, StopMoves
<1>7. CASE StateRead(d)
  <2>1. engine[d] # Rest
    BY <1>7 DEF StateRead, Awaits, Rest
  <2>2. Phoned /\ UNCHANGED <<seq, status, batches, shared, command, conflict>>
    BY <1>7 DEF StateRead, Phoned, Received
  <2>3. \E p, v, c : Proceed(d, p, v, c)
    BY <1>7 DEF StateRead
  <2>4. QED
    BY <1>1, <2>1, <2>2, <2>3, ProceedMoves
<1>8. CASE SurveyCompleted(d)
  <2>1. engine[d] # Rest
    BY <1>8 DEF SurveyCompleted, Awaits, Rest
  <2>2. Phoned /\ UNCHANGED <<seq, status, batches, shared, command, conflict>> /\ Stop(d)
    BY <1>8 DEF SurveyCompleted, Phoned, Received
  <2>3. QED
    BY <1>1, <2>1, <2>2, StopMoves
<1>9. CASE TransientAnswer(d)
  <2>1. Awaiting(d) /\ (Again(d) \/ GiveUp(d))
    BY <1>9 DEF TransientAnswer
  <2>2. Phoned /\ UNCHANGED <<seq, status, batches, shared, command, conflict>>
    BY <1>9 DEF TransientAnswer, Phoned, Received
  <2>3. QED
    BY <1>1, <2>1, <2>2, AgainMoves, GiveUpMoves, BusyAwaiting
<1>10. CASE Presigned(d)
  <2>1. /\ Awaits(d, "presign") /\ UNCHANGED net
        /\ engine' = [engine EXCEPT ![d].pc = "put", ![d].round = 1]
    BY <1>10 DEF Presigned
  <2>2. Phoned /\ UNCHANGED <<seq, status, batches, shared, command, conflict>>
    BY <1>10 DEF Presigned, Phoned, Received
  <2>3. QED
    BY <1>1, <1>2, <2>1, <2>2, PresignedMoves
<1>11. CASE Upload(d)
  <2>1. PICK g : S!PutObject(g) /\ Call(d, engine[d].pass, "confirm", [kind |-> "confirm", digest |-> g])
    BY <1>11 DEF Upload
  <2>2. PICK pass, pc, body :
           pass = engine[d].pass /\ pc = "confirm" /\ body = [kind |-> "confirm", digest |-> g]
    OBVIOUS
  <2>3. /\ body.kind # "submit" /\ pc \in {"get", "presign", "put", "confirm", "complete"}
        /\ Call(d, pass, pc, body)
    BY <2>1, <2>2
  <2>4. Phoned /\ UNCHANGED <<seq, status, batches, shared, command, conflict>>
    BY <1>11, <2>1 DEF Upload, Phoned, S!PutObject
  <2>5. engine[d] # Rest
    BY <1>11 DEF Upload, Awaits, Rest
  <2>6. QED
    BY <1>1, <2>3, <2>4, <2>5, CallMoves
<1>12. CASE UploadRefused(d)
  <2>1. engine[d] # Rest
    BY <1>12 DEF UploadRefused, Awaits, Rest
  <2>2. Phoned /\ UNCHANGED <<seq, status, batches, shared, command, conflict>>
    BY <1>12 DEF UploadRefused, Phoned
  <2>3. \E p, v, c : Proceed(d, p, v, c)
    BY <1>12 DEF UploadRefused
  <2>4. QED
    BY <1>1, <2>1, <2>2, <2>3, ProceedMoves
<1>13. CASE MediaConfirmed(d)
  <2>1. engine[d] # Rest
    BY <1>13 DEF MediaConfirmed, Awaits, Rest
  <2>2. Phoned /\ UNCHANGED <<seq, status, batches, shared, command, conflict>>
    BY <1>13 DEF MediaConfirmed, Phoned, Received
  <2>3. \E p, v, c : Proceed(d, p, v, c)
    BY <1>13 DEF MediaConfirmed
  <2>4. QED
    BY <1>1, <2>1, <2>2, <2>3, ProceedMoves
<1>14. CASE MediaRefused(d)
  <2>1. engine[d] # Rest
    BY <1>14 DEF MediaRefused, Awaits, Rest
  <2>2. Phoned /\ UNCHANGED <<seq, status, batches, shared, command, conflict>>
    BY <1>14 DEF MediaRefused, Phoned, Received
  <2>3. \E p, v, c : Proceed(d, p, v, c)
    BY <1>14 DEF MediaRefused
  <2>4. QED
    BY <1>1, <2>1, <2>2, <2>3, ProceedMoves
<1>15. CASE NoToken(d)
  <2>1. engine[d] # Rest
    BY <1>15 DEF NoToken, Awaits, Rest
  <2>2. Phoned /\ UNCHANGED <<seq, status, batches, shared, command, conflict>> /\ Stop(d)
    BY <1>15 DEF NoToken, Phoned
  <2>3. QED
    BY <1>1, <2>1, <2>2, StopMoves
<1>16. CASE NetworkError(d)
  <2>1. Awaiting(d) /\ (Again(d) \/ GiveUp(d))
    BY <1>16 DEF NetworkError
  <2>2. Phoned /\ UNCHANGED <<seq, status, batches, shared, command, conflict>>
    BY <1>16 DEF NetworkError, Phoned
  <2>3. QED
    BY <1>1, <2>1, <2>2, AgainMoves, GiveUpMoves, BusyAwaiting
<1>17. CASE Unauthorized(d)
  <2>1. engine[d] # Rest
    BY <1>17 DEF Unauthorized, Rest
  <2>2. Phoned /\ UNCHANGED <<seq, status, batches, shared, command, conflict>>
    BY <1>17 DEF Unauthorized, Phoned
  <2>3. PICK e : e = Rest
    OBVIOUS
  <2>4. engine' = [engine EXCEPT ![d] = e] /\ net' \subseteq net /\ Silent(e) /\ e.pc # "decide"
    BY <1>17, <2>3 DEF Unauthorized, Silent, Rest
  <2>5. QED
    BY <1>1, <2>1, <2>2, <2>4 DEF Moves
<1>18. CASE AppClosed(d)
  <2>1. Phoned /\ UNCHANGED <<seq, status, batches, shared>> /\ Stop(d)
    BY <1>18 DEF AppClosed, Phoned
  <2>2. PICK c : c = NoConflict
    OBVIOUS
  <2>3. conflict' = [conflict EXCEPT ![d] = c] /\ ~c.open
    BY <1>18, <2>2 DEF AppClosed, NoConflict
  <2>4. command' = [command EXCEPT ![d] = Rest]
    BY <1>18 DEF AppClosed
  <2>5. command'[d] = Rest
    BY <2>4 DEF Base, Outbox
  <2>6. QED
    BY <2>1, <2>3, <2>4, <2>5, StopMoves DEF Still
<1>19. QED
  BY <1>3, <1>4, <1>5, <1>6, <1>7, <1>8, <1>9, <1>10, <1>11, <1>12, <1>13, <1>14, <1>15, <1>16,
     <1>17, <1>18 DEF Fault

-----------------------------------------------------------------------------
(* The phones' steps keep the invariant.                                     *)

LEMMA PhonedKeeps ==
    ASSUME Base, Phoned,
           \A d \in Device : batches'[d] \in Nat /\ batches[d] <= batches'[d],
           \A o \in Op : status[o] # "unborn" => status'[o] # "unborn"
    PROVE  Books' /\ Handlers' /\ Contiguous' /\ \A b : Proper(b) => Proper(b)'
<1>1. \A b : Proper(b) => Proper(b)'
  BY ProperStays DEF Base, Outbox
<1>2. \A x, b : Entered(x, b) => Entered(x, b)'
  BY DEF Entered
<1>3. Books'
  BY <1>1, <1>2 DEF Phoned, Base, Books
<1>4. \A d : S!LastSeq(d)' = S!LastSeq(d) /\ S!SeqsOf(d)' = S!SeqsOf(d)
  BY DEF Phoned, S!LastSeq, S!SeqsOf
<1>5. Contiguous'
  BY <1>4 DEF Phoned, Base, Contiguous, S!LedgerContiguous
<1>6. \A b, F : Continued(b, F) => Continued(b, F)'
  BY <1>4 DEF Continued
<1>7. \A t : Routed(t) => Routed(t)'
  BY DEF Routed
<1>8. Handlers'
  BY <1>6, <1>7 DEF Phoned, Base, Handlers
<1>9. QED
  BY <1>1, <1>3, <1>5, <1>8

\* The engine stands still.
LEMMA LettersRest ==
    ASSUME Phoned, engine' = engine, net' = net
    PROVE  \A r \in Letters' : r \in Letters
<1>1. \A d \in Device : Awaiting(d)' => Awaiting(d) /\ engine'[d].req = engine[d].req
  BY DEF Awaiting
<1>2. QED
  BY <1>1 DEF Phoned, Letters

\* The engine of one phone moves, and sends at most what it then waits for.
LEMMA LettersMove ==
    ASSUME Base, Phoned, NEW d \in Device, NEW e, engine' = [engine EXCEPT ![d] = e],
           net' \subseteq net \/ (~Silent(e) /\ net' \subseteq net \cup {e.req})
    PROVE  \A r \in Letters' : r \in Letters \/ (~Silent(e) /\ r = e.req)
<1>1. engine'[d] = e /\ \A c \in Device : c # d => engine'[c] = engine[c]
  BY DEF Base, Outbox
<1>2. ASSUME NEW c \in Device, Awaiting(c)'
      PROVE  engine'[c].req \in Letters \/ (~Silent(e) /\ engine'[c].req = e.req)
  <2>1. CASE c = d
    BY <1>1, <1>2, <2>1 DEF Awaiting, Silent
  <2>2. CASE c # d
    BY <1>1, <1>2, <2>2 DEF Awaiting, Letters
  <2>3. QED
    BY <2>1, <2>2
<1>3. \A r \in net' : r \in Letters \/ (~Silent(e) /\ r = e.req)
  BY DEF Letters
<1>4. \A w \in Worker : txn'[w] # S!Idle => txn'[w].req \in Letters
  BY DEF Phoned, Letters
<1>5. \A a \in answers' : a.req \in Letters
  BY DEF Phoned, Letters
<1>6. QED
  BY <1>2, <1>3, <1>4, <1>5 DEF Letters

\* What one phone does leaves the others as they were.
LEMMA OtherPhones ==
    ASSUME Outbox, NEW d \in Device, NEW e, engine' = [engine EXCEPT ![d] = e],
           NEW k, command' = [command EXCEPT ![d] = k],
           NEW c, conflict' = [conflict EXCEPT ![d] = c],
           \A o \in Op : status[o] # "unborn" => status'[o] # "unborn"
    PROVE  /\ engine'[d] = e /\ command'[d] = k /\ conflict'[d] = c
           /\ \A x \in Device : x # d => /\ engine'[x] = engine[x]
                                        /\ command'[x] = command[x]
                                        /\ conflict'[x] = conflict[x]
                                        /\ Phone(x)'
           /\ engine' = [x \in Device |-> engine'[x]]
           /\ command' = [x \in Device |-> command'[x]]
           /\ conflict' = [x \in Device |-> conflict'[x]]
<1>1. /\ engine'[d] = e /\ command'[d] = k /\ conflict'[d] = c
      /\ \A x \in Device : x # d => /\ engine'[x] = engine[x]
                                   /\ command'[x] = command[x]
                                   /\ conflict'[x] = conflict[x]
  BY DEF Outbox
<1>2. \A x \in Device : x # d => Phone(x)'
  <2>1. SUFFICES ASSUME NEW x \in Device, x # d PROVE Phone(x)'
    OBVIOUS
  <2>2. engine'[x] = engine[x] /\ command'[x] = command[x] /\ conflict'[x] = conflict[x]
    BY <1>1, <2>1
  <2>3. Phone(x)
    BY DEF Outbox
  <2>4. PICK y : y = engine[x]
    OBVIOUS
  <2>5. engine'[x] = y
    BY <2>2, <2>4
  <2>6. Weighed(y) => Weighed(y)'
    BY DEF Weighed
  <2>7. ASSUME engine'[x].pc = "decide" PROVE conflict'[x].open /\ Weighed(engine[x])'
    <3>1. conflict[x].open /\ Weighed(y)
      BY <2>3, <2>4, <2>5, <2>7 DEF Phone
    <3>2. Weighed(y)'
      BY <2>6, <3>1
    <3>3. QED
      BY <2>2, <2>5, <3>1, <3>2 DEF Weighed
  <2>8. QED
    BY <2>2, <2>3, <2>7 DEF Phone, Awaiting
<1>3. /\ engine' = [x \in Device |-> engine'[x]]
      /\ command' = [x \in Device |-> command'[x]]
      /\ conflict' = [x \in Device |-> conflict'[x]]
  BY DEF Outbox
<1>4. QED
  BY <1>1, <1>2, <1>3

\* A phone's step in full: engine, command and conflict of one phone.
Step(d, e, k, c) ==
    /\ Phoned
    /\ engine' = [engine EXCEPT ![d] = e]
    /\ command' = [command EXCEPT ![d] = k]
    /\ conflict' = [conflict EXCEPT ![d] = c]
    /\ net' \subseteq net \/ (~Silent(e) /\ net' \subseteq net \cup {e.req})

\* A value stays where it is.
LEMMA SameAt ==
    ASSUME Outbox, NEW d \in Device
    PROVE  /\ engine = [engine EXCEPT ![d] = engine[d]]
           /\ command = [command EXCEPT ![d] = command[d]]
           /\ conflict = [conflict EXCEPT ![d] = conflict[d]]
<1>1. ASSUME NEW f, f = [x \in Device |-> f[x]] PROVE f = [f EXCEPT ![d] = f[d]]
  BY <1>1
<1>2. QED
  BY <1>1 DEF Outbox

LEMMA StepKeeps ==
    ASSUME Base, NEW d \in Device, NEW e, NEW k, NEW c, Step(d, e, k, c),
           seq' \in [Op -> Nat],
           status' \in [Op -> {"unborn", "local", "pending", "acked", "superseded"}],
           batches' \in [Device -> Nat], \A x \in Device : batches[x] <= batches'[x],
           \A o \in Op : status[o] # "unborn" => status'[o] # "unborn",
           \A o \in Op : status'[o] # "unborn" => seq'[o] # 0,
           k # Rest => k.seq \in Nat \ {0},
           c.open => c.last \in Nat,
           e.pc = "decide" => c.open /\ Weighed(e),
           ~Silent(e) => Waiting(e) /\ e.req.from \in Device /\ Proper(e.req.body)'
    PROVE  /\ Outbox' /\ Post' /\ Books' /\ Handlers' /\ Contiguous' /\ Born'
           /\ \A r \in Letters' : r \in Letters \/ (~Silent(e) /\ r = e.req)
<1>1. /\ engine'[d] = e /\ command'[d] = k /\ conflict'[d] = c
      /\ \A x \in Device : x # d => Phone(x)'
      /\ engine' = [x \in Device |-> engine'[x]]
      /\ command' = [x \in Device |-> command'[x]]
      /\ conflict' = [x \in Device |-> conflict'[x]]
  BY OtherPhones DEF Base, Step
<1>2. Phone(d)'
  BY <1>1 DEF Phone, Awaiting, Silent, Waiting, Weighed
<1>3. Outbox'
  BY <1>1, <1>2 DEF Outbox, Base, Step, Phoned
<1>4. Books' /\ Handlers' /\ Contiguous' /\ \A b : Proper(b) => Proper(b)'
  BY PhonedKeeps DEF Step
<1>5. \A r \in Letters' : r \in Letters \/ (~Silent(e) /\ r = e.req)
  BY LettersMove DEF Step
<1>6. Post'
  BY <1>4, <1>5 DEF Base, Post
<1>7. Born'
  BY DEF Base, Born, Step, Phoned
<1>8. QED
  BY <1>3, <1>4, <1>5, <1>6, <1>7

\* A finite set of naturals that has an element has a greatest one.
LEMMA GreatestOf ==
    ASSUME NEW N \in SUBSET Nat, IsFiniteSet(N), N # {}
    PROVE  \E m \in N : \A x \in N : x <= m
<1> DEFINE Bad == {T \in SUBSET N : T # {} /\ ~\E m \in T : \A x \in T : x <= m}
<1>1. SUFFICES ASSUME Bad # {} PROVE FALSE
  OBVIOUS
<1>2. IsWellFoundedOn(StrictSubsetOrdering(N), SUBSET N)
  BY FS_StrictSubsetOrderingWellFounded, FS_FiniteSubsetsOfFinite
<1>3. PICK T \in Bad : \A U \in Bad : <<U, T>> \notin StrictSubsetOrdering(N)
  <2>1. Bad \subseteq SUBSET N
    OBVIOUS
  <2> HIDE DEF Bad
  <2>2. QED
    BY <1>1, <1>2, <2>1, WFMin
<1>4. PICK x \in T : TRUE
  OBVIOUS
<1>5. PICK U : U = T \ {x}
  OBVIOUS
<1>6. U \in SUBSET N /\ U \notin Bad
  <2>1. U \in SUBSET N /\ T \in SUBSET N /\ U \subseteq T /\ U # T
    BY <1>4, <1>5
  <2>2. <<U, T>> \in StrictSubsetOrdering(N)
    BY <2>1 DEF StrictSubsetOrdering
  <2>3. QED
    BY <1>3, <2>1, <2>2
<1>7. CASE U = {}
  <2>1. T = {x} /\ x \in Nat
    BY <1>4, <1>5, <1>7
  <2>2. QED
    BY <2>1
<1>8. CASE U # {}
  <2>1. PICK m \in U : \A y \in U : y <= m
    BY <1>6, <1>8
  <2>2. m \in T /\ m \in Nat /\ x \in Nat
    BY <1>4, <1>5, <2>1
  <2>3. CASE x <= m
    <3>1. \A y \in T : y <= m
      BY <1>5, <2>1, <2>3
    <3>2. QED
      BY <2>2, <3>1
  <2>4. CASE ~(x <= m)
    <3>1. \A y \in T : y <= x
      <4>1. SUFFICES ASSUME NEW y \in T PROVE y <= x
        OBVIOUS
      <4>2. CASE y = x
        BY <2>2, <4>2
      <4>3. CASE y # x
        <5>1. y <= m /\ y \in Nat
          BY <1>5, <2>1, <4>3
        <5>2. QED
          BY <2>2, <2>4, <5>1
      <4>4. QED
        BY <4>2, <4>3
    <3>2. QED
      BY <1>4, <3>1
  <2>5. QED
    BY <2>3, <2>4
<1>9. QED
  BY <1>7, <1>8

\* The next number follows the greatest of the live ones.
LEMMA NextIsLast ==
    ASSUME Outbox, NEW d
    PROVE  \E m \in Nat : /\ NextSeq(d) = m + 1
                          /\ \A o \in Live(d) : seq[o] <= m
                          /\ m # 0 => \E o \in Live(d) : seq[o] = m
<1> DEFINE N == {seq[o] : o \in Live(d)} \cup {0}
<1>1. Live(d) \subseteq Op
  BY DEF Live, Own
<1>2. IsFiniteSet(N)
  <2>1. IsFiniteSet(Live(d))
    BY <1>1, FS_Subset, OutboxAssumption DEF OutboxAssumption
  <2>2. IsFiniteSet({seq[o] : o \in Live(d)})
    <3>1. PICK D, R, f : D = Live(d) /\ R = {seq[o] : o \in Live(d)} /\ f = [o \in D |-> seq[o]]
      OBVIOUS
    <3>2. f \in Surjection(D, R) /\ IsFiniteSet(D)
      BY <2>1, <3>1 DEF Surjection
    <3>3. QED
      BY <3>1, <3>2, FS_Surjection
  <2>3. QED
    BY <2>2, FS_AddElement
<1>3. N \in SUBSET Nat /\ N # {}
  BY <1>1 DEF Outbox
<1>4. PICK m \in N : \A x \in N : x <= m
  <2> HIDE DEF N
  <2>1. QED
    BY <1>2, <1>3, GreatestOf
<1>5. \E x \in N : \A y \in N : x >= y
  BY <1>3, <1>4
<1>6. Max(N) \in N /\ \A y \in N : Max(N) >= y
  BY <1>5 DEF Max
<1>7. PICK n : n = Max(N)
  OBVIOUS
<1>8. n \in Nat /\ NextSeq(d) = n + 1
  BY <1>3, <1>6, <1>7 DEF NextSeq
<1>9. \A o \in Live(d) : seq[o] <= n
  BY <1>3, <1>6, <1>7, <1>8
<1>10. n # 0 => \E o \in Live(d) : seq[o] = n
  BY <1>6, <1>7
<1>11. QED
  BY <1>8, <1>9, <1>10

\* The engine of a phone, as it stands, carries nothing new.
LEMMA CarriesOn ==
    ASSUME Base, NEW d \in Device
    PROVE  /\ ~Silent(engine[d]) => /\ Waiting(engine[d])
                                   /\ engine[d].req.from \in Device
                                   /\ Proper(engine[d].req.body)
           /\ engine[d].pc = "decide" => conflict[d].open /\ Weighed(engine[d])
           /\ conflict[d].open => conflict[d].last \in Nat
           /\ command[d] # Rest => command[d].seq \in Nat \ {0}
<1>1. ~Silent(engine[d]) => Awaiting(d)
  BY DEF Silent, Awaiting
<1>2. Awaiting(d) => engine[d].req \in Letters
  BY DEF Letters
<1>3. QED
  BY <1>1, <1>2 DEF Base, Outbox, Phone, Post

\* What every step must leave.
Kept ==
    /\ Outbox' /\ Post' /\ Books' /\ Handlers' /\ Contiguous' /\ Born'

\* The batches in the mail are those there were.
NoNewBatch ==
    \A r \in Letters' : \/ r \in Letters
                        \/ r.body.kind # "submit"
                        \/ \E x \in Letters : x.body = r.body

LEMMA BatchesStay ==
    ASSUME Base, batches' = batches
    PROVE  batches' \in [Device -> Nat] /\ \A x \in Device : batches[x] <= batches'[x]
BY DEF Base, Outbox

LEMMA MovesKeeps ==
    ASSUME Base, NEW d \in Device, Phoned, Moves(d), seq' = seq, batches' = batches,
           status' \in [Op -> {"unborn", "local", "pending", "acked", "superseded"}],
           \A o \in Op : status'[o] = "unborn" <=> status[o] = "unborn",
           command' = command \/ command' = [command EXCEPT ![d] = Rest],
           \/ conflict' = conflict
           \/ \E c : conflict' = [conflict EXCEPT ![d] = c] /\ (c.open => c.last \in Nat)
    PROVE  Kept /\ NoNewBatch
<1>1. PICK e : /\ engine' = [engine EXCEPT ![d] = e]
               /\ \/ Silent(e) /\ e.pc # "decide" /\ net' \subseteq net
                  \/ Calling(d, e) /\ net' \subseteq net \cup {e.req}
  BY DEF Moves
<1>2. \E k : command' = [command EXCEPT ![d] = k] /\ (k # Rest => k.seq \in Nat \ {0})
  BY SameAt, CarriesOn DEF Base
<1>3. PICK k : command' = [command EXCEPT ![d] = k] /\ (k # Rest => k.seq \in Nat \ {0})
  BY <1>2
<1>4. \E c : conflict' = [conflict EXCEPT ![d] = c] /\ (c.open => c.last \in Nat)
  BY SameAt, CarriesOn DEF Base
<1>5. PICK c : conflict' = [conflict EXCEPT ![d] = c] /\ (c.open => c.last \in Nat)
  BY <1>4
<1>6. /\ batches' \in [Device -> Nat] /\ \A x \in Device : batches[x] <= batches'[x]
      /\ seq' \in [Op -> Nat]
      /\ \A o \in Op : (status[o] # "unborn" => status'[o] # "unborn")
                       /\ (status'[o] # "unborn" => seq'[o] # 0)
  BY BatchesStay DEF Base, Outbox, Born
<1>7. \A b : Proper(b) => Proper(b)'
  BY ProperStays DEF Base, Outbox
<1>8. CASE Silent(e) /\ e.pc # "decide" /\ net' \subseteq net
  <2>1. Step(d, e, k, c)
    BY <1>1, <1>3, <1>5, <1>6, <1>8 DEF Step
  <2>2. Kept /\ \A r \in Letters' : r \in Letters
    BY <1>3, <1>5, <1>6, <1>8, <2>1, StepKeeps DEF Kept
  <2>3. QED
    BY <2>2 DEF NoNewBatch
<1>9. CASE Calling(d, e) /\ net' \subseteq net \cup {e.req}
  <2>1. Step(d, e, k, c)
    BY <1>1, <1>3, <1>5, <1>6, <1>9 DEF Step, Calling
  <2>2. /\ ~Silent(e) /\ Waiting(e) /\ e.req.from \in Device /\ e.pc # "decide"
        /\ e.req.body.kind # "submit" \/ \E r \in Letters : r.body = e.req.body
    BY <1>9 DEF Calling
  <2>3. Proper(e.req.body)'
    <3>1. CASE e.req.body.kind # "submit"
      BY <3>1 DEF Proper
    <3>2. CASE \E r \in Letters : r.body = e.req.body
      <4>1. PICK b : b = e.req.body
        OBVIOUS
      <4>2. Proper(b)
        BY <3>2, <4>1 DEF Base, Post
      <4>3. Proper(b)'
        BY <1>7, <4>2
      <4>4. QED
        BY <4>1, <4>3
    <3>3. QED
      BY <2>2, <3>1, <3>2
  <2>4. Kept /\ \A r \in Letters' : r \in Letters \/ r = e.req
    BY <1>3, <1>5, <1>6, <2>1, <2>2, <2>3, StepKeeps DEF Kept
  <2>5. QED
    BY <2>2, <2>4 DEF NoNewBatch
<1>10. QED
  BY <1>1, <1>8, <1>9

LEMMA StillKeeps ==
    ASSUME Base, NEW d \in Device, Still(d)
    PROVE  Kept /\ NoNewBatch
<1>1. status' \in [Op -> {"unborn", "local", "pending", "acked", "superseded"}]
  BY DEF Still, Base, Outbox
<1>2. QED
  BY <1>1, MovesKeeps DEF Still

\* A command draws the next number.
LEMMA CommandKeeps ==
    ASSUME Base, NEW d \in Device, Command(d)
    PROVE  Kept /\ \A r \in Letters' : r \in Letters
<1> USE DEF serverVars, outboxVars, stateVars
<1>1. PICK next, stack : Apply(d, next, stack)
  BY DEF Command, Collect, ConcludeSurvey, UndoLast
<1>2. PICK n, k : n = NextSeq(d) /\ k = [pc |-> "save", next |-> next, stack |-> stack, seq |-> n]
  OBVIOUS
<1>3. n \in Nat \ {0}
  BY <1>2, NextIsLast DEF Base
<1>4. k.seq = n
  BY <1>2
<1>5. /\ command' = [command EXCEPT ![d] = k] /\ Phoned /\ net' = net
      /\ UNCHANGED <<engine, conflict, seq, status, batches>>
  BY <1>1, <1>2 DEF Apply, Phoned
<1>6. PICK e, c : e = engine[d] /\ c = conflict[d]
  OBVIOUS
<1>7. Step(d, e, k, c)
  BY <1>5, <1>6, SameAt DEF Step, Base
<1>8. /\ c.open => c.last \in Nat
      /\ e.pc = "decide" => c.open /\ Weighed(e)
      /\ ~Silent(e) => Waiting(e) /\ e.req.from \in Device /\ Proper(e.req.body)
  BY <1>6, CarriesOn
<1>9. \A b : Proper(b) => Proper(b)'
  BY <1>5 DEF Proper
<1>10. ~Silent(e) => Proper(e.req.body)'
  <2>1. PICK b : b = e.req.body
    OBVIOUS
  <2>2. QED
    BY <1>8, <1>9, <2>1
<1>11. Kept
  BY <1>3, <1>4, <1>5, <1>7, <1>8, <1>10, StepKeeps, BatchesStay DEF Base, Outbox, Born, Kept
<1>12. QED
  BY <1>5, <1>11, LettersRest

\* What is written without sending anything leaves the batches in the mail.
LEMMA WriteKeeps ==
    ASSUME Base, NEW d \in Device, NEW e, NEW k, NEW c, Step(d, e, k, c), net' = net,
           Silent(e) \/ e = engine[d], e.pc = "decide" => c.open /\ Weighed(e),
           seq' \in [Op -> Nat],
           status' \in [Op -> {"unborn", "local", "pending", "acked", "superseded"}],
           batches' = batches,
           \A o \in Op : status[o] # "unborn" => status'[o] # "unborn",
           \A o \in Op : status'[o] # "unborn" => seq'[o] # 0,
           k # Rest => k.seq \in Nat \ {0},
           c.open => c.last \in Nat
    PROVE  Kept /\ \A r \in Letters' : r \in Letters
<1>1. ~Silent(e) => /\ Waiting(e) /\ e.req.from \in Device /\ Proper(e.req.body)
                    /\ e.req \in Letters
  BY CarriesOn DEF Silent, Letters, Awaiting
<1>2. \A b : Proper(b) => Proper(b)'
  BY ProperStays DEF Base, Outbox
<1>3. ~Silent(e) => Proper(e.req.body)'
  <2>1. PICK b : b = e.req.body
    OBVIOUS
  <2>2. QED
    BY <1>1, <1>2, <2>1
<1>4. /\ Kept
      /\ \A r \in Letters' : r \in Letters \/ (~Silent(e) /\ r = e.req)
  BY <1>1, <1>3, StepKeeps, BatchesStay DEF Kept
<1>5. QED
  BY <1>1, <1>4

LEMMA SaveKeeps ==
    ASSUME Base, NEW d \in Device, SaveCommand(d)
    PROVE  Kept /\ \A r \in Letters' : r \in Letters
<1> USE DEF serverVars, outboxVars, stateVars
<1>1. PICK x, n, e, k, c :
         x = NewOp(d) /\ n = command[d].seq /\ e = engine[d] /\ k = Rest /\ c = conflict[d]
  OBVIOUS
<1>2. /\ seq' = [seq EXCEPT ![x] = n] /\ status' = [status EXCEPT ![x] = "local"]
      /\ n \in Nat \ {0} /\ batches' = batches /\ net' = net /\ Phoned
      /\ command' = [command EXCEPT ![d] = k] /\ engine' = engine /\ conflict' = conflict
  BY <1>1 DEF SaveCommand, Phoned, Base, Outbox, Phone
<1>3. Step(d, e, k, c)
  BY <1>1, <1>2, SameAt DEF Step, Base
<1>4. seq' \in [Op -> Nat] /\ status' \in [Op -> {"unborn", "local", "pending", "acked", "superseded"}]
  BY <1>2 DEF Base, Outbox
<1>5. \A o \in Op : (status[o] # "unborn" => status'[o] # "unborn")
                    /\ (status'[o] # "unborn" => seq'[o] # 0)
  BY <1>2 DEF Base, Outbox, Born
<1>6. /\ c.open => c.last \in Nat
      /\ e.pc = "decide" => c.open /\ Weighed(e)
  BY <1>1, CarriesOn
<1>7. QED
  BY <1>1, <1>2, <1>3, <1>4, <1>5, <1>6, WriteKeeps

LEMMA ResolveKeeps ==
    ASSUME Base, NEW d \in Device, ResolveConflict(d)
    PROVE  Kept /\ \A r \in Letters' : r \in Letters
<1> USE DEF serverVars, outboxVars, stateVars
<1>1. PICK decision : engine' = [engine EXCEPT ![d] =
                        [pc |-> "decide", decision |-> decision,
                         pending |-> Pending(d), abandoned |-> Abandoned(d)]]
  BY DEF ResolveConflict
<1>2. PICK k, c, G, H : k = command[d] /\ c = conflict[d] /\ G = Pending(d) /\ H = Abandoned(d)
  OBVIOUS
<1>3. PICK e : e = [pc |-> "decide", decision |-> decision, pending |-> G, abandoned |-> H]
  OBVIOUS
<1>4. e.pc = "decide" /\ Weighed(e)
  <2>1. e.pc = "decide" /\ e.pending = G /\ e.abandoned = H
    BY <1>3
  <2>2. G \subseteq Op /\ \A o \in H : o \in Op /\ status[o] # "unborn"
    BY <1>2 DEF Pending, Abandoned, Own
  <2>3. QED
    BY <2>1, <2>2 DEF Weighed
<1>5. /\ engine' = [engine EXCEPT ![d] = e] /\ net' = net /\ Phoned
      /\ UNCHANGED <<seq, status, batches, command, conflict>> /\ conflict[d].open
  BY <1>1, <1>2, <1>3 DEF ResolveConflict, Phoned
<1>6. Step(d, e, k, c)
  BY <1>2, <1>5, SameAt DEF Step, Base
<1>7. Silent(e) /\ c.open /\ (c.open => c.last \in Nat) /\ (k # Rest => k.seq \in Nat \ {0})
  BY <1>2, <1>4, <1>5, CarriesOn DEF Silent
<1>8. seq' \in [Op -> Nat] /\ status' \in [Op -> {"unborn", "local", "pending", "acked", "superseded"}]
  BY <1>5 DEF Base, Outbox
<1>9. \A o \in Op : (status[o] # "unborn" => status'[o] # "unborn")
                    /\ (status'[o] # "unborn" => seq'[o] # 0)
  BY <1>5 DEF Base, Born
<1>10. QED
  BY <1>4, <1>5, <1>6, <1>7, <1>8, <1>9, WriteKeeps

LEMMA KeepLocalKeeps ==
    ASSUME Base, NEW d \in Device, KeepLocal(d)
    PROVE  Kept /\ \A r \in Letters' : r \in Letters
<1> USE DEF serverVars, outboxVars, stateVars
<1>1. PICK x, last, P, n, e, k, c :
         /\ x = NewOp(d) /\ last = conflict[d].last /\ P = engine[d].pending
         /\ n = Cardinality(P) /\ e = [pc |-> "begin", override |-> {}]
         /\ k = command[d] /\ c = conflict[d]
  OBVIOUS
<1>2. /\ engine' = [engine EXCEPT ![d] = e] /\ net' = net /\ Phoned
      /\ UNCHANGED <<batches, command, conflict>>
      /\ status' = [o \in Op |-> IF o \in P \cup {x} THEN "local" ELSE status[o]]
  BY <1>1 DEF KeepLocal, Phoned
<1>3. PICK place \in Queued(P) :
         seq' = [o \in Op |-> IF o \in P THEN last + place[o]
                              ELSE IF o = x THEN last + 1 + n ELSE seq[o]]
  BY <1>1 DEF KeepLocal
<1>4. P \subseteq Op /\ last \in Nat /\ (k # Rest => k.seq \in Nat \ {0}) /\ (c.open => c.last \in Nat)
  <2>1. engine[d].pc = "decide"
    BY DEF KeepLocal, Decides
  <2>2. QED
    BY <1>1, <2>1, CarriesOn DEF Weighed
<1>5. n \in Nat
  BY <1>1, <1>4, FS_Subset, FS_CardinalityType, OutboxAssumption DEF OutboxAssumption
<1>6. \A o \in P : place[o] \in 1..n
  BY <1>1, <1>3 DEF Queued
<1>7. \A o \in P : last + place[o] \in Nat \ {0}
  BY <1>4, <1>5, <1>6
<1>8. last + 1 + n \in Nat \ {0}
  BY <1>4, <1>5
<1>9. seq' \in [Op -> Nat]
  BY <1>3, <1>7, <1>8 DEF Base, Outbox
<1>10. status' \in [Op -> {"unborn", "local", "pending", "acked", "superseded"}]
  BY <1>2 DEF Base, Outbox
<1>11. \A o \in Op : (status[o] # "unborn" => status'[o] # "unborn")
                     /\ (status'[o] # "unborn" => seq'[o] # 0)
  BY <1>2, <1>3, <1>7, <1>8 DEF Base, Born
<1>12. Silent(e) /\ e.pc # "decide"
  BY <1>1 DEF Silent
<1>13. Step(d, e, k, c)
  BY <1>1, <1>2, SameAt DEF Step, Base
<1>14. QED
  BY <1>2, <1>4, <1>9, <1>10, <1>11, <1>12, <1>13, WriteKeeps

LEMMA AcceptServerKeeps ==
    ASSUME Base, NEW d \in Device, AcceptServer(d)
    PROVE  Kept /\ \A r \in Letters' : r \in Letters
<1> USE DEF serverVars, outboxVars, stateVars
<1>1. PICK x, n, H, k :
         /\ x = NewOp(d) /\ n = conflict[d].last + 1 /\ H = engine[d].abandoned /\ k = command[d]
  OBVIOUS
<1>2. \E e : /\ engine' = [engine EXCEPT ![d] = e] /\ e.pc # "decide" /\ Silent(e)
  <2>1. PICK e : e = IF conflict[d].snapshot = {} THEN Rest
                     ELSE [pc |-> "begin", override |-> conflict[d].snapshot]
    OBVIOUS
  <2>2. e.pc \in {"idle", "begin"}
    BY <2>1 DEF Rest
  <2>3. QED
    BY <2>1, <2>2 DEF AcceptServer, Silent
<1>3. \E c : conflict' = [conflict EXCEPT ![d] = c] /\ (c.open => c.last \in Nat)
  <2>1. PICK c : c = IF conflict[d].snapshot = {} THEN NoConflict ELSE conflict[d]
    OBVIOUS
  <2>2. c.open => c.last \in Nat
    BY <2>1, CarriesOn DEF NoConflict
  <2>3. conflict' = [conflict EXCEPT ![d] = c]
    BY <2>1 DEF AcceptServer
  <2>4. QED
    BY <2>2, <2>3
<1>4. PICK e, c : /\ engine' = [engine EXCEPT ![d] = e] /\ e.pc # "decide" /\ Silent(e)
                  /\ conflict' = [conflict EXCEPT ![d] = c] /\ (c.open => c.last \in Nat)
  BY <1>2, <1>3
<1>5. n \in Nat \ {0}
  <2>1. engine[d].pc = "decide"
    BY DEF AcceptServer, Decides
  <2>2. QED
    BY <1>1, <2>1, CarriesOn
<1>6. /\ seq' = [seq EXCEPT ![x] = n] /\ net' = net /\ Phoned /\ UNCHANGED <<batches, command>>
      /\ status' = [o \in Op |-> IF o = x THEN "local"
                                 ELSE IF o \in H THEN "superseded" ELSE status[o]]
  BY <1>1 DEF AcceptServer, Phoned
<1>7. seq' \in [Op -> Nat] /\ status' \in [Op -> {"unborn", "local", "pending", "acked", "superseded"}]
  BY <1>5, <1>6 DEF Base, Outbox
<1>8. Step(d, e, k, c)
  BY <1>1, <1>4, <1>6, SameAt DEF Step, Base
<1>9. k # Rest => k.seq \in Nat \ {0}
  BY <1>1, CarriesOn
<1>10. \A o \in H : o \in Op /\ status[o] # "unborn"
  <2>1. engine[d].pc = "decide"
    BY DEF AcceptServer, Decides
  <2>2. QED
    BY <1>1, <2>1, CarriesOn DEF Weighed
<1>11. \A o \in Op : (status[o] # "unborn" => status'[o] # "unborn")
                     /\ (status'[o] # "unborn" => seq'[o] # 0)
  BY <1>5, <1>6, <1>10 DEF Base, Outbox, Born
<1>12. QED
  BY <1>4, <1>6, <1>7, <1>8, <1>9, <1>11, WriteKeeps

\* The batch of a phone: the queue as it stands, under the next key.
Dispatch(d, b) ==
    /\ b.kind = "submit"
    /\ b.dev = d
    /\ b.key[2] = batches[d] + 1
    /\ b.seqs = [o \in Op |-> IF o \in Pending(d) THEN seq[o] ELSE 0]
    /\ b.content = engine[d].pass.sends

Sends(d) ==
    /\ Phoned
    /\ UNCHANGED <<seq, command, conflict, shared>>
    /\ Awaits(d, "token")
    /\ Pending(d) # {}
    /\ batches' = [batches EXCEPT ![d] = @ + 1]
    /\ status' = [o \in Op |-> IF o \in Pending(d) THEN "pending" ELSE status[o]]
    /\ \E e : /\ engine' = [engine EXCEPT ![d] = e] /\ net' = net \cup {e.req}
              /\ e.pc = "submit" /\ Waiting(e)
              /\ e.req.from = d /\ Dispatch(d, e.req.body)

\* The answer to the batch marks what it names.
Acknowledges(d) ==
    /\ Phoned
    /\ UNCHANGED <<seq, command, conflict, shared, batches>>
    /\ Moves(d)
    /\ Awaits(d, "submit") /\ engine'[d].pc # "submit"
    /\ \E a \in answers : /\ a.req = engine[d].req /\ a.says.code = "ack"
                          /\ status' = [o \in Op |-> IF o \in Acknowledged(a) THEN "acked"
                                                     ELSE status[o]]

LEMMA SendsBatch ==
    ASSUME Base, NEW d \in Device, SendBatch(d)
    PROVE  Still(d) \/ Sends(d)
<1> USE DEF serverVars, outboxVars, stateVars
<1>1. /\ Phoned /\ Awaits(d, "token")
      /\ UNCHANGED <<seq, command, conflict, shared>>
  <2>1. answers' = answers
    BY DEF SendBatch
  <2>2. QED
    BY <2>1 DEF SendBatch, Phoned
<1>2. CASE /\ Call(d, engine[d].pass, "get", [kind |-> "get"])
           /\ UNCHANGED <<status, batches>>
  <2>1. PICK pass, pc, body : pass = engine[d].pass /\ pc = "get" /\ body = [kind |-> "get"]
    OBVIOUS
  <2>2. body.kind # "submit" /\ Call(d, pass, pc, body)
    BY <1>2, <2>1
  <2>3. Moves(d)
    BY <2>1, <2>2, CallMoves
  <2>4. engine[d] # Rest
    BY <1>1 DEF Awaits, Rest
  <2>5. QED
    BY <1>1, <1>2, <2>3, <2>4 DEF Still
<1>3. CASE /\ Pending(d) # {}
           /\ batches' = [batches EXCEPT ![d] = @ + 1]
           /\ status' = [o \in Op |-> IF o \in Pending(d) THEN "pending" ELSE status[o]]
           /\ Call(d, engine[d].pass, "submit",
                   [kind |-> "submit", key |-> <<d, batches[d] + 1>>, dev |-> d,
                    seqs |-> [o \in Op |-> IF o \in Pending(d) THEN seq[o] ELSE 0],
                    content |-> engine[d].pass.sends])
  <2>1. PICK pass, key, seqs, content, n :
           /\ pass = engine[d].pass /\ key = <<d, batches[d] + 1>>
           /\ seqs = [o \in Op |-> IF o \in Pending(d) THEN seq[o] ELSE 0]
           /\ content = engine[d].pass.sends /\ n = NewAttempt(d)
    OBVIOUS
  <2>2. PICK b : b = [kind |-> "submit", key |-> key, dev |-> d, seqs |-> seqs,
                      content |-> content]
    OBVIOUS
  <2>3. PICK r : r = [from |-> d, attempt |-> n, body |-> b]
    OBVIOUS
  <2>4. PICK e : e = [pc |-> "submit", pass |-> pass, req |-> r, round |-> 1]
    OBVIOUS
  <2>5. engine' = [engine EXCEPT ![d] = e] /\ net' = net \cup {r}
    BY <1>3, <2>1, <2>2, <2>3, <2>4 DEF Call
  <2>6. r = [from |-> r.from, attempt |-> r.attempt, body |-> r.body]
        /\ r.from = d /\ r.body = b
    BY <2>3
  <2>7. /\ e = [pc |-> e.pc, pass |-> e.pass, req |-> e.req, round |-> e.round]
        /\ e.pc = "submit" /\ e.req = r
    BY <2>4
  <2>8. Dispatch(d, b)
    <3>1. b.kind = "submit" /\ b.dev = d /\ b.key = key /\ b.seqs = seqs /\ b.content = content
      BY <2>2
    <3>2. key[2] = batches[d] + 1
      BY <2>1
    <3>3. QED
      BY <2>1, <3>1, <3>2 DEF Dispatch
  <2>9. QED
    BY <1>1, <1>3, <2>5, <2>6, <2>7, <2>8 DEF Sends, Waiting
<1>4. QED
  BY <1>2, <1>3 DEF SendBatch

LEMMA SubmitAcknowledges ==
    ASSUME Base, NEW d \in Device, SubmitAcked(d)
    PROVE  Acknowledges(d)
<1> USE DEF serverVars, outboxVars, stateVars
<1>1. PICK a \in answers :
         /\ Awaits(d, "submit") /\ Received(d, a) /\ a.says.code = "ack"
         /\ status' = [o \in Op |-> IF o \in Acknowledged(a) THEN "acked" ELSE status[o]]
         /\ Call(d, engine[d].pass, "get", [kind |-> "get"])
  BY DEF SubmitAcked
<1>2. PICK pass, pc, body : pass = engine[d].pass /\ pc = "get" /\ body = [kind |-> "get"]
  OBVIOUS
<1>3. body.kind # "submit" /\ Call(d, pass, pc, body)
  BY <1>1, <1>2
<1>4. Moves(d)
  BY <1>2, <1>3, CallMoves
<1>5. Phoned /\ UNCHANGED <<seq, command, conflict, shared, batches>>
  BY <1>1 DEF SubmitAcked, Phoned, Received
<1>6. engine'[d].pc # "submit"
  <2>1. PICK r : engine' = [engine EXCEPT ![d] =
                               [pc |-> "get", pass |-> pass, req |-> r, round |-> 1]]
    BY <1>2, <1>3 DEF Call
  <2>2. engine'[d] = [pc |-> "get", pass |-> pass, req |-> r, round |-> 1]
    BY <2>1 DEF Base, Outbox
  <2>3. QED
    BY <2>2
<1>7. QED
  BY <1>1, <1>4, <1>5, <1>6 DEF Acknowledges, Received

LEMMA SendKeeps ==
    ASSUME Base, NEW d \in Device, Sends(d)
    PROVE  /\ Kept
           /\ \E e : /\ engine' = [engine EXCEPT ![d] = e] /\ Dispatch(d, e.req.body)
                     /\ engine'[d] = e /\ e.pc = "submit"
                     /\ \A r \in Letters' : r \in Letters \/ r = e.req
<1>1. PICK e : /\ engine' = [engine EXCEPT ![d] = e] /\ net' = net \cup {e.req}
               /\ e.pc = "submit" /\ Waiting(e)
               /\ e.req.from = d /\ Dispatch(d, e.req.body)
  BY DEF Sends
<1>2. PICK k, c, b : k = command[d] /\ c = conflict[d] /\ b = e.req.body
  OBVIOUS
<1>3. ~Silent(e) /\ e.pc # "decide"
  BY <1>1 DEF Silent
<1>4. Step(d, e, k, c)
  <2>1. command' = [command EXCEPT ![d] = k] /\ conflict' = [conflict EXCEPT ![d] = c] /\ Phoned
    BY <1>2, SameAt DEF Sends, Base
  <2>2. QED
    BY <1>1, <1>3, <2>1 DEF Step
<1>5. (k # Rest => k.seq \in Nat \ {0}) /\ (c.open => c.last \in Nat)
  BY <1>2, CarriesOn
<1>6. batches' \in [Device -> Nat] /\ \A x \in Device : batches[x] <= batches'[x]
  BY DEF Sends, Base, Outbox
<1>7. seq' \in [Op -> Nat] /\ status' \in [Op -> {"unborn", "local", "pending", "acked", "superseded"}]
  BY DEF Sends, Base, Outbox
<1>8. \A o \in Pending(d) : OpDevice[o] = d /\ status[o] # "unborn" /\ status'[o] # "unborn" /\ o \in Op
  BY DEF Pending, Own, Sends
<1>9. \A o \in Op : (status[o] # "unborn" => status'[o] # "unborn")
                    /\ (status'[o] # "unborn" => seq'[o] # 0)
  BY <1>8 DEF Sends, Base, Born
<1>10. Proper(b)'
  <2>1. b.dev = d /\ b.key[2] = batches[d] + 1
        /\ b.seqs = [o \in Op |-> IF o \in Pending(d) THEN seq[o] ELSE 0]
    BY <1>1, <1>2 DEF Dispatch
  <2>2. b.seqs \in [Op -> Nat]
    BY <2>1 DEF Base, Outbox
  <2>3. b.key[2] \in Nat /\ b.key[2] <= batches'[b.dev]
    BY <2>1 DEF Sends, Base, Outbox
  <2>4. \A o \in Op : b.seqs[o] # 0 => OpDevice[o] = b.dev /\ status'[o] # "unborn"
    BY <1>8, <2>1
  <2>5. QED
    BY <2>1, <2>2, <2>3, <2>4 DEF Proper
<1>11. Proper(e.req.body)' /\ e.req.from \in Device
  BY <1>1, <1>2, <1>10
<1>12. Kept /\ \A r \in Letters' : r \in Letters \/ r = e.req
  BY <1>1, <1>3, <1>4, <1>5, <1>6, <1>7, <1>9, <1>11, StepKeeps DEF Kept
<1>13. engine'[d] = e
  BY <1>1 DEF Base, Outbox
<1>14. QED
  BY <1>1, <1>12, <1>13

\* Marking: what is acknowledged is stored, so it was created.
LEMMA AcknowledgeKeeps ==
    ASSUME Base, Inv', NEW d \in Device, Acknowledges(d)
    PROVE  Kept /\ NoNewBatch
<1>1. PICK a \in answers :
         status' = [o \in Op |-> IF o \in Acknowledged(a) THEN "acked" ELSE status[o]]
  BY DEF Acknowledges
<1>2. \A o \in Op : status[o] # "unborn" => status'[o] # "unborn"
  BY <1>1
<1>3. \A o \in Op : status'[o] # "unborn" => status[o] # "unborn"
  <2>1. SUFFICES ASSUME NEW o \in Op, o \in Acknowledged(a) PROVE status[o] # "unborn"
    BY <1>1
  <2>2. status'[o] = "acked" /\ stored'[o] = stored[o]
    BY <1>1, <2>1 DEF Acknowledges, Phoned
  <2>3. stored'[o] # 0
    BY <2>2 DEF Inv, AckedIsStored
  <2>4. QED
    BY <2>2, <2>3 DEF Base, Born
<1>4. status' \in [Op -> {"unborn", "local", "pending", "acked", "superseded"}]
  BY <1>1 DEF Base, Outbox
<1>5. QED
  BY <1>2, <1>3, <1>4, MovesKeeps DEF Acknowledges


-----------------------------------------------------------------------------
(* The invariant of the composition is inductive.                            *)

\* A step in which no phone and no instance acts.
LEMMA RestKeeps ==
    ASSUME Base, Phoned,
           UNCHANGED <<net, seq, status, batches, engine, command, conflict>>
    PROVE  Kept /\ \A r \in Letters' : r \in Letters
<1>1. \A r \in Letters' : r \in Letters
  BY LettersRest
<1>2. Books' /\ Handlers' /\ Contiguous' /\ \A b : Proper(b) => Proper(b)'
  BY PhonedKeeps DEF Base, Outbox
<1>3. Post'
  BY <1>1, <1>2 DEF Base, Post
<1>4. Outbox' /\ Born'
  BY DEF Phoned, Base, Outbox, Born, Phone, Awaiting, Weighed
<1>5. QED
  BY <1>1, <1>2, <1>3, <1>4 DEF Kept

\* An instance acts.
LEMMA ServeSteps ==
    ASSUME Base,
           NEW w \in Worker, (\E r \in net : Deliver(w, r)) \/ Serve(w) \/ ServerCrash(w)
    PROVE  Aside /\ shared' = shared /\ (Calm(w) \/ Commits(w))
<1> USE DEF outboxVars, stateVars
<1>1. CASE \E r \in net : Deliver(w, r)
  <2>1. PICK r \in net : Deliver(w, r)
    BY <1>1
  <2>2. r \in Letters
    BY DEF Letters
  <2>3. S!Receive(w, r) /\ Aside /\ shared' = shared
    BY <2>1 DEF Deliver, Aside
  <2>4. QED
    BY <2>2, <2>3, CalmReceive
<1>2. CASE Serve(w)
  BY <1>2, CalmContinue DEF Serve, Aside
<1>3. CASE ServerCrash(w)
  BY <1>3, CalmCrash DEF ServerCrash, Aside
<1>4. QED
  BY <1>1, <1>2, <1>3

LEMMA ServerKeeps ==
    ASSUME Base, Aside, NEW w \in Worker, Calm(w) \/ Commits(w)
    PROVE  Kept /\ \A r \in Letters' : r \in Letters
BY CalmKeeps, CommitKeeps DEF Kept

\* What a phone's step is.
LEMMA PhoneSteps ==
    ASSUME Base, NEW d \in Device, Engine(d) \/ Fault(d) \/ SyncSurvey(d)
    PROVE  \/ KeepLocal(d) \/ AcceptServer(d) \/ Sends(d) \/ Acknowledges(d) \/ Still(d)
BY StillEngine, SendsBatch, SubmitAcknowledges DEF Engine

LEMMA OutsideSteps ==
    ASSUME (\E g \in Digest : UrlExpires(g)) \/ DropAnswer \/ UNCHANGED vars
    PROVE  /\ Phoned
           /\ UNCHANGED <<net, seq, status, batches, engine, command, conflict, shared>>
<1> USE DEF serverVars, outboxVars, stateVars, S!dbVars, S!queueVars, Phoned
<1>1. CASE \E g \in Digest : UrlExpires(g)
  BY <1>1 DEF UrlExpires, S!UrlExpires
<1>2. CASE DropAnswer
  BY <1>2 DEF DropAnswer
<1>3. CASE UNCHANGED vars
  BY <1>3 DEF vars
<1>4. QED
  BY <1>1, <1>2, <1>3

LEMMA BaseNext == ASSUME Base, [Next]_vars PROVE Base'
<1>1. Inv'
  BY InvNext DEF Base
<1>2. Kept => Base'
  BY <1>1 DEF Kept, Base
<1>3. ASSUME NEW d \in Device,
             Command(d) \/ SaveCommand(d) \/ SyncSurvey(d) \/ ResolveConflict(d)
             \/ Engine(d) \/ Fault(d)
      PROVE  Kept
  BY <1>1, <1>3, PhoneSteps, CommandKeeps, SaveKeeps, ResolveKeeps, KeepLocalKeeps,
     AcceptServerKeeps, SendKeeps, AcknowledgeKeeps, StillKeeps
<1>4. ASSUME NEW w \in Worker, (\E r \in net : Deliver(w, r)) \/ Serve(w) \/ ServerCrash(w)
      PROVE  Kept
  BY <1>4, ServeSteps, ServerKeeps
<1>5. CASE (\E g \in Digest : UrlExpires(g)) \/ DropAnswer \/ UNCHANGED vars
  <2>1. Phoned /\ UNCHANGED <<net, seq, status, batches, engine, command, conflict>>
    BY <1>5, OutsideSteps
  <2>2. QED
    BY <1>2, <2>1, RestKeeps
<1>6. QED
  BY <1>2, <1>3, <1>4, <1>5 DEF Next

LEMMA BaseInit == ASSUME Init PROVE Base
<1>1. Inv
  BY InvInit
<1>2. /\ stored = [o \in Op |-> 0] /\ idem = {} /\ answers = {} /\ net = {}
      /\ txn = [w \in Worker |-> S!Idle]
      /\ seq = [o \in Op |-> 0] /\ status = [o \in Op |-> "unborn"]
      /\ batches = [d \in Device |-> 0]
      /\ engine = [d \in Device |-> Rest] /\ command = [d \in Device |-> Rest]
      /\ conflict = [d \in Device |-> NoConflict]
  BY DEF Init, S!Init
<1>3. Outbox
  <2>1. \A d \in Device : engine[d] = Rest /\ command[d] = Rest /\ conflict[d] = NoConflict
    BY <1>2
  <2>2. Rest.pc = "idle" /\ ~NoConflict.open
    BY DEF Rest, NoConflict
  <2>3. \A d \in Device : Phone(d)
    BY <2>1, <2>2 DEF Phone, Awaiting
  <2>4. QED
    BY <1>2, <2>3 DEF Outbox
<1>4. Letters = {}
  <2>1. \A d \in Device : ~Awaiting(d)
    BY <1>2 DEF Awaiting, Rest
  <2>2. QED
    BY <1>2, <2>1 DEF Letters
<1>5. Post /\ Books /\ Born
  BY <1>2, <1>4 DEF Post, Books, Born
<1>6. Handlers
  BY <1>2 DEF Handlers, Routed, S!Idle
<1>7. \A d \in Device : S!SeqsOf(d) = {} /\ S!LastSeq(d) = 0
  <2>1. SUFFICES ASSUME NEW d \in Device PROVE S!SeqsOf(d) = {} /\ S!LastSeq(d) = 0
    OBVIOUS
  <2>2. S!SeqsOf(d) = {}
    BY <1>2 DEF S!SeqsOf
  <2>3. S!Max((1..0) \cup {0}) = 0
    BY GreatestOfRun
  <2>4. 1..0 = {}
    OBVIOUS
  <2>5. QED
    BY <2>2, <2>3, <2>4 DEF S!LastSeq
<1>8. Contiguous
  <2>1. 1..0 = {} /\ \A o \in Op : stored[o] = 0
    BY <1>2
  <2>2. \A d \in Device : S!LastSeq(d) \in Nat /\ S!SeqsOf(d) = 1..S!LastSeq(d)
    BY <1>7, <2>1
  <2>3. QED
    BY <2>1, <2>2 DEF Contiguous, S!LedgerContiguous
<1>9. QED
  BY <1>1, <1>3, <1>5, <1>6, <1>8 DEF Base

\* However the phones retry, renumber and supersede, in both builds, the operations the
\* server holds of a phone carry the numbers 1..n, each once.
THEOREM PhonesContiguous == Spec => []S!LedgerContiguous
<1>1. Base => S!LedgerContiguous
  BY DEF Base, Contiguous
<1>2. QED
  BY BaseInit, BaseNext, <1>1, PTL DEF Spec

-----------------------------------------------------------------------------
(* The queue of a phone whose passes and commands take turns.                *)

\* The acknowledged operations of a phone.
Held(d) == {o \in Own(d) : status[o] = "acked"}

\* The batches of the phone somebody may still read.
Sent(d) == {r.body : r \in {x \in Letters : x.body.kind = "submit" /\ x.body.dev = d}}

\* What a phone is doing rests on the outbox as it is.
Turns(d) ==
    /\ command[d] = Rest \/ engine[d] = Rest
    /\ command[d] # Rest => command[d].seq = NextSeq(d) /\ Unborn(d) # {}
    /\ engine[d].pc = "decide" =>
           /\ engine[d].pending = Pending(d)
           /\ Pending(d) \subseteq engine[d].abandoned
           /\ engine[d].abandoned \subseteq Own(d)
           /\ Unborn(d) # {}
    /\ Awaits(d, "submit") =>
           /\ engine[d].req.body.kind = "submit"
           /\ engine[d].req.body.dev = d
           /\ engine[d].req.body.seqs = [o \in Op |-> IF o \in Pending(d) THEN seq[o] ELSE 0]

Ordered(d) == Pristine(d) => Placed(Pending(d), Held(d), seq, stored, Sent(d))

\* The batch awaited: what has acknowledged it holds the queue where the phone has it, and
\* what is about to acknowledge it will.
Answered(b) ==
    \/ \E e \in idem : e.body = b
    \/ \E a \in answers : a.req.body = b /\ a.says.code = "ack"

Settles(d) ==
    Pristine(d) /\ Awaits(d, "submit") =>
        /\ Answered(engine[d].req.body) => \A p \in Pending(d) : stored[p] = seq[p]
        /\ \A w \in Worker :
              txn[w].pc = "write" /\ txn[w].req.body = engine[d].req.body =>
              \A p \in Pending(d) : p \in txn[w].fresh \/ stored[p] = seq[p]

InTurn(d) == Turns(d) /\ Ordered(d) /\ Settles(d)

Full == Base /\ (shared => \A d \in Device : InTurn(d))

-----------------------------------------------------------------------------
(* The queue a step leaves alone.                                            *)

QueueStays(d) == \A o \in Own(d) : seq'[o] = seq[o] /\ status'[o] = status[o]

LEMMA QueueKeeps ==
    ASSUME NEW d, QueueStays(d)
    PROVE  /\ Pending(d)' = Pending(d) /\ Held(d)' = Held(d) /\ Unborn(d)' = Unborn(d)
           /\ Live(d)' = Live(d) /\ NextSeq(d)' = NextSeq(d) /\ Pristine(d)' = Pristine(d)
<1>1. /\ Pending(d)' = Pending(d) /\ Held(d)' = Held(d) /\ Unborn(d)' = Unborn(d)
      /\ Live(d)' = Live(d) /\ Own(d)' = Own(d)
  BY DEF QueueStays, Pending, Held, Unborn, Live, Own
<1>2. Pristine(d)' = Pristine(d)
  BY DEF QueueStays, Pristine, Own
<1>3. \A o \in Live(d) : seq'[o] = seq[o]
  BY DEF QueueStays, Live
<1>4. {seq'[o] : o \in Live(d)'} = {seq[o] : o \in Live(d)}
  BY <1>1, <1>3
<1>5. NextSeq(d)' = NextSeq(d)
  BY <1>4 DEF NextSeq, Max
<1>6. QED
  BY <1>1, <1>2, <1>5

LEMMA QueueOf ==
    ASSUME Base, NEW d \in Device
    PROVE  Queue(Pending(d), Held(d), seq, stored, Sent(d))
<1>1. Pending(d) \subseteq Op /\ Held(d) \subseteq Op
  BY DEF Pending, Held, Own
<1>2. \A o \in Op : seq[o] \in Nat /\ stored[o] \in Nat
  BY DEF Base, Outbox
<1>3. \A b \in Sent(d) : \A o \in Op : b.seqs[o] \in Nat
  BY DEF Base, Post, Proper, Sent
<1>4. QED
  BY <1>1, <1>2, <1>3 DEF Queue

\* Batches of other phones, and requests that are no batch, do not count.
LEMMA SentShrinks ==
    ASSUME NEW d,
           \A r \in Letters' : \/ r \in Letters \/ r.body.kind # "submit" \/ r.body.dev # d
                               \/ \E x \in Letters : x.body = r.body
    PROVE  \A b \in Sent(d)' : b \in Sent(d)
<1>1. SUFFICES ASSUME NEW r \in Letters', r.body.kind = "submit", r.body.dev = d
               PROVE  r.body \in Sent(d)
  BY DEF Sent
<1>2. PICK x \in Letters : x.body = r.body
  BY <1>1
<1>3. QED
  BY <1>1, <1>2 DEF Sent

LEMMA OrderedRests ==
    ASSUME Base, NEW d \in Device, Ordered(d), QueueStays(d),
           \A o \in Own(d) : stored'[o] = stored[o],
           \A b \in Sent(d)' : b \in Sent(d)
    PROVE  Ordered(d)'
<1>1. SUFFICES ASSUME Pristine(d)' PROVE Placed(Pending(d), Held(d), seq, stored, Sent(d))'
  BY DEF Ordered
<1>2. /\ Pending(d)' = Pending(d) /\ Held(d)' = Held(d) /\ Pristine(d)
  BY <1>1, QueueKeeps
<1>3. PICK P, A, q, s, B, q2, s2, B2 :
         /\ P = Pending(d) /\ A = Held(d) /\ q = seq /\ s = stored /\ B = Sent(d)
         /\ q2 = seq' /\ s2 = stored' /\ B2 = Sent(d)'
  OBVIOUS
<1>4. Placed(P, A, q, s, B)
  BY <1>2, <1>3 DEF Ordered
<1>5. P \subseteq Op /\ A \subseteq Op /\ B2 \subseteq B
  BY <1>3 DEF Pending, Held, Own
<1>6. \A o \in P \cup A : q2[o] = q[o] /\ s2[o] = s[o]
  BY <1>3 DEF Pending, Held, QueueStays
<1>7. Placed(P, A, q2, s2, B2)
  BY <1>4, <1>5, <1>6, PlacedFewer
<1>8. QED
  BY <1>2, <1>3, <1>7

LEMMA SettlesRests ==
    ASSUME NEW d \in Device, Settles(d), QueueStays(d), Phoned,
           Awaits(d, "submit")' => /\ Awaits(d, "submit")
                                   /\ engine'[d].req.body = engine[d].req.body
    PROVE  Settles(d)'
<1>1. SUFFICES ASSUME Pristine(d)', Awaits(d, "submit")'
               PROVE  /\ Answered(engine[d].req.body)' => \A p \in Pending(d)' : stored'[p] = seq'[p]
                      /\ \A w \in Worker :
                            txn'[w].pc = "write" /\ txn'[w].req.body = engine'[d].req.body =>
                            \A p \in Pending(d)' : p \in txn'[w].fresh \/ stored'[p] = seq'[p]
  BY DEF Settles
<1>2. Pristine(d) /\ Pending(d)' = Pending(d)
  BY <1>1, QueueKeeps
<1>3. PICK b : b = engine[d].req.body
  OBVIOUS
<1>4. engine'[d].req.body = b /\ Awaits(d, "submit")
  BY <1>1, <1>3
<1>5. Answered(b)' => Answered(b)
  BY DEF Phoned, Answered
<1>6. Answered(engine[d].req.body)' => Answered(b)
  BY <1>4, <1>5 DEF Answered
<1>7. stored' = stored /\ txn' = txn /\ \A p \in Pending(d) : seq'[p] = seq[p]
  BY DEF Phoned, QueueStays, Pending
<1>8. /\ Answered(b) => \A p \in Pending(d) : stored[p] = seq[p]
      /\ \A w \in Worker : txn[w].pc = "write" /\ txn[w].req.body = b =>
             \A p \in Pending(d) : p \in txn[w].fresh \/ stored[p] = seq[p]
  BY <1>2, <1>3, <1>4 DEF Settles
<1>9. QED
  BY <1>2, <1>4, <1>6, <1>7, <1>8

LEMMA TurnsRests ==
    ASSUME NEW d \in Device, Turns(d), QueueStays(d), engine'[d] = engine[d],
           command'[d] = command[d], seq \in [Op -> Nat], seq' \in [Op -> Nat]
    PROVE  Turns(d)'
<1>1. /\ Pending(d)' = Pending(d) /\ Unborn(d)' = Unborn(d) /\ NextSeq(d)' = NextSeq(d)
      /\ Own(d)' = Own(d) /\ \A o \in Pending(d) : seq'[o] = seq[o]
  BY QueueKeeps DEF Own, Pending, QueueStays
<1>2. [o \in Op |-> IF o \in Pending(d)' THEN seq'[o] ELSE 0] =
      [o \in Op |-> IF o \in Pending(d) THEN seq[o] ELSE 0]
  BY <1>1
<1>3. QED
  BY <1>1, <1>2 DEF Turns, Awaits

\* What one phone does to its own operations leaves the other phones in order.
LEMMA OthersInTurn ==
    ASSUME Base, NEW d \in Device, NEW x \in Device, x # d, InTurn(x), Phoned,
           \A o \in Op : OpDevice[o] # d => seq'[o] = seq[o] /\ status'[o] = status[o],
           engine'[x] = engine[x], command'[x] = command[x], seq' \in [Op -> Nat],
           \A r \in Letters' : \/ r \in Letters \/ r.body.kind # "submit" \/ r.body.dev = d
                               \/ \E y \in Letters : y.body = r.body
    PROVE  InTurn(x)'
<1>1. QueueStays(x)
  BY DEF QueueStays, Own
<1>2. Turns(x)'
  BY <1>1, TurnsRests DEF InTurn, Base, Outbox
<1>3. \A b \in Sent(x)' : b \in Sent(x)
  BY SentShrinks
<1>4. Ordered(x)'
  BY <1>1, <1>3, OrderedRests DEF InTurn, Phoned
<1>5. Settles(x)'
  BY <1>1, SettlesRests DEF InTurn, Awaits
<1>6. QED
  BY <1>2, <1>4, <1>5 DEF InTurn

-----------------------------------------------------------------------------
(* The server's steps keep the queues in order.                              *)

\* What the server holds of a phone that has superseded nothing is pending or acknowledged
\* there, and makes 1..L.
LEMMA HoldsRun ==
    ASSUME Base, NEW d \in Device, NEW L, L = S!LastSeq(d)
    PROVE  /\ L \in Nat
           /\ \A o \in Own(d) : stored[o] <= L
           /\ Pristine(d) => \A k \in 1..L : \E x \in Pending(d) \cup Held(d) : stored[x] = k
<1>1. L \in Nat /\ S!SeqsOf(d) = 1..L
  BY DEF Base, Contiguous, S!LedgerContiguous
<1>2. \A o \in Own(d) : stored[o] \in Nat /\ (stored[o] # 0 => stored[o] \in S!SeqsOf(d))
  BY DEF Own, S!SeqsOf, Base, Outbox
<1>3. \A o \in Own(d) : stored[o] <= L
  <2>1. SUFFICES ASSUME NEW o \in Own(d) PROVE stored[o] <= L
    OBVIOUS
  <2>2. stored[o] \in Nat /\ (stored[o] # 0 => stored[o] \in 1..L)
    BY <1>1, <1>2
  <2>3. QED
    BY <1>1, <2>2
<1>4. ASSUME Pristine(d), NEW k \in 1..L
      PROVE  \E x \in Pending(d) \cup Held(d) : stored[x] = k
  <2>1. k \in S!SeqsOf(d) /\ k # 0
    BY <1>1
  <2>2. PICK x \in Op : OpDevice[x] = d /\ stored[x] = k
    BY <2>1 DEF S!SeqsOf
  <2>3. status[x] # "unborn" /\ status[x] # "superseded" /\ x \in Own(d)
    BY <1>4, <2>1, <2>2 DEF Base, Born, Pristine, Own
  <2>4. x \in Pending(d) \cup Held(d)
    BY <2>3 DEF Base, Outbox, Pending, Held, Own
  <2>5. QED
    BY <2>2, <2>4
<1>5. QED
  BY <1>1, <1>3, <1>4

\* An instance that finds the awaited batch contiguous will leave the whole queue where the
\* phone has it.
LEMMA AcceptSettles ==
    ASSUME Base, NEW d \in Device, Turns(d), Ordered(d), Pristine(d), Awaits(d, "submit"),
           NEW w, NEW t, Accepts(w, t), t.req.body = engine[d].req.body
    PROVE  \A p \in Pending(d) : p \in t.fresh \/ stored[p] = seq[p]
<1>1. PICK P, A, q, s, B, L, b, F :
         /\ P = Pending(d) /\ A = Held(d) /\ q = seq /\ s = stored /\ B = Sent(d)
         /\ L = S!LastSeq(d) /\ b = t.req.body /\ F = t.fresh
  OBVIOUS
<1>2. /\ b.dev = d /\ b.seqs = [o \in Op |-> IF o \in P THEN q[o] ELSE 0]
  BY <1>1 DEF Turns
<1>3. Placed(P, A, q, s, B) /\ Queue(P, A, q, s, B)
  BY <1>1, QueueOf DEF Ordered
<1>4. P \subseteq Op /\ \A o \in P : q[o] \in Nat /\ q[o] # 0
  BY <1>1 DEF Base, Outbox, Born, Pending, Own
<1>5. F = {o \in P : s[o] = 0}
  <2>1. F = {o \in Op : b.seqs[o] # 0 /\ s[o] = 0}
    BY <1>1 DEF Accepts, S!Unseen, S!Ops
  <2>2. \A o \in Op : b.seqs[o] # 0 <=> o \in P
    BY <1>2, <1>4
  <2>3. QED
    BY <1>4, <2>1, <2>2
<1>6. /\ L \in Nat /\ \A o \in P \cup A : s[o] <= L
      /\ \A k \in 1..L : \E x \in P \cup A : s[x] = k
  <2>1. P \cup A \subseteq Own(d)
    BY <1>1 DEF Pending, Held
  <2>2. QED
    BY <1>1, <2>1, HoldsRun
<1>7. F = {} \/ S!Continues(b, F, L)
  BY <1>1, <1>2 DEF Accepts
<1>8. ASSUME NEW o \in P, s[o] = 0
      PROVE  q[o] > L /\ \A k \in (L + 1)..q[o] : \E y \in P : s[y] = 0 /\ q[y] = k
  <2>1. o \in F
    BY <1>5, <1>8
  <2>2. PICK n : n = Cardinality(F)
    OBVIOUS
  <2>3. n \in Nat
    <3>1. F \subseteq Op
      BY <1>4, <1>5
    <3>2. QED
      BY <2>2, <3>1, FS_Subset, FS_CardinalityType, OutboxAssumption DEF OutboxAssumption
  <2>4. {b.seqs[y] : y \in F} = (L + 1)..(L + n)
    BY <1>7, <2>1, <2>2, SameCardinality DEF S!Continues
  <2>5. \A y \in F : b.seqs[y] = q[y]
    BY <1>2, <1>4, <1>5
  <2>6. q[o] \in (L + 1)..(L + n)
    BY <2>1, <2>4, <2>5
  <2>7. \A k \in (L + 1)..(L + n) : \E y \in F : q[y] = k
    BY <2>4, <2>5
  <2>8. q[o] > L /\ \A k \in (L + 1)..q[o] : k \in (L + 1)..(L + n)
    BY <1>4, <1>6, <2>3, <2>6
  <2>9. QED
    BY <1>5, <2>7, <2>8
<1>9. \A p \in P : s[p] # 0 => s[p] = q[p]
  <2>1. \A o \in P : s[o] = 0 => q[o] > L
    BY <1>8
  <2>2. \A o \in P : s[o] = 0 => \A k \in (L + 1)..q[o] : \E y \in P : s[y] = 0 /\ q[y] = k
    BY <1>8
  <2>3. QED
    BY <1>3, <1>6, <2>1, <2>2, PlacedAccepted
<1>10. QED
  BY <1>1, <1>5, <1>9

LEMMA CalmInTurn ==
    ASSUME Base, Aside, NEW w \in Worker, Calm(w), NEW d \in Device, InTurn(d)
    PROVE  InTurn(d)'
<1>1. QueueStays(d) /\ stored' = stored
  BY DEF QueueStays, Aside, Calm
<1>2. \A r \in Letters' : r \in Letters
  BY CalmKeeps
<1>3. Turns(d)'
  BY <1>1, TurnsRests DEF InTurn, Aside, Base, Outbox
<1>4. \A b \in Sent(d)' : b \in Sent(d)
  BY <1>2, SentShrinks
<1>5. Ordered(d)'
  BY <1>1, <1>4, OrderedRests DEF InTurn
<1>6. Settles(d)'
  <2>1. SUFFICES ASSUME Pristine(d)', Awaits(d, "submit")'
                 PROVE  /\ Answered(engine[d].req.body)' => \A p \in Pending(d)' : stored'[p] = seq'[p]
                        /\ \A v \in Worker :
                              txn'[v].pc = "write" /\ txn'[v].req.body = engine'[d].req.body =>
                              \A p \in Pending(d)' : p \in txn'[v].fresh \/ stored'[p] = seq'[p]
    BY DEF Settles
  <2>2. PICK b : b = engine[d].req.body
    OBVIOUS
  <2>3. /\ Pristine(d) /\ Pending(d)' = Pending(d) /\ Awaits(d, "submit")
        /\ engine' = engine /\ seq' = seq /\ stored' = stored
    BY <1>1, <2>1, QueueKeeps DEF Aside, Awaits, Calm
  <2>4. b.kind = "submit"
    BY <2>2, <2>3 DEF InTurn, Turns
  <2>5. Answered(b)' => Answered(b)
    <3>1. ASSUME NEW e \in idem', e.body = b PROVE Answered(b)
      BY <2>4, <3>1 DEF Calm, Answered
    <3>2. ASSUME NEW a \in answers', a.req.body = b, a.says.code = "ack" PROVE Answered(b)
      <4>1. CASE a \in answers
        BY <3>2, <4>1 DEF Answered
      <4>2. CASE Answer(a)
        BY <3>2, <4>2 DEF Answer, Answered
      <4>3. QED
        BY <4>1, <4>2 DEF Calm
    <3>3. QED
      BY <3>1, <3>2 DEF Answered
  <2>6. Answered(engine[d].req.body)' => Answered(b)
    BY <2>2, <2>3, <2>5 DEF Answered
  <2>7. /\ Answered(b) => \A p \in Pending(d) : stored[p] = seq[p]
        /\ \A v \in Worker : txn[v].pc = "write" /\ txn[v].req.body = b =>
               \A p \in Pending(d) : p \in txn[v].fresh \/ stored[p] = seq[p]
    BY <2>2, <2>3 DEF InTurn, Settles
  <2>8. ASSUME NEW v \in Worker, txn'[v].pc = "write", txn'[v].req.body = b
        PROVE  \A p \in Pending(d) : p \in txn'[v].fresh \/ stored[p] = seq[p]
    <3>1. PICK t : txn' = [txn EXCEPT ![w] = t] /\ (t = S!Idle \/ Task(w, t))
      BY DEF Calm
    <3>2. txn = [u \in Worker |-> txn[u]]
      BY DEF Base, Inv, ServerInv
    <3>3. CASE v # w
      <4>1. txn'[v] = txn[v]
        BY <3>1, <3>2, <3>3
      <4>2. QED
        BY <2>7, <2>8, <4>1
    <3>4. CASE v = w
      <4>1. txn'[v] = t
        BY <3>1, <3>2, <3>4
      <4>2. t # S!Idle
        BY <2>8, <4>1 DEF S!Idle
      <4>3. Accepts(w, t)
        BY <2>8, <3>1, <4>1, <4>2 DEF Task
      <4>4. QED
        BY <2>2, <2>3, <2>8, <4>1, <4>3, AcceptSettles DEF InTurn
    <3>5. QED
      BY <3>3, <3>4
  <2>9. QED
    BY <2>2, <2>3, <2>6, <2>7, <2>8
<1>7. QED
  BY <1>3, <1>5, <1>6 DEF InTurn

LEMMA CommitInTurn ==
    ASSUME Base, Aside, NEW w \in Worker, Commits(w), NEW d \in Device, InTurn(d)
    PROVE  InTurn(d)'
<1>1. QueueStays(d) /\ txn[w].pc = "write" /\ engine' = engine /\ seq' = seq
  BY DEF QueueStays, Aside, Commits
<1>2. PICK b, F, L : b = txn[w].req.body /\ F = txn[w].fresh /\ L = S!LastSeq(b.dev)
  OBVIOUS
<1>3. Inserts(b, F, L)
  BY <1>2, CommitContinues
<1>4. \A o \in Op : stored'[o] = IF o \in F THEN b.seqs[o] ELSE stored[o]
  BY <1>2 DEF Commits
<1>5. /\ \A o \in Op : b.seqs[o] # 0 => OpDevice[o] = b.dev
      /\ \A o \in Op : b.seqs[o] # 0 => o \in F \/ stored[o] # 0
      /\ F \subseteq Op
      /\ \A o \in F : stored[o] = 0 /\ b.seqs[o] # 0 /\ b.seqs[o] > L
  BY <1>3 DEF Inserts
<1>6. Turns(d)'
  BY <1>1, TurnsRests DEF InTurn, Aside, Base, Outbox
<1>7. \A x \in Sent(d)' : x \in Sent(d)
  BY CommitKeeps, SentShrinks
<1>8. Ordered(d)'
  <2>1. CASE b.dev # d
    <3>1. \A o \in Own(d) : stored'[o] = stored[o]
      BY <1>4, <1>5, <2>1 DEF Own
    <3>2. QED
      BY <1>1, <1>7, <3>1, OrderedRests DEF InTurn
  <2>2. CASE b.dev = d
    <3>1. SUFFICES ASSUME Pristine(d)' PROVE Placed(Pending(d), Held(d), seq, stored, Sent(d))'
      BY DEF Ordered
    <3>2. /\ Pending(d)' = Pending(d) /\ Held(d)' = Held(d) /\ Pristine(d)
      BY <1>1, <3>1, QueueKeeps
    <3>3. PICK P, A, q, s, B, s2, B2 :
             /\ P = Pending(d) /\ A = Held(d) /\ q = seq /\ s = stored /\ B = Sent(d)
             /\ s2 = stored' /\ B2 = Sent(d)'
      OBVIOUS
    <3>4. Placed(P, A, q, s, B) /\ Queue(P, A, q, s, B)
      BY <3>2, <3>3, QueueOf DEF InTurn, Ordered
    <3>5. b \in B
      <4>1. txn[w].req \in Letters /\ b.kind = "submit"
        BY <1>1, <1>3 DEF Letters, S!Idle, Inserts
      <4>2. QED
        BY <1>2, <2>2, <3>3, <4>1 DEF Sent
    <3>6. L \in Nat /\ \A o \in P \cup A : s[o] <= L /\ o \in Op
      <4>1. \A o \in P \cup A : o \in Own(d) /\ o \in Op
        BY <3>3 DEF Pending, Held, Own
      <4>2. QED
        BY <1>2, <2>2, <3>3, <4>1, HoldsRun
    <3>7. /\ \A o \in P \cup A : o \in F => s[o] = 0 /\ b.seqs[o] # 0 /\ b.seqs[o] > L
          /\ \A o \in P \cup A : b.seqs[o] # 0 => o \in F \/ s[o] # 0
          /\ \A o \in P \cup A : s2[o] = IF o \in F THEN b.seqs[o] ELSE s[o]
          /\ B2 \subseteq B
      BY <1>4, <1>5, <1>7, <3>3, <3>6
    <3>8. Placed(P, A, q, s2, B2)
      BY <3>4, <3>5, <3>6, <3>7, PlacedWritten
    <3>9. QED
      BY <1>1, <3>2, <3>3, <3>8
  <2>3. QED
    BY <2>1, <2>2
<1>9. Settles(d)'
  <2>1. SUFFICES ASSUME Pristine(d)', Awaits(d, "submit")'
                 PROVE  /\ Answered(engine[d].req.body)' => \A p \in Pending(d)' : stored'[p] = seq'[p]
                        /\ \A v \in Worker :
                              txn'[v].pc = "write" /\ txn'[v].req.body = engine'[d].req.body =>
                              \A p \in Pending(d)' : p \in txn'[v].fresh \/ stored'[p] = seq'[p]
    BY DEF Settles
  <2>2. PICK c : c = engine[d].req.body
    OBVIOUS
  <2>3. Pristine(d) /\ Pending(d)' = Pending(d) /\ Awaits(d, "submit")
    BY <1>1, <2>1, QueueKeeps DEF Awaits
  <2>4. /\ Answered(c) => \A p \in Pending(d) : stored[p] = seq[p]
        /\ \A v \in Worker : txn[v].pc = "write" /\ txn[v].req.body = c =>
               \A p \in Pending(d) : p \in txn[v].fresh \/ stored[p] = seq[p]
    BY <2>2, <2>3 DEF InTurn, Settles
  <2>5. /\ \A p \in Pending(d) : p \in Op /\ seq[p] # 0 /\ c.seqs[p] = seq[p]
    <3>1. c.seqs = [o \in Op |-> IF o \in Pending(d) THEN seq[o] ELSE 0]
      BY <2>2, <2>3 DEF InTurn, Turns
    <3>2. QED
      BY <3>1 DEF Pending, Own, Base, Born
  <2>6. \A p \in Pending(d) : stored[p] = seq[p] => stored'[p] = seq[p]
    BY <1>4, <1>5, <2>5
  <2>7. Answered(c)' => Answered(c) \/ b = c
    <3>1. ASSUME NEW e \in idem', e.body = c PROVE Answered(c) \/ b = c
      BY <1>2, <3>1 DEF Commits, Answered
    <3>2. ASSUME NEW a \in answers', a.req.body = c, a.says.code = "ack" PROVE Answered(c) \/ b = c
      BY <1>2, <3>2 DEF Commits, Answered
    <3>3. QED
      BY <3>1, <3>2 DEF Answered
  <2>8. Answered(engine[d].req.body)' => Answered(c) \/ b = c
    BY <1>1, <2>2, <2>7 DEF Answered
  <2>9. b = c => \A p \in Pending(d) : stored'[p] = seq[p]
    BY <1>1, <1>2, <1>4, <2>4, <2>5, <2>6
  <2>10. ASSUME NEW v \in Worker, txn'[v].pc = "write", txn'[v].req.body = c
         PROVE  \A p \in Pending(d) : p \in txn'[v].fresh \/ stored'[p] = seq[p]
    <3>1. txn = [u \in Worker |-> txn[u]] /\ txn' = [txn EXCEPT ![w] = S!Idle]
      BY DEF Base, Inv, ServerInv, Commits
    <3>2. v # w
      BY <2>10, <3>1 DEF S!Idle
    <3>3. txn'[v] = txn[v]
      BY <3>1, <3>2
    <3>4. QED
      BY <2>4, <2>6, <2>10, <3>3
  <2>11. QED
    BY <1>1, <2>2, <2>3, <2>4, <2>6, <2>8, <2>9, <2>10
<1>10. QED
  BY <1>6, <1>8, <1>9 DEF InTurn

-----------------------------------------------------------------------------
(* The phones' steps keep the queues in order.                               *)

LEMMA OneInTurn ==
    ASSUME Base, \A x \in Device : InTurn(x), NEW d \in Device, Phoned,
           NEW e, engine' = [engine EXCEPT ![d] = e],
           NEW k, command' = [command EXCEPT ![d] = k],
           \A o \in Op : OpDevice[o] # d => seq'[o] = seq[o] /\ status'[o] = status[o],
           seq' \in [Op -> Nat],
           \A r \in Letters' : \/ r \in Letters \/ r.body.kind # "submit" \/ r.body.dev = d
                               \/ \E y \in Letters : y.body = r.body,
           InTurn(d)'
    PROVE  \A x \in Device : InTurn(x)'
<1>1. SUFFICES ASSUME NEW x \in Device, x # d PROVE InTurn(x)'
  OBVIOUS
<1>2. engine'[x] = engine[x] /\ command'[x] = command[x]
  BY <1>1 DEF Base, Outbox
<1>3. QED
  BY <1>1, <1>2, OthersInTurn

LEMMA StillInTurn ==
    ASSUME Base, shared, \A x \in Device : InTurn(x), NEW d \in Device, Still(d)
    PROVE  \A x \in Device : InTurn(x)'
<1>1. PICK e : /\ engine' = [engine EXCEPT ![d] = e]
               /\ e.pc # "decide"
               /\ e.pc = "submit" => Awaits(d, "submit") /\ e.req.body = engine[d].req.body
  BY DEF Still, Moves, Calling, Silent
<1>2. \E k : command' = [command EXCEPT ![d] = k] /\ (k # Rest => k = command[d])
  BY SameAt DEF Still, Base
<1>3. PICK k : command' = [command EXCEPT ![d] = k] /\ (k # Rest => k = command[d])
  BY <1>2
<1>4. engine'[d] = e /\ command'[d] = k
  BY <1>1, <1>3 DEF Base, Outbox
<1>5. UNCHANGED <<seq, status>> /\ Phoned /\ NoNewBatch /\ QueueStays(d)
  BY StillKeeps DEF Still, QueueStays
<1>6. \A b \in Sent(d)' : b \in Sent(d)
  BY <1>5, SentShrinks DEF NoNewBatch
<1>7. Ordered(d)'
  BY <1>5, <1>6, OrderedRests DEF InTurn, Phoned
<1>8. Settles(d)'
  BY <1>1, <1>4, <1>5, SettlesRests DEF InTurn, Awaits
<1>9. Turns(d)'
  <2>1. /\ Pending(d)' = Pending(d) /\ Unborn(d)' = Unborn(d) /\ NextSeq(d)' = NextSeq(d)
    BY <1>5, QueueKeeps
  <2>2. k = Rest \/ e = Rest
    BY <1>3, <1>4 DEF Still, InTurn, Turns
  <2>3. k # Rest => k.seq = NextSeq(d) /\ Unborn(d) # {}
    <3>1. Turns(d)
      BY DEF InTurn
    <3>2. command[d] # Rest => command[d].seq = NextSeq(d) /\ Unborn(d) # {}
      BY <3>1 DEF Turns
    <3>3. QED
      BY ONLY <1>3, <3>2
  <2>4. e.pc = "submit" =>
           /\ e.req.body.kind = "submit"
           /\ e.req.body.dev = d
           /\ e.req.body.seqs = [o \in Op |-> IF o \in Pending(d) THEN seq[o] ELSE 0]
    BY <1>1 DEF InTurn, Turns
  <2>5. QED
    BY <1>1, <1>4, <1>5, <2>1, <2>2, <2>3, <2>4 DEF Turns, Awaits
<1>10. InTurn(d)'
  BY <1>7, <1>8, <1>9 DEF InTurn
<1>11. QED
  BY <1>1, <1>3, <1>5, <1>10, OneInTurn DEF NoNewBatch, Base, Outbox

\* A spare operation_id is there.
LEMMA SpareIsThere ==
    ASSUME NEW d, Spare(d) PROVE Unborn(d) # {}
<1>1. SUFFICES ASSUME Unborn(d) = {} PROVE FALSE
  OBVIOUS
<1>2. PICK D : D = {x \in {"command", "decision"} :
                      IF x = "command" THEN command[d] # Rest ELSE engine[d].pc = "decide"}
  OBVIOUS
<1>3. IsFiniteSet({"command"}) /\ IsFiniteSet({"command", "decision"})
  <2>1. IsFiniteSet({"command"})
    BY FS_Singleton
  <2>2. {"command", "decision"} = {"command"} \cup {"decision"}
    OBVIOUS
  <2>3. QED
    BY <2>1, <2>2, FS_AddElement
<1>4. IsFiniteSet(D)
  BY <1>2, <1>3, FS_Subset
<1>5. Cardinality(D) \in Nat /\ Cardinality(Unborn(d)) = 0
  BY <1>1, <1>4, FS_CardinalityType, FS_EmptySet
<1>6. Cardinality(Unborn(d)) > Cardinality(D)
  BY <1>2 DEF Spare
<1>7. QED
  BY <1>5, <1>6

LEMMA CommandInTurn ==
    ASSUME Base, shared, \A x \in Device : InTurn(x), NEW d \in Device, Command(d)
    PROVE  \A x \in Device : InTurn(x)'
<1> USE DEF serverVars, outboxVars, stateVars
<1>1. PICK next, stack : Apply(d, next, stack)
  BY DEF Command, Collect, ConcludeSurvey, UndoLast
<1>2. PICK n, k : n = NextSeq(d) /\ k = [pc |-> "save", next |-> next, stack |-> stack, seq |-> n]
  OBVIOUS
<1>3. k.seq = NextSeq(d)
  BY <1>2
<1>4. /\ command' = [command EXCEPT ![d] = k] /\ Phoned
      /\ UNCHANGED <<engine, seq, status>> /\ engine[d] = Rest /\ Unborn(d) # {}
  BY <1>1, <1>2, SpareIsThere DEF Apply, Phoned
<1>5. PICK e : e = engine[d]
  OBVIOUS
<1>6. /\ engine' = [engine EXCEPT ![d] = e] /\ engine'[d] = Rest /\ command'[d] = k
  BY <1>4, <1>5, SameAt DEF Base, Outbox
<1>7. QueueStays(d) /\ \A r \in Letters' : r \in Letters
  BY <1>4, CommandKeeps DEF QueueStays
<1>8. \A b \in Sent(d)' : b \in Sent(d)
  BY <1>7, SentShrinks
<1>9. Ordered(d)'
  BY <1>4, <1>7, <1>8, OrderedRests DEF InTurn, Phoned
<1>10. Rest.pc = "idle"
  BY DEF Rest
<1>11. Settles(d)'
  BY <1>6, <1>10 DEF Settles, Awaits
<1>12. Turns(d)'
  <2>1. Unborn(d)' = Unborn(d) /\ NextSeq(d)' = NextSeq(d)
    BY <1>7, QueueKeeps
  <2>2. QED
    BY <1>3, <1>4, <1>6, <1>10, <2>1 DEF Turns, Awaits
<1>13. InTurn(d)'
  BY <1>9, <1>11, <1>12 DEF InTurn
<1>14. QED
  BY <1>4, <1>6, <1>7, <1>13, OneInTurn DEF Base, Outbox

LEMMA ResolveInTurn ==
    ASSUME Base, shared, \A x \in Device : InTurn(x), NEW d \in Device, ResolveConflict(d)
    PROVE  \A x \in Device : InTurn(x)'
<1> USE DEF serverVars, outboxVars, stateVars
<1>1. PICK decision : engine' = [engine EXCEPT ![d] =
                        [pc |-> "decide", decision |-> decision,
                         pending |-> Pending(d), abandoned |-> Abandoned(d)]]
  BY DEF ResolveConflict
<1>2. PICK G, H : G = Pending(d) /\ H = Abandoned(d)
  OBVIOUS
<1>3. PICK e : e = [pc |-> "decide", decision |-> decision, pending |-> G, abandoned |-> H]
  OBVIOUS
<1>4. e.pc = "decide" /\ e.pending = G /\ e.abandoned = H
  BY <1>3
<1>5. /\ engine' = [engine EXCEPT ![d] = e] /\ Phoned /\ command[d] = Rest
      /\ UNCHANGED <<seq, status, command>> /\ Unborn(d) # {}
  BY <1>1, <1>2, <1>3, SpareIsThere DEF ResolveConflict, Phoned, Turn
<1>6. PICK k : k = command[d]
  OBVIOUS
<1>7. command' = [command EXCEPT ![d] = k] /\ engine'[d] = e
  BY <1>5, <1>6, SameAt DEF Base, Outbox
<1>8. QueueStays(d) /\ \A r \in Letters' : r \in Letters
  BY <1>5, ResolveKeeps DEF QueueStays
<1>9. \A b \in Sent(d)' : b \in Sent(d)
  BY <1>8, SentShrinks
<1>10. Ordered(d)'
  BY <1>5, <1>8, <1>9, OrderedRests DEF InTurn, Phoned
<1>11. Settles(d)'
  BY <1>4, <1>7 DEF Settles, Awaits
<1>12. Turns(d)'
  <2>1. Unborn(d)' = Unborn(d) /\ Pending(d)' = Pending(d) /\ Own(d)' = Own(d)
    BY <1>8, QueueKeeps DEF Own
  <2>2. G \subseteq H /\ H \subseteq Own(d)
    BY <1>2 DEF Abandoned, Pending
  <2>3. QED
    BY <1>2, <1>4, <1>5, <1>7, <2>1, <2>2 DEF Turns, Awaits
<1>13. InTurn(d)'
  BY <1>10, <1>11, <1>12 DEF InTurn
<1>14. QED
  BY <1>5, <1>7, <1>8, <1>13, OneInTurn DEF Base, Outbox

\* An operation nobody has created is stored nowhere and in no batch.
LEMMA UnbornIsNew ==
    ASSUME Base, NEW d \in Device, Unborn(d) # {}
    PROVE  /\ NewOp(d) \in Op /\ OpDevice[NewOp(d)] = d /\ status[NewOp(d)] = "unborn"
           /\ stored[NewOp(d)] = 0
           /\ \A b \in Sent(d) : b.seqs[NewOp(d)] = 0
           /\ NewOp(d) \notin Pending(d) \cup Held(d)
<1>1. NewOp(d) \in Op /\ OpDevice[NewOp(d)] = d /\ status[NewOp(d)] = "unborn"
  BY DEF Unborn, NewOp, Own
<1>2. stored[NewOp(d)] = 0
  BY <1>1 DEF Base, Born
<1>3. \A b \in Sent(d) : b.seqs[NewOp(d)] = 0
  BY <1>1 DEF Sent, Base, Post, Proper
<1>4. QED
  BY <1>1, <1>2, <1>3 DEF Pending, Held

LEMMA SaveInTurn ==
    ASSUME Base, shared, \A x \in Device : InTurn(x), NEW d \in Device, SaveCommand(d)
    PROVE  \A x \in Device : InTurn(x)'
<1> USE DEF serverVars, outboxVars, stateVars
<1>1. PICK m \in Nat : /\ command[d].seq = m + 1
                       /\ \A o \in Live(d) : seq[o] <= m
                       /\ m # 0 => \E o \in Live(d) : seq[o] = m
  <2>1. command[d].seq = NextSeq(d)
    BY DEF SaveCommand, InTurn, Turns
  <2>2. Outbox
    BY DEF Base
  <2>3. QED
    BY <2>1, <2>2, NextIsLast
<1>2. PICK x : /\ command[d] # Rest /\ engine[d] = Rest /\ Unborn(d) # {}
               /\ x = NewOp(d)
  BY DEF SaveCommand, InTurn, Turns
<1>3. /\ x \in Op /\ OpDevice[x] = d /\ status[x] = "unborn" /\ stored[x] = 0
      /\ \A b \in Sent(d) : b.seqs[x] = 0
      /\ x \notin Pending(d) \cup Held(d)
  BY <1>1, <1>2, UnbornIsNew
<1>4. /\ seq' = [seq EXCEPT ![x] = m + 1] /\ status' = [status EXCEPT ![x] = "local"]
      /\ command' = [command EXCEPT ![d] = Rest] /\ engine' = engine /\ Phoned
  BY <1>1, <1>2 DEF SaveCommand, Phoned
<1>5. PICK e, k : e = engine[d] /\ k = Rest
  OBVIOUS
<1>6. /\ engine' = [engine EXCEPT ![d] = e] /\ command' = [command EXCEPT ![d] = k]
      /\ engine'[d] = Rest /\ command'[d] = Rest
  BY <1>2, <1>4, <1>5, SameAt DEF Base, Outbox
<1>7. /\ \A r \in Letters' : r \in Letters
      /\ \A b \in Sent(d)' : b \in Sent(d)
  BY SaveKeeps, SentShrinks
<1>8. Rest.pc = "idle"
  BY DEF Rest
<1>9. Turns(d)' /\ Settles(d)'
  BY <1>6, <1>8 DEF Turns, Settles, Awaits
<1>10. Ordered(d)'
  <2>1. SUFFICES ASSUME Pristine(d)' PROVE Placed(Pending(d), Held(d), seq, stored, Sent(d))'
    BY DEF Ordered
  <2>2. Pristine(d)
    BY <1>3, <1>4, <2>1 DEF Pristine, Own, Base, Outbox
  <2>3. PICK P, A, q, s, B, q2, B2 :
           /\ P = Pending(d) /\ A = Held(d) /\ q = seq /\ s = stored /\ B = Sent(d)
           /\ q2 = seq' /\ B2 = Sent(d)'
    OBVIOUS
  <2>4. Placed(P, A, q, s, B) /\ Queue(P, A, q, s, B)
    BY <2>2, <2>3, QueueOf DEF InTurn, Ordered
  <2>5. Pending(d)' = P \cup {x} /\ Held(d)' = A
    BY <1>3, <1>4, <2>3 DEF Pending, Held, Own, Base, Outbox
  <2>6. /\ \A o \in P \cup A : q2[o] = q[o] /\ q[o] <= m
        /\ q2[x] = m + 1
        /\ m # 0 => \E o \in P \cup A : q[o] = m
        /\ \A o \in P : q[o] # 0
        /\ P \subseteq Op /\ A \subseteq Op
    <3>1. Live(d) = P \cup A
      BY <2>3 DEF Live, Pending, Held, Own
    <3>2. \A o \in P \cup A : q2[o] = q[o]
      BY <1>3, <1>4, <2>3 DEF Base, Outbox
    <3>3. q2[x] = m + 1
      BY <1>3, <1>4, <2>3 DEF Base, Outbox
    <3>4. \A o \in P : q[o] # 0
      BY <2>3 DEF Pending, Own, Base, Born
    <3>5. P \subseteq Op /\ A \subseteq Op
      BY <2>3 DEF Pending, Held, Own
    <3>6. QED
      BY <1>1, <2>3, <3>1, <3>2, <3>3, <3>4, <3>5
  <2>7. x \in Op /\ x \notin P \cup A /\ s[x] = 0 /\ \A b \in B : b.seqs[x] = 0
    BY <1>3, <2>3
  <2>8. Placed(P \cup {x}, A, q2, s, B)
    BY <1>1, <2>4, <2>6, <2>7, PlacedSaved
  <2>9. PICK P2 : P2 = P \cup {x}
    OBVIOUS
  <2>10. Placed(P2, A, q2, s, B2)
    <3>1. P2 \subseteq Op /\ A \subseteq Op /\ B2 \subseteq B /\ Placed(P2, A, q2, s, B)
      BY <1>7, <2>3, <2>6, <2>7, <2>8, <2>9
    <3>2. QED
      BY <3>1, PlacedFewer
  <2>11. QED
    BY <1>4, <2>3, <2>5, <2>9, <2>10 DEF Phoned
<1>11. InTurn(d)'
  BY <1>9, <1>10 DEF InTurn
<1>12. \A o \in Op : OpDevice[o] # d => seq'[o] = seq[o] /\ status'[o] = status[o]
  BY <1>3, <1>4
<1>13. seq' \in [Op -> Nat]
  BY SaveKeeps DEF Kept, Outbox
<1>14. QED
  BY <1>4, <1>6, <1>7, <1>11, <1>12, <1>13, OneInTurn

\* The places of the queue are 1..n, each taken.
LEMMA PlacesTaken ==
    ASSUME NEW P, IsFiniteSet(P), NEW n, n = Cardinality(P), NEW place \in [P -> 1..n],
           \A o, p \in P : place[o] = place[p] => o = p
    PROVE  \A k \in 1..n : \E p \in P : place[p] = k
<1>1. n \in Nat
  BY FS_CardinalityType
<1>2. PICK T : T = 1..n
  OBVIOUS
<1>3. IsFiniteSet(T) /\ Cardinality(T) = n
  <2>1. n \in Int /\ 1 \in Int
    BY <1>1
  <2>2. IsFiniteSet(1..n) /\ Cardinality(1..n) = IF 1 > n THEN 0 ELSE n - 1 + 1
    BY <2>1, FS_Interval, Zenon
  <2>3. QED
    BY <1>1, <1>2, <2>2
<1>4. place \in Injection(P, T)
  BY <1>2 DEF Injection, IsInjective
<1>5. place \in Surjection(P, T)
  BY <1>3, <1>4, FS_Injection
<1>6. QED
  BY <1>2, <1>5 DEF Surjection

LEMMA KeepLocalInTurn ==
    ASSUME Base, shared, \A x \in Device : InTurn(x), NEW d \in Device, KeepLocal(d)
    PROVE  \A x \in Device : InTurn(x)'
<1> USE DEF serverVars, outboxVars, stateVars
<1>1. PICK x, last, P, n, e, k :
         /\ x = NewOp(d) /\ last = conflict[d].last /\ P = engine[d].pending
         /\ n = Cardinality(P) /\ e = [pc |-> "begin", override |-> {}]
         /\ k = command[d]
  OBVIOUS
<1>2. /\ engine[d].pc = "decide" /\ P = Pending(d) /\ Unborn(d) # {} /\ last \in Nat
      /\ command[d] = Rest
  <2>1. engine[d].pc = "decide"
    BY DEF KeepLocal, Decides
  <2>2. Turns(d)
    BY DEF InTurn
  <2>3. engine[d] # Rest
    BY <2>1 DEF Rest
  <2>4. QED
    BY <1>1, <2>1, <2>2, <2>3, CarriesOn DEF Turns
<1>3. /\ engine' = [engine EXCEPT ![d] = e] /\ command' = command /\ Phoned
      /\ status' = [o \in Op |-> IF o \in P \cup {x} THEN "local" ELSE status[o]]
  BY <1>1 DEF KeepLocal, Phoned
<1>4. PICK place \in Queued(P) :
         seq' = [o \in Op |-> IF o \in P THEN last + place[o]
                              ELSE IF o = x THEN last + 1 + n ELSE seq[o]]
  BY <1>1 DEF KeepLocal
<1>5. /\ x \in Op /\ OpDevice[x] = d /\ status[x] = "unborn" /\ stored[x] = 0
      /\ \A b \in Sent(d) : b.seqs[x] = 0
      /\ x \notin Pending(d) \cup Held(d)
  BY <1>1, <1>2, UnbornIsNew
<1>6. /\ place \in [P -> 1..n]
      /\ \A o, p \in P : (place[o] = place[p] => o = p) /\ (seq[o] < seq[p] => place[o] < place[p])
  BY <1>1, <1>4 DEF Queued
<1>7. P \subseteq Op /\ n \in Nat /\ \A k0 \in 1..n : \E p \in P : place[p] = k0
  <2>1. P \subseteq Op
    BY <1>2 DEF Pending, Own
  <2>2. IsFiniteSet(P)
    BY <2>1, FS_Subset, OutboxAssumption DEF OutboxAssumption
  <2>3. QED
    BY <1>1, <1>6, <2>1, <2>2, PlacesTaken, FS_CardinalityType
<1>8. engine'[d] = e /\ command'[d] = Rest /\ command' = [command EXCEPT ![d] = k]
  BY <1>1, <1>2, <1>3, SameAt DEF Base, Outbox
<1>9. /\ \A r \in Letters' : r \in Letters
      /\ \A b \in Sent(d)' : b \in Sent(d)
  BY KeepLocalKeeps, SentShrinks
<1>10. e.pc = "begin"
  BY <1>1
<1>11. Turns(d)' /\ Settles(d)'
  BY <1>8, <1>10 DEF Turns, Settles, Awaits
<1>12. Ordered(d)'
  <2>1. SUFFICES ASSUME Pristine(d)' PROVE Placed(Pending(d), Held(d), seq, stored, Sent(d))'
    BY DEF Ordered
  <2>2. Pristine(d)
    BY <1>2, <1>3, <1>5, <2>1 DEF Pristine, Own, Pending
  <2>3. PICK A, q, s, B, q2, B2, P2 :
           /\ A = Held(d) /\ q = seq /\ s = stored /\ B = Sent(d)
           /\ q2 = seq' /\ B2 = Sent(d)' /\ P2 = P \cup {x}
    OBVIOUS
  <2>4. Placed(P, A, q, s, B) /\ Queue(P, A, q, s, B)
    BY <1>2, <2>2, <2>3, QueueOf DEF InTurn, Ordered
  <2>5. Pending(d)' = P2 /\ Held(d)' = A
    BY <1>2, <1>3, <1>5, <2>3 DEF Pending, Held, Own
  <2>6. A \subseteq Op /\ \A a \in A : a \notin P /\ a # x
    BY <1>2, <1>5, <2>3 DEF Pending, Held, Own
  <2>7. \A a \in A : q2[a] = q[a] /\ a \notin P
    BY <1>4, <2>3, <2>6
  <2>8. (\A p \in P : q2[p] = last + place[p]) /\ q2[x] = last + 1 + n
    BY <1>2, <1>4, <1>5, <1>7, <2>3
  <2>9. x \in Op /\ x \notin P \cup A /\ s[x] = 0 /\ \A b \in B : b.seqs[x] = 0
    BY <1>2, <1>5, <2>3
  <2>10. \A p, r \in P : (place[p] = place[r] => p = r) /\ (q[p] < q[r] => place[p] < place[r])
    BY <1>6, <2>3
  <2>11. Placed(P \cup {x}, A, q2, s, B)
    <3>1. \A k0 \in 1..n : \E p \in P : place[p] = k0
      BY <1>7
    <3>2. last \in Nat /\ n \in Nat /\ place \in [P -> 1..n]
      BY <1>2, <1>6, <1>7
    <3>3. Renumbered(P, A, s, B, q, x, n, last, place, q2)
      BY <2>7, <2>8, <2>9, <2>10, <3>1, <3>2 DEF Renumbered
    <3>4. QED
      BY <2>4, <3>3, PlacedRenumbered
  <2>12. P2 \subseteq Op /\ B2 \subseteq B /\ Placed(P2, A, q2, s, B)
    BY <1>5, <1>7, <1>9, <2>3, <2>11
  <2>13. Placed(P2, A, q2, s, B2)
    BY <2>6, <2>12, PlacedFewer
  <2>14. QED
    BY <1>3, <2>3, <2>5, <2>13 DEF Phoned
<1>13. InTurn(d)'
  BY <1>11, <1>12 DEF InTurn
<1>14. \A o \in Op : OpDevice[o] # d => seq'[o] = seq[o] /\ status'[o] = status[o]
  BY <1>2, <1>3, <1>4, <1>5 DEF Pending, Own
<1>15. seq' \in [Op -> Nat]
  BY KeepLocalKeeps DEF Kept, Outbox
<1>16. QED
  BY <1>3, <1>8, <1>9, <1>13, <1>14, <1>15, OneInTurn

LEMMA AcceptServerInTurn ==
    ASSUME Base, shared, \A x \in Device : InTurn(x), NEW d \in Device, AcceptServer(d)
    PROVE  \A x \in Device : InTurn(x)'
<1> USE DEF serverVars, outboxVars, stateVars
<1>1. PICK x, n, H, k, e :
         /\ x = NewOp(d) /\ n = conflict[d].last + 1 /\ H = engine[d].abandoned /\ k = Rest
         /\ e = IF conflict[d].snapshot = {} THEN Rest
                ELSE [pc |-> "begin", override |-> conflict[d].snapshot]
  OBVIOUS
<1>2. e.pc \in {"idle", "begin"}
  BY <1>1 DEF Rest
<1>3. /\ engine[d].pc = "decide" /\ Unborn(d) # {} /\ command[d] = Rest
      /\ Pending(d) \subseteq H /\ H \subseteq Own(d)
      /\ \A o \in H : o \in Op /\ status[o] # "unborn"
  <2>1. engine[d].pc = "decide"
    BY DEF AcceptServer, Decides
  <2>2. Turns(d)
    BY DEF InTurn
  <2>3. engine[d] # Rest
    BY <2>1 DEF Rest
  <2>4. Weighed(engine[d])
    BY <2>1, CarriesOn
  <2>5. \A o \in H : o \in Op /\ status[o] # "unborn"
    BY <1>1, <2>4 DEF Weighed
  <2>6. QED
    BY <1>1, <2>1, <2>2, <2>3, <2>5 DEF Turns
<1>4. /\ engine' = [engine EXCEPT ![d] = e] /\ command' = command /\ Phoned
      /\ seq' = [seq EXCEPT ![x] = n]
      /\ status' = [o \in Op |-> IF o = x THEN "local"
                                 ELSE IF o \in H THEN "superseded" ELSE status[o]]
  BY <1>1 DEF AcceptServer, Phoned
<1>5. /\ x \in Op /\ OpDevice[x] = d /\ status[x] = "unborn" /\ stored[x] = 0
      /\ \A b \in Sent(d) : b.seqs[x] = 0
      /\ x \notin Pending(d) \cup Held(d)
  BY <1>1, <1>3, UnbornIsNew
<1>6. /\ engine'[d] = e /\ command'[d] = Rest /\ command' = [command EXCEPT ![d] = k]
  BY <1>1, <1>3, <1>4, SameAt DEF Base, Outbox
<1>7. /\ \A r \in Letters' : r \in Letters
      /\ \A b \in Sent(d)' : b \in Sent(d)
      /\ seq' \in [Op -> Nat]
  BY AcceptServerKeeps, SentShrinks DEF Kept, Outbox
<1>8. Turns(d)' /\ Settles(d)'
  BY <1>2, <1>6 DEF Turns, Settles, Awaits
<1>9. Ordered(d)'
  <2>1. SUFFICES ASSUME Pristine(d)' PROVE Placed(Pending(d), Held(d), seq, stored, Sent(d))'
    BY DEF Ordered
  <2>2. H = {}
    <3>1. SUFFICES ASSUME NEW o \in H PROVE FALSE
      OBVIOUS
    <3>2. o \in Own(d) /\ o \in Op /\ o # x
      BY <1>3, <1>5
    <3>3. status'[o] = "superseded"
      BY <1>4, <3>2
    <3>4. QED
      BY <2>1, <3>2, <3>3 DEF Pristine, Own
  <2>3. Pending(d) = {} /\ Pristine(d)
    BY <1>3, <1>4, <1>5, <2>1, <2>2 DEF Pristine, Own
  <2>4. PICK A, q, s, B, q2, B2 :
           /\ A = Held(d) /\ q = seq /\ s = stored /\ B = Sent(d)
           /\ q2 = seq' /\ B2 = Sent(d)'
    OBVIOUS
  <2>5. InPlace(A, q, s)
    BY <2>3, <2>4 DEF InTurn, Ordered, Placed
  <2>6. Pending(d)' = {x} /\ Held(d)' = A
    BY <1>4, <1>5, <2>2, <2>3, <2>4 DEF Pending, Held, Own
  <2>7. InPlace(A, q2, s)
    <3>1. \A a \in A : q2[a] = q[a]
      BY <1>4, <1>5, <2>4 DEF Held, Own, Base, Outbox
    <3>2. QED
      BY <2>5, <3>1 DEF InPlace
  <2>8. s[x] = 0 /\ q2[x] \in Nat /\ \A b \in B2 : b.seqs[x] = 0
    BY <1>5, <1>7, <2>4
  <2>9. Placed({x}, A, q2, s, B2)
    BY <2>7, <2>8, PlacedAlone
  <2>10. QED
    BY <1>4, <2>4, <2>6, <2>9 DEF Phoned
<1>10. InTurn(d)'
  BY <1>8, <1>9 DEF InTurn
<1>11. \A o \in Op : OpDevice[o] # d => seq'[o] = seq[o] /\ status'[o] = status[o]
  BY <1>3, <1>4, <1>5 DEF Own
<1>12. QED
  BY <1>4, <1>6, <1>7, <1>10, <1>11, OneInTurn

\* A new batch has a key of its own: nobody has answered it yet.
LEMMA SendInTurn ==
    ASSUME Base, shared, \A x \in Device : InTurn(x), NEW d \in Device, Sends(d)
    PROVE  \A x \in Device : InTurn(x)'
<1>1. PICK e : /\ engine' = [engine EXCEPT ![d] = e] /\ Dispatch(d, e.req.body)
               /\ engine'[d] = e /\ e.pc = "submit"
               /\ \A r \in Letters' : r \in Letters \/ r = e.req
  BY SendKeeps
<1>2. PICK k, c : k = Rest /\ c = e.req.body
  OBVIOUS
<1>3. /\ Phoned /\ seq' = seq /\ command' = command /\ engine[d].pc = "token"
      /\ status' = [o \in Op |-> IF o \in Pending(d) THEN "pending" ELSE status[o]]
  BY DEF Sends, Awaits
<1>4. engine[d] # Rest
  BY <1>3 DEF Rest
<1>5. command[d] = Rest
  BY <1>4 DEF InTurn, Turns
<1>6. command' = [command EXCEPT ![d] = k] /\ command'[d] = Rest
  BY <1>2, <1>3, <1>5, SameAt DEF Base, Outbox
<1>7. /\ c.kind = "submit" /\ c.dev = d /\ c.key[2] = batches[d] + 1
      /\ c.seqs = [o \in Op |-> IF o \in Pending(d) THEN seq[o] ELSE 0]
  BY <1>1, <1>2 DEF Dispatch
<1>8. /\ Pending(d)' = Pending(d) /\ Held(d)' = Held(d) /\ Pristine(d)' = Pristine(d)
      /\ Unborn(d)' = Unborn(d)
  BY <1>3 DEF Pending, Held, Pristine, Unborn, Own
<1>9. Turns(d)'
  BY <1>1, <1>2, <1>3, <1>6, <1>7, <1>8 DEF Turns, Awaits
<1>10. \A b : Proper(b) => b # c
  <2>1. SUFFICES ASSUME Proper(c) PROVE FALSE
    OBVIOUS
  <2>2. batches[d] + 1 <= batches[d] /\ batches[d] \in Nat
    BY <1>7, <2>1 DEF Proper, Base, Outbox
  <2>3. QED
    BY <2>2
<1>11. Settles(d)'
  <2>1. ~Answered(c)'
    <3>1. \A e1 \in idem : e1.body # c
      BY <1>10 DEF Base, Books
    <3>2. \A a \in answers : a.req.body # c
      BY <1>10 DEF Base, Post, Letters
    <3>3. QED
      BY <1>3, <3>1, <3>2 DEF Answered, Phoned
  <2>2. \A w \in Worker : txn'[w].pc = "write" => txn'[w].req.body # c
    <3>1. SUFFICES ASSUME NEW w \in Worker, txn[w].pc = "write" PROVE txn[w].req.body # c
      BY <1>3 DEF Phoned
    <3>2. txn[w].req \in Letters
      BY <3>1 DEF Letters, S!Idle
    <3>3. QED
      BY <1>10, <3>2 DEF Base, Post
  <2>3. engine'[d].req.body = c
    BY <1>1, <1>2
  <2>4. ~Answered(engine[d].req.body)'
    BY <2>1, <2>3 DEF Answered
  <2>5. QED
    BY <2>2, <2>3, <2>4 DEF Settles
<1>12. Ordered(d)'
  <2>1. SUFFICES ASSUME Pristine(d)' PROVE Placed(Pending(d), Held(d), seq, stored, Sent(d))'
    BY DEF Ordered
  <2>2. PICK P, A, q, s, B, B2 :
           /\ P = Pending(d) /\ A = Held(d) /\ q = seq /\ s = stored /\ B = Sent(d)
           /\ B2 = Sent(d)'
    OBVIOUS
  <2>3. Placed(P, A, q, s, B) /\ Queue(P, A, q, s, B)
    BY <1>8, <2>1, <2>2, QueueOf DEF InTurn, Ordered
  <2>4. \A b \in B2 : b \in B \/ b = c
    BY <1>1, <1>2, <2>2 DEF Sent
  <2>5. \A o \in P : c.seqs[o] = q[o] /\ q[o] # 0
    <3>1. P \subseteq Op /\ \A o \in P : q[o] # 0
      BY <2>2 DEF Pending, Own, Base, Born
    <3>2. QED
      BY <1>7, <2>2, <3>1
  <2>6. Placed(P, A, q, s, B2)
    BY <2>3, <2>4, <2>5, PlacedSent
  <2>7. QED
    BY <1>3, <1>8, <2>2, <2>6 DEF Phoned
<1>13. InTurn(d)'
  BY <1>9, <1>11, <1>12 DEF InTurn
<1>14. \A o \in Op : OpDevice[o] # d => seq'[o] = seq[o] /\ status'[o] = status[o]
  BY <1>3 DEF Pending, Own
<1>15. seq' \in [Op -> Nat]
  BY <1>3 DEF Base, Outbox
<1>16. \A r \in Letters' : \/ r \in Letters \/ r.body.kind # "submit" \/ r.body.dev = d
                           \/ \E y \in Letters : y.body = r.body
  BY <1>1, <1>2, <1>7
<1>17. QED
  BY <1>1, <1>3, <1>6, <1>13, <1>14, <1>15, <1>16, OneInTurn

\* The acknowledgement names the queue, all of it.
LEMMA AcksQueue ==
    ASSUME Base, NEW d \in Device, Turns(d), Awaits(d, "submit"),
           NEW a \in answers, a.req = engine[d].req, a.says.code = "ack"
    PROVE  Acknowledged(a) = Pending(d)
<1>1. PICK c : c = a.req.body
  OBVIOUS
<1>2. c.seqs = [o \in Op |-> IF o \in Pending(d) THEN seq[o] ELSE 0]
  BY <1>1 DEF Turns
<1>3. \A o \in Pending(d) : o \in Op /\ seq[o] # 0
  BY DEF Pending, Own, Base, Born
<1>4. S!Ops(c) = Pending(d)
  BY <1>2, <1>3 DEF S!Ops
<1>5. Entered(a.says, c)
  BY <1>1 DEF Base, Books
<1>6. \A o \in Op : c.seqs[o] # 0 => o \in a.says.ops
  BY <1>5 DEF Entered
<1>7. \A o \in Pending(d) : o \in a.says.ops
  BY <1>2, <1>3, <1>6
<1>8. QED
  BY <1>1, <1>4, <1>7 DEF Acknowledged

\* The answer acknowledges the whole queue, and finds it in place.
LEMMA AcknowledgeInTurn ==
    ASSUME Base, Inv', shared, \A x \in Device : InTurn(x), NEW d \in Device, Acknowledges(d)
    PROVE  \A x \in Device : InTurn(x)'
<1>1. PICK e : engine' = [engine EXCEPT ![d] = e] /\ e.pc # "decide"
  BY DEF Acknowledges, Moves, Calling
<1>2. PICK k : k = Rest
  OBVIOUS
<1>3. /\ Phoned /\ seq' = seq /\ command' = command /\ engine[d].pc = "submit"
      /\ engine'[d].pc # "submit" /\ engine'[d] = e
  BY <1>1 DEF Acknowledges, Awaits, Base, Outbox
<1>4. PICK a \in answers :
         /\ a.req = engine[d].req /\ a.says.code = "ack"
         /\ status' = [o \in Op |-> IF o \in Acknowledged(a) THEN "acked" ELSE status[o]]
  BY DEF Acknowledges
<1>5. PICK c : c = a.req.body
  OBVIOUS
<1>6. /\ c.seqs = [o \in Op |-> IF o \in Pending(d) THEN seq[o] ELSE 0]
      /\ c = engine[d].req.body /\ command[d] = Rest
  <2>1. Turns(d) /\ engine[d] # Rest
    BY <1>3 DEF InTurn, Rest
  <2>2. QED
    BY <1>3, <1>4, <1>5, <2>1 DEF Turns, Awaits
<1>7. \A o \in Pending(d) : o \in Op /\ seq[o] # 0 /\ OpDevice[o] = d
  BY DEF Pending, Own, Base, Born
<1>8. Acknowledged(a) = Pending(d)
  <2>1. Turns(d) /\ Awaits(d, "submit")
    BY <1>3 DEF InTurn, Awaits
  <2>2. QED
    BY <1>4, <2>1, AcksQueue
<1>9. command' = [command EXCEPT ![d] = k] /\ command'[d] = Rest
  BY <1>2, <1>3, <1>6, SameAt DEF Base, Outbox
<1>10. Turns(d)' /\ Settles(d)'
  BY <1>1, <1>3, <1>9 DEF Turns, Settles, Awaits
<1>11. Kept /\ NoNewBatch
  BY AcknowledgeKeeps
<1>12. Ordered(d)'
  <2>1. SUFFICES ASSUME Pristine(d)' PROVE Placed(Pending(d), Held(d), seq, stored, Sent(d))'
    BY DEF Ordered
  <2>2. Pristine(d)
    BY <1>4, <1>8, <2>1 DEF Pristine, Own, Pending
  <2>3. Pending(d)' = {} /\ Held(d)' = Held(d) \cup Pending(d)
    BY <1>4, <1>7, <1>8 DEF Pending, Held, Own
  <2>4. \A p \in Pending(d) : stored[p] = seq[p]
    <3>1. Answered(c)
      BY <1>4, <1>5 DEF Answered
    <3>2. QED
      BY <1>3, <1>6, <2>2, <3>1 DEF InTurn, Settles, Awaits
  <2>5. PICK A, q, s, B, P : A = Held(d) /\ q = seq /\ s = stored /\ B = Sent(d)' /\ P = Pending(d)
    OBVIOUS
  <2>6. InPlace(A, q, s)
    BY <2>2, <2>5 DEF InTurn, Ordered, Placed
  <2>7. InPlace(A \cup P, q, s)
    BY <1>7, <2>4, <2>5, <2>6 DEF InPlace
  <2>8. Placed({}, A \cup P, q, s, B)
    BY <2>7, PlacedNone
  <2>9. QED
    BY <1>3, <2>3, <2>5, <2>8 DEF Phoned
<1>13. InTurn(d)'
  BY <1>10, <1>12 DEF InTurn
<1>14. \A o \in Op : OpDevice[o] # d => seq'[o] = seq[o] /\ status'[o] = status[o]
  BY <1>3, <1>4, <1>7, <1>8
<1>15. seq' \in [Op -> Nat]
  BY <1>3 DEF Base, Outbox
<1>16. QED
  BY <1>1, <1>3, <1>9, <1>11, <1>13, <1>14, <1>15, OneInTurn DEF NoNewBatch

-----------------------------------------------------------------------------

\* The build is what it was.
LEMMA BuildStays == ASSUME Base, [Next]_vars PROVE shared' = shared
<1> USE DEF serverVars, outboxVars, stateVars
<1>1. ASSUME NEW d \in Device, Command(d) PROVE shared' = shared
  BY <1>1 DEF Command, Collect, ConcludeSurvey, UndoLast, Apply
<1>2. ASSUME NEW d \in Device, Engine(d) \/ Fault(d) \/ SyncSurvey(d) PROVE shared' = shared
  BY <1>2, PhoneSteps DEF KeepLocal, AcceptServer, Sends, Acknowledges, Still
<1>3. ASSUME NEW d \in Device, SaveCommand(d) \/ ResolveConflict(d) PROVE shared' = shared
  BY <1>3 DEF SaveCommand, ResolveConflict
<1>4. ASSUME NEW w \in Worker, (\E r \in net : Deliver(w, r)) \/ Serve(w) \/ ServerCrash(w)
      PROVE  shared' = shared
  BY <1>4, ServeSteps
<1>5. CASE (\E g \in Digest : UrlExpires(g)) \/ DropAnswer \/ UNCHANGED vars
  BY <1>5, OutsideSteps
<1>6. QED
  BY <1>1, <1>2, <1>3, <1>4, <1>5 DEF Next

LEMMA FullNext == ASSUME Full, [Next]_vars PROVE Full'
<1>1. Base /\ Base' /\ Inv'
  BY BaseNext DEF Full, Base
<1>2. shared' = shared
  BY <1>1, BuildStays
<1>3. SUFFICES ASSUME shared PROVE \A x \in Device : InTurn(x)'
  BY <1>1, <1>2 DEF Full
<1>4. \A x \in Device : InTurn(x)
  BY <1>3 DEF Full
<1>5. ASSUME NEW d \in Device,
             Command(d) \/ SaveCommand(d) \/ SyncSurvey(d) \/ ResolveConflict(d)
             \/ Engine(d) \/ Fault(d)
      PROVE  \A x \in Device : InTurn(x)'
  BY <1>1, <1>3, <1>4, <1>5, PhoneSteps, CommandInTurn, SaveInTurn, ResolveInTurn,
     KeepLocalInTurn, AcceptServerInTurn, SendInTurn, AcknowledgeInTurn, StillInTurn
<1>6. ASSUME NEW w \in Worker, (\E r \in net : Deliver(w, r)) \/ Serve(w) \/ ServerCrash(w),
             NEW x \in Device
      PROVE  InTurn(x)'
  BY <1>1, <1>4, <1>6, ServeSteps, CalmInTurn, CommitInTurn
<1>7. CASE (\E g \in Digest : UrlExpires(g)) \/ DropAnswer \/ UNCHANGED vars
  <2>1. Phoned /\ UNCHANGED <<net, seq, status, batches, engine, command, conflict, shared>>
    BY <1>7, OutsideSteps
  <2>2. SUFFICES ASSUME NEW x \in Device PROVE InTurn(x)'
    OBVIOUS
  <2>3. QueueStays(x) /\ \A r \in Letters' : r \in Letters
    BY <1>1, <2>1, LettersRest DEF QueueStays
  <2>4. \A b \in Sent(x)' : b \in Sent(x)
    BY <2>3, SentShrinks
  <2>5. Ordered(x)'
    BY <1>1, <1>4, <2>1, <2>3, <2>4, OrderedRests DEF InTurn, Phoned
  <2>6. Settles(x)'
    BY <1>4, <2>1, <2>3, SettlesRests DEF InTurn, Awaits
  <2>7. Turns(x)'
    BY <1>1, <1>4, <2>1, <2>3, TurnsRests DEF InTurn, Base, Outbox
  <2>8. QED
    BY <2>5, <2>6, <2>7 DEF InTurn
<1>8. QED
  BY <1>5, <1>6, <1>7 DEF Next

LEMMA FullInit == ASSUME Init PROVE Full
<1>1. Base
  BY BaseInit
<1>2. /\ engine = [d \in Device |-> Rest] /\ command = [d \in Device |-> Rest]
      /\ status = [o \in Op |-> "unborn"]
  BY DEF Init
<1>3. ASSUME NEW d \in Device PROVE InTurn(d)
  <2>1. engine[d] = Rest /\ command[d] = Rest /\ Rest.pc = "idle"
    BY <1>2 DEF Rest
  <2>2. Turns(d) /\ Settles(d)
    BY <2>1 DEF Turns, Settles, Awaits
  <2>3. Pending(d) = {} /\ Held(d) = {}
    BY <1>2 DEF Pending, Held, Own
  <2>4. PICK q, s, B : q = seq /\ s = stored /\ B = Sent(d)
    OBVIOUS
  <2>5. Placed({}, {}, q, s, B)
    BY PlacedNone DEF InPlace
  <2>6. Ordered(d)
    BY <2>3, <2>4, <2>5 DEF Ordered
  <2>7. QED
    BY <2>2, <2>6 DEF InTurn
<1>4. QED
  BY <1>1, <1>3 DEF Full

\* What a phone believes acknowledged is in the server's log under the very number the phone
\* gave it, when passes and commands take turns, until the phone supersedes something.
THEOREM AckedPlaced == Spec => []AckedInPlace
<1>1. ASSUME Full PROVE AckedInPlace
  <2>1. SUFFICES ASSUME shared, NEW o \in Op, status[o] = "acked", Pristine(OpDevice[o])
                 PROVE  stored[o] = seq[o]
    BY DEF AckedInPlace
  <2>2. PICK d \in Device : d = OpDevice[o]
    BY OutboxAssumption DEF OutboxAssumption
  <2>3. o \in Held(d)
    BY <2>1, <2>2 DEF Held, Own
  <2>4. InPlace(Held(d), seq, stored)
    BY <1>1, <2>1, <2>2 DEF Full, InTurn, Ordered, Placed
  <2>5. QED
    BY <2>3, <2>4 DEF InPlace
<1>2. QED
  BY FullInit, FullNext, <1>1, PTL DEF Spec
==================================================================================
