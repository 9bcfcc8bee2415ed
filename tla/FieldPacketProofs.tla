--------------------------- MODULE FieldPacketProofs ---------------------------
(***************************************************************************)
(* A phone that collects the survey alone and has nothing left to send is  *)
(* what the server shows, in the build where passes and commands take      *)
(* turns: for any number of phones, operations, media and API instances,   *)
(* whatever the network loses, repeats or delays.                          *)
(*                                                                         *)
(* The packet a batch carries was read before its operations, a batch may  *)
(* arrive after those that followed it, and the server keeps the packet of *)
(* the last one it accepts: what makes the last accepted the last sent?    *)
(* The packets are layers (Layered): each command adds an operation to     *)
(* what its packet has seen, so the packets of the phone are ordered by    *)
(* what they have seen, and so are the batches still in the mail.  A batch *)
(* that would take the server back carries nothing the server has not      *)
(* stored, and such a batch is refused or leaves the packet alone.  When   *)
(* every operation of the phone is stored, the packet the server shows has *)
(* seen them all, so it is the packet of the phone (Agreed).               *)
(*                                                                         *)
(* The rest is what the layers need of the pass (Course: what is sent is   *)
(* the packet of the phone, also after a decision that takes nothing back) *)
(* and of the handler at work (Desk: the packet it read is not after the   *)
(* one the server shows).                                                  *)
(*                                                                         *)
(* ClosedStays, at the end, is about the closed survey.  Who still writes  *)
(* it read it open (ReadOpen) and carries operations some phone created;   *)
(* once they are all acknowledged they are stored, so nothing is inserted  *)
(* and the row is left as it is (NothingFresh).                            *)
(***************************************************************************)
EXTENDS FieldSyncProofs

-----------------------------------------------------------------------------
(* The packets of a phone.                                                   *)

\* c is the packet p of a phone, or an earlier one.
Older(c, p) == c.seen \subseteq p.seen /\ (p.seen \subseteq c.seen => c = p)

\* The packet p of a phone, the one c the server shows, those of the batches B not yet
\* forgotten, and the positions s: what is stored is shown; the batches are in the order of
\* their packets, and what was not stored when the next one left is in it; what would take
\* the server back has nothing left to store.
Layered(c, p, B, s) ==
    /\ Older(c, p)
    /\ \A b \in B : Older(b.content, p)
    /\ \A b, e \in B : \/ b.content.seen \subseteq e.content.seen
                       \/ e.content.seen \subseteq b.content.seen
    /\ \A b \in B : \A o \in p.seen : b.seqs[o] # 0 => o \in b.content.seen
    /\ \A b, e \in B : \/ e.content.seen \subseteq b.content.seen
                       \/ \A o \in Op : b.seqs[o] # 0 => e.seqs[o] # 0 \/ s[o] # 0
    /\ \A b \in B : \/ c.seen \subseteq b.content.seen
                    \/ \A o \in Op : b.seqs[o] # 0 => s[o] # 0
    /\ \A o \in p.seen : s[o] # 0 => o \in c.seen

LEMMA LayeredFewer ==
    ASSUME NEW c, NEW p, NEW B, NEW s, NEW B2, Layered(c, p, B, s), \A b \in B2 : b \in B
    PROVE  Layered(c, p, B2, s)
BY DEF Layered

LEMMA LayeredSaved ==
    ASSUME NEW c, NEW p, NEW B, NEW s, NEW p2, NEW o, Layered(c, p, B, s),
           p2.seen = p.seen \cup {o}, o \notin p.seen, s[o] = 0, \A b \in B : b.seqs[o] = 0
    PROVE  Layered(c, p2, B, s)
<1>1. \A x : Older(x, p) => Older(x, p2)
  BY DEF Older
<1>2. QED
  BY <1>1 DEF Layered

\* What is sent is the present packet, with everything an earlier batch left to store.
LEMMA LayeredSent ==
    ASSUME NEW c, NEW p, NEW B, NEW s, NEW b, Layered(c, p, B, s), b.content = p,
           \A e \in B : \A o \in Op : e.seqs[o] # 0 => b.seqs[o] # 0 \/ s[o] # 0
    PROVE  Layered(c, p, B \cup {b}, s)
<1>1. Older(p, p)
  BY DEF Older
<1>2. \A e \in B : e.content.seen \subseteq p.seen
  BY DEF Layered, Older
<1>3. QED
  BY <1>1, <1>2 DEF Layered, Older

\* A batch that stores something comes after everything the server shows.
LEMMA LayeredWritten ==
    ASSUME NEW c, NEW p, NEW B, NEW s, NEW b \in B, NEW F, NEW c2, NEW s2,
           Layered(c, p, B, s), p.seen \subseteq Op, F \subseteq Op, F # {},
           \A o \in F : s[o] = 0 /\ b.seqs[o] # 0,
           \A o \in Op : b.seqs[o] # 0 => o \in F \/ s[o] # 0,
           \A o \in Op : s2[o] = IF o \in F THEN b.seqs[o] ELSE s[o],
           c2 = b.content \/ (c2 = c /\ b.content.seen \subseteq c.seen)
    PROVE  Layered(c2, p, B, s2) /\ c.seen \subseteq c2.seen
<1>1. c.seen \subseteq b.content.seen
  <2>1. PICK o \in F : o \in Op /\ s[o] = 0 /\ b.seqs[o] # 0
    OBVIOUS
  <2>2. QED
    BY <2>1 DEF Layered
<1>2. c2.seen = b.content.seen /\ Older(c2, p)
  BY <1>1 DEF Layered
<1>3. \A o \in Op : /\ s[o] # 0 => s2[o] # 0
                    /\ b.seqs[o] # 0 => s2[o] # 0
                    /\ s2[o] # 0 => s[o] # 0 \/ o \in F
  OBVIOUS
<1>4. \A e, f \in B : \/ f.content.seen \subseteq e.content.seen
                      \/ \A o \in Op : e.seqs[o] # 0 => f.seqs[o] # 0 \/ s2[o] # 0
  BY <1>3 DEF Layered
<1>5. ASSUME NEW e \in B, ~(c2.seen \subseteq e.content.seen), NEW o \in Op, e.seqs[o] # 0
      PROVE  s2[o] # 0
  BY <1>2, <1>3, <1>5 DEF Layered
<1>6. ASSUME NEW o \in p.seen, s2[o] # 0 PROVE o \in c2.seen
  <2>1. CASE s[o] # 0
    BY <1>1, <1>2, <2>1 DEF Layered
  <2>2. CASE o \in F
    BY <1>2, <2>2 DEF Layered
  <2>3. QED
    BY <1>3, <1>6, <2>1, <2>2
<1>7. QED
  BY <1>1, <1>2, <1>4, <1>5, <1>6 DEF Layered

-----------------------------------------------------------------------------
(* Attempts.                                                                 *)

\* There is always an attempt none of the requests still travelling bears.
LEMMA AttemptIsNew ==
    ASSUME NEW d, IsFiniteSet(Travelling(d))
    PROVE  \A r \in Travelling(d) : r.attempt # NewAttempt(d)
<1>1. PICK T, n : T = Travelling(d) /\ n = Cardinality(T)
  OBVIOUS
<1>2. n \in Nat
  BY <1>1, FS_CardinalityType
<1>3. PICK A : A = {r.attempt : r \in T}
  OBVIOUS
<1>4. IsFiniteSet(A) /\ Cardinality(A) <= n
  <2>1. PICK f : f = [r \in T |-> r.attempt]
    OBVIOUS
  <2>2. f \in Surjection(T, A)
    BY <1>3, <2>1 DEF Surjection
  <2>3. QED
    BY <1>1, <2>2, FS_Surjection
<1>5. (0..n) \ A # {}
  <2>1. SUFFICES ASSUME (0..n) \subseteq A PROVE FALSE
    OBVIOUS
  <2>2. Cardinality(0..n) <= Cardinality(A)
    BY <1>4, <2>1, FS_Subset
  <2>3. Cardinality(0..n) = n + 1
    BY <1>2, FS_Interval
  <2>4. Cardinality(A) \in Nat
    BY <1>4, FS_CardinalityType
  <2>5. QED
    BY <1>2, <1>4, <2>2, <2>3, <2>4
<1>6. (0..n) \ A \in SUBSET Nat
  BY <1>2
<1>7. \E x \in (0..n) \ A : \A y \in (0..n) \ A : x <= y
  BY <1>5, <1>6, LeastOf
<1>8. Min((0..n) \ A) \in (0..n) \ A
  BY <1>7 DEF Min
<1>9. QED
  BY <1>1, <1>3, <1>8 DEF NewAttempt

-----------------------------------------------------------------------------
(* The story of a phone.                                                     *)

\* No other phone has collected anything.
Sole(d) == \A o \in Op : OpDevice[o] # d => status[o] = "unborn"

\* No decision has superseded anything.
Undone == \A o \in Op : dropped[o] = {}

\* The letters are finitely many, and no batch is empty.
Mail ==
    /\ IsFiniteSet(Letters)
    /\ \A r \in Letters : r.body.kind = "submit" => \E o \in Op : r.body.seqs[o] # 0

\* What a handler at work knows of the row of the survey.
Knows(w) ==
    LET t == txn[w] IN
    /\ t.pc \in {"compare", "write"} /\ t.created =>
           /\ survey.status = "ABSENT"
           /\ t.read = [status |-> "OPEN", version |-> 1, content |-> t.req.body.content]
           /\ \A v \in Worker : txn[v].pc \in {"compare", "write"} /\ txn[v].created => v = w
    /\ t.pc \in {"compare", "write"} /\ ~t.created => survey.status # "ABSENT"
    /\ t.pc \in {"gate", "close"} => survey.status # "ABSENT"

Desk ==
    /\ survey = [status |-> survey.status, version |-> survey.version,
                 content |-> survey.content]
    /\ survey.status = "ABSENT" => \A o \in Op : stored[o] = 0
    /\ \A w \in Worker : Knows(w)
    /\ \A e \in idem : e.answer.code # "conflict"

\* The packets are packets.
Shapes ==
    /\ packet \in [Device -> S!Content]
    /\ history \in [Device -> Seq(S!Content)]
    /\ \A d \in Device : command[d] # Rest =>
           command[d].next \in S!Content /\ command[d].stack \in Seq(S!Content)

\* What is superseded was superseded by a decision.
Withdrawals ==
    /\ dropped = [o \in Op |-> dropped[o]]
    /\ \A o \in Op : status[o] = "unborn" => dropped[o] = {}
    /\ \A o \in Op : status[o] = "superseded" => \E p \in Op : o \in dropped[p]

\* The packets of the phone are in order, here, on their way and at the server.
Pile(d) ==
    /\ Layered(survey.content, packet[d], Sent(d), stored)
    /\ \A w \in Worker : txn[w].pc \in {"compare", "write"} /\ ~txn[w].created =>
           txn[w].read.content.seen \subseteq survey.content.seen
    /\ \A o \in packet[d].seen : o \in Own(d) /\ status[o] # "unborn"

\* A pass sends what the phone has, and so does a decision that takes nothing back.
Course(d) ==
    /\ Awaits(d, "token") => engine[d].pass.sends = packet[d]
    /\ Awaits(d, "begin") => engine[d].override \subseteq {packet[d]}
    /\ conflict[d].open /\ Pending(d) = {} => conflict[d].snapshot \subseteq {packet[d]}
    /\ Awaiting(d) \/ Awaits(d, "token") => ~conflict[d].open
    /\ Awaits(d, "submit") => Pending(d) # {}
    /\ Awaits(d, "complete") =>
           /\ Pending(d) = {}
           /\ engine[d].req.from = d /\ engine[d].req.body.kind = "complete"
           /\ \A a \in answers : a.req = engine[d].req /\ a.says.code = "conflict" =>
                  a.says.snapshot = packet[d]

Story(d) == Sole(d) /\ Undone => Pile(d) /\ Course(d)

Whole ==
    /\ Full
    /\ shared => Mail /\ Desk /\ Shapes /\ Withdrawals /\ \A d \in Device : Story(d)

\* A phone alone, with nothing left to send, is what the server shows.
LEMMA Agreed ==
    ASSUME Base, Withdrawals, NEW d \in Device, Sole(d), Undone, Pile(d), Pending(d) = {}
    PROVE  survey.content = packet[d]
<1>1. PICK c, p, B, s : c = survey.content /\ p = packet[d] /\ B = Sent(d) /\ s = stored
  OBVIOUS
<1>2. Layered(c, p, B, s)
  BY <1>1 DEF Pile
<1>3. ASSUME NEW o \in p.seen PROVE s[o] # 0
  <2>1. o \in Own(d) /\ o \in Op /\ status[o] # "unborn"
    BY <1>1 DEF Pile, Own
  <2>2. status[o] # "superseded"
    BY <2>1 DEF Withdrawals, Undone
  <2>3. status[o] \notin {"local", "pending"}
    BY <2>1 DEF Pending
  <2>4. status[o] = "acked"
    BY <2>1, <2>2, <2>3 DEF Base, Outbox
  <2>5. QED
    BY <1>1, <2>1, <2>4 DEF Base, Inv, AckedIsStored
<1>4. p.seen \subseteq c.seen
  BY <1>2, <1>3 DEF Layered
<1>5. QED
  BY <1>1, <1>2, <1>4 DEF Layered, Older

-----------------------------------------------------------------------------
(* What an instance learns of the survey, and tells.                         *)

\* What a handler that goes on knows.
Opens(w, t) ==
    \/ t.pc \notin {"compare", "write", "gate", "close"}
    \/ t.pc = "gate" /\ survey.status # "ABSENT"
    \/ t.pc = "close" /\ txn[w].pc = "gate"
    \/ /\ t.pc = "compare" /\ ~t.created /\ t.read = survey
       /\ survey.status \notin {"ABSENT", "COMPLETED"}
    \/ /\ t.pc = "compare" /\ t.created /\ survey.status = "ABSENT"
       /\ t.read = [status |-> "OPEN", version |-> 1, content |-> t.req.body.content]
       /\ \A v \in Worker : ~(txn[v].pc \in {"compare", "write"} /\ txn[v].created)
    \/ /\ t.pc = "write" /\ txn[w].pc = "compare"
       /\ t.created = txn[w].created /\ t.read = txn[w].read /\ t.req = txn[w].req

\* A conflict the answer to a completion brings shows the survey as it is.
Shows(a) ==
    \/ a.says.code # "conflict"
    \/ a.req.body.kind = "submit"
    \/ a.says.snapshot = survey.content

\* A step of an instance that stores no batch.
Looks(w) ==
    /\ stored' = stored
    /\ \/ survey' = survey
       \/ txn[w].pc = "close" /\ survey' = [survey EXCEPT !.status = "COMPLETED"]
    /\ \E t : txn' = [txn EXCEPT ![w] = t] /\ Opens(w, t)
    /\ \A e \in idem' : e \in idem \/ e.answer.code # "conflict"
    /\ \A a \in answers' : a \in answers \/ Shows(a)

LEMMA LooksReply ==
    ASSUME NEW w \in Worker, NEW r, NEW x, S!Reply(w, r, x), stored' = stored, survey' = survey,
           x.code # "conflict" \/ r.body.kind = "submit" \/ x.snapshot = survey.content,
           \A e \in idem' : e \in idem \/ e.answer.code # "conflict"
    PROVE  Looks(w)
<1>1. Opens(w, S!Idle)
  BY DEF Opens, S!Idle
<1>2. PICK a : a = [req |-> r, says |-> x]
  OBVIOUS
<1>3. Shows(a) /\ answers' = answers \cup {a}
  BY <1>2 DEF Shows, S!Reply
<1>4. txn' = [txn EXCEPT ![w] = S!Idle]
  BY DEF S!Reply
<1>5. QED
  BY <1>1, <1>3, <1>4 DEF Looks

LEMMA LooksOn ==
    ASSUME NEW w \in Worker, NEW t, txn' = [txn EXCEPT ![w] = t], answers' = answers,
           stored' = stored, Opens(w, t),
           \/ survey' = survey
           \/ txn[w].pc = "close" /\ survey' = [survey EXCEPT !.status = "COMPLETED"],
           \A e \in idem' : e \in idem \/ e.answer.code # "conflict"
    PROVE  Looks(w)
BY DEF Looks

LEMMA LooksAdvance ==
    ASSUME Inv, NEW w \in Worker, NEW stage, S!Advance(w, stage), txn[w].pc # "idle",
           stored' = stored,
           stage \in {"close", "export", "accept", "analyse"}, stage = "close" => txn[w].pc = "gate",
           \/ survey' = survey
           \/ txn[w].pc = "close" /\ survey' = [survey EXCEPT !.status = "COMPLETED"],
           \A e \in idem' : e \in idem \/ e.answer.code # "conflict"
    PROVE  Looks(w)
<1>1. Filled(txn[w])
  BY DEF Inv, ServerInv, Handles, S!Idle
<1>2. PICK t : t = [txn[w] EXCEPT !.pc = stage]
  OBVIOUS
<1>3. t.pc = stage
  BY <1>1, <1>2 DEF Filled
<1>4. txn' = [txn EXCEPT ![w] = t] /\ answers' = answers
  BY <1>2 DEF S!Advance
<1>5. Opens(w, t)
  BY <1>3 DEF Opens
<1>6. QED
  BY <1>4, <1>5, LooksOn

LEMMA LooksBegin ==
    ASSUME NEW w \in Worker, NEW r, NEW stage, NEW read, NEW created, NEW fresh,
           txn' = [txn EXCEPT ![w] = [pc |-> stage, req |-> r, read |-> read,
                                      created |-> created, fresh |-> fresh]],
           answers' = answers, stored' = stored, survey' = survey, idem' = idem,
           \/ stage \in {"create", "sign", "accept"}
           \/ stage \in {"compare", "gate"} /\ ~created /\ read = survey
              /\ survey.status \notin {"ABSENT", "COMPLETED"}
    PROVE  Looks(w)
<1>1. PICK t : t = [pc |-> stage, req |-> r, read |-> read, created |-> created, fresh |-> fresh]
  OBVIOUS
<1>2. t.pc = stage /\ t.read = read /\ t.created = created
  BY <1>1
<1>3. Opens(w, t)
  BY <1>2 DEF Opens
<1>4. QED
  BY <1>1, <1>3, LooksOn

\* The answer kept is no conflict.
LEMMA ReplayShows ==
    ASSUME Desk, NEW b, S!Known(b)
    PROVE  S!Replay(b).code # "conflict"
<1>1. S!Kept(b) \in idem
  BY DEF S!Kept, S!Known
<1>2. QED
  BY <1>1 DEF S!Replay, S!Plain, Desk

LEMMA LooksReceive ==
    ASSUME Desk, NEW w \in Worker, NEW r, S!Receive(w, r)
    PROVE  Looks(w)
<1>1. stored' = stored /\ idem' = idem /\ survey' = survey
  BY DEF S!Receive, S!SubmitBegin, S!GetSurvey, S!CompleteBegin, S!PresignBegin,
         S!ConfirmBegin, S!dbVars
<1>2. ASSUME NEW x, x.code # "conflict" \/ r.body.kind = "submit" \/ x.snapshot = survey.content,
             S!Reply(w, r, x)
      PROVE  Looks(w)
  BY <1>1, <1>2, LooksReply
<1>3. ASSUME NEW code, code # "conflict", S!Reply(w, r, S!Plain(code)) PROVE Looks(w)
  <2>1. S!Plain(code).code # "conflict"
    BY <1>3 DEF S!Plain
  <2>2. QED
    BY <1>2, <1>3, <2>1
<1>4. ASSUME NEW read, S!Reply(w, r, S!State(read)) PROVE Looks(w)
  <2>1. S!State(read).code # "conflict"
    BY DEF S!State
  <2>2. QED
    BY <1>2, <1>4, <2>1
<1>5. ASSUME NEW d, S!Reply(w, r, S!Conflict(survey, d)) PROVE Looks(w)
  <2>1. S!Conflict(survey, d).snapshot = survey.content
    BY DEF S!Conflict
  <2>2. QED
    BY <1>2, <1>5, <2>1
<1>6. S!Known(r.body) /\ S!Reply(w, r, S!Replay(r.body)) => Looks(w)
  BY <1>2, ReplayShows
<1>7. ASSUME NEW stage, NEW read, S!Begin(w, r, stage, read),
             \/ stage \in {"create", "accept"}
             \/ stage \in {"compare", "gate"} /\ read = survey
                /\ survey.status \notin {"ABSENT", "COMPLETED"}
      PROVE  Looks(w)
  <2>1. PICK created, fresh : created = FALSE /\ fresh = {}
    OBVIOUS
  <2>2. /\ txn' = [txn EXCEPT ![w] = [pc |-> stage, req |-> r, read |-> read,
                                      created |-> created, fresh |-> fresh]]
        /\ answers' = answers
    BY <1>7, <2>1 DEF S!Begin
  <2>3. QED
    BY <1>1, <1>7, <2>1, <2>2, LooksBegin
<1>8. CASE S!SubmitBegin(w, r)
  <2>1. PICK stage : stage = IF survey.status = "ABSENT" THEN "create" ELSE "compare"
    OBVIOUS
  <2>2. ~S!Shut /\ S!Begin(w, r, stage, survey) => Looks(w)
    BY <1>7, <2>1 DEF S!Shut
  <2>3. QED
    BY <1>3, <1>5, <1>6, <1>8, <2>1, <2>2 DEF S!SubmitBegin
<1>9. CASE S!GetSurvey(w, r)
  BY <1>3, <1>4, <1>9 DEF S!GetSurvey
<1>10. CASE S!CompleteBegin(w, r)
  <2>1. survey.status = "OPEN" /\ S!Begin(w, r, "gate", survey) => Looks(w)
    BY <1>7
  <2>2. QED
    BY <1>3, <1>5, <1>6, <1>10, <2>1 DEF S!CompleteBegin
<1>11. CASE S!PresignBegin(w, r)
  <2>1. CASE txn' = [txn EXCEPT ![w] =
                       [pc |-> "sign", req |-> r, read |-> survey, fresh |-> {},
                        created |-> media[r.body.digest] = "ABSENT"]] /\ answers' = answers
    <3>1. PICK created, fresh, stage, read :
             /\ created = (media[r.body.digest] = "ABSENT") /\ fresh = {} /\ stage = "sign"
             /\ read = survey
      OBVIOUS
    <3>2. txn' = [txn EXCEPT ![w] = [pc |-> stage, req |-> r, read |-> read,
                                     created |-> created, fresh |-> fresh]]
      BY <2>1, <3>1
    <3>3. stage \in {"create", "sign", "accept"} /\ answers' = answers
      BY <2>1, <3>1
    <3>4. QED
      BY <1>1, <3>2, <3>3, LooksBegin
  <2>2. QED
    BY <1>3, <1>6, <1>11, <2>1 DEF S!PresignBegin
<1>12. CASE S!ConfirmBegin(w, r)
  BY <1>3, <1>4, <1>7, <1>12 DEF S!ConfirmBegin
<1>13. QED
  BY <1>8, <1>9, <1>10, <1>11, <1>12 DEF S!Receive

\* What the handler that has inserted the row has read.
LEMMA FoundedRead ==
    ASSUME NEW x, Filled(x), NEW created, NEW read
    PROVE  Founded(x, created, read) = [pc |-> "compare", req |-> x.req, read |-> read,
                                        created |-> created, fresh |-> x.fresh]
<1>1. PICK req, old, read0, created0, fresh :
         /\ req = x.req /\ old = x.pc /\ read0 = x.read /\ created0 = x.created
         /\ fresh = x.fresh
  OBVIOUS
<1>2. x = [pc |-> old, req |-> req, read |-> read0, created |-> created0, fresh |-> fresh]
  BY <1>1 DEF Filled
<1>3. PICK y : y = [x EXCEPT !.pc = "compare"]
  OBVIOUS
<1>4. y = [pc |-> "compare", req |-> req, read |-> read0, created |-> created0,
           fresh |-> fresh]
  BY <1>2, <1>3
<1>5. PICK z : z = [y EXCEPT !.created = created]
  OBVIOUS
<1>6. z = [pc |-> "compare", req |-> req, read |-> read0, created |-> created,
           fresh |-> fresh]
  BY <1>4, <1>5
<1>7. [z EXCEPT !.read = read] =
      [pc |-> "compare", req |-> req, read |-> read, created |-> created, fresh |-> fresh]
  BY <1>6
<1>8. Founded(x, created, read) = [z EXCEPT !.read = read]
  BY <1>3, <1>5 DEF Founded
<1>9. QED
  BY <1>1, <1>7, <1>8

\* A handler goes on: it stores a batch with its packet, or only looks.
LEMMA LooksContinue ==
    ASSUME Base, Desk, NEW w \in Worker, S!Continue(w)
    PROVE  Looks(w) \/ (Commits(w) /\ survey' = S!Written(txn[w]))
<1> USE DEF S!At
<1> DEFINE r == txn[w].req
<1>1. txn[w].pc # "idle" => Filled(txn[w])
  BY DEF Base, Inv, ServerInv, Handles, S!Idle
<1>2. ASSUME stored' = stored, survey' = survey,
             \A e \in idem' : e \in idem \/ e.answer.code # "conflict",
             NEW code, code # "conflict", S!Reply(w, r, S!Plain(code))
      PROVE  Looks(w)
  <2>1. S!Plain(code).code # "conflict"
    BY <1>2 DEF S!Plain
  <2>2. QED
    BY <1>2, <2>1, LooksReply
<1>3. ASSUME stored' = stored, survey' = survey,
             \A e \in idem' : e \in idem \/ e.answer.code # "conflict",
             NEW read, S!Reply(w, r, S!State(read))
      PROVE  Looks(w)
  <2>1. S!State(read).code # "conflict"
    BY DEF S!State
  <2>2. QED
    BY <1>3, <2>1, LooksReply
<1>4. CASE S!SubmitCreate(w)
  <2>1. stored' = stored /\ idem' = idem /\ survey' = survey /\ Filled(txn[w])
    BY <1>1, <1>4 DEF S!SubmitCreate, S!dbVars
  <2>2. PICK read, created :
           /\ read = [status |-> "OPEN", version |-> 1,
                      content |-> txn[w].req.body.content]
           /\ created = TRUE
    OBVIOUS
  <2>3. CASE /\ txn' = [txn EXCEPT ![w] = Founded(txn[w], created, read)] /\ answers' = answers
             /\ survey.status = "ABSENT"
    <3>1. PICK t : t = Founded(txn[w], created, read)
      OBVIOUS
    <3>2. t = [pc |-> "compare", req |-> txn[w].req, read |-> read, created |-> created,
               fresh |-> txn[w].fresh]
      BY <2>1, <3>1, FoundedRead
    <3>3. t.pc = "compare" /\ t.req = txn[w].req /\ t.read = read /\ t.created = TRUE
      BY <2>2, <3>2
    <3>4. \A v \in Worker : ~(txn[v].pc \in {"compare", "write"} /\ txn[v].created)
      BY <1>4 DEF S!SubmitCreate
    <3>5. Opens(w, t)
      BY <2>2, <2>3, <3>3, <3>4 DEF Opens
    <3>6. QED
      BY <2>1, <2>3, <3>1, <3>5, LooksOn
  <2>4. CASE S!Reply(w, r, S!Plain("race"))
    BY <1>2, <2>1, <2>4
  <2>5. QED
    BY <1>4, <2>1, <2>2, <2>3, <2>4 DEF S!SubmitCreate, Founded
<1>5. CASE S!SubmitCompare(w)
  <2>1. stored' = stored /\ idem' = idem /\ survey' = survey /\ txn[w].pc = "compare"
        /\ Filled(txn[w])
    BY <1>1, <1>5 DEF S!SubmitCompare, S!dbVars
  <2>2. PICK fresh : fresh = S!Unseen(r.body)
    OBVIOUS
  <2>3. CASE /\ txn' = [txn EXCEPT ![w].pc = "write", ![w].fresh = fresh]
             /\ answers' = answers
    <3>1. PICK t : t = [txn[w] EXCEPT !.pc = "write", !.fresh = fresh]
      OBVIOUS
    <3>2. t = [pc |-> "write", req |-> txn[w].req, read |-> txn[w].read,
               created |-> txn[w].created, fresh |-> fresh]
      BY <2>1, <3>1, Refilled
    <3>3. /\ t.pc = "write" /\ t.req = txn[w].req /\ t.read = txn[w].read
          /\ t.created = txn[w].created
      BY <3>2
    <3>4. Opens(w, t)
      BY <2>1, <3>3 DEF Opens
    <3>5. QED
      BY <2>1, <2>3, <3>1, <3>4, LooksOn
  <2>4. CASE S!Reply(w, r, S!Conflict(txn[w].read, r.body.dev))
    <3>1. r.body.kind = "submit"
      BY <2>1 DEF Base, Handlers, Routed
    <3>2. QED
      BY <2>1, <2>4, <3>1, LooksReply
  <2>5. QED
    BY <1>5, <2>2, <2>3, <2>4 DEF S!SubmitCompare
<1>6. CASE S!SubmitWrite(w)
  <2>1. txn[w].pc = "write"
    BY <1>6 DEF S!SubmitWrite
  <2>2. CASE UNCHANGED S!dbVars /\ \E code \in {"race", "failed"} : S!Reply(w, r, S!Plain(code))
    <3>1. stored' = stored /\ idem' = idem /\ survey' = survey
      BY <2>2 DEF S!dbVars
    <3>2. QED
      BY <1>2, <2>2, <3>1
  <2>3. CASE /\ ~S!Clash(r.body, txn[w].fresh)
             /\ stored' = [o \in Op |-> IF o \in txn[w].fresh THEN r.body.seqs[o] ELSE stored[o]]
             /\ survey' = S!Written(txn[w])
             /\ S!Keep(r, S!Ack(txn[w]))
             /\ S!Reply(w, r, S!Ack(txn[w]))
    BY <2>1, <2>3 DEF Commits, S!Keep, S!Reply
  <2>4. QED
    BY <1>6, <2>2, <2>3 DEF S!SubmitWrite
<1>7. CASE S!CompleteGate(w)
  <2>1. stored' = stored /\ idem' = idem /\ survey' = survey /\ txn[w].pc = "gate"
    BY <1>7 DEF S!CompleteGate, S!dbVars
  <2>2. CASE S!Advance(w, "close")
    BY <2>1, <2>2, LooksAdvance DEF Base
  <2>3. QED
    BY <1>2, <1>7, <2>1, <2>2 DEF S!CompleteGate
<1>8. CASE S!CompleteClose(w)
  <2>1. stored' = stored /\ txn[w].pc = "close"
    BY <1>8 DEF S!CompleteClose
  <2>2. CASE idem' = idem /\ survey' = survey /\ S!Reply(w, r, S!Plain("failed"))
    BY <1>2, <2>1, <2>2
  <2>3. CASE /\ S!Keep(r, S!Closed(txn[w])) /\ S!Advance(w, "export")
             /\ survey' = [survey EXCEPT !.status = "COMPLETED"]
    <3>1. S!Closed(txn[w]).code # "conflict"
      BY DEF S!Closed, S!State
    <3>2. \A e \in idem' : e \in idem \/ e.answer.code # "conflict"
      BY <2>3, <3>1 DEF S!Keep
    <3>3. QED
      BY <2>1, <2>3, <3>2, LooksAdvance DEF Base
  <2>4. QED
    BY <1>8, <2>2, <2>3 DEF S!CompleteClose
<1>9. CASE S!CompletePublish(w)
  <2>1. stored' = stored /\ idem' = idem /\ survey' = survey
    BY <1>9 DEF S!CompletePublish, S!dbVars
  <2>2. QED
    BY <1>2, <1>3, <1>9, <2>1 DEF S!CompletePublish, S!Closed
<1>10. CASE S!PresignSign(w)
  <2>1. stored' = stored /\ survey' = survey
    BY <1>10 DEF S!PresignSign
  <2>2. CASE idem' = idem /\ S!Reply(w, r, S!Plain("failed"))
    BY <1>2, <2>1, <2>2
  <2>3. CASE S!Keep(r, S!Plain("url")) /\ S!Reply(w, r, S!Plain("url"))
    <3>1. S!Plain("url").code # "conflict"
      BY DEF S!Plain
    <3>2. \A e \in idem' : e \in idem \/ e.answer.code # "conflict"
      BY <2>3, <3>1 DEF S!Keep
    <3>3. QED
      BY <1>2, <2>1, <2>3, <3>2
  <2>4. QED
    BY <1>10, <2>2, <2>3 DEF S!PresignSign
<1>11. CASE S!ConfirmAccept(w)
  <2>1. /\ stored' = stored /\ idem' = idem /\ survey' = survey /\ txn[w].pc = "accept"
        /\ S!Advance(w, "analyse")
    BY <1>11 DEF S!ConfirmAccept, S!dbVars
  <2>2. QED
    BY <2>1, LooksAdvance DEF Base
<1>12. CASE S!ConfirmPublish(w)
  <2>1. stored' = stored /\ idem' = idem /\ survey' = survey
    BY <1>12 DEF S!ConfirmPublish, S!dbVars
  <2>2. QED
    BY <1>2, <1>3, <1>12, <2>1 DEF S!ConfirmPublish
<1>13. QED
  BY <1>4, <1>5, <1>6, <1>7, <1>8, <1>9, <1>10, <1>11, <1>12 DEF S!Continue

LEMMA LooksCrash == ASSUME NEW w \in Worker, S!Crash(w) PROVE Looks(w)
<1>1. PICK t : t = S!Idle
  OBVIOUS
<1>2. Opens(w, t)
  BY <1>1 DEF Opens, S!Idle
<1>3. /\ txn' = [txn EXCEPT ![w] = t] /\ answers' = answers /\ stored' = stored
      /\ survey' = survey /\ idem' = idem
  BY <1>1 DEF S!Crash, S!dbVars
<1>4. QED
  BY <1>2, <1>3, LooksOn

LEMMA ServeLooks ==
    ASSUME Base, Desk, NEW w \in Worker,
           (\E r \in net : Deliver(w, r)) \/ Serve(w) \/ ServerCrash(w)
    PROVE  /\ Looks(w) \/ (Commits(w) /\ survey' = S!Written(txn[w]))
           /\ UNCHANGED <<packet, dropped, history, command, engine, conflict, shared>>
<1>1. CASE \E r \in net : Deliver(w, r)
  BY <1>1, LooksReceive DEF Deliver, outboxVars, stateVars
<1>2. CASE Serve(w)
  BY <1>2, LooksContinue DEF Serve, outboxVars, stateVars
<1>3. CASE ServerCrash(w)
  BY <1>3, LooksCrash DEF ServerCrash, outboxVars, stateVars
<1>4. QED
  BY <1>1, <1>2, <1>3

-----------------------------------------------------------------------------
(* The instances' steps keep the desk and the story.                         *)

LEMMA LooksSurvey ==
    ASSUME Desk, NEW w \in Worker, Looks(w)
    PROVE  /\ survey' = [status |-> survey'.status, version |-> survey'.version,
                         content |-> survey'.content]
           /\ survey'.content = survey.content
           /\ survey'.status = "ABSENT" => survey' = survey
           /\ survey.status = "ABSENT" => survey' = survey
<1>1. PICK a, b, c : a = survey.status /\ b = survey.version /\ c = survey.content
  OBVIOUS
<1>2. survey = [status |-> a, version |-> b, content |-> c]
  BY <1>1 DEF Desk
<1>3. CASE survey' = survey
  BY <1>2, <1>3
<1>4. CASE txn[w].pc = "close" /\ survey' = [survey EXCEPT !.status = "COMPLETED"]
  <2>1. survey' = [status |-> "COMPLETED", version |-> b, content |-> c]
    BY <1>2, <1>4
  <2>2. survey.status # "ABSENT"
    BY <1>4 DEF Desk, Knows
  <2>3. QED
    BY <1>1, <2>1, <2>2
<1>5. QED
  BY <1>3, <1>4 DEF Looks

LEMMA LooksDesk ==
    ASSUME Base, Desk, NEW w \in Worker, Looks(w)
    PROVE  Desk'
<1>1. PICK t : txn' = [txn EXCEPT ![w] = t] /\ Opens(w, t)
  BY DEF Looks
<1>2. txn'[w] = t /\ \A v \in Worker : v # w => txn'[v] = txn[v]
  BY <1>1 DEF Base, Inv, ServerInv
<1>3. /\ survey'.status = "ABSENT" => survey' = survey
      /\ survey.status = "ABSENT" => survey' = survey
      /\ survey' = [status |-> survey'.status, version |-> survey'.version,
                    content |-> survey'.content]
  BY LooksSurvey
<1>4. DEFINE At2(x) == x.pc \in {"compare", "write"}
             Founds(x) == At2(x) /\ x.created
<1>5. \A v \in Worker :
         /\ Founds(txn[v]) => /\ survey.status = "ABSENT"
                              /\ txn[v].read = [status |-> "OPEN", version |-> 1,
                                                content |-> txn[v].req.body.content]
                              /\ \A u \in Worker : Founds(txn[u]) => u = v
         /\ At2(txn[v]) /\ ~txn[v].created => survey.status # "ABSENT"
         /\ txn[v].pc \in {"gate", "close"} => survey.status # "ABSENT"
  BY DEF Desk, Knows
<1>6. /\ Founds(t) => /\ survey.status = "ABSENT"
                      /\ t.read = [status |-> "OPEN", version |-> 1,
                                   content |-> t.req.body.content]
                      /\ \A u \in Worker : Founds(txn[u]) => u = w
      /\ At2(t) /\ ~t.created => survey.status # "ABSENT"
      /\ t.pc \in {"gate", "close"} => survey.status # "ABSENT"
  <2>1. CASE t.pc = "write" /\ txn[w].pc = "compare" /\ t.created = txn[w].created
             /\ t.read = txn[w].read /\ t.req = txn[w].req
    BY <1>5, <2>1
  <2>2. CASE t.pc = "compare"
    BY <1>1, <1>5, <2>2 DEF Opens
  <2>3. CASE t.pc \in {"gate", "close"}
    BY <1>1, <1>5, <2>3 DEF Opens
  <2>4. QED
    BY <1>1, <2>1, <2>2, <2>3 DEF Opens
<1>7. ASSUME NEW v \in Worker
      PROVE  /\ Founds(txn'[v]) => /\ survey.status = "ABSENT"
                                   /\ txn'[v].read = [status |-> "OPEN", version |-> 1,
                                                      content |-> txn'[v].req.body.content]
                                   /\ \A u \in Worker : Founds(txn'[u]) => u = v
             /\ At2(txn'[v]) /\ ~txn'[v].created => survey.status # "ABSENT"
             /\ txn'[v].pc \in {"gate", "close"} => survey.status # "ABSENT"
  <2>1. CASE v = w
    BY <1>2, <1>6, <2>1
  <2>2. CASE v # w
    BY <1>2, <1>5, <1>6, <2>2
  <2>3. QED
    BY <2>1, <2>2
<1>8. ASSUME NEW v \in Worker PROVE Knows(v)'
  BY <1>3, <1>7 DEF Knows
<1>9. QED
  BY <1>3, <1>8 DEF Desk, Looks

\* The row after a commit.
LEMMA CommitsSurvey ==
    ASSUME Desk, NEW w \in Worker, txn[w].pc = "write", survey' = S!Written(txn[w])
    PROVE  /\ survey' = [status |-> survey'.status, version |-> survey'.version,
                         content |-> survey'.content]
           /\ survey'.status # "ABSENT"
           /\ survey'.status \in {survey.status, "OPEN"}
           /\ txn[w].created => survey'.content = txn[w].req.body.content
           /\ ~txn[w].created => /\ survey.status # "ABSENT"
                                 /\ txn[w].fresh = {} => survey' = survey
                                 /\ \/ survey'.content = txn[w].req.body.content
                                    \/ /\ survey'.content = survey.content
                                       /\ txn[w].req.body.content = txn[w].read.content
                                    \/ txn[w].fresh = {}
<1>1. Knows(w)
  BY DEF Desk
<1>2. CASE txn[w].created
  <2>1. survey' = [status |-> "OPEN", version |-> 1, content |-> txn[w].req.body.content]
    BY <1>1, <1>2 DEF Knows, S!Written
  <2>2. QED
    BY <1>2, <2>1
<1>3. CASE ~txn[w].created
  <2>1. survey.status # "ABSENT"
    BY <1>1, <1>3 DEF Knows
  <2>2. CASE txn[w].fresh = {}
    <3>1. survey' = survey
      BY <1>3, <2>2 DEF S!Written
    <3>2. QED
      BY <1>3, <2>1, <2>2, <3>1 DEF Desk
  <2>3. CASE txn[w].fresh # {}
    <3>1. PICK a, b, c : a = survey.status /\ b = survey.version /\ c = survey.content
      OBVIOUS
    <3>2. survey = [status |-> a, version |-> b, content |-> c]
      BY <3>1 DEF Desk
    <3>3. PICK n, x : /\ n = txn[w].read.version + 1
                      /\ x = IF txn[w].req.body.content = txn[w].read.content
                             THEN c ELSE txn[w].req.body.content
      OBVIOUS
    <3>4. survey' = [survey EXCEPT !.version = n, !.content = x]
      BY <1>3, <2>3, <3>1, <3>2, <3>3 DEF S!Written
    <3>5. survey' = [status |-> a, version |-> n, content |-> x]
      BY <3>2, <3>4
    <3>6. /\ survey'.status = a /\ survey'.content = x
          /\ survey' = [status |-> survey'.status, version |-> survey'.version,
                        content |-> survey'.content]
      BY <3>5
    <3>7. QED
      BY <1>3, <2>1, <2>3, <3>1, <3>3, <3>6
  <2>4. QED
    BY <2>2, <2>3
<1>4. QED
  BY <1>2, <1>3

LEMMA CommitsDesk ==
    ASSUME Base, Desk, NEW w \in Worker, Commits(w), survey' = S!Written(txn[w])
    PROVE  Desk'
<1>1. txn[w].pc = "write" /\ txn' = [txn EXCEPT ![w] = S!Idle]
  BY DEF Commits
<1>2. txn'[w] = S!Idle /\ \A v \in Worker : v # w => txn'[v] = txn[v]
  BY <1>1 DEF Base, Inv, ServerInv
<1>3. /\ survey' = [status |-> survey'.status, version |-> survey'.version,
                    content |-> survey'.content]
      /\ survey'.status # "ABSENT"
      /\ ~txn[w].created => survey.status # "ABSENT"
  BY <1>1, CommitsSurvey
<1>4. \A e \in idem' : e.answer.code # "conflict"
  <2>1. PICK e : e = [body |-> txn[w].req.body, answer |-> S!Ack(txn[w])]
    OBVIOUS
  <2>2. e.answer.code = "ack" /\ idem' = idem \cup {e}
    BY <2>1 DEF Commits, S!Ack
  <2>3. QED
    BY <2>2 DEF Desk
<1>5. ASSUME NEW v \in Worker PROVE Knows(v)'
  <2>1. CASE v = w
    BY <1>2, <2>1 DEF Knows, S!Idle
  <2>2. CASE v # w
    <3>1. ~(txn[v].pc \in {"compare", "write"} /\ txn[v].created)
      <4>1. SUFFICES ASSUME txn[v].pc \in {"compare", "write"}, txn[v].created PROVE FALSE
        OBVIOUS
      <4>2. survey.status = "ABSENT" /\ (txn[w].created => w = v)
        BY <1>1, <4>1 DEF Desk, Knows
      <4>3. QED
        BY <1>3, <2>2, <4>2
    <3>2. txn'[v] = txn[v]
      BY <1>2, <2>2
    <3>3. QED
      BY <1>3, <3>1, <3>2 DEF Knows
  <2>3. QED
    BY <2>1, <2>2
<1>6. QED
  BY <1>3, <1>4, <1>5 DEF Desk

\* A phone alone sent every batch there is.
LEMMA OnlyOurs ==
    ASSUME Base, Mail, NEW d \in Device, Sole(d), NEW r \in Letters, r.body.kind = "submit"
    PROVE  r.body \in Sent(d)
<1>1. PICK o \in Op : r.body.seqs[o] # 0
  BY DEF Mail
<1>2. OpDevice[o] = r.body.dev /\ status[o] # "unborn"
  BY <1>1 DEF Base, Post, Proper
<1>3. r.body.dev = d
  BY <1>2 DEF Sole
<1>4. QED
  BY <1>3 DEF Sent

LEMMA LooksPile ==
    ASSUME Base, Desk, NEW w \in Worker, Looks(w), NEW d \in Device, Pile(d),
           Aside, packet' = packet, \A r \in Letters' : r \in Letters
    PROVE  Pile(d)'
<1>1. PICK t : txn' = [txn EXCEPT ![w] = t] /\ Opens(w, t)
  BY DEF Looks
<1>2. txn'[w] = t /\ \A v \in Worker : v # w => txn'[v] = txn[v]
  BY <1>1 DEF Base, Inv, ServerInv
<1>3. survey'.content = survey.content /\ stored' = stored /\ status' = status
  BY LooksSurvey DEF Looks, Aside
<1>4. \A b \in Sent(d)' : b \in Sent(d)
  BY SentShrinks
<1>5. Layered(survey.content, packet[d], Sent(d), stored)'
  <2>1. PICK c, p, B, s, B2 : /\ c = survey.content /\ p = packet[d] /\ B = Sent(d)
                              /\ s = stored /\ B2 = Sent(d)'
    OBVIOUS
  <2>2. Layered(c, p, B, s)
    BY <2>1 DEF Pile
  <2>3. Layered(c, p, B2, s)
    BY <1>4, <2>1, <2>2, LayeredFewer
  <2>4. QED
    BY <1>3, <2>1, <2>3
<1>6. ASSUME NEW v \in Worker, txn'[v].pc \in {"compare", "write"}, ~txn'[v].created
      PROVE  txn'[v].read.content.seen \subseteq survey.content.seen
  <2>1. \A u \in Worker : txn[u].pc \in {"compare", "write"} /\ ~txn[u].created =>
           txn[u].read.content.seen \subseteq survey.content.seen
    BY DEF Pile
  <2>2. CASE v = w
    BY <1>1, <1>2, <1>6, <2>1, <2>2 DEF Opens
  <2>3. CASE v # w
    BY <1>2, <1>6, <2>1, <2>3
  <2>4. QED
    BY <2>2, <2>3
<1>7. QED
  BY <1>3, <1>5, <1>6 DEF Pile, Own

LEMMA CommitsPile ==
    ASSUME Base, Mail, Desk, NEW w \in Worker, Commits(w), survey' = S!Written(txn[w]),
           NEW d \in Device, Sole(d), Pile(d),
           Aside, packet' = packet, \A r \in Letters' : r \in Letters
    PROVE  Pile(d)' /\ (Pending(d) = {} /\ Undone /\ Withdrawals =>
                          survey'.content = survey.content)
<1>1. PICK b, F, L, c, p, B, s, c2, s2, B2 :
         /\ b = txn[w].req.body /\ F = txn[w].fresh /\ L = S!LastSeq(b.dev)
         /\ c = survey.content /\ p = packet[d] /\ B = Sent(d) /\ s = stored
         /\ c2 = survey'.content /\ s2 = stored' /\ B2 = Sent(d)'
  OBVIOUS
<1>2. txn[w].pc = "write" /\ txn' = [txn EXCEPT ![w] = S!Idle]
  BY DEF Commits
<1>3. txn'[w] = S!Idle /\ \A v \in Worker : v # w => txn'[v] = txn[v]
  BY <1>2 DEF Base, Inv, ServerInv
<1>4. txn[w].req \in Letters /\ b.kind = "submit"
  BY <1>1, <1>2 DEF Letters, S!Idle, Base, Handlers, Routed
<1>5. b \in B
  BY <1>1, <1>4, OnlyOurs
<1>6. /\ F \subseteq Op
      /\ \A o \in Op : b.seqs[o] # 0 => o \in F \/ s[o] # 0
      /\ \A o \in F : s[o] = 0 /\ b.seqs[o] # 0
  BY <1>1, CommitContinues DEF Inserts
<1>7. \A o \in Op : s2[o] = IF o \in F THEN b.seqs[o] ELSE s[o]
  BY <1>1 DEF Commits
<1>8. Layered(c, p, B, s) /\ p.seen \subseteq Op
  BY <1>1 DEF Pile, Own
<1>9. \A x \in B2 : x \in B
  BY <1>1, SentShrinks
<1>10. F = {} => ~txn[w].created
  <2>1. SUFFICES ASSUME F = {}, txn[w].created PROVE FALSE
    OBVIOUS
  <2>2. survey.status = "ABSENT"
    BY <1>2, <2>1 DEF Desk, Knows
  <2>3. \A o \in Op : s[o] = 0
    BY <1>1, <2>2 DEF Desk
  <2>4. \E o \in Op : b.seqs[o] # 0
    BY <1>1, <1>4 DEF Mail
  <2>5. QED
    BY <1>6, <2>1, <2>3, <2>4
<1>11. Layered(c2, p, B2, s2) /\ c.seen \subseteq c2.seen
  <2>1. CASE F = {}
    <3>1. c2 = c
      BY <1>1, <1>2, <1>10, <2>1, CommitsSurvey
    <3>2. s2 = s
      <4>1. s = [o \in Op |-> s[o]] /\ s2 = [o \in Op |-> IF o \in F THEN b.seqs[o] ELSE s[o]]
        BY <1>1 DEF Base, Outbox, Commits
      <4>2. QED
        BY <2>1, <4>1
    <3>3. Layered(c, p, B2, s)
      BY <1>8, <1>9, LayeredFewer
    <3>4. QED
      BY <3>1, <3>2, <3>3
  <2>2. CASE F # {}
    <3>1. c2 = b.content \/ (c2 = c /\ b.content.seen \subseteq c.seen)
      <4>1. CASE txn[w].created
        BY <1>1, <1>2, <4>1, CommitsSurvey
      <4>2. CASE ~txn[w].created
        <5>1. txn[w].read.content.seen \subseteq c.seen
          BY <1>1, <1>2, <4>2 DEF Pile
        <5>2. c2 = b.content \/ (c2 = c /\ b.content = txn[w].read.content)
          BY <1>1, <1>2, <2>2, <4>2, CommitsSurvey
        <5>3. QED
          BY <5>1, <5>2
      <4>3. QED
        BY <4>1, <4>2
    <3>2. Layered(c2, p, B, s2) /\ c.seen \subseteq c2.seen
      BY <1>5, <1>6, <1>7, <1>8, <2>2, <3>1, LayeredWritten
    <3>3. QED
      BY <1>9, <3>2, LayeredFewer
  <2>3. QED
    BY <2>1, <2>2
<1>12. ASSUME NEW v \in Worker, txn'[v].pc \in {"compare", "write"}, ~txn'[v].created
       PROVE  txn'[v].read.content.seen \subseteq c2.seen
  <2>1. v # w
    BY <1>3, <1>12 DEF S!Idle
  <2>2. txn[v].read.content.seen \subseteq c.seen
    BY <1>1, <1>3, <1>12, <2>1 DEF Pile
  <2>3. QED
    BY <1>3, <1>11, <2>1, <2>2
<1>13. Pile(d)'
  BY <1>1, <1>11, <1>12 DEF Pile, Aside, Own
<1>14. ASSUME Pending(d) = {}, Undone, Withdrawals PROVE c2 = c
  <2>1. c = p
    BY <1>1, <1>14, Agreed
  <2>2. Older(c2, p)
    BY <1>11 DEF Layered
  <2>3. QED
    BY <1>11, <2>1, <2>2 DEF Older
<1>15. QED
  BY <1>1, <1>13, <1>14

\* An instance changes nothing of the course of a phone: a conflict that answers a
\* completion shows what the phone has.
LEMMA ServeCourse ==
    ASSUME Aside, packet' = packet, NEW d \in Device, Course(d),
           \A a \in answers' : a \in answers \/ Shows(a),
           Pending(d) = {} => survey.content = packet[d]
    PROVE  Course(d)'
<1>1. engine' = engine /\ conflict' = conflict /\ Pending(d)' = Pending(d)
  BY DEF Aside, Pending, Own
<1>2. ASSUME Awaits(d, "complete"), NEW a \in answers', a.req = engine[d].req,
             a.says.code = "conflict"
      PROVE  a.says.snapshot = packet[d]
  BY <1>2 DEF Course, Shows
<1>3. QED
  BY <1>1, <1>2 DEF Course, Awaits, Awaiting

LEMMA ServerWhole ==
    ASSUME Base, Mail, Desk, Shapes, NEW w \in Worker,
           (\E r \in net : Deliver(w, r)) \/ Serve(w) \/ ServerCrash(w)
    PROVE  /\ Mail' /\ Desk' /\ Shapes'
           /\ Withdrawals => Withdrawals'
           /\ \A d \in Device : Withdrawals /\ Story(d) => Story(d)'
<1>1. /\ Looks(w) \/ (Commits(w) /\ survey' = S!Written(txn[w]))
      /\ UNCHANGED <<packet, dropped, history, command>>
  BY ServeLooks
<1>2. Aside /\ (Calm(w) \/ Commits(w))
  BY ServeSteps
<1>3. \A r \in Letters' : r \in Letters
  BY <1>2, ServerKeeps
<1>4. Mail'
  <2>1. IsFiniteSet(Letters')
    BY <1>3, FS_Subset DEF Mail
  <2>2. QED
    BY <1>3, <2>1 DEF Mail
<1>5. Desk'
  BY <1>1, LooksDesk, CommitsDesk
<1>6. Shapes'
  BY <1>1 DEF Shapes
<1>7. Withdrawals => Withdrawals'
  BY <1>1, <1>2 DEF Withdrawals, Aside
<1>8. ASSUME NEW d \in Device, Withdrawals, Story(d) PROVE Story(d)'
  <2>1. SUFFICES ASSUME Sole(d)', Undone' PROVE Pile(d)' /\ Course(d)'
    BY DEF Story
  <2>2. Sole(d) /\ Undone /\ Pile(d) /\ Course(d)
    BY <1>1, <1>2, <1>8, <2>1 DEF Story, Sole, Undone, Aside
  <2>3. Pending(d) = {} => survey.content = packet[d]
    BY <1>8, <2>2, Agreed
  <2>4. \A a \in answers' : a \in answers \/ Shows(a)
    <3>1. CASE Looks(w)
      BY <3>1 DEF Looks
    <3>2. CASE Commits(w)
      <4>1. PICK a : a = [req |-> txn[w].req, says |-> S!Ack(txn[w])]
        OBVIOUS
      <4>2. a.says.code = "ack" /\ answers' = answers \cup {a}
        BY <3>2, <4>1 DEF Commits, S!Ack
      <4>3. QED
        BY <4>2 DEF Shows
    <3>3. QED
      BY <1>1, <3>1, <3>2
  <2>5. Course(d)'
    BY <1>1, <1>2, <2>2, <2>3, <2>4, ServeCourse
  <2>6. Pile(d)'
    BY <1>1, <1>2, <1>3, <2>2, LooksPile, CommitsPile
  <2>7. QED
    BY <2>5, <2>6
<1>9. QED
  BY <1>4, <1>5, <1>6, <1>7, <1>8

-----------------------------------------------------------------------------
(* The course of a pass.                                                     *)

\* Where a pass goes after its beginning.
Onward(d, e) ==
    /\ e.pc \notin {"token", "begin"}
    /\ e.pc = "submit" => Awaits(d, "submit")
    /\ e.pc = "complete" =>
           /\ Pending(d) = {}
           /\ e.req.from = d /\ e.req.body.kind = "complete"
           /\ \A a \in answers : a.req # e.req
    /\ Silent(e) \/ Awaiting(d) \/ Awaits(d, "token")

\* The pass of a phone goes on: nothing else of the phone changes.
Passes(d) ==
    \E e : engine' = [engine EXCEPT ![d] = e] /\ Onward(d, e)

LEMMA PassesStop == ASSUME NEW d \in Device, Stop(d) PROVE Passes(d)
<1>1. PICK e : e = Rest
  OBVIOUS
<1>2. Onward(d, e)
  BY <1>1 DEF Onward, Silent, Rest
<1>3. QED
  BY <1>1, <1>2 DEF Passes, Stop

\* A new request has no answer yet.
LEMMA NotAnswered ==
    ASSUME Mail, NEW d \in Device, NEW r, r.from = d, r.attempt = NewAttempt(d)
    PROVE  \A a \in answers : a.req # r
<1>1. IsFiniteSet(Travelling(d))
  <2>1. Travelling(d) \subseteq Letters
    BY DEF Travelling, Letters
  <2>2. QED
    BY <2>1, FS_Subset DEF Mail
<1>2. \A x \in Travelling(d) : x.attempt # NewAttempt(d)
  BY <1>1, AttemptIsNew
<1>3. \A a \in answers : a.req = r => r \in Travelling(d)
  BY DEF Travelling
<1>4. QED
  BY <1>2, <1>3

LEMMA PassesCall ==
    ASSUME Mail, NEW d \in Device, NEW pass, NEW pc, NEW body, Call(d, pass, pc, body),
           pc \in {"get", "presign", "put", "confirm", "complete"},
           pc = "complete" => body.kind = "complete" /\ Pending(d) = {},
           Awaiting(d) \/ Awaits(d, "token")
    PROVE  Passes(d)
<1>1. PICK n : n = NewAttempt(d)
  OBVIOUS
<1>2. PICK r : r = [from |-> d, attempt |-> n, body |-> body]
  OBVIOUS
<1>3. PICK e : e = [pc |-> pc, pass |-> pass, req |-> r, round |-> 1]
  OBVIOUS
<1>4. e.pc = pc /\ e.req = r /\ r.from = d /\ r.attempt = NewAttempt(d) /\ r.body = body
  BY <1>1, <1>2, <1>3
<1>5. engine' = [engine EXCEPT ![d] = e]
  BY <1>1, <1>2, <1>3 DEF Call
<1>6. \A a \in answers : a.req # r
  BY <1>4, NotAnswered
<1>7. Onward(d, e)
  BY <1>4, <1>6 DEF Onward
<1>8. QED
  BY <1>5, <1>7 DEF Passes

LEMMA PassesProceed ==
    ASSUME Mail, NEW d \in Device, NEW pass, NEW ver, NEW done, Proceed(d, pass, ver, done),
           Awaiting(d)
    PROVE  Passes(d)
<1>1. CASE \E g \in pass.todo : Call(d, [pass EXCEPT !.todo = @ \ {g}, !.current = {g}],
                                     "presign", [kind |-> "presign", digest |-> g])
  <2>1. PICK g, p, pc, body :
           /\ Call(d, p, pc, body) /\ pc = "presign" /\ body = [kind |-> "presign", digest |-> g]
    BY <1>1
  <2>2. QED
    BY <2>1, PassesCall
<1>2. CASE /\ Pending(d) = {}
           /\ Call(d, pass, "complete", [kind |-> "complete", base |-> ver])
  <2>1. PICK pc, body : pc = "complete" /\ body = [kind |-> "complete", base |-> ver]
    OBVIOUS
  <2>2. body.kind = "complete" /\ Call(d, pass, pc, body)
    BY <1>2, <2>1
  <2>3. QED
    BY <1>2, <2>1, <2>2, PassesCall
<1>3. QED
  BY <1>1, <1>2, PassesStop DEF Proceed

\* e, tried once more with request r.
Retried(e, r) == [e EXCEPT !.round = @ + 1, !.req = r]

LEMMA RetriedIs ==
    ASSUME NEW e, Waiting(e), NEW r
    PROVE  Retried(e, r).pc = e.pc /\ Retried(e, r).req = r
<1>1. PICK pc, pass, req, round :
         pc = e.pc /\ pass = e.pass /\ req = e.req /\ round = e.round
  OBVIOUS
<1>2. e = [pc |-> pc, pass |-> pass, req |-> req, round |-> round]
  BY <1>1 DEF Waiting
<1>3. PICK next, f : next = round + 1 /\ f = [e EXCEPT !.round = @ + 1]
  OBVIOUS
<1>4. f = [pc |-> pc, pass |-> pass, req |-> req, round |-> next]
  BY <1>2, <1>3
<1>5. Retried(e, r) = [f EXCEPT !.req = r]
  BY <1>3 DEF Retried
<1>6. Retried(e, r) = [pc |-> pc, pass |-> pass, req |-> r, round |-> next]
  BY <1>4, <1>5
<1>7. QED
  BY <1>1, <1>6

LEMMA PassesAgain ==
    ASSUME Base, Mail, NEW d \in Device, Course(d), Awaiting(d), Again(d)
    PROVE  Passes(d)
<1>1. Waiting(engine[d])
  BY DEF Base, Outbox, Phone
<1>2. CASE Awaits(d, "put")
  <2>1. PICK e : e = [engine[d] EXCEPT !.round = @ + 1]
    OBVIOUS
  <2>2. e.pc = "put"
    BY <1>1, <1>2, <2>1 DEF Waiting, Awaits
  <2>3. engine' = [engine EXCEPT ![d] = e]
    BY <1>2, <2>1 DEF Again
  <2>4. Onward(d, e)
    BY <2>2 DEF Onward
  <2>5. QED
    BY <2>3, <2>4 DEF Passes
<1>3. CASE ~Awaits(d, "put")
  <2>1. PICK n : n = NewAttempt(d)
    OBVIOUS
  <2>2. PICK r : r = [engine[d].req EXCEPT !.attempt = n]
    OBVIOUS
  <2>3. PICK f, b : f = engine[d].req.from /\ b = engine[d].req.body
    OBVIOUS
  <2>4. r = [from |-> f, attempt |-> n, body |-> b]
    BY <1>1, <2>2, <2>3 DEF Waiting
  <2>5. PICK e : e = Retried(engine[d], r)
    OBVIOUS
  <2>6. e.pc = engine[d].pc /\ e.req = r
    BY <1>1, <2>5, RetriedIs
  <2>7. engine' = [engine EXCEPT ![d] = e]
    BY <1>3, <2>1, <2>2, <2>5 DEF Again, Retried
  <2>8. ASSUME e.pc = "complete"
        PROVE  /\ Pending(d) = {} /\ e.req.from = d /\ e.req.body.kind = "complete"
               /\ \A a \in answers : a.req # e.req
    <3>1. Awaits(d, "complete")
      BY <2>6, <2>8 DEF Awaits
    <3>2. Pending(d) = {} /\ f = d /\ b.kind = "complete"
      BY <2>3, <3>1 DEF Course
    <3>3. r.from = d /\ r.attempt = NewAttempt(d) /\ r.body = b
      BY <2>1, <2>4, <3>2
    <3>4. \A a \in answers : a.req # r
      BY <3>3, NotAnswered
    <3>5. QED
      BY <2>6, <3>2, <3>3, <3>4
  <2>9. Onward(d, e)
    BY <2>6, <2>8 DEF Onward, Awaiting, Awaits
  <2>10. QED
    BY <2>7, <2>9 DEF Passes
<1>4. QED
  BY <1>2, <1>3

LEMMA PassesGiveUp ==
    ASSUME Mail, NEW d \in Device, Awaiting(d), GiveUp(d) PROVE Passes(d)
<1>1. \/ Stop(d)
      \/ \E p, v, c : Proceed(d, p, v, c)
  BY DEF GiveUp
<1>2. QED
  BY <1>1, PassesStop, PassesProceed

LEMMA PassesPresigned ==
    ASSUME Base, NEW d \in Device, Awaits(d, "presign"),
           engine' = [engine EXCEPT ![d].pc = "put", ![d].round = 1]
    PROVE  Passes(d)
<1>1. Waiting(engine[d]) /\ Awaiting(d)
  BY DEF Base, Outbox, Phone, Awaiting, Awaits
<1>2. PICK pc, pass, req, round, put, one :
         /\ pc = engine[d].pc /\ pass = engine[d].pass /\ req = engine[d].req
         /\ round = engine[d].round /\ put = "put" /\ one = 1
  OBVIOUS
<1>3. engine[d] = [pc |-> pc, pass |-> pass, req |-> req, round |-> round]
  BY <1>1, <1>2 DEF Waiting
<1>4. PICK e, f : /\ e = [engine[d] EXCEPT !.pc = put, !.round = one]
                  /\ f = [engine[d] EXCEPT !.pc = put]
  OBVIOUS
<1>5. f = [pc |-> put, pass |-> pass, req |-> req, round |-> round]
  BY <1>3, <1>4
<1>6. e = [f EXCEPT !.round = one]
  BY <1>4
<1>7. e = [pc |-> put, pass |-> pass, req |-> req, round |-> one]
  BY <1>5, <1>6
<1>8. e.pc = "put"
  BY <1>2, <1>7
<1>9. Onward(d, e)
  BY <1>1, <1>8 DEF Onward
<1>10. engine' = [engine EXCEPT ![d] = e]
  BY <1>2, <1>4
<1>11. QED
  BY <1>9, <1>10 DEF Passes

\* A step of a pass that has begun: it goes on, or ends.
Strides(d) ==
    /\ Still(d) /\ Passes(d)
    /\ UNCHANGED <<survey, packet, dropped>>
    /\ conflict' = conflict \/ conflict' = [conflict EXCEPT ![d] = NoConflict]
    /\ history' = history \/ history' = [history EXCEPT ![d] = <<>>]

LEMMA AwaitsIsAwaiting ==
    ASSUME NEW d, NEW pc \in {"submit", "get", "presign", "put", "confirm", "complete"},
           Awaits(d, pc)
    PROVE  Awaiting(d)
BY DEF Awaits, Awaiting

LEMMA StridesEngine ==
    ASSUME Base, Mail, NEW d \in Device, Awaiting(d) => Course(d),
           \/ Refused(d) \/ StateRead(d) \/ SurveyCompleted(d) \/ TransientAnswer(d)
           \/ Presigned(d) \/ Upload(d) \/ UploadRefused(d) \/ MediaConfirmed(d)
           \/ MediaRefused(d) \/ Fault(d)
    PROVE  Strides(d)
<1> USE DEF serverVars, outboxVars, stateVars, S!dbVars, S!queueVars
<1>1. ASSUME Still(d), UNCHANGED <<survey, packet, dropped, conflict, history>>, Passes(d)
      PROVE  Strides(d)
  BY <1>1 DEF Strides
<1>2. CASE Refused(d)
  <2>1. UNCHANGED <<survey, packet, dropped, conflict, history>> /\ Stop(d)
    BY <1>2 DEF Refused
  <2>2. QED
    BY <1>1, <1>2, <2>1, StillEngine, PassesStop
<1>3. CASE StateRead(d)
  <2>1. UNCHANGED <<survey, packet, dropped, conflict, history>> /\ Awaiting(d)
    BY <1>3 DEF StateRead, Awaits, Awaiting
  <2>2. \E p, v, c : Proceed(d, p, v, c)
    BY <1>3 DEF StateRead
  <2>3. QED
    BY <1>1, <1>3, <2>1, <2>2, StillEngine, PassesProceed
<1>4. CASE SurveyCompleted(d)
  <2>1. UNCHANGED <<survey, packet, dropped, conflict, history>> /\ Stop(d)
    BY <1>4 DEF SurveyCompleted
  <2>2. QED
    BY <1>1, <1>4, <2>1, StillEngine, PassesStop
<1>5. CASE TransientAnswer(d)
  <2>1. /\ UNCHANGED <<survey, packet, dropped, conflict, history>> /\ Awaiting(d)
        /\ Again(d) \/ GiveUp(d)
    BY <1>5 DEF TransientAnswer
  <2>2. QED
    BY <1>1, <1>5, <2>1, StillEngine, PassesAgain, PassesGiveUp
<1>6. CASE Presigned(d)
  <2>1. /\ UNCHANGED <<survey, packet, dropped, conflict, history>> /\ Awaits(d, "presign")
        /\ engine' = [engine EXCEPT ![d].pc = "put", ![d].round = 1]
    BY <1>6 DEF Presigned
  <2>2. QED
    BY <1>1, <1>6, <2>1, StillEngine, PassesPresigned
<1>7. CASE Upload(d)
  <2>1. PICK g : S!PutObject(g) /\ Call(d, engine[d].pass, "confirm", [kind |-> "confirm", digest |-> g])
    BY <1>7 DEF Upload
  <2>2. PICK pass, pc, body :
           pass = engine[d].pass /\ pc = "confirm" /\ body = [kind |-> "confirm", digest |-> g]
    OBVIOUS
  <2>3. Call(d, pass, pc, body) /\ Awaiting(d)
    BY <1>7, <2>1, <2>2 DEF Upload, Awaits, Awaiting
  <2>4. UNCHANGED <<survey, packet, dropped, conflict, history>>
    BY <1>7, <2>1 DEF Upload, S!PutObject
  <2>5. Passes(d)
    BY <2>2, <2>3, PassesCall
  <2>6. QED
    BY <1>1, <1>7, <2>4, <2>5, StillEngine
<1>8. CASE UploadRefused(d)
  <2>1. UNCHANGED <<survey, packet, dropped, conflict, history>> /\ Awaiting(d)
    BY <1>8 DEF UploadRefused, Awaits, Awaiting
  <2>2. \E p, v, c : Proceed(d, p, v, c)
    BY <1>8 DEF UploadRefused
  <2>3. QED
    BY <1>1, <1>8, <2>1, <2>2, StillEngine, PassesProceed
<1>9. CASE MediaConfirmed(d)
  <2>1. UNCHANGED <<survey, packet, dropped, conflict, history>> /\ Awaiting(d)
    BY <1>9 DEF MediaConfirmed, Awaits, Awaiting
  <2>2. \E p, v, c : Proceed(d, p, v, c)
    BY <1>9 DEF MediaConfirmed
  <2>3. QED
    BY <1>1, <1>9, <2>1, <2>2, StillEngine, PassesProceed
<1>10. CASE MediaRefused(d)
  <2>1. UNCHANGED <<survey, packet, dropped, conflict, history>> /\ Awaiting(d)
    BY <1>10 DEF MediaRefused, Awaits, Awaiting
  <2>2. \E p, v, c : Proceed(d, p, v, c)
    BY <1>10 DEF MediaRefused
  <2>3. QED
    BY <1>1, <1>10, <2>1, <2>2, StillEngine, PassesProceed
<1>11. Fault(d) => Still(d)
  BY StillEngine
<1>12. CASE NoToken(d)
  <2>1. UNCHANGED <<survey, packet, dropped, conflict, history>> /\ Stop(d)
    BY <1>12 DEF NoToken
  <2>2. QED
    BY <1>1, <1>11, <1>12, <2>1, PassesStop DEF Fault
<1>13. CASE NetworkError(d)
  <2>1. /\ UNCHANGED <<survey, packet, dropped, conflict, history>> /\ Awaiting(d)
        /\ Again(d) \/ GiveUp(d)
    BY <1>13 DEF NetworkError
  <2>2. QED
    BY <1>1, <1>11, <1>13, <2>1, PassesAgain, PassesGiveUp DEF Fault
<1>14. CASE Unauthorized(d)
  <2>1. UNCHANGED <<survey, packet, dropped, conflict, history>> /\ engine' = [engine EXCEPT ![d] = Rest]
    BY <1>14 DEF Unauthorized
  <2>2. PICK e : e = Rest
    OBVIOUS
  <2>3. Onward(d, e)
    BY <2>2 DEF Onward, Silent, Rest
  <2>4. Passes(d)
    BY <2>1, <2>2, <2>3 DEF Passes
  <2>5. QED
    BY <1>1, <1>11, <1>14, <2>1, <2>4 DEF Fault
<1>15. CASE AppClosed(d)
  <2>1. /\ UNCHANGED <<survey, packet, dropped>> /\ Stop(d)
        /\ conflict' = [conflict EXCEPT ![d] = NoConflict]
        /\ history' = [history EXCEPT ![d] = <<>>]
    BY <1>15 DEF AppClosed
  <2>2. QED
    BY <1>11, <1>15, <2>1, PassesStop DEF Strides, Fault
<1>16. QED
  BY <1>2, <1>3, <1>4, <1>5, <1>6, <1>7, <1>8, <1>9, <1>10, <1>12, <1>13, <1>14, <1>15 DEF Fault

\* A batch leaves, or there is nothing to send and the state is asked for.
LEMMA StridesBatch ==
    ASSUME Base, Mail, NEW d \in Device, SendBatch(d)
    PROVE  /\ Strides(d) \/ Sends(d)
           /\ UNCHANGED <<survey, packet, dropped, history>>
<1> USE DEF serverVars, outboxVars, stateVars
<1>1. UNCHANGED <<survey, packet, dropped, conflict, history>> /\ Awaits(d, "token")
  BY DEF SendBatch
<1>2. Still(d) \/ Sends(d)
  BY SendsBatch
<1>3. CASE Call(d, engine[d].pass, "get", [kind |-> "get"])
  <2>1. PICK pass, pc, body : pass = engine[d].pass /\ pc = "get" /\ body = [kind |-> "get"]
    OBVIOUS
  <2>2. Call(d, pass, pc, body)
    BY <1>3, <2>1
  <2>3. Passes(d)
    BY <1>1, <2>1, <2>2, PassesCall
  <2>4. QED
    BY <1>1, <1>2, <2>3 DEF Strides
<1>4. CASE batches' = [batches EXCEPT ![d] = @ + 1]
  <2>1. batches'[d] = batches[d] + 1 /\ batches[d] \in Nat
    BY <1>4 DEF Base, Outbox
  <2>2. ~Still(d)
    BY <2>1 DEF Still
  <2>3. QED
    BY <1>1, <1>2, <2>2
<1>5. QED
  BY <1>3, <1>4 DEF SendBatch

-----------------------------------------------------------------------------
(* What the phones' steps keep.                                              *)

LEMMA MailFewer ==
    ASSUME Mail, \A r \in Letters' : r \in Letters
    PROVE  Mail'
<1>1. IsFiniteSet(Letters')
  BY FS_Subset DEF Mail
<1>2. QED
  BY <1>1 DEF Mail

LEMMA MailMore ==
    ASSUME Mail, NEW x, \A r \in Letters' : r \in Letters \/ r = x,
           x.body.kind = "submit" => \E o \in Op : x.body.seqs[o] # 0
    PROVE  Mail'
<1>1. Letters' \subseteq Letters \cup {x}
  OBVIOUS
<1>2. IsFiniteSet(Letters \cup {x})
  BY FS_AddElement DEF Mail
<1>3. IsFiniteSet(Letters')
  BY <1>1, <1>2, FS_Subset
<1>4. QED
  BY <1>3 DEF Mail

LEMMA MailMoves ==
    ASSUME Base, Mail, Phoned, NEW d \in Device, Moves(d)
    PROVE  Mail'
<1>1. PICK e : /\ engine' = [engine EXCEPT ![d] = e]
               /\ net' \subseteq net \/ (~Silent(e) /\ net' \subseteq net \cup {e.req})
               /\ Silent(e) \/ e.req.body.kind # "submit"
                  \/ \E r \in Letters : r.body = e.req.body
  BY DEF Moves, Calling
<1>2. \A r \in Letters' : r \in Letters \/ (~Silent(e) /\ r = e.req)
  BY <1>1, LettersMove
<1>3. CASE Silent(e)
  BY <1>2, <1>3, MailFewer
<1>4. CASE ~Silent(e)
  <2>1. PICK x : x = e.req
    OBVIOUS
  <2>2. x.body.kind = "submit" => \E o \in Op : x.body.seqs[o] # 0
    BY <1>1, <1>4, <2>1 DEF Mail
  <2>3. \A r \in Letters' : r \in Letters \/ r = x
    BY <1>2, <2>1
  <2>4. QED
    BY <2>2, <2>3, MailMore
<1>5. QED
  BY <1>3, <1>4

LEMMA DeskRests == ASSUME Desk, Phoned, survey' = survey PROVE Desk'
BY DEF Desk, Knows, Phoned

LEMMA ShapesRest ==
    ASSUME Base, Shapes, NEW d \in Device, packet' = packet,
           history' = history \/ history' = [history EXCEPT ![d] = <<>>],
           command' = command \/ command' = [command EXCEPT ![d] = Rest]
    PROVE  Shapes'
<1>1. history' \in [Device -> Seq(S!Content)]
  <2>1. <<>> \in Seq(S!Content)
    OBVIOUS
  <2>2. QED
    BY <2>1 DEF Shapes
<1>2. \A x \in Device : command'[x] # Rest => command'[x] = command[x]
  BY DEF Base, Outbox
<1>3. QED
  BY <1>1, <1>2 DEF Shapes

LEMMA WithdrawalsRest ==
    ASSUME Withdrawals, dropped' = dropped,
           \A o \in Op : status'[o] = "unborn" => status[o] = "unborn",
           \A o \in Op : status'[o] = "superseded" => status[o] = "superseded"
    PROVE  Withdrawals'
BY DEF Withdrawals

LEMMA PileRests ==
    ASSUME NEW d, Pile(d), Phoned, survey' = survey, packet'[d] = packet[d],
           \A o \in Op : status[o] # "unborn" => status'[o] # "unborn",
           \A b \in Sent(d)' : b \in Sent(d)
    PROVE  Pile(d)'
<1>1. PICK c, p, B, s, B2 : /\ c = survey.content /\ p = packet[d] /\ B = Sent(d)
                            /\ s = stored /\ B2 = Sent(d)'
  OBVIOUS
<1>2. Layered(c, p, B, s)
  BY <1>1 DEF Pile
<1>3. Layered(c, p, B2, s)
  BY <1>1, <1>2, LayeredFewer
<1>4. Layered(survey.content, packet[d], Sent(d), stored)'
  BY <1>1, <1>3 DEF Phoned
<1>5. QED
  BY <1>4 DEF Pile, Phoned, Own

LEMMA CourseRests ==
    ASSUME NEW d, Course(d), Phoned, engine'[d] = engine[d], conflict'[d] = conflict[d],
           packet'[d] = packet[d], Pending(d)' = Pending(d)
    PROVE  Course(d)'
BY DEF Course, Awaits, Awaiting, Phoned

\* A step of one phone leaves the story of the others as it was.
LEMMA OneStory ==
    ASSUME Base, \A x \in Device : Story(x), NEW d \in Device, Phoned, survey' = survey,
           Undone' => Undone,
           \A x \in Device : x # d => /\ packet'[x] = packet[x] /\ engine'[x] = engine[x]
                                      /\ conflict'[x] = conflict[x],
           \A o \in Op : OpDevice[o] # d => status'[o] = status[o],
           \A o \in Op : status[o] # "unborn" => status'[o] # "unborn",
           \A r \in Letters' : \/ r \in Letters \/ r.body.kind # "submit" \/ r.body.dev = d
                               \/ \E y \in Letters : y.body = r.body,
           Sole(d) /\ Undone /\ Undone' /\ Pile(d) /\ Course(d) => Pile(d)' /\ Course(d)'
    PROVE  \A x \in Device : Story(x)'
<1>1. SUFFICES ASSUME NEW x \in Device, Sole(x)', Undone' PROVE Pile(x)' /\ Course(x)'
  BY DEF Story
<1>2. Sole(x) /\ Undone
  BY <1>1 DEF Sole
<1>3. Pile(x) /\ Course(x)
  BY <1>2 DEF Story
<1>4. CASE x = d
  BY <1>1, <1>2, <1>3, <1>4
<1>5. CASE x # d
  <2>1. Pending(x)' = Pending(x)
    BY <1>5 DEF Pending, Own
  <2>2. \A r \in Letters' : \/ r \in Letters \/ r.body.kind # "submit" \/ r.body.dev # x
                            \/ \E y \in Letters : y.body = r.body
    BY <1>5
  <2>3. \A b \in Sent(x)' : b \in Sent(x)
    BY <2>2, SentShrinks
  <2>4. Pile(x)'
    BY <1>3, <1>5, <2>3, PileRests
  <2>5. Course(x)'
    BY <1>3, <1>5, <2>1, CourseRests
  <2>6. QED
    BY <2>4, <2>5
<1>6. QED
  BY <1>4, <1>5

-----------------------------------------------------------------------------
(* The story of a phone in each of its steps.                                *)

\* A step of one phone that keeps its packet: the packets stay in order by themselves.
LEMMA QuietStory ==
    ASSUME Base, \A x \in Device : Story(x), NEW d \in Device, Phoned,
           survey' = survey, packet' = packet, Undone' => Undone,
           NEW e, engine' = [engine EXCEPT ![d] = e],
           NEW c, conflict' = [conflict EXCEPT ![d] = c],
           \A o \in Op : OpDevice[o] # d => status'[o] = status[o],
           \A o \in Op : status[o] # "unborn" => status'[o] # "unborn",
           NoNewBatch,
           Sole(d) /\ Undone /\ Undone' /\ Course(d) => Course(d)'
    PROVE  \A x \in Device : Story(x)'
<1>1. \A x \in Device : x # d => /\ packet'[x] = packet[x] /\ engine'[x] = engine[x]
                                 /\ conflict'[x] = conflict[x]
  BY DEF Base, Outbox
<1>2. \A r \in Letters' : \/ r \in Letters \/ r.body.kind # "submit"
                          \/ \E y \in Letters : y.body = r.body
  BY DEF NoNewBatch
<1>3. \A b \in Sent(d)' : b \in Sent(d)
  BY <1>2, SentShrinks
<1>4. ASSUME Pile(d) PROVE Pile(d)'
  BY <1>3, <1>4, PileRests
<1>5. Sole(d) /\ Undone /\ Undone' /\ Pile(d) /\ Course(d) => Pile(d)' /\ Course(d)'
  BY <1>4
<1>6. \A r \in Letters' : \/ r \in Letters \/ r.body.kind # "submit" \/ r.body.dev = d
                          \/ \E y \in Letters : y.body = r.body
  BY <1>2
<1>7. QED
  BY <1>1, <1>5, <1>6, OneStory

\* A step that leaves the queue alone: only the course of the pass is in question.
LEMMA StillStory ==
    ASSUME Base, \A x \in Device : Story(x), NEW d \in Device, Still(d),
           UNCHANGED <<survey, packet, dropped>>,
           Sole(d) /\ Undone /\ Course(d) => Course(d)'
    PROVE  \A x \in Device : Story(x)'
<1>1. PICK e : engine' = [engine EXCEPT ![d] = e]
  BY DEF Still, Moves
<1>2. \E c : conflict' = [conflict EXCEPT ![d] = c]
  BY SameAt DEF Still, Base
<1>3. PICK c : conflict' = [conflict EXCEPT ![d] = c]
  BY <1>2
<1>4. Phoned /\ status' = status /\ NoNewBatch
  BY StillKeeps DEF Still
<1>5. Undone' => Undone
  BY DEF Undone
<1>6. QED
  BY <1>1, <1>3, <1>4, <1>5, QuietStory

LEMMA StrideCourse ==
    ASSUME Base, NEW d \in Device, Strides(d), Course(d)
    PROVE  Course(d)'
<1>1. PICK e : engine' = [engine EXCEPT ![d] = e] /\ Onward(d, e)
  BY DEF Strides, Passes
<1>2. engine'[d] = e
  BY <1>1 DEF Base, Outbox
<1>3. conflict'[d] = conflict[d] \/ ~conflict'[d].open
  BY DEF Strides, Base, Outbox, NoConflict
<1>4. Phoned /\ QueueStays(d) /\ packet' = packet
  BY DEF Strides, Still, QueueStays
<1>5. Pending(d)' = Pending(d)
  BY <1>4, QueueKeeps
<1>6. Awaiting(d)' => ~Silent(e)
  BY <1>2 DEF Awaiting, Silent
<1>7. e.pc \notin {"token", "begin"}
  BY <1>1 DEF Onward
<1>8. Awaiting(d)' \/ Awaits(d, "token")' => ~conflict'[d].open
  BY <1>1, <1>2, <1>3, <1>6, <1>7 DEF Course, Onward, Awaits
<1>9. Awaits(d, "submit")' => Pending(d)' # {}
  BY <1>1, <1>2, <1>5 DEF Course, Onward, Awaits
<1>10. Awaits(d, "complete")' =>
           /\ Pending(d)' = {}
           /\ engine'[d].req.from = d /\ engine'[d].req.body.kind = "complete"
           /\ \A a \in answers' : a.req # engine'[d].req
  BY <1>1, <1>2, <1>4, <1>5 DEF Onward, Awaits, Phoned
<1>11. conflict'[d].open /\ Pending(d)' = {} => conflict'[d].snapshot \subseteq {packet'[d]}
  BY <1>3, <1>4, <1>5 DEF Course
<1>12. QED
  BY <1>2, <1>7, <1>8, <1>9, <1>10, <1>11 DEF Course, Awaits

\* A pass begins: it sends the packet as it is, a decision that takes nothing back included.
LEMMA BeginCourse ==
    ASSUME Base, NEW d \in Device, NEW override, BeginPass(d, override),
           override \subseteq {packet[d]}
    PROVE  Course(d)'
<1> USE DEF serverVars, outboxVars, stateVars
<1>1. PICK sends : sends = IF override = {} THEN packet[d] ELSE CHOOSE s \in override : TRUE
  OBVIOUS
<1>2. sends = packet[d]
  BY <1>1
<1>3. PICK pass : pass = [survey |-> packet[d], sends |-> sends,
                          todo |-> {}, current |-> {}, failed |-> FALSE]
  OBVIOUS
<1>4. PICK e : e = [pc |-> "token", pass |-> pass]
  OBVIOUS
<1>5. engine'[d] = e
  <2>1. engine' = [engine EXCEPT ![d] = e]
    BY <1>1, <1>3, <1>4 DEF BeginPass
  <2>2. QED
    BY <2>1 DEF Base, Outbox
<1>6. e.pc = "token" /\ e.pass.sends = packet[d]
  BY <1>2, <1>3, <1>4
<1>7. ~conflict'[d].open /\ packet' = packet
  BY DEF BeginPass, NoConflict, Base, Outbox
<1>8. QED
  BY <1>5, <1>6, <1>7 DEF Course, Awaits, Awaiting

LEMMA BeginStory ==
    ASSUME Base, \A x \in Device : Story(x), NEW d \in Device, SyncSurvey(d) \/ SyncDecision(d)
    PROVE  \A x \in Device : Story(x)'
<1> USE DEF serverVars, outboxVars, stateVars
<1>1. Still(d)
  BY StillEngine
<1>2. CASE SyncSurvey(d)
  <2>1. PICK override : override = {} /\ BeginPass(d, override)
    BY <1>2 DEF SyncSurvey
  <2>2. Course(d)'
    BY <2>1, BeginCourse
  <2>3. UNCHANGED <<survey, packet, dropped>>
    BY <2>1 DEF BeginPass
  <2>4. QED
    BY <1>1, <2>2, <2>3, StillStory
<1>3. CASE SyncDecision(d)
  <2>1. PICK override : override = engine[d].override /\ BeginPass(d, override)
    BY <1>3 DEF SyncDecision
  <2>2. Course(d) => override \subseteq {packet[d]}
    BY <1>3, <2>1 DEF SyncDecision, Course
  <2>3. Course(d) => Course(d)'
    BY <2>1, <2>2, BeginCourse
  <2>4. UNCHANGED <<survey, packet, dropped>>
    BY <2>1 DEF BeginPass
  <2>5. QED
    BY <1>1, <2>3, <2>4, StillStory
<1>4. QED
  BY <1>2, <1>3

\* A conflict of a phone with nothing left to send shows the packet of the phone.
LEMMA ConflictStory ==
    ASSUME Base, \A x \in Device : Story(x), NEW d \in Device, Conflicted(d)
    PROVE  \A x \in Device : Story(x)'
<1> USE DEF serverVars, outboxVars, stateVars
<1>1. Still(d)
  BY StillEngine
<1>2. UNCHANGED <<survey, packet, dropped>>
  BY DEF Conflicted
<1>3. PICK a \in answers : /\ Awaits(d, "submit") \/ Awaits(d, "complete")
                           /\ a.req = engine[d].req
                           /\ OpenConflict(d, a) /\ Stop(d)
  BY DEF Conflicted, Received
<1>4. engine'[d] = Rest /\ Rest.pc = "idle"
  BY <1>3 DEF Stop, Base, Outbox, Rest
<1>5. Pending(d)' = Pending(d)
  BY <1>1, QueueKeeps DEF Still, QueueStays
<1>6. ASSUME Course(d), Pending(d) = {}
      PROVE  conflict'[d].snapshot \subseteq {packet[d]}
  <2>1. Awaits(d, "complete")
    BY <1>3, <1>6 DEF Course
  <2>2. CASE a.says.code = "conflict"
    <3>1. a.says.snapshot = packet[d]
      BY <1>3, <1>6, <2>1, <2>2 DEF Course
    <3>2. PICK l, s, c : /\ l = a.says.last /\ s = {a.says.snapshot}
                         /\ c = [open |-> TRUE, last |-> l, snapshot |-> s]
      OBVIOUS
    <3>3. conflict' = [conflict EXCEPT ![d] = c]
      BY <1>3, <2>2, <3>2 DEF OpenConflict
    <3>4. conflict'[d] = c /\ c.snapshot = s
      BY <3>2, <3>3 DEF Base, Outbox
    <3>5. QED
      BY <3>1, <3>2, <3>4
  <2>3. CASE a.says.code # "conflict"
    <3>1. PICK c : c = [open |-> TRUE, last |-> 0, snapshot |-> {}]
      OBVIOUS
    <3>2. conflict' = [conflict EXCEPT ![d] = c]
      BY <1>3, <2>3, <3>1 DEF OpenConflict
    <3>3. conflict'[d] = c /\ c.snapshot = {}
      BY <3>1, <3>2 DEF Base, Outbox
    <3>4. QED
      BY <3>3
  <2>4. QED
    BY <2>2, <2>3
<1>7. Course(d) => Course(d)'
  BY <1>2, <1>4, <1>5, <1>6 DEF Course, Awaits, Awaiting
<1>8. QED
  BY <1>1, <1>2, <1>7, StillStory

\* What is left alone by a step that leaves the queue alone.
Rests(d) ==
    /\ UNCHANGED <<survey, packet, dropped>>
    /\ history' = history \/ history' = [history EXCEPT ![d] = <<>>]

LEMMA EngineRests ==
    ASSUME NEW d \in Device,
           \/ SyncSurvey(d) \/ SyncDecision(d) \/ Conflicted(d) \/ Refused(d) \/ StateRead(d)
           \/ SurveyCompleted(d) \/ TransientAnswer(d) \/ Presigned(d) \/ Upload(d)
           \/ UploadRefused(d) \/ MediaConfirmed(d) \/ MediaRefused(d) \/ Fault(d)
           \/ SubmitAcked(d) \/ SendBatch(d)
    PROVE  Rests(d)
<1> USE DEF serverVars, outboxVars, stateVars
<1>1. CASE SyncSurvey(d) \/ SyncDecision(d)
  BY <1>1 DEF SyncSurvey, SyncDecision, BeginPass, Rests
<1>2. CASE Conflicted(d) \/ Refused(d) \/ StateRead(d) \/ SurveyCompleted(d) \/ TransientAnswer(d)
  BY <1>2 DEF Conflicted, Refused, StateRead, SurveyCompleted, TransientAnswer, Rests
<1>3. CASE Presigned(d) \/ UploadRefused(d) \/ MediaConfirmed(d) \/ MediaRefused(d)
  BY <1>3 DEF Presigned, UploadRefused, MediaConfirmed, MediaRefused, Rests
<1>4. CASE Upload(d)
  BY <1>4 DEF Upload, S!PutObject, S!dbVars, S!queueVars, Rests
<1>5. CASE SubmitAcked(d) \/ SendBatch(d)
  BY <1>5 DEF SubmitAcked, SendBatch, Rests
<1>6. CASE NoToken(d) \/ NetworkError(d) \/ Unauthorized(d)
  BY <1>6 DEF NoToken, NetworkError, Unauthorized, Rests
<1>7. CASE AppClosed(d)
  BY <1>7 DEF AppClosed, Rests
<1>8. QED
  BY <1>1, <1>2, <1>3, <1>4, <1>5, <1>6, <1>7 DEF Fault

LEMMA StrideStory ==
    ASSUME Base, Mail, \A x \in Device : Story(x), NEW d \in Device,
           \/ Refused(d) \/ StateRead(d) \/ SurveyCompleted(d) \/ TransientAnswer(d)
           \/ Presigned(d) \/ Upload(d) \/ UploadRefused(d) \/ MediaConfirmed(d)
           \/ MediaRefused(d) \/ Fault(d)
    PROVE  \A x \in Device : Story(x)'
<1>1. Still(d)
  BY StillEngine
<1>2. Rests(d)
  BY EngineRests
<1>3. ASSUME Course(d) PROVE Course(d)'
  BY <1>3, StridesEngine, StrideCourse
<1>4. QED
  BY <1>1, <1>2, <1>3, StillStory DEF Rests

\* The acknowledgement: the pass asks for the state.
LEMMA AcknowledgeStory ==
    ASSUME Base, Inv', \A x \in Device : Story(x), NEW d \in Device, Turns(d), SubmitAcked(d)
    PROVE  \A x \in Device : Story(x)'
<1>1. Acknowledges(d) /\ Rests(d)
  BY SubmitAcknowledges, EngineRests
<1>2. NoNewBatch
  BY <1>1, AcknowledgeKeeps
<1>3. PICK pass, pc, body : /\ pass = engine[d].pass /\ pc = "get" /\ body = [kind |-> "get"]
                            /\ Call(d, pass, pc, body)
  BY DEF SubmitAcked
<1>4. PICK r : r = [from |-> d, attempt |-> NewAttempt(d), body |-> body]
  OBVIOUS
<1>5. PICK e : e = [pc |-> pc, pass |-> pass, req |-> r, round |-> 1]
  OBVIOUS
<1>6. engine' = [engine EXCEPT ![d] = e]
  BY <1>3, <1>4, <1>5 DEF Call
<1>7. engine'[d] = e /\ e.pc = "get"
  BY <1>3, <1>5, <1>6 DEF Base, Outbox
<1>8. PICK a \in answers :
         /\ a.req = engine[d].req /\ a.says.code = "ack" /\ Awaits(d, "submit")
         /\ status' = [o \in Op |-> IF o \in Acknowledged(a) THEN "acked" ELSE status[o]]
  BY <1>1 DEF Acknowledges
<1>9. \A o \in Op : status[o] # "unborn" => status'[o] # "unborn"
  BY <1>8
<1>10. PICK c : c = conflict[d]
  OBVIOUS
<1>11. conflict' = [conflict EXCEPT ![d] = c] /\ conflict'[d] = conflict[d]
  BY <1>1, <1>10, SameAt DEF Acknowledges, Base
<1>12. Course(d) => Course(d)'
  <2>1. Awaiting(d)
    BY <1>1 DEF Acknowledges, Awaits, Awaiting
  <2>2. QED
    BY <1>7, <1>11, <2>1 DEF Course, Awaits, Awaiting
<1>13. \A o \in Op : OpDevice[o] # d => status'[o] = status[o]
  <2>1. Acknowledged(a) = Pending(d)
    BY <1>8, AcksQueue
  <2>2. QED
    BY <1>8, <2>1 DEF Pending, Own
<1>14. Phoned /\ survey' = survey /\ packet' = packet /\ (Undone' => Undone)
  BY <1>1 DEF Acknowledges, Rests, Undone
<1>15. QED
  BY <1>2, <1>6, <1>9, <1>11, <1>12, <1>13, <1>14, QuietStory

\* A step of a phone that writes nothing but what the phone is doing.
LEMMA IdleStory ==
    ASSUME Base, \A x \in Device : Story(x), NEW d \in Device, Phoned,
           UNCHANGED <<survey, packet, dropped, status, conflict>>,
           NEW e, engine' = [engine EXCEPT ![d] = e],
           e = engine[d] \/ e.pc = "decide",
           \A r \in Letters' : r \in Letters
    PROVE  \A x \in Device : Story(x)'
<1>1. PICK c : c = conflict[d]
  OBVIOUS
<1>2. conflict' = [conflict EXCEPT ![d] = c] /\ engine'[d] = e
  BY <1>1, SameAt DEF Base, Outbox
<1>3. Pending(d)' = Pending(d)
  BY DEF Pending, Own
<1>4. ASSUME Course(d) PROVE Course(d)'
  <2>1. CASE e = engine[d]
    BY <1>2, <1>3, <1>4, <2>1, CourseRests
  <2>2. CASE e.pc = "decide"
    BY <1>2, <1>3, <1>4, <2>2 DEF Course, Awaits, Awaiting
  <2>3. QED
    BY <2>1, <2>2
<1>5. NoNewBatch /\ (Undone' => Undone)
  BY DEF NoNewBatch, Undone
<1>6. QED
  BY <1>2, <1>4, <1>5, QuietStory

LEMMA CommandStory ==
    ASSUME Base, \A x \in Device : Story(x), NEW d \in Device, Command(d)
    PROVE  \A x \in Device : Story(x)'
<1> USE DEF serverVars, outboxVars, stateVars
<1>1. PICK next, stack : Apply(d, next, stack)
  BY DEF Command, Collect, ConcludeSurvey, UndoLast
<1>2. PICK e : e = engine[d]
  OBVIOUS
<1>3. engine' = [engine EXCEPT ![d] = e]
  BY <1>1, <1>2, SameAt DEF Apply, Base
<1>4. Phoned /\ UNCHANGED <<survey, packet, dropped, status, conflict>>
  BY <1>1 DEF Apply, Phoned
<1>5. \A r \in Letters' : r \in Letters
  BY CommandKeeps
<1>6. QED
  BY <1>2, <1>3, <1>4, <1>5, IdleStory

LEMMA ResolveStory ==
    ASSUME Base, \A x \in Device : Story(x), NEW d \in Device, ResolveConflict(d)
    PROVE  \A x \in Device : Story(x)'
<1> USE DEF serverVars, outboxVars, stateVars
<1>1. PICK decision, G, H : /\ G = Pending(d) /\ H = Abandoned(d)
                            /\ engine' = [engine EXCEPT ![d] =
                                 [pc |-> "decide", decision |-> decision,
                                  pending |-> G, abandoned |-> H]]
  BY DEF ResolveConflict
<1>2. PICK e : e = [pc |-> "decide", decision |-> decision, pending |-> G, abandoned |-> H]
  OBVIOUS
<1>3. engine' = [engine EXCEPT ![d] = e] /\ e.pc = "decide"
  BY <1>1, <1>2
<1>4. Phoned /\ UNCHANGED <<survey, packet, dropped, status, conflict>>
  BY DEF ResolveConflict, Phoned
<1>5. \A r \in Letters' : r \in Letters
  BY ResolveKeeps
<1>6. QED
  BY <1>3, <1>4, <1>5, IdleStory

\* The decision is in the queue: it has something to send.
LEMMA KeepLocalStory ==
    ASSUME Base, \A x \in Device : Story(x), NEW d \in Device, Turns(d), KeepLocal(d)
    PROVE  \A x \in Device : Story(x)'
<1> USE DEF serverVars, outboxVars, stateVars
<1>1. PICK x, P, e, c : /\ x = NewOp(d) /\ P = engine[d].pending
                        /\ e = [pc |-> "begin", override |-> {}] /\ c = conflict[d]
  OBVIOUS
<1>2. P = Pending(d) /\ Unborn(d) # {}
  BY <1>1 DEF Turns, KeepLocal, Decides
<1>3. x \in Op /\ OpDevice[x] = d /\ x \in Own(d)
  BY <1>1, <1>2, UnbornIsNew DEF Own
<1>4. /\ engine' = [engine EXCEPT ![d] = e] /\ Phoned
      /\ UNCHANGED <<survey, packet, dropped, conflict>>
      /\ status' = [o \in Op |-> IF o \in P \cup {x} THEN "local" ELSE status[o]]
  BY <1>1 DEF KeepLocal, Phoned
<1>5. conflict' = [conflict EXCEPT ![d] = c] /\ engine'[d] = e
  BY <1>1, <1>4, SameAt DEF Base, Outbox
<1>6. e.pc = "begin" /\ e.override = {}
  BY <1>1
<1>7. x \in Pending(d)'
  BY <1>3, <1>4 DEF Pending, Own
<1>8. Course(d)'
  BY <1>5, <1>6, <1>7 DEF Course, Awaits, Awaiting
<1>9. /\ \A o \in Op : OpDevice[o] # d => status'[o] = status[o]
      /\ \A o \in Op : status[o] # "unborn" => status'[o] # "unborn"
  BY <1>2, <1>3, <1>4 DEF Pending, Own
<1>10. NoNewBatch /\ (Undone' => Undone)
  BY <1>4, KeepLocalKeeps DEF NoNewBatch, Undone
<1>11. QED
  BY <1>4, <1>5, <1>8, <1>9, <1>10, QuietStory

\* Nothing superseded: there was nothing left to send, and the conflict shows the packet of
\* the phone.
LEMMA AcceptServerStory ==
    ASSUME Base, Withdrawals, \A x \in Device : Story(x), NEW d \in Device, Turns(d),
           AcceptServer(d)
    PROVE  Withdrawals' /\ \A x \in Device : Story(x)'
<1> USE DEF serverVars, outboxVars, stateVars
<1>1. PICK x, H, e, c :
         /\ x = NewOp(d) /\ H = engine[d].abandoned
         /\ e = IF conflict[d].snapshot = {} THEN Rest
                ELSE [pc |-> "begin", override |-> conflict[d].snapshot]
         /\ c = IF conflict[d].snapshot = {} THEN NoConflict ELSE conflict[d]
  OBVIOUS
<1>2. /\ Pending(d) \subseteq H /\ H \subseteq Own(d) /\ Unborn(d) # {} /\ conflict[d].open
      /\ \A o \in H : o \in Op /\ status[o] # "unborn"
  <2>1. engine[d].pc = "decide"
    BY DEF AcceptServer, Decides
  <2>2. conflict[d].open /\ Weighed(engine[d])
    BY <2>1, CarriesOn
  <2>3. QED
    BY <1>1, <2>1, <2>2 DEF Turns, Weighed
<1>3. x \in Op /\ OpDevice[x] = d /\ x \in Own(d) /\ status[x] = "unborn"
  BY <1>1, <1>2, UnbornIsNew DEF Own
<1>4. dropped[x] = {} /\ dropped = [o \in Op |-> dropped[o]]
  BY <1>3 DEF Withdrawals
<1>5. /\ engine' = [engine EXCEPT ![d] = e] /\ Phoned
      /\ UNCHANGED <<survey, packet>>
      /\ dropped' = [dropped EXCEPT ![x] = H]
      /\ status' = [o \in Op |-> IF o = x THEN "local"
                                 ELSE IF o \in H THEN "superseded" ELSE status[o]]
      /\ conflict' = [conflict EXCEPT ![d] = c]
  <2>1. conflict' = [conflict EXCEPT ![d] = c]
    BY <1>1 DEF AcceptServer
  <2>2. engine' = [engine EXCEPT ![d] = e]
    BY <1>1 DEF AcceptServer
  <2>3. QED
    BY <1>1, <2>1, <2>2 DEF AcceptServer, Phoned
<1>6. dropped'[x] = H /\ \A o \in Op : o # x => dropped'[o] = dropped[o]
  BY <1>3, <1>4, <1>5
<1>7. engine'[d] = e /\ conflict'[d] = c
  BY <1>5 DEF Base, Outbox
<1>8. e.pc \in {"idle", "begin"} /\ (e.pc = "begin" => e.override = conflict[d].snapshot)
  BY <1>1 DEF Rest
<1>9. x \in Pending(d)'
  BY <1>3, <1>5 DEF Pending, Own
<1>10. ASSUME Undone', Course(d) PROVE Course(d)'
  <2>1. H = {}
    BY <1>3, <1>6, <1>10 DEF Undone
  <2>2. conflict[d].snapshot \subseteq {packet[d]}
    BY <1>2, <1>10, <2>1 DEF Course
  <2>3. QED
    BY <1>5, <1>7, <1>8, <1>9, <2>2 DEF Course, Awaits, Awaiting
<1>11. Undone' => Undone
  <2>1. ASSUME Undone', NEW o \in Op PROVE dropped[o] = {}
    BY <1>4, <1>6, <2>1 DEF Undone
  <2>2. QED
    BY <2>1 DEF Undone
<1>12. /\ \A o \in Op : OpDevice[o] # d => status'[o] = status[o]
       /\ \A o \in Op : status[o] # "unborn" => status'[o] # "unborn"
  BY <1>2, <1>3, <1>5 DEF Own
<1>13. NoNewBatch
  BY AcceptServerKeeps DEF NoNewBatch
<1>14. \A y \in Device : Story(y)'
  BY <1>5, <1>10, <1>11, <1>12, <1>13, QuietStory
<1>15. Withdrawals'
  <2>1. dropped' = [o \in Op |-> dropped'[o]]
    BY <1>4, <1>5
  <2>2. ASSUME NEW o \in Op, status'[o] = "unborn" PROVE dropped'[o] = {}
    BY <1>5, <1>6, <1>12, <2>2 DEF Withdrawals
  <2>3. ASSUME NEW o \in Op, status'[o] = "superseded" PROVE \E p \in Op : o \in dropped'[p]
    <3>1. CASE o \in H
      BY <1>3, <1>6, <3>1
    <3>2. CASE o \notin H
      <4>1. status[o] = "superseded"
        BY <1>5, <2>3, <3>2
      <4>2. PICK p \in Op : o \in dropped[p]
        BY <4>1 DEF Withdrawals
      <4>3. QED
        BY <1>4, <1>6, <4>2
    <3>3. QED
      BY <3>1, <3>2
  <2>4. QED
    BY <2>1, <2>2, <2>3 DEF Withdrawals
<1>16. QED
  BY <1>14, <1>15

\* A content is a record.
LEMMA ContentSeen ==
    ASSUME NEW next \in S!Content, NEW F, NEW p2, p2 = [next EXCEPT !.seen = F]
    PROVE  /\ p2.seen = F
           /\ p2 = [seen |-> F, concluded |-> next.concluded, media |-> next.media]
<1>1. PICK s, b, m : s = next.seen /\ b = next.concluded /\ m = next.media
  OBVIOUS
<1>2. next = [seen |-> s, concluded |-> b, media |-> m]
  BY <1>1 DEF S!Content
<1>3. p2 = [seen |-> F, concluded |-> b, media |-> m]
  BY <1>2
<1>4. QED
  BY <1>1, <1>3

\* What a command writes comes after everything the phone has sent.
LEMMA SaveStory ==
    ASSUME Base, Shapes, \A x \in Device : Story(x), NEW d \in Device, Turns(d), SaveCommand(d)
    PROVE  \A x \in Device : Story(x)'
<1> USE DEF serverVars, outboxVars, stateVars
<1>1. PICK x, next, F, p2 : /\ x = NewOp(d) /\ next = command[d].next
                            /\ F = packet[d].seen \cup {x} /\ p2 = [next EXCEPT !.seen = F]
  OBVIOUS
<1>2. command[d] # Rest /\ Unborn(d) # {} /\ engine[d] = Rest
  BY DEF SaveCommand, Turns
<1>3. /\ x \in Op /\ OpDevice[x] = d /\ status[x] = "unborn" /\ stored[x] = 0
      /\ \A b \in Sent(d) : b.seqs[x] = 0
      /\ x \in Own(d)
  BY <1>1, <1>2, UnbornIsNew DEF Own
<1>4. /\ packet' = [packet EXCEPT ![d] = p2] /\ status' = [status EXCEPT ![x] = "local"]
      /\ Phoned /\ UNCHANGED <<survey, dropped, engine, conflict>>
  BY <1>1 DEF SaveCommand, Phoned
<1>5. p2.seen = F
  BY <1>1, <1>2, ContentSeen DEF Shapes
<1>6. packet'[d] = p2 /\ \A y \in Device : y # d => packet'[y] = packet[y]
  BY <1>4 DEF Shapes
<1>7. \A r \in Letters' : r \in Letters
  BY SaveKeeps
<1>8. \A o \in Op : o # x => status'[o] = status[o]
  BY <1>4
<1>9. status'[x] = "local"
  BY <1>3, <1>4 DEF Base, Outbox
<1>10. Course(d)'
  <2>1. x \in Pending(d)'
    BY <1>3, <1>9 DEF Pending, Own
  <2>2. engine'[d].pc = "idle"
    BY <1>2, <1>4 DEF Rest
  <2>3. QED
    BY <2>1, <2>2 DEF Course, Awaits, Awaiting
<1>11. ASSUME Pile(d) PROVE Pile(d)'
  <2>1. PICK c, p, B, s, B2 : /\ c = survey.content /\ p = packet[d] /\ B = Sent(d)
                              /\ s = stored /\ B2 = Sent(d)'
    OBVIOUS
  <2>2. Layered(c, p, B, s) /\ p2.seen = p.seen \cup {x}
    BY <1>1, <1>5, <1>11, <2>1 DEF Pile
  <2>3. x \notin p.seen /\ s[x] = 0 /\ \A b \in B : b.seqs[x] = 0
    BY <1>3, <1>11, <2>1 DEF Pile
  <2>4. Layered(c, p2, B, s)
    BY <2>2, <2>3, LayeredSaved
  <2>5. \A b \in B2 : b \in B
    BY <1>7, <2>1, SentShrinks
  <2>6. Layered(c, p2, B2, s)
    BY <2>4, <2>5, LayeredFewer
  <2>7. Layered(survey.content, packet[d], Sent(d), stored)'
    BY <1>4, <1>6, <2>1, <2>6 DEF Phoned
  <2>8. \A o \in p2.seen : o \in Own(d) /\ status'[o] # "unborn"
    <3>1. ASSUME NEW o \in p.seen PROVE o \in Own(d) /\ status[o] # "unborn"
      BY <1>11, <2>1 DEF Pile
    <3>2. ASSUME NEW o \in p.seen PROVE status'[o] # "unborn"
      BY <1>8, <1>9, <3>1 DEF Own
    <3>3. QED
      BY <1>3, <1>9, <2>2, <3>1, <3>2
  <2>9. \A o \in packet'[d].seen : o \in Own(d)' /\ status'[o] # "unborn"
    BY <1>6, <2>8 DEF Own
  <2>10. \A w \in Worker : txn'[w].pc \in {"compare", "write"} /\ ~txn'[w].created =>
             txn'[w].read.content.seen \subseteq survey'.content.seen
    BY <1>4, <1>11 DEF Pile, Phoned
  <2>11. QED
    BY <2>7, <2>9, <2>10 DEF Pile
<1>12. \A y \in Device : y # d => engine'[y] = engine[y] /\ conflict'[y] = conflict[y]
  BY <1>4
<1>13. /\ \A o \in Op : OpDevice[o] # d => status'[o] = status[o]
       /\ \A o \in Op : status[o] # "unborn" => status'[o] # "unborn"
  BY <1>3, <1>8, <1>9
<1>14. Undone' => Undone
  BY <1>4 DEF Undone
<1>15. \A r \in Letters' : \/ r \in Letters \/ r.body.kind # "submit" \/ r.body.dev = d
                           \/ \E y \in Letters : y.body = r.body
  BY <1>7
<1>16. QED
  BY <1>4, <1>6, <1>10, <1>11, <1>12, <1>13, <1>14, <1>15, OneStory

\* A batch carries the packet of the phone and all that is not stored.
LEMMA SendStory ==
    ASSUME Base, Withdrawals, \A x \in Device : Story(x), NEW d \in Device, Sends(d), Rests(d)
    PROVE  \A x \in Device : Story(x)'
<1>1. PICK e : /\ engine' = [engine EXCEPT ![d] = e] /\ Dispatch(d, e.req.body)
               /\ engine'[d] = e /\ e.pc = "submit"
               /\ \A r \in Letters' : r \in Letters \/ r = e.req
  BY SendKeeps
<1>2. PICK b : b = e.req.body
  OBVIOUS
<1>3. /\ b.kind = "submit" /\ b.dev = d /\ b.content = engine[d].pass.sends
      /\ b.seqs = [o \in Op |-> IF o \in Pending(d) THEN seq[o] ELSE 0]
  BY <1>1, <1>2 DEF Dispatch
<1>4. /\ Phoned /\ conflict' = conflict /\ Awaits(d, "token") /\ Pending(d) # {}
      /\ status' = [o \in Op |-> IF o \in Pending(d) THEN "pending" ELSE status[o]]
      /\ UNCHANGED <<survey, packet, dropped>>
  BY DEF Sends, Rests
<1>5. Pending(d)' = Pending(d)
  BY <1>4 DEF Pending, Own
<1>6. ASSUME Course(d) PROVE Course(d)'
  BY <1>1, <1>4, <1>5, <1>6 DEF Course, Awaits, Awaiting
<1>7. /\ \A o \in Op : OpDevice[o] # d => status'[o] = status[o]
      /\ \A o \in Op : status[o] # "unborn" => status'[o] # "unborn"
  BY <1>4 DEF Pending, Own
<1>8. ASSUME Undone, Pile(d), Course(d) PROVE Pile(d)'
  <2>1. PICK c, p, B, s, B2 : /\ c = survey.content /\ p = packet[d] /\ B = Sent(d)
                              /\ s = stored /\ B2 = Sent(d)'
    OBVIOUS
  <2>2. Layered(c, p, B, s) /\ b.content = p
    BY <1>3, <1>4, <1>8, <2>1 DEF Pile, Course
  <2>3. ASSUME NEW f \in B, NEW o \in Op, f.seqs[o] # 0 PROVE b.seqs[o] # 0 \/ s[o] # 0
    <3>1. OpDevice[o] = d /\ status[o] # "unborn"
      BY <2>1, <2>3 DEF Sent, Base, Post, Proper
    <3>2. status[o] # "superseded"
      BY <1>8 DEF Withdrawals, Undone
    <3>3. CASE status[o] = "acked"
      BY <2>1, <3>3 DEF Base, Inv, AckedIsStored
    <3>4. CASE o \in Pending(d)
      BY <1>3, <3>1, <3>4 DEF Base, Born
    <3>5. QED
      BY <3>1, <3>2, <3>3, <3>4 DEF Pending, Own, Base, Outbox
  <2>4. Layered(c, p, B \cup {b}, s)
    BY <2>2, <2>3, LayeredSent
  <2>5. \A f \in B2 : f \in B \cup {b}
    BY <1>1, <1>2, <2>1 DEF Sent
  <2>6. Layered(c, p, B2, s)
    BY <2>4, <2>5, LayeredFewer
  <2>7. Layered(survey.content, packet[d], Sent(d), stored)'
    BY <1>4, <2>1, <2>6 DEF Phoned
  <2>8. \A o \in packet'[d].seen : o \in Own(d)' /\ status'[o] # "unborn"
    BY <1>4, <1>7, <1>8 DEF Pile, Own
  <2>9. \A w \in Worker : txn'[w].pc \in {"compare", "write"} /\ ~txn'[w].created =>
            txn'[w].read.content.seen \subseteq survey'.content.seen
    BY <1>4, <1>8 DEF Pile, Phoned
  <2>10. QED
    BY <2>7, <2>8, <2>9 DEF Pile
<1>9. \A y \in Device : y # d => /\ packet'[y] = packet[y] /\ engine'[y] = engine[y]
                                 /\ conflict'[y] = conflict[y]
  BY <1>1, <1>4 DEF Base, Outbox
<1>10. \A r \in Letters' : \/ r \in Letters \/ r.body.kind # "submit" \/ r.body.dev = d
                           \/ \E y \in Letters : y.body = r.body
  BY <1>1, <1>2, <1>3
<1>11. Sole(d) /\ Undone /\ Undone' /\ Pile(d) /\ Course(d) => Pile(d)' /\ Course(d)'
  BY <1>6, <1>8
<1>12. Undone' => Undone
  BY <1>4 DEF Undone
<1>13. survey' = survey
  BY <1>4
<1>14. QED
  BY <1>4, <1>7, <1>9, <1>10, <1>11, <1>12, <1>13, OneStory

-----------------------------------------------------------------------------
(* The invariant is inductive.                                               *)

\* The steps of a phone that leave its packet and its decisions alone, and send no batch but
\* the one being sent.
Plain(d) ==
    \/ SyncSurvey(d) \/ SyncDecision(d) \/ Conflicted(d) \/ Refused(d) \/ StateRead(d)
    \/ SurveyCompleted(d) \/ TransientAnswer(d) \/ Presigned(d) \/ Upload(d)
    \/ UploadRefused(d) \/ MediaConfirmed(d) \/ MediaRefused(d) \/ Fault(d)

LEMMA PhoneOnly ==
    ASSUME Base, NEW d \in Device,
           Command(d) \/ SaveCommand(d) \/ SyncSurvey(d) \/ ResolveConflict(d)
           \/ Engine(d) \/ Fault(d)
    PROVE  Phoned /\ survey' = survey
<1> USE DEF serverVars, outboxVars, stateVars
<1>1. CASE Command(d)
  BY <1>1 DEF Command, Collect, ConcludeSurvey, UndoLast, Apply, Phoned
<1>2. CASE SaveCommand(d) \/ ResolveConflict(d) \/ KeepLocal(d) \/ AcceptServer(d)
  BY <1>2 DEF SaveCommand, ResolveConflict, KeepLocal, AcceptServer, Phoned
<1>3. CASE Plain(d)
  BY <1>3, StillEngine, EngineRests DEF Plain, Still, Rests
<1>4. CASE SubmitAcked(d)
  BY <1>4, SubmitAcknowledges, EngineRests DEF Acknowledges, Rests
<1>5. CASE SendBatch(d)
  BY <1>5, SendsBatch, EngineRests DEF Still, Sends, Rests
<1>6. QED
  BY <1>1, <1>2, <1>3, <1>4, <1>5 DEF Plain, Engine

LEMMA PhoneMail ==
    ASSUME Base, Inv', Mail, NEW d \in Device,
           Command(d) \/ SaveCommand(d) \/ SyncSurvey(d) \/ ResolveConflict(d)
           \/ Engine(d) \/ Fault(d)
    PROVE  Mail'
<1>1. CASE Command(d) \/ SaveCommand(d) \/ ResolveConflict(d) \/ KeepLocal(d) \/ AcceptServer(d)
  <2>1. \A r \in Letters' : r \in Letters
    BY <1>1, CommandKeeps, SaveKeeps, ResolveKeeps, KeepLocalKeeps, AcceptServerKeeps
  <2>2. QED
    BY <2>1, MailFewer
<1>2. CASE Still(d) \/ Acknowledges(d)
  BY <1>2, MailMoves DEF Still, Acknowledges
<1>3. CASE Sends(d)
  <2>1. PICK e : Dispatch(d, e.req.body) /\ \A r \in Letters' : r \in Letters \/ r = e.req
    BY <1>3, SendKeeps
  <2>2. PICK o : o \in Pending(d)
    BY <1>3 DEF Sends
  <2>3. o \in Op /\ seq[o] # 0
    BY <2>2 DEF Pending, Own, Base, Born
  <2>4. e.req.body.seqs[o] # 0
    BY <2>1, <2>2, <2>3 DEF Dispatch
  <2>5. PICK x : x = e.req
    OBVIOUS
  <2>6. x.body.kind = "submit" => \E p \in Op : x.body.seqs[p] # 0
    BY <2>3, <2>4, <2>5
  <2>7. \A r \in Letters' : r \in Letters \/ r = x
    BY <2>1, <2>5
  <2>8. QED
    BY <2>6, <2>7, MailMore
<1>4. QED
  BY <1>1, <1>2, <1>3, PhoneSteps

\* The undo stack holds packets.
LEMMA HistoryOfPackets ==
    ASSUME Shapes, NEW d \in Device
    PROVE  /\ Append(history[d], packet[d]) \in Seq(S!Content)
           /\ history[d] # <<>> => /\ Last(history[d]) \in S!Content
                                   /\ Front(history[d]) \in Seq(S!Content)
<1>1. PICK h, p, C : h = history[d] /\ p = packet[d] /\ C = S!Content
  OBVIOUS
<1>2. h \in Seq(C) /\ p \in C
  BY <1>1 DEF Shapes
<1>3. Append(h, p) \in Seq(C)
  BY <1>2
<1>4. ASSUME h # <<>> PROVE Last(h) \in C /\ Front(h) \in Seq(C)
  <2>1. Len(h) \in Nat /\ Len(h) >= 1
    BY <1>2, <1>4
  <2>2. h[Len(h)] \in C
    BY <1>2, <2>1
  <2>3. SubSeq(h, 1, Len(h) - 1) \in Seq(C)
    BY <1>2, <2>1
  <2>4. QED
    BY <2>2, <2>3 DEF Last, Front
<1>5. QED
  BY <1>1, <1>3, <1>4

LEMMA CommandShapes ==
    ASSUME Base, Shapes, NEW d \in Device, Command(d)
    PROVE  Shapes'
<1> USE DEF serverVars, outboxVars, stateVars
<1>1. PICK next, stack : /\ Apply(d, next, stack)
                         /\ next \in S!Content /\ stack \in Seq(S!Content)
  <2>1. packet[d] \in S!Content
    BY DEF Shapes
  <2>2. PICK s, b, m : /\ packet[d] = [seen |-> s, concluded |-> b, media |-> m]
                       /\ s \in SUBSET Op /\ b \in BOOLEAN /\ m \in SUBSET Digest
    BY <2>1 DEF S!Content
  <2>3. CASE Collect(d)
    <3>1. PICK added \in {{}} \cup {{g} : g \in Digest} :
             Apply(d, [packet[d] EXCEPT !.media = @ \cup added], Append(history[d], packet[d]))
      BY <2>3 DEF Collect
    <3>2. PICK m2 : m2 = m \cup added
      OBVIOUS
    <3>3. [packet[d] EXCEPT !.media = @ \cup added] = [seen |-> s, concluded |-> b, media |-> m2]
      BY <2>2, <3>2
    <3>4. m2 \in SUBSET Digest
      BY <2>2, <3>1, <3>2
    <3>5. [packet[d] EXCEPT !.media = @ \cup added] \in S!Content
      BY <2>2, <3>3, <3>4 DEF S!Content
    <3>6. QED
      BY <3>1, <3>5, HistoryOfPackets
  <2>4. CASE ConcludeSurvey(d)
    <3>1. Apply(d, [packet[d] EXCEPT !.concluded = TRUE], Append(history[d], packet[d]))
      BY <2>4 DEF ConcludeSurvey
    <3>2. PICK t : t = TRUE
      OBVIOUS
    <3>3. [packet[d] EXCEPT !.concluded = t] = [seen |-> s, concluded |-> t, media |-> m]
      BY <2>2
    <3>4. [packet[d] EXCEPT !.concluded = t] \in S!Content
      BY <2>2, <3>2, <3>3 DEF S!Content
    <3>5. QED
      BY <3>1, <3>2, <3>4, HistoryOfPackets
  <2>5. CASE UndoLast(d)
    BY <2>5, HistoryOfPackets DEF UndoLast
  <2>6. QED
    BY <2>3, <2>4, <2>5 DEF Command
<1>2. PICK n, k : n = NextSeq(d) /\ k = [pc |-> "save", next |-> next, stack |-> stack, seq |-> n]
  OBVIOUS
<1>3. k.next = next /\ k.stack = stack
  BY <1>2
<1>4. command' = [command EXCEPT ![d] = k] /\ UNCHANGED <<packet, history>>
  BY <1>1, <1>2 DEF Apply
<1>5. command'[d] = k /\ \A y \in Device : y # d => command'[y] = command[y]
  BY <1>4 DEF Base, Outbox
<1>6. QED
  BY <1>1, <1>3, <1>4, <1>5 DEF Shapes

LEMMA SaveShapes ==
    ASSUME Base, Shapes, NEW d \in Device, Turns(d), SaveCommand(d)
    PROVE  Shapes'
<1> USE DEF serverVars, outboxVars, stateVars
<1>1. PICK x, next, F, p2, h, k :
         /\ x = NewOp(d) /\ next = command[d].next /\ F = packet[d].seen \cup {x}
         /\ p2 = [next EXCEPT !.seen = F] /\ h = command[d].stack /\ k = Rest
  OBVIOUS
<1>2. command[d] # Rest /\ Unborn(d) # {}
  BY DEF SaveCommand, Turns
<1>3. next \in S!Content /\ h \in Seq(S!Content) /\ packet[d] \in S!Content
  BY <1>1, <1>2 DEF Shapes
<1>4. x \in Op
  BY <1>1, <1>2, UnbornIsNew
<1>5. p2 = [seen |-> F, concluded |-> next.concluded, media |-> next.media]
  <2>1. next \in S!Content /\ p2 = [next EXCEPT !.seen = F]
    BY <1>1, <1>3
  <2>2. QED
    BY ONLY <2>1, ContentSeen
<1>6. F \subseteq Op /\ next.concluded \in BOOLEAN /\ next.media \subseteq Digest
  BY <1>1, <1>3, <1>4 DEF S!Content
<1>7. p2 \in S!Content
  BY <1>5, <1>6 DEF S!Content
<1>8. /\ packet' = [packet EXCEPT ![d] = p2] /\ history' = [history EXCEPT ![d] = h]
      /\ command' = [command EXCEPT ![d] = k]
  BY <1>1 DEF SaveCommand
<1>9. packet' \in [Device -> S!Content]
  BY <1>7, <1>8 DEF Shapes
<1>10. history' \in [Device -> Seq(S!Content)]
  BY <1>3, <1>8 DEF Shapes
<1>11. command'[d] = Rest /\ \A y \in Device : y # d => command'[y] = command[y]
  BY <1>1, <1>8 DEF Base, Outbox
<1>12. QED
  BY <1>9, <1>10, <1>11 DEF Shapes

LEMMA PhoneShapes ==
    ASSUME Base, Shapes, NEW d \in Device, Turns(d),
           Command(d) \/ SaveCommand(d) \/ SyncSurvey(d) \/ ResolveConflict(d)
           \/ Engine(d) \/ Fault(d)
    PROVE  Shapes'
<1> USE DEF serverVars, outboxVars, stateVars
<1>1. CASE ResolveConflict(d) \/ KeepLocal(d) \/ AcceptServer(d)
  BY <1>1, ShapesRest DEF ResolveConflict, KeepLocal, AcceptServer
<1>2. CASE Plain(d)
  BY <1>2, StillEngine, EngineRests, ShapesRest DEF Plain, Still, Rests
<1>3. CASE SubmitAcked(d)
  BY <1>3, SubmitAcknowledges, EngineRests, ShapesRest DEF Acknowledges, Rests
<1>4. CASE SendBatch(d)
  <2>1. Rests(d) /\ (Still(d) \/ Sends(d))
    BY <1>4, SendsBatch, EngineRests
  <2>2. QED
    BY <2>1, ShapesRest DEF Still, Sends, Rests
<1>5. QED
  BY <1>1, <1>2, <1>3, <1>4, CommandShapes, SaveShapes DEF Plain, Engine

\* What a phone withdraws, it withdraws by accepting the server's version.
LEMMA PhoneWithdrawals ==
    ASSUME Base, Withdrawals, NEW d \in Device, Turns(d),
           \/ Command(d) \/ SaveCommand(d) \/ ResolveConflict(d) \/ KeepLocal(d)
           \/ Plain(d) \/ SubmitAcked(d) \/ SendBatch(d)
    PROVE  Withdrawals'
<1> USE DEF serverVars, outboxVars, stateVars
<1>1. CASE Command(d)
  BY <1>1, WithdrawalsRest DEF Command, Collect, ConcludeSurvey, UndoLast, Apply
<1>2. CASE SaveCommand(d)
  <2>1. dropped' = dropped /\ status' = [status EXCEPT ![NewOp(d)] = "local"]
    BY <1>2 DEF SaveCommand
  <2>2. \A o \in Op : status'[o] = "local" \/ status'[o] = status[o]
    BY <2>1 DEF Base, Outbox
  <2>3. QED
    BY <2>1, <2>2, WithdrawalsRest
<1>3. CASE ResolveConflict(d)
  BY <1>3, WithdrawalsRest DEF ResolveConflict
<1>4. CASE KeepLocal(d)
  BY <1>4, WithdrawalsRest DEF KeepLocal
<1>5. CASE Plain(d)
  BY <1>5, StillEngine, EngineRests, WithdrawalsRest DEF Plain, Still, Rests
<1>6. CASE SubmitAcked(d)
  <2>1. dropped' = dropped /\ Acknowledges(d)
    BY <1>6, EngineRests, SubmitAcknowledges DEF Rests
  <2>2. \A o \in Op : status'[o] = "acked" \/ status'[o] = status[o]
    BY <2>1 DEF Acknowledges
  <2>3. QED
    BY <2>1, <2>2, WithdrawalsRest
<1>7. CASE SendBatch(d)
  <2>1. dropped' = dropped /\ (Still(d) \/ Sends(d))
    BY <1>7, EngineRests, SendsBatch DEF Rests
  <2>2. \A o \in Op : status'[o] = "pending" \/ status'[o] = status[o]
    BY <2>1 DEF Still, Sends
  <2>3. QED
    BY <2>1, <2>2, WithdrawalsRest
<1>8. QED
  BY <1>1, <1>2, <1>3, <1>4, <1>5, <1>6, <1>7

LEMMA PhoneStory ==
    ASSUME Base, Inv', Mail, Shapes, Withdrawals, \A x \in Device : Story(x),
           NEW d \in Device, Turns(d),
           Command(d) \/ SaveCommand(d) \/ SyncSurvey(d) \/ ResolveConflict(d)
           \/ Engine(d) \/ Fault(d)
    PROVE  Withdrawals' /\ \A x \in Device : Story(x)'
<1>1. CASE AcceptServer(d)
  BY <1>1, AcceptServerStory
<1>2. CASE SendBatch(d)
  <2>1. CASE Sends(d)
    BY <1>2, <2>1, EngineRests, SendStory, PhoneWithdrawals
  <2>2. CASE ~Sends(d)
    <3>1. Strides(d)
      BY <1>2, <2>2, StridesBatch
    <3>2. Still(d) /\ UNCHANGED <<survey, packet, dropped>>
      BY <3>1 DEF Strides
    <3>3. Course(d) => Course(d)'
      BY <3>1, StrideCourse
    <3>4. QED
      BY <1>2, <3>2, <3>3, StillStory, PhoneWithdrawals
  <2>3. QED
    BY <2>1, <2>2
<1>3. CASE Command(d) \/ SaveCommand(d) \/ ResolveConflict(d) \/ KeepLocal(d)
  BY <1>3, CommandStory, SaveStory, ResolveStory, KeepLocalStory, PhoneWithdrawals
<1>4. CASE SubmitAcked(d)
  BY <1>4, AcknowledgeStory, PhoneWithdrawals
<1>5. CASE Plain(d)
  <2>1. CASE SyncSurvey(d) \/ SyncDecision(d)
    BY <1>5, <2>1, BeginStory, PhoneWithdrawals
  <2>2. CASE Conflicted(d)
    BY <1>5, <2>2, ConflictStory, PhoneWithdrawals
  <2>3. QED
    BY <1>5, <2>1, <2>2, StrideStory, PhoneWithdrawals DEF Plain
<1>6. QED
  BY <1>1, <1>2, <1>3, <1>4, <1>5 DEF Plain, Engine

\* Neither a phone nor an instance acts.
LEMMA OutsideWhole ==
    ASSUME Base, Mail, Desk, Shapes, Withdrawals, \A x \in Device : Story(x),
           (\E g \in Digest : UrlExpires(g)) \/ DropAnswer \/ UNCHANGED vars
    PROVE  Mail' /\ Desk' /\ Shapes' /\ Withdrawals' /\ \A x \in Device : Story(x)'
<1> USE DEF serverVars, outboxVars, stateVars, S!dbVars, S!queueVars
<1>1. /\ Phoned
      /\ UNCHANGED <<net, seq, status, batches, engine, command, conflict, shared>>
  BY OutsideSteps
<1>2. UNCHANGED <<survey, packet, dropped, history>>
  <2>1. CASE \E g \in Digest : UrlExpires(g)
    BY <2>1 DEF UrlExpires, S!UrlExpires
  <2>2. CASE DropAnswer
    BY <2>2 DEF DropAnswer
  <2>3. CASE UNCHANGED vars
    BY <2>3 DEF vars
  <2>4. QED
    BY <2>1, <2>2, <2>3
<1>3. \A r \in Letters' : r \in Letters
  BY <1>1, LettersRest
<1>4. Mail' /\ Desk'
  BY <1>1, <1>2, <1>3, MailFewer, DeskRests
<1>5. Shapes' /\ Withdrawals'
  BY <1>1, <1>2 DEF Shapes, Withdrawals
<1>6. ASSUME NEW x \in Device PROVE Story(x)'
  <2>1. SUFFICES ASSUME Sole(x)', Undone' PROVE Pile(x)' /\ Course(x)'
    BY DEF Story
  <2>2. Pile(x) /\ Course(x)
    BY <1>1, <1>2, <2>1 DEF Story, Sole, Undone
  <2>3. \A b \in Sent(x)' : b \in Sent(x)
    BY <1>3, SentShrinks
  <2>4. Pile(x)'
    BY <1>1, <1>2, <2>2, <2>3, PileRests
  <2>5. Pending(x)' = Pending(x)
    BY <1>1 DEF Pending, Own
  <2>6. Course(x)'
    BY <1>1, <1>2, <2>2, <2>5, CourseRests
  <2>7. QED
    BY <2>4, <2>6
<1>7. QED
  BY <1>4, <1>5, <1>6

LEMMA WholeNext == ASSUME Whole, [Next]_vars PROVE Whole'
<1>1. Full' /\ Base /\ Inv'
  BY FullNext DEF Whole, Full, Base
<1>2. SUFFICES ASSUME shared
               PROVE  Mail' /\ Desk' /\ Shapes' /\ Withdrawals' /\ \A d \in Device : Story(d)'
  BY <1>1, BuildStays DEF Whole
<1>3. /\ Mail /\ Desk /\ Shapes /\ Withdrawals /\ \A d \in Device : Story(d)
      /\ \A d \in Device : Turns(d)
  BY <1>2 DEF Whole, Full, InTurn
<1>4. ASSUME NEW d \in Device,
             Command(d) \/ SaveCommand(d) \/ SyncSurvey(d) \/ ResolveConflict(d)
             \/ Engine(d) \/ Fault(d)
      PROVE  Mail' /\ Desk' /\ Shapes' /\ Withdrawals' /\ \A x \in Device : Story(x)'
  <2>1. Mail' /\ Shapes'
    BY <1>1, <1>3, <1>4, PhoneMail, PhoneShapes
  <2>2. Desk'
    BY <1>1, <1>3, <1>4, PhoneOnly, DeskRests
  <2>3. Withdrawals' /\ \A x \in Device : Story(x)'
    BY <1>1, <1>3, <1>4, PhoneStory
  <2>4. QED
    BY <2>1, <2>2, <2>3
<1>5. ASSUME NEW w \in Worker, (\E r \in net : Deliver(w, r)) \/ Serve(w) \/ ServerCrash(w)
      PROVE  Mail' /\ Desk' /\ Shapes' /\ Withdrawals' /\ \A x \in Device : Story(x)'
  BY <1>1, <1>3, <1>5, ServerWhole
<1>6. CASE (\E g \in Digest : UrlExpires(g)) \/ DropAnswer \/ UNCHANGED vars
  BY <1>1, <1>3, <1>6, OutsideWhole
<1>7. QED
  BY <1>4, <1>5, <1>6 DEF Next

LEMMA WholeInit == ASSUME Init PROVE Whole
<1>1. Full
  BY FullInit
<1>2. /\ stored = [o \in Op |-> 0] /\ idem = {} /\ answers = {} /\ net = {}
      /\ txn = [w \in Worker |-> S!Idle]
      /\ survey = [status |-> "ABSENT", version |-> 0, content |-> S!NoContent]
      /\ status = [o \in Op |-> "unborn"] /\ dropped = [o \in Op |-> {}]
      /\ packet = [d \in Device |-> S!NoContent] /\ history = [d \in Device |-> <<>>]
      /\ engine = [d \in Device |-> Rest] /\ command = [d \in Device |-> Rest]
      /\ conflict = [d \in Device |-> NoConflict]
  BY DEF Init, S!Init
<1>3. Letters = {}
  <2>1. \A d \in Device : ~Awaiting(d)
    BY <1>2 DEF Awaiting, Rest
  <2>2. QED
    BY <1>2, <2>1 DEF Letters
<1>4. Mail
  BY <1>3, FS_EmptySet DEF Mail
<1>5. PICK none : none = S!NoContent
  OBVIOUS
<1>6. none \in S!Content /\ none.seen = {}
  BY <1>5 DEF S!NoContent, S!Content
<1>7. survey = [status |-> "ABSENT", version |-> 0, content |-> none]
  BY <1>2, <1>5
<1>8. Desk
  <2>1. survey = [status |-> survey.status, version |-> survey.version,
                  content |-> survey.content]
    BY <1>7
  <2>2. \A w \in Worker : Knows(w)
    BY <1>2 DEF Knows, S!Idle
  <2>3. QED
    BY <1>2, <2>1, <2>2 DEF Desk
<1>9. Shapes
  <2>1. <<>> \in Seq(S!Content)
    OBVIOUS
  <2>2. QED
    BY <1>2, <1>5, <1>6, <2>1 DEF Shapes
<1>10. Withdrawals
  BY <1>2 DEF Withdrawals
<1>11. ASSUME NEW d \in Device PROVE Story(d)
  <2>1. packet[d] = none /\ survey.content = none /\ Sent(d) = {}
    BY <1>2, <1>3, <1>5, <1>7 DEF Sent
  <2>2. Layered(survey.content, packet[d], Sent(d), stored)
    BY <1>6, <2>1 DEF Layered, Older
  <2>3. Pile(d)
    BY <1>2, <1>6, <2>1, <2>2 DEF Pile, S!Idle
  <2>4. engine[d].pc = "idle" /\ ~conflict[d].open
    BY <1>2 DEF Rest, NoConflict
  <2>5. Course(d)
    BY <2>4 DEF Course, Awaits, Awaiting
  <2>6. QED
    BY <2>3, <2>5 DEF Story
<1>12. QED
  BY <1>1, <1>4, <1>8, <1>9, <1>10, <1>11 DEF Whole

\* When passes and commands take turns, a phone that collects the survey alone and has nothing
\* left to send is what the server shows, whatever was lost, repeated late or renumbered, unless
\* a decision has withdrawn something.
THEOREM PhonesConverge == Spec => []TurnsConverge
<1>1. ASSUME Whole PROVE TurnsConverge
  <2>1. SUFFICES ASSUME shared, NEW d \in Device, Settled(d)
                 PROVE  survey.content = packet[d]
    BY DEF TurnsConverge, PacketConverges
  <2>2. Sole(d) /\ Undone /\ Pending(d) = {}
    BY <2>1 DEF Settled, Sole, Undone
  <2>3. Base /\ Withdrawals /\ Pile(d)
    BY <1>1, <2>1, <2>2 DEF Whole, Full, Story
  <2>4. QED
    BY <2>2, <2>3, Agreed
<1>2. QED
  BY WholeInit, WholeNext, <1>1, PTL DEF Spec

-----------------------------------------------------------------------------
(* A survey that is closed.                                                  *)

\* What is about to be written was read open.
ReadOpen ==
    /\ survey.status \in {"ABSENT", "OPEN", "COMPLETED"}
    /\ \A w \in Worker : txn[w].pc \in {"compare", "write"} => txn[w].read.status = "OPEN"

\* A step of an instance: a handler that goes on with a batch found the survey open.
LEMMA ServerReadsOpen ==
    ASSUME Base, Desk, ReadOpen, NEW w \in Worker,
           Looks(w) \/ (Commits(w) /\ survey' = S!Written(txn[w]))
    PROVE  ReadOpen'
<1>1. CASE Looks(w)
  <2>1. PICK t : txn' = [txn EXCEPT ![w] = t] /\ Opens(w, t)
    BY <1>1 DEF Looks
  <2>2. txn'[w] = t /\ \A v \in Worker : v # w => txn'[v] = txn[v]
    BY <2>1 DEF Base, Inv, ServerInv
  <2>3. t.pc \in {"compare", "write"} => t.read.status = "OPEN"
    BY <2>1 DEF Opens, ReadOpen
  <2>4. survey'.status \in {survey.status, "COMPLETED"}
    <3>1. PICK a, b, c : a = survey.status /\ b = survey.version /\ c = survey.content
      OBVIOUS
    <3>2. survey = [status |-> a, version |-> b, content |-> c]
      BY <3>1 DEF Desk
    <3>3. [survey EXCEPT !.status = "COMPLETED"].status = "COMPLETED"
      BY <3>2
    <3>4. QED
      BY <1>1, <3>3 DEF Looks
  <2>5. QED
    BY <2>2, <2>3, <2>4 DEF ReadOpen
<1>2. CASE Commits(w) /\ survey' = S!Written(txn[w])
  <2>1. txn[w].pc = "write" /\ txn' = [txn EXCEPT ![w] = S!Idle]
    BY <1>2 DEF Commits
  <2>2. txn'[w] = S!Idle /\ \A v \in Worker : v # w => txn'[v] = txn[v]
    BY <2>1 DEF Base, Inv, ServerInv
  <2>3. survey'.status \in {survey.status, "OPEN"}
    BY <1>2, <2>1, CommitsSurvey
  <2>4. QED
    BY <2>2, <2>3 DEF ReadOpen, S!Idle
<1>3. QED
  BY <1>1, <1>2

\* A batch whose operations are all acknowledged inserts nothing.
LEMMA NothingFresh ==
    ASSUME Base, AllAcked, NEW w \in Worker, Commits(w)
    PROVE  txn[w].fresh = {}
<1> DEFINE t == txn[w]
<1>1. SUFFICES ASSUME NEW o, o \in t.fresh PROVE FALSE
  OBVIOUS
<1>2. t.pc = "write" /\ ~S!Clash(t.req.body, t.fresh)
  BY DEF Commits
<1>3. o \in Op /\ t.req.body.seqs[o] # 0
  BY <1>1, <1>2 DEF Base, Handlers, Continued, Inv, ServerInv, Handles, Planned
<1>4. t.req \in Letters
  BY <1>2 DEF Letters, S!Idle
<1>5. t.req.body.kind = "submit"
  BY <1>2 DEF Base, Handlers, Routed
<1>6. status[o] # "unborn"
  BY <1>3, <1>4, <1>5 DEF Base, Post, Proper
<1>7. stored[o] # 0
  BY <1>3, <1>6 DEF AllAcked, Base, Inv, AckedIsStored
<1>8. QED
  BY <1>1, <1>2, <1>7 DEF S!Clash

\* A step of an instance writes nothing of a closed survey.
LEMMA ServerFrozen ==
    ASSUME Base, Desk, ReadOpen, survey.status = "COMPLETED", NoneInHand \/ AllAcked,
           NEW w \in Worker,
           Looks(w) \/ (Commits(w) /\ survey' = S!Written(txn[w]))
    PROVE  stored' = stored /\ survey' = survey
<1>1. CASE Looks(w)
  <2>1. PICK b, c : b = survey.version /\ c = survey.content
    OBVIOUS
  <2>2. survey = [status |-> "COMPLETED", version |-> b, content |-> c]
    BY <2>1 DEF Desk
  <2>3. [survey EXCEPT !.status = "COMPLETED"] = survey
    BY <2>2
  <2>4. QED
    BY <1>1, <2>3 DEF Looks
<1>2. CASE Commits(w) /\ survey' = S!Written(txn[w])
  <2>1. txn[w].pc = "write"
    BY <1>2 DEF Commits
  <2>2. AllAcked
    BY <2>1 DEF NoneInHand, ReadOpen
  <2>3. txn[w].fresh = {}
    BY <1>2, <2>2, NothingFresh
  <2>4. ~txn[w].created
    BY <2>1 DEF Desk, Knows
  <2>5. survey' = survey
    BY <1>2, <2>1, <2>3, <2>4, CommitsSurvey
  <2>6. stored' = stored
    BY <1>2, <2>3 DEF Commits, Base, Outbox
  <2>7. QED
    BY <2>5, <2>6
<1>3. QED
  BY <1>1, <1>2

LEMMA FrozenNext ==
    ASSUME Base, Desk, ReadOpen, [Next]_vars
    PROVE  /\ Desk' /\ ReadOpen'
           /\ survey.status = "COMPLETED" /\ (NoneInHand \/ AllAcked)
                 => stored' = stored /\ survey' = survey
<1>1. ASSUME NEW w \in Worker, (\E r \in net : Deliver(w, r)) \/ Serve(w) \/ ServerCrash(w)
      PROVE  /\ Desk' /\ ReadOpen'
             /\ survey.status = "COMPLETED" /\ (NoneInHand \/ AllAcked)
                   => stored' = stored /\ survey' = survey
  <2>1. Looks(w) \/ (Commits(w) /\ survey' = S!Written(txn[w]))
    BY <1>1, ServeLooks
  <2>2. QED
    BY <2>1, LooksDesk, CommitsDesk, ServerReadsOpen, ServerFrozen
<1>2. CASE Phoned /\ survey' = survey
  BY <1>2, DeskRests DEF Phoned, ReadOpen
<1>3. CASE (\E g \in Digest : UrlExpires(g)) \/ DropAnswer \/ UNCHANGED vars
  <2>1. survey' = survey
    BY <1>3 DEF UrlExpires, S!UrlExpires, DropAnswer, vars, serverVars, S!dbVars
  <2>2. QED
    BY <1>2, <1>3, <2>1, OutsideSteps
<1>4. ASSUME NEW d \in Device,
             Command(d) \/ SaveCommand(d) \/ SyncSurvey(d) \/ ResolveConflict(d)
             \/ Engine(d) \/ Fault(d)
      PROVE  Phoned /\ survey' = survey
  BY <1>4, PhoneOnly
<1>5. QED
  BY <1>1, <1>2, <1>3, <1>4 DEF Next

LEMMA FrozenInit == ASSUME Init PROVE Desk /\ ReadOpen
<1>1. /\ stored = [o \in Op |-> 0] /\ idem = {}
      /\ txn = [w \in Worker |-> S!Idle]
      /\ survey = [status |-> "ABSENT", version |-> 0, content |-> S!NoContent]
  BY DEF Init, S!Init
<1>2. PICK none : none = S!NoContent
  OBVIOUS
<1>3. survey = [status |-> "ABSENT", version |-> 0, content |-> none]
  BY <1>1, <1>2
<1>4. /\ survey.status = "ABSENT"
      /\ survey = [status |-> survey.status, version |-> survey.version,
                   content |-> survey.content]
  BY <1>3
<1>5. QED
  BY <1>1, <1>4 DEF Desk, Knows, ReadOpen, S!Idle

\* A completed survey takes no operation and keeps its packet, served by any number of
\* instances and in both builds, from when the batches that had read it open are through,
\* and at once when no phone had anything left to send.
THEOREM ClosedStays == Spec => CompletedIsFrozen
<1>1. Init => Desk /\ ReadOpen
  BY FrozenInit
<1>2. Base /\ Desk /\ ReadOpen /\ [Next]_vars => Desk' /\ ReadOpen'
  BY FrozenNext
<1>3. Base /\ Desk /\ ReadOpen /\ [Next]_vars =>
        [survey.status = "COMPLETED" /\ (NoneInHand \/ AllAcked)
            => stored' = stored /\ survey' = survey]_vars
  BY FrozenNext
<1>4. QED
  BY BaseInit, BaseNext, <1>1, <1>2, <1>3, PTL DEF Spec, CompletedIsFrozen
================================================================================
