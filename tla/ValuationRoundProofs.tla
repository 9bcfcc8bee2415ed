--------------------------- MODULE ValuationRoundProofs ---------------------------
(***************************************************************************)
(* Theorems about ValuationRound, for any catalogue, number of plates,     *)
(* requests, deliveries, attempts and scenario.                            *)
(*                                                                         *)
(* Two things carry them.  A delivery at work on a plate is told from the  *)
(* others by the command and the plate its message is about, even when the *)
(* row has gone to a later command meanwhile; and what is vouched for in   *)
(* the head is vouched for in every revision a request still has in hand,  *)
(* because an act writes again what it read.                               *)
(***************************************************************************)
EXTENDS ValuationRound, TLAPS, SequenceTheorems

-----------------------------------------------------------------------------
(* The inductive invariant.                                                 *)

Statuses == {"none", "queued", "running", "failed", "done"}

Rows == [status : Statuses, id : Nat]

RequestState ==
    [pc : {"idle", "loaded", "read", "ready", "enqueue"}, act : Act \cup {NoAct}, base : Nat,
     rows : 0..Limit, view : Revision, at : Nat, messages : SUBSET Job]

WorkerState ==
    [pc : {"idle", "claiming", "extracting", "publish", "insert", "fail", "settling",
           "drawing", "declare", "declaring"},
     job : Job, plate : 0..Limit, mirror : Statuses, at : Nat, tries : Nat]

\* Between the claim of a plate and the outcome of its extraction.
Working == {"extracting", "publish", "insert", "fail", "settling"}

Drawing == {"drawing", "declare", "declaring"}

\* The plate a message is about; the singular route is about the first.
Target(job) == IF job.plate = 0 THEN 1 ELSE job.plate

\* A message of a command made durable; only those about the first plate name none.
Known(commands, job) ==
    job.kind = "extract" =>
        /\ job.id \in 1..Len(commands)
        /\ job.plate = 0 => commands[job.id].on = {1}

\* A row belongs to no command, or to one that named its plate.
Owned ==
    \A p \in DOMAIN plates :
        /\ InFlight(plates[p]) => plates[p].id # 0
        /\ plates[p].id # 0 => /\ plates[p].id \in 1..Len(intent)
                               /\ p \in intent[plates[p].id].on

Announced ==
    /\ \A job \in queue : Known(intent, job)
    /\ \A r \in Request : \A job \in request[r].messages : Known(intent, job)
    /\ \A w \in Worker : worker[w].pc # "idle" => Known(intent, worker[w].job)

\* A delivery about to declare a drawing: unless the head has moved, it is of its packet.
Drew(d, rev) == d.at <= rev.version /\ (d.at = rev.version => rev.packets[1].rev = d.job.id)

\* What a delivery has in hand.
Claims(d, rows, calls, rev) ==
    /\ d.pc = "claiming" =>
          /\ d.job.kind = "extract" /\ d.plate = Target(d.job)
          /\ d.plate \in DOMAIN rows
          /\ rows[d.plate] = [status |-> "queued", id |-> d.job.id]
    /\ d.pc \in Working =>
          /\ d.job.kind = "extract"
          /\ d.plate = Target(d.job) \/ (d.pc = "settling" /\ d.plate = 0)
          /\ d.plate \in 0..Len(rows)
    /\ d.pc = "extracting" => calls[d.job.id][d.plate] = 0
    /\ d.pc = "settling" /\ d.plate # 0 =>
          rows[d.plate] = [status |-> "running", id |-> d.job.id]
    /\ d.pc \in Drawing => d.job.kind = "overlay"
    /\ d.pc = "declaring" => Drew(d, rev)

Claimed == \A w \in Worker : Claims(worker[w], plates, paid, head)

\* No two deliveries are at work for one command on one plate, nor claim one plate.
Apart ==
    \A w, v \in Worker : w # v =>
        /\ worker[w].pc \in Working /\ worker[v].pc \in Working
              /\ worker[w].job.id = worker[v].job.id => Target(worker[w].job) # Target(worker[v].job)
        /\ worker[w].pc = "claiming" /\ worker[v].pc = "claiming" =>
              worker[w].plate # worker[v].plate

\* For a plate still queued nothing was paid, and nobody is at work.
Untouched ==
    \A p \in DOMAIN plates : plates[p].status = "queued" =>
        /\ paid[plates[p].id][p] = 0
        /\ \A w \in Worker :
              worker[w].pc \in Working /\ worker[w].job.id = plates[p].id => Target(worker[w].job) # p

\* A reading is discarded once, and one that is kept is not discarded.
Unchained(links) == \A l, m \in links : l # m => l.discarded \notin {m.discarded, m.kept}

\* What a revision says was signed was signed, and what it says was declared was declared.
Vouched(signs, declarations, rev) ==
    /\ rev.approval # Blank => rev.approval \in signs
    /\ rev.workbook # Blank => rev.workbook \in signs
    /\ \A p \in Position : rev.codes[p].closed => <<p, rev.codes[p].confirmed>> \in declarations
    /\ Unchained(rev.links)

\* What an act was accepted on, of the revision and the rows read.
Granted(act, rev, count) ==
    /\ act.kind = "append" => count < Limit
    /\ act.kind = "export" => MayExport(rev)
    /\ act.kind = "link" => MayLink(Link(act), rev.links)
    /\ \A p \in act.on :
          /\ act.kind = "confirm" => MayConfirm(rev.codes[p], act.codes)
          /\ act.kind = "deny" => MayDeny(rev.codes[p])

Served(q, signs, declarations) ==
    /\ q.pc # "enqueue" => q.messages = {}
    /\ q.pc \in {"loaded", "read", "ready"} => q.act \in Act
    /\ q.pc \in {"read", "ready"} =>
          Vouched(signs, declarations, q.view) /\ Granted(q.act, q.view, q.rows)

Sound ==
    /\ Vouched(signed, declared, head)
    /\ \A r \in Request : Served(request[r], signed, declared)

\* What holds of the commands, their messages and the deliveries at work on them.
Commands ==
    /\ Owned /\ Announced /\ Claimed /\ Apart /\ Untouched
    /\ PaidOncePerCommand /\ NoCommandForgotten

IInv == TypeOK /\ Commands /\ Sound

-----------------------------------------------------------------------------
(* What the operators return.                                               *)

\* The bodies about one plate.
Single == {"decide", "decideAll", "rejectAll", "suggest", "recompute", "confirm", "deny",
           "close", "revoke", "extractOne"}

LEMMA Bodies ==
    ASSUME ConstantsAssumption, NEW a \in Act
    PROVE  /\ a.kind \in Kind /\ a.on \subseteq Position /\ a.codes \subseteq Code
           /\ a.kind = "extractOne" => a.on = {1}
           /\ a.kind \in Single => \E p \in Position : a.on = {p}
           /\ a.kind = "link" =>
                \E p, q \in Position : p # q /\ a.on = {p, q} /\ a.keeps = p
<1>. 1 \in Position
  BY DEF Position, ConstantsAssumption
<1>1. CASE a \in Body({"append", "build", "approve", "export"}, {{}}, {{}}, {0})
  BY <1>1 DEF Body, Kind, Single
<1>2. CASE a \in Body({"decide", "decideAll", "rejectAll", "suggest", "deny", "close"},
                      SinglePlate, {{}}, {0})
  BY <1>2 DEF Body, Kind, Single, SinglePlate
<1>3. CASE a \in Body({"extractOne", "recompute"}, {{1}}, {{}}, {0})
  BY <1>3 DEF Body, Kind, Single
<1>4. CASE a \in Body({"extract"}, SUBSET Position \ {{}}, {{}}, {0})
  BY <1>4 DEF Body, Kind, Single
<1>5. CASE a \in Body({"confirm", "revoke"}, SinglePlate, {{c} : c \in Code}, {0})
  BY <1>5 DEF Body, Kind, Single, SinglePlate
<1>6. CASE a \in Body({"buildWithMatrix"}, {{}}, SUBSET Code, {0})
  BY <1>6 DEF Body, Kind, Single
<1>7. CASE a \in {act \in Body({"link"}, PlatePair, {{}}, Position) : act.keeps \in act.on}
  <2>1. a.kind = "link" /\ a.on \in PlatePair /\ a.codes = {} /\ a.keeps \in a.on
    BY <1>7 DEF Body
  <2>2. PICK p \in Position, q \in Position : p # q /\ a.on = {p, q}
    BY <2>1 DEF PlatePair
  <2>3. \E x, y \in Position : x # y /\ a.on = {x, y} /\ a.keeps = x
    <3>1. CASE a.keeps = p
      BY <3>1, <2>2
    <3>2. CASE a.keeps = q
      <4>1. a.on = {q, p}
        BY <2>2
      <4>. QED  BY <3>2, <2>2, <4>1
    <3>. QED  BY <2>1, <2>2, <3>1, <3>2
  <2>. QED  BY <2>1, <2>2, <2>3 DEF Kind, Single
<1>. QED  BY <1>1, <1>2, <1>3, <1>4, <1>5, <1>6, <1>7 DEF Act

LEMMA LinkFits ==
    ASSUME ConstantsAssumption, NEW a \in Act, a.kind = "link"
    PROVE  Link(a) \in Links /\ Link(a).kept # Link(a).discarded
<1>1. PICK p \in Position, q \in Position : p # q /\ a.on = {p, q} /\ a.keeps = p
  BY Bodies
<1>2. (CHOOSE x \in a.on : x # a.keeps) = q
  BY <1>1
<1>3. Link(a) = [kept |-> p, discarded |-> q]
  BY <1>1, <1>2 DEF Link
<1>. QED  BY <1>1, <1>3 DEF Links

LEMMA MessagesFit ==
    ASSUME ConstantsAssumption, NEW a \in Act, NEW e \in Nat
    PROVE  /\ Messages(a, e) \in SUBSET Job
           /\ \A job \in Messages(a, e) : job.kind = "extract" /\ job.id = e
           /\ a.kind = "extractOne" => Messages(a, e) = {Extraction(e, 0)} /\ a.on = {1}
           /\ a.kind # "extractOne" => Messages(a, e) = {Extraction(e, p) : p \in a.on}
<1>. a.on \subseteq Position /\ (a.kind = "extractOne" => a.on = {1})
  BY Bodies
<1>0. Position \subseteq 0..Limit /\ 0 \in 0..Limit
  BY DEF Position, ConstantsAssumption
<1>1. \A p \in 0..Limit : Extraction(e, p) \in Job /\ Extraction(e, p).kind = "extract"
                          /\ Extraction(e, p).id = e
  BY DEF Extraction, Job
<1>2. CASE a.kind = "extractOne"
  <2>1. Messages(a, e) = {Extraction(e, 0)}
    BY <1>2 DEF Messages
  <2>. QED  BY <1>0, <1>1, <1>2, <2>1
<1>3. CASE a.kind # "extractOne"
  <2>1. Messages(a, e) = {Extraction(e, p) : p \in a.on}
    BY <1>3 DEF Messages
  <2>. QED  BY <1>0, <1>1, <1>3, <2>1
<1>. QED  BY <1>2, <1>3

LEMMA BlankFits == Blank \in Contents
BY DEF Blank, Contents

LEMMA PostedFits ==
    ASSUME ConstantsAssumption, NEW a \in Act
    PROVE  Posted(a) \in Matrices
BY Bodies DEF Posted, Matrices

LEMMA MeasuredFits ==
    ASSUME ConstantsAssumption, NEW rev \in Revision, NEW rows \in 0..Limit,
           NEW matrix \in Matrices
    PROVE  Measured(rev, rows, matrix) \in Contents
<1>1. matrix.posted \in BOOLEAN
  BY DEF Matrices
<1>2. [p \in Position |-> rev.packets[p].rev] \in [Position -> Nat]
  <2>1. rev.packets \in [Position -> Packets]
    BY DEF Revision
  <2>. QED  BY <2>1 DEF Packets
<1>3. {line \in (1..rows) \X Code : line[2] \in Printed(rev, line[1], matrix)} \in SUBSET (Position \X Code)
  <2>1. 1..rows \subseteq Position
    BY DEF Position, ConstantsAssumption
  <2>. QED  BY <2>1
<1>4. Discarded(rev) \in SUBSET Position
  <2>1. rev.links \in SUBSET Links
    BY DEF Revision
  <2>. QED  BY <2>1 DEF Discarded, Links
<1>. QED  BY <1>1, <1>2, <1>3, <1>4 DEF Measured, Contents

LEMMA SourcesFit ==
    ASSUME NEW rev \in Revision, NEW rows \in 0..Limit, NEW matrix \in Matrices
    PROVE  Sources(rev, rows, matrix) \in Stamps
<1>1. [p \in Position |-> rev.packets[p].rev] \in [Position -> Nat]
  <2>1. rev.packets \in [Position -> Packets]
    BY DEF Revision
  <2>. QED  BY <2>1 DEF Packets
<1>2. rev.codes \in [Position -> Package(Code)] /\ rev.links \in SUBSET Links
  BY DEF Revision
<1>. QED  BY <1>1, <1>2 DEF Sources, Stamps

LEMMA RewrittenFits ==
    ASSUME ConstantsAssumption, NEW S, NEW column \in [Position -> S],
           NEW read \in [Position -> S], NEW p \in Position, NEW document \in S
    PROVE  Rewritten(column, read, p, document) \in [Position -> S]
<1>. 1 \in Position
  BY DEF Position, ConstantsAssumption
<1>. QED  BY DEF Rewritten

LEMMA PackageActs ==
    ASSUME NEW s \in Package(Code), NEW codes \in SUBSET Code
    PROVE  /\ Confirm(s, codes) \in Package(Code) /\ Confirm(s, codes).closed = s.closed
           /\ Deny(s) \in Package(Code) /\ Deny(s).closed = s.closed
           /\ Deny(s).confirmed = s.confirmed
           /\ Close(s) \in Package(Code) /\ Close(s).confirmed = s.confirmed
           /\ Revoke(s, codes) \in Package(Code) /\ ~Revoke(s, codes).closed
BY DEF Package, Confirm, Deny, Close, Revoke

LEMMA Revised ==
    ASSUME NEW rev \in Revision
    PROVE  /\ [rev EXCEPT !.version = @ + 1] \in Revision
           /\ \A v \in Nat : [rev EXCEPT !.version = v] \in Revision
           /\ \A x \in [Position -> Packets] : [rev EXCEPT !.packets = x] \in Revision
           /\ \A x \in [Position -> Package(Code)] : [rev EXCEPT !.codes = x] \in Revision
           /\ \A x \in [Position -> {"none", "lexical", "recomputed"}] :
                 [rev EXCEPT !.shortlist = x] \in Revision
           /\ \A x \in SUBSET Links : [rev EXCEPT !.links = x] \in Revision
           /\ \A x \in Contents : [rev EXCEPT !.bulletin = x] \in Revision
           /\ \A x \in Matrices : [rev EXCEPT !.matrix = x] \in Revision
           /\ \A x \in Stamps : [rev EXCEPT !.stamp = x] \in Revision
           /\ \A x \in Contents : [rev EXCEPT !.approval = x] \in Revision
           /\ \A x \in Nat : [rev EXCEPT !.overlay = x] \in Revision
           /\ \A x \in Contents : [rev EXCEPT !.workbook = x] \in Revision
BY DEF Revision

LEMMA HeadFits ==
    ASSUME ConstantsAssumption, NEW count \in 0..Limit, NEW stage \in Stage
    PROVE  HeadAt(count, stage) \in Revision
<1>. DEFINE at(p) == IF p <= count THEN stage ELSE "associated"
            packets == [p \in Position |->
                IF at(p) = "associated" THEN NoPacket
                ELSE IF at(p) = "extracted" THEN [NoPacket EXCEPT !.rev = p, !.open = TRUE]
                ELSE [rev |-> p, open |-> FALSE, reading |-> "confirmed"]]
            codes == [p \in Position |->
                IF at(p) = "priced" THEN Close(Confirm(Undecided, {CHOOSE c \in Code : TRUE}))
                ELSE Undecided]
            empty == [packets |-> [p \in Position |-> NoPacket],
                      codes |-> [p \in Position |-> Undecided], links |-> {}]
<1>0. 1 \in Position /\ Position \subseteq Nat /\ 0 \in 0..Limit /\ count \in Nat
  BY DEF Position, ConstantsAssumption
<1>1. NoPacket \in Packets /\ \A p \in Position : [NoPacket EXCEPT !.rev = p, !.open = TRUE] \in Packets
  BY <1>0 DEF NoPacket, Packets
<1>2. packets \in [Position -> Packets]
  <2>1. \A p \in Position : [rev |-> p, open |-> FALSE, reading |-> "confirmed"] \in Packets
    BY <1>0 DEF Packets
  <2>. HIDE DEF at
  <2>. QED  BY <1>1, <2>1
<1>3. Undecided \in Package(Code)
  BY DEF Undecided, Package
<1>4. Close(Confirm(Undecided, {CHOOSE c \in Code : TRUE})) \in Package(Code)
  <2>1. {CHOOSE c \in Code : TRUE} \in SUBSET Code
    BY DEF ConstantsAssumption
  <2>. QED  BY <1>3, <2>1, PackageActs
<1>5. codes \in [Position -> Package(Code)]
  <2>. HIDE DEF at
  <2>. QED  BY <1>3, <1>4
<1>6. NoMatrix \in Matrices
  BY DEF NoMatrix, Matrices
<1>7. Sources(empty, 0, NoMatrix) \in Stamps
  BY <1>0, <1>1, <1>3, <1>6 DEF Sources, Stamps, Packets
<1>8. packets[1].rev \in Nat
  BY <1>0, <1>2 DEF Packets
<1>9. HeadAt(count, stage) =
          [version |-> IF stage = "associated" THEN 0 ELSE count,
           packets |-> packets, codes |-> codes, links |-> {},
           shortlist |-> [p \in Position |-> "none"],
           bulletin |-> Blank, matrix |-> NoMatrix, stamp |-> Sources(empty, 0, NoMatrix),
           approval |-> Blank, overlay |-> packets[1].rev, workbook |-> Blank]
  BY DEF HeadAt
<1>. HIDE DEF packets, codes, empty
<1>. QED  BY <1>0, <1>2, <1>5, <1>6, <1>7, <1>8, <1>9, BlankFits DEF Revision

LEMMA SlotsFit ==
    ASSUME ConstantsAssumption
    PROVE  Waiting \in RequestState /\ Free \in WorkerState
<1>1. HeadAt(0, "associated") \in Revision
  BY HeadFits DEF ConstantsAssumption, Stage
<1>2. Waiting \in RequestState
  BY <1>1 DEF Waiting, RequestState, ConstantsAssumption
<1>3. Extraction(0, 0) \in Job
  BY DEF Extraction, Job, ConstantsAssumption
<1>4. Free \in WorkerState
  BY <1>3 DEF Free, WorkerState, Statuses, ConstantsAssumption
<1>. QED  BY <1>2, <1>4

LEMMA Typed ==
    TypeOK <=>
        /\ round \in [version : Nat, status : Statuses]
        /\ plates \in Seq(Rows) /\ Len(plates) <= Limit
        /\ head \in Revision
        /\ intent \in Seq(Act)
        /\ request \in [Request -> RequestState]
        /\ queue \in SUBSET Job
        /\ worker \in [Worker -> WorkerState]
        /\ paid \in Seq([Position -> Nat]) /\ Len(paid) = Len(intent)
        /\ signed \in SUBSET Contents
        /\ lost \in SUBSET Job
        /\ declared \in SUBSET (Position \X SUBSET Code)
        /\ crossed \in BOOLEAN
        /\ left \in [Kind -> Nat]
BY DEF TypeOK, Rows, Statuses, RequestState, WorkerState

LEMMA TypedNext ==
    TypeOK' <=>
        /\ round' \in [version : Nat, status : Statuses]
        /\ plates' \in Seq(Rows) /\ Len(plates') <= Limit
        /\ head' \in Revision
        /\ intent' \in Seq(Act)
        /\ request' \in [Request -> RequestState]
        /\ queue' \in SUBSET Job
        /\ worker' \in [Worker -> WorkerState]
        /\ paid' \in Seq([Position -> Nat]) /\ Len(paid') = Len(intent')
        /\ signed' \in SUBSET Contents
        /\ lost' \in SUBSET Job
        /\ declared' \in SUBSET (Position \X SUBSET Code)
        /\ crossed' \in BOOLEAN
        /\ left' \in [Kind -> Nat]
BY DEF TypeOK, Rows, Statuses, RequestState, WorkerState

LEMMA Start ==
    ASSUME ConstantsAssumption, Init
    PROVE  IInv
<1>1. PICK s \in Scenario :
          /\ round = [version |-> s.plates + 1,
                      status |-> IF s.stage = "associated" THEN "none" ELSE "done"]
          /\ plates = [p \in 1..s.plates |->
                         [status |-> IF s.stage = "associated" THEN "none" ELSE "done", id |-> 0]]
          /\ head = HeadAt(s.plates, s.stage)
          /\ declared = {<<p, head.codes[p].confirmed>> :
                             p \in {q \in Position : head.codes[q].closed}}
          /\ left = s.left
          /\ intent = <<>>
          /\ request = [r \in Request |-> Waiting]
          /\ queue = {}
          /\ worker = [w \in Worker |-> Free]
          /\ paid = <<>>
          /\ signed = {}
          /\ lost = {}
          /\ crossed = FALSE
  BY DEF Init
<1>2. s.plates \in 0..Limit /\ s.stage \in Stage /\ s.left \in [Kind -> Nat]
  BY DEF ConstantsAssumption
<1>3. head \in Revision
  BY <1>1, <1>2, HeadFits
<1>4. \A p \in DOMAIN plates : plates[p].status \in {"none", "done"} /\ plates[p].id = 0
  BY <1>1, <1>2
<1>5. TypeOK
  <2>1. round \in [version : Nat, status : Statuses]
    BY <1>1, <1>2 DEF ConstantsAssumption, Statuses
  <2>2. plates \in Seq(Rows) /\ Len(plates) <= Limit
    <3>1. plates \in [1..s.plates -> Rows] /\ s.plates \in Nat
      BY <1>1, <1>2 DEF Rows, Statuses, ConstantsAssumption
    <3>2. plates \in Seq(Rows) /\ Len(plates) = s.plates
      BY <3>1
    <3>. QED  BY <1>2, <3>2 DEF ConstantsAssumption
  <2>3. declared \in SUBSET (Position \X SUBSET Code)
    <3>1. \A p \in Position : head.codes[p].confirmed \in SUBSET Code
      BY <1>3 DEF Revision, Package
    <3>. QED  BY <1>1, <3>1
  <2>4. request \in [Request -> RequestState] /\ worker \in [Worker -> WorkerState]
    BY <1>1, SlotsFit
  <2>5. intent \in Seq(Act) /\ paid \in Seq([Position -> Nat]) /\ Len(paid) = Len(intent)
    BY <1>1
  <2>. QED  BY <1>1, <1>2, <1>3, <2>1, <2>2, <2>3, <2>4, <2>5, Typed
<1>6. \A r \in Request : request[r].pc = "idle" /\ request[r].messages = {}
  BY <1>1 DEF Waiting
<1>7. \A w \in Worker : worker[w].pc = "idle"
  BY <1>1 DEF Free
<1>8. Owned
  BY <1>4 DEF Owned, InFlight
<1>9. Announced /\ Claimed /\ Apart
  BY <1>1, <1>6, <1>7 DEF Announced, Claimed, Claims, Apart, Working, Drawing
<1>10. Untouched /\ PaidOncePerCommand /\ NoCommandForgotten
  BY <1>1, <1>4 DEF Untouched, PaidOncePerCommand, NoCommandForgotten
<1>11. Sound
  <2>1. head.approval = Blank /\ head.workbook = Blank /\ head.links = {}
    BY <1>1 DEF HeadAt
  <2>2. Vouched(signed, declared, head)
    BY <1>1, <2>1 DEF Vouched, Unchained
  <2>. QED  BY <1>6, <2>2 DEF Sound, Served
<1>. QED  BY <1>5, <1>8, <1>9, <1>10, <1>11 DEF IInv, Commands

LEMMA Columns ==
    ASSUME TypeOK
    PROVE  /\ \A p \in DOMAIN plates : plates[p] \in Rows /\ p \in Nat \ {0} /\ p \in Position
           /\ DOMAIN plates = 1..Len(plates) /\ Len(plates) \in Nat
           /\ Len(intent) \in Nat /\ DOMAIN paid = 1..Len(intent)
           /\ \A e \in 1..Len(intent) : intent[e] \in Act /\ paid[e] \in [Position -> Nat]
           /\ \A w \in Worker : worker[w] \in WorkerState
           /\ \A r \in Request : request[r] \in RequestState
<1>1. plates \in Seq(Rows) /\ Len(plates) <= Limit
  BY Typed
<1>2. intent \in Seq(Act) /\ paid \in Seq([Position -> Nat]) /\ Len(paid) = Len(intent)
  BY Typed
<1>3. DOMAIN plates = 1..Len(plates) /\ Len(plates) \in Nat /\ \A p \in 1..Len(plates) : plates[p] \in Rows
  BY <1>1
<1>4. Limit \in Nat
  BY ConstantsAssumption DEF ConstantsAssumption
<1>5. \A p \in 1..Len(plates) : p \in Nat \ {0} /\ p \in Position
  BY <1>1, <1>3, <1>4 DEF Position
<1>6. Len(intent) \in Nat /\ DOMAIN paid = 1..Len(intent)
      /\ \A e \in 1..Len(intent) : intent[e] \in Act /\ paid[e] \in [Position -> Nat]
  BY <1>2
<1>7. worker \in [Worker -> WorkerState] /\ request \in [Request -> RequestState]
  BY Typed
<1>. QED  BY <1>3, <1>5, <1>6, <1>7

\* The messages of the queued row p.
Among(jobs, e, p) == Extraction(e, 0) \in jobs \/ Extraction(e, p) \in jobs

LEMMA Forgotten ==
    NoCommandForgotten <=>
        \A p \in DOMAIN plates :
            /\ plates[p].status = "queued" =>
                  \/ Among(queue, plates[p].id, p) \/ Among(lost, plates[p].id, p)
                  \/ \E r \in Request : Among(request[r].messages, plates[p].id, p)
            /\ plates[p].status = "running" =>
                  Among(lost, plates[p].id, p) \/ \E w \in Worker : Holds(w, p)
BY DEF NoCommandForgotten, Among

LEMMA ClaimsCarry ==
    ASSUME NEW d, NEW rows, NEW calls, NEW rev, NEW nextRows, NEW nextCalls, NEW nextRev,
           Claims(d, rows, calls, rev),
           d.pc = "claiming" => d.plate \in DOMAIN nextRows /\ nextRows[d.plate] = rows[d.plate],
           d.pc = "settling" /\ d.plate # 0 => nextRows[d.plate] = rows[d.plate],
           d.pc \in Working => d.plate \in 0..Len(nextRows),
           d.pc = "extracting" => nextCalls[d.job.id][d.plate] = calls[d.job.id][d.plate],
           d.pc = "declaring" => Drew(d, nextRev)
    PROVE  Claims(d, nextRows, nextCalls, nextRev)
BY DEF Claims

\* What the API does between two commits of commands: a row may be added, a message may go
\* from a request to the queue, or be lost, and may be published again.
LEMMA Undisturbed ==
    ASSUME TypeOK, Commands,
           UNCHANGED <<intent, worker, paid>>,
           head' = head \/ head'.version = head.version + 1,
           DOMAIN plates \subseteq DOMAIN plates',
           \A p \in DOMAIN plates' :
               \/ p \in DOMAIN plates /\ plates'[p] = plates[p]
               \/ p \notin DOMAIN plates /\ plates'[p] = [status |-> "none", id |-> 0],
           Len(plates) <= Len(plates'), Len(plates') \in Nat,
           queue \subseteq queue', lost \subseteq lost',
           \A job \in queue' : Known(intent, job),
           \A r \in Request : \A job \in request'[r].messages : Known(intent, job),
           \A r \in Request : \A job \in request[r].messages :
               job \in request'[r].messages \cup queue' \cup lost'
    PROVE  Commands'
<1>. USE Columns
<1>1. Owned'
  BY DEF Commands, Owned, InFlight
<1>2. Announced'
  BY DEF Commands, Announced
<1>3. Claimed'
  <2>. SUFFICES ASSUME NEW w \in Worker PROVE Claims(worker'[w], plates', paid', head')
    BY DEF Claimed
  <2>0. Claims(worker[w], plates, paid, head) /\ worker'[w] = worker[w] /\ worker[w] \in WorkerState
    BY DEF Commands, Claimed
  <2>1. PICK d \in WorkerState : d = worker[w]
    BY <2>0
  <2>2. head \in Revision
    BY Typed
  <2>3. head.version \in Nat
    BY <2>2 DEF Revision
  <2>4. d.plate \in Nat /\ d.at \in Nat /\ d.pc = d.pc
    <3>. Limit \in Nat
      BY ConstantsAssumption DEF ConstantsAssumption
    <3>. QED BY DEF WorkerState
  <2>5. d.pc = "claiming" => d.plate \in DOMAIN plates' /\ plates'[d.plate] = plates[d.plate]
    BY <2>0, <2>1 DEF Claims
  <2>6. d.pc = "settling" /\ d.plate # 0 =>
            d.plate \in DOMAIN plates' /\ plates'[d.plate] = plates[d.plate]
    BY <2>0, <2>1, <2>4 DEF Claims, Working
  <2>7. d.pc \in Working => d.plate \in 0..Len(plates')
    BY <2>0, <2>1, <2>4 DEF Claims
  <2>8. d.pc = "declaring" => Drew(d, head')
    BY <2>0, <2>1, <2>3, <2>4 DEF Claims, Drew
  <2>9. Claims(d, plates', paid', head')
    BY <2>0, <2>1, <2>5, <2>6, <2>7, <2>8, ClaimsCarry
  <2>. QED  BY <2>0, <2>1, <2>9
<1>4. Apart'
  BY DEF Commands, Apart
<1>5. Untouched'
  BY DEF Commands, Untouched
<1>6. PaidOncePerCommand'
  BY DEF Commands, PaidOncePerCommand
<1>7. NoCommandForgotten'
  <2>1. NoCommandForgotten
    BY DEF Commands
  <2>. SUFFICES ASSUME NEW p \in DOMAIN plates'
                PROVE  /\ plates'[p].status = "queued" =>
                             \/ Among(queue', plates'[p].id, p) \/ Among(lost', plates'[p].id, p)
                             \/ \E r \in Request : Among(request'[r].messages, plates'[p].id, p)
                       /\ plates'[p].status = "running" =>
                             Among(lost', plates'[p].id, p) \/ \E w \in Worker : Holds(w, p)'
    BY Forgotten DEF NoCommandForgotten, Among
  <2>2. CASE plates'[p].status = "queued"
    <3>1. p \in DOMAIN plates /\ plates'[p] = plates[p]
      BY <2>2
    <3>2. PICK e : e = plates[p].id
      OBVIOUS
    <3>3. \/ Among(queue, e, p) \/ Among(lost, e, p)
          \/ \E r \in Request : Among(request[r].messages, e, p)
      BY <2>1, <2>2, <3>1, <3>2, Forgotten
    <3>4. \/ Among(queue', e, p) \/ Among(lost', e, p)
          \/ \E r \in Request : Among(request'[r].messages, e, p)
      BY <3>3 DEF Among
    <3>. QED  BY <2>2, <3>1, <3>2, <3>4
  <2>3. CASE plates'[p].status = "running"
    <3>1. p \in DOMAIN plates /\ plates'[p] = plates[p]
      BY <2>3
    <3>2. Among(lost, plates[p].id, p) \/ \E w \in Worker : Holds(w, p)
      BY <2>1, <2>3, <3>1, Forgotten
    <3>3. CASE Among(lost, plates[p].id, p)
      BY <2>3, <3>1, <3>3 DEF Among
    <3>4. ASSUME NEW w \in Worker, Holds(w, p) PROVE Holds(w, p)'
      BY <3>1, <3>4 DEF Holds
    <3>. QED  BY <2>3, <3>2, <3>3, <3>4
  <2>. QED  BY <2>2, <2>3
<1>. QED  BY <1>1, <1>2, <1>3, <1>4, <1>5, <1>6, <1>7 DEF Commands

-----------------------------------------------------------------------------
(* The API.                                                                 *)

LEMMA VouchedMore ==
    ASSUME NEW signs, NEW moreSigns, NEW decls, NEW moreDecls, NEW rev,
           Vouched(signs, decls, rev), signs \subseteq moreSigns, decls \subseteq moreDecls
    PROVE  Vouched(moreSigns, moreDecls, rev)
BY DEF Vouched

\* A version more changes nothing of what is vouched for.
LEMMA VouchedAgain ==
    ASSUME NEW signs, NEW decls, NEW rev, NEW next, Vouched(signs, decls, rev),
           next.approval = rev.approval, next.workbook = rev.workbook,
           next.codes = rev.codes, next.links = rev.links
    PROVE  Vouched(signs, decls, next)
BY DEF Vouched

LEMMA ServedMore ==
    ASSUME NEW signs, NEW moreSigns, NEW decls, NEW moreDecls, NEW q,
           Served(q, signs, decls), signs \subseteq moreSigns, decls \subseteq moreDecls
    PROVE  Served(q, moreSigns, moreDecls)
BY VouchedMore DEF Served

\* A request that waits, or whose messages are on the way.
LEMMA ServedAnew ==
    ASSUME NEW signs, NEW decls
    PROVE  /\ Served(Waiting, signs, decls)
           /\ \A messages :
                 LET q == [Waiting EXCEPT !.pc = "enqueue", !.messages = messages]
                 IN  Served(q, signs, decls) /\ q.messages = messages
BY DEF Served, Waiting

LEMMA StoredKeeps ==
    ASSUME IInv, NEW r \in Request, request[r].pc = "ready",
           NEW rev \in Revision, NEW version \in Nat, NEW messages \in SUBSET Job,
           Stored(r, rev, version, messages),
           \A job \in messages : job.kind = "overlay",
           rev.version = head.version,
           signed \subseteq signed', signed' \in SUBSET Contents,
           declared \subseteq declared', declared' \in SUBSET (Position \X SUBSET Code),
           crossed' \in BOOLEAN,
           Commits(r) => Vouched(signed', declared', rev)
    PROVE  IInv'
<1>0. TypeOK /\ Commands /\ Sound
  BY DEF IInv
<1>1. /\ IF Commits(r)
         THEN /\ head' = [rev EXCEPT !.version = @ + 1]
              /\ round' = [round EXCEPT !.version = version]
              /\ request' = [request EXCEPT ![r] =
                    IF messages = {} THEN Waiting
                    ELSE [Waiting EXCEPT !.pc = "enqueue", !.messages = messages]]
         ELSE /\ request' = [request EXCEPT ![r] = Waiting]
              /\ UNCHANGED <<head, round>>
      /\ UNCHANGED <<plates, intent, queue, worker, paid, lost, left>>
  BY DEF Stored
<1>2. PICK q : /\ q \in RequestState /\ request' = [request EXCEPT ![r] = q]
               /\ Served(q, signed, declared) /\ q.pc \in {"idle", "enqueue"} /\ q.messages \subseteq messages
  <2>1. Waiting \in RequestState /\ Waiting.pc = "idle" /\ Waiting.messages = {}
    BY SlotsFit, ConstantsAssumption DEF Waiting
  <2>2. [Waiting EXCEPT !.pc = "enqueue", !.messages = messages] \in RequestState
    BY <2>1 DEF RequestState
  <2>3. [Waiting EXCEPT !.pc = "enqueue", !.messages = messages].pc = "enqueue"
    BY DEF Waiting
  <2>4. PICK e : e = [Waiting EXCEPT !.pc = "enqueue", !.messages = messages]
    OBVIOUS
  <2>5. e \in RequestState /\ Served(e, signed, declared) /\ e.pc = "enqueue" /\ e.messages = messages
    BY <2>2, <2>3, <2>4, ServedAnew
  <2>6. request' = [request EXCEPT ![r] = Waiting] \/ request' = [request EXCEPT ![r] = e]
    BY <1>1, <2>4
  <2>. QED  BY <2>1, <2>5, <2>6, ServedAnew
<1>3. PICK next : next = [rev EXCEPT !.version = @ + 1]
  OBVIOUS
<1>4. /\ next \in Revision /\ next.version = head.version + 1 /\ next.approval = rev.approval
      /\ next.workbook = rev.workbook /\ next.codes = rev.codes /\ next.links = rev.links
  BY <1>3 DEF Revision
<1>5. \/ head' = next /\ Commits(r)
      \/ head' = head
  BY <1>1, <1>3
<1>6. request \in [Request -> RequestState]
  BY <1>0, Typed
<1>7. \A k \in Request : request'[k] = IF k = r THEN q ELSE request[k]
  BY <1>2, <1>6
<1>8. TypeOK'
  <2>1. round' \in [version : Nat, status : Statuses]
    <3>. round \in [version : Nat, status : Statuses]
      BY <1>0, Typed
    <3>. QED  BY <1>1
  <2>2. head' \in Revision
    BY <1>0, <1>4, <1>5, Typed
  <2>3. request' \in [Request -> RequestState]
    BY <1>2, <1>6
  <2>. QED  BY <1>0, <1>1, <2>1, <2>2, <2>3, Typed, TypedNext
<1>9. Commands'
  <2>1. head' = head \/ head'.version = head.version + 1
    BY <1>4, <1>5
  <2>2. Announced /\ Served(request[r], signed, declared)
    BY <1>0 DEF Commands, Sound
  <2>3. request[r].messages = {}
    BY <2>2 DEF Served
  <2>4. \A k \in Request : \A job \in request'[k].messages : Known(intent, job)
    BY <1>2, <1>7, <2>2 DEF Announced, Known
  <2>5. \A k \in Request : \A job \in request[k].messages :
            job \in request'[k].messages \cup queue' \cup lost'
    BY <1>7, <2>3
  <2>6. \A job \in queue' : Known(intent, job)
    BY <1>1, <2>2 DEF Announced
  <2>7. UNCHANGED <<plates, intent, worker, paid, queue, lost>>
    BY <1>1
  <2>8. Len(plates) \in Nat
    BY <1>0, Columns
  <2>. QED  BY <1>0, <2>1, <2>4, <2>5, <2>6, <2>7, <2>8, Undisturbed
<1>10. Sound'
  <2>1. Vouched(signed', declared', head')
    <3>1. Vouched(signed, declared, head)
      BY <1>0 DEF Sound
    <3>2. CASE head' = head
      BY <3>1, <3>2, VouchedMore
    <3>3. CASE head' = next /\ Commits(r)
      BY <3>3, <1>4, VouchedAgain
    <3>. QED  BY <1>5, <3>2, <3>3
  <2>2. ASSUME NEW k \in Request PROVE Served(request'[k], signed', declared')
    BY <1>0, <1>2, <1>7, ServedMore DEF Sound
  <2>. QED  BY <2>1, <2>2 DEF Sound
<1>. QED  BY <1>8, <1>9, <1>10 DEF IInv

LEMMA AcceptedIsGranted ==
    ASSUME ConstantsAssumption, NEW a \in Act, NEW rev, NEW rows, Accepts(a, rev, rows)
    PROVE  Granted(a, rev, Len(rows))
<1>1. a.kind = "append" => Len(rows) < Limit
  BY DEF Accepts, MayAppend
<1>2. a.kind = "export" => MayExport(rev)
  BY DEF Accepts
<1>3. a.kind = "link" => MayLink(Link(a), rev.links)
  BY DEF Accepts
<1>4. a.kind \in {"confirm", "deny"} => \E p \in Position : a.on = {p}
  BY Bodies DEF Single
<1>5. a.kind = "confirm" => \E p \in a.on : MayConfirm(rev.codes[p], a.codes)
  BY DEF Accepts
<1>6. a.kind = "deny" => \E p \in a.on : MayDeny(rev.codes[p])
  BY DEF Accepts
<1>. QED  BY <1>1, <1>2, <1>3, <1>4, <1>5, <1>6 DEF Granted

\* A request that reads, or is refused, disturbs nothing.
LEMMA RequestMoves ==
    ASSUME IInv, NEW r \in Request, request[r].pc # "enqueue",
           NEW q \in RequestState, request' = [request EXCEPT ![r] = q],
           q.pc # "enqueue", Served(q, signed, declared), left' \in [Kind -> Nat],
           UNCHANGED <<rowVars, queue, worker, historyVars>>
    PROVE  IInv'
<1>0. TypeOK /\ Commands /\ Sound
  BY DEF IInv
<1>1. request \in [Request -> RequestState]
  BY <1>0, Typed
<1>2. \A k \in Request : request'[k] = IF k = r THEN q ELSE request[k]
  BY <1>1
<1>3. UNCHANGED <<round, plates, head, intent, queue, worker, paid, signed, lost, declared, crossed>>
  BY DEF rowVars, historyVars
<1>4. TypeOK'
  BY <1>0, <1>1, <1>3, Typed, TypedNext
<1>5. request[r].messages = {} /\ q.messages = {}
  BY <1>0 DEF Sound, Served
<1>6. Commands'
  <2>1. \A k \in Request : \A job \in request'[k].messages : Known(intent, job)
    BY <1>0, <1>2, <1>5 DEF Commands, Announced
  <2>2. \A k \in Request : \A job \in request[k].messages :
            job \in request'[k].messages \cup queue' \cup lost'
    BY <1>2, <1>5
  <2>3. \A job \in queue' : Known(intent, job)
    BY <1>0, <1>3 DEF Commands, Announced
  <2>4. Len(plates) \in Nat
    BY <1>0, Columns
  <2>. QED  BY <1>0, <1>3, <2>1, <2>2, <2>3, <2>4, Undisturbed
<1>7. Sound'
  BY <1>0, <1>2, <1>3 DEF Sound
<1>. QED  BY <1>4, <1>6, <1>7 DEF IInv

LEMMA LoadKeeps ==
    ASSUME IInv, NEW r \in Request, NEW act \in Act, Load(r, act)
    PROVE  IInv'
<1>0. TypeOK
  BY DEF IInv
<1>1. /\ request[r].pc = "idle"
      /\ left[act.kind] > 0
      /\ left' = [left EXCEPT ![act.kind] = @ - 1]
      /\ request' = [request EXCEPT ![r] =
                        [Waiting EXCEPT !.pc = "loaded", !.act = act, !.base = round.version]]
      /\ UNCHANGED <<rowVars, queue, worker, historyVars>>
  BY DEF Load, Idle
<1>2. PICK q : q = [Waiting EXCEPT !.pc = "loaded", !.act = act, !.base = round.version]
  OBVIOUS
<1>3. round.version \in Nat /\ left \in [Kind -> Nat]
  BY <1>0, Typed
<1>4. q \in RequestState
  BY <1>2, <1>3, SlotsFit, ConstantsAssumption DEF RequestState
<1>5. q.pc = "loaded" /\ q.act = act /\ q.messages = {}
  BY <1>2 DEF Waiting
<1>6. Served(q, signed, declared)
  BY <1>5 DEF Served
<1>7. left' \in [Kind -> Nat]
  BY <1>1, <1>3, Bodies, ConstantsAssumption
<1>. QED  BY <1>1, <1>2, <1>4, <1>5, <1>6, <1>7, RequestMoves

LEMMA ReadKeeps ==
    ASSUME IInv, NEW r \in Request, Read(r)
    PROVE  IInv'
<1>0. TypeOK /\ Sound
  BY DEF IInv
<1>1. PICK s : s = request[r]
  OBVIOUS
<1>2. PICK h : h = head
  OBVIOUS
<1>3. PICK n : n = Len(plates)
  OBVIOUS
<1>4. PICK next : next \in {"read", "ready"}
                  /\ next = IF s.act.kind \in {"append", "extract", "extractOne"}
                            THEN "ready" ELSE "read"
  OBVIOUS
<1>5. /\ s.pc = "loaded"
      /\ request' = [request EXCEPT ![r] =
            IF Accepts(s.act, head, plates)
            THEN [s EXCEPT !.pc = next, !.rows = n, !.view = h]
            ELSE Waiting]
      /\ left' = IF Accepts(s.act, head, plates) THEN left
                 ELSE [left EXCEPT ![s.act.kind] = @ + 1]
      /\ UNCHANGED <<rowVars, queue, worker, historyVars>>
  BY <1>1, <1>2, <1>3, <1>4, Typed, <1>0 DEF Read
<1>6. s \in RequestState /\ h \in Revision /\ n \in 0..Limit /\ left \in [Kind -> Nat]
  BY <1>0, <1>1, <1>2, <1>3, Typed, Columns
<1>7. Served(s, signed, declared) /\ Vouched(signed, declared, h)
  BY <1>0, <1>1, <1>2 DEF Sound
<1>8. s.act \in Act /\ s.messages = {}
  BY <1>5, <1>7 DEF Served
<1>9. CASE Accepts(s.act, head, plates)
  <2>1. PICK q : q = [s EXCEPT !.pc = next, !.rows = n, !.view = h]
    OBVIOUS
  <2>2. q \in RequestState /\ q.pc = next /\ q.rows = n /\ q.view = h /\ q.act = s.act
        /\ q.messages = {}
    BY <1>4, <1>6, <1>8, <2>1 DEF RequestState
  <2>3. Granted(s.act, h, n)
    BY <1>2, <1>3, <1>8, <1>9, AcceptedIsGranted, ConstantsAssumption
  <2>4. Served(q, signed, declared)
    BY <1>4, <1>7, <1>8, <2>2, <2>3 DEF Served
  <2>5. request' = [request EXCEPT ![r] = q] /\ left' = left
    BY <1>5, <1>9, <2>1
  <2>6. q.pc # "enqueue" /\ request[r].pc # "enqueue"
    BY <1>1, <1>4, <1>5, <2>2
  <2>7. q \in RequestState /\ left' \in [Kind -> Nat]
    BY <1>6, <2>2, <2>5
  <2>8. UNCHANGED <<rowVars, queue, worker, historyVars>>
    BY <1>5
  <2>. QED  BY <2>4, <2>5, <2>6, <2>7, <2>8, RequestMoves
<1>10. CASE ~Accepts(s.act, head, plates)
  <2>1. left' = [left EXCEPT ![s.act.kind] = @ + 1]
    BY <1>5, <1>10
  <2>2. left' \in [Kind -> Nat]
    BY <1>6, <1>8, <2>1, Bodies, ConstantsAssumption
  <2>3. request' = [request EXCEPT ![r] = Waiting]
    BY <1>5, <1>10
  <2>4. Waiting \in RequestState /\ Waiting.pc # "enqueue" /\ Served(Waiting, signed, declared)
    BY SlotsFit, ServedAnew, ConstantsAssumption DEF Waiting
  <2>. QED  BY <1>1, <1>5, <2>2, <2>3, <2>4, RequestMoves
<1>. QED  BY <1>9, <1>10

LEMMA CarryKeeps ==
    ASSUME IInv, NEW r \in Request, Carry(r)
    PROVE  IInv'
<1>0. TypeOK /\ Sound
  BY DEF IInv
<1>1. PICK s : s = request[r]
  OBVIOUS
<1>2. PICK v : v = head.version
  OBVIOUS
<1>3. PICK q : q = [s EXCEPT !.pc = "ready", !.at = v]
  OBVIOUS
<1>4. s \in RequestState /\ request \in [Request -> RequestState] /\ head \in Revision
  BY <1>0, <1>1, Typed
<1>5. v \in Nat /\ left \in [Kind -> Nat]
  BY <1>0, <1>2, <1>4, Typed DEF Revision
<1>6. /\ s.pc = "read" /\ request' = [request EXCEPT ![r] = q]
      /\ UNCHANGED <<rowVars, queue, worker, historyVars, left>>
  BY <1>1, <1>2, <1>3, <1>4 DEF Carry, RequestState
<1>7. q \in RequestState /\ q.pc = "ready" /\ q.rows = s.rows /\ q.view = s.view /\ q.act = s.act
      /\ q.messages = s.messages
  BY <1>3, <1>4, <1>5 DEF RequestState
<1>8. Served(s, signed, declared)
  BY <1>0, <1>1 DEF Sound
<1>9. Served(q, signed, declared)
  BY <1>6, <1>7, <1>8 DEF Served
<1>. QED  BY <1>1, <1>5, <1>6, <1>7, <1>9, RequestMoves

\* The frame of Sound when a request is left waiting.
LEMMA Answered ==
    ASSUME TypeOK, Sound, NEW r \in Request, NEW q \in RequestState,
           request' = [request EXCEPT ![r] = q], Served(q, signed, declared),
           UNCHANGED <<signed, declared, crossed>>, Vouched(signed, declared, head')
    PROVE  Sound'
<1>1. request \in [Request -> RequestState]
  BY Typed
<1>2. \A k \in Request : request'[k] = IF k = r THEN q ELSE request[k]
  BY <1>1
<1>. QED  BY <1>2 DEF Sound

LEMMA CommitPlateKeeps ==
    ASSUME IInv, NEW r \in Request, CommitPlate(r)
    PROVE  IInv'
<1>0. TypeOK /\ Commands /\ Sound
  BY DEF IInv
<1>. DEFINE row == [status |-> "none", id |-> 0]
<1>1. /\ request[r].pc = "ready" /\ request[r].act.kind = "append"
      /\ IF Len(plates) = request[r].rows
         THEN /\ plates' = Append(plates, row)
              /\ round' = [round EXCEPT !.version = NextVersion(r)]
         ELSE UNCHANGED <<plates, round>>
      /\ request' = [request EXCEPT ![r] = Waiting]
      /\ UNCHANGED <<head, intent, queue, worker, paid, signed, lost, declared, crossed, left>>
  BY DEF CommitPlate, Ready, historyVars
<1>2. /\ request \in [Request -> RequestState] /\ request[r] \in RequestState
      /\ plates \in Seq(Rows) /\ Len(plates) <= Limit /\ Len(plates) \in Nat
      /\ Waiting \in RequestState
  BY <1>0, Typed, SlotsFit, ConstantsAssumption
<1>3. Served(request[r], signed, declared)
  BY <1>0 DEF Sound
<1>4. request[r].rows < Limit /\ request[r].messages = {}
  BY <1>1, <1>3 DEF Served, Granted
<1>5. row \in Rows
  BY DEF Rows, Statuses
<1>6. /\ plates' \in Seq(Rows) /\ Len(plates') <= Limit /\ Len(plates') \in Nat
      /\ Len(plates) <= Len(plates')
      /\ DOMAIN plates \subseteq DOMAIN plates'
      /\ \A p \in DOMAIN plates' :
             \/ p \in DOMAIN plates /\ plates'[p] = plates[p]
             \/ p \notin DOMAIN plates /\ plates'[p] = row
  <2>1. CASE plates' = plates
    BY <1>2, <2>1
  <2>2. CASE plates' = Append(plates, row) /\ Len(plates) = request[r].rows
    <3>0. Limit \in Nat
      BY ConstantsAssumption DEF ConstantsAssumption
    <3>1. /\ Append(plates, row) \in Seq(Rows) /\ Len(Append(plates, row)) = Len(plates) + 1
          /\ \A p \in 1..Len(plates) : Append(plates, row)[p] = plates[p]
          /\ Append(plates, row)[Len(plates) + 1] = row
      BY <1>2, <1>5, AppendProperties
    <3>2. Len(plates) + 1 <= Limit
      BY <1>2, <1>4, <2>2, <3>0
    <3>3. DOMAIN plates = 1..Len(plates) /\ DOMAIN plates' = 1..(Len(plates) + 1)
      BY <1>2, <2>2, <3>1
    <3>4. ASSUME NEW p \in DOMAIN plates'
          PROVE  \/ p \in DOMAIN plates /\ plates'[p] = plates[p]
                 \/ p \notin DOMAIN plates /\ plates'[p] = row
      <4>1. p \in 1..Len(plates) \/ p = Len(plates) + 1
        BY <1>2, <3>3
      <4>. QED  BY <1>2, <2>2, <3>1, <3>3, <4>1
    <3>. QED  BY <1>2, <2>2, <3>1, <3>2, <3>3, <3>4
  <2>. QED  BY <1>1, <2>1, <2>2
<1>7. round' \in [version : Nat, status : Statuses]
  <2>1. round \in [version : Nat, status : Statuses]
    BY <1>0, Typed
  <2>2. NextVersion(r) \in Nat
    BY <1>2 DEF NextVersion, RequestState
  <2>. QED  BY <1>1, <2>1, <2>2
<1>8. request' \in [Request -> RequestState]
  BY <1>1, <1>2
<1>9. TypeOK'
  BY <1>0, <1>1, <1>6, <1>7, <1>8, Typed, TypedNext
<1>10. \A k \in Request : request'[k] = IF k = r THEN Waiting ELSE request[k]
  BY <1>1, <1>2
<1>11. Waiting.messages = {}
  BY DEF Waiting
<1>12. Commands'
  <2>1. \A k \in Request : \A job \in request'[k].messages : Known(intent, job)
    BY <1>0, <1>10, <1>11 DEF Commands, Announced
  <2>2. \A k \in Request : \A job \in request[k].messages :
            job \in request'[k].messages \cup queue' \cup lost'
    BY <1>4, <1>10
  <2>3. \A job \in queue' : Known(intent, job)
    BY <1>0, <1>1 DEF Commands, Announced
  <2>4. UNCHANGED <<intent, worker, paid, head, queue, lost>>
    BY <1>1
  <2>. QED  BY <1>0, <1>6, <2>1, <2>2, <2>3, <2>4, Undisturbed
<1>13. Sound'
  BY <1>0, <1>1, <1>2, ServedAnew, Answered DEF Sound
<1>. QED  BY <1>9, <1>12, <1>13 DEF IInv

LEMMA EnqueueKeeps ==
    ASSUME IInv, NEW r \in Request, Enqueue(r)
    PROVE  IInv'
<1>0. TypeOK /\ Commands /\ Sound
  BY DEF IInv
<1>1. /\ request' = [request EXCEPT ![r] = Waiting]
      /\ UNCHANGED <<round, plates, head, intent, worker, paid, signed, declared, crossed, left>>
  BY DEF Enqueue, rowVars
<1>2. PICK sent \in SUBSET request[r].messages :
          queue' = queue \cup sent /\ lost' = lost \cup (request[r].messages \ sent)
  BY DEF Enqueue
<1>3. /\ request \in [Request -> RequestState] /\ request[r] \in RequestState
      /\ Waiting \in RequestState /\ queue \in SUBSET Job /\ lost \in SUBSET Job
  BY <1>0, Typed, SlotsFit, ConstantsAssumption
<1>4. request[r].messages \in SUBSET Job
  BY <1>3 DEF RequestState
<1>5. TypeOK'
  <2>1. queue' \in SUBSET Job /\ lost' \in SUBSET Job
    BY <1>2, <1>3, <1>4
  <2>2. request' \in [Request -> RequestState]
    BY <1>1, <1>3
  <2>. QED  BY <1>0, <1>1, <2>1, <2>2, Typed, TypedNext
<1>6. \A k \in Request : request'[k] = IF k = r THEN Waiting ELSE request[k]
  BY <1>1, <1>3
<1>7. Waiting.messages = {}
  BY DEF Waiting
<1>8. Commands'
  <2>1. \A k \in Request : \A job \in request'[k].messages : Known(intent, job)
    BY <1>0, <1>6, <1>7 DEF Commands, Announced
  <2>2. \A k \in Request : \A job \in request[k].messages :
            job \in request'[k].messages \cup queue' \cup lost'
    BY <1>2, <1>6
  <2>3. \A job \in queue' : Known(intent, job)
    BY <1>0, <1>2 DEF Commands, Announced
  <2>4. Len(plates) \in Nat
    BY <1>0, Columns
  <2>5. queue \subseteq queue' /\ lost \subseteq lost'
    BY <1>2
  <2>. QED  BY <1>0, <1>1, <2>1, <2>2, <2>3, <2>4, <2>5, Undisturbed
<1>9. Sound'
  BY <1>0, <1>1, <1>3, ServedAnew, Answered DEF Sound
<1>. QED  BY <1>5, <1>8, <1>9 DEF IInv

\* The messages of a command are about it.
LEMMA MessagesKnown ==
    ASSUME ConstantsAssumption, NEW commands \in Seq(Act), NEW e \in 1..Len(commands)
    PROVE  \A job \in Messages(commands[e], e) : Known(commands, job)
<1>0. Len(commands) \in Nat
  OBVIOUS
<1>1. e \in Nat /\ e # 0 /\ commands[e] \in Act
  BY <1>0
<1>2. PICK a \in Act : a = commands[e]
  BY <1>1
<1>3. a.on \subseteq Position
  BY Bodies
<1>4. CASE a.kind = "extractOne"
  <2>1. Messages(a, e) = {Extraction(e, 0)} /\ a.on = {1}
    BY <1>1, <1>4, MessagesFit
  <2>. QED  BY <1>2, <2>1 DEF Known, Extraction
<1>5. CASE a.kind # "extractOne"
  <2>1. Messages(a, e) = {Extraction(e, p) : p \in a.on}
    BY <1>1, <1>5, MessagesFit
  <2>2. \A p \in a.on : p # 0
    BY <1>3 DEF Position
  <2>. QED  BY <1>2, <2>1, <2>2 DEF Known, Extraction
<1>. QED  BY <1>4, <1>5

LEMMA ReplayKeeps ==
    ASSUME IInv, NEW e \in 1..Len(intent), Replay(e)
    PROVE  IInv'
<1>0. TypeOK /\ Commands /\ Sound
  BY DEF IInv
<1>1. /\ left["replay"] > 0
      /\ left' = [left EXCEPT !["replay"] = @ - 1]
      /\ queue' = queue \cup Messages(intent[e], e)
      /\ UNCHANGED <<round, plates, head, intent, request, worker, paid, signed, lost, declared, crossed>>
  BY DEF Replay, rowVars, historyVars
<1>2. intent \in Seq(Act) /\ e \in Nat /\ intent[e] \in Act
  BY <1>0, Typed
<1>3. TypeOK'
  <2>1. left' \in [Kind -> Nat]
    <3>1. left \in [Kind -> Nat] /\ "replay" \in Kind
      BY <1>0, Typed DEF Kind
    <3>. QED  BY <1>1, <3>1
  <2>2. queue' \in SUBSET Job
    <3>1. Messages(intent[e], e) \in SUBSET Job
      BY <1>2, MessagesFit, ConstantsAssumption
    <3>. QED  BY <1>0, <1>1, <3>1, Typed
  <2>. QED  BY <1>0, <1>1, <2>1, <2>2, Typed, TypedNext
<1>4. Commands'
  <2>1. \A k \in Request : \A job \in request'[k].messages : Known(intent, job)
    BY <1>0, <1>1 DEF Commands, Announced
  <2>2. \A k \in Request : \A job \in request[k].messages :
            job \in request'[k].messages \cup queue' \cup lost'
    BY <1>1
  <2>3. \A job \in queue' : Known(intent, job)
    BY <1>0, <1>1, <1>2, MessagesKnown, ConstantsAssumption DEF Commands, Announced
  <2>4. Len(plates) \in Nat
    BY <1>0, Columns
  <2>5. queue \subseteq queue'
    BY <1>1
  <2>. QED  BY <1>0, <1>1, <2>1, <2>2, <2>3, <2>4, <2>5, Undisturbed
<1>5. Sound'
  BY <1>0, <1>1 DEF Sound
<1>. QED  BY <1>3, <1>4, <1>5 DEF IInv

LEMMA KnownMore ==
    ASSUME NEW commands \in Seq(Act), NEW a \in Act, NEW job, Known(commands, job)
    PROVE  Known(Append(commands, a), job)
<1>1. /\ Len(Append(commands, a)) = Len(commands) + 1 /\ Len(commands) \in Nat
      /\ \A i \in 1..Len(commands) : Append(commands, a)[i] = commands[i]
  BY AppendProperties
<1>. QED  BY <1>1 DEF Known

LEMMA CommitExtractionKeeps ==
    ASSUME IInv, NEW r \in Request, CommitExtraction(r)
    PROVE  IInv'
<1>0. TypeOK /\ Commands /\ Sound
  BY DEF IInv
<1>. DEFINE zeros == [p \in Position |-> 0]
<1>1. PICK a, e, on : a = request[r].act /\ e = Len(intent) + 1 /\ on = request[r].act.on
  OBVIOUS
<1>2. /\ request[r].pc = "ready" /\ a.kind \in {"extract", "extractOne"}
      /\ \A p \in on : ~Locked(p)
      /\ plates' = [p \in DOMAIN plates |->
                         IF p \in on THEN [status |-> "queued", id |-> e] ELSE plates[p]]
      /\ round' = [version |-> NextVersion(r), status |-> "queued"]
      /\ intent' = Append(intent, a)
      /\ paid' = Append(paid, zeros)
      /\ request' = [request EXCEPT ![r] =
            [Waiting EXCEPT !.pc = "enqueue", !.messages = Messages(a, e)]]
      /\ UNCHANGED <<head, queue, worker, signed, lost, declared, crossed, left>>
  BY <1>1 DEF CommitExtraction, Ready
<1>3. PICK q : q = [Waiting EXCEPT !.pc = "enqueue", !.messages = Messages(a, e)]
  OBVIOUS
<1>4. /\ request \in [Request -> RequestState] /\ request[r] \in RequestState
      /\ plates \in Seq(Rows) /\ Len(plates) <= Limit /\ Waiting \in RequestState
      /\ intent \in Seq(Act) /\ paid \in Seq([Position -> Nat]) /\ Len(paid) = Len(intent)
      /\ Len(intent) \in Nat /\ DOMAIN plates = 1..Len(plates) /\ Len(plates) \in Nat
  BY <1>0, Typed, SlotsFit, Columns, ConstantsAssumption
<1>5. Served(request[r], signed, declared)
  BY <1>0 DEF Sound
<1>6. a \in Act /\ on = a.on /\ request[r].messages = {} /\ e \in Nat
  BY <1>1, <1>2, <1>4, <1>5 DEF Served
<1>7. Messages(a, e) \in SUBSET Job
  BY <1>6, MessagesFit, ConstantsAssumption
<1>8. q \in RequestState /\ q.pc = "enqueue" /\ q.messages = Messages(a, e)
  BY <1>3, <1>4, <1>7 DEF RequestState
<1>9. request' = [request EXCEPT ![r] = q]
  BY <1>2, <1>3
<1>10. \A k \in Request : request'[k] = IF k = r THEN q ELSE request[k]
  BY <1>4, <1>9
<1>11. /\ intent' \in Seq(Act) /\ Len(intent') = e /\ intent'[e] = a
       /\ \A i \in 1..Len(intent) : intent'[i] = intent[i]
  BY <1>1, <1>2, <1>4, <1>6, AppendProperties
<1>12. /\ paid' \in Seq([Position -> Nat]) /\ Len(paid') = e /\ paid'[e] = zeros
       /\ \A i \in 1..Len(intent) : paid'[i] = paid[i]
  <2>1. zeros \in [Position -> Nat]
    OBVIOUS
  <2>. QED  BY <1>1, <1>2, <1>4, <2>1, AppendProperties
<1>13. /\ plates' \in Seq(Rows) /\ Len(plates') = Len(plates) /\ DOMAIN plates' = DOMAIN plates
       /\ \A p \in DOMAIN plates :
             plates'[p] = IF p \in on THEN [status |-> "queued", id |-> e] ELSE plates[p]
  <2>1. [status |-> "queued", id |-> e] \in Rows
    BY <1>6 DEF Rows, Statuses
  <2>2. plates' \in [1..Len(plates) -> Rows]
    BY <1>2, <1>4, <2>1
  <2>3. plates' \in Seq(Rows) /\ Len(plates') = Len(plates)
    BY <1>4, <2>2
  <2>. QED  BY <1>2, <2>3
<1>14. TypeOK'
  <2>1. round' \in [version : Nat, status : Statuses]
    <3>1. NextVersion(r) \in Nat
      BY <1>4 DEF NextVersion, RequestState
    <3>. QED  BY <1>2, <3>1 DEF Statuses
  <2>2. request' \in [Request -> RequestState]
    BY <1>4, <1>8, <1>9
  <2>. QED  BY <1>0, <1>2, <1>4, <1>11, <1>12, <1>13, <2>1, <2>2, Typed, TypedNext
<1>15. Owned'
  <2>1. Owned
    BY <1>0 DEF Commands
  <2>2. ASSUME NEW p \in DOMAIN plates
        PROVE  /\ InFlight(plates'[p]) => plates'[p].id # 0
               /\ plates'[p].id # 0 => plates'[p].id \in 1..Len(intent')
                                       /\ p \in intent'[plates'[p].id].on
    <3>1. CASE p \in on
      BY <3>1, <1>1, <1>4, <1>6, <1>11, <1>13
    <3>2. CASE p \notin on
      <4>1. plates'[p] = plates[p]
        BY <3>2, <1>13
      <4>2. plates[p].id # 0 => plates[p].id \in 1..Len(intent) /\ p \in intent[plates[p].id].on
        BY <2>1 DEF Owned
      <4>3. InFlight(plates[p]) => plates[p].id # 0
        BY <2>1 DEF Owned
      <4>4. 1..Len(intent) \subseteq 1..Len(intent')
        BY <1>1, <1>4, <1>11
      <4>. QED  BY <1>11, <4>1, <4>2, <4>3, <4>4
    <3>. QED  BY <3>1, <3>2
  <2>. QED  BY <1>13, <2>2 DEF Owned, InFlight
<1>16. Announced'
  <2>1. Announced
    BY <1>0 DEF Commands
  <2>2. \A job : Known(intent, job) => Known(intent', job)
    BY <1>2, <1>4, <1>6, KnownMore
  <2>3. \A job \in Messages(a, e) : Known(intent', job)
    <3>1. e \in 1..Len(intent')
      BY <1>1, <1>4, <1>11
    <3>2. PICK commands \in Seq(Act) : commands = intent'
      BY <1>11
    <3>3. \A job \in Messages(commands[e], e) : Known(commands, job)
      BY <3>1, <3>2, MessagesKnown, ConstantsAssumption
    <3>. QED  BY <1>11, <3>2, <3>3
  <2>4. \A job \in queue' : Known(intent', job)
    BY <1>2, <2>1, <2>2 DEF Announced
  <2>5. \A k \in Request : \A job \in request'[k].messages : Known(intent', job)
    BY <1>8, <1>10, <2>1, <2>2, <2>3 DEF Announced
  <2>6. \A w \in Worker : worker'[w].pc # "idle" => Known(intent', worker'[w].job)
    BY <1>2, <2>1, <2>2 DEF Announced
  <2>. QED  BY <2>4, <2>5, <2>6 DEF Announced
<1>17. \A w \in Worker :
          /\ worker[w].pc \in Working => worker[w].job.id \in 1..Len(intent) /\ worker[w].job.id # e
          /\ worker[w] \in WorkerState
  <2>1. \A w \in Worker : worker[w].pc \in Working => worker[w].job.kind = "extract"
    BY <1>0 DEF Commands, Claimed, Claims
  <2>2. \A w \in Worker : worker[w].pc \in Working => Known(intent, worker[w].job)
    BY <1>0 DEF Commands, Announced, Working
  <2>. QED  BY <1>0, <1>1, <1>4, <2>1, <2>2, Columns DEF Known
<1>18. Claimed'
  <2>. SUFFICES ASSUME NEW w \in Worker PROVE Claims(worker'[w], plates', paid', head')
    BY DEF Claimed
  <2>1. PICK d \in WorkerState : d = worker[w]
    BY <1>17
  <2>2. Claims(d, plates, paid, head) /\ worker'[w] = d /\ head' = head
    BY <1>0, <1>2, <2>1 DEF Commands, Claimed
  <2>3. d.plate \in 0..Limit /\ Limit \in Nat
    BY ConstantsAssumption DEF WorkerState, ConstantsAssumption
  <2>4. d.pc \in {"claiming", "settling"} => d.plate \notin on
    BY <1>2, <2>1 DEF Locked
  <2>5. d.pc = "claiming" => d.plate \in DOMAIN plates' /\ plates'[d.plate] = plates[d.plate]
    BY <1>13, <2>2, <2>4 DEF Claims
  <2>6. d.pc = "settling" /\ d.plate # 0 => plates'[d.plate] = plates[d.plate]
    BY <1>4, <1>13, <2>2, <2>3, <2>4 DEF Claims, Working
  <2>7. d.pc \in Working => d.plate \in 0..Len(plates')
    BY <1>13, <2>2 DEF Claims
  <2>8. d.pc = "extracting" => paid'[d.job.id][d.plate] = paid[d.job.id][d.plate]
    BY <1>12, <1>17, <2>1 DEF Working
  <2>9. d.pc = "declaring" => Drew(d, head')
    BY <2>2 DEF Claims
  <2>. QED  BY <2>2, <2>5, <2>6, <2>7, <2>8, <2>9, ClaimsCarry
<1>19. Apart'
  BY <1>0, <1>2 DEF Commands, Apart
<1>20. Untouched'
  <2>1. Untouched /\ Owned
    BY <1>0 DEF Commands
  <2>2. ASSUME NEW p \in DOMAIN plates, plates'[p].status = "queued"
        PROVE  /\ paid'[plates'[p].id][p] = 0
               /\ \A w \in Worker :
                     worker[w].pc \in Working /\ worker[w].job.id = plates'[p].id =>
                         Target(worker[w].job) # p
    <3>1. CASE p \in on
      <4>1. plates'[p].id = e
        BY <3>1, <1>13
      <4>2. p \in Position
        BY <1>0, Columns
      <4>. QED  BY <1>12, <1>17, <4>1, <4>2
    <3>2. CASE p \notin on
      <4>1. plates'[p] = plates[p]
        BY <3>2, <1>13
      <4>2. plates[p].id \in 1..Len(intent)
        BY <2>1, <2>2, <4>1 DEF Owned, InFlight
      <4>. QED  BY <1>12, <2>1, <2>2, <4>1, <4>2 DEF Untouched
    <3>. QED  BY <3>1, <3>2
  <2>. QED  BY <1>2, <1>13, <2>2 DEF Untouched
<1>21. PaidOncePerCommand'
  <2>1. ASSUME NEW c \in DOMAIN paid', NEW p \in Position PROVE paid'[c][p] <= 1
    <3>1. c \in 1..Len(intent) \/ c = e
      BY <1>1, <1>4, <1>12
    <3>2. c \in 1..Len(intent) => paid[c][p] <= 1
      BY <1>0, <1>4 DEF Commands, PaidOncePerCommand
    <3>. QED  BY <1>12, <3>1, <3>2
  <2>. QED  BY <2>1 DEF PaidOncePerCommand
<1>22. NoCommandForgotten'
  <2>1. NoCommandForgotten
    BY <1>0 DEF Commands
  <2>. SUFFICES ASSUME NEW p \in DOMAIN plates
                PROVE  /\ plates'[p].status = "queued" =>
                             \/ Among(queue', plates'[p].id, p) \/ Among(lost', plates'[p].id, p)
                             \/ \E k \in Request : Among(request'[k].messages, plates'[p].id, p)
                       /\ plates'[p].status = "running" =>
                             Among(lost', plates'[p].id, p) \/ \E w \in Worker : Holds(w, p)'
    BY <1>13 DEF NoCommandForgotten, Among
  <2>2. CASE p \in on
    <3>1. plates'[p] = [status |-> "queued", id |-> e]
      BY <2>2, <1>13
    <3>2. Among(Messages(a, e), e, p)
      <4>1. a.kind = "extractOne" => Messages(a, e) = {Extraction(e, 0)}
        BY <1>6, MessagesFit, ConstantsAssumption
      <4>2. a.kind # "extractOne" => Messages(a, e) = {Extraction(e, x) : x \in a.on}
        BY <1>6, MessagesFit, ConstantsAssumption
      <4>. QED  BY <1>6, <2>2, <4>1, <4>2 DEF Among
    <3>. QED  BY <1>8, <1>10, <3>1, <3>2
  <2>3. CASE p \notin on
    <3>1. plates'[p] = plates[p]
      BY <2>3, <1>13
    <3>2. CASE plates[p].status = "queued"
      <4>1. \/ Among(queue, plates[p].id, p) \/ Among(lost, plates[p].id, p)
            \/ \E k \in Request : Among(request[k].messages, plates[p].id, p)
        BY <2>1, <3>2, Forgotten
      <4>2. ~Among(request[r].messages, plates[p].id, p)
        BY <1>6 DEF Among
      <4>3. \A k \in Request : Among(request[k].messages, plates[p].id, p) =>
                               Among(request'[k].messages, plates[p].id, p)
        BY <1>10, <4>2
      <4>4. queue' = queue /\ lost' = lost
        BY <1>2
      <4>. QED  BY <3>1, <3>2, <4>1, <4>3, <4>4
    <3>3. CASE plates[p].status = "running"
      <4>1. Among(lost, plates[p].id, p) \/ \E w \in Worker : Holds(w, p)
        BY <2>1, <3>3, Forgotten
      <4>2. ASSUME NEW w \in Worker, Holds(w, p) PROVE Holds(w, p)'
        BY <1>2, <3>1, <4>2 DEF Holds
      <4>3. lost' = lost
        BY <1>2
      <4>. QED  BY <3>1, <3>3, <4>1, <4>2, <4>3
    <3>. QED  BY <3>1, <3>2, <3>3
  <2>. QED  BY <2>2, <2>3
<1>23. Sound'
  <2>1. Served(q, signed, declared)
    BY <1>8 DEF Served
  <2>. QED  BY <1>0, <1>2, <1>8, <1>9, <2>1, Answered DEF Sound
<1>. QED  BY <1>14, <1>15, <1>16, <1>18, <1>19, <1>20, <1>21, <1>22, <1>23 DEF IInv, Commands

\* What a request that is ready has in hand.
LEMMA InHand ==
    ASSUME IInv, NEW r \in Request, request[r].pc = "ready"
    PROVE  /\ request[r] \in RequestState /\ head \in Revision
           /\ request[r].act \in Act /\ request[r].view \in Revision
           /\ request[r].rows \in 0..Limit /\ NextVersion(r) \in Nat
           /\ round.version \in Nat
           /\ signed \in SUBSET Contents /\ declared \in SUBSET (Position \X SUBSET Code)
           /\ crossed \in BOOLEAN
           /\ Vouched(signed, declared, head)
           /\ Vouched(signed, declared, request[r].view)
           /\ Granted(request[r].act, request[r].view, request[r].rows)
<1>0. TypeOK /\ Sound
  BY DEF IInv
<1>1. request[r] \in RequestState
  BY <1>0, Columns
<1>2. round.version \in Nat
  BY <1>0, Typed
<1>3. Served(request[r], signed, declared) /\ Vouched(signed, declared, head)
  BY <1>0 DEF Sound
<1>. QED  BY <1>0, <1>1, <1>2, <1>3, Typed DEF Served, RequestState, NextVersion

LEMMA CommitDecisionKeeps ==
    ASSUME IInv, NEW r \in Request, CommitDecision(r)
    PROVE  IInv'
<1>1. PICK act, version, read : act = request[r].act /\ version = NextVersion(r)
                                /\ read = request[r].view.packets
  OBVIOUS
<1>2. PICK packet : packet = [rev |-> head.version + 1, open |-> act.kind = "decide",
                              reading |-> IF act.kind = "decide" THEN "proposed"
                                          ELSE IF act.kind = "decideAll" THEN "confirmed"
                                          ELSE "rejected"]
  OBVIOUS
<1>3. /\ request[r].pc = "ready"
      /\ act.kind \in {"decide", "decideAll", "rejectAll"}
      /\ signed' = signed /\ declared' = declared /\ crossed' = crossed
  BY <1>1 DEF CommitDecision, Ready
<1>4. PICK p \in act.on :
          Stored(r, [head EXCEPT !.packets = Rewritten(@, read, p, packet)], version,
                 IF p = 1 THEN {Overlay(packet.rev)} ELSE {})
  BY <1>1, <1>2 DEF CommitDecision, CommitRevision
<1>5. PICK rev, messages, h : /\ h = head
                              /\ rev = [h EXCEPT !.packets = Rewritten(h.packets, read, p, packet)]
                              /\ messages = IF p = 1 THEN {Overlay(packet.rev)} ELSE {}
  OBVIOUS
<1>6. h \in Revision /\ act \in Act /\ version \in Nat /\ read \in [Position -> Packets]
  BY <1>1, <1>3, <1>5, InHand DEF Revision
<1>7. packet \in Packets
  BY <1>2, <1>5, <1>6 DEF Packets, Revision
<1>8. p \in Position
  BY <1>4, <1>6, Bodies, ConstantsAssumption
<1>9. Rewritten(h.packets, read, p, packet) \in [Position -> Packets]
  <2>1. h.packets \in [Position -> Packets]
    BY <1>6 DEF Revision
  <2>. QED  BY <1>6, <1>7, <1>8, <2>1, RewrittenFits, ConstantsAssumption
<1>10. rev \in Revision
  BY <1>5, <1>6, <1>9, Revised
<1>11. /\ rev.version = h.version /\ rev.approval = h.approval /\ rev.workbook = h.workbook
       /\ rev.codes = h.codes /\ rev.links = h.links
  BY <1>5, <1>6 DEF Revision
<1>12. messages \in SUBSET Job /\ \A job \in messages : job.kind = "overlay"
  BY <1>5, <1>7, ConstantsAssumption DEF Overlay, Job, Packets, ConstantsAssumption
<1>13. Vouched(signed', declared', rev)
  <2>1. Vouched(signed, declared, h)
    BY <1>3, <1>5, InHand
  <2>. QED  BY <1>3, <1>11, <2>1, VouchedAgain
<1>14. Stored(r, rev, version, messages)
  BY <1>4, <1>5 DEF Stored
<1>15. /\ signed' \in SUBSET Contents /\ declared' \in SUBSET (Position \X SUBSET Code)
       /\ rev.version = head.version /\ crossed' \in BOOLEAN
  BY <1>3, <1>5, <1>11, InHand
<1>. QED  BY <1>3, <1>6, <1>10, <1>12, <1>13, <1>14, <1>15, StoredKeeps

LEMMA CommitSuggestionsKeeps ==
    ASSUME IInv, NEW r \in Request, CommitSuggestions(r)
    PROVE  IInv'
<1>1. PICK act, version, read :
          /\ act = request[r].act
          /\ version = IF act.kind = "suggest" THEN round.version ELSE NextVersion(r)
          /\ read = request[r].view.shortlist
  OBVIOUS
<1>2. PICK document : document = IF act.kind = "suggest" THEN "lexical" ELSE "recomputed"
  OBVIOUS
<1>3. /\ request[r].pc = "ready"
      /\ signed' = signed /\ declared' = declared /\ crossed' = crossed
  BY DEF CommitSuggestions, Ready
<1>4. PICK p \in act.on :
          Stored(r, [head EXCEPT !.shortlist = Rewritten(@, read, p, document)], version, {})
  BY <1>1, <1>2 DEF CommitSuggestions
<1>5. PICK rev, h : h = head /\ rev = [h EXCEPT !.shortlist = Rewritten(h.shortlist, read, p, document)]
  OBVIOUS
<1>. DEFINE Shortlists == [Position -> {"none", "lexical", "recomputed"}]
<1>6. h \in Revision /\ act \in Act /\ version \in Nat /\ read \in Shortlists
  BY <1>1, <1>3, <1>5, InHand DEF Revision
<1>7. p \in Position
  BY <1>4, <1>6, Bodies, ConstantsAssumption
<1>8. Rewritten(h.shortlist, read, p, document) \in Shortlists
  <2>1. h.shortlist \in Shortlists
    BY <1>6 DEF Revision
  <2>2. document \in {"none", "lexical", "recomputed"}
    BY <1>2
  <2>3. PICK S : S = {"none", "lexical", "recomputed"}
    OBVIOUS
  <2>4. h.shortlist \in [Position -> S] /\ read \in [Position -> S] /\ document \in S
    BY <1>6, <2>1, <2>2, <2>3
  <2>5. Rewritten(h.shortlist, read, p, document) \in [Position -> S]
    BY <1>7, <2>4, RewrittenFits, ConstantsAssumption
  <2>. QED  BY <2>3, <2>5
<1>9. rev \in Revision
  BY <1>5, <1>6, <1>8, Revised
<1>10. /\ rev.version = h.version /\ rev.approval = h.approval /\ rev.workbook = h.workbook
       /\ rev.codes = h.codes /\ rev.links = h.links
  BY <1>5, <1>6 DEF Revision
<1>11. Vouched(signed', declared', rev)
  <2>1. Vouched(signed, declared, h)
    BY <1>3, <1>5, InHand
  <2>. QED  BY <1>3, <1>10, <2>1, VouchedAgain
<1>12. Stored(r, rev, version, {})
  BY <1>4, <1>5 DEF Stored
<1>13. /\ signed' \in SUBSET Contents /\ declared' \in SUBSET (Position \X SUBSET Code)
       /\ rev.version = head.version /\ crossed' \in BOOLEAN
  BY <1>3, <1>5, <1>10, InHand
<1>. QED  BY <1>3, <1>6, <1>9, <1>11, <1>12, <1>13, StoredKeeps

\* What an act on a package leaves of it, and what it declares complete.
LEMMA PackageDecided ==
    ASSUME NEW act \in Act, act.kind \in {"confirm", "deny", "close", "revoke"},
           NEW s \in Package(Code), act.codes \in SUBSET Code,
           act.kind = "confirm" => MayConfirm(s, act.codes),
           act.kind = "deny" => MayDeny(s)
    PROVE  /\ Decided(act, s) \in Package(Code)
           /\ Decided(act, s).closed => act.kind = "close"
           /\ act.kind = "close" => Decided(act, s).confirmed = s.confirmed
<1>1. CASE act.kind = "confirm"
  BY <1>1, PackageActs DEF Decided, MayConfirm, IsComplete
<1>2. CASE act.kind = "deny"
  BY <1>2, PackageActs DEF Decided, MayDeny, IsComplete
<1>3. CASE act.kind = "close"
  BY <1>3, PackageActs DEF Decided
<1>4. CASE act.kind = "revoke"
  BY <1>4, PackageActs DEF Decided
<1>. QED  BY <1>1, <1>2, <1>3, <1>4

LEMMA CommitCodeKeeps ==
    ASSUME IInv, NEW r \in Request, CommitCode(r)
    PROVE  IInv'
<1>1. PICK act, version, read, h : act = request[r].act /\ version = NextVersion(r)
                                   /\ read = request[r].view.codes /\ h = head
  OBVIOUS
<1>2. /\ request[r].pc = "ready" /\ signed' = signed /\ crossed' = crossed
      /\ act.kind \in {"confirm", "deny", "close", "revoke"}
  BY <1>1 DEF CommitCode, Ready
<1>3. PICK p \in act.on :
          /\ Stored(r, [head EXCEPT !.codes = Rewritten(@, read, p, Decided(act, read[p]))],
                    version, {})
          /\ declared' = IF act.kind = "close" /\ Commits(r)
                         THEN declared \cup {<<p, read[p].confirmed>>} ELSE declared
  BY <1>1 DEF CommitCode, CommitRevision
<1>4. h \in Revision /\ act \in Act /\ version \in Nat /\ read \in [Position -> Package(Code)]
  BY <1>1, <1>2, InHand DEF Revision
<1>5. p \in Position /\ act.codes \in SUBSET Code
  BY <1>3, <1>4, Bodies, ConstantsAssumption
<1>6. PICK document : document = Decided(act, read[p])
  OBVIOUS
<1>7. /\ document \in Package(Code)
      /\ document.closed => act.kind = "close"
      /\ act.kind = "close" => document.confirmed = read[p].confirmed
  <2>1. Granted(act, request[r].view, request[r].rows)
    BY <1>1, <1>2, InHand
  <2>2. act.kind = "confirm" => MayConfirm(read[p], act.codes)
    BY <1>1, <1>3, <2>1 DEF Granted
  <2>3. act.kind = "deny" => MayDeny(read[p])
    BY <1>1, <1>3, <2>1 DEF Granted
  <2>4. read[p] \in Package(Code)
    BY <1>4, <1>5
  <2>. QED  BY <1>2, <1>4, <1>5, <1>6, <2>2, <2>3, <2>4, PackageDecided
<1>8. PICK codes : codes = Rewritten(h.codes, read, p, document)
  OBVIOUS
<1>9. PICK rev : rev = [h EXCEPT !.codes = codes]
  OBVIOUS
<1>10. /\ codes \in [Position -> Package(Code)]
       /\ \A x \in Position : codes[x] \in {h.codes[x], read[x]} \/ (x = p /\ codes[x] = document)
  <2>1. h.codes \in [Position -> Package(Code)]
    BY <1>4 DEF Revision
  <2>2. PICK S, column : S = Package(Code) /\ column = h.codes
    OBVIOUS
  <2>3. column \in [Position -> S] /\ read \in [Position -> S] /\ document \in S
    BY <1>4, <1>7, <2>1, <2>2
  <2>4. codes = Rewritten(column, read, p, document)
    BY <1>8, <2>2
  <2>5. Rewritten(column, read, p, document) \in [Position -> S]
    BY <1>5, <2>3, RewrittenFits, ConstantsAssumption
  <2>6. ASSUME NEW x \in Position
        PROVE  codes[x] \in {column[x], read[x]} \/ (x = p /\ codes[x] = document)
    <3>1. 1 \in Position
      BY ConstantsAssumption DEF Position, ConstantsAssumption
    <3>2. Rewritten(column, read, p, document) =
              IF p = 1 THEN [column EXCEPT ![1] = document]
              ELSE [read EXCEPT ![1] = column[1], ![p] = document]
      BY DEF Rewritten
    <3>. QED  BY <1>5, <2>3, <2>4, <3>1, <3>2
  <2>. QED  BY <2>2, <2>4, <2>5, <2>6
<1>11. rev \in Revision
  BY <1>4, <1>9, <1>10, Revised
<1>12. /\ rev.version = h.version /\ rev.approval = h.approval /\ rev.workbook = h.workbook
       /\ rev.codes = codes /\ rev.links = h.links
  BY <1>4, <1>9 DEF Revision
<1>13. declared \subseteq declared' /\ declared' \in SUBSET (Position \X SUBSET Code)
  <2>1. read[p].confirmed \in SUBSET Code
    BY <1>4, <1>5 DEF Package
  <2>2. declared \in SUBSET (Position \X SUBSET Code)
    BY <1>2, InHand
  <2>. QED  BY <1>3, <1>5, <2>1, <2>2
<1>14. ASSUME Commits(r) PROVE Vouched(signed', declared', rev)
  <2>1. Vouched(signed, declared, h) /\ Vouched(signed, declared, request[r].view)
    BY <1>1, <1>2, InHand
  <2>2. ASSUME NEW x \in Position, rev.codes[x].closed
        PROVE  <<x, rev.codes[x].confirmed>> \in declared'
    <3>1. CASE codes[x] = h.codes[x]
      BY <1>12, <1>13, <2>1, <2>2, <3>1 DEF Vouched
    <3>2. CASE codes[x] = read[x]
      BY <1>1, <1>12, <1>13, <2>1, <2>2, <3>2 DEF Vouched
    <3>3. CASE x = p /\ codes[x] = document
      BY <1>3, <1>7, <1>12, <1>14, <2>2, <3>3
    <3>. QED  BY <1>10, <3>1, <3>2, <3>3
  <2>3. Vouched(signed, declared', h)
    BY <1>13, <2>1, VouchedMore
  <2>. QED  BY <1>2, <1>12, <2>2, <2>3 DEF Vouched
<1>15. Stored(r, rev, version, {})
  BY <1>1, <1>3, <1>6, <1>8, <1>9 DEF Stored
<1>16. signed' \in SUBSET Contents /\ rev.version = head.version /\ crossed' \in BOOLEAN
  BY <1>1, <1>2, <1>12, InHand
<1>. QED  BY <1>2, <1>4, <1>11, <1>13, <1>14, <1>15, <1>16, StoredKeeps

LEMMA CommitLinkKeeps ==
    ASSUME IInv, NEW r \in Request, CommitLink(r)
    PROVE  IInv'
<1>1. PICK act, version, links, h, link :
          /\ act = request[r].act /\ version = NextVersion(r)
          /\ links = request[r].view.links /\ h = head /\ link = Link(request[r].act)
  OBVIOUS
<1>2. /\ request[r].pc = "ready"
      /\ signed' = signed /\ declared' = declared /\ crossed' = crossed
      /\ act.kind = "link"
  BY <1>1 DEF CommitLink, Ready
<1>3. Stored(r, [head EXCEPT !.links = links \cup {link}], version, {})
  BY <1>1 DEF CommitLink, CommitRevision
<1>4. h \in Revision /\ act \in Act /\ version \in Nat /\ links \in SUBSET Links
  BY <1>1, <1>2, InHand DEF Revision
<1>5. link \in Links /\ link.kept # link.discarded
  BY <1>1, <1>2, <1>4, LinkFits, ConstantsAssumption
<1>6. PICK rev : rev = [h EXCEPT !.links = links \cup {link}]
  OBVIOUS
<1>7. rev \in Revision
  BY <1>4, <1>5, <1>6, Revised
<1>8. /\ rev.version = h.version /\ rev.approval = h.approval /\ rev.workbook = h.workbook
      /\ rev.codes = h.codes /\ rev.links = links \cup {link}
  BY <1>4, <1>6 DEF Revision
<1>9. Unchained(links \cup {link})
  <2>1. Unchained(links) /\ MayLink(link, links)
    BY <1>1, <1>2, InHand DEF Vouched, Granted
  <2>2. /\ \A l \in links : link.discarded # l.kept /\ link.discarded # l.discarded
        /\ \A l \in links : link.kept # l.discarded
    BY <2>1 DEF MayLink
  <2>. QED  BY <2>1, <2>2 DEF Unchained
<1>10. Vouched(signed', declared', rev)
  BY <1>1, <1>2, <1>8, <1>9, InHand DEF Vouched
<1>11. Stored(r, rev, version, {})
  BY <1>1, <1>3, <1>6 DEF Stored
<1>12. /\ signed' \in SUBSET Contents /\ declared' \in SUBSET (Position \X SUBSET Code)
       /\ rev.version = head.version /\ crossed' \in BOOLEAN
  BY <1>1, <1>2, <1>8, InHand
<1>. QED  BY <1>2, <1>4, <1>7, <1>10, <1>11, <1>12, StoredKeeps

LEMMA CommitBulletinKeeps ==
    ASSUME IInv, NEW r \in Request, CommitBulletin(r)
    PROVE  IInv'
<1>1. PICK version, view, h, bulletin, matrix, stamp :
          /\ version = NextVersion(r) /\ view = request[r].view /\ h = head
          /\ matrix = Posted(request[r].act)
          /\ bulletin = Measured(request[r].view, request[r].rows, Posted(request[r].act))
          /\ stamp = Sources(request[r].view, request[r].rows, Posted(request[r].act))
  OBVIOUS
<1>2. /\ request[r].pc = "ready" /\ signed' = signed /\ declared' = declared
      /\ crossed' \in BOOLEAN
  BY DEF CommitBulletin, Ready
<1>3. Stored(r, [head EXCEPT !.bulletin = bulletin, !.matrix = matrix, !.stamp = stamp,
                             !.approval = view.approval, !.overlay = view.overlay], version, {})
  BY <1>1 DEF CommitBulletin, CommitRevision
<1>4. h \in Revision /\ view \in Revision /\ version \in Nat /\ matrix \in Matrices
      /\ bulletin \in Contents /\ stamp \in Stamps
  BY <1>1, <1>2, InHand, PostedFits, MeasuredFits, SourcesFit, ConstantsAssumption
<1>5. PICK rev : rev = [h EXCEPT !.bulletin = bulletin, !.matrix = matrix, !.stamp = stamp,
                                 !.approval = view.approval, !.overlay = view.overlay]
  OBVIOUS
<1>6. rev \in Revision
  BY <1>4, <1>5 DEF Revision
<1>7. /\ rev.version = h.version /\ rev.approval = view.approval /\ rev.workbook = h.workbook
      /\ rev.codes = h.codes /\ rev.links = h.links
  BY <1>4, <1>5 DEF Revision
<1>8. Vouched(signed', declared', rev)
  BY <1>1, <1>2, <1>7, InHand DEF Vouched
<1>9. Stored(r, rev, version, {})
  BY <1>1, <1>3, <1>5 DEF Stored
<1>10. /\ signed' \in SUBSET Contents /\ declared' \in SUBSET (Position \X SUBSET Code)
       /\ rev.version = head.version /\ crossed' \in BOOLEAN
  BY <1>1, <1>2, <1>7, InHand
<1>. QED  BY <1>2, <1>4, <1>6, <1>8, <1>9, <1>10, StoredKeeps

LEMMA CommitApprovalKeeps ==
    ASSUME IInv, NEW r \in Request, CommitApproval(r)
    PROVE  IInv'
<1>1. PICK version, read, h :
          version = NextVersion(r) /\ read = request[r].view.bulletin /\ h = head
  OBVIOUS
<1>2. /\ request[r].pc = "ready" /\ declared' = declared
      /\ signed' = IF Commits(r) THEN signed \cup {read} ELSE signed
  BY <1>1, InHand DEF CommitApproval, Ready
<1>3. Stored(r, [head EXCEPT !.bulletin = read, !.approval = read], version, {})
  BY <1>1 DEF CommitApproval, CommitRevision
<1>4. h \in Revision /\ read \in Contents /\ version \in Nat
  BY <1>1, <1>2, InHand DEF Revision
<1>5. PICK rev : rev = [h EXCEPT !.bulletin = read, !.approval = read]
  OBVIOUS
<1>6. rev \in Revision
  BY <1>4, <1>5 DEF Revision
<1>7. /\ rev.version = h.version /\ rev.approval = read /\ rev.workbook = h.workbook
      /\ rev.codes = h.codes /\ rev.links = h.links
  BY <1>4, <1>5 DEF Revision
<1>8. signed \subseteq signed' /\ signed' \in SUBSET Contents
  BY <1>2, <1>4, InHand
<1>9. Commits(r) => Vouched(signed', declared', rev)
  <2>1. Vouched(signed', declared, h)
    BY <1>1, <1>2, <1>8, InHand, VouchedMore
  <2>. QED  BY <1>2, <1>7, <2>1 DEF Vouched
<1>10. Stored(r, rev, version, {})
  BY <1>1, <1>3, <1>5 DEF Stored
<1>11. declared' \in SUBSET (Position \X SUBSET Code) /\ rev.version = head.version
  BY <1>1, <1>2, <1>7, InHand
<1>12. crossed' \in BOOLEAN
  BY InHand DEF CommitApproval
<1>13. request[r].pc = "ready" /\ crossed' \in BOOLEAN /\ declared \subseteq declared' /\ signed \subseteq signed'
       /\ signed' \in SUBSET Contents /\ declared' \in SUBSET (Position \X SUBSET Code)
       /\ rev.version = head.version /\ (Commits(r) => Vouched(signed', declared', rev))
  BY ONLY <1>2, <1>8, <1>9, <1>11, <1>12, Zenon
<1>. QED  BY ONLY IInv, <1>4, <1>6, <1>10, <1>13, StoredKeeps

LEMMA CommitExportKeeps ==
    ASSUME IInv, NEW r \in Request, CommitExport(r)
    PROVE  IInv'
<1>1. PICK version, view, h :
          version = NextVersion(r) /\ view = request[r].view /\ h = head
  OBVIOUS
<1>2. /\ request[r].pc = "ready" /\ signed' = signed /\ declared' = declared
      /\ request[r].act.kind = "export"
      /\ crossed' \in BOOLEAN
  BY InHand DEF CommitExport, Ready
<1>3. Stored(r, [head EXCEPT !.workbook = view.bulletin, !.stamp = view.stamp,
                             !.overlay = view.overlay], version, {})
  BY <1>1 DEF CommitExport, CommitRevision
<1>4. h \in Revision /\ view \in Revision /\ version \in Nat
  BY <1>1, <1>2, InHand
<1>5. PICK rev : rev = [h EXCEPT !.workbook = view.bulletin, !.stamp = view.stamp,
                                 !.overlay = view.overlay]
  OBVIOUS
<1>6. rev \in Revision
  BY <1>4, <1>5 DEF Revision
<1>7. /\ rev.version = h.version /\ rev.approval = h.approval /\ rev.workbook = view.bulletin
      /\ rev.codes = h.codes /\ rev.links = h.links
  BY <1>4, <1>5 DEF Revision
<1>8. view.bulletin \in signed
  <2>1. MayExport(view) /\ Vouched(signed, declared, view)
    BY <1>1, <1>2, InHand DEF Granted
  <2>. QED  BY <2>1 DEF MayExport, Vouched
<1>9. Vouched(signed', declared', rev)
  BY <1>1, <1>2, <1>7, <1>8, InHand DEF Vouched
<1>10. Stored(r, rev, version, {})
  BY <1>1, <1>3, <1>5 DEF Stored
<1>11. /\ signed' \in SUBSET Contents /\ declared' \in SUBSET (Position \X SUBSET Code)
       /\ rev.version = head.version /\ crossed' \in BOOLEAN
  BY <1>1, <1>2, <1>7, InHand
<1>. QED  BY <1>2, <1>4, <1>6, <1>9, <1>10, <1>11, StoredKeeps

LEMMA HandleKeeps ==
    ASSUME IInv, NEW r \in Request, Handle(r)
    PROVE  IInv'
BY ReadKeeps, CarryKeeps, EnqueueKeeps, CommitPlateKeeps, CommitExtractionKeeps,
   CommitDecisionKeeps, CommitSuggestionsKeeps, CommitCodeKeeps, CommitLinkKeeps,
   CommitBulletinKeeps, CommitApprovalKeeps, CommitExportKeeps
   DEF Handle

-----------------------------------------------------------------------------
(* The worker.                                                              *)

\* The row a delivery may write: claimed by it, or running for its command.
Writes(d, rows, p) ==
    /\ d.plate = p
    /\ \/ d.pc = "claiming"
       \/ d.pc \in Working /\ rows[p] = [status |-> "running", id |-> d.job.id]

\* No other delivery has that row open.
LEMMA HeldAlone ==
    ASSUME TypeOK, Commands, NEW w \in Worker, NEW v \in Worker, w # v,
           NEW p \in DOMAIN plates, Writes(worker[w], plates, p),
           worker[v].pc \in {"claiming", "settling"}
    PROVE  worker[v].plate # p
<1>1. PICK d \in WorkerState, f \in WorkerState : d = worker[w] /\ f = worker[v]
  BY Columns
<1>2. Claims(d, plates, paid, head) /\ Claims(f, plates, paid, head)
  BY <1>1 DEF Commands, Claimed
<1>3. p # 0
  BY Columns
<1>. SUFFICES ASSUME f.plate = p PROVE FALSE
  BY <1>1
<1>4. CASE d.pc = "claiming" /\ f.pc = "claiming"
  BY <1>1, <1>4 DEF Commands, Apart, Writes
<1>5. CASE d.pc = "claiming" /\ f.pc = "settling"
  <2>1. plates[p].status = "queued" /\ plates[p].status = "running"
    BY <1>1, <1>2, <1>3, <1>5 DEF Claims, Writes
  <2>. QED  BY <2>1
<1>6. CASE d.pc \in Working /\ f.pc = "claiming"
  <2>1. d.pc # "claiming"
    BY <1>6 DEF Working
  <2>2. plates[p].status = "queued" /\ plates[p].status = "running"
    BY <1>1, <1>2, <1>6, <2>1 DEF Claims, Writes
  <2>. QED  BY <2>2
<1>7. CASE d.pc \in Working /\ f.pc = "settling"
  <2>0. d.pc # "claiming" /\ f.pc \in Working
    BY <1>7 DEF Working
  <2>1. plates[p].id = d.job.id /\ plates[p].id = f.job.id
    BY <1>1, <1>2, <1>3, <1>7, <2>0 DEF Claims, Writes
  <2>2. p = Target(d.job) /\ p = Target(f.job)
    BY <1>1, <1>2, <1>3, <1>7, <2>0 DEF Claims, Writes
  <2>. QED  BY <1>1, <1>7, <2>0, <2>1, <2>2 DEF Commands, Apart
<1>. QED  BY <1>1, <1>4, <1>5, <1>6, <1>7 DEF Writes

\* A step of one delivery: it may write its row, call the provider for its plate, take its
\* message off the queue, write a revision, and is d afterwards.
LEMMA Moves ==
    ASSUME TypeOK, Commands, NEW w \in Worker, NEW d \in WorkerState,
           worker' = [worker EXCEPT ![w] = d], UNCHANGED <<intent, request>>,
           head \in Revision, head' = head \/ head'.version = head.version + 1,
           DOMAIN plates' = DOMAIN plates, Len(plates') = Len(plates),
           \A p \in DOMAIN plates :
               \/ plates'[p] = plates[p]
               \/ /\ Writes(worker[w], plates, p)
                  /\ plates'[p].id = plates[p].id /\ plates'[p].status # "queued"
                  /\ plates'[p].status = "running" =>
                        d.pc \in Working /\ d.plate = p /\ d.job.id = plates[p].id,
           DOMAIN paid' = DOMAIN paid,
           \A e \in DOMAIN paid, p \in Position :
               \/ paid'[e][p] = paid[e][p]
               \/ /\ worker[w].pc = "extracting" /\ d.pc # "extracting"
                  /\ e = worker[w].job.id /\ p = worker[w].plate /\ paid'[e][p] = 1,
           d.pc # "idle" => Known(intent, d.job),
           Claims(d, plates', paid', head'),
           d.pc \in Working =>
               \/ worker[w].pc \in Working /\ d.job = worker[w].job
               \/ /\ d.plate \in DOMAIN plates /\ plates[d.plate].status = "queued"
                  /\ plates[d.plate].id = d.job.id /\ Target(d.job) = d.plate
                  /\ plates'[d.plate].status # "queued",
           d.pc = "claiming" =>
               \A v \in Worker : worker[v].pc = "claiming" => worker[v].plate # d.plate,
           \A p \in DOMAIN plates :
               plates'[p] = plates[p] /\ plates[p].status = "running" /\ Holds(w, p) =>
                   \/ d.pc \in Working /\ d.plate = p /\ d.job = worker[w].job
                   \/ worker[w].job \in lost',
           lost \subseteq lost', queue' \subseteq queue,
           \A job \in queue \ queue' : \A p \in DOMAIN plates :
               plates'[p] = plates[p] /\ plates[p].status = "queued" =>
                   job # Extraction(plates[p].id, 0) /\ job # Extraction(plates[p].id, p)
    PROVE  Commands'
<1>. USE Columns
<1>0. Owned /\ Announced /\ Claimed /\ Apart /\ Untouched /\ PaidOncePerCommand
      /\ NoCommandForgotten
  BY DEF Commands
<1>1. worker \in [Worker -> WorkerState] /\ worker[w] \in WorkerState
  BY Typed
<1>2. worker'[w] = d /\ \A v \in Worker : v # w => worker'[v] = worker[v]
  BY <1>1
<1>3. PICK old \in WorkerState : old = worker[w]
  BY <1>1
<1>4. Claims(old, plates, paid, head)
  BY <1>0, <1>3 DEF Claimed
<1>5. Limit \in Nat /\ \A x \in WorkerState : x.plate \in Nat /\ x.at \in Nat
  BY ConstantsAssumption DEF ConstantsAssumption, WorkerState
<1>6. Owned'
  <2>1. ASSUME NEW p \in DOMAIN plates
        PROVE  /\ InFlight(plates'[p]) => plates'[p].id # 0
               /\ plates'[p].id # 0 => plates'[p].id \in 1..Len(intent)
                                       /\ p \in intent[plates'[p].id].on
    <3>1. CASE plates'[p] = plates[p]
      BY <1>0, <3>1 DEF Owned
    <3>2. CASE plates'[p].id = plates[p].id /\ Writes(worker[w], plates, p)
      <4>1. InFlight(plates[p])
        BY <1>3, <1>4, <3>2 DEF Writes, Claims, InFlight
      <4>. QED  BY <1>0, <3>2, <4>1 DEF Owned
    <3>. QED  BY <3>1, <3>2
  <2>. QED  BY <2>1 DEF Owned, InFlight
<1>7. Announced'
  <2>1. \A v \in Worker : worker'[v].pc # "idle" => Known(intent, worker'[v].job)
    BY <1>0, <1>2 DEF Announced
  <2>. QED  BY <1>0, <2>1 DEF Announced
<1>8. Claimed'
  <2>. SUFFICES ASSUME NEW v \in Worker PROVE Claims(worker'[v], plates', paid', head')
    BY DEF Claimed
  <2>1. CASE v = w
    BY <1>2, <2>1
  <2>2. CASE v # w
    <3>1. PICK f \in WorkerState : f = worker[v]
      OBVIOUS
    <3>2. Claims(f, plates, paid, head) /\ worker'[v] = f
      BY <1>0, <1>2, <2>2, <3>1 DEF Claimed
    <3>3. f.pc \in {"claiming", "settling"} =>
              \A p \in DOMAIN plates : f.plate = p => plates'[p] = plates[p]
      BY <2>2, <3>1, HeldAlone
    <3>4. f.pc = "claiming" => f.plate \in DOMAIN plates' /\ plates'[f.plate] = plates[f.plate]
      BY <3>2, <3>3 DEF Claims
    <3>5. f.pc = "settling" /\ f.plate # 0 => plates'[f.plate] = plates[f.plate]
      <4>1. f.pc = "settling" /\ f.plate # 0 => f.plate \in DOMAIN plates
        BY <1>5, <3>2 DEF Claims, Working
      <4>. QED  BY <3>3, <4>1
    <3>6. f.pc \in Working => f.plate \in 0..Len(plates')
      BY <3>2 DEF Claims
    <3>7. f.pc = "extracting" => paid'[f.job.id][f.plate] = paid[f.job.id][f.plate]
      <4>. SUFFICES ASSUME f.pc = "extracting"
                    PROVE  paid'[f.job.id][f.plate] = paid[f.job.id][f.plate]
        OBVIOUS
      <4>1. f.pc \in Working /\ f.pc # "idle" /\ f.pc # "settling"
        BY DEF Working
      <4>2. f.job.kind = "extract" /\ f.plate = Target(f.job)
        BY <3>2, <4>1 DEF Claims
      <4>3. f.job.id \in DOMAIN paid
        BY <1>0, <3>1, <4>1, <4>2 DEF Announced, Known
      <4>4. f.plate \in Position
        BY <4>2, <1>5, ConstantsAssumption DEF Target, Position, WorkerState, Job, ConstantsAssumption
      <4>5. CASE /\ old.pc = "extracting" /\ f.job.id = old.job.id /\ f.plate = old.plate
        <5>1. old.pc \in Working /\ old.plate = Target(old.job)
          BY <1>4, <4>5 DEF Claims, Working
        <5>2. worker[w].pc \in Working /\ worker[v].pc \in Working
              /\ worker[w].job.id = worker[v].job.id
          BY <1>3, <3>1, <4>1, <4>5, <5>1
        <5>3. Target(worker[w].job) # Target(worker[v].job)
          BY <1>0, <2>2, <5>2 DEF Apart
        <5>. QED  BY <1>3, <3>1, <4>2, <4>5, <5>1, <5>3
      <4>. QED  BY <1>3, <4>3, <4>4, <4>5
    <3>8. f.pc = "declaring" => Drew(f, head')
      <4>1. head.version \in Nat /\ f.at \in Nat
        BY <1>5 DEF Revision
      <4>. QED  BY <3>2, <4>1 DEF Claims, Drew
    <3>9. Claims(f, plates', paid', head')
      BY ONLY <3>2, <3>4, <3>5, <3>6, <3>7, <3>8, ClaimsCarry
    <3>. QED  BY <3>2, <3>9
  <2>. QED  BY <2>1, <2>2
<1>9. Apart'
  <2>. SUFFICES ASSUME NEW u \in Worker, NEW v \in Worker, u # v
                PROVE  /\ worker'[u].pc \in Working /\ worker'[v].pc \in Working
                             /\ worker'[u].job.id = worker'[v].job.id =>
                                   Target(worker'[u].job) # Target(worker'[v].job)
                       /\ worker'[u].pc = "claiming" /\ worker'[v].pc = "claiming" =>
                             worker'[u].plate # worker'[v].plate
    BY DEF Apart
  <2>1. ASSUME NEW x \in Worker, x # w, d.pc \in Working, worker[x].pc \in Working,
               worker[x].job.id = d.job.id
        PROVE  Target(worker[x].job) # Target(d.job)
    <3>1. CASE worker[w].pc \in Working /\ d.job = worker[w].job
      BY <1>0, <2>1, <3>1 DEF Apart
    <3>2. CASE /\ d.plate \in DOMAIN plates /\ plates[d.plate].status = "queued"
               /\ plates[d.plate].id = d.job.id /\ Target(d.job) = d.plate
      BY <1>0, <2>1, <3>2 DEF Untouched
    <3>. QED  BY <2>1, <3>1, <3>2
  <2>2. CASE u = w
    BY <1>2, <2>1, <2>2
  <2>3. CASE v = w
    BY <1>2, <2>1, <2>3
  <2>4. CASE u # w /\ v # w
    BY <1>0, <1>2, <2>4 DEF Apart
  <2>. QED  BY <2>2, <2>3, <2>4
<1>10. Untouched'
  <2>1. ASSUME NEW p \in DOMAIN plates, plates'[p].status = "queued"
        PROVE  /\ paid'[plates'[p].id][p] = 0
               /\ \A v \in Worker :
                     worker'[v].pc \in Working /\ worker'[v].job.id = plates'[p].id =>
                         Target(worker'[v].job) # p
    <3>1. plates'[p] = plates[p]
      BY <2>1
    <3>2. PICK e : e = plates[p].id
      OBVIOUS
    <3>3. e \in DOMAIN paid /\ p \in Position
      BY <1>0, <2>1, <3>1, <3>2 DEF Owned, InFlight
    <3>4. /\ paid[e][p] = 0
          /\ \A v \in Worker : worker[v].pc \in Working /\ worker[v].job.id = e =>
                                   Target(worker[v].job) # p
      BY <1>0, <2>1, <3>1, <3>2 DEF Untouched
    <3>5. ~(worker[w].pc = "extracting" /\ e = worker[w].job.id /\ p = worker[w].plate)
      BY <1>3, <1>4, <3>4 DEF Claims, Working
    <3>6. d.pc \in Working /\ d.job.id = e => Target(d.job) # p
      <4>1. CASE worker[w].pc \in Working /\ d.job = worker[w].job
        BY <3>4, <4>1
      <4>2. CASE Target(d.job) = d.plate /\ plates'[d.plate].status # "queued"
        BY <2>1, <4>2
      <4>. QED  BY <4>1, <4>2
    <3>7. paid'[e][p] = 0
      BY <3>3, <3>4, <3>5
    <3>8. \A v \in Worker : worker'[v].pc \in Working /\ worker'[v].job.id = e =>
                                Target(worker'[v].job) # p
      BY <1>2, <3>4, <3>6
    <3>. QED  BY <3>1, <3>2, <3>7, <3>8
  <2>. QED  BY <2>1 DEF Untouched
<1>11. PaidOncePerCommand'
  <2>1. ASSUME NEW e \in DOMAIN paid, NEW p \in Position PROVE paid'[e][p] <= 1
    <3>1. paid[e][p] <= 1
      BY <1>0 DEF PaidOncePerCommand
    <3>2. CASE paid'[e][p] = paid[e][p]
      BY <3>1, <3>2
    <3>3. CASE paid'[e][p] = 1
      BY <3>3
    <3>. QED  BY <3>2, <3>3
  <2>. QED  BY <2>1 DEF PaidOncePerCommand
<1>12. NoCommandForgotten'
  <2>. SUFFICES ASSUME NEW p \in DOMAIN plates
                PROVE  /\ plates'[p].status = "queued" =>
                             \/ Among(queue', plates'[p].id, p) \/ Among(lost', plates'[p].id, p)
                             \/ \E k \in Request : Among(request'[k].messages, plates'[p].id, p)
                       /\ plates'[p].status = "running" =>
                             Among(lost', plates'[p].id, p) \/ \E v \in Worker : Holds(v, p)'
    BY DEF NoCommandForgotten, Among
  <2>1. CASE plates'[p].status = "queued"
    <3>1. plates'[p] = plates[p]
      BY <2>1
    <3>2. \/ Among(queue, plates[p].id, p) \/ Among(lost, plates[p].id, p)
          \/ \E k \in Request : Among(request[k].messages, plates[p].id, p)
      BY <1>0, <2>1, <3>1, Forgotten
    <3>3. Among(queue, plates[p].id, p) => Among(queue', plates[p].id, p)
      BY <2>1, <3>1 DEF Among
    <3>4. Among(lost, plates[p].id, p) => Among(lost', plates[p].id, p)
      BY DEF Among
    <3>. QED  BY <2>1, <3>1, <3>2, <3>3, <3>4
  <2>2. CASE plates'[p].status = "running"
    <3>1. CASE plates'[p] = plates[p]
      <4>0. PICK e : e = plates[p].id
        OBVIOUS
      <4>1. Among(lost, e, p) \/ \E v \in Worker : Holds(v, p)
        BY <1>0, <2>2, <3>1, <4>0, Forgotten
      <4>2. CASE Among(lost, e, p)
        BY <2>2, <3>1, <4>0, <4>2 DEF Among
      <4>3. ASSUME NEW v \in Worker, Holds(v, p), v # w PROVE Holds(v, p)'
        BY <1>2, <3>1, <4>3 DEF Holds
      <4>4. CASE Holds(w, p)
        <5>1. CASE d.pc \in Working /\ d.plate = p /\ d.job = worker[w].job
          <6>1. Holds(w, p)'
            BY <1>2, <3>1, <4>4, <5>1 DEF Holds, Working
          <6>. QED  BY <2>2, <6>1
        <5>2. CASE worker[w].job \in lost'
          <6>1. old.pc \in Working /\ old.plate = p /\ old.job.id = e
            BY <1>3, <4>0, <4>4 DEF Holds, Working
          <6>2. old.job.kind = "extract" /\ Target(old.job) = p /\ old.job \in Job
            BY <1>4, <6>1, Columns DEF Claims, WorkerState
          <6>3. old.job = Extraction(e, old.job.plate)
            BY <6>1, <6>2 DEF Job, Extraction
          <6>4. old.job.plate \in {0, p}
            BY <6>2 DEF Target
          <6>5. Among(lost', e, p)
            BY <1>3, <5>2, <6>3, <6>4 DEF Among
          <6>. QED  BY <2>2, <3>1, <4>0, <6>5
        <5>. QED  BY <2>2, <3>1, <4>4, <5>1, <5>2
      <4>. QED  BY <2>2, <4>1, <4>2, <4>3, <4>4
    <3>2. CASE /\ plates'[p].id = plates[p].id
               /\ d.pc \in Working /\ d.plate = p /\ d.job.id = plates[p].id
      <4>1. Holds(w, p)'
        BY <1>2, <3>2 DEF Holds, Working
      <4>. QED  BY <2>2, <4>1
    <3>. QED  BY <2>2, <3>1, <3>2
  <2>. QED  BY <2>1, <2>2
<1>. QED  BY <1>6, <1>7, <1>8, <1>9, <1>10, <1>11, <1>12 DEF Commands

\* The rest of the state around a step of a delivery.
LEMMA Worked ==
    ASSUME IInv, NEW w \in Worker, NEW d \in WorkerState,
           worker' = [worker EXCEPT ![w] = d], UNCHANGED <<intent, request, signed, declared, crossed>>,
           round' \in [version : Nat, status : Statuses],
           plates' \in Seq(Rows), Len(plates') = Len(plates),
           head' \in Revision, Vouched(signed, declared, head'),
           queue' \subseteq queue, lost' \in SUBSET Job,
           paid' \in Seq([Position -> Nat]), Len(paid') = Len(paid),
           left' \in [Kind -> Nat], Commands'
    PROVE  IInv'
<1>0. TypeOK /\ Sound
  BY DEF IInv
<1>1. worker' \in [Worker -> WorkerState]
  BY <1>0, Typed
<1>2. TypeOK'
  BY <1>0, <1>1, Typed, TypedNext
<1>3. Sound'
  BY <1>0 DEF Sound
<1>. QED  BY <1>2, <1>3 DEF IInv

LEMMA MirrorFits ==
    ASSUME TypeOK, NEW rows
    PROVE  Mirror(rows) \in Statuses
<1>1. round.status \in Statuses
  BY Typed
<1>. QED  BY <1>1 DEF Mirror, Statuses

\* Only the status of that row changes.
LEMMA RowSet ==
    ASSUME TypeOK, NEW p \in DOMAIN plates, NEW status \in Statuses
    PROVE  /\ SetRow(p, status) \in Seq(Rows) /\ Len(SetRow(p, status)) = Len(plates)
           /\ DOMAIN SetRow(p, status) = DOMAIN plates
           /\ SetRow(p, status)[p] = [status |-> status, id |-> plates[p].id]
           /\ \A q \in DOMAIN plates : q # p => SetRow(p, status)[q] = plates[q]
<1>1. plates \in Seq(Rows) /\ plates[p] \in Rows /\ Len(plates) \in Nat
      /\ DOMAIN plates = 1..Len(plates) /\ \A q \in DOMAIN plates : plates[q] \in Rows
  BY Typed, Columns
<1>2. [plates[p] EXCEPT !.status = status] = [status |-> status, id |-> plates[p].id]
  BY <1>1 DEF Rows
<1>3. [status |-> status, id |-> plates[p].id] \in Rows
  BY <1>1 DEF Rows
<1>4. SetRow(p, status) = [plates EXCEPT ![p] = [status |-> status, id |-> plates[p].id]]
  BY <1>2 DEF SetRow
<1>5. SetRow(p, status) \in [1..Len(plates) -> Rows]
  BY <1>1, <1>3, <1>4
<1>6. SetRow(p, status) \in Seq(Rows) /\ Len(SetRow(p, status)) = Len(plates)
  BY <1>1, <1>5
<1>. QED  BY <1>1, <1>4, <1>6

\* What a delivery has claimed, in the terms of the state.
LEMMA AtWork ==
    ASSUME IInv, NEW w \in Worker
    PROVE  /\ worker[w] \in WorkerState /\ Claims(worker[w], plates, paid, head)
           /\ worker[w].pc # "idle" => Known(intent, worker[w].job)
           /\ TypeOK /\ Commands /\ head \in Revision /\ Vouched(signed, declared, head)
           /\ round \in [version : Nat, status : Statuses]
           /\ plates \in Seq(Rows) /\ queue \in SUBSET Job /\ lost \in SUBSET Job
           /\ paid \in Seq([Position -> Nat]) /\ left \in [Kind -> Nat]
           /\ worker \in [Worker -> WorkerState]
<1>0. TypeOK /\ Commands /\ Sound
  BY DEF IInv
<1>. QED  BY <1>0, Typed, Columns DEF Commands, Claimed, Announced, Sound

\* The message a delivery acknowledges is not the one a queued plate waits for.
LEMMA AckIsSafe ==
    ASSUME IInv, NEW w \in Worker, worker[w].pc \in Working \cup Drawing,
           NEW p \in DOMAIN plates, plates[p].status = "queued"
    PROVE  worker[w].job # Extraction(plates[p].id, 0) /\ worker[w].job # Extraction(plates[p].id, p)
<1>1. PICK d \in WorkerState, e \in Nat : d = worker[w] /\ e = plates[p].id
  BY AtWork, Columns DEF Rows
<1>2. Claims(d, plates, paid, head) /\ Untouched /\ Owned /\ TypeOK
      /\ (d.pc # "idle" => Known(intent, d.job))
  BY <1>1, AtWork DEF Commands
<1>3. d.pc # "idle"
  BY <1>1 DEF Working, Drawing
<1>. SUFFICES ASSUME NEW x \in {0, p}, d.job = Extraction(e, x) PROVE FALSE
  BY <1>1
<1>4. d.job.kind = "extract" /\ d.job.id = e /\ d.job.plate = x
  BY DEF Extraction
<1>5. d.pc \in Working
  BY <1>1, <1>2, <1>4 DEF Claims
<1>6. e \in 1..Len(intent) /\ p \in intent[e].on
  BY <1>1, <1>2 DEF Owned, InFlight
<1>7. Target(d.job) = p
  <2>1. CASE x = 0
    BY <1>2, <1>3, <1>4, <1>6, <2>1 DEF Known, Target
  <2>2. CASE x = p
    <3>1. p # 0
      BY <1>2, Columns
    <3>. QED  BY <1>4, <2>2, <3>1 DEF Target
  <2>. QED  BY <2>1, <2>2
<1>. QED  BY <1>1, <1>2, <1>4, <1>5, <1>7 DEF Untouched

LEMMA ClaimKeeps ==
    ASSUME IInv, NEW w \in Worker, NEW job \in queue, Claim(w, job)
    PROVE  IInv'
<1>0. TypeOK /\ Commands /\ Owned /\ Announced
  BY DEF IInv, Commands
<1>1. PICK p \in Claimable(job) :
          /\ ~Locked(p)
          /\ worker' = [worker EXCEPT ![w] =
                [Free EXCEPT !.pc = "claiming", !.job = job, !.plate = p,
                             !.mirror = Mirror(SetRow(p, "running"))]]
  BY DEF Claim, Put
<1>2. worker[w].pc = "idle" /\ job.kind = "extract"
      /\ UNCHANGED <<round, plates, head, intent, request, queue, paid, signed, lost, declared, crossed, left>>
  BY DEF Claim, Idle, rowVars, historyVars
<1>3. p \in DOMAIN plates /\ plates[p] = [status |-> "queued", id |-> job.id] /\ job.plate \in {0, p}
  BY <1>1 DEF Claimable
<1>4. p \in 1..Limit /\ job \in Job /\ Known(intent, job)
  BY <1>0, <1>3, Columns, Typed DEF Announced, Position
<1>5. p = Target(job)
  <2>1. CASE job.plate = 0
    <3>1. p \in intent[job.id].on
      BY <1>0, <1>3 DEF Owned, InFlight
    <3>2. intent[job.id].on = {1}
      BY <1>2, <1>4, <2>1 DEF Known
    <3>. QED  BY <2>1, <3>1, <3>2 DEF Target
  <2>2. CASE job.plate = p
    BY <1>4, <2>2 DEF Target
  <2>. QED  BY <1>3, <2>1, <2>2
<1>6. PICK m \in Statuses : m = Mirror(SetRow(p, "running"))
  BY <1>0, MirrorFits
<1>7. PICK d : d = [Free EXCEPT !.pc = "claiming", !.job = job, !.plate = p, !.mirror = m]
  OBVIOUS
<1>8. d \in WorkerState /\ d.pc = "claiming" /\ d.job = job /\ d.plate = p
  <2>1. Limit \in Nat
    BY ConstantsAssumption DEF ConstantsAssumption
  <2>2. d = [pc |-> "claiming", job |-> job, plate |-> p, mirror |-> m, at |-> 0, tries |-> 0]
    BY <1>7 DEF Free
  <2>. QED  BY <1>4, <2>1, <2>2 DEF WorkerState
<1>9. worker' = [worker EXCEPT ![w] = d]
  BY <1>1, <1>6, <1>7
<1>10. Claims(d, plates', paid', head')
  BY <1>2, <1>3, <1>5, <1>8 DEF Claims, Working, Drawing
<1>11. d.pc = "claiming" =>
           \A v \in Worker : worker[v].pc = "claiming" => worker[v].plate # d.plate
  BY <1>1, <1>8 DEF Locked
<1>12. \A q \in DOMAIN plates : ~Holds(w, q)
  BY <1>2 DEF Holds
<1>13. d.pc \notin Working /\ (d.pc # "idle" => Known(intent, d.job))
  BY <1>4, <1>8 DEF Working
<1>14. Commands'
  <2>1. head \in Revision
    BY <1>0, Typed
  <2>. QED  BY <1>0, <1>2, <1>8, <1>9, <1>10, <1>11, <1>12, <1>13, <2>1, Moves
<1>. QED  BY <1>2, <1>8, <1>9, <1>14, AtWork, Worked

LEMMA NothingClaimedKeeps ==
    ASSUME IInv, NEW w \in Worker, NEW job \in queue, NothingClaimed(w, job)
    PROVE  IInv'
<1>0. TypeOK /\ Commands
  BY DEF IInv
<1>1. /\ worker[w].pc = "idle" /\ job.kind = "extract" /\ Claimable(job) = {}
      /\ queue' = queue \ {job}
      /\ UNCHANGED <<round, plates, head, intent, request, worker, paid, signed, lost, declared, crossed, left>>
  BY DEF NothingClaimed, Idle, rowVars, historyVars
<1>2. PICK d \in WorkerState : d = worker[w]
  BY AtWork
<1>3. worker' = [worker EXCEPT ![w] = d]
  <2>1. worker \in [Worker -> WorkerState]
    BY AtWork
  <2>. QED  BY <1>1, <1>2, <2>1
<1>4. Claims(d, plates', paid', head')
  BY <1>1, <1>2, AtWork
<1>5. \A p \in DOMAIN plates : ~Holds(w, p)
  BY <1>1 DEF Holds
<1>6. d.pc = "idle" /\ d.pc \notin Working
  BY <1>1, <1>2 DEF Working
<1>7. ASSUME NEW p \in DOMAIN plates, plates[p].status = "queued"
      PROVE  job # Extraction(plates[p].id, 0) /\ job # Extraction(plates[p].id, p)
  <2>1. plates[p] \in Rows
    BY <1>0, Columns
  <2>. SUFFICES ASSUME NEW x \in {0, p}, job = Extraction(plates[p].id, x) PROVE FALSE
    OBVIOUS
  <2>2. job.id = plates[p].id /\ job.plate = x
    BY DEF Extraction
  <2>3. plates[p] = [status |-> "queued", id |-> job.id]
    BY <1>7, <2>1, <2>2 DEF Rows
  <2>4. p \in Claimable(job)
    BY <2>2, <2>3 DEF Claimable
  <2>. QED  BY <1>1, <2>4
<1>8. Commands'
  <2>1. head \in Revision
    BY <1>0, Typed
  <2>. QED  BY <1>0, <1>1, <1>3, <1>4, <1>5, <1>6, <1>7, <2>1, Moves
<1>. QED  BY <1>1, <1>3, <1>8, AtWork, Worked

LEMMA ClaimCommitKeeps ==
    ASSUME IInv, NEW w \in Worker, ClaimCommit(w)
    PROVE  IInv'
<1>0. TypeOK /\ Commands /\ Untouched
  BY DEF IInv, Commands
<1>1. PICK old \in WorkerState : old = worker[w]
  BY AtWork
<1>2. PICK d : d = [old EXCEPT !.pc = "extracting", !.mirror = "none"]
  OBVIOUS
<1>3. /\ old.pc = "claiming"
      /\ plates' = SetRow(old.plate, "running")
      /\ round' = [round EXCEPT !.status = old.mirror]
      /\ worker' = [worker EXCEPT ![w] = d]
      /\ UNCHANGED <<head, intent, request, queue, paid, signed, lost, declared, crossed, left>>
  BY <1>1, <1>2 DEF ClaimCommit, Put, historyVars
<1>4. d \in WorkerState /\ d.pc = "extracting" /\ d.job = old.job /\ d.plate = old.plate
  BY <1>2 DEF WorkerState, Statuses
<1>5. /\ old.job.kind = "extract" /\ old.plate = Target(old.job) /\ old.plate \in DOMAIN plates
      /\ plates[old.plate] = [status |-> "queued", id |-> old.job.id]
      /\ Known(intent, old.job)
  BY <1>1, <1>3, AtWork DEF Claims
<1>6. PICK p \in DOMAIN plates : p = old.plate
  BY <1>5
<1>7. /\ plates' \in Seq(Rows) /\ Len(plates') = Len(plates) /\ DOMAIN plates' = DOMAIN plates
      /\ plates'[p] = [status |-> "running", id |-> old.job.id]
      /\ \A q \in DOMAIN plates : q # p => plates'[q] = plates[q]
  <2>1. "running" \in Statuses
    BY DEF Statuses
  <2>2. plates' = SetRow(p, "running")
    BY <1>3, <1>6
  <2>3. plates[p].id = old.job.id
    BY <1>5, <1>6
  <2>. QED  BY <1>0, <2>1, <2>2, <2>3, RowSet
<1>8. Claims(d, plates', paid', head')
  <2>1. paid[old.job.id][p] = 0
    BY <1>0, <1>5, <1>6 DEF Untouched
  <2>2. DOMAIN plates = 1..Len(plates) /\ Len(plates) \in Nat
    BY <1>0, Columns
  <2>3. d.plate \in 0..Len(plates')
    BY <1>4, <1>6, <1>7, <2>2
  <2>. QED  BY <1>3, <1>4, <1>5, <1>6, <2>1, <2>3 DEF Claims, Drawing, Working
<1>9. \A q \in DOMAIN plates : ~Holds(w, q)
  BY <1>1, <1>3 DEF Holds
<1>10. \A q \in DOMAIN plates :
           \/ plates'[q] = plates[q]
           \/ /\ Writes(worker[w], plates, q)
              /\ plates'[q].id = plates[q].id /\ plates'[q].status # "queued"
              /\ plates'[q].status = "running" =>
                    d.pc \in Working /\ d.plate = q /\ d.job.id = plates[q].id
  BY <1>1, <1>3, <1>4, <1>5, <1>6, <1>7 DEF Writes, Working
<1>11. d.pc \in Working =>
           \/ worker[w].pc \in Working /\ d.job = worker[w].job
           \/ /\ d.plate \in DOMAIN plates /\ plates[d.plate].status = "queued"
              /\ plates[d.plate].id = d.job.id /\ Target(d.job) = d.plate
              /\ plates'[d.plate].status # "queued"
  BY <1>4, <1>5, <1>6, <1>7
<1>12. Commands'
  <2>1. head \in Revision
    BY <1>0, Typed
  <2>2. d.pc # "claiming" /\ Known(intent, d.job)
    BY <1>4, <1>5
  <2>. QED  BY <1>0, <1>3, <1>4, <1>7, <1>8, <1>9, <1>10, <1>11, <2>1, <2>2, Moves
<1>13. round' \in [version : Nat, status : Statuses]
  <2>1. old.mirror \in Statuses
    BY DEF WorkerState
  <2>. QED  BY <1>3, <2>1, AtWork
<1>. QED  BY <1>3, <1>4, <1>7, <1>12, <1>13, AtWork, Worked

LEMMA Overwritten ==
    ASSUME NEW S, NEW s \in Seq(S), NEW i \in 1..Len(s), NEW x \in S
    PROVE  /\ [s EXCEPT ![i] = x] \in Seq(S) /\ Len([s EXCEPT ![i] = x]) = Len(s)
           /\ DOMAIN [s EXCEPT ![i] = x] = DOMAIN s
OBVIOUS

LEMMA ExtractKeeps ==
    ASSUME IInv, NEW w \in Worker, Extract(w)
    PROVE  IInv'
<1>0. TypeOK /\ Commands
  BY DEF IInv
<1>1. PICK old \in WorkerState : old = worker[w]
  BY AtWork
<1>2. PICK pc \in {"publish", "fail"} :
          /\ old.pc = "extracting"
          /\ \/ paid' = [paid EXCEPT ![old.job.id][old.plate] = @ + 1]
             \/ paid' = paid
          /\ worker' = [worker EXCEPT ![w] = [old EXCEPT !.pc = pc]]
          /\ UNCHANGED <<round, plates, head, intent, request, queue, signed, lost, declared, crossed, left>>
  BY <1>1 DEF Extract, Put, rowVars
<1>3. PICK d : d = [old EXCEPT !.pc = pc]
  OBVIOUS
<1>4. d \in WorkerState /\ d.pc = pc /\ d.job = old.job /\ d.plate = old.plate
  BY <1>3 DEF WorkerState
<1>5. /\ old.job.kind = "extract" /\ old.plate = Target(old.job) /\ old.plate \in 0..Len(plates)
      /\ Known(intent, old.job) /\ paid[old.job.id][old.plate] = 0
  BY <1>1, <1>2, AtWork DEF Claims, Working
<1>6. /\ paid \in Seq([Position -> Nat]) /\ DOMAIN paid = 1..Len(intent) /\ Len(paid) = Len(intent)
      /\ old.job.id \in DOMAIN paid /\ old.plate \in Position /\ Len(intent) \in Nat
  <2>1. old.plate \in Position
    BY <1>5, ConstantsAssumption DEF Target, Position, WorkerState, Job, ConstantsAssumption
  <2>. QED  BY <1>0, <1>5, <2>1, Typed, Columns DEF Known
<1>7. /\ paid' \in Seq([Position -> Nat]) /\ DOMAIN paid' = DOMAIN paid /\ Len(paid') = Len(paid)
      /\ \A e \in DOMAIN paid, p \in Position :
            \/ paid'[e][p] = paid[e][p]
            \/ e = old.job.id /\ p = old.plate /\ paid'[e][p] = 1
  <2>1. CASE paid' = paid
    BY <1>6, <2>1
  <2>2. CASE paid' = [paid EXCEPT ![old.job.id][old.plate] = @ + 1]
    <3>1. PICK c, n : c = old.job.id /\ n = old.plate
      OBVIOUS
    <3>2. paid[c] \in [Position -> Nat] /\ paid[c][n] = 0
      BY <1>0, <1>5, <1>6, <3>1, Columns
    <3>3. PICK was \in [Position -> Nat] : was = paid[c]
      BY <3>2
    <3>4. PICK now : now = [was EXCEPT ![n] = 1]
      OBVIOUS
    <3>5. now \in [Position -> Nat] /\ now[n] = 1 /\ \A p \in Position : p # n => now[p] = was[p]
      BY <1>6, <3>1, <3>4
    <3>6. paid' = [paid EXCEPT ![c] = now]
      <4>1. [paid[c] EXCEPT ![n] = @ + 1] = now
        BY <3>2, <3>3, <3>4
      <4>. QED  BY <2>2, <3>1, <4>1
    <3>7. paid' \in Seq([Position -> Nat]) /\ Len(paid') = Len(paid) /\ DOMAIN paid' = DOMAIN paid
      BY <1>6, <3>1, <3>5, <3>6, Overwritten
    <3>8. ASSUME NEW e \in DOMAIN paid, NEW p \in Position
          PROVE  paid'[e][p] = paid[e][p] \/ (e = c /\ p = n /\ paid'[e][p] = 1)
      BY <1>6, <3>1, <3>3, <3>5, <3>6
    <3>. QED  BY <3>1, <3>7, <3>8
  <2>. QED  BY <1>2, <2>1, <2>2
<1>8. d.pc \in Working /\ d.pc \notin {"idle", "claiming", "extracting", "settling", "declaring"}
      /\ d.pc \notin Drawing
  BY <1>4 DEF Working, Drawing
<1>9. Claims(d, plates', paid', head')
  BY <1>2, <1>4, <1>5, <1>8 DEF Claims
<1>10. old.pc \in Working
  BY <1>2 DEF Working
<1>11. Commands'
  <2>1. head \in Revision
    BY <1>0, Typed
  <2>2. \A e \in DOMAIN paid, p \in Position :
           \/ paid'[e][p] = paid[e][p]
           \/ /\ worker[w].pc = "extracting" /\ d.pc # "extracting"
              /\ e = worker[w].job.id /\ p = worker[w].plate /\ paid'[e][p] = 1
    BY <1>1, <1>2, <1>7, <1>8
  <2>3. d.pc \in Working =>
           \/ worker[w].pc \in Working /\ d.job = worker[w].job
           \/ /\ d.plate \in DOMAIN plates /\ plates[d.plate].status = "queued"
              /\ plates[d.plate].id = d.job.id /\ Target(d.job) = d.plate
              /\ plates'[d.plate].status # "queued"
    BY <1>1, <1>4, <1>10
  <2>4. \A p \in DOMAIN plates :
           plates'[p] = plates[p] /\ plates[p].status = "running" /\ Holds(w, p) =>
               \/ d.pc \in Working /\ d.plate = p /\ d.job = worker[w].job
               \/ worker[w].job \in lost'
    BY <1>1, <1>4, <1>8 DEF Holds
  <2>. QED  BY <1>0, <1>2, <1>3, <1>4, <1>5, <1>7, <1>8, <1>9, <2>1, <2>2, <2>3, <2>4, Moves
<1>. QED  BY <1>2, <1>3, <1>4, <1>7, <1>11, AtWork, Worked

\* A step of a delivery at work that touches only where it is.
LEMMA AtWorkMoves ==
    ASSUME IInv, NEW w \in Worker, NEW d \in WorkerState, worker[w].pc \in Working,
           worker' = [worker EXCEPT ![w] = d],
           UNCHANGED <<rowVars, request, queue, historyVars, left>>,
           d.pc \in {"publish", "insert", "fail", "settling"}, d.job = worker[w].job,
           \/ d.plate = worker[w].plate
           \/ d.pc = "settling" /\ d.plate = 0 /\ \A p \in DOMAIN plates :
                 plates[p] # [status |-> "running", id |-> worker[w].job.id] \/ worker[w].plate # p,
           worker[w].pc # "settling",
           d.pc = "settling" /\ d.plate # 0 =>
               plates[d.plate] = [status |-> "running", id |-> d.job.id]
    PROVE  IInv'
<1>0. TypeOK /\ Commands
  BY DEF IInv
<1>1. PICK old \in WorkerState : old = worker[w]
  BY AtWork
<1>2. UNCHANGED <<round, plates, head, intent, request, queue, paid, signed, lost, declared, crossed, left>>
  BY DEF rowVars, historyVars
<1>3. old.pc # "idle"
  BY <1>1 DEF Working
<1>4. /\ old.job.kind = "extract" /\ old.plate = Target(old.job) /\ old.plate \in 0..Len(plates)
      /\ Known(intent, old.job)
  BY <1>1, <1>3, AtWork DEF Claims
<1>5. d.pc \in Working /\ d.pc \notin {"idle", "claiming", "extracting", "declaring"}
      /\ d.pc \notin Drawing
  BY DEF Working, Drawing
<1>6. Len(plates) \in Nat
  BY <1>0, Columns
<1>7. Claims(d, plates', paid', head')
  BY <1>1, <1>2, <1>4, <1>5, <1>6 DEF Claims
<1>8. \A p \in DOMAIN plates :
           plates'[p] = plates[p] /\ plates[p].status = "running" /\ Holds(w, p) =>
               \/ d.pc \in Working /\ d.plate = p /\ d.job = worker[w].job
               \/ worker[w].job \in lost'
  <2>. SUFFICES ASSUME NEW p \in DOMAIN plates, plates[p].status = "running", Holds(w, p)
                PROVE  d.plate = p
    BY <1>5
  <2>1. plates[p] \in Rows
    BY <1>0, Columns
  <2>2. worker[w].plate = p /\ plates[p].id = worker[w].job.id
    BY DEF Holds
  <2>3. plates[p] = [status |-> "running", id |-> worker[w].job.id]
    BY <2>1, <2>2 DEF Rows
  <2>. QED  BY <2>2, <2>3
<1>9. Commands'
  <2>1. head \in Revision
    BY <1>0, Typed
  <2>. QED  BY <1>0, <1>1, <1>2, <1>4, <1>5, <1>7, <1>8, <2>1, Moves
<1>. QED  BY <1>2, <1>9, AtWork, Worked

LEMMA PublishReadKeeps ==
    ASSUME IInv, NEW w \in Worker, PublishRead(w)
    PROVE  IInv'
<1>1. PICK old \in WorkerState, v \in Nat : old = worker[w] /\ v = head.version
  BY AtWork DEF Revision
<1>2. v \in Nat
  BY <1>1, AtWork DEF Revision
<1>3. PICK t, d : t = old.tries + 1 /\ d = [old EXCEPT !.pc = "insert", !.at = v, !.tries = t]
  OBVIOUS
<1>4. /\ old.pc = "publish" /\ worker' = [worker EXCEPT ![w] = d]
      /\ UNCHANGED <<rowVars, request, queue, historyVars, left>>
  BY <1>1, <1>3 DEF PublishRead, Put
<1>5. d \in WorkerState /\ d.pc = "insert" /\ d.job = old.job /\ d.plate = old.plate
  <2>1. t \in Nat
    BY <1>3 DEF WorkerState
  <2>. QED  BY <1>2, <1>3, <2>1 DEF WorkerState
<1>6. old.pc \in Working
  BY <1>4 DEF Working
<1>. QED  BY <1>1, <1>4, <1>5, <1>6, AtWorkMoves

LEMMA NotPublishedKeeps ==
    ASSUME IInv, NEW w \in Worker, NotPublished(w)
    PROVE  IInv'
<1>1. PICK old \in WorkerState : old = worker[w]
  BY AtWork
<1>2. PICK pc : pc \in {"publish", "fail"}
                /\ pc = IF head.version # old.at /\ old.tries < Attempts THEN "publish" ELSE "fail"
  OBVIOUS
<1>3. PICK d : d = [old EXCEPT !.at = 0, !.pc = pc]
  OBVIOUS
<1>4. /\ old.pc = "insert" /\ worker' = [worker EXCEPT ![w] = d]
      /\ UNCHANGED <<rowVars, request, queue, historyVars, left>>
  BY <1>1, <1>2, <1>3 DEF NotPublished, Put
<1>5. d \in WorkerState /\ d.pc = pc /\ d.job = old.job /\ d.plate = old.plate
  BY <1>2, <1>3 DEF WorkerState
<1>6. old.pc \in Working
  BY <1>4 DEF Working
<1>. QED  BY <1>1, <1>2, <1>4, <1>5, <1>6, AtWorkMoves

LEMMA SettleReadKeeps ==
    ASSUME IInv, NEW w \in Worker, SettleRead(w)
    PROVE  IInv'
<1>0. TypeOK
  BY AtWork
<1>1. PICK old \in WorkerState : old = worker[w]
  BY AtWork
<1>2. PICK m \in Statuses :
          m = Mirror(IF Mine(w) THEN SetRow(worker[w].plate, "failed") ELSE plates)
  BY <1>0, MirrorFits
<1>3. PICK n : n = IF Mine(w) THEN old.plate ELSE 0
  OBVIOUS
<1>4. PICK d : d = [old EXCEPT !.pc = "settling", !.plate = n, !.mirror = m]
  OBVIOUS
<1>5. /\ old.pc = "fail" /\ worker' = [worker EXCEPT ![w] = d]
      /\ UNCHANGED <<rowVars, request, queue, historyVars, left>>
  <2>1. [worker[w] EXCEPT !.pc = "settling", !.plate = IF Mine(w) THEN @ ELSE 0,
            !.mirror = Mirror(IF Mine(w) THEN SetRow(worker[w].plate, "failed") ELSE plates)] = d
    BY <1>1, <1>2, <1>3, <1>4
  <2>. QED  BY <1>1, <2>1 DEF SettleRead, Put
<1>6. d \in WorkerState /\ d.pc = "settling" /\ d.job = old.job /\ d.plate = n
  <2>1. Limit \in Nat
    BY ConstantsAssumption DEF ConstantsAssumption
  <2>2. n \in 0..Limit
    BY <1>3, <2>1 DEF WorkerState
  <2>. QED  BY <1>4, <2>2 DEF WorkerState
<1>7. old.pc \in Working
  BY <1>5 DEF Working
<1>8. CASE Mine(w)
  <2>1. plates[d.plate] = [status |-> "running", id |-> d.job.id] /\ d.plate = old.plate
    BY <1>1, <1>3, <1>6, <1>8 DEF Mine
  <2>. QED  BY <1>1, <1>5, <1>6, <1>7, <2>1, AtWorkMoves
<1>9. CASE ~Mine(w)
  <2>1. \A p \in DOMAIN plates :
            plates[p] # [status |-> "running", id |-> worker[w].job.id] \/ worker[w].plate # p
    BY <1>9 DEF Mine
  <2>2. d.plate = 0
    BY <1>3, <1>6, <1>9
  <2>. QED  BY <1>1, <1>5, <1>6, <1>7, <2>1, <2>2, AtWorkMoves
<1>. QED  BY <1>8, <1>9

\* A delivery that has ended has nothing in hand.
LEMMA FreeHolds ==
    ASSUME NEW rows, NEW calls, NEW rev
    PROVE  Claims(Free, rows, calls, rev) /\ Free.pc = "idle" /\ Free.pc \notin Working
BY DEF Claims, Free, Working, Drawing

\* A step that ends a delivery and acknowledges its message: of a plate, its row is no longer
\* running; or it is about a drawing.
LEMMA EndKeeps ==
    ASSUME IInv, NEW w \in Worker, worker[w].pc \in Working \cup Drawing, Ack(w),
           UNCHANGED <<intent, request, paid, signed, lost, declared, crossed, left>>,
           round' \in [version : Nat, status : Statuses],
           plates' \in Seq(Rows), Len(plates') = Len(plates), DOMAIN plates' = DOMAIN plates,
           \A p \in DOMAIN plates :
               \/ plates'[p] = plates[p] /\ (plates[p].status = "running" => ~Holds(w, p))
               \/ /\ Writes(worker[w], plates, p) /\ plates'[p].id = plates[p].id
                  /\ plates'[p].status \notin {"queued", "running"},
           head' \in Revision, head' = head \/ head'.version = head.version + 1,
           Vouched(signed, declared, head')
    PROVE  IInv'
<1>0. TypeOK /\ Commands
  BY DEF IInv
<1>1. worker' = [worker EXCEPT ![w] = Free] /\ queue' = queue \ {worker[w].job}
  BY DEF Ack, Put
<1>2. Free \in WorkerState /\ Free.pc = "idle" /\ Free.pc \notin Working
  BY SlotsFit, FreeHolds, ConstantsAssumption
<1>3. Claims(Free, plates', paid', head')
  <2>1. PICK rows, calls, rev : rows = plates' /\ calls = paid' /\ rev = head'
    OBVIOUS
  <2>. QED  BY <2>1, FreeHolds
<1>4. \A job \in queue \ queue' : \A p \in DOMAIN plates :
          plates'[p] = plates[p] /\ plates[p].status = "queued" =>
              job # Extraction(plates[p].id, 0) /\ job # Extraction(plates[p].id, p)
  BY <1>1, AckIsSafe
<1>5. \A p \in DOMAIN plates :
          plates'[p] = plates[p] /\ plates[p].status = "running" /\ Holds(w, p) =>
              \/ Free.pc \in Working /\ Free.plate = p /\ Free.job = worker[w].job
              \/ worker[w].job \in lost'
  OBVIOUS
<1>6. \A p \in DOMAIN plates :
          \/ plates'[p] = plates[p]
          \/ /\ Writes(worker[w], plates, p)
             /\ plates'[p].id = plates[p].id /\ plates'[p].status # "queued"
             /\ plates'[p].status = "running" =>
                   Free.pc \in Working /\ Free.plate = p /\ Free.job.id = plates[p].id
  OBVIOUS
<1>7. Commands'
  <2>1. head \in Revision
    BY <1>0, Typed
  <2>2. UNCHANGED <<intent, request>> /\ paid' = paid /\ queue' \subseteq queue /\ lost' = lost
    BY <1>1
  <2>. QED  BY <1>0, <1>1, <1>2, <1>3, <1>4, <1>5, <1>6, <2>1, <2>2, Moves
<1>. QED  BY <1>1, <1>2, <1>7, AtWork, Worked

LEMMA PublishedKeeps ==
    ASSUME IInv, NEW w \in Worker, Published(w)
    PROVE  IInv'
<1>0. TypeOK
  BY AtWork
<1>1. PICK old \in WorkerState, h \in Revision, p \in 0..Limit :
            old = worker[w] /\ h = head /\ p = old.plate
  BY AtWork DEF WorkerState
<1>2. PICK packet : packet = [NoPacket EXCEPT !.rev = h.version + 1, !.open = TRUE]
  OBVIOUS
<1>3. /\ old.pc = "insert"
      /\ p \in DOMAIN plates /\ plates[p] = [status |-> "running", id |-> old.job.id]
      /\ head' = WithPacket(p, packet)
      /\ plates' = SetRow(p, "done")
      /\ round' = [version |-> round.version + 1, status |-> Mirror(plates')]
      /\ Ack(w)
      /\ UNCHANGED <<intent, request, paid, signed, lost, declared, crossed, left>>
  BY <1>1, <1>2 DEF Published, Mine, historyVars
<1>4. PICK next : next = [h EXCEPT !.version = packet.rev, !.packets[p] = packet,
                                   !.overlay = IF p = 1 THEN packet.rev ELSE @]
  OBVIOUS
<1>5. head' = next
  BY <1>1, <1>3, <1>4 DEF WithPacket
<1>6. packet \in Packets /\ packet.rev = h.version + 1
  <2>1. packet = [rev |-> h.version + 1, open |-> TRUE, reading |-> "proposed"]
    BY <1>2 DEF NoPacket
  <2>2. h.version + 1 \in Nat
    BY DEF Revision
  <2>. QED  BY <2>1, <2>2 DEF Packets
<1>7. /\ next \in Revision /\ next.version = h.version + 1 /\ next.approval = h.approval
      /\ next.workbook = h.workbook /\ next.codes = h.codes /\ next.links = h.links
  <2>1. PICK packets, overlay : /\ packets = [h.packets EXCEPT ![p] = packet]
                                /\ overlay = IF p = 1 THEN packet.rev ELSE h.overlay
    OBVIOUS
  <2>2. packets \in [Position -> Packets] /\ overlay \in Nat /\ packet.rev \in Nat
    BY <1>6, <2>1 DEF Revision, Packets
  <2>3. next = [h EXCEPT !.version = packet.rev, !.packets = packets, !.overlay = overlay]
    BY <1>4, <2>1 DEF Revision
  <2>. QED  BY <1>6, <2>2, <2>3 DEF Revision
<1>8. Vouched(signed, declared, head')
  <2>1. Vouched(signed, declared, h)
    BY <1>1, AtWork
  <2>. QED  BY <1>5, <1>7, <2>1, VouchedAgain
<1>9. round' \in [version : Nat, status : Statuses]
  <2>1. PICK rows : rows = plates'
    OBVIOUS
  <2>2. Mirror(rows) \in Statuses
    BY <1>0, MirrorFits
  <2>3. round.version \in Nat
    BY AtWork
  <2>. QED  BY <1>3, <2>1, <2>2, <2>3
<1>10. /\ plates' \in Seq(Rows) /\ Len(plates') = Len(plates) /\ DOMAIN plates' = DOMAIN plates
       /\ plates'[p].status = "done" /\ plates'[p].id = plates[p].id
       /\ \A q \in DOMAIN plates : q # p => plates'[q] = plates[q]
  <2>1. "done" \in Statuses
    BY DEF Statuses
  <2>2. /\ plates' \in Seq(Rows) /\ Len(plates') = Len(plates) /\ DOMAIN plates' = DOMAIN plates
        /\ plates'[p] = [status |-> "done", id |-> plates[p].id]
        /\ \A q \in DOMAIN plates : q # p => plates'[q] = plates[q]
    BY <1>0, <1>3, <2>1, RowSet
  <2>. QED  BY <2>2
<1>11. \A q \in DOMAIN plates :
          \/ plates'[q] = plates[q] /\ (plates[q].status = "running" => ~Holds(w, q))
          \/ /\ Writes(worker[w], plates, q) /\ plates'[q].id = plates[q].id
             /\ plates'[q].status \notin {"queued", "running"}
  <2>1. Writes(worker[w], plates, p)
    BY <1>1, <1>3 DEF Writes, Working
  <2>2. \A q \in DOMAIN plates : q # p => ~Holds(w, q)
    BY <1>1 DEF Holds
  <2>. QED  BY <1>10, <2>1, <2>2
<1>12. worker[w].pc \in Working \cup Drawing
  BY <1>1, <1>3 DEF Working
<1>. QED  BY <1>1, <1>3, <1>5, <1>7, <1>8, <1>9, <1>10, <1>11, <1>12, EndKeeps

LEMMA SettleCommitKeeps ==
    ASSUME IInv, NEW w \in Worker, SettleCommit(w)
    PROVE  IInv'
<1>0. TypeOK
  BY AtWork
<1>1. PICK old \in WorkerState, p \in 0..Limit : old = worker[w] /\ p = old.plate
  BY AtWork DEF WorkerState
<1>2. /\ old.pc = "settling"
      /\ plates' = IF p = 0 THEN plates ELSE SetRow(p, "failed")
      /\ round' = [round EXCEPT !.status = old.mirror]
      /\ Ack(w)
      /\ UNCHANGED <<head, intent, request, paid, signed, lost, declared, crossed, left>>
  BY <1>1 DEF SettleCommit, historyVars
<1>3. p \in 0..Len(plates) /\ (p # 0 => plates[p] = [status |-> "running", id |-> old.job.id])
  BY <1>1, <1>2, AtWork DEF Claims, Working
<1>4. DOMAIN plates = 1..Len(plates) /\ Len(plates) \in Nat
  BY <1>0, Columns
<1>5. /\ plates' \in Seq(Rows) /\ Len(plates') = Len(plates) /\ DOMAIN plates' = DOMAIN plates
      /\ p # 0 => plates'[p].status = "failed" /\ plates'[p].id = plates[p].id
      /\ \A q \in DOMAIN plates : q # p => plates'[q] = plates[q]
  <2>1. CASE p = 0
    BY <1>2, <2>1, AtWork
  <2>2. CASE p # 0
    <3>1. "failed" \in Statuses /\ p \in DOMAIN plates /\ plates' = SetRow(p, "failed")
      BY <1>2, <1>3, <1>4, <2>2 DEF Statuses
    <3>2. /\ plates' \in Seq(Rows) /\ Len(plates') = Len(plates) /\ DOMAIN plates' = DOMAIN plates
          /\ plates'[p] = [status |-> "failed", id |-> plates[p].id]
          /\ \A q \in DOMAIN plates : q # p => plates'[q] = plates[q]
      BY <1>0, <3>1, RowSet
    <3>. QED  BY <3>2
  <2>. QED  BY <2>1, <2>2
<1>6. \A q \in DOMAIN plates :
          \/ plates'[q] = plates[q] /\ (plates[q].status = "running" => ~Holds(w, q))
          \/ /\ Writes(worker[w], plates, q) /\ plates'[q].id = plates[q].id
             /\ plates'[q].status \notin {"queued", "running"}
  <2>1. p # 0 => Writes(worker[w], plates, p)
    BY <1>1, <1>2, <1>3 DEF Writes, Working
  <2>2. \A q \in DOMAIN plates : q # p => ~Holds(w, q)
    BY <1>1 DEF Holds
  <2>3. \A q \in DOMAIN plates : q # 0
    BY <1>4
  <2>. QED  BY <1>5, <2>1, <2>2, <2>3
<1>7. round' \in [version : Nat, status : Statuses]
  <2>1. old.mirror \in Statuses
    BY DEF WorkerState
  <2>. QED  BY <1>2, <2>1, AtWork
<1>8. worker[w].pc \in Working \cup Drawing
  BY <1>1, <1>2 DEF Working
<1>. QED  BY <1>2, <1>5, <1>6, <1>7, <1>8, AtWork, EndKeeps

\* A step of a delivery about a drawing that writes no revision.
LEMMA DrawMoves ==
    ASSUME IInv, NEW w \in Worker, NEW d \in WorkerState, worker[w].pc \notin Working,
           worker' = [worker EXCEPT ![w] = d],
           UNCHANGED <<rowVars, request, historyVars, left>>,
           queue' \subseteq queue, \A job \in queue \ queue' : job.kind = "overlay",
           d.pc \in Drawing \cup {"idle"}, d.pc # "idle" => d.job.kind = "overlay",
           d.pc = "declaring" => Drew(d, head)
    PROVE  IInv'
<1>0. TypeOK /\ Commands
  BY DEF IInv
<1>1. UNCHANGED <<round, plates, head, intent, request, paid, signed, lost, declared, crossed, left>>
  BY DEF rowVars, historyVars
<1>2. d.pc \notin Working /\ d.pc \notin {"claiming", "extracting", "settling"}
  BY DEF Drawing, Working
<1>3. d.pc \in Drawing => d.job.kind = "overlay"
  BY DEF Drawing
<1>4. Claims(d, plates', paid', head')
  BY <1>1, <1>2, <1>3 DEF Claims
<1>5. d.pc # "idle" => Known(intent, d.job)
  BY DEF Known
<1>6. \A p \in DOMAIN plates : ~Holds(w, p)
  BY DEF Holds, Working
<1>7. \A job \in queue \ queue' : \A p \in DOMAIN plates :
          job # Extraction(plates[p].id, 0) /\ job # Extraction(plates[p].id, p)
  BY DEF Extraction
<1>8. Commands'
  <2>1. head \in Revision
    BY <1>0, Typed
  <2>. QED  BY <1>0, <1>1, <1>2, <1>4, <1>5, <1>6, <1>7, <2>1, Moves
<1>. QED  BY <1>1, <1>8, AtWork, Worked

LEMMA DrawKeeps ==
    ASSUME IInv, NEW w \in Worker, NEW job \in queue, Draw(w, job)
    PROVE  IInv'
<1>1. /\ worker[w].pc = "idle" /\ job.kind = "overlay"
      /\ UNCHANGED <<rowVars, request, historyVars, left>>
  BY DEF Draw, Idle
<1>2. worker[w].pc \notin Working
  BY <1>1 DEF Working
<1>3. CASE Current(job)
  <2>1. PICK d : d = [Free EXCEPT !.pc = "drawing", !.job = job]
    OBVIOUS
  <2>2. job \in Job
    BY AtWork
  <2>3. d \in WorkerState /\ d.pc = "drawing" /\ d.job = job
    <3>1. d = [pc |-> "drawing", job |-> job, plate |-> 0, mirror |-> "none", at |-> 0, tries |-> 0]
      BY <2>1 DEF Free
    <3>. QED  BY <2>2, <3>1, ConstantsAssumption DEF WorkerState, Statuses, ConstantsAssumption
  <2>4. worker' = [worker EXCEPT ![w] = d] /\ queue' = queue
    BY <1>3, <2>1 DEF Draw, Put
  <2>. QED  BY <1>1, <1>2, <2>3, <2>4, DrawMoves DEF Drawing
<1>4. CASE ~Current(job)
  <2>1. worker' = worker /\ queue' = queue \ {job}
    BY <1>4 DEF Draw
  <2>2. PICK d \in WorkerState : d = worker[w]
    BY AtWork
  <2>3. worker' = [worker EXCEPT ![w] = d]
    <3>1. worker \in [Worker -> WorkerState]
      BY AtWork
    <3>. QED  BY <2>1, <2>2, <3>1
  <2>. QED  BY <1>1, <1>2, <2>1, <2>2, <2>3, DrawMoves
<1>. QED  BY <1>3, <1>4

LEMMA StoreKeeps ==
    ASSUME IInv, NEW w \in Worker, Store(w)
    PROVE  IInv'
<1>1. PICK old \in WorkerState : old = worker[w]
  BY AtWork
<1>2. old.pc = "drawing" /\ UNCHANGED <<rowVars, request, historyVars, left>>
  BY <1>1 DEF Store
<1>3. old.pc \notin Working /\ old.pc \in Drawing /\ old.job.kind = "overlay"
  BY <1>1, <1>2, AtWork DEF Working, Drawing, Claims
<1>4. CASE worker' = [worker EXCEPT ![w] = [old EXCEPT !.pc = "declare"]] /\ queue' = queue
  <2>1. PICK d : d = [old EXCEPT !.pc = "declare"]
    OBVIOUS
  <2>2. d \in WorkerState /\ d.pc = "declare" /\ d.job = old.job
    BY <2>1 DEF WorkerState
  <2>. QED  BY <1>1, <1>2, <1>3, <1>4, <2>1, <2>2, DrawMoves DEF Drawing
<1>5. CASE Ack(w)
  <2>1. worker' = [worker EXCEPT ![w] = Free] /\ queue' = queue \ {old.job}
    BY <1>1, <1>5 DEF Ack, Put
  <2>2. Free \in WorkerState /\ Free.pc = "idle"
    BY SlotsFit, FreeHolds, ConstantsAssumption
  <2>. QED  BY <1>1, <1>2, <1>3, <2>1, <2>2, DrawMoves
<1>. QED  BY <1>1, <1>4, <1>5 DEF Store, Put

LEMMA DeclareReadKeeps ==
    ASSUME IInv, NEW w \in Worker, DeclareRead(w)
    PROVE  IInv'
<1>1. PICK old \in WorkerState, v \in Nat : old = worker[w] /\ v = head.version
  BY AtWork DEF Revision
<1>2. old.pc = "declare" /\ UNCHANGED <<rowVars, request, historyVars, left>> /\ v \in Nat
  BY <1>1, AtWork DEF DeclareRead, Revision
<1>3. old.pc \notin Working /\ old.job.kind = "overlay"
  BY <1>1, <1>2, AtWork DEF Working, Drawing, Claims
<1>4. CASE /\ head.packets[1].rev = old.job.id /\ queue' = queue
           /\ worker' = [worker EXCEPT ![w] = [old EXCEPT !.pc = "declaring", !.at = v]]
  <2>1. PICK d : d = [old EXCEPT !.pc = "declaring", !.at = v]
    OBVIOUS
  <2>2. d \in WorkerState /\ d.pc = "declaring" /\ d.job = old.job /\ d.at = v
    BY <1>2, <2>1 DEF WorkerState
  <2>3. Drew(d, head)
    BY <1>1, <1>2, <1>4, <2>2 DEF Drew
  <2>. QED  BY <1>1, <1>2, <1>3, <1>4, <2>1, <2>2, <2>3, DrawMoves DEF Drawing
<1>5. CASE Ack(w)
  <2>1. worker' = [worker EXCEPT ![w] = Free] /\ queue' = queue \ {old.job}
    BY <1>1, <1>5 DEF Ack, Put
  <2>2. Free \in WorkerState /\ Free.pc = "idle"
    BY SlotsFit, FreeHolds, ConstantsAssumption
  <2>. QED  BY <1>1, <1>2, <1>3, <2>1, <2>2, DrawMoves
<1>. QED  BY <1>1, <1>4, <1>5 DEF DeclareRead, Put, Current

LEMMA DeclareCommitKeeps ==
    ASSUME IInv, NEW w \in Worker, DeclareCommit(w)
    PROVE  IInv'
<1>0. TypeOK
  BY AtWork
<1>1. PICK old \in WorkerState, h \in Revision : old = worker[w] /\ h = head
  BY AtWork
<1>2. /\ old.pc = "declaring"
      /\ UNCHANGED <<round, plates, intent, request, paid, signed, lost, declared, crossed, left>>
  BY <1>1 DEF DeclareCommit, historyVars
<1>3. old.pc \notin Working /\ old.pc \in Drawing /\ old.job.kind = "overlay"
  BY <1>1, <1>2, AtWork DEF Working, Drawing, Claims
<1>4. CASE Ack(w) /\ head' = [h EXCEPT !.version = @ + 1, !.overlay = old.job.id]
  <2>1. PICK n, v, next :
            n = old.job.id /\ v = h.version + 1 /\ next = [h EXCEPT !.version = v, !.overlay = n]
    OBVIOUS
  <2>2. n \in Nat /\ v \in Nat
    BY <2>1 DEF WorkerState, Job, Revision
  <2>3. /\ next \in Revision /\ next.version = h.version + 1 /\ next.approval = h.approval
        /\ next.workbook = h.workbook /\ next.codes = h.codes /\ next.links = h.links
    BY <2>1, <2>2 DEF Revision
  <2>4. head' = next
    BY <1>4, <2>1
  <2>5. Vouched(signed, declared, head')
    <3>1. Vouched(signed, declared, h)
      BY <1>1, AtWork
    <3>. QED  BY <2>3, <2>4, <3>1, VouchedAgain
  <2>6. \A p \in DOMAIN plates : plates'[p] = plates[p] /\ ~Holds(w, p)
    BY <1>1, <1>2 DEF Holds
  <2>. QED  BY <1>1, <1>2, <1>3, <1>4, <2>3, <2>4, <2>5, <2>6, AtWork, EndKeeps
<1>5. CASE worker' = [worker EXCEPT ![w] = Free] /\ head' = head /\ queue' = queue
  <2>1. Free \in WorkerState /\ Free.pc = "idle"
    BY SlotsFit, FreeHolds, ConstantsAssumption
  <2>. QED  BY <1>1, <1>2, <1>3, <1>5, <2>1, DrawMoves DEF rowVars, historyVars
<1>. QED  BY <1>1, <1>4, <1>5 DEF DeclareCommit, Put

LEMMA CrashKeeps ==
    ASSUME IInv, NEW w \in Worker, Crash(w)
    PROVE  IInv'
<1>0. TypeOK /\ Commands
  BY DEF IInv
<1>1. /\ left["crash"] > 0 /\ worker[w].pc # "idle"
      /\ worker' = [worker EXCEPT ![w] = Free]
      /\ left' = [left EXCEPT !["crash"] = @ - 1]
      /\ lost' = lost \cup {worker[w].job}
      /\ UNCHANGED <<round, plates, head, intent, request, queue, paid, signed, declared, crossed>>
  BY DEF Crash, Put, rowVars
<1>2. Free \in WorkerState /\ Free.pc = "idle" /\ Free.pc \notin Working
  BY SlotsFit, FreeHolds, ConstantsAssumption
<1>3. Claims(Free, plates', paid', head')
  BY <1>1, FreeHolds
<1>4. Commands'
  <2>1. head \in Revision
    BY <1>0, Typed
  <2>. QED  BY <1>0, <1>1, <1>2, <1>3, <2>1, Moves
<1>5. left' \in [Kind -> Nat]
  <2>1. left \in [Kind -> Nat] /\ "crash" \in Kind
    BY AtWork DEF Kind
  <2>. QED  BY <1>1, <2>1
<1>6. lost' \in SUBSET Job
  <2>1. worker[w].job \in Job
    BY AtWork DEF WorkerState
  <2>. QED  BY <1>1, <2>1, AtWork
<1>. QED  BY <1>1, <1>2, <1>4, <1>5, <1>6, AtWork, Worked

LEMMA WorkKeeps ==
    ASSUME IInv, NEW w \in Worker, Work(w)
    PROVE  IInv'
BY ClaimKeeps, NothingClaimedKeeps, DrawKeeps, ClaimCommitKeeps, ExtractKeeps, PublishReadKeeps,
   PublishedKeeps, NotPublishedKeeps, SettleReadKeeps, SettleCommitKeeps, StoreKeeps,
   DeclareReadKeeps, DeclareCommitKeeps
   DEF Work

-----------------------------------------------------------------------------
(* The theorems.                                                            *)

LEMMA Keep ==
    ASSUME IInv, [Next]_vars
    PROVE  IInv'
<1>1. CASE Next
  BY <1>1, HandleKeeps, LoadKeeps, ReplayKeeps, WorkKeeps, CrashKeeps DEF Next
<1>2. CASE UNCHANGED vars
  <2>1. UNCHANGED <<round, plates, head, intent, request, queue, worker, paid, signed, lost,
                    declared, crossed, left>>
    BY <1>2 DEF vars, rowVars, historyVars
  <2>2. TypeOK' = TypeOK
    BY <2>1, Typed, TypedNext
  <2>3. Commands' = Commands
    <3>1. Owned' = Owned /\ Announced' = Announced /\ Claimed' = Claimed /\ Apart' = Apart
          /\ Untouched' = Untouched
      BY <2>1 DEF Owned, Announced, Claimed, Apart, Untouched
    <3>2. PaidOncePerCommand' = PaidOncePerCommand
      BY <2>1 DEF PaidOncePerCommand
    <3>3. NoCommandForgotten' = NoCommandForgotten
      BY <2>1 DEF NoCommandForgotten, Holds
    <3>. QED  BY <3>1, <3>2, <3>3 DEF Commands
  <2>4. Sound' = Sound
    BY <2>1 DEF Sound
  <2>. QED  BY <2>2, <2>3, <2>4 DEF IInv
<1>. QED  BY <1>1, <1>2

\* What the module says of the rows, the messages and the deliveries holds in every state,
\* whatever order the acts, the redeliveries and the crashes of the worker arrive in.
THEOREM Invariance == Spec => []IInv
<1>1. Init => IInv
  BY Start, ConstantsAssumption
<1>2. IInv /\ [Next]_vars => IInv'
  BY Keep
<1>. QED  BY <1>1, <1>2, PTL DEF Spec

\* Every variable stays within its columns and its control points.
THEOREM TypeCorrect == Spec => []TypeOK
<1>1. IInv => TypeOK
  BY DEF IInv
<1>. QED  BY <1>1, Invariance, PTL

\* "no maximo uma vez por comando enfileirado" (the claim of _claim_round_extraction): with
\* any number of deliveries, repeated commands and crashes, one command calls the provider at
\* most once for a plate.
THEOREM PaidOnce == Spec => []PaidOncePerCommand
<1>1. IInv => PaidOncePerCommand
  BY DEF IInv, Commands
<1>. QED  BY <1>1, Invariance, PTL

\* A queued plate has its message on the way and a running one a delivery that will declare
\* its outcome, unless the transport refused the message or the worker died.
THEOREM NothingForgotten == Spec => []NoCommandForgotten
<1>1. IInv => NoCommandForgotten
  BY DEF IInv, Commands
<1>. QED  BY <1>1, Invariance, PTL

\* No workbook leaves the house with a content that nobody signed, however the approvals, the
\* bulletins and the exports of any number of sessions interleave.
THEOREM ExportedSigned == Spec => []ExportedWasSigned
<1>1. IInv => ExportedWasSigned
  BY DEF IInv, Sound, Vouched, ExportedWasSigned
<1>. QED  BY <1>1, Invariance, PTL

\* A package that counts as complete has the codes somebody declared complete, and a reading
\* is discarded once and never in favour of one discarded itself, whichever acts overlapped.
THEOREM DeclarationsHold == Spec => []DeclarationsStand
<1>1. IInv => DeclarationsStand
  BY DEF IInv, Sound, Vouched, Unchained, DeclarationsStand
<1>. QED  BY <1>1, Invariance, PTL

\* No act of the API moves a delivery.
LEMMA ApiLeavesDeliveries ==
    ASSUME NEW r \in Request, Handle(r)
    PROVE  worker' = worker
BY DEF Handle, Read, Carry, Enqueue, CommitPlate, CommitExtraction, CommitDecision,
       CommitSuggestions, CommitCode, CommitLink, CommitBulletin, CommitApproval, CommitExport,
       CommitRevision, Stored

\* A delivery moves in a step of its own.
LEMMA OwnStep ==
    ASSUME IInv, [Next]_vars, NEW w \in Worker, worker'[w] # worker[w]
    PROVE  Work(w) \/ Crash(w)
<1>1. worker' # worker
  OBVIOUS
<1>2. PICK v \in Worker : Work(v) \/ Crash(v)
  <2>1. ~UNCHANGED vars
    BY <1>1 DEF vars
  <2>2. \A r \in Request : ~Handle(r)
    BY <1>1, ApiLeavesDeliveries
  <2>3. \A r \in Request, act \in Act : ~Load(r, act)
    BY <1>1 DEF Load
  <2>4. \A e \in 1..Len(intent) : ~Replay(e)
    BY <1>1 DEF Replay
  <2>. QED  BY <2>1, <2>2, <2>3, <2>4 DEF Next
<1>3. worker \in [Worker -> WorkerState]
  BY AtWork
<1>4. \E state : worker' = [worker EXCEPT ![v] = state]
  BY <1>1, <1>2 DEF Work, Crash, Claim, NothingClaimed, Draw, ClaimCommit, Extract, PublishRead,
         Published, NotPublished, SettleRead, SettleCommit, Store, DeclareRead, DeclareCommit,
         Ack, Put
<1>5. v = w
  BY <1>3, <1>4
<1>. QED  BY <1>2, <1>5

\* The rows a delivery writes: the one it claimed, or the one it still holds.
LEMMA LateOutcome ==
    ASSUME IInv, [Next]_vars, NEW w \in Worker, NEW p \in DOMAIN plates,
           worker'[w] # worker[w], plates'[p] # plates[p]
    PROVE  plates[p].id = worker[w].job.id
<1>1. Work(w) \/ Crash(w)
  BY OwnStep
<1>2. plates' # plates
  OBVIOUS
<1>3. PICK d \in WorkerState : d = worker[w]
  BY AtWork
<1>4. Claims(d, plates, paid, head) /\ TypeOK
  BY <1>3, AtWork
<1>5. ClaimCommit(w) \/ Published(w) \/ SettleCommit(w)
  BY <1>1, <1>2 DEF Work, Crash, Claim, NothingClaimed, Draw, Extract, PublishRead,
         NotPublished, SettleRead, Store, DeclareRead, DeclareCommit, rowVars
<1>6. \A q, status : plates' = SetRow(q, status) => q = p
  BY <1>4, Columns DEF SetRow
<1>7. CASE ClaimCommit(w)
  <2>1. d.pc = "claiming" /\ d.plate = p
    BY <1>3, <1>6, <1>7 DEF ClaimCommit
  <2>. QED  BY <1>3, <1>4, <2>1 DEF Claims
<1>8. CASE Published(w)
  <2>1. worker[w].plate = p /\ Mine(w)
    BY <1>6, <1>8 DEF Published
  <2>. QED  BY <2>1 DEF Mine
<1>9. CASE SettleCommit(w)
  <2>1. d.pc = "settling" /\ d.plate # 0 /\ plates' = SetRow(d.plate, "failed")
    BY <1>2, <1>3, <1>9 DEF SettleCommit
  <2>2. d.plate = p
    BY <1>6, <2>1
  <2>. QED  BY <1>3, <1>4, <2>1, <2>2 DEF Claims
<1>. QED  BY <1>5, <1>7, <1>8, <1>9

LEMMA Declares ==
    ASSUME IInv, [Next]_vars, NEW w \in Worker, worker[w].pc = "declaring", head' # head,
           worker'[w] # worker[w]
    PROVE  head'.overlay = head'.packets[1].rev
<1>1. Work(w) \/ Crash(w)
  BY OwnStep
<1>2. DeclareCommit(w)
  BY <1>1 DEF Work, Crash, Claim, NothingClaimed, Draw, ClaimCommit, Extract, PublishRead, Published,
         NotPublished, SettleRead, SettleCommit, Store, DeclareRead, Idle, rowVars
<1>3. PICK d \in WorkerState, h \in Revision : d = worker[w] /\ h = head
  BY AtWork
<1>4. h.version = d.at /\ head' = [h EXCEPT !.version = @ + 1, !.overlay = d.job.id]
  BY <1>2, <1>3 DEF DeclareCommit
<1>5. h.packets[1].rev = d.job.id
  <2>1. Drew(d, h)
    BY <1>3, AtWork DEF Claims
  <2>. QED  BY <1>4, <2>1 DEF Drew
<1>6. PICK v : v = h.version + 1
  OBVIOUS
<1>7. head' = [h EXCEPT !.version = v, !.overlay = d.job.id]
  BY <1>4, <1>6
<1>8. head'.overlay = d.job.id /\ head'.packets = h.packets
  BY <1>7 DEF Revision
<1>. QED  BY <1>5, <1>8

\* What a delivery learned before a newer act of a person never lands over it: it writes no
\* row of another extraction, and the drawing it declares is that of the head's own packet.
THEOREM LateWorkHarmless == Spec => LateWorkIsHarmless
<1>1. ASSUME IInv, [Next]_vars
      PROVE  [\A w \in Worker, p \in DOMAIN plates :
                 worker'[w] # worker[w] /\ plates'[p] # plates[p] => plates[p].id = worker[w].job.id]_vars
  BY <1>1, LateOutcome
<1>2. ASSUME IInv, [Next]_vars
      PROVE  [\A w \in Worker : worker[w].pc = "declaring" /\ head' # head /\ worker'[w] # worker[w]
                 => head'.overlay = head'.packets[1].rev]_vars
  BY <1>2, Declares
<1>. QED  BY <1>1, <1>2, Invariance, PTL DEF Spec, LateWorkIsHarmless, LateOutcomeIsHarmless,
              DeclaresTheCurrentPacket

-----------------------------------------------------------------------------
(* A stale bulletin is said to be stale.  The invariant speaks of a record  *)
(* of every packet ever written, by plate and by the version that wrote it: *)
(* the packets in the head and in the hands of the requests are those of    *)
(* the record, and the stamp of the head finds in it what the bulletin was  *)
(* made from.                                                               *)

Writings == [Position -> [Nat -> Packets]]

\* The second record says the same of everything written up to version n.
Extends(w, more, n) ==
    \A p \in Position : \A k \in Nat : k <= n => more[p][k] = w[p][k]

\* The packets of a revision are in the record, and not of after version n.
Recorded(w, n, rev) ==
    \A p \in Position :
        rev.packets[p].rev <= n /\ rev.packets[p] = w[p][rev.packets[p].rev]

\* What a stamp says a bulletin was made from.
FromStamp(w, stamp) ==
    [packets |-> [p \in Position |-> w[p][stamp.packets[p]]],
     codes |-> stamp.codes, links |-> stamp.links]

\* The bulletin of a revision is the one that could be built from what its stamp says.
Described(w, rev) ==
    /\ \A p \in Position : rev.stamp.packets[p] <= rev.version
    /\ rev.bulletin # Blank =>
          /\ rev.bulletin = Measured(FromStamp(w, rev.stamp), rev.stamp.rows, rev.stamp.matrix)
          /\ MayBuild(FromStamp(w, rev.stamp), rev.stamp.rows, rev.stamp.matrix)

Builds == {"build", "buildWithMatrix"}

Attested(w, n, q) ==
    q.pc \in {"read", "ready"} =>
        /\ Recorded(w, n, q.view)
        /\ q.act.kind \in Builds => MayBuild(q.view, q.rows, Posted(q.act))

Founds(w) ==
    /\ Recorded(w, head.version, head)
    /\ ~crossed => Described(w, head)
    /\ \A r \in Request : Attested(w, head.version, request[r])

Founded == \E w \in Writings : Founds(w)

LEMMA RecordedMore ==
    ASSUME NEW w \in Writings, NEW more \in Writings, NEW n \in Nat, NEW m \in Nat, n <= m,
           Extends(w, more, n), NEW rev \in Revision, Recorded(w, n, rev)
    PROVE  Recorded(more, m, rev)
<1>. SUFFICES ASSUME NEW p \in Position
              PROVE  rev.packets[p].rev <= m /\ rev.packets[p] = more[p][rev.packets[p].rev]
  BY DEF Recorded
<1>1. PICK k \in Nat : k = rev.packets[p].rev
  BY DEF Revision, Packets
<1>2. k <= n /\ rev.packets[p] = w[p][k]
  BY <1>1 DEF Recorded
<1>3. more[p][k] = w[p][k]
  BY <1>2 DEF Extends
<1>. QED  BY <1>1, <1>2, <1>3

LEMMA AttestedMore ==
    ASSUME NEW w \in Writings, NEW more \in Writings, NEW n \in Nat, NEW m \in Nat, n <= m,
           Extends(w, more, n), NEW q \in RequestState, Attested(w, n, q)
    PROVE  Attested(more, m, q)
<1>1. q.view \in Revision
  BY DEF RequestState
<1>. QED  BY <1>1, RecordedMore DEF Attested

LEMMA DescribedMore ==
    ASSUME NEW w \in Writings, NEW more \in Writings, NEW rev \in Revision,
           Extends(w, more, rev.version), Described(w, rev),
           NEW next \in Revision, rev.version <= next.version,
           next.bulletin = rev.bulletin, next.stamp = rev.stamp
    PROVE  Described(more, next)
<1>1. \A p \in Position : rev.stamp.packets[p] \in Nat /\ rev.stamp.packets[p] <= rev.version
  BY DEF Described, Revision, Stamps
<1>2. \A p \in Position : more[p][rev.stamp.packets[p]] = w[p][rev.stamp.packets[p]]
  BY <1>1 DEF Extends
<1>3. FromStamp(more, next.stamp) = FromStamp(w, rev.stamp)
  BY <1>2 DEF FromStamp
<1>4. \A p \in Position : next.stamp.packets[p] <= next.version
  <2>1. rev.version \in Nat /\ next.version \in Nat
    BY DEF Revision
  <2>. QED  BY <1>1, <2>1
<1>. QED  BY <1>3, <1>4 DEF Described

\* A bulletin is made from packets, codes and links, and from nothing else.
LEMMA SameSources ==
    ASSUME NEW rev, NEW src, NEW rows, NEW matrix,
           src.packets = rev.packets, src.codes = rev.codes, src.links = rev.links
    PROVE  /\ Measured(src, rows, matrix) = Measured(rev, rows, matrix)
           /\ MayBuild(src, rows, matrix) <=> MayBuild(rev, rows, matrix)
<1>1. Discarded(src) = Discarded(rev)
  BY DEF Discarded
<1>2. \A p : Confirmed(src, p) <=> Confirmed(rev, p)
  BY DEF Confirmed
<1>3. \A p : Printed(src, p, matrix) = Printed(rev, p, matrix)
  BY <1>2 DEF Printed
<1>4. \A p : Priced(src, p, matrix) <=> Priced(rev, p, matrix)
  BY <1>1, <1>2 DEF Priced
<1>5. \A p : Reviewed(src, p) <=> Reviewed(rev, p)
  BY DEF Reviewed, Extracted
<1>6. MayBuild(src, rows, matrix) <=> MayBuild(rev, rows, matrix)
  BY <1>2, <1>4, <1>5 DEF MayBuild
<1>7. {line \in (1..rows) \X Code : line[2] \in Printed(src, line[1], matrix)}
        = {line \in (1..rows) \X Code : line[2] \in Printed(rev, line[1], matrix)}
  BY <1>3
<1>. QED  BY <1>1, <1>6, <1>7 DEF Measured

\* What the stamp of a recorded revision finds in the record is that revision.
LEMMA Recovered ==
    ASSUME NEW w \in Writings, NEW n, NEW rev \in Revision, Recorded(w, n, rev),
           NEW rows, NEW matrix
    PROVE  LET stamp == Sources(rev, rows, matrix)
               src == FromStamp(w, stamp)
           IN  /\ stamp.rows = rows /\ stamp.matrix = matrix
               /\ \A p \in Position : stamp.packets[p] = rev.packets[p].rev
               /\ Measured(src, rows, matrix) = Measured(rev, rows, matrix)
               /\ MayBuild(src, rows, matrix) <=> MayBuild(rev, rows, matrix)
<1>1. PICK stamp : stamp = Sources(rev, rows, matrix)
  OBVIOUS
<1>2. PICK src : src = FromStamp(w, stamp)
  OBVIOUS
<1>3. /\ stamp.rows = rows /\ stamp.matrix = matrix
      /\ stamp.codes = rev.codes /\ stamp.links = rev.links
      /\ \A p \in Position : stamp.packets[p] = rev.packets[p].rev
  BY <1>1 DEF Sources
<1>4. src.packets = rev.packets
  <2>1. src.packets = [p \in Position |-> w[p][stamp.packets[p]]]
    BY <1>2 DEF FromStamp
  <2>2. rev.packets = [p \in Position |-> rev.packets[p]]
    BY DEF Revision
  <2>3. \A p \in Position : rev.packets[p] = w[p][stamp.packets[p]]
    BY <1>3 DEF Recorded
  <2>. QED  BY <2>1, <2>2, <2>3
<1>5. src.codes = rev.codes /\ src.links = rev.links
  BY <1>2, <1>3 DEF FromStamp
<1>6. /\ Measured(src, rows, matrix) = Measured(rev, rows, matrix)
      /\ MayBuild(src, rows, matrix) <=> MayBuild(rev, rows, matrix)
  BY <1>4, <1>5, SameSources
<1>. QED  BY <1>1, <1>2, <1>3, <1>6

\* A stamp that is that of the head finds what the head says now.
LEMMA FoundedSaysStale ==
    ASSUME TypeOK, Founded
    PROVE  StaleIsSaid
<1>1. PICK w \in Writings : Founds(w)
  BY DEF Founded
<1>2. PICK h \in Revision : h = head
  BY Typed
<1>3. PICK rows : rows = Len(plates)
  OBVIOUS
<1>4. SUFFICES ASSUME ~crossed, Deceives(h, rows) PROVE FALSE
  BY <1>2, <1>3 DEF StaleIsSaid
<1>5. Recorded(w, h.version, h) /\ Described(w, h)
  BY <1>1, <1>2, <1>4 DEF Founds
<1>6. /\ h.bulletin # Blank
      /\ h.stamp = Sources(h, rows, h.matrix)
      /\ h.bulletin # Measured(h, rows, h.matrix) \/ ~MayBuild(h, rows, h.matrix)
  BY <1>4 DEF Deceives, Stale
<1>7. PICK matrix, stamp : matrix = h.matrix /\ stamp = h.stamp
  OBVIOUS
<1>8. /\ stamp.rows = rows /\ stamp.matrix = matrix
      /\ Measured(FromStamp(w, stamp), rows, matrix) = Measured(h, rows, matrix)
      /\ MayBuild(FromStamp(w, stamp), rows, matrix) <=> MayBuild(h, rows, matrix)
  BY <1>5, <1>6, <1>7, Recovered
<1>9. /\ h.bulletin = Measured(FromStamp(w, stamp), stamp.rows, stamp.matrix)
      /\ MayBuild(FromStamp(w, stamp), stamp.rows, stamp.matrix)
  BY <1>5, <1>6, <1>7 DEF Described
<1>. QED  BY <1>6, <1>7, <1>8, <1>9

LEMMA FoundsCarry ==
    ASSUME TypeOK, TypeOK', NEW w \in Writings, NEW more \in Writings, Founds(w),
           Extends(w, more, head.version), head.version <= head'.version,
           Recorded(more, head'.version, head'), ~crossed' => Described(more, head'),
           \A r \in Request : \/ request'[r] = request[r]
                              \/ Attested(more, head'.version, request'[r])
    PROVE  Founded'
<1>1. head \in Revision /\ head' \in Revision
  BY Typed, TypedNext
<1>2. PICK n \in Nat, m \in Nat : n = head.version /\ m = head'.version
  BY <1>1 DEF Revision
<1>3. ASSUME NEW r \in Request PROVE Attested(more, m, request'[r])
  <2>1. CASE request'[r] = request[r]
    <3>1. request[r] \in RequestState /\ Attested(w, n, request[r])
      BY <1>2, Columns DEF Founds
    <3>. QED  BY <1>2, <2>1, <3>1, AttestedMore
  <2>. QED  BY <1>2, <2>1
<1>. QED  BY <1>2, <1>3 DEF Founded, Founds

\* A step that leaves the head alone.
LEMMA FoundsStay ==
    ASSUME TypeOK, TypeOK', Founded, head' = head, crossed' = crossed,
           \A r \in Request, w \in Writings :
               Founds(w) => \/ request'[r] = request[r]
                            \/ Attested(w, head.version, request'[r])
    PROVE  Founded'
<1>1. PICK w \in Writings : Founds(w)
  BY DEF Founded
<1>2. head.version \in Nat /\ head.version <= head'.version
  BY Typed DEF Revision
<1>3. Extends(w, w, head.version)
  BY DEF Extends
<1>4. Recorded(w, head'.version, head')
  BY <1>1 DEF Founds
<1>5. ~crossed' => Described(w, head')
  BY <1>1 DEF Founds
<1>. QED  BY <1>1, <1>2, <1>3, <1>4, <1>5, FoundsCarry

\* A revision is stored, if it comes in time.
Saves(r, next) ==
    /\ head' = IF Commits(r) THEN next ELSE head
    /\ \A k \in Request : request'[k] = request[k] \/ request'[k].pc \in {"idle", "enqueue"}

LEMMA StoredSaves ==
    ASSUME TypeOK, NEW r \in Request, NEW rev, NEW version, NEW messages,
           Stored(r, rev, version, messages)
    PROVE  Saves(r, [rev EXCEPT !.version = @ + 1])
<1>1. IF Commits(r)
      THEN /\ head' = [rev EXCEPT !.version = @ + 1]
           /\ request' = [request EXCEPT ![r] =
                 IF messages = {} THEN Waiting
                 ELSE [Waiting EXCEPT !.pc = "enqueue", !.messages = messages]]
      ELSE request' = [request EXCEPT ![r] = Waiting] /\ head' = head
  BY DEF Stored
<1>2. request \in [Request -> RequestState]
  BY Typed
<1>3. PICK e : e = [Waiting EXCEPT !.pc = "enqueue", !.messages = messages]
  OBVIOUS
<1>4. Waiting.pc = "idle" /\ e.pc = "enqueue"
  BY <1>3 DEF Waiting
<1>5. request' = [request EXCEPT ![r] = Waiting] \/ request' = [request EXCEPT ![r] = e]
  BY <1>1, <1>3
<1>6. \A k \in Request : request'[k] = request[k] \/ request'[k].pc \in {"idle", "enqueue"}
  BY <1>2, <1>4, <1>5
<1>. QED  BY <1>1, <1>6 DEF Saves

\* The record goes on with the packet the revision writes, if it writes one.
LEMMA SavedFounds ==
    ASSUME IInv, IInv', NEW r \in Request, NEW w \in Writings, NEW more \in Writings, Founds(w),
           Extends(w, more, head.version),
           NEW next, Saves(r, next), next.version = head.version + 1,
           Commits(r) => Recorded(more, head.version + 1, next),
           Commits(r) /\ ~crossed' => Described(more, next),
           ~Commits(r) => crossed' = crossed
    PROVE  Founded'
<1>0. TypeOK /\ TypeOK'
  BY DEF IInv
<1>1. \A k \in Request : \A n, x : request'[k] = request[k] \/ Attested(x, n, request'[k])
  BY DEF Attested, Saves
<1>2. PICK v \in Nat : v = head.version
  BY <1>0, Typed DEF Revision
<1>3. CASE Commits(r)
  <2>1. head' = next
    BY <1>3 DEF Saves
  <2>2. head.version <= head'.version
    BY <1>2, <2>1
  <2>3. Recorded(more, head'.version, head') /\ (~crossed' => Described(more, head'))
    BY <1>3, <2>1
  <2>. QED  BY <1>0, <1>1, <2>2, <2>3, FoundsCarry
<1>4. CASE ~Commits(r)
  <2>1. head' = head /\ crossed' = crossed /\ Founded
    BY <1>4 DEF Founded, Saves
  <2>. QED  BY <1>0, <1>1, <2>1, FoundsStay
<1>. QED  BY <1>3, <1>4

\* One that writes no packet, and either leaves bulletin and stamp as they are, or says that
\* they have crossed, or writes a bulletin with its stamp.
LEMMA SavedAside ==
    ASSUME IInv, IInv', Founded, NEW r \in Request,
           NEW next, Saves(r, next), next.version = head.version + 1,
           next.packets = head.packets,
           \A w \in Writings : Founds(w) /\ Commits(r) /\ ~crossed' =>
               \/ next.bulletin = head.bulletin /\ next.stamp = head.stamp /\ ~crossed
               \/ Described(w, next),
           ~Commits(r) => crossed' = crossed
    PROVE  Founded'
<1>1. PICK w \in Writings : Founds(w)
  BY DEF Founded
<1>2. PICK h \in Revision, v \in Nat : h = head /\ v = h.version
  BY Typed DEF IInv, Revision
<1>3. v + 1 \in Nat /\ v <= v + 1 /\ Extends(w, w, v)
  BY DEF Extends
<1>4. Recorded(w, v, h)
  BY <1>1, <1>2 DEF Founds
<1>5. Recorded(w, v + 1, h)
  BY <1>3, <1>4, RecordedMore
<1>6. Recorded(w, head.version + 1, next)
  BY <1>2, <1>5 DEF Recorded
<1>7. ASSUME Commits(r), ~crossed' PROVE Described(w, next)
  <2>1. CASE next.bulletin = h.bulletin /\ next.stamp = h.stamp /\ ~crossed
    <3>1. Described(w, h)
      BY <1>1, <1>2, <2>1 DEF Founds
    <3>2. next \in Revision
      BY <1>7, Typed, TypedNext DEF IInv, Saves
    <3>3. h.version <= next.version
      BY <1>2
    <3>. QED  BY <1>2, <1>3, <2>1, <3>1, <3>2, <3>3, DescribedMore
  <2>. QED  BY <1>1, <1>2, <1>7, <2>1
<1>8. Extends(w, w, head.version)
  BY <1>2, <1>3
<1>. QED  BY <1>1, <1>6, <1>7, <1>8, SavedFounds

\* The packet written is entered in the record under the version that writes it.
LEMMA Entered ==
    ASSUME NEW w \in Writings, NEW n \in Nat, NEW p \in Position,
           NEW packet \in Packets, packet.rev = n + 1
    PROVE  \E more \in Writings : Extends(w, more, n) /\ more[p][n + 1] = packet
<1>1. PICK k \in Nat : k = n + 1
  OBVIOUS
<1>2. PICK more : more = [w EXCEPT ![p] = [w[p] EXCEPT ![k] = packet]]
  OBVIOUS
<1>3. more \in Writings
  BY <1>2 DEF Writings
<1>4. more[p][k] = packet
  BY <1>2 DEF Writings
<1>5. ASSUME NEW q \in Position, NEW j \in Nat, j <= n PROVE more[q][j] = w[q][j]
  <2>1. j # k
    BY <1>1, <1>5
  <2>. QED  BY <1>2, <2>1 DEF Writings
<1>. QED  BY <1>1, <1>3, <1>4, <1>5 DEF Extends

LEMMA RewrittenRecorded ==
    ASSUME NEW w \in Writings, NEW n \in Nat, NEW h \in Revision, NEW view \in Revision,
           Recorded(w, n, h), Recorded(w, n, view), NEW p \in Position,
           NEW packet, packet.rev \in Nat, packet.rev <= n, w[p][packet.rev] = packet, NEW rev,
           rev.packets = Rewritten(h.packets, view.packets, p, packet)
    PROVE  Recorded(w, n, rev)
<1>0. 1 \in Position
  BY ConstantsAssumption DEF ConstantsAssumption, Position
<1>1. h.packets \in [Position -> Packets] /\ view.packets \in [Position -> Packets]
  BY DEF Revision
<1>2. ASSUME NEW q \in Position
      PROVE  \/ rev.packets[q] = packet /\ q = p
             \/ rev.packets[q] = h.packets[q] \/ rev.packets[q] = view.packets[q]
  BY <1>0, <1>1 DEF Rewritten
<1>. QED  BY <1>2 DEF Recorded

LEMMA DecisionFounds ==
    ASSUME IInv, IInv', Founded, NEW r \in Request, CommitDecision(r)
    PROVE  Founded'
<1>1. PICK packet : packet = [rev |-> head.version + 1, open |-> request[r].act.kind = "decide",
                              reading |-> IF request[r].act.kind = "decide" THEN "proposed"
                                          ELSE IF request[r].act.kind = "decideAll"
                                               THEN "confirmed" ELSE "rejected"]
  OBVIOUS
<1>2. PICK act, view, h : act = request[r].act /\ view = request[r].view /\ h = head
  OBVIOUS
<1>3. request[r].pc = "ready" /\ crossed' = crossed
  BY DEF CommitDecision, Ready
<1>4. act \in Act /\ view \in Revision /\ h \in Revision /\ h.version \in Nat
  BY <1>2, <1>3, InHand DEF Revision
<1>5. packet \in Packets /\ packet.rev = h.version + 1
  BY <1>1, <1>2, <1>4 DEF Packets
<1>6. PICK p \in act.on :
          Stored(r, [head EXCEPT !.packets = Rewritten(@, view.packets, p, packet)],
                 NextVersion(r), IF p = 1 THEN {Overlay(packet.rev)} ELSE {})
  BY <1>1, <1>2 DEF CommitDecision, CommitRevision
<1>7. p \in Position
  BY <1>4, <1>6, Bodies, ConstantsAssumption
<1>8. PICK m \in Nat : m = h.version + 1
  BY <1>4
<1>9. PICK packets, next :
          /\ packets = Rewritten(h.packets, view.packets, p, packet)
          /\ next = [h EXCEPT !.packets = packets, !.version = m]
  OBVIOUS
<1>10. /\ next.version = m /\ next.bulletin = h.bulletin /\ next.stamp = h.stamp
       /\ next.packets = Rewritten(h.packets, view.packets, p, packet)
  BY <1>4, <1>9 DEF Revision
<1>11. Saves(r, next)
  <2>1. PICK rev : rev = [h EXCEPT !.packets = packets]
    OBVIOUS
  <2>2. Stored(r, rev, NextVersion(r), IF p = 1 THEN {Overlay(packet.rev)} ELSE {})
    BY <1>2, <1>6, <1>9, <2>1
  <2>3. Saves(r, [rev EXCEPT !.version = @ + 1])
    BY <2>2, StoredSaves DEF IInv
  <2>4. [rev EXCEPT !.version = @ + 1] = next
    BY <1>4, <1>8, <1>9, <2>1 DEF Revision
  <2>. QED  BY <2>3, <2>4
<1>12. PICK w \in Writings : Founds(w)
  BY DEF Founded
<1>13. PICK more \in Writings : Extends(w, more, h.version) /\ more[p][h.version + 1] = packet
  BY <1>4, <1>5, <1>7, Entered
<1>14. Recorded(more, m, next)
  <2>1. Recorded(w, h.version, h) /\ Recorded(w, h.version, view)
    BY <1>2, <1>3, <1>12 DEF Founds, Attested
  <2>2. h.version <= m
    BY <1>4, <1>8
  <2>3. Recorded(more, m, h) /\ Recorded(more, m, view)
    BY <1>4, <1>13, <2>1, <2>2, RecordedMore
  <2>4. packet.rev \in Nat /\ packet.rev <= m /\ more[p][packet.rev] = packet
    BY <1>5, <1>8, <1>13
  <2>. QED  BY <1>4, <1>7, <1>10, <2>3, <2>4, RewrittenRecorded
<1>15. ASSUME Commits(r), ~crossed' PROVE Described(more, next)
  <2>1. Described(w, h)
    BY <1>2, <1>3, <1>12, <1>15 DEF Founds
  <2>2. next \in Revision
    BY <1>11, <1>15, Typed, TypedNext DEF IInv, Saves
  <2>3. h.version <= next.version
    BY <1>4, <1>8, <1>10
  <2>. QED  BY <1>4, <1>10, <1>13, <2>1, <2>2, <2>3, DescribedMore
<1>16. Extends(w, more, head.version) /\ next.version = head.version + 1
       /\ Recorded(more, head.version + 1, next)
  BY <1>2, <1>8, <1>10, <1>13, <1>14
<1>. QED  BY <1>3, <1>11, <1>12, <1>15, <1>16, SavedFounds

\* The acts that write neither packet nor bulletin.
LEMMA AsideActs ==
    ASSUME IInv, IInv', Founded, NEW r \in Request,
           CommitSuggestions(r) \/ CommitCode(r) \/ CommitLink(r)
    PROVE  Founded'
<1>1. PICK h \in Revision : h = head
  BY Typed DEF IInv
<1>2. crossed' = crossed /\ TypeOK
  BY DEF CommitSuggestions, CommitCode, CommitLink, IInv
<1>3. \E version, x, rev :
          /\ Stored(r, rev, version, {})
          /\ \/ rev = [h EXCEPT !.shortlist = x]
             \/ rev = [h EXCEPT !.codes = x]
             \/ rev = [h EXCEPT !.links = x]
  <2>1. CASE CommitSuggestions(r)
    BY <1>1, <2>1 DEF CommitSuggestions
  <2>2. CASE CommitCode(r)
    BY <1>1, <2>2 DEF CommitCode, CommitRevision
  <2>3. CASE CommitLink(r)
    BY <1>1, <2>3 DEF CommitLink, CommitRevision
  <2>. QED  BY <2>1, <2>2, <2>3
<1>4. PICK version, x, rev :
          /\ Stored(r, rev, version, {})
          /\ \/ rev = [h EXCEPT !.shortlist = x]
             \/ rev = [h EXCEPT !.codes = x]
             \/ rev = [h EXCEPT !.links = x]
  BY <1>3
<1>5. PICK next : next = [rev EXCEPT !.version = @ + 1]
  OBVIOUS
<1>6. /\ next.version = h.version + 1 /\ next.packets = h.packets
      /\ next.bulletin = h.bulletin /\ next.stamp = h.stamp
  BY <1>4, <1>5 DEF Revision
<1>7. Saves(r, next)
  BY <1>2, <1>4, <1>5, StoredSaves
<1>. QED  BY <1>1, <1>2, <1>6, <1>7, SavedAside

LEMMA ApprovalFounds ==
    ASSUME IInv, IInv', Founded, NEW r \in Request, CommitApproval(r)
    PROVE  Founded'
<1>1. PICK h \in Revision, read \in {request[r].view.bulletin} : h = head
  BY Typed DEF IInv
<1>2. crossed' = (crossed \/ (Commits(r) /\ read # h.bulletin)) /\ TypeOK
  BY <1>1 DEF CommitApproval, IInv
<1>3. PICK version, rev :
          Stored(r, rev, version, {}) /\ rev = [h EXCEPT !.bulletin = read, !.approval = read]
  BY <1>1 DEF CommitApproval, CommitRevision
<1>4. PICK next : next = [rev EXCEPT !.version = @ + 1]
  OBVIOUS
<1>5. /\ next.version = h.version + 1 /\ next.packets = h.packets
      /\ next.bulletin = read /\ next.stamp = h.stamp
  BY <1>3, <1>4 DEF Revision
<1>6. Saves(r, next)
  BY <1>2, <1>3, <1>4, StoredSaves
<1>7. Commits(r) /\ ~crossed' => read = h.bulletin /\ ~crossed
  BY <1>2
<1>8. ~Commits(r) => crossed' = crossed
  BY <1>2, InHand DEF CommitApproval, Ready
<1>. QED  BY <1>1, <1>5, <1>6, <1>7, <1>8, SavedAside

LEMMA ExportFounds ==
    ASSUME IInv, IInv', Founded, NEW r \in Request, CommitExport(r)
    PROVE  Founded'
<1>1. PICK h \in Revision, view \in {request[r].view} : h = head
  BY Typed DEF IInv
<1>2. crossed' = (crossed \/ (Commits(r) /\ view.stamp # h.stamp)) /\ TypeOK
  BY <1>1 DEF CommitExport, IInv
<1>3. PICK version, rev :
          /\ Stored(r, rev, version, {})
          /\ rev = [h EXCEPT !.workbook = view.bulletin, !.stamp = view.stamp,
                             !.overlay = view.overlay]
  BY <1>1 DEF CommitExport, CommitRevision
<1>4. PICK next : next = [rev EXCEPT !.version = @ + 1]
  OBVIOUS
<1>5. /\ next.version = h.version + 1 /\ next.packets = h.packets
      /\ next.bulletin = h.bulletin /\ next.stamp = view.stamp
  BY <1>3, <1>4 DEF Revision
<1>6. Saves(r, next)
  BY <1>2, <1>3, <1>4, StoredSaves
<1>7. Commits(r) /\ ~crossed' => view.stamp = h.stamp /\ ~crossed
  BY <1>2
<1>8. ~Commits(r) => crossed' = crossed
  BY <1>2, InHand DEF CommitExport, Ready
<1>. QED  BY <1>1, <1>5, <1>6, <1>7, <1>8, SavedAside

\* A bulletin is written with the stamp of what it was made from.
LEMMA BulletinFounds ==
    ASSUME IInv, IInv', Founded, NEW r \in Request, CommitBulletin(r)
    PROVE  Founded'
<1>1. PICK h, view, rows, matrix :
          /\ h = head /\ view = request[r].view /\ rows = request[r].rows
          /\ matrix = Posted(request[r].act)
  OBVIOUS
<1>2. /\ request[r].pc = "ready" /\ request[r].act.kind \in Builds
      /\ crossed' = (crossed /\ ~Commits(r)) /\ TypeOK
  BY <1>1 DEF CommitBulletin, Ready, Builds, IInv
<1>3. h \in Revision /\ view \in Revision
  BY <1>1, <1>2, InHand
<1>4. PICK bulletin, stamp :
          bulletin = Measured(view, rows, matrix) /\ stamp = Sources(view, rows, matrix)
  OBVIOUS
<1>5. PICK version, rev :
          /\ Stored(r, rev, version, {})
          /\ rev = [h EXCEPT !.bulletin = bulletin, !.matrix = matrix, !.stamp = stamp,
                             !.approval = view.approval, !.overlay = view.overlay]
  BY <1>1, <1>4 DEF CommitBulletin, CommitRevision
<1>6. PICK next : next = [rev EXCEPT !.version = @ + 1]
  OBVIOUS
<1>7. /\ next.version = h.version + 1 /\ next.packets = h.packets
      /\ next.bulletin = bulletin /\ next.stamp = stamp
  BY <1>3, <1>5, <1>6 DEF Revision
<1>8. Saves(r, next)
  BY <1>2, <1>5, <1>6, StoredSaves
<1>9. ASSUME NEW w \in Writings, Founds(w) PROVE Described(w, next)
  <2>1. Recorded(w, h.version, view) /\ MayBuild(view, rows, matrix)
    BY <1>1, <1>2, <1>9 DEF Founds, Attested
  <2>2. /\ stamp.rows = rows /\ stamp.matrix = matrix
        /\ \A p \in Position : stamp.packets[p] = view.packets[p].rev
        /\ Measured(FromStamp(w, stamp), rows, matrix) = Measured(view, rows, matrix)
        /\ MayBuild(FromStamp(w, stamp), rows, matrix) <=> MayBuild(view, rows, matrix)
    BY <1>3, <1>4, <2>1, Recovered
  <2>3. \A p \in Position : stamp.packets[p] <= next.version
    <3>1. \A p \in Position : view.packets[p].rev \in Nat /\ view.packets[p].rev <= h.version
      BY <1>3, <2>1 DEF Recorded, Revision, Packets
    <3>2. h.version \in Nat
      BY <1>3 DEF Revision
    <3>. QED  BY <1>7, <2>2, <3>1, <3>2
  <2>. QED  BY <1>4, <1>7, <2>1, <2>2, <2>3 DEF Described
<1>10. ~Commits(r) => crossed' = crossed
  BY <1>2, InHand
<1>. QED  BY <1>1, <1>7, <1>8, <1>9, <1>10, SavedAside

\* What a request reads is the head; what it builds was found to be buildable.
LEMMA ReadFounds ==
    ASSUME IInv, IInv', Founded, NEW r \in Request, Read(r)
    PROVE  Founded'
<1>0. TypeOK /\ TypeOK'
  BY DEF IInv
<1>1. PICK s, h, n, next :
          /\ s = request[r] /\ h = head /\ n = Len(plates)
          /\ next = IF s.act.kind \in {"append", "extract", "extractOne"} THEN "ready" ELSE "read"
  OBVIOUS
<1>2. /\ request' = [request EXCEPT ![r] =
            IF Accepts(s.act, h, plates) THEN [s EXCEPT !.pc = next, !.rows = n, !.view = h]
            ELSE Waiting]
      /\ head' = head /\ crossed' = crossed
  BY <1>1 DEF Read, rowVars, historyVars
<1>3. s \in RequestState /\ request \in [Request -> RequestState]
  BY <1>0, <1>1, Columns, Typed
<1>4. PICK q : q = IF Accepts(s.act, h, plates) THEN [s EXCEPT !.pc = next, !.rows = n, !.view = h]
                   ELSE Waiting
  OBVIOUS
<1>5. \A k \in Request : request'[k] = IF k = r THEN q ELSE request[k]
  BY <1>2, <1>3, <1>4
<1>6. ASSUME NEW w \in Writings, Founds(w) PROVE Attested(w, h.version, q)
  <2>1. CASE Accepts(s.act, h, plates)
    <3>1. q.view = h /\ q.rows = n /\ q.act = s.act
      BY <1>3, <1>4, <2>1 DEF RequestState
    <3>2. Recorded(w, h.version, h)
      BY <1>1, <1>6 DEF Founds
    <3>3. s.act.kind \in Builds => MayBuild(h, n, Posted(s.act))
      BY <1>1, <2>1 DEF Accepts, Builds
    <3>. QED  BY <3>1, <3>2, <3>3 DEF Attested
  <2>2. CASE ~Accepts(s.act, h, plates)
    <3>1. q.pc = "idle"
      BY <1>4, <2>2 DEF Waiting
    <3>. QED  BY <3>1 DEF Attested
  <2>. QED  BY <2>1, <2>2
<1>7. \A k \in Request, w \in Writings :
          Founds(w) => request'[k] = request[k] \/ Attested(w, head.version, request'[k])
  BY <1>1, <1>5, <1>6
<1>. QED  BY <1>0, <1>2, <1>7, FoundsStay

LEMMA CarryFounds ==
    ASSUME IInv, IInv', Founded, NEW r \in Request, Carry(r)
    PROVE  Founded'
<1>0. TypeOK /\ TypeOK'
  BY DEF IInv
<1>1. PICK s, v : s = request[r] /\ v = head.version
  OBVIOUS
<1>2. /\ s.pc = "read" /\ head' = head /\ crossed' = crossed
      /\ request' = [request EXCEPT ![r] = [s EXCEPT !.pc = "ready", !.at = v]]
  <2>1. request \in [Request -> RequestState]
    BY <1>0, Typed
  <2>. QED  BY <1>1, <2>1 DEF Carry, rowVars, historyVars, RequestState
<1>3. s \in RequestState /\ request \in [Request -> RequestState]
  BY <1>0, <1>1, Columns, Typed
<1>4. PICK q : q = [s EXCEPT !.pc = "ready", !.at = v]
  OBVIOUS
<1>5. q.view = s.view /\ q.rows = s.rows /\ q.act = s.act
  BY <1>3, <1>4 DEF RequestState
<1>6. \A k \in Request : request'[k] = IF k = r THEN q ELSE request[k]
  BY <1>2, <1>3, <1>4
<1>7. ASSUME NEW w \in Writings, Founds(w) PROVE Attested(w, v, q)
  BY <1>1, <1>2, <1>5, <1>7 DEF Founds, Attested
<1>8. \A k \in Request, w \in Writings :
          Founds(w) => request'[k] = request[k] \/ Attested(w, head.version, request'[k])
  BY <1>1, <1>6, <1>7
<1>. QED  BY <1>0, <1>2, <1>8, FoundsStay

\* The steps of a request that neither read the head nor write it.
LEMMA ApiFoundsStay ==
    ASSUME IInv, IInv', Founded, NEW r \in Request,
           \/ Enqueue(r) \/ CommitPlate(r) \/ CommitExtraction(r)
           \/ \E act \in Act : Load(r, act)
    PROVE  Founded'
<1>0. TypeOK /\ TypeOK' /\ request \in [Request -> RequestState]
  BY Typed DEF IInv
<1>1. head' = head /\ crossed' = crossed
  BY DEF Enqueue, CommitPlate, CommitExtraction, Load, rowVars, historyVars
<1>2. \E q : request' = [request EXCEPT ![r] = q] /\ q.pc \in {"idle", "loaded", "enqueue"}
  <2>1. Waiting.pc = "idle"
    BY DEF Waiting
  <2>2. CASE Enqueue(r) \/ CommitPlate(r)
    BY <2>1, <2>2 DEF Enqueue, CommitPlate
  <2>3. CASE CommitExtraction(r)
    <3>1. PICK messages : request' = [request EXCEPT ![r] =
                                         [Waiting EXCEPT !.pc = "enqueue", !.messages = messages]]
      BY <2>3 DEF CommitExtraction
    <3>2. [Waiting EXCEPT !.pc = "enqueue", !.messages = messages].pc = "enqueue"
      BY DEF Waiting
    <3>. QED  BY <3>1, <3>2
  <2>4. CASE \E act \in Act : Load(r, act)
    <3>1. PICK act, base : request' = [request EXCEPT ![r] =
                              [Waiting EXCEPT !.pc = "loaded", !.act = act, !.base = base]]
      BY <2>4 DEF Load
    <3>2. [Waiting EXCEPT !.pc = "loaded", !.act = act, !.base = base].pc = "loaded"
      BY DEF Waiting
    <3>. QED  BY <3>1, <3>2
  <2>. QED  BY <2>2, <2>3, <2>4
<1>3. \A k \in Request : \A w, n : request'[k] = request[k] \/ Attested(w, n, request'[k])
  BY <1>0, <1>2 DEF Attested
<1>. QED  BY <1>0, <1>1, <1>3, FoundsStay

LEMMA HandleFounds ==
    ASSUME IInv, IInv', Founded, NEW r \in Request, Handle(r) \/ \E act \in Act : Load(r, act)
    PROVE  Founded'
BY ReadFounds, CarryFounds, ApiFoundsStay, DecisionFounds, AsideActs, ApprovalFounds,
   ExportFounds, BulletinFounds
   DEF Handle

\* The extraction of a plate writes a packet; nothing else a delivery does writes one.
LEMMA PublishedFounds ==
    ASSUME IInv, IInv', Founded, NEW d \in Worker, Published(d)
    PROVE  Founded'
<1>0. TypeOK /\ TypeOK'
  BY DEF IInv
<1>1. PICK h \in Revision, m \in Nat, p \in {worker[d].plate} : h = head /\ m = h.version + 1
  <2>1. PICK h \in Revision : h = head
    BY <1>0, Typed
  <2>2. h.version + 1 \in Nat
    BY DEF Revision
  <2>. QED  BY <2>1, <2>2
<1>2. PICK packet : packet = [NoPacket EXCEPT !.rev = m, !.open = TRUE]
  OBVIOUS
<1>3. p \in DOMAIN plates /\ head' = WithPacket(p, packet)
      /\ request' = request /\ crossed' = crossed
  BY <1>1, <1>2 DEF Published, Mine, historyVars
<1>4. p \in Position
  BY <1>0, <1>3, Columns
<1>5. packet \in Packets /\ packet.rev = m
  BY <1>2 DEF NoPacket, Packets
<1>6. PICK next, packets, overlay :
          /\ packets = [h.packets EXCEPT ![p] = packet]
          /\ overlay = IF p = 1 THEN packet.rev ELSE h.overlay
          /\ next = [h EXCEPT !.version = packet.rev, !.packets = packets, !.overlay = overlay]
  OBVIOUS
<1>7. head' = next
  BY <1>1, <1>3, <1>6 DEF WithPacket, Revision
<1>8. /\ next.version = m /\ next.bulletin = h.bulletin /\ next.stamp = h.stamp
      /\ next.packets = [h.packets EXCEPT ![p] = packet]
  BY <1>5, <1>6 DEF Revision
<1>9. PICK w \in Writings : Founds(w)
  BY DEF Founded
<1>10. h.version \in Nat /\ h.version <= m
  BY <1>1 DEF Revision
<1>11. PICK more \in Writings : Extends(w, more, h.version) /\ more[p][m] = packet
  <2>1. packet.rev = h.version + 1
    BY <1>1, <1>5
  <2>2. \E more \in Writings : Extends(w, more, h.version) /\ more[p][h.version + 1] = packet
    BY <1>4, <1>5, <1>10, <2>1, Entered
  <2>. QED  BY <1>1, <2>2
<1>12. Recorded(more, m, next)
  <2>1. Recorded(w, h.version, h)
    BY <1>1, <1>9 DEF Founds
  <2>2. Recorded(more, m, h)
    BY <1>10, <1>11, <2>1, RecordedMore
  <2>3. \A q \in Position : next.packets[q] = IF q = p THEN packet ELSE h.packets[q]
    BY <1>8 DEF Revision
  <2>. QED  BY <1>5, <1>11, <2>2, <2>3 DEF Recorded
<1>13. ASSUME ~crossed' PROVE Described(more, next)
  <2>1. Described(w, h)
    BY <1>1, <1>3, <1>9, <1>13 DEF Founds
  <2>2. next \in Revision
    BY <1>0, <1>7, TypedNext
  <2>. QED  BY <1>8, <1>10, <1>11, <2>1, <2>2, DescribedMore
<1>14. Extends(w, more, head.version) /\ head.version <= head'.version
       /\ Recorded(more, head'.version, head') /\ (~crossed' => Described(more, head'))
  BY <1>1, <1>7, <1>8, <1>10, <1>11, <1>12, <1>13
<1>. QED  BY <1>0, <1>3, <1>9, <1>14, FoundsCarry

LEMMA DeclareFounds ==
    ASSUME IInv, IInv', Founded, NEW d \in Worker, DeclareCommit(d)
    PROVE  Founded'
<1>0. TypeOK /\ TypeOK' /\ request' = request /\ crossed' = crossed
  BY DEF IInv, DeclareCommit, historyVars
<1>1. CASE head' = head
  BY <1>0, <1>1, FoundsStay
<1>2. CASE head' # head
  <2>1. PICK h \in Revision, m \in Nat, overlay \in {worker[d].job.id} :
            /\ h = head /\ m = h.version + 1
            /\ head' = [h EXCEPT !.version = @ + 1, !.overlay = overlay]
    <3>1. PICK h \in Revision : h = head
      BY <1>0, Typed
    <3>2. h.version + 1 \in Nat
      BY DEF Revision
    <3>. QED  BY <1>2, <3>1, <3>2 DEF DeclareCommit
  <2>2. head' = [h EXCEPT !.version = m, !.overlay = overlay]
    BY <2>1
  <2>3. PICK next : next = [h EXCEPT !.version = m, !.overlay = overlay]
    OBVIOUS
  <2>4. /\ next.version = m /\ next.bulletin = h.bulletin /\ next.stamp = h.stamp
        /\ next.packets = h.packets
    BY <2>3 DEF Revision
  <2>5. h.version \in Nat /\ h.version <= m
    BY <2>1 DEF Revision
  <2>6. PICK w \in Writings : Founds(w)
    BY DEF Founded
  <2>7. Extends(w, w, h.version)
    BY DEF Extends
  <2>8. Recorded(w, m, next)
    <3>1. Recorded(w, h.version, h)
      BY <2>1, <2>6 DEF Founds
    <3>2. Recorded(w, m, h)
      BY <2>5, <2>7, <3>1, RecordedMore
    <3>. QED  BY <2>4, <3>2 DEF Recorded
  <2>9. ASSUME ~crossed' PROVE Described(w, next)
    <3>1. Described(w, h) /\ next \in Revision
      BY <1>0, <2>1, <2>2, <2>3, <2>6, <2>9, TypedNext DEF Founds
    <3>. QED  BY <2>4, <2>5, <2>7, <3>1, DescribedMore
  <2>10. Extends(w, w, head.version) /\ head.version <= head'.version
         /\ Recorded(w, head'.version, head') /\ (~crossed' => Described(w, head'))
    BY <2>1, <2>2, <2>3, <2>4, <2>5, <2>7, <2>8, <2>9
  <2>. QED  BY <1>0, <2>6, <2>10, FoundsCarry
<1>. QED  BY <1>1, <1>2

LEMMA FoundedKeeps ==
    ASSUME IInv, IInv', Founded, [Next]_vars
    PROVE  Founded'
<1>0. TypeOK /\ TypeOK'
  BY DEF IInv
<1>1. CASE \E r \in Request : Handle(r) \/ \E act \in Act : Load(r, act)
  BY <1>1, HandleFounds
<1>2. CASE \E d \in Worker : Published(d) \/ DeclareCommit(d)
  BY <1>2, PublishedFounds, DeclareFounds
<1>3. CASE \E e \in 1..Len(intent) : Replay(e)
  <2>1. head' = head /\ crossed' = crossed /\ request' = request
    BY <1>3 DEF Replay, rowVars, historyVars
  <2>. QED  BY <1>0, <2>1, FoundsStay
<1>4. CASE \E d \in Worker : Crash(d) \/ (Work(d) /\ ~Published(d) /\ ~DeclareCommit(d))
  <2>1. head' = head /\ crossed' = crossed /\ request' = request
    BY <1>4 DEF Crash, Work, Claim, NothingClaimed, Draw, ClaimCommit, Extract, PublishRead,
                NotPublished, SettleRead, SettleCommit, Store, DeclareRead, rowVars, historyVars
  <2>. QED  BY <1>0, <2>1, FoundsStay
<1>5. CASE UNCHANGED vars
  <2>1. head' = head /\ crossed' = crossed /\ request' = request
    BY <1>5 DEF vars, rowVars, historyVars
  <2>. QED  BY <1>0, <2>1, FoundsStay
<1>. QED  BY <1>1, <1>2, <1>3, <1>4, <1>5 DEF Next

\* The packets of the start are dated as the revisions that carry them.
LEMMA FoundedAtStart ==
    ASSUME Init
    PROVE  Founded
<1>1. PICK s \in Scenario :
          /\ head = HeadAt(s.plates, s.stage) /\ request = [r \in Request |-> Waiting]
  BY DEF Init
<1>2. PICK count \in 0..Limit, stage \in Stage, h \in {head} :
          count = s.plates /\ stage = s.stage /\ h = HeadAt(count, stage)
  BY <1>1, ConstantsAssumption DEF ConstantsAssumption
<1>3. h \in Revision
  BY <1>2, HeadFits, ConstantsAssumption
<1>4. \A p \in Position : h.packets[p].rev <= h.version
  <2>1. /\ h.version = IF stage = "associated" THEN 0 ELSE count
        /\ \A p \in Position : h.packets[p].rev = 0 \/ (stage # "associated" /\ p <= count /\ h.packets[p].rev = p)
    BY <1>2 DEF HeadAt, NoPacket
  <2>2. count \in Nat
    BY ConstantsAssumption DEF ConstantsAssumption
  <2>. QED  BY <2>1, <2>2
<1>5. h.bulletin = Blank /\ \A p \in Position : h.stamp.packets[p] = 0
  BY <1>2 DEF HeadAt, Sources, NoPacket
<1>6. PICK w : w = [p \in Position |-> [k \in Nat |-> h.packets[p]]]
  OBVIOUS
<1>7. w \in Writings /\ Recorded(w, h.version, h)
  <2>1. \A p \in Position : h.packets[p] \in Packets /\ h.packets[p].rev \in Nat
    BY <1>3 DEF Revision, Packets
  <2>. QED  BY <1>4, <1>6, <2>1 DEF Writings, Recorded
<1>8. Described(w, h)
  <2>1. 0 <= h.version
    BY <1>3 DEF Revision
  <2>. QED  BY <1>5, <2>1 DEF Described
<1>9. \A r \in Request : Attested(w, h.version, request[r])
  BY <1>1 DEF Attested, Waiting
<1>. QED  BY <1>1, <1>2, <1>7, <1>8, <1>9 DEF Founded, Founds

\* However the plates, the decisions, the codes, the links, the bulletins, the approvals and
\* the exports of any number of sessions interleave, a bulletin that no longer describes the
\* worksite is said to be stale, unless an approval or an export overlapped its building.
THEOREM StaleSaid == Spec => []StaleIsSaid
<1>1. IInv /\ Founded /\ [Next]_vars => IInv' /\ Founded'
  BY Keep, FoundedKeeps
<1>2. Init => IInv /\ Founded
  BY Start, FoundedAtStart, ConstantsAssumption
<1>3. IInv /\ Founded => StaleIsSaid
  BY FoundedSaysStale DEF IInv
<1>. QED  BY <1>1, <1>2, <1>3, PTL DEF Spec
===============================================================================
