----------------------------- MODULE CroquiJobProofs -----------------------------
(***************************************************************************)
(* Theorems about CroquiJob, for any number of requests and deliveries at  *)
(* once, any scenario, and chains of any length.                           *)
(*                                                                         *)
(* A handler reads, is overtaken, and writes.  What makes it right is one  *)
(* fact used everywhere: revisions are never rewritten and rows keep what  *)
(* they are about (Onwards), so that what a request saw of a revision is   *)
(* true for ever, and the unique index tells whether that revision is      *)
(* still the head.  Only what rectify_review_decisions sees of the head    *)
(* itself, in its second SELECT, needs an argument of its own (Beheld).    *)
(***************************************************************************)
EXTENDS CroquiJob, TLAPS, SequenceTheorems, FiniteSetTheorems

-----------------------------------------------------------------------------
(* The inductive invariant.                                                 *)

\* A request between its first SELECT and its COMMIT.
Acting(r) == request[r].pc \in {"look", "ready"}

OnScene == {"edit", "declare", "revoke", "annotate"}

\* What a request read exists, and lets it act: all of it is about revisions and rows that
\* never change.
Sound(r) ==
    LET q == request[r] IN
    /\ Acting(r) =>
          /\ q.act \in Act
          /\ q.review \in 1..Len(reviews)
          /\ q.scene \in 0..Len(scenes)
          /\ q.act \in OnScene => q.scene # 0
          /\ q.act \in {"approve", "export"} => q.on \in 1..Len(scenes)
          /\ q.act = "export" => q.on \in approvals
          /\ q.act = "decide" => reviews[q.review].decision = 0
          /\ q.act \in {"rectify", "annotate"} => reviews[q.review].decision # 0
          /\ q.act = "approve" => ~scenes[q.on].held
    /\ q.pc = "ready" =>
          /\ q.act = "approve" => q.scene = q.on
          /\ q.act = "declare" =>
                \A v \in 1..q.scene : \A ref \in scenes[v].refs : ref <= q.highest
          /\ q.act = "declareOnReview" =>
                \A v \in 1..q.review : \A ref \in reviews[v].refs : ref <= q.highest
          /\ q.act = "export" /\ q.row # 0 =>
                q.row \in 1..Len(commands) /\ commands[q.row].kind = "export"
    /\ q.pc = "enqueue" => q.row \in 1..Len(commands)

\* A message is the upload's, or names a row and its kind.
Addressed(m) ==
    m = Upload \/ (m.id \in 1..Len(commands) /\ m.kind = commands[m.id].kind)

TracePcs == {"solving", "landing"}
ExportPcs == {"building", "finishing"}
ChatPcs == {"answering", "answered"}

\* A delivery works on a command of the kind its step is for.
Working(w) ==
    LET m == worker[w].message
        pc == worker[w].pc
    IN  /\ Addressed(m)
        /\ pc = "claiming" => m # Upload
        /\ pc \in TracePcs => m # Upload /\ m.kind = "trace"
        /\ pc \in ExportPcs => m # Upload /\ m.kind = "export"
        /\ pc \in ChatPcs => m # Upload /\ m.kind = "chat"

\* Requests, messages and deliveries are about things that exist.
Grounded ==
    /\ reviews = <<>> => scenes = <<>>
    /\ \A r \in Request : Sound(r)
    /\ \A m \in queue : Addressed(m)
    /\ \A w \in Worker : Working(w)
    /\ \A c \in 1..Len(commands) :
          commands[c].kind = "trace" => commands[c].review \in 1..Len(reviews)

\* An element_ref given out is in the revision that brought it.
Brought(m) ==
    /\ m.side = "scene" => m.version \in 1..Len(scenes) /\ m.ref \in scenes[m.version].refs
    /\ m.side = "review" => m.version \in 1..Len(reviews) /\ m.ref \in reviews[m.version].refs

Refs == RefNamesOneElement /\ \A m \in minted : Brought(m)

\* What the head scene rests on; nothing while there is no scene.
RestsOf(v) == IF v = 0 THEN {} ELSE scenes[v].rests

\* A rectification that can still commit has the geometry of the head before it, whatever
\* scene the head is by now: all that moves the scene alone leaves the geometry as it is.
Beheld(r) ==
    request[r].pc = "ready" /\ request[r].act = "rectify" /\ request[r].review = Len(reviews)
        => RestsOf(Len(scenes)) = RestsOf(request[r].scene)

Geometry ==
    /\ SupersededIsBlocked
    /\ \A v \in 1..Len(scenes) : 0 \notin scenes[v].rests
    /\ \A r \in Request : Beheld(r)

\* Packages: asked for when approved, COMPLETED once in the bucket.
Exports ==
    /\ \A c \in 1..Len(commands) :
          commands[c].kind = "export" =>
             /\ commands[c].scene \in approvals
             /\ commands[c].status = "COMPLETED" => c \in packages
    /\ \A w \in Worker : worker[w].pc = "finishing" => worker[w].message.id \in packages

\* A trace about to land found both heads where its row says.
Landings == \A w \in Worker : At(w, "landing") => worker[w].scene = Row(w).scene

Holding == TracePcs \cup ChatPcs

\* The row a delivery claimed is RUNNING and nobody else's.
Exclusive ==
    /\ \A w \in Worker : worker[w].pc \in Holding => Row(w).status = "RUNNING"
    /\ \A v, w \in Worker :
          worker[v].pc \in Holding /\ worker[w].pc \in Holding
             /\ worker[v].message.id = worker[w].message.id => v = w

IInv == TypeOK /\ Grounded /\ Refs /\ Geometry /\ Exports /\ Landings /\ Exclusive

\* Revisions and rows once written stay, whatever step is taken: only statuses move.
Grows(before, after) ==
    /\ Len(before) <= Len(after)
    /\ \A v \in 1..Len(before) : after[v] = before[v]

SameSubject(row, now) ==
    now.kind = row.kind /\ now.review = row.review /\ now.scene = row.scene

Onwards ==
    /\ Grows(reviews, reviews')
    /\ Grows(scenes, scenes')
    /\ Len(commands) <= Len(commands')
    /\ \A c \in 1..Len(commands) : SameSubject(commands[c], commands'[c])
    /\ approvals \subseteq approvals'
    /\ packages \subseteq packages'

-----------------------------------------------------------------------------
(* Data.                                                                    *)

\* One more element at the end of a sequence.
LEMMA Appended ==
    ASSUME NEW S, NEW s \in Seq(S), NEW x \in S
    PROVE  /\ s \o <<x>> \in Seq(S)
           /\ Len(s \o <<x>>) = Len(s) + 1
           /\ (s \o <<x>>)[Len(s) + 1] = x
           /\ \A v \in 1..Len(s) : (s \o <<x>>)[v] = s[v]
           /\ Grows(s, s \o <<x>>)
  <1>1. <<x>> \in Seq(S) /\ Len(<<x>>) = 1 /\ <<x>>[1] = x
    OBVIOUS
  <1>2. Len(s) \in Nat
    BY LenProperties
  <1>3. /\ s \o <<x>> \in Seq(S)
        /\ Len(s \o <<x>>) = Len(s) + 1
        /\ \A i \in 1..(Len(s) + 1) :
              (s \o <<x>>)[i] = IF i <= Len(s) THEN s[i] ELSE <<x>>[i - Len(s)]
    BY <1>1, ConcatProperties
  <1>4. (s \o <<x>>)[Len(s) + 1] = x
    BY <1>1, <1>2, <1>3
  <1> QED
    BY <1>2, <1>3, <1>4 DEF Grows

\* The sequences of a well typed state, element by element.
LEMMA Typed ==
    ASSUME TypeOK
    PROVE  /\ Len(reviews) \in Nat /\ DOMAIN reviews = 1..Len(reviews)
           /\ Len(scenes) \in Nat /\ DOMAIN scenes = 1..Len(scenes)
           /\ Len(commands) \in Nat /\ DOMAIN commands = 1..Len(commands)
           /\ \A v \in 1..Len(reviews) : reviews[v] \in Readings
           /\ \A v \in 1..Len(scenes) : scenes[v] \in Scene
           /\ \A c \in 1..Len(commands) : commands[c] \in CommandRow
           /\ reviews # <<>> <=> Len(reviews) # 0
           /\ scenes # <<>> <=> Len(scenes) # 0
  <1>1. reviews \in Seq(Readings) /\ scenes \in Seq(Scene) /\ commands \in Seq(CommandRow)
    BY DEF TypeOK
  <1>2. /\ Len(reviews) \in Nat /\ DOMAIN reviews = 1..Len(reviews)
        /\ \A v \in 1..Len(reviews) : reviews[v] \in Readings
        /\ reviews # <<>> <=> Len(reviews) # 0
    BY <1>1, LenProperties, ElementOfSeq, EmptySeq
  <1>3. /\ Len(scenes) \in Nat /\ DOMAIN scenes = 1..Len(scenes)
        /\ \A v \in 1..Len(scenes) : scenes[v] \in Scene
        /\ scenes # <<>> <=> Len(scenes) # 0
    BY <1>1, LenProperties, ElementOfSeq, EmptySeq
  <1>4. /\ Len(commands) \in Nat /\ DOMAIN commands = 1..Len(commands)
        /\ \A c \in 1..Len(commands) : commands[c] \in CommandRow
    BY <1>1, LenProperties, ElementOfSeq
  <1> QED
    BY <1>2, <1>3, <1>4

\* The rest states of requests and deliveries.
LEMMA AtRest == Upload \in Messages /\ Waiting \in Serving /\ Free \in Delivery
  BY DEF Upload, Messages, Waiting, Serving, JobStatuses, Ingested, Free, Delivery

\* Cited refs are numbers, and so are the targets a body may name.
LEMMA RefsAreNumbers ==
    ASSUME TypeOK
    PROVE  Cited \subseteq Nat /\ Target \subseteq Nat
  <1>1. \A v \in DOMAIN reviews : reviews[v].refs \subseteq Nat
    BY Typed DEF Readings
  <1>2. \A v \in DOMAIN scenes : scenes[v].refs \subseteq Nat
    BY Typed DEF Scene
  <1>3. Cited \subseteq Nat
    BY <1>1, <1>2 DEF Cited, RefsOf
  <1>4. ASSUME NEW ref \in Target PROVE ref \in Nat
    <2>1. CASE ref = 0
      BY <2>1
    <2>2. CASE ref \in DOMAIN scenes
      BY <2>2, Typed
    <2>3. CASE ref \in Cited
      BY <2>3, <1>3
    <2> QED
      BY <1>4, <2>1, <2>2, <2>3, Zenon DEF Target
  <1> QED
    BY <1>3, <1>4, Zenon

\* Every cited ref is in a revision, and the other way round.
LEMMA CitedIn ==
    ASSUME TypeOK
    PROVE  /\ \A v \in 1..Len(scenes) : scenes[v].refs \subseteq Cited
           /\ \A v \in 1..Len(reviews) : reviews[v].refs \subseteq Cited
  BY Typed DEF Cited, RefsOf

\* The rows of a kind are finitely many.
LEMMA CountOfRows ==
    ASSUME TypeOK, NEW kind
    PROVE  Cardinality(Rows(kind)) \in Nat
  <1>1. IsFiniteSet(1..Len(commands))
    BY Typed, FS_Interval
  <1>2. Rows(kind) \subseteq 1..Len(commands)
    BY Typed DEF Rows
  <1> QED
    BY <1>1, <1>2, FS_Subset, FS_CardinalityType

-----------------------------------------------------------------------------
(* What the writes do.                                                      *)

\* At most one revision at the end of a chain.
AtMostOne(chain, S) == chain = <<>> \/ \E x \in S : chain = <<x>>

\* A chain so extended, or left alone.
LEMMA AtMostOneMore ==
    ASSUME NEW S, NEW s \in Seq(S), NEW chain, AtMostOne(chain, S)
    PROVE  /\ s \o chain \in Seq(S)
           /\ Grows(s, s \o chain)
           /\ Grows(s, s)
  <1>1. Len(s) \in Nat
    BY LenProperties
  <1>2. Grows(s, s)
    BY <1>1 DEF Grows
  <1>3. CASE chain = <<>>
    BY <1>2, <1>3, ConcatEmptySeq
  <1>4. ASSUME NEW x \in S, chain = <<x>> PROVE s \o chain \in Seq(S) /\ Grows(s, s \o chain)
    BY <1>4, Appended
  <1> QED
    BY <1>2, <1>3, <1>4 DEF AtMostOne

\* The COMMIT of an act on the chains keeps their types, rewrites no revision and ends the
\* request.
LEMMA ExtendStep ==
    ASSUME TypeOK, NEW r \in Request, NEW review, NEW scene,
           AtMostOne(review, Readings), AtMostOne(scene, Scene), Extend(r, review, scene)
    PROVE  /\ reviews' \in Seq(Readings) /\ Grows(reviews, reviews')
           /\ scenes' \in Seq(Scene) /\ Grows(scenes, scenes')
           /\ request' \in [Request -> Serving]
  <1>1. reviews \in Seq(Readings) /\ scenes \in Seq(Scene)
    BY DEF TypeOK
  <1>2. /\ reviews \o review \in Seq(Readings)
        /\ Grows(reviews, reviews \o review) /\ Grows(reviews, reviews)
    BY <1>1, AtMostOneMore
  <1>3. /\ scenes \o scene \in Seq(Scene)
        /\ Grows(scenes, scenes \o scene) /\ Grows(scenes, scenes)
    BY <1>1, AtMostOneMore
  <1>4. request' \in [Request -> Serving]
    BY AtRest DEF Extend, Answered, TypeOK
  <1> QED
    BY <1>1, <1>2, <1>3, <1>4 DEF Extend

\* A status written in a row keeps the types and what every row is about.
LEMMA StatusStep ==
    ASSUME TypeOK, NEW c \in 1..Len(commands), NEW status \in Statuses,
           commands' = [commands EXCEPT ![c].status = status]
    PROVE  /\ commands' \in Seq(CommandRow)
           /\ Len(commands') = Len(commands)
           /\ \A d \in 1..Len(commands) : SameSubject(commands[d], commands'[d])
           /\ \A d \in 1..Len(commands) :
                 commands'[d].status = IF d = c THEN status ELSE commands[d].status
  <1> DEFINE row == [commands[c] EXCEPT !.status = status]
  <1>1. commands \in Seq(CommandRow) /\ commands[c] \in CommandRow
    BY Typed DEF TypeOK
  <1>2. row \in CommandRow /\ row.status = status /\ SameSubject(commands[c], row)
    BY <1>1 DEF CommandRow, SameSubject
  <1>3. commands' = [commands EXCEPT ![c] = row]
    OBVIOUS
  <1> HIDE DEF row
  <1>4. /\ commands' \in Seq(CommandRow)
        /\ Len(commands') = Len(commands)
        /\ \A d \in 1..Len(commands) : commands'[d] = IF d = c THEN row ELSE commands[d]
    BY <1>1, <1>2, <1>3, ExceptSeq
  <1> QED
    BY <1>2, <1>4 DEF SameSubject

\* A new row keeps the types and the rows there were.
LEMMA RowStep ==
    ASSUME TypeOK, NEW row \in CommandRow, commands' = commands \o <<row>>
    PROVE  /\ commands' \in Seq(CommandRow)
           /\ Len(commands') = Len(commands) + 1
           /\ commands'[Len(commands) + 1] = row
           /\ \A d \in 1..Len(commands) : commands'[d] = commands[d]
           /\ \A d \in 1..Len(commands) : SameSubject(commands[d], commands'[d])
  <1>1. commands \in Seq(CommandRow)
    BY DEF TypeOK
  <1> QED
    BY <1>1, Appended DEF SameSubject

\* One less of what the scenario allows.
LEMMA Spent ==
    ASSUME TypeOK, NEW k \in Bounded, left[k] > 0, left' = [left EXCEPT ![k] = @ - 1]
    PROVE  left' \in [Bounded -> Nat]
  BY DEF TypeOK

\* Nothing durable is written.
LEMMA QuietStep ==
    ASSUME TypeOK, UNCHANGED <<chains, commands, approvals, packages>>
    PROVE  Onwards
  <1>1. UNCHANGED <<reviews, scenes, commands, approvals, packages>>
    BY DEF chains
  <1> QED
    BY <1>1, Typed DEF Onwards, Grows, SameSubject

-----------------------------------------------------------------------------
(* Every step keeps the types and writes only at the end.                   *)

\* The state a request goes to when it only reads.
LEMMA SeenStep ==
    ASSUME TypeOK, NEW r \in Request, NEW state \in Serving, Seen(r, state),
           UNCHANGED <<rows, queue, worker, minted, lost>>, left' \in [Bounded -> Nat]
    PROVE  TypeOK' /\ Onwards
  <1>1. Onwards
    BY QuietStep DEF rows
  <1>2. request' \in [Request -> Serving]
    BY DEF Seen, TypeOK
  <1> QED
    BY <1>1, <1>2 DEF TypeOK, rows, chains

\* The first SELECT of every act.
LEMMA BeginType ==
    ASSUME TypeOK, NEW r \in Request, NEW act \in Act, Begin(r, act)
    PROVE  TypeOK' /\ Onwards
  <1> DEFINE state(on) ==
                [Waiting EXCEPT !.pc = IF act \in LooksAgain THEN "look" ELSE "ready",
                                !.act = act, !.on = on, !.review = Len(reviews),
                                !.scene = Len(scenes), !.job = job,
                                !.row = Cardinality(Rows("chat"))]
  <1>1. PICK on \in Target : request' = [request EXCEPT ![r] = state(on)]
    BY DEF Begin
  <1>2. /\ on \in Nat /\ Len(reviews) \in Nat /\ Len(scenes) \in Nat
        /\ Cardinality(Rows("chat")) \in Nat /\ job \in JobStatuses
    BY RefsAreNumbers, CountOfRows, Typed DEF TypeOK
  <1>3. state(on) \in Serving
    BY <1>2 DEF Waiting, Serving
  <1>4. left' \in [Bounded -> Nat]
    BY Spent DEF Begin, Bounded
  <1> HIDE DEF state
  <1> QED
    BY <1>1, <1>3, <1>4, SeenStep DEF Seen, Begin

\* The second SELECT of the acts that have one.
LEMMA LookType ==
    ASSUME TypeOK, NEW r \in Request, LookForRefs(r) \/ LookAtScene(r) \/ LookForExport(r)
    PROVE  TypeOK' /\ Onwards
  <1>1. request[r] \in Serving /\ Waiting \in Serving /\ left \in [Bounded -> Nat]
    BY AtRest DEF TypeOK
  <1>2. UNCHANGED <<rows, queue, worker, minted, lost, left>>
    BY DEF LookForRefs, LookAtScene, LookForExport
  <1>3. CASE LookForRefs(r)
    <2>1. PICK highest \in Cited \cup {0} :
             Seen(r, [request[r] EXCEPT !.pc = "ready", !.highest = highest])
      BY <1>3 DEF LookForRefs
    <2>2. highest \in Nat
      BY RefsAreNumbers
    <2>3. [request[r] EXCEPT !.pc = "ready", !.highest = highest] \in Serving
      BY <1>1, <2>2 DEF Serving
    <2> QED
      BY <1>1, <1>2, <2>1, <2>3, SeenStep
  <1>4. CASE LookAtScene(r)
    <2>1. [request[r] EXCEPT !.pc = "ready", !.scene = Len(scenes)] \in Serving
      BY <1>1, Typed DEF Serving
    <2>2. PICK state \in Serving : Seen(r, state)
      BY <1>1, <1>4, <2>1 DEF LookAtScene
    <2> QED
      BY <1>1, <1>2, <2>2, SeenStep
  <1>5. CASE LookForExport(r)
    <2>1. [request[r] EXCEPT !.pc = "ready", !.row = 0] \in Serving
      BY <1>1 DEF Serving
    <2>2. \A c \in ExportOf(request[r].on) :
             [request[r] EXCEPT !.pc = "ready", !.row = c,
                                !.queued = commands[c].status = "QUEUED"] \in Serving
      <3>1. \A c \in Nat, b \in BOOLEAN :
               [request[r] EXCEPT !.pc = "ready", !.row = c, !.queued = b] \in Serving
        BY <1>1 DEF Serving
      <3>2. \A c \in ExportOf(request[r].on) : c \in Nat
        BY Typed DEF ExportOf, Rows
      <3>3. \A c : (commands[c].status = "QUEUED") \in BOOLEAN
        OBVIOUS
      <3> QED
        BY <3>1, <3>2, <3>3, Zenon
    <2>3. \E state \in Serving : Seen(r, state)
      <3>1. CASE Seen(r, [request[r] EXCEPT !.pc = "ready", !.row = 0])
        BY <2>1, <3>1
      <3>2. ASSUME NEW c \in ExportOf(request[r].on),
                   Seen(r, IF commands[c].status = "COMPLETED" THEN Waiting
                           ELSE [request[r] EXCEPT !.pc = "ready", !.row = c,
                                    !.queued = commands[c].status = "QUEUED"])
            PROVE  \E state \in Serving : Seen(r, state)
        BY <1>1, <2>2, <3>2
      <3> QED
        BY <1>5, <3>1, <3>2 DEF LookForExport
    <2> QED
      BY <1>1, <1>2, <2>3, SeenStep
  <1> QED
    BY <1>3, <1>4, <1>5

\* What a request at its COMMIT stands on.
LEMMA Bases ==
    ASSUME TypeOK, Grounded, NEW r \in Request, Acting(r)
    PROVE  /\ request[r] \in Serving
           /\ BaseReview(r) \in Readings
           /\ request[r].scene # 0 => BaseScene(r) \in Scene
  <1>1. request[r] \in Serving
    BY DEF TypeOK
  <1>2. request[r].review \in 1..Len(reviews) /\ request[r].scene \in 0..Len(scenes)
    BY DEF Grounded, Sound
  <1> QED
    BY <1>1, <1>2, Typed DEF BaseReview, BaseScene

\* An act on the chains, with what it does to the job, the approvals and the refs.
LEMMA PlainAct ==
    ASSUME TypeOK, NEW r \in Request, NEW review, NEW scene,
           AtMostOne(review, Readings), AtMostOne(scene, Scene), Extend(r, review, scene),
           minted' \subseteq Mint, job' \in JobStatuses,
           approvals \subseteq approvals', approvals' \subseteq 1..Len(scenes')
    PROVE  TypeOK' /\ Onwards
  <1>1. /\ reviews' \in Seq(Readings) /\ Grows(reviews, reviews')
        /\ scenes' \in Seq(Scene) /\ Grows(scenes, scenes')
        /\ request' \in [Request -> Serving]
    BY ExtendStep
  <1>2. UNCHANGED <<commands, packages, queue, worker, lost, left>>
    BY DEF Extend
  <1> QED
    BY <1>1, <1>2, Typed DEF TypeOK, Onwards, SameSubject

\* The approvals stay approvals of revisions there are.
LEMMA KeptApprovals ==
    ASSUME TypeOK, NEW r \in Request, NEW review, NEW scene,
           AtMostOne(review, Readings), AtMostOne(scene, Scene), Extend(r, review, scene)
    PROVE  approvals \subseteq 1..Len(scenes')
  <1>1. scenes' \in Seq(Scene) /\ Len(scenes) <= Len(scenes')
    BY ExtendStep DEF Grows
  <1>2. Len(scenes') \in Nat /\ Len(scenes) \in Nat
    BY <1>1, Typed, LenProperties
  <1> QED
    BY <1>1, <1>2 DEF TypeOK

\* The revisions the acts append are of the types of their chains.
LEMMA RevisionForms ==
    /\ \A x \in Readings, refs \in SUBSET Nat : [x EXCEPT !.refs = refs] \in Readings
    /\ \A x \in Readings, d \in Nat : [x EXCEPT !.decision = d] \in Readings
    /\ \A x \in Scene, refs \in SUBSET Nat :
          /\ WithRefs(x, refs) \in Scene
          /\ [x EXCEPT !.held = TRUE, !.approved = FALSE] \in Scene
          /\ [x EXCEPT !.rests = refs] \in Scene
          /\ [x EXCEPT !.approved = TRUE] \in Scene
  BY DEF Readings, Scene, WithRefs

\* The ref an act gives out has the type of a ref.
LEMMA MintedForm ==
    ASSUME TypeOK, NEW r \in Request
    PROVE  Minted(r, "scene", scenes) \in Mint /\ Minted(r, "review", reviews) \in Mint
  BY Typed DEF TypeOK, Serving, Minted, Mint

\* The acts on the scene alone.
LEMMA SceneActType ==
    ASSUME TypeOK, Grounded, NEW r \in Request,
           CreateRevision(r) \/ DeclareElement(r) \/ RevokeElement(r) \/ ApproveScene(r)
    PROVE  TypeOK' /\ Onwards
  <1> DEFINE q == request[r]
  <1>1. Acting(r) /\ q.act \in OnScene \cup {"approve"}
    BY DEF CreateRevision, DeclareElement, RevokeElement, ApproveScene, Ready, Acting, OnScene
  <1>2. q \in Serving
    BY <1>1, Bases
  <1>3. q.scene # 0
    BY <1>1, <1>2, Typed DEF Grounded, Sound, OnScene, ApproveScene, Ready,
       CreateRevision, DeclareElement, RevokeElement
  <1>4. BaseScene(r) \in Scene /\ BaseScene(r).refs \in SUBSET Nat
    BY <1>1, <1>3, Bases DEF Scene
  <1>5. AtMostOne(<<>>, Readings)
    BY DEF AtMostOne
  <1>6. CASE CreateRevision(r)
    <2> DEFINE scene == <<BaseScene(r)>>
    <2>1. AtMostOne(scene, Scene)
      BY <1>4 DEF AtMostOne
    <2>2. Extend(r, <<>>, scene) /\ UNCHANGED <<job, approvals, minted>>
      BY <1>6 DEF CreateRevision, Untouched
    <2> HIDE DEF scene
    <2>3. approvals' \subseteq 1..Len(scenes')
      BY <1>5, <2>1, <2>2, KeptApprovals
    <2> QED
      BY <1>5, <2>1, <2>2, <2>3, PlainAct DEF TypeOK
  <1>7. CASE DeclareElement(r)
    <2> DEFINE ref == q.highest + 1
               scene == <<WithRefs(BaseScene(r), BaseScene(r).refs \cup {ref})>>
    <2>1. ref \in Nat
      BY <1>2 DEF Serving
    <2>2. AtMostOne(scene, Scene)
      BY <1>4, <2>1, RevisionForms DEF AtMostOne
    <2>3. /\ Extend(r, <<>>, scene) /\ UNCHANGED <<job, approvals>>
          /\ minted' \subseteq minted \cup {Minted(r, "scene", scenes)}
      BY <1>7 DEF DeclareElement
    <2> HIDE DEF scene
    <2>4. approvals' \subseteq 1..Len(scenes')
      BY <1>5, <2>2, <2>3, KeptApprovals
    <2>5. minted' \subseteq Mint
      BY <2>3, MintedForm DEF TypeOK
    <2> QED
      BY <1>5, <2>2, <2>3, <2>4, <2>5, PlainAct DEF TypeOK
  <1>8. CASE RevokeElement(r)
    <2> DEFINE scene == <<WithRefs(BaseScene(r), BaseScene(r).refs \ {q.on})>>
    <2>1. AtMostOne(scene, Scene)
      BY <1>4, RevisionForms DEF AtMostOne
    <2>2. Extend(r, <<>>, scene) /\ UNCHANGED <<job, approvals, minted>>
      BY <1>8 DEF RevokeElement, Untouched
    <2> HIDE DEF scene
    <2>3. approvals' \subseteq 1..Len(scenes')
      BY <1>5, <2>1, <2>2, KeptApprovals
    <2> QED
      BY <1>5, <2>1, <2>2, <2>3, PlainAct DEF TypeOK
  <1>9. CASE ApproveScene(r)
    <2> DEFINE stamped == [BaseScene(r) EXCEPT !.approved = TRUE]
               scene == <<stamped>>
    <2>1. stamped \in Scene /\ AtMostOne(scene, Scene)
      BY <1>4, RevisionForms DEF AtMostOne
    <2>2. /\ Extend(r, <<>>, scene) /\ UNCHANGED minted
          /\ IF Fits(r, <<>>, scene)
             THEN approvals' = approvals \cup {Len(scenes) + 1} /\ job' = "APPROVED"
             ELSE UNCHANGED <<approvals, job>>
      BY <1>9 DEF ApproveScene
    <2>3. approvals \subseteq 1..Len(scenes')
      BY <1>5, <2>1, <2>2, KeptApprovals
    <2>4. Fits(r, <<>>, scene) => Len(scenes') = Len(scenes) + 1
      BY <2>1, <2>2, Appended DEF Extend, TypeOK
    <2> HIDE DEF scene
    <2>5. approvals' \subseteq 1..Len(scenes') /\ approvals \subseteq approvals'
      <3>1. CASE Fits(r, <<>>, scene)
        <4>1. Len(scenes) + 1 \in 1..Len(scenes')
          BY <2>4, <3>1, Typed
        <4> QED
          BY <2>2, <2>3, <3>1, <4>1
      <3>2. CASE ~Fits(r, <<>>, scene)
        BY <2>2, <2>3, <3>2
      <3> QED
        BY <3>1, <3>2
    <2>6. job' \in JobStatuses
      BY <2>2 DEF JobStatuses, Ingested, TypeOK
    <2> QED
      BY <1>5, <2>1, <2>2, <2>5, <2>6, PlainAct DEF TypeOK
  <1> QED
    BY <1>6, <1>7, <1>8, <1>9

\* The acts on the readings, and those on both chains.
LEMMA ReviewActType ==
    ASSUME TypeOK, Grounded, NEW r \in Request,
           \/ DeclareReviewElement(r) \/ RevokeReviewElement(r) \/ SubmitReviewDecisions(r)
           \/ RectifyReviewDecisions(r) \/ AnnotateDimension(r)
    PROVE  TypeOK' /\ Onwards
  <1> DEFINE q == request[r]
  <1>1. Acting(r)
    BY DEF DeclareReviewElement, RevokeReviewElement, SubmitReviewDecisions,
           RectifyReviewDecisions, AnnotateDimension, Ready, Acting
  <1>2. /\ q \in Serving /\ BaseReview(r) \in Readings
        /\ BaseReview(r).refs \in SUBSET Nat /\ BaseReview(r).decision \in Nat
    BY <1>1, Bases DEF Readings
  <1>3. AtMostOne(<<>>, Scene)
    BY DEF AtMostOne
  <1>4. ASSUME NEW review, NEW scene, AtMostOne(review, Readings), AtMostOne(scene, Scene),
               Extend(r, review, scene), Untouched
        PROVE  TypeOK' /\ Onwards
    <2>1. UNCHANGED <<job, approvals, minted>>
      BY <1>4 DEF Untouched
    <2>2. approvals' \subseteq 1..Len(scenes')
      BY <1>4, <2>1, KeptApprovals
    <2> QED
      BY <1>4, <2>1, <2>2, PlainAct DEF TypeOK
  <1>5. CASE DeclareReviewElement(r)
    <2> DEFINE ref == q.highest + 1
               review == <<[BaseReview(r) EXCEPT !.refs = @ \cup {ref}]>>
    <2>1. ref \in Nat
      BY <1>2 DEF Serving
    <2>2. AtMostOne(review, Readings)
      BY <1>2, <2>1, RevisionForms DEF AtMostOne
    <2>3. /\ Extend(r, review, <<>>) /\ UNCHANGED <<job, approvals>>
          /\ minted' \subseteq minted \cup {Minted(r, "review", reviews)}
      BY <1>5 DEF DeclareReviewElement
    <2> HIDE DEF review
    <2>4. approvals' \subseteq 1..Len(scenes')
      BY <1>3, <2>2, <2>3, KeptApprovals
    <2>5. minted' \subseteq Mint
      BY <2>3, MintedForm DEF TypeOK
    <2> QED
      BY <1>3, <2>2, <2>3, <2>4, <2>5, PlainAct DEF TypeOK
  <1>6. CASE RevokeReviewElement(r)
    <2> DEFINE review == <<[BaseReview(r) EXCEPT !.refs = @ \ {q.on}]>>
    <2>1. AtMostOne(review, Readings)
      BY <1>2, RevisionForms DEF AtMostOne
    <2>2. Extend(r, review, <<>>) /\ Untouched
      BY <1>6 DEF RevokeReviewElement
    <2> HIDE DEF review
    <2> QED
      BY <1>3, <1>4, <2>1, <2>2
  <1>7. AtMostOne(Decided(r), Readings)
    <2>1. q.review + 1 \in Nat
      BY <1>2 DEF Serving
    <2> QED
      BY <1>2, <2>1, RevisionForms DEF AtMostOne, Decided
  <1>8. CASE SubmitReviewDecisions(r)
    BY <1>3, <1>4, <1>7, <1>8 DEF SubmitReviewDecisions
  <1>9. CASE RectifyReviewDecisions(r)
    <2> DEFINE scene == IF q.scene # 0 /\ BaseReview(r).decision \in BaseScene(r).rests
                        THEN <<[BaseScene(r) EXCEPT !.held = TRUE, !.approved = FALSE]>>
                        ELSE <<>>
    <2>1. AtMostOne(scene, Scene)
      BY <1>1, <1>3, Bases, RevisionForms DEF AtMostOne
    <2>2. Extend(r, Decided(r), scene) /\ Untouched
      BY <1>9 DEF RectifyReviewDecisions
    <2> HIDE DEF scene
    <2> QED
      BY <1>4, <1>7, <2>1, <2>2
  <1>10. CASE AnnotateDimension(r)
    <2> DEFINE rests == BaseScene(r).rests \cup {BaseReview(r).decision}
               scene == <<[BaseScene(r) EXCEPT !.rests = @ \cup {BaseReview(r).decision}]>>
    <2>1. q.scene # 0
      BY <1>1, <1>10 DEF AnnotateDimension, Ready, Grounded, Sound, OnScene
    <2>2. BaseScene(r) \in Scene /\ rests \in SUBSET Nat
      BY <1>1, <1>2, <2>1, Bases DEF Scene
    <2>3. AtMostOne(scene, Scene)
      BY <2>2, RevisionForms DEF AtMostOne
    <2>4. AtMostOne(<<BaseReview(r)>>, Readings)
      BY <1>2 DEF AtMostOne
    <2>5. Extend(r, <<BaseReview(r)>>, scene) /\ Untouched
      BY <1>10 DEF AnnotateDimension
    <2> HIDE DEF scene
    <2> QED
      BY <1>4, <2>3, <2>4, <2>5
  <1> QED
    BY <1>5, <1>6, <1>8, <1>9, <1>10

\* The commands of the API, and their messages.
LEMMA CommandType ==
    ASSUME TypeOK, Grounded, NEW r \in Request,
           CreateTraceSolve(r) \/ CreateExport(r) \/ CreateChatTurn(r) \/ Enqueue(r)
    PROVE  TypeOK' /\ Onwards
  <1> DEFINE q == request[r]
  <1>1. q \in Serving
    BY DEF TypeOK
  <1>2. ASSUME NEW c \in Nat, NEW table, Record(r, table, c), job' \in JobStatuses,
               commands' \in Seq(CommandRow), Len(commands) <= Len(commands'),
               \A d \in 1..Len(commands) : SameSubject(commands[d], commands'[d])
        PROVE  TypeOK' /\ Onwards
    <2>1. UNCHANGED <<reviews, scenes, approvals, packages, queue, worker, minted, lost, left>>
      BY <1>2 DEF Record, chains
    <2>2. request' \in [Request -> Serving]
      <3>1. [Waiting EXCEPT !.pc = "enqueue", !.row = c] \in Serving
        BY AtRest DEF Serving
      <3> QED
        BY <1>2, <3>1 DEF Record, Seen, TypeOK
    <2>3. Len(commands) \in Nat /\ Len(commands') \in Nat
      BY <1>2, Typed, LenProperties
    <2>4. packages' \subseteq 1..Len(commands')
      BY <1>2, <2>1, <2>3 DEF TypeOK
    <2>5. Onwards
      BY <1>2, <2>1, Typed DEF Onwards, Grows
    <2> QED
      BY <1>2, <2>1, <2>2, <2>4, <2>5 DEF TypeOK
  <1>3. ASSUME NEW row \in CommandRow, Record(r, commands \o <<row>>, NewCommand),
               job' \in JobStatuses
        PROVE  TypeOK' /\ Onwards
    <2>1. NewCommand \in Nat
      BY Typed DEF NewCommand
    <2>2. commands' = commands \o <<row>>
      BY <1>3 DEF Record
    <2>3. /\ commands' \in Seq(CommandRow) /\ Len(commands) <= Len(commands')
          /\ \A d \in 1..Len(commands) : SameSubject(commands[d], commands'[d])
      BY <2>2, RowStep, Typed
    <2> QED
      BY <1>2, <1>3, <2>1, <2>3
  <1>4. \A kind \in Kinds, review, scene \in Nat : Command(kind, review, scene) \in CommandRow
    BY DEF Command, CommandRow, Statuses
  <1>5. Refused(r) => TypeOK' /\ Onwards
    BY AtRest, SeenStep DEF Refused, Answered, Seen, TypeOK
  <1>6. CASE CreateTraceSolve(r)
    <2>1. Command("trace", q.review, q.scene) \in CommandRow
      BY <1>1, <1>4 DEF Serving, Kinds
    <2> QED
      BY <1>3, <1>6, <2>1 DEF CreateTraceSolve, TypeOK
  <1>7. CASE CreateExport(r)
    <2> DEFINE c == q.row
    <2>1. IF q.job = "EXPORTING" THEN job \in JobStatuses ELSE "EXPORTING" \in JobStatuses
      BY DEF TypeOK, JobStatuses, Ingested
    <2>2. CASE /\ Record(r, commands \o <<Command("export", 0, q.on)>>, NewCommand)
               /\ job' \in JobStatuses
      <3>1. Command("export", 0, q.on) \in CommandRow
        BY <1>1, <1>4 DEF Serving, Kinds
      <3> QED
        BY <1>3, <2>2, <3>1
    <2>3. ASSUME c # 0, job' \in JobStatuses,
                 Record(r, IF q.queued THEN commands
                           ELSE [commands EXCEPT ![c].status = "QUEUED"], c)
          PROVE  TypeOK' /\ Onwards
      <3>1. c \in 1..Len(commands)
        BY <1>7, <2>3 DEF CreateExport, Grounded, Sound, Ready
      <3>2. CASE commands' = commands
        BY <1>2, <2>3, <3>1, <3>2, Typed DEF TypeOK, SameSubject
      <3>3. CASE commands' = [commands EXCEPT ![c].status = "QUEUED"]
        <4>1. /\ commands' \in Seq(CommandRow) /\ Len(commands') = Len(commands)
              /\ \A d \in 1..Len(commands) : SameSubject(commands[d], commands'[d])
          BY <3>1, <3>3, StatusStep DEF Statuses
        <4> QED
          BY <1>2, <2>3, <3>1, <4>1, Typed
      <3> QED
        BY <2>3, <3>2, <3>3 DEF Record
    <2> QED
      BY <1>5, <1>7, <2>1, <2>2, <2>3 DEF CreateExport
  <1>8. CASE CreateChatTurn(r)
    <2>1. Command("chat", 0, 0) \in CommandRow
      BY <1>4 DEF Kinds
    <2> QED
      BY <1>3, <1>5, <1>8, <2>1 DEF CreateChatTurn, TypeOK
  <1>9. CASE Enqueue(r)
    <2>1. q.row \in 1..Len(commands)
      BY <1>9 DEF Enqueue, Grounded, Sound
    <2>2. Message(q.row) \in Messages
      BY <2>1, Typed DEF Message, Messages, CommandRow
    <2>3. queue' \subseteq Messages /\ lost' \subseteq Messages
      BY <1>9, <2>2 DEF Enqueue, TypeOK
    <2>4. request' \in [Request -> Serving]
      BY <1>9, AtRest DEF Enqueue, Answered, TypeOK
    <2>5. UNCHANGED <<job, reviews, scenes, commands, approvals, packages, worker, minted, left>>
      BY <1>9 DEF Enqueue, rows, chains
    <2> QED
      BY <2>3, <2>4, <2>5, QuietStep DEF TypeOK, chains
  <1> QED
    BY <1>6, <1>7, <1>8, <1>9

\* A delivery past its claim works on a row of the kind of its step.
LEMMA RowOf ==
    ASSUME TypeOK, Grounded, NEW w \in Worker
    PROVE  /\ worker[w] \in Delivery /\ worker[w].message \in Messages
           /\ worker[w].pc \in {"claiming"} \cup TracePcs \cup ExportPcs \cup ChatPcs =>
                 /\ worker[w].message.id \in 1..Len(commands)
                 /\ Row(w) \in CommandRow
                 /\ Row(w).kind = worker[w].message.kind
           /\ worker[w].pc \in TracePcs =>
                 Row(w).kind = "trace" /\ Row(w).review \in 1..Len(reviews)
           /\ worker[w].pc \in ExportPcs => Row(w).kind = "export"
           /\ worker[w].pc \in ChatPcs => Row(w).kind = "chat"
  <1>1. worker[w] \in Delivery /\ worker[w].message \in Messages
    BY DEF TypeOK, Delivery
  <1>2. Working(w)
    BY DEF Grounded
  <1>3. worker[w].pc \in {"claiming"} \cup TracePcs \cup ExportPcs \cup ChatPcs =>
           worker[w].message # Upload
    BY <1>2 DEF Working
  <1>4. worker[w].message # Upload =>
           /\ worker[w].message.id \in 1..Len(commands)
           /\ Row(w).kind = worker[w].message.kind
    BY <1>2 DEF Working, Addressed, Row
  <1>5. worker[w].message.id \in 1..Len(commands) => Row(w) \in CommandRow
    BY Typed DEF Row
  <1>6. /\ worker[w].pc \in TracePcs => worker[w].message.kind = "trace"
        /\ worker[w].pc \in ExportPcs => worker[w].message.kind = "export"
        /\ worker[w].pc \in ChatPcs => worker[w].message.kind = "chat"
    BY <1>2 DEF Working
  <1>7. worker[w].pc \in TracePcs => Row(w).kind = "trace" /\ Row(w).review \in 1..Len(reviews)
    BY <1>3, <1>4, <1>6 DEF Grounded, Row
  <1> QED
    BY <1>1, <1>3, <1>4, <1>5, <1>6, <1>7

\* Where a delivery goes, and what its end does to the queue.
LEMMA DeliveryForms ==
    ASSUME TypeOK, NEW w \in Worker
    PROVE  /\ \A state \in Delivery : Put(w, state) => worker' \in [Worker -> Delivery]
           /\ \A pc \in {"reading", "solving", "landing", "building", "finishing", "answering",
                         "answered"} : Go(w, pc) => worker' \in [Worker -> Delivery]
           /\ Ack(w) => worker' \in [Worker -> Delivery] /\ queue' \subseteq Messages
           /\ Raise(w) => worker' \in [Worker -> Delivery] /\ lost' \subseteq Messages
  <1>1. \A state \in Delivery : Put(w, state) => worker' \in [Worker -> Delivery]
    BY DEF Put, TypeOK
  <1>2. worker[w] \in Delivery /\ worker[w].message \in Messages
    BY DEF TypeOK, Delivery
  <1>3. \A pc \in {"reading", "solving", "landing", "building", "finishing", "answering",
                   "answered"} : [worker[w] EXCEPT !.pc = pc] \in Delivery
    BY <1>2 DEF Delivery
  <1>4. Ack(w) => queue' \subseteq Messages
    BY DEF Ack, TypeOK
  <1>5. Raise(w) => lost' \subseteq Messages
    BY <1>2 DEF Raise, TypeOK
  <1> QED
    BY <1>1, <1>3, <1>4, <1>5, AtRest DEF Go, Ack, Raise

\* The steps of a delivery that leave the chains alone.
LEMMA CalmType ==
    ASSUME TypeOK, UNCHANGED <<chains, approvals, request, minted>>, job' \in JobStatuses,
           commands' \in Seq(CommandRow), Len(commands') = Len(commands),
           \A d \in 1..Len(commands) : SameSubject(commands[d], commands'[d]),
           packages \subseteq packages', packages' \subseteq 1..Len(commands),
           queue' \subseteq Messages, worker' \in [Worker -> Delivery],
           lost' \subseteq Messages, left' \in [Bounded -> Nat]
    PROVE  TypeOK' /\ Onwards
  <1>1. UNCHANGED <<reviews, scenes, approvals, request, minted>>
    BY DEF chains
  <1>2. Onwards
    BY <1>1, Typed DEF Onwards, Grows
  <1> QED
    BY <1>1, <1>2 DEF TypeOK

\* Rows left alone keep their types and subjects.
LEMMA SameRows ==
    ASSUME TypeOK, UNCHANGED commands
    PROVE  /\ commands' \in Seq(CommandRow) /\ Len(commands') = Len(commands)
           /\ \A d \in 1..Len(commands) : SameSubject(commands[d], commands'[d])
           /\ packages \subseteq 1..Len(commands)
  BY DEF TypeOK, SameSubject

\* The upload, and the messages themselves.
LEMMA UploadType ==
    ASSUME TypeOK, NEW w \in Worker,
           \/ \E m \in queue : Deliver(w, m)
           \/ CheckIngested(w) \/ MarkFailed(w) \/ Crash(w) \/ RepeatCreateJob
    PROVE  TypeOK' /\ Onwards
  <1>1. /\ UNCHANGED <<chains, commands, approvals, packages, request, minted>>
        /\ job' = job \/ job' = "FAILED"
    BY DEF Deliver, CheckIngested, MarkFailed, Crash, RepeatCreateJob, rows
  <1>2. job' \in JobStatuses
    BY <1>1 DEF TypeOK, JobStatuses
  <1>3. /\ queue \subseteq Messages /\ worker \in [Worker -> Delivery]
        /\ lost \subseteq Messages /\ left \in [Bounded -> Nat]
    BY DEF TypeOK
  <1>4. ASSUME queue' \subseteq Messages, worker' \in [Worker -> Delivery],
               lost' \subseteq Messages, left' \in [Bounded -> Nat]
        PROVE  TypeOK' /\ Onwards
    BY <1>1, <1>2, <1>4, CalmType, SameRows
  <1>5. ASSUME NEW m \in queue, Deliver(w, m) PROVE TypeOK' /\ Onwards
    <2> DEFINE state == [Free EXCEPT !.pc = IF m = Upload THEN "ingesting" ELSE "claiming",
                                     !.message = m]
    <2>1. state \in Delivery
      BY <1>3, AtRest DEF Delivery
    <2>2. Put(w, state) /\ UNCHANGED <<queue, lost, left>>
      BY <1>5 DEF Deliver
    <2> HIDE DEF state
    <2> QED
      BY <1>3, <1>4, <2>1, <2>2, DeliveryForms
  <1>6. CASE CheckIngested(w)
    BY <1>3, <1>4, <1>6, DeliveryForms DEF CheckIngested
  <1>7. CASE MarkFailed(w)
    BY <1>3, <1>4, <1>7, DeliveryForms DEF MarkFailed
  <1>8. CASE Crash(w)
    <2>1. left' \in [Bounded -> Nat]
      BY <1>8, Spent DEF Crash, Bounded
    <2> QED
      BY <1>3, <1>4, <1>8, <2>1, DeliveryForms DEF Crash
  <1>9. CASE RepeatCreateJob
    <2>1. left' \in [Bounded -> Nat]
      BY <1>9, Spent DEF RepeatCreateJob, Bounded
    <2>2. queue' \subseteq Messages /\ UNCHANGED <<worker, lost>>
      BY <1>3, <1>9, AtRest DEF RepeatCreateJob
    <2> QED
      BY <1>3, <1>4, <2>1, <2>2
  <1> QED
    BY <1>5, <1>6, <1>7, <1>8, <1>9

\* The ingestion, which brings the first review.
LEMMA IngestType ==
    ASSUME TypeOK, NEW w \in Worker, Ingest(w)
    PROVE  TypeOK' /\ Onwards
  <1> DEFINE first == [decision |-> 0, refs |-> {}]
  <1>1. first \in Readings
    BY DEF Readings
  <1>2. reviews' \in Seq(Readings) /\ Grows(reviews, reviews')
    <2>1. CASE reviews = <<>>
      <3>1. reviews' = <<first>> /\ Len(reviews) = 0
        BY <2>1 DEF Ingest, FirstReview
      <3>2. <<first>> \in Seq(Readings) /\ Len(<<first>>) = 1
        BY <1>1
      <3> QED
        BY <3>1, <3>2 DEF Grows
    <2>2. CASE reviews # <<>>
      BY <2>2, Typed DEF Ingest, FirstReview, Grows, TypeOK
    <2> QED
      BY <2>1, <2>2
  <1>3. UNCHANGED <<scenes, approvals, commands, packages, request, minted, lost, left>>
    BY DEF Ingest
  <1>4. job' \in JobStatuses /\ worker' \in [Worker -> Delivery] /\ queue' \subseteq Messages
    BY DeliveryForms DEF Ingest, JobStatuses, Ingested
  <1> QED
    BY <1>2, <1>3, <1>4, Typed DEF TypeOK, Onwards, Grows, SameSubject

\* The commands in the worker, from their claim to their outcome, short of landing a trace.
LEMMA WorkType ==
    ASSUME TypeOK, Grounded, NEW w \in Worker,
           Claim(w) \/ Solve(w) \/ Build(w) \/ FinishExport(w) \/ Ask(w) \/ AnswerTurn(w)
    PROVE  TypeOK' /\ Onwards
  <1> DEFINE m == worker[w].message
  <1>1. m.id \in 1..Len(commands) /\ Row(w) \in CommandRow /\ worker[w] \in Delivery
    <2>1. worker[w].pc \in {"claiming"} \cup TracePcs \cup ExportPcs \cup ChatPcs
      BY DEF Claim, Solve, Build, FinishExport, Ask, AnswerTurn, At, TracePcs, ExportPcs, ChatPcs
    <2> QED
      BY <2>1, RowOf
  <1>2. UNCHANGED <<chains, approvals, request, minted>>
    BY DEF Claim, Solve, Build, FinishExport, Ask, AnswerTurn, rows
  <1>3. job' \in JobStatuses
    BY DEF Claim, Solve, Build, FinishExport, Ask, AnswerTurn, rows, TypeOK, JobStatuses, Ingested
  <1>4. ASSUME UNCHANGED commands \/ \E status \in Statuses : Status(w, status)
        PROVE  /\ commands' \in Seq(CommandRow) /\ Len(commands') = Len(commands)
               /\ \A d \in 1..Len(commands) : SameSubject(commands[d], commands'[d])
    <2>1. CASE UNCHANGED commands
      BY <2>1, SameRows
    <2>2. ASSUME NEW status \in Statuses, Status(w, status)
          PROVE  /\ commands' \in Seq(CommandRow) /\ Len(commands') = Len(commands)
                 /\ \A d \in 1..Len(commands) : SameSubject(commands[d], commands'[d])
      BY <1>1, <2>2, StatusStep DEF Status
    <2> QED
      BY <1>4, <2>1, <2>2
  <1>5. \A status \in {"RUNNING", "COMPLETED", "FAILED"} : status \in Statuses
    BY DEF Statuses
  <1>6. UNCHANGED commands \/ \E status \in Statuses : Status(w, status)
    BY <1>5 DEF Claim, Solve, Build, FinishExport, Ask, AnswerTurn, rows
  <1>7. packages \subseteq packages' /\ packages' \subseteq 1..Len(commands)
    BY <1>1 DEF Claim, Solve, Build, FinishExport, Ask, AnswerTurn, rows, TypeOK
  <1>8. /\ queue' \subseteq Messages /\ worker' \in [Worker -> Delivery]
        /\ lost' \subseteq Messages
    <2>1. queue \subseteq Messages /\ lost \subseteq Messages
      BY DEF TypeOK
    <2>2. CASE Claim(w)
      <3>1. Work[Row(w).kind] \in {"solving", "building", "answering"}
        BY <1>1 DEF CommandRow, Kinds, Work
      <3> QED
        BY <2>1, <2>2, <3>1, DeliveryForms DEF Claim
    <2>3. CASE Solve(w)
      <3>1. [worker[w] EXCEPT !.pc = "landing", !.scene = Len(scenes)] \in Delivery
        BY <1>1, Typed DEF Delivery
      <3> QED
        BY <2>1, <2>3, <3>1, DeliveryForms DEF Solve
    <2>4. CASE Build(w)
      BY <2>1, <2>4, DeliveryForms DEF Build
    <2>5. CASE FinishExport(w)
      BY <2>1, <2>5, DeliveryForms DEF FinishExport
    <2>6. CASE Ask(w)
      BY <2>1, <2>6, DeliveryForms DEF Ask
    <2>7. CASE AnswerTurn(w)
      BY <2>1, <2>7, DeliveryForms DEF AnswerTurn
    <2> QED
      BY <2>2, <2>3, <2>4, <2>5, <2>6, <2>7
  <1>9. left' \in [Bounded -> Nat]
    <2>1. UNCHANGED left \/ (left["storage"] > 0 /\ left' = [left EXCEPT !["storage"] = @ - 1])
      BY DEF Claim, Solve, Build, FinishExport, Ask, AnswerTurn
    <2> QED
      BY <2>1, Spent DEF Bounded, TypeOK
  <1> QED
    BY <1>2, <1>3, <1>4, <1>6, <1>7, <1>8, <1>9, CalmType

\* A trace lands whole or not at all.
LEMMA LandType ==
    ASSUME TypeOK, Grounded, NEW w \in Worker, Land(w)
    PROVE  TypeOK' /\ Onwards
  <1> DEFINE base == reviews[Row(w).review]
  <1>1. worker[w].message.id \in 1..Len(commands) /\ base \in Readings
    BY RowOf, Typed DEF Land, At, TracePcs
  <1>2. Traced(base) \in Scene
    BY <1>1 DEF Traced, Readings, Scene
  <1>3. /\ commands' \in Seq(CommandRow) /\ Len(commands') = Len(commands)
        /\ \A d \in 1..Len(commands) : SameSubject(commands[d], commands'[d])
    BY <1>1, StatusStep DEF Land, LandConflict, Status, Statuses
  <1>4. reviews \in Seq(Readings) /\ scenes \in Seq(Scene)
    BY DEF TypeOK
  <1>5. /\ reviews' = reviews \/ reviews' = reviews \o <<base>>
        /\ scenes' = scenes \/ scenes' = scenes \o <<Traced(base)>>
    BY DEF Land, LandConflict, chains
  <1>6. reviews' \in Seq(Readings) /\ Grows(reviews, reviews')
    <2>1. AtMostOne(<<base>>, Readings)
      BY <1>1 DEF AtMostOne
    <2> QED
      BY <1>4, <1>5, <2>1, AtMostOneMore
  <1>7. scenes' \in Seq(Scene) /\ Grows(scenes, scenes')
    <2>1. AtMostOne(<<Traced(base)>>, Scene)
      BY <1>2 DEF AtMostOne
    <2> QED
      BY <1>4, <1>5, <2>1, AtMostOneMore
  <1>8. Len(scenes) \in Nat /\ Len(scenes') \in Nat
    BY <1>4, <1>7, LenProperties
  <1>9. approvals' \subseteq 1..Len(scenes') /\ approvals' = approvals
    BY <1>7, <1>8 DEF Land, TypeOK, Grows
  <1>10. UNCHANGED <<job, packages, request, minted, lost, left>>
    BY DEF Land
  <1>11. worker' \in [Worker -> Delivery] /\ queue' \subseteq Messages
    BY DeliveryForms DEF Land
  <1> QED
    BY <1>3, <1>6, <1>7, <1>9, <1>10, <1>11 DEF TypeOK, Onwards

\* Type correctness, and the fact the rest stands on: no step rewrites a revision.
LEMMA TypeStep ==
    ASSUME TypeOK, Grounded, Next
    PROVE  TypeOK' /\ Onwards
  <1>1. ASSUME NEW r \in Request, NEW act \in Act, Begin(r, act) PROVE TypeOK' /\ Onwards
    BY <1>1, BeginType
  <1>2. ASSUME NEW r \in Request, Handle(r) PROVE TypeOK' /\ Onwards
    BY <1>2, LookType, SceneActType, ReviewActType, CommandType DEF Handle
  <1>3. ASSUME NEW w \in Worker, Run(w) \/ Crash(w) PROVE TypeOK' /\ Onwards
    BY <1>3, UploadType, IngestType, WorkType, LandType DEF Run
  <1>4. CASE RepeatCreateJob
    <2>1. 1 \in Worker
      BY ConstantsAssumption DEF Worker
    <2> QED
      BY <1>4, <2>1, UploadType
  <1> QED
    BY <1>1, <1>2, <1>3, <1>4 DEF Next

-----------------------------------------------------------------------------
(* Requests, messages and deliveries stay about things that exist.          *)

\* What a request saw stays true while others write.
LEMMA SoundStays ==
    ASSUME TypeOK, TypeOK', Onwards, NEW r \in Request, Sound(r), request'[r] = request[r]
    PROVE  Sound(r)'
  <1> DEFINE q == request[r]
  <1>1. q \in Serving
    BY DEF TypeOK
  <1>2. /\ Len(reviews) \in Nat /\ Len(scenes) \in Nat /\ Len(commands) \in Nat
        /\ Len(reviews') \in Nat /\ Len(scenes') \in Nat /\ Len(commands') \in Nat
    BY Typed, LenProperties DEF TypeOK
  <1>3. /\ 1..Len(reviews) \subseteq 1..Len(reviews')
        /\ 1..Len(scenes) \subseteq 1..Len(scenes')
        /\ 0..Len(scenes) \subseteq 0..Len(scenes')
        /\ 1..Len(commands) \subseteq 1..Len(commands')
    BY <1>2 DEF Onwards, Grows
  <1>4. /\ \A v \in 1..Len(reviews) : reviews'[v] = reviews[v]
        /\ \A v \in 1..Len(scenes) : scenes'[v] = scenes[v]
        /\ \A c \in 1..Len(commands) : commands'[c].kind = commands[c].kind
        /\ approvals \subseteq approvals'
    BY DEF Onwards, Grows, SameSubject
  <1>5. Acting(r) =>
           /\ \A v \in 1..q.scene : v \in 1..Len(scenes)
           /\ \A v \in 1..q.review : v \in 1..Len(reviews)
    BY <1>1, <1>2 DEF Sound, Serving
  <1>6. ASSUME Acting(r)
        PROVE  /\ q.act \in Act
               /\ q.review \in 1..Len(reviews')
               /\ q.scene \in 0..Len(scenes')
               /\ q.act \in OnScene => q.scene # 0
               /\ q.act \in {"approve", "export"} => q.on \in 1..Len(scenes')
               /\ q.act = "export" => q.on \in approvals'
               /\ q.act = "decide" => reviews'[q.review].decision = 0
               /\ q.act \in {"rectify", "annotate"} => reviews'[q.review].decision # 0
               /\ q.act = "approve" => ~scenes'[q.on].held
    BY <1>3, <1>4, <1>6 DEF Sound
  <1>7. ASSUME q.pc = "ready"
        PROVE  /\ q.act = "approve" => q.scene = q.on
               /\ q.act = "declare" =>
                     \A v \in 1..q.scene : \A ref \in scenes'[v].refs : ref <= q.highest
               /\ q.act = "declareOnReview" =>
                     \A v \in 1..q.review : \A ref \in reviews'[v].refs : ref <= q.highest
               /\ q.act = "export" /\ q.row # 0 =>
                     q.row \in 1..Len(commands') /\ commands'[q.row].kind = "export"
    BY <1>3, <1>4, <1>5, <1>7 DEF Sound, Acting
  <1>8. q.pc = "enqueue" => q.row \in 1..Len(commands')
    BY <1>3 DEF Sound
  <1> QED
    BY <1>6, <1>7, <1>8 DEF Sound, Acting

\* A message keeps naming its row.
LEMMA AddressedStays ==
    ASSUME TypeOK, TypeOK', Onwards, NEW m, Addressed(m)
    PROVE  Addressed(m)'
  <1>1. Len(commands) \in Nat /\ Len(commands') \in Nat
    BY Typed, LenProperties DEF TypeOK
  <1> QED
    BY <1>1 DEF Addressed, Onwards, SameSubject

\* A delivery that did not move keeps working on its row.
LEMMA WorkingStays ==
    ASSUME TypeOK, TypeOK', Onwards, NEW w \in Worker, Working(w), worker'[w] = worker[w]
    PROVE  Working(w)'
  <1>1. Addressed(worker[w].message)'
    BY AddressedStays DEF Working
  <1> QED
    BY <1>1 DEF Working, Addressed

\* While nobody ingested the document nothing writes a scene.
LEMMA FirstThingsFirst ==
    ASSUME TypeOK, Grounded, TypeOK', Onwards, Next, reviews' = <<>>
    PROVE  scenes' = <<>>
  <1>1. Len(reviews) = 0 /\ reviews = <<>> /\ scenes = <<>>
    <2>1. Len(reviews) <= Len(reviews') /\ Len(reviews') = 0
      BY DEF Onwards, Grows
    <2> QED
      BY <2>1, Typed DEF Grounded
  <1>2. \A r \in Request : ~Acting(r)
    BY <1>1 DEF Grounded, Sound
  <1>3. ASSUME NEW r \in Request, Handle(r) \/ \E act \in Act : Begin(r, act)
        PROVE  scenes' = scenes
    <2>1. Enqueue(r) \/ \E act \in Act : Begin(r, act)
      BY <1>2, <1>3 DEF Handle, LookForRefs, LookAtScene, LookForExport, Looking, CreateRevision,
         DeclareElement, RevokeElement, DeclareReviewElement, RevokeReviewElement,
         SubmitReviewDecisions, RectifyReviewDecisions, AnnotateDimension, ApproveScene,
         CreateTraceSolve, CreateExport, CreateChatTurn, Ready, Acting
    <2> QED
      BY <2>1 DEF Enqueue, Begin, rows, chains
  <1>4. ASSUME NEW w \in Worker, Run(w) \/ Crash(w) PROVE scenes' = scenes
    <2>1. ~Land(w)
      <3>1. worker[w].pc = "landing" => Row(w).review \in 1..Len(reviews)
        BY RowOf DEF TracePcs
      <3> QED
        BY <1>1, <3>1 DEF Land, At
    <2> QED
      BY <1>4, <2>1 DEF Run, Crash, Deliver, CheckIngested, Ingest, MarkFailed, Claim, Solve,
         Build, FinishExport, Ask, AnswerTurn, rows, chains
  <1> QED
    BY <1>1, <1>3, <1>4 DEF Next, RepeatCreateJob, rows, chains

\* A request that was answered has nothing left to be sound about.
LEMMA AnsweredSound ==
    ASSUME TypeOK, NEW r \in Request, Answered(r)
    PROVE  Sound(r)'
  <1>1. request'[r] = Waiting
    BY DEF Answered, TypeOK
  <1> QED
    BY <1>1 DEF Sound, Acting, Waiting

\* What the first SELECT saw.
LEMMA BeginSound ==
    ASSUME TypeOK, NEW r \in Request, NEW act \in Act, Begin(r, act)
    PROVE  Sound(r)'
  <1> DEFINE q == request'[r]
  <1>1. PICK on \in Target :
           /\ Accepts(act, on)
           /\ request' = [request EXCEPT ![r] =
                [Waiting EXCEPT !.pc = IF act \in LooksAgain THEN "look" ELSE "ready",
                                !.act = act, !.on = on, !.review = Len(reviews),
                                !.scene = Len(scenes), !.job = job,
                                !.row = Cardinality(Rows("chat"))]]
    BY DEF Begin
  <1>2. /\ q.pc = IF act \in LooksAgain THEN "look" ELSE "ready"
        /\ q.act = act /\ q.on = on /\ q.review = Len(reviews) /\ q.scene = Len(scenes)
    BY <1>1 DEF TypeOK, Waiting
  <1>3. UNCHANGED <<reviews, scenes, approvals, commands>> /\ reviews # <<>>
    BY DEF Begin, rows, chains
  <1>4. Len(reviews) \in 1..Len(reviews) /\ Len(scenes) \in 0..Len(scenes)
    BY <1>3, Typed
  <1>5. act \in OnScene => Len(scenes) # 0
    BY <1>1, Typed DEF Accepts, OnScene
  <1>6. /\ act \in {"approve", "export"} => on \in 1..Len(scenes)
        /\ act = "export" => on \in approvals
        /\ act = "decide" => reviews[Len(reviews)].decision = 0
        /\ act \in {"rectify", "annotate"} => reviews[Len(reviews)].decision # 0
        /\ act = "approve" => ~scenes[on].held
    BY <1>1, Typed DEF Accepts, MayExport, Current
  <1>7. q.pc = "ready" => act \notin {"approve", "declare", "declareOnReview", "export"}
    BY <1>2 DEF LooksAgain
  <1>8. q.pc # "enqueue"
    BY <1>2
  <1> QED
    BY <1>2, <1>3, <1>4, <1>5, <1>6, <1>7, <1>8 DEF Sound, Acting

\* What the second SELECT saw.
LEMMA LookSound ==
    ASSUME TypeOK, NEW r \in Request, Sound(r),
           LookForRefs(r) \/ LookAtScene(r) \/ LookForExport(r)
    PROVE  Sound(r)'
  <1> DEFINE q == request[r]
  <1>1. q \in Serving /\ Acting(r)
    BY DEF TypeOK, LookForRefs, LookAtScene, LookForExport, Looking, Acting
  <1>2. UNCHANGED <<reviews, scenes, approvals, commands>>
    BY DEF LookForRefs, LookAtScene, LookForExport, rows, chains
  <1>3. q.review \in 1..Len(reviews) /\ q.scene \in 0..Len(scenes)
    BY <1>1 DEF Sound
  <1>4. CASE LookForRefs(r)
    <2>1. PICK highest \in Cited \cup {0} :
             /\ \A ref \in Cited : ref <= highest
             /\ Seen(r, [request[r] EXCEPT !.pc = "ready", !.highest = highest])
      BY <1>4 DEF LookForRefs
    <2>2. request'[r] = [q EXCEPT !.pc = "ready", !.highest = highest]
      BY <2>1 DEF Seen, TypeOK
    <2>3. /\ \A v \in 1..q.scene : \A ref \in scenes[v].refs : ref <= highest
          /\ \A v \in 1..q.review : \A ref \in reviews[v].refs : ref <= highest
      <3>1. \A v \in 1..q.scene : v \in 1..Len(scenes)
        BY <1>1, <1>3, Typed DEF Serving
      <3>2. \A v \in 1..q.review : v \in 1..Len(reviews)
        BY <1>1, <1>3, Typed DEF Serving
      <3> QED
        BY <2>1, <3>1, <3>2, CitedIn
    <2>4. q.act \in {"declare", "declareOnReview"}
      BY <1>4 DEF LookForRefs, Looking
    <2>5. /\ request'[r].pc = "ready" /\ request'[r].highest = highest
          /\ request'[r].act = q.act /\ request'[r].on = q.on
          /\ request'[r].review = q.review /\ request'[r].scene = q.scene
      BY <1>1, <2>2 DEF Serving
    <2> QED
      BY <1>1, <1>2, <2>3, <2>4, <2>5 DEF Sound, Acting
  <1>5. CASE LookAtScene(r)
    <2>1. CASE Seen(r, Waiting)
      BY <2>1, AnsweredSound DEF Seen, Answered
    <2>2. CASE /\ q.act = "rectify" \/ Len(scenes) = IF q.act = "approve" THEN q.on ELSE q.scene
               /\ Seen(r, [q EXCEPT !.pc = "ready", !.scene = Len(scenes)])
      <3>1. request'[r] = [q EXCEPT !.pc = "ready", !.scene = Len(scenes)]
        BY <2>2 DEF Seen, TypeOK
      <3>2. /\ request'[r].pc = "ready" /\ request'[r].scene = Len(scenes)
            /\ request'[r].act = q.act /\ request'[r].on = q.on
            /\ request'[r].review = q.review
        BY <1>1, <3>1 DEF Serving
      <3>3. q.act \in {"rectify", "annotate", "trace", "approve"}
        BY <1>5 DEF LookAtScene, Looking
      <3>4. Len(scenes) \in 0..Len(scenes)
        BY Typed
      <3>5. q.act \in OnScene => Len(scenes) # 0
        BY <1>1, <2>2, <3>3 DEF Sound, OnScene
      <3>6. q.act = "approve" => Len(scenes) = q.on
        BY <2>2
      <3> QED
        BY <1>1, <1>2, <3>2, <3>3, <3>4, <3>5, <3>6 DEF Sound, Acting
    <2> QED
      BY <1>5, <2>1, <2>2 DEF LookAtScene
  <1>6. CASE LookForExport(r)
    <2>1. CASE Seen(r, Waiting)
      BY <2>1, AnsweredSound DEF Seen, Answered
    <2>2. CASE Seen(r, [q EXCEPT !.pc = "ready", !.row = 0])
      <3>1. request'[r] = [q EXCEPT !.pc = "ready", !.row = 0]
        BY <2>2 DEF Seen, TypeOK
      <3>2. /\ request'[r].pc = "ready" /\ request'[r].row = 0
            /\ request'[r].act = q.act /\ request'[r].on = q.on
            /\ request'[r].review = q.review /\ request'[r].scene = q.scene
        BY <1>1, <3>1 DEF Serving
      <3>3. q.act = "export"
        BY <1>6 DEF LookForExport, Looking
      <3> QED
        BY <1>1, <1>2, <3>2, <3>3 DEF Sound, Acting
    <2>3. ASSUME NEW c \in ExportOf(q.on), NEW b,
                 Seen(r, [q EXCEPT !.pc = "ready", !.row = c, !.queued = b])
          PROVE  Sound(r)'
      <3>1. request'[r] = [q EXCEPT !.pc = "ready", !.row = c, !.queued = b]
        BY <2>3 DEF Seen, TypeOK
      <3>2. /\ request'[r].pc = "ready" /\ request'[r].row = c
            /\ request'[r].act = q.act /\ request'[r].on = q.on
            /\ request'[r].review = q.review /\ request'[r].scene = q.scene
        BY <1>1, <3>1 DEF Serving
      <3>3. q.act = "export" /\ c \in 1..Len(commands) /\ commands[c].kind = "export"
        BY <1>6, Typed DEF LookForExport, Looking, ExportOf, Rows
      <3> QED
        BY <1>1, <1>2, <3>2, <3>3 DEF Sound, Acting
    <2> QED
      BY <1>6, <2>1, <2>2, <2>3 DEF LookForExport
  <1> QED
    BY <1>4, <1>5, <1>6

\* A command that is durable has a row to send a message about.
LEMMA CommandSound ==
    ASSUME TypeOK, NEW r \in Request, Sound(r),
           CreateTraceSolve(r) \/ CreateExport(r) \/ CreateChatTurn(r)
    PROVE  Sound(r)'
  <1>1. ASSUME NEW table, NEW c \in 1..Len(commands'), Record(r, table, c)
        PROVE  Sound(r)'
    <2>1. request'[r] = [Waiting EXCEPT !.pc = "enqueue", !.row = c]
      BY <1>1 DEF Record, Seen, TypeOK
    <2>2. request'[r].pc = "enqueue" /\ request'[r].row = c
      BY <2>1 DEF Waiting
    <2> QED
      BY <2>2 DEF Sound, Acting
  <1>2. ASSUME NEW row \in CommandRow, Record(r, commands \o <<row>>, NewCommand)
        PROVE  Sound(r)'
    <2>1. commands' = commands \o <<row>>
      BY <1>2 DEF Record
    <2>2. Len(commands') = Len(commands) + 1
      BY <2>1, RowStep
    <2>3. NewCommand \in 1..Len(commands')
      BY <2>2, Typed DEF NewCommand
    <2> QED
      BY <1>1, <1>2, <2>3
  <1>3. Refused(r) => Sound(r)'
    BY AnsweredSound DEF Refused
  <1>4. request[r] \in Serving
    BY DEF TypeOK
  <1>5. \A kind \in Kinds, review, scene \in Nat : Command(kind, review, scene) \in CommandRow
    BY DEF Command, CommandRow, Statuses
  <1>6. CASE CreateTraceSolve(r)
    <2>1. Command("trace", request[r].review, request[r].scene) \in CommandRow
      BY <1>4, <1>5 DEF Serving, Kinds
    <2> QED
      BY <1>2, <1>6, <2>1 DEF CreateTraceSolve
  <1>7. CASE CreateExport(r)
    <2> DEFINE c == request[r].row
    <2>1. Command("export", 0, request[r].on) \in CommandRow
      BY <1>4, <1>5 DEF Serving, Kinds
    <2>2. ASSUME NEW table, c # 0, Record(r, table, c), Len(commands') = Len(commands)
          PROVE  Sound(r)'
      <3>1. c \in 1..Len(commands')
        BY <1>7, <2>2 DEF CreateExport, Ready, Sound
      <3> QED
        BY <1>1, <2>2, <3>1
    <2>3. ASSUME c # 0,
                 Record(r, IF request[r].queued THEN commands
                           ELSE [commands EXCEPT ![c].status = "QUEUED"], c)
          PROVE  Sound(r)'
      <3>1. c \in 1..Len(commands)
        BY <1>7, <2>3 DEF CreateExport, Ready, Sound
      <3>2. Len(commands') = Len(commands)
        <4>1. commands' = commands \/ commands' = [commands EXCEPT ![c].status = "QUEUED"]
          BY <2>3 DEF Record
        <4>2. CASE commands' = [commands EXCEPT ![c].status = "QUEUED"]
          BY <3>1, <4>2, StatusStep DEF Statuses
        <4> QED
          BY <4>1, <4>2
      <3> QED
        BY <2>2, <2>3, <3>2
    <2> QED
      BY <1>2, <1>3, <1>7, <2>1, <2>3 DEF CreateExport
  <1>8. CASE CreateChatTurn(r)
    <2>1. Command("chat", 0, 0) \in CommandRow
      BY <1>5 DEF Kinds
    <2> QED
      BY <1>2, <1>3, <1>8, <2>1 DEF CreateChatTurn
  <1> QED
    BY <1>6, <1>7, <1>8

\* The rows of the worker's steps: as many as there were.
LEMMA WorkerRows ==
    ASSUME TypeOK, Grounded, NEW w \in Worker, Run(w) \/ Crash(w)
    PROVE  Len(commands') = Len(commands)
  <1>1. CASE UNCHANGED commands
    BY <1>1
  <1>2. ASSUME worker[w].pc \in {"claiming"} \cup TracePcs \cup ExportPcs \cup ChatPcs,
               NEW status \in Statuses, Status(w, status)
        PROVE  Len(commands') = Len(commands)
    BY <1>2, RowOf, StatusStep DEF Status
  <1>3. \/ UNCHANGED commands
        \/ /\ worker[w].pc \in {"claiming"} \cup TracePcs \cup ExportPcs \cup ChatPcs
           /\ \E status \in Statuses : Status(w, status)
    BY DEF Run, Crash, Deliver, CheckIngested, Ingest, MarkFailed, Claim, Solve, Land,
           LandConflict, Build, FinishExport, Ask, AnswerTurn, rows, At, TracePcs, ExportPcs,
           ChatPcs, Statuses
  <1> QED
    BY <1>1, <1>2, <1>3

\* A row that was not there is a command some request just made durable.
LEMMA NewRows ==
    ASSUME TypeOK, Grounded, Next, NEW c \in 1..Len(commands'), c \notin 1..Len(commands)
    PROVE  \E r \in Request :
              \/ /\ Ready(r, "trace")
                 /\ commands'[c] = Command("trace", request[r].review, request[r].scene)
              \/ Ready(r, "export") /\ commands'[c] = Command("export", 0, request[r].on)
              \/ commands'[c] = Command("chat", 0, 0)
  <1>1. Len(commands') # Len(commands)
    OBVIOUS
  <1>2. PICK r \in Request : CreateTraceSolve(r) \/ CreateExport(r) \/ CreateChatTurn(r)
    <2>1. ~RepeatCreateJob
      BY <1>1 DEF RepeatCreateJob, rows
    <2>2. \A w \in Worker : ~(Run(w) \/ Crash(w))
      BY <1>1, WorkerRows
    <2>3. PICK r \in Request : Handle(r) \/ \E act \in Act : Begin(r, act)
      BY <2>1, <2>2 DEF Next
    <2>4. CreateTraceSolve(r) \/ CreateExport(r) \/ CreateChatTurn(r)
      BY <1>1, <2>3 DEF Handle, Begin, LookForRefs, LookAtScene, LookForExport, CreateRevision,
         DeclareElement, RevokeElement, DeclareReviewElement, RevokeReviewElement,
         SubmitReviewDecisions, RectifyReviewDecisions, AnnotateDimension, ApproveScene,
         Enqueue, Extend, rows
    <2> QED
      BY <2>4
  <1>3. ASSUME NEW row \in CommandRow, commands' = commands \o <<row>>
        PROVE  commands'[c] = row
    <2>1. Len(commands') = Len(commands) + 1 /\ commands'[Len(commands) + 1] = row
      BY <1>3, RowStep
    <2>2. c = Len(commands) + 1
      BY <2>1, Typed
    <2> QED
      BY <2>1, <2>2
  <1>4. /\ request[r] \in Serving
        /\ \A kind \in Kinds, review, scene \in Nat : Command(kind, review, scene) \in CommandRow
    BY DEF TypeOK, Command, CommandRow, Statuses
  <1>5. CASE CreateTraceSolve(r)
    <2>1. Command("trace", request[r].review, request[r].scene) \in CommandRow
      BY <1>4 DEF Serving, Kinds
    <2> QED
      BY <1>3, <1>5, <2>1 DEF CreateTraceSolve, Record
  <1>6. CASE CreateExport(r)
    <2> DEFINE d == request[r].row
    <2>1. Command("export", 0, request[r].on) \in CommandRow
      BY <1>4 DEF Serving, Kinds
    <2>2. \/ commands' = commands \o <<Command("export", 0, request[r].on)>>
          \/ commands' = commands
          \/ d # 0 /\ commands' = [commands EXCEPT ![d].status = "QUEUED"]
      BY <1>6 DEF CreateExport, Record, Refused, rows
    <2>3. d # 0 => d \in 1..Len(commands)
      BY <1>6 DEF CreateExport, Ready, Grounded, Sound
    <2>4. commands' = commands \o <<Command("export", 0, request[r].on)>>
      BY <1>1, <2>2, <2>3, StatusStep DEF Statuses
    <2> QED
      BY <1>3, <1>6, <2>1, <2>4 DEF CreateExport
  <1>7. CASE CreateChatTurn(r)
    <2>1. Command("chat", 0, 0) \in CommandRow
      BY <1>4 DEF Kinds
    <2>2. commands' = commands \o <<Command("chat", 0, 0)>>
      BY <1>1, <1>7 DEF CreateChatTurn, Record, Refused, rows
    <2> QED
      BY <1>3, <2>1, <2>2
  <1> QED
    BY <1>2, <1>5, <1>6, <1>7

\* Every trace row keeps the review it was accepted over.
LEMMA TraceRows ==
    ASSUME TypeOK, Grounded, Next, TypeOK', Onwards, NEW c \in 1..Len(commands'),
           commands'[c].kind = "trace"
    PROVE  commands'[c].review \in 1..Len(reviews')
  <1>1. Len(reviews) \in Nat /\ Len(reviews') \in Nat /\ Len(reviews) <= Len(reviews')
    BY Typed, LenProperties DEF TypeOK, Onwards, Grows
  <1>2. CASE c \in 1..Len(commands)
    BY <1>1, <1>2 DEF Grounded, Onwards, SameSubject
  <1>3. CASE c \notin 1..Len(commands)
    <2>1. PICK r \in Request :
              \/ /\ Ready(r, "trace")
                 /\ commands'[c] = Command("trace", request[r].review, request[r].scene)
              \/ commands'[c] = Command("export", 0, request[r].on)
              \/ commands'[c] = Command("chat", 0, 0)
      BY <1>3, NewRows
    <2>2. Acting(r) /\ commands'[c].review = request[r].review
      BY <2>1 DEF Command, Ready, Acting
    <2>3. request[r].review \in 1..Len(reviews)
      BY <2>2 DEF Grounded, Sound
    <2> QED
      BY <1>1, <2>2, <2>3
  <1> QED
    BY <1>2, <1>3

\* A step of a request.
LEMMA RequestGrounded ==
    ASSUME TypeOK, Grounded, TypeOK', Onwards, NEW r \in Request,
           Handle(r) \/ \E act \in Act : Begin(r, act)
    PROVE  /\ \A o \in Request : Sound(o)'
           /\ \A m \in queue' : Addressed(m)'
           /\ \A w \in Worker : Working(w)'
  <1>1. /\ \A o \in Request \ {r} : request'[o] = request[o]
        /\ worker' = worker
        /\ \/ queue' = queue
           \/ request[r].pc = "enqueue" /\ queue' = queue \cup {Message(request[r].row)}
    BY DEF TypeOK, Handle, Begin, LookForRefs, LookAtScene, LookForExport, Seen, CreateRevision,
       DeclareElement, RevokeElement, DeclareReviewElement, RevokeReviewElement,
       SubmitReviewDecisions, RectifyReviewDecisions, AnnotateDimension, ApproveScene, Extend,
       Answered, CreateTraceSolve, CreateExport, CreateChatTurn, Record, Refused, Enqueue, rows
  <1>2. \A o \in Request \ {r} : Sound(o)'
    BY <1>1, SoundStays DEF Grounded
  <1>3. Sound(r)'
    <2>1. Sound(r)
      BY DEF Grounded
    <2>2. ASSUME NEW act \in Act, Begin(r, act) PROVE Sound(r)'
      BY <2>2, BeginSound
    <2>3. CASE LookForRefs(r) \/ LookAtScene(r) \/ LookForExport(r)
      BY <2>1, <2>3, LookSound
    <2>4. CASE CreateTraceSolve(r) \/ CreateExport(r) \/ CreateChatTurn(r)
      BY <2>1, <2>4, CommandSound
    <2>5. Answered(r) => Sound(r)'
      BY AnsweredSound
    <2> QED
      BY <2>2, <2>3, <2>4, <2>5 DEF Handle, CreateRevision, DeclareElement, RevokeElement,
         DeclareReviewElement, RevokeReviewElement, SubmitReviewDecisions,
         RectifyReviewDecisions, AnnotateDimension, ApproveScene, Extend, Enqueue
  <1>4. \A m \in queue' : Addressed(m)
    <2>1. request[r].pc = "enqueue" => Addressed(Message(request[r].row))
      BY DEF Grounded, Sound, Addressed, Message
    <2> QED
      BY <1>1, <2>1 DEF Grounded
  <1>5. \A m \in queue' : Addressed(m)'
    BY <1>4, AddressedStays
  <1>6. \A w \in Worker : Working(w)'
    BY <1>1, WorkingStays DEF Grounded
  <1> QED
    BY <1>2, <1>3, <1>5, <1>6

\* A step of a delivery.
LEMMA DeliveryGrounded ==
    ASSUME TypeOK, Grounded, TypeOK', Onwards, NEW w \in Worker, Run(w) \/ Crash(w)
    PROVE  /\ \A o \in Request : Sound(o)'
           /\ \A m \in queue' : Addressed(m)'
           /\ \A v \in Worker : Working(v)'
  <1>1. /\ request' = request
        /\ queue' \subseteq queue
        /\ \A v \in Worker \ {w} : worker'[v] = worker[v]
    BY DEF TypeOK, Run, Crash, Deliver, CheckIngested, Ingest, MarkFailed, Claim, Solve, Land,
       Build, FinishExport, Ask, AnswerTurn, Ack, Raise, Go, Put, rows
  <1>2. \A o \in Request : Sound(o)'
    BY <1>1, SoundStays DEF Grounded
  <1>3. \A m \in queue' : Addressed(m)'
    BY <1>1, AddressedStays DEF Grounded
  <1>4. \A v \in Worker \ {w} : Working(v)'
    BY <1>1, WorkingStays DEF Grounded
  <1>5. Working(w)'
    <2>1. worker[w] \in Delivery /\ Working(w)
      BY DEF TypeOK, Grounded
    <2>2. CASE worker'[w] = Free
      BY <2>2 DEF Working, Addressed, Free, TracePcs, ExportPcs, ChatPcs
    <2>3. ASSUME NEW m \in queue, Deliver(w, m) PROVE Working(w)'
      <3>1. /\ worker'[w].pc = IF m = Upload THEN "ingesting" ELSE "claiming"
            /\ worker'[w].message = m
        BY <2>3 DEF Deliver, Put, TypeOK, Free
      <3>2. Addressed(m)'
        BY AddressedStays DEF Grounded
      <3> QED
        BY <3>1, <3>2 DEF Working, Addressed, TracePcs, ExportPcs, ChatPcs
    <2>4. ASSUME NEW pc, worker'[w].message = worker[w].message, worker'[w].pc = pc,
                 \/ pc = "reading"
                 \/ pc = "landing" /\ worker[w].pc = "solving"
                 \/ pc = "finishing" /\ worker[w].pc = "building"
                 \/ pc = "answered" /\ worker[w].pc = "answering"
                 \/ /\ worker[w].pc = "claiming"
                    /\ pc = Work[Row(w).kind]
          PROVE  Working(w)'
      <3>1. Addressed(worker[w].message)'
        BY <2>1, <2>4, AddressedStays DEF Working, Addressed
      <3>2. CASE worker[w].pc = "claiming" /\ pc = Work[Row(w).kind]
        <4>1. /\ worker[w].message # Upload /\ Row(w).kind = worker[w].message.kind
              /\ Row(w) \in CommandRow
          BY <3>2, RowOf DEF Grounded, Working
        <4>2. /\ pc \in TracePcs => worker[w].message.kind = "trace"
              /\ pc \in ExportPcs => worker[w].message.kind = "export"
              /\ pc \in ChatPcs => worker[w].message.kind = "chat"
          BY <3>2, <4>1 DEF CommandRow, Kinds, Work, TracePcs, ExportPcs, ChatPcs
        <4> QED
          BY <2>4, <3>1, <4>1, <4>2 DEF Working, Addressed
      <3>3. CASE ~(worker[w].pc = "claiming" /\ pc = Work[Row(w).kind])
        <4>1. \/ pc = "reading"
              \/ pc \in TracePcs /\ worker[w].pc \in TracePcs
              \/ pc \in ExportPcs /\ worker[w].pc \in ExportPcs
              \/ pc \in ChatPcs /\ worker[w].pc \in ChatPcs
          BY <2>4, <3>3 DEF TracePcs, ExportPcs, ChatPcs
        <4> QED
          BY <2>1, <2>4, <3>1, <4>1 DEF Working, Addressed, TracePcs, ExportPcs, ChatPcs
      <3> QED
        BY <3>2, <3>3
    <2>5. \A pc : Go(w, pc) => worker'[w].pc = pc /\ worker'[w].message = worker[w].message
      BY <2>1 DEF Go, Put, TypeOK, Delivery
    <2>6. Ack(w) \/ Raise(w) => worker'[w] = Free
      BY DEF Ack, Raise, Put, TypeOK
    <2>7. CASE CheckIngested(w) \/ Ingest(w) \/ MarkFailed(w)
      BY <2>2, <2>4, <2>5, <2>6, <2>7 DEF CheckIngested, Ingest, MarkFailed
    <2>8. CASE Claim(w)
      BY <2>2, <2>4, <2>5, <2>6, <2>8 DEF Claim, At
    <2>9. CASE Solve(w)
      <3>1. Put(w, [worker[w] EXCEPT !.pc = "landing", !.scene = Len(scenes)]) =>
               worker'[w].pc = "landing" /\ worker'[w].message = worker[w].message
        BY <2>1 DEF Put, TypeOK, Delivery
      <3> QED
        BY <2>2, <2>4, <2>6, <2>9, <3>1 DEF Solve, At
    <2>10. CASE Land(w) \/ FinishExport(w) \/ AnswerTurn(w) \/ Crash(w)
      BY <2>2, <2>6, <2>10 DEF Land, FinishExport, AnswerTurn, Crash
    <2>11. CASE Build(w) \/ Ask(w)
      BY <2>2, <2>4, <2>5, <2>6, <2>11 DEF Build, Ask, At
    <2> QED
      BY <2>3, <2>7, <2>8, <2>9, <2>10, <2>11 DEF Run
  <1> QED
    BY <1>2, <1>3, <1>4, <1>5

\* What requests and deliveries are about stays there, whoever moves.
LEMMA GroundedStep ==
    ASSUME TypeOK, Grounded, Next, TypeOK', Onwards
    PROVE  Grounded'
  <1>1. reviews' = <<>> => scenes' = <<>>
    BY FirstThingsFirst
  <1>2. \A c \in 1..Len(commands') :
           commands'[c].kind = "trace" => commands'[c].review \in 1..Len(reviews')
    BY TraceRows
  <1>3. /\ \A o \in Request : Sound(o)'
        /\ \A m \in queue' : Addressed(m)'
        /\ \A w \in Worker : Working(w)'
    <2>1. CASE RepeatCreateJob
      <3>1. request' = request /\ worker' = worker /\ queue' = queue \cup {Upload}
        BY <2>1 DEF RepeatCreateJob
      <3>2. \A m \in queue' : Addressed(m)
        BY <3>1 DEF Grounded, Addressed
      <3> QED
        BY <3>1, <3>2, SoundStays, AddressedStays, WorkingStays DEF Grounded
    <2> QED
      BY <2>1, RequestGrounded, DeliveryGrounded DEF Next
  <1> QED
    BY <1>1, <1>2, <1>3 DEF Grounded

-----------------------------------------------------------------------------
(* A ref names one element.                                                 *)

\* A chain that is extended by one revision is extended.
LEMMA OneIsNotNone == \A x : <<x>> # <<>>
  OBVIOUS

\* A ref given out stays in the revision that brought it.
LEMMA BroughtStays ==
    ASSUME TypeOK, TypeOK', Onwards, NEW m \in Mint, Brought(m)
    PROVE  Brought(m)'
  <1>1. /\ Len(reviews) \in Nat /\ Len(reviews') \in Nat
        /\ Len(scenes) \in Nat /\ Len(scenes') \in Nat
    BY Typed, LenProperties DEF TypeOK
  <1> QED
    BY <1>1 DEF Brought, Onwards, Grows

\* Which steps give out refs.
LEMMA WhoMints ==
    ASSUME Next, minted' # minted
    PROVE  \E r \in Request : DeclareElement(r) \/ DeclareReviewElement(r)
  BY DEF Next, Handle, Begin, LookForRefs, LookAtScene, LookForExport, CreateRevision,
     RevokeElement, RevokeReviewElement, SubmitReviewDecisions, RectifyReviewDecisions,
     AnnotateDimension, ApproveScene, Untouched, CreateTraceSolve, CreateExport, CreateChatTurn,
     Record, Refused, Enqueue, RepeatCreateJob, Run, Crash, Deliver, CheckIngested, Ingest,
     MarkFailed, Claim, Solve, Land, Build, FinishExport, Ask, AnswerTurn

\* A fresh ref, wherever it is brought, leaves the others single.
LEMMA FreshRef ==
    ASSUME Refs, NEW m \in Mint, minted' = minted \cup {m},
           \A a \in minted : a.side = m.side => a.ref # m.ref,
           Brought(m)', \A a \in minted : Brought(a)'
    PROVE  Refs'
  <1>1. \A a, b \in minted' : a.ref = b.ref /\ a.side = b.side => a = b
    BY DEF Refs, RefNamesOneElement
  <1>2. \A a \in minted' : Brought(a)'
    OBVIOUS
  <1> QED
    BY <1>1, <1>2 DEF Refs, RefNamesOneElement

\* The refs of a revision further than what _next_element_ref scanned lose the unique index;
\* all the others are below the ref given out.
LEMMA RefsStep ==
    ASSUME TypeOK, Grounded, Refs, Next, TypeOK', Onwards
    PROVE  Refs'
  <1>1. \A a \in minted : a \in Mint /\ Brought(a)
    BY DEF TypeOK, Refs
  <1>2. \A a \in minted : Brought(a)'
    BY <1>1, BroughtStays
  <1>3. CASE minted' = minted
    <2>1. RefNamesOneElement'
      BY <1>3 DEF Refs, RefNamesOneElement
    <2> QED
      BY <1>2, <1>3, <2>1 DEF Refs
  <1>4. ASSUME NEW r \in Request, DeclareElement(r), minted' # minted PROVE Refs'
    <2> DEFINE q == request[r]
               refs == BaseScene(r).refs \cup {q.highest + 1}
               new == WithRefs(BaseScene(r), refs)
    <2>1. /\ Fits(r, <<>>, <<new>>) /\ minted' = minted \cup {Minted(r, "scene", scenes)}
          /\ scenes' = scenes \o <<new>>
      BY <1>4 DEF DeclareElement, Extend
    <2>2. /\ q \in Serving /\ Acting(r) /\ q.pc = "ready" /\ q.act = "declare"
          /\ q.highest \in Nat
      BY <1>4 DEF TypeOK, DeclareElement, Ready, Acting, Serving
    <2>3. Len(scenes) = q.scene
      BY <2>1, OneIsNotNone DEF Fits
    <2>4. \A v \in 1..Len(scenes) : \A ref \in scenes[v].refs : ref <= q.highest
      BY <2>2, <2>3 DEF Grounded, Sound
    <2>5. PICK m \in Mint : m = Minted(r, "scene", scenes)
      BY MintedForm
    <2>6. m.ref = q.highest + 1 /\ m.side = "scene" /\ m.version = Len(scenes) + 1
      BY <2>5 DEF Minted
    <2>7. \A a \in minted : a.side = m.side => a.ref # m.ref
      <3> SUFFICES ASSUME NEW a \in minted, a.side = "scene" PROVE a.ref # q.highest + 1
        BY <2>6
      <3>1. a.ref \in Nat /\ a.ref <= q.highest
        BY <1>1, <2>4 DEF Brought, Mint
      <3> QED
        BY <2>2, <3>1
    <2>8. Brought(m)'
      <3>1. BaseScene(r) \in Scene
        BY <2>2, Bases DEF Grounded, Sound, OnScene
      <3>2. refs \in SUBSET Nat
        BY <2>2, <3>1 DEF Scene
      <3> HIDE DEF refs
      <3>3. new \in Scene /\ new.refs = refs
        BY <3>1, <3>2 DEF WithRefs, Scene
      <3> HIDE DEF new
      <3>4. Len(scenes') = Len(scenes) + 1 /\ scenes'[Len(scenes) + 1] = new
        BY <2>1, <3>3, Appended DEF TypeOK
      <3> QED
        BY <2>6, <3>3, <3>4, Typed DEF Brought, refs
    <2> QED
      BY <1>2, <2>1, <2>5, <2>7, <2>8, FreshRef
  <1>5. ASSUME NEW r \in Request, DeclareReviewElement(r), minted' # minted PROVE Refs'
    <2> DEFINE q == request[r]
               refs == BaseReview(r).refs \cup {q.highest + 1}
               new == [BaseReview(r) EXCEPT !.refs = refs]
    <2>1. /\ Fits(r, <<new>>, <<>>) /\ minted' = minted \cup {Minted(r, "review", reviews)}
          /\ reviews' = reviews \o <<new>>
      BY <1>5 DEF DeclareReviewElement, Extend
    <2>2. /\ q \in Serving /\ Acting(r) /\ q.pc = "ready" /\ q.act = "declareOnReview"
          /\ q.highest \in Nat
      BY <1>5 DEF TypeOK, DeclareReviewElement, Ready, Acting, Serving
    <2>3. Len(reviews) = q.review
      BY <2>1, OneIsNotNone DEF Fits
    <2>4. \A v \in 1..Len(reviews) : \A ref \in reviews[v].refs : ref <= q.highest
      BY <2>2, <2>3 DEF Grounded, Sound
    <2>5. PICK m \in Mint : m = Minted(r, "review", reviews)
      BY MintedForm
    <2>6. m.ref = q.highest + 1 /\ m.side = "review" /\ m.version = Len(reviews) + 1
      BY <2>5 DEF Minted
    <2>7. \A a \in minted : a.side = m.side => a.ref # m.ref
      <3> SUFFICES ASSUME NEW a \in minted, a.side = "review" PROVE a.ref # q.highest + 1
        BY <2>6
      <3>1. a.ref \in Nat /\ a.ref <= q.highest
        BY <1>1, <2>4 DEF Brought, Mint
      <3> QED
        BY <2>2, <3>1
    <2>8. Brought(m)'
      <3>1. BaseReview(r) \in Readings
        BY <2>2, Bases
      <3>2. refs \in SUBSET Nat
        BY <2>2, <3>1 DEF Readings
      <3> HIDE DEF refs
      <3>3. new \in Readings /\ new.refs = refs
        BY <3>1, <3>2 DEF Readings
      <3> HIDE DEF new
      <3>4. Len(reviews') = Len(reviews) + 1 /\ reviews'[Len(reviews) + 1] = new
        BY <2>1, <3>3, Appended DEF TypeOK
      <3> QED
        BY <2>6, <3>3, <3>4, Typed DEF Brought, refs
    <2> QED
      BY <1>2, <2>1, <2>5, <2>7, <2>8, FreshRef
  <1> QED
    BY <1>3, <1>4, <1>5, WhoMints

-----------------------------------------------------------------------------
(* A head scene on a superseded decision is blocked.                        *)

\* The scene moves alone: its geometry stays, and so does a critical issue that blocks it.
SceneMoves ==
    \E x \in Scene :
        /\ scenes # <<>> /\ scenes' = scenes \o <<x>> /\ reviews' = reviews
        /\ x.rests = Current(scenes).rests
        /\ Current(scenes).held /\ ~Current(scenes).approved => x.held /\ ~x.approved

\* The readings move alone: the decision in force stays, or the head scene never held it.
ReviewMoves ==
    \E x \in Readings :
        /\ reviews # <<>> /\ reviews' = reviews \o <<x>> /\ scenes' = scenes
        /\ \/ x.decision = Current(reviews).decision
           \/ Current(reviews).decision \notin RestsOf(Len(scenes))

\* Both move: the new scene is drawn from the decision in force, or blocked.
BothMove ==
    \E x \in Readings, y \in Scene :
        /\ reviews' = reviews \o <<x>> /\ scenes' = scenes \o <<y>>
        /\ 0 \notin y.rests
        /\ y.rests \subseteq {x.decision} \/ (y.held /\ ~y.approved)

\* What an act found at the head when its versions still fit.
LEMMA FittingHeads ==
    ASSUME TypeOK, Grounded, NEW r \in Request, Acting(r)
    PROVE  /\ Len(reviews) = request[r].review => BaseReview(r) = Current(reviews)
           /\ Len(scenes) = request[r].scene => BaseScene(r) = Current(scenes)
           /\ reviews # <<>>
  <1>1. request[r].review \in 1..Len(reviews)
    BY DEF Grounded, Sound
  <1> QED
    BY <1>1, Typed DEF BaseReview, BaseScene, Current

\* The acts on the scene keep what it rests on.
LEMMA SceneActMoves ==
    ASSUME TypeOK, Grounded, NEW r \in Request,
           CreateRevision(r) \/ DeclareElement(r) \/ RevokeElement(r) \/ ApproveScene(r)
    PROVE  UNCHANGED chains \/ SceneMoves
  <1> DEFINE q == request[r]
             b == BaseScene(r)
  <1>1. /\ Acting(r) /\ q.act \in OnScene \cup {"approve"}
        /\ q.act = "approve" => q.pc = "ready"
    BY DEF CreateRevision, DeclareElement, RevokeElement, ApproveScene, Ready, Acting, OnScene
  <1>2. q \in Serving /\ q.scene # 0
    BY <1>1, Bases, Typed DEF Grounded, Sound, Acting
  <1>3. b \in Scene /\ b.refs \in SUBSET Nat
    BY <1>1, <1>2, Bases DEF Scene
  <1>4. ASSUME NEW x \in Scene, Extend(r, <<>>, <<x>>), x.rests = b.rests,
               b.held /\ ~b.approved => x.held /\ ~x.approved
        PROVE  UNCHANGED chains \/ SceneMoves
    <2>1. reviews' = reviews
      BY <1>4, ConcatEmptySeq DEF Extend, TypeOK
    <2>2. CASE Len(scenes) = q.scene
      <3>1. b = Current(scenes) /\ scenes # <<>>
        BY <1>1, <1>2, <2>2, FittingHeads, Typed
      <3>2. scenes' = scenes \o <<x>>
        BY <1>4, <2>2 DEF Extend, Fits
      <3> HIDE DEF b
      <3> QED
        BY <1>4, <2>1, <3>1, <3>2 DEF SceneMoves
    <2>3. CASE Len(scenes) # q.scene
      <3>1. ~Fits(r, <<>>, <<x>>)
        BY <2>3, OneIsNotNone DEF Fits
      <3> QED
        BY <1>4, <2>1, <3>1 DEF Extend, chains
    <2> QED
      BY <2>2, <2>3
  <1> HIDE DEF b
  <1>5. CASE CreateRevision(r)
    BY <1>3, <1>4, <1>5 DEF CreateRevision, b
  <1>6. CASE DeclareElement(r)
    <2> DEFINE refs == b.refs \cup {q.highest + 1}
    <2>1. refs \in SUBSET Nat
      BY <1>2, <1>3 DEF Serving
    <2>2. Extend(r, <<>>, <<WithRefs(b, refs)>>)
      BY <1>6 DEF DeclareElement, b
    <2> HIDE DEF refs
    <2>3. /\ WithRefs(b, refs) \in Scene /\ WithRefs(b, refs).rests = b.rests
          /\ WithRefs(b, refs).held = b.held /\ ~WithRefs(b, refs).approved
      BY <1>3, <2>1 DEF WithRefs, Scene
    <2> QED
      BY <1>4, <2>2, <2>3
  <1>7. CASE RevokeElement(r)
    <2> DEFINE refs == b.refs \ {q.on}
    <2>1. refs \in SUBSET Nat
      BY <1>3
    <2>2. Extend(r, <<>>, <<WithRefs(b, refs)>>)
      BY <1>7 DEF RevokeElement, b
    <2> HIDE DEF refs
    <2>3. /\ WithRefs(b, refs) \in Scene /\ WithRefs(b, refs).rests = b.rests
          /\ WithRefs(b, refs).held = b.held /\ ~WithRefs(b, refs).approved
      BY <1>3, <2>1 DEF WithRefs, Scene
    <2> QED
      BY <1>4, <2>2, <2>3
  <1>8. CASE ApproveScene(r)
    <2>1. [b EXCEPT !.approved = TRUE] \in Scene /\ [b EXCEPT !.approved = TRUE].rests = b.rests
      BY <1>3 DEF Scene
    <2>2. ~b.held
      BY <1>1, <1>8 DEF ApproveScene, Ready, Grounded, Sound, BaseScene, b
    <2>3. Extend(r, <<>>, <<[b EXCEPT !.approved = TRUE]>>)
      BY <1>8 DEF ApproveScene, b
    <2> QED
      BY <1>4, <2>1, <2>2, <2>3
  <1> QED
    BY <1>5, <1>6, <1>7, <1>8

\* The acts on the readings alone: elements leave the decision as it is, and before the first
\* decision there is none a scene could rest on.
LEMMA ReviewActMoves ==
    ASSUME TypeOK, Grounded, Geometry, NEW r \in Request,
           DeclareReviewElement(r) \/ RevokeReviewElement(r) \/ SubmitReviewDecisions(r)
    PROVE  UNCHANGED chains \/ ReviewMoves
  <1> DEFINE q == request[r]
             b == BaseReview(r)
  <1>1. Acting(r)
    BY DEF DeclareReviewElement, RevokeReviewElement, SubmitReviewDecisions, Ready, Acting
  <1>2. /\ q \in Serving /\ b \in Readings /\ b.refs \in SUBSET Nat
        /\ q.highest \in Nat /\ q.review \in Nat
    BY <1>1, Bases DEF Readings, Serving
  <1>3. ASSUME NEW x \in Readings, Extend(r, <<x>>, <<>>),
               x.decision = b.decision \/ b.decision = 0
        PROVE  UNCHANGED chains \/ ReviewMoves
    <2>1. scenes' = scenes
      BY <1>3, ConcatEmptySeq DEF Extend, TypeOK
    <2>2. CASE Len(reviews) = q.review
      <3>1. b = Current(reviews) /\ reviews # <<>>
        BY <1>1, <2>2, FittingHeads
      <3>2. reviews' = reviews \o <<x>>
        BY <1>3, <2>2 DEF Extend, Fits
      <3>3. 0 \notin RestsOf(Len(scenes))
        BY Typed DEF Geometry, RestsOf
      <3> HIDE DEF b
      <3> QED
        BY <1>3, <2>1, <3>1, <3>2, <3>3 DEF ReviewMoves
    <2>3. CASE Len(reviews) # q.review
      <3>1. ~Fits(r, <<x>>, <<>>)
        BY <2>3, OneIsNotNone DEF Fits
      <3> QED
        BY <1>3, <2>1, <3>1 DEF Extend, chains
    <2> QED
      BY <2>2, <2>3
  <1> HIDE DEF b
  <1>4. \A refs \in SUBSET Nat :
           [b EXCEPT !.refs = refs] \in Readings /\ [b EXCEPT !.refs = refs].decision = b.decision
    BY <1>2 DEF Readings
  <1>5. CASE DeclareReviewElement(r)
    <2> DEFINE refs == b.refs \cup {q.highest + 1}
    <2>1. refs \in SUBSET Nat
      BY <1>2
    <2>2. Extend(r, <<[b EXCEPT !.refs = refs]>>, <<>>)
      BY <1>5 DEF DeclareReviewElement, b
    <2> HIDE DEF refs
    <2> QED
      BY <1>3, <1>4, <2>1, <2>2
  <1>6. CASE RevokeReviewElement(r)
    <2> DEFINE refs == b.refs \ {q.on}
    <2>1. refs \in SUBSET Nat
      BY <1>2
    <2>2. Extend(r, <<[b EXCEPT !.refs = refs]>>, <<>>)
      BY <1>6 DEF RevokeReviewElement, b
    <2> HIDE DEF refs
    <2> QED
      BY <1>3, <1>4, <2>1, <2>2
  <1>7. CASE SubmitReviewDecisions(r)
    <2>1. [b EXCEPT !.decision = q.review + 1] \in Readings
      BY <1>2 DEF Readings
    <2>2. Extend(r, <<[b EXCEPT !.decision = q.review + 1]>>, <<>>)
      BY <1>7 DEF SubmitReviewDecisions, Decided, b
    <2>3. b.decision = 0
      BY <1>1, <1>7 DEF SubmitReviewDecisions, Ready, Grounded, Sound, BaseReview, b
    <2> QED
      BY <1>3, <2>1, <2>2, <2>3
  <1> QED
    BY <1>5, <1>6, <1>7

\* A rectification blocks the scene that held the decision, or the head scene never held it.
LEMMA RectifyMoves ==
    ASSUME TypeOK, Grounded, Geometry, NEW r \in Request, RectifyReviewDecisions(r)
    PROVE  UNCHANGED chains \/ ReviewMoves \/ BothMove
  <1> DEFINE q == request[r]
             b == BaseReview(r)
             s == BaseScene(r)
             x == [b EXCEPT !.decision = q.review + 1]
             y == [s EXCEPT !.held = TRUE, !.approved = FALSE]
             holds == q.scene # 0 /\ b.decision \in s.rests
  <1>1. Acting(r) /\ q.pc = "ready" /\ q.act = "rectify"
    BY DEF RectifyReviewDecisions, Ready, Acting
  <1>2. q \in Serving /\ b \in Readings /\ q.review \in Nat /\ x \in Readings
    BY <1>1, Bases DEF Readings, Serving
  <1>3. /\ q.scene \in 0..Len(scenes)
        /\ q.scene # 0 => s \in Scene /\ 0 \notin s.rests /\ RestsOf(q.scene) = s.rests
    BY <1>1, Bases DEF Grounded, Sound, Geometry, BaseScene, RestsOf
  <1>4. Extend(r, <<x>>, IF holds THEN <<y>> ELSE <<>>)
    BY DEF RectifyReviewDecisions, Decided
  <1>5. CASE Fits(r, <<x>>, IF holds THEN <<y>> ELSE <<>>)
    <2>1. Len(reviews) = q.review /\ reviews' = reviews \o <<x>>
      BY <1>4, <1>5, OneIsNotNone DEF Extend, Fits
    <2>2. b = Current(reviews) /\ reviews # <<>>
      BY <1>1, <2>1, FittingHeads
    <2>3. CASE holds
      <3>1. scenes' = scenes \o <<y>>
        BY <1>4, <1>5, <2>3 DEF Extend
      <3>2. y \in Scene /\ y.held /\ ~y.approved /\ 0 \notin y.rests
        BY <1>3, <2>3 DEF Scene
      <3> HIDE DEF x, y, b, s, holds
      <3> QED
        BY <1>2, <2>1, <3>1, <3>2 DEF BothMove
    <2>4. CASE ~holds
      <3>1. scenes' = scenes
        BY <1>4, <2>4, ConcatEmptySeq DEF Extend, TypeOK
      <3>2. RestsOf(Len(scenes)) = RestsOf(q.scene)
        BY <1>1, <2>1 DEF Geometry, Beheld
      <3>3. b.decision \notin RestsOf(q.scene)
        BY <1>3, <2>4 DEF RestsOf
      <3> HIDE DEF x, y, b, s, holds
      <3> QED
        BY <1>2, <2>1, <2>2, <3>1, <3>2, <3>3 DEF ReviewMoves
    <2> QED
      BY <2>3, <2>4
  <1>6. CASE ~Fits(r, <<x>>, IF holds THEN <<y>> ELSE <<>>)
    BY <1>4, <1>6 DEF Extend, chains
  <1> QED
    BY <1>5, <1>6

\* An annotation adds the decision in force to what the head scene rests on.
LEMMA AnnotateMoves ==
    ASSUME TypeOK, Grounded, Geometry, NEW r \in Request, AnnotateDimension(r)
    PROVE  UNCHANGED chains \/ BothMove
  <1> DEFINE q == request[r]
             b == BaseReview(r)
             s == BaseScene(r)
             rests == s.rests \cup {b.decision}
             y == [s EXCEPT !.rests = rests]
  <1>1. Acting(r) /\ q.act = "annotate"
    BY DEF AnnotateDimension, Ready, Acting
  <1>2. b \in Readings /\ b.decision \in Nat /\ b.decision # 0
    BY <1>1, Bases DEF Readings, Grounded, Sound, BaseReview
  <1>3. s \in Scene /\ 0 \notin s.rests /\ s.rests \in SUBSET Nat /\ q.scene \in 1..Len(scenes)
    <2>1. q.scene # 0 /\ q.scene \in 0..Len(scenes)
      BY <1>1 DEF Grounded, Sound, OnScene
    <2> QED
      BY <1>1, <2>1, Bases, Typed DEF Scene, Geometry, BaseScene
  <1>4. Extend(r, <<b>>, <<y>>)
    BY DEF AnnotateDimension
  <1>5. CASE Fits(r, <<b>>, <<y>>)
    <2>1. /\ Len(reviews) = q.review /\ reviews' = reviews \o <<b>>
          /\ Len(scenes) = q.scene /\ scenes' = scenes \o <<y>>
      BY <1>4, <1>5, OneIsNotNone DEF Extend, Fits
    <2>2. b = Current(reviews) /\ s = Current(scenes) /\ scenes # <<>>
      BY <1>1, <1>3, <2>1, FittingHeads, Typed
    <2>3. s.rests \subseteq {b.decision} \/ (s.held /\ ~s.approved)
      BY <2>2 DEF Geometry, SupersededIsBlocked
    <2>4. rests \in SUBSET Nat
      BY <1>2, <1>3
    <2>5. y \in Scene /\ y.rests = rests /\ y.held = s.held /\ y.approved = s.approved
      <3> HIDE DEF rests, s
      <3> QED
        BY <1>3, <2>4 DEF Scene
    <2>6. 0 \notin rests /\ (s.rests \subseteq {b.decision} => rests \subseteq {b.decision})
      BY <1>2, <1>3
    <2> HIDE DEF y, rests, s, b
    <2> QED
      BY <1>2, <2>1, <2>3, <2>5, <2>6 DEF BothMove
  <1>6. CASE ~Fits(r, <<b>>, <<y>>)
    BY <1>4, <1>6 DEF Extend, chains
  <1> QED
    BY <1>5, <1>6

\* A trace is drawn from the decision in force.
LEMMA LandMoves ==
    ASSUME TypeOK, Grounded, NEW w \in Worker, Land(w)
    PROVE  UNCHANGED chains \/ BothMove
  <1> DEFINE b == reviews[Row(w).review]
             y == Traced(b)
  <1>1. b \in Readings
    BY RowOf, Typed DEF Land, At, TracePcs
  <1>2. y \in Scene /\ y.rests = {b.decision} \ {0}
    BY <1>1 DEF Traced, Readings, Scene
  <1>3. \/ UNCHANGED chains
        \/ reviews' = reviews \o <<b>> /\ scenes' = scenes \o <<y>>
    BY DEF Land, LandConflict, chains
  <1> HIDE DEF b, y
  <1> QED
    BY <1>1, <1>2, <1>3 DEF BothMove

\* The chains move in no other way.
LEMMA Moves ==
    ASSUME TypeOK, Grounded, Geometry, Next
    PROVE  \/ UNCHANGED chains
           \/ SceneMoves \/ ReviewMoves \/ BothMove
           \/ scenes = <<>> /\ scenes' = scenes
  <1>1. ASSUME NEW r \in Request, Handle(r) \/ \E act \in Act : Begin(r, act)
        PROVE  UNCHANGED chains \/ SceneMoves \/ ReviewMoves \/ BothMove
    <2>1. CASE CreateRevision(r) \/ DeclareElement(r) \/ RevokeElement(r) \/ ApproveScene(r)
      BY <2>1, SceneActMoves
    <2>2. CASE DeclareReviewElement(r) \/ RevokeReviewElement(r) \/ SubmitReviewDecisions(r)
      BY <2>2, ReviewActMoves
    <2>3. CASE RectifyReviewDecisions(r) \/ AnnotateDimension(r)
      BY <2>3, RectifyMoves, AnnotateMoves
    <2>4. CASE \/ LookForRefs(r) \/ LookAtScene(r) \/ LookForExport(r)
               \/ CreateTraceSolve(r) \/ CreateExport(r) \/ CreateChatTurn(r) \/ Enqueue(r)
               \/ \E act \in Act : Begin(r, act)
      BY <2>4 DEF LookForRefs, LookAtScene, LookForExport, CreateTraceSolve, CreateExport,
         CreateChatTurn, Record, Refused, Enqueue, Begin, rows
    <2> QED
      BY <1>1, <2>1, <2>2, <2>3, <2>4 DEF Handle
  <1>2. ASSUME NEW w \in Worker, Run(w) \/ Crash(w)
        PROVE  UNCHANGED chains \/ BothMove \/ (scenes = <<>> /\ scenes' = scenes)
    <2>1. CASE Land(w)
      BY <2>1, LandMoves
    <2>2. CASE Ingest(w)
      BY <2>2 DEF Ingest, FirstReview, Grounded, chains
    <2>3. CASE \/ \E m \in queue : Deliver(w, m)
               \/ CheckIngested(w) \/ MarkFailed(w) \/ Claim(w) \/ Solve(w) \/ Build(w)
               \/ FinishExport(w) \/ Ask(w) \/ AnswerTurn(w) \/ Crash(w)
      BY <2>3 DEF Deliver, CheckIngested, MarkFailed, Claim, Solve, Build, FinishExport, Ask,
         AnswerTurn, Crash, rows
    <2> QED
      BY <1>2, <2>1, <2>2, <2>3 DEF Run
  <1>3. RepeatCreateJob => UNCHANGED chains
    BY DEF RepeatCreateJob, rows
  <1> QED
    BY <1>1, <1>2, <1>3 DEF Next

\* Which request may come to stand before a rectification: one that just looked.
LEMMA WhoBeholds ==
    ASSUME TypeOK, Next, NEW r \in Request, request'[r] # request[r],
           request'[r].pc = "ready", request'[r].act = "rectify"
    PROVE  UNCHANGED chains /\ request'[r].scene = Len(scenes)
  <1>1. PICK o \in Request : Handle(o) \/ \E act \in Act : Begin(o, act)
    BY DEF Next, RepeatCreateJob, Run, Crash, Deliver, CheckIngested, Ingest, MarkFailed, Claim,
       Solve, Land, Build, FinishExport, Ask, AnswerTurn, rows
  <1>2. \A state : Seen(o, state) =>
           /\ request' = [request EXCEPT ![o] = state]
           /\ o = r /\ state = request'[r]
    BY DEF Seen, TypeOK
  <1>3. ~Seen(o, Waiting) /\ ~Answered(o)
    BY <1>2 DEF Answered, Seen, Waiting
  <1>4. \A c : ~Seen(o, [Waiting EXCEPT !.pc = "enqueue", !.row = c])
    <2> SUFFICES ASSUME NEW c, Seen(o, [Waiting EXCEPT !.pc = "enqueue", !.row = c]) PROVE FALSE
      OBVIOUS
    <2>1. request'[r] = [Waiting EXCEPT !.pc = "enqueue", !.row = c]
      BY <1>2
    <2> QED
      BY <2>1 DEF Waiting
  <1>5. ASSUME NEW act \in Act, Begin(o, act) PROVE FALSE
    <2>1. PICK on \in Target :
             request' = [request EXCEPT ![o] =
                [Waiting EXCEPT !.pc = IF act \in LooksAgain THEN "look" ELSE "ready",
                                !.act = act, !.on = on, !.review = Len(reviews),
                                !.scene = Len(scenes), !.job = job,
                                !.row = Cardinality(Rows("chat"))]]
      BY <1>5 DEF Begin
    <2>2. o = r
      BY <2>1 DEF TypeOK
    <2>3. /\ request'[r].pc = IF act \in LooksAgain THEN "look" ELSE "ready"
          /\ request'[r].act = act
      BY <2>1, <2>2 DEF TypeOK, Waiting
    <2> QED
      BY <2>3 DEF LooksAgain
  <1>6. LookForRefs(o) \/ LookAtScene(o) \/ LookForExport(o)
    BY <1>1, <1>3, <1>4, <1>5 DEF Handle, CreateRevision, DeclareElement, RevokeElement,
       DeclareReviewElement, RevokeReviewElement, SubmitReviewDecisions,
       RectifyReviewDecisions, AnnotateDimension, ApproveScene, Extend, CreateTraceSolve,
       CreateExport, CreateChatTurn, Record, Refused, Enqueue
  <1>7. request[o] \in Serving
    BY DEF TypeOK
  <1>8. CASE LookAtScene(o)
    <2>1. Seen(o, [request[o] EXCEPT !.pc = "ready", !.scene = Len(scenes)])
      BY <1>3, <1>8 DEF LookAtScene
    <2>2. request'[r] = [request[o] EXCEPT !.pc = "ready", !.scene = Len(scenes)]
      BY <1>2, <2>1
    <2>3. request'[r].scene = Len(scenes)
      BY <1>7, <2>2 DEF Serving
    <2> QED
      BY <1>8, <2>3 DEF LookAtScene, rows
  <1>9. ASSUME NEW state, Seen(o, state), state.act = request[o].act,
               request[o].act # "rectify"
        PROVE  FALSE
    BY <1>2, <1>9
  <1>10. CASE LookForRefs(o)
    <2>1. PICK highest : Seen(o, [request[o] EXCEPT !.pc = "ready", !.highest = highest])
      BY <1>10 DEF LookForRefs
    <2>2. [request[o] EXCEPT !.pc = "ready", !.highest = highest].act = request[o].act
      BY <1>7 DEF Serving
    <2> QED
      BY <1>9, <1>10, <2>1, <2>2 DEF LookForRefs, Looking
  <1>11. CASE LookForExport(o)
    <2>1. \/ Seen(o, [request[o] EXCEPT !.pc = "ready", !.row = 0])
          \/ \E c, b : Seen(o, [request[o] EXCEPT !.pc = "ready", !.row = c, !.queued = b])
      BY <1>3, <1>11 DEF LookForExport
    <2>2. /\ [request[o] EXCEPT !.pc = "ready", !.row = 0].act = request[o].act
          /\ \A c, b : [request[o] EXCEPT !.pc = "ready", !.row = c, !.queued = b].act =
                          request[o].act
      BY <1>7 DEF Serving
    <2>3. request[o].act # "rectify"
      BY <1>11 DEF LookForExport, Looking
    <2>4. ~Seen(o, [request[o] EXCEPT !.pc = "ready", !.row = 0])
      BY <1>9, <2>2, <2>3
    <2>5. \A c, b : ~Seen(o, [request[o] EXCEPT !.pc = "ready", !.row = c, !.queued = b])
      BY <1>9, <2>2, <2>3
    <2> QED
      BY <2>1, <2>4, <2>5
  <1> QED
    BY <1>6, <1>8, <1>10, <1>11

\* However the chains moved, a head scene on a superseded decision is blocked.
LEMMA BlockedStays ==
    ASSUME TypeOK, Geometry, TypeOK', Onwards,
           \/ UNCHANGED chains
           \/ SceneMoves \/ ReviewMoves \/ BothMove
           \/ scenes = <<>> /\ scenes' = scenes
    PROVE  /\ SupersededIsBlocked'
           /\ \A v \in 1..Len(scenes') : 0 \notin scenes'[v].rests
  <1>1. reviews \in Seq(Readings) /\ scenes \in Seq(Scene) /\ Len(scenes) \in Nat
    BY Typed DEF TypeOK
  <1>2. /\ scenes # <<>> /\ ~(Current(scenes).rests \subseteq {Current(reviews).decision})
             => Current(scenes).held /\ ~Current(scenes).approved
        /\ \A v \in 1..Len(scenes) : 0 \notin scenes[v].rests
    BY DEF Geometry, SupersededIsBlocked
  <1>3. \A x \in Scene :
           scenes' = scenes \o <<x>> =>
              /\ Len(scenes') = Len(scenes) + 1 /\ Current(scenes') = x
              /\ \A v \in 1..Len(scenes) : scenes'[v] = scenes[v]
    BY <1>1, Appended DEF Current
  <1>4. \A x \in Readings : reviews' = reviews \o <<x>> => Current(reviews') = x
    BY <1>1, Appended DEF Current
  <1>5. ASSUME NEW x \in Scene, scenes' = scenes \o <<x>>, 0 \notin x.rests
        PROVE  \A v \in 1..Len(scenes') : 0 \notin scenes'[v].rests
    BY <1>1, <1>2, <1>3, <1>5 DEF Current
  <1>6. CASE UNCHANGED chains
    BY <1>2, <1>6 DEF chains, SupersededIsBlocked
  <1>7. CASE SceneMoves
    <2>1. PICK x \in Scene :
             /\ scenes # <<>> /\ scenes' = scenes \o <<x>> /\ reviews' = reviews
             /\ x.rests = Current(scenes).rests
             /\ Current(scenes).held /\ ~Current(scenes).approved => x.held /\ ~x.approved
      BY <1>7 DEF SceneMoves
    <2>2. 0 \notin x.rests
      <3>1. scenes # <<>>
        BY <2>1
      <3>2. Len(scenes) \in 1..Len(scenes)
        BY <1>1, <3>1, EmptySeq
      <3> QED
        BY <1>2, <2>1, <3>2 DEF Current
    <2>3. Current(scenes') = x
      BY <1>3, <2>1
    <2> QED
      BY <1>2, <1>5, <2>1, <2>2, <2>3 DEF SupersededIsBlocked
  <1>8. CASE ReviewMoves
    <2>1. PICK x \in Readings :
             /\ reviews # <<>> /\ reviews' = reviews \o <<x>> /\ scenes' = scenes
             /\ \/ x.decision = Current(reviews).decision
                \/ Current(reviews).decision \notin RestsOf(Len(scenes))
      BY <1>8 DEF ReviewMoves
    <2>2. Current(reviews') = x
      BY <1>4, <2>1
    <2>3. scenes # <<>> => RestsOf(Len(scenes)) = Current(scenes).rests
      BY Typed DEF RestsOf, Current
    <2>4. scenes # <<>> /\ ~(Current(scenes).rests \subseteq {x.decision})
             => ~(Current(scenes).rests \subseteq {Current(reviews).decision})
      BY <2>1, <2>3
    <2> QED
      BY <1>2, <2>1, <2>2, <2>4 DEF SupersededIsBlocked
  <1>9. CASE BothMove
    <2>1. PICK x \in Readings, y \in Scene :
             /\ reviews' = reviews \o <<x>> /\ scenes' = scenes \o <<y>>
             /\ 0 \notin y.rests
             /\ y.rests \subseteq {x.decision} \/ (y.held /\ ~y.approved)
      BY <1>9 DEF BothMove
    <2>2. Current(reviews') = x /\ Current(scenes') = y
      BY <1>3, <1>4, <2>1
    <2> QED
      BY <1>5, <2>1, <2>2 DEF SupersededIsBlocked
  <1>10. CASE scenes = <<>> /\ scenes' = scenes
    BY <1>2, <1>10 DEF SupersededIsBlocked
  <1> QED
    BY <1>6, <1>7, <1>8, <1>9, <1>10

\* A request waiting to rectify still beholds the geometry of the head, or will not commit.
LEMMA BeheldStays ==
    ASSUME TypeOK, Grounded, Geometry, TypeOK', Onwards, NEW r \in Request,
           request'[r] = request[r],
           \/ UNCHANGED chains
           \/ SceneMoves \/ ReviewMoves \/ BothMove
           \/ scenes = <<>> /\ scenes' = scenes
    PROVE  Beheld(r)'
  <1> DEFINE q == request[r]
  <1> SUFFICES ASSUME q.pc = "ready", q.act = "rectify", q.review = Len(reviews')
               PROVE  RestsOf(Len(scenes))' = RestsOf(q.scene)'
    BY DEF Beheld
  <1>1. /\ Len(reviews) \in Nat /\ Len(reviews') \in Nat /\ Len(scenes) \in Nat
        /\ Len(reviews) <= Len(reviews') /\ q.review \in 1..Len(reviews)
        /\ q.scene \in 0..Len(scenes)
    BY Typed, LenProperties DEF TypeOK, Onwards, Grows, Grounded, Sound, Acting
  <1>2. q.review = Len(reviews)
    BY <1>1
  <1>3. RestsOf(Len(scenes)) = RestsOf(q.scene)
    BY <1>2 DEF Geometry, Beheld
  <1>4. RestsOf(q.scene)' = RestsOf(q.scene)
    BY <1>1 DEF RestsOf, Onwards, Grows
  <1>5. ASSUME NEW x \in Readings, reviews' = reviews \o <<x>> PROVE FALSE
    <2>1. Len(reviews') = Len(reviews) + 1
      BY <1>5, Appended DEF TypeOK
    <2>2. Len(reviews') = Len(reviews)
      BY <1>2
    <2> QED
      BY <1>1, <2>1, <2>2
  <1>6. ~ReviewMoves /\ ~BothMove
    BY <1>5 DEF ReviewMoves, BothMove
  <1>7. CASE scenes' = scenes
    BY <1>3, <1>4, <1>7 DEF RestsOf
  <1>8. CASE SceneMoves
    <2>1. PICK x \in Scene :
             /\ scenes # <<>> /\ scenes' = scenes \o <<x>>
             /\ x.rests = Current(scenes).rests
      BY <1>8 DEF SceneMoves
    <2>2. Len(scenes') = Len(scenes) + 1 /\ scenes'[Len(scenes) + 1] = x
      BY <2>1, Appended DEF TypeOK
    <2>3. RestsOf(Len(scenes))' = x.rests
      BY <1>1, <2>2 DEF RestsOf
    <2>4. RestsOf(Len(scenes)) = x.rests
      BY <2>1, Typed DEF RestsOf, Current
    <2> QED
      BY <1>3, <1>4, <2>3, <2>4
  <1> QED
    BY <1>6, <1>7, <1>8 DEF chains

\* Whichever traces, annotations, approvals and ingestions cross a rectification.
LEMMA GeometryStep ==
    ASSUME TypeOK, Grounded, Geometry, Next, TypeOK', Onwards
    PROVE  Geometry'
  <1>1. \/ UNCHANGED chains
        \/ SceneMoves \/ ReviewMoves \/ BothMove
        \/ scenes = <<>> /\ scenes' = scenes
    BY Moves
  <1>2. /\ SupersededIsBlocked'
        /\ \A v \in 1..Len(scenes') : 0 \notin scenes'[v].rests
    BY <1>1, BlockedStays
  <1>3. ASSUME NEW r \in Request PROVE Beheld(r)'
    <2>1. CASE request'[r] = request[r]
      BY <1>1, <2>1, BeheldStays
    <2>2. CASE /\ request'[r] # request[r]
               /\ request'[r].pc = "ready" /\ request'[r].act = "rectify"
      <3>1. UNCHANGED chains /\ request'[r].scene = Len(scenes)
        BY <2>2, WhoBeholds
      <3> QED
        BY <3>1 DEF Beheld, RestsOf, chains
    <2>3. CASE ~(request'[r].pc = "ready" /\ request'[r].act = "rectify")
      BY <2>3 DEF Beheld
    <2> QED
      BY <2>1, <2>2, <2>3
  <1> QED
    BY <1>2, <1>3 DEF Geometry

-----------------------------------------------------------------------------
(* Outcomes.                                                                *)

\* Who writes the status of a row, and when.
LEMMA WhoWrites ==
    ASSUME TypeOK, Grounded, Next, NEW c \in 1..Len(commands),
           commands'[c].status # commands[c].status
    PROVE  \/ commands[c].kind = "export" /\ commands'[c].status = "QUEUED"
           \/ \E w \in Worker :
                 /\ worker[w].message.id = c
                 /\ \/ /\ Claim(w)
                       /\ commands[c].status \in Claimable
                       /\ commands'[c].status = "RUNNING"
                    \/ worker[w].pc \in Holding /\ worker'[w] = Free
                    \/ worker[w].pc \in ExportPcs /\ commands'[c].status # "COMPLETED"
                    \/ worker[w].pc = "finishing"
  <1>1. ASSUME NEW r \in Request, Handle(r) \/ \E act \in Act : Begin(r, act)
        PROVE  commands[c].kind = "export" /\ commands'[c].status = "QUEUED"
    <2>1. CASE CreateTraceSolve(r) \/ CreateChatTurn(r)
      <3>1. \A row \in CommandRow : commands' = commands \o <<row>> => commands'[c] = commands[c]
        BY RowStep
      <3>2. /\ Command("chat", 0, 0) \in CommandRow
            /\ Command("trace", request[r].review, request[r].scene) \in CommandRow
        BY DEF TypeOK, Serving, Command, CommandRow, Kinds, Statuses
      <3> QED
        BY <2>1, <3>1, <3>2 DEF CreateTraceSolve, CreateChatTurn, Record, Refused, rows
    <2>2. CASE CreateExport(r)
      <3> DEFINE d == request[r].row
      <3>1. d # 0 => d \in 1..Len(commands) /\ commands[d].kind = "export"
        BY <2>2 DEF CreateExport, Ready, Grounded, Sound
      <3>2. CASE commands' = commands \o <<Command("export", 0, request[r].on)>>
        <4>1. Command("export", 0, request[r].on) \in CommandRow
          BY DEF TypeOK, Serving, Command, CommandRow, Kinds, Statuses
        <4> QED
          BY <3>2, <4>1, RowStep
      <3>3. CASE d # 0 /\ commands' = [commands EXCEPT ![d].status = "QUEUED"]
        <4>1. commands'[c].status = IF c = d THEN "QUEUED" ELSE commands[c].status
          BY <3>1, <3>3, StatusStep DEF Statuses
        <4> QED
          BY <3>1, <3>3, <4>1
      <3> QED
        BY <2>2, <3>2, <3>3 DEF CreateExport, Record, Refused, rows
    <2>3. CASE ~(CreateTraceSolve(r) \/ CreateChatTurn(r) \/ CreateExport(r))
      BY <1>1, <2>3 DEF Handle, Begin, LookForRefs, LookAtScene, LookForExport, CreateRevision,
         DeclareElement, RevokeElement, DeclareReviewElement, RevokeReviewElement,
         SubmitReviewDecisions, RectifyReviewDecisions, AnnotateDimension, ApproveScene,
         Extend, Enqueue, rows
    <2> QED
      BY <2>1, <2>2, <2>3
  <1>2. ASSUME NEW w \in Worker, Run(w) \/ Crash(w)
        PROVE  /\ worker[w].message.id = c
               /\ \/ /\ Claim(w)
                     /\ commands[c].status \in Claimable
                     /\ commands'[c].status = "RUNNING"
                  \/ worker[w].pc \in Holding /\ worker'[w] = Free
                  \/ worker[w].pc \in ExportPcs /\ commands'[c].status # "COMPLETED"
                  \/ worker[w].pc = "finishing"
    <2> DEFINE m == worker[w].message
    <2>1. commands' # commands
      OBVIOUS
    <2>2. ASSUME NEW status \in Statuses, Status(w, status),
                 worker[w].pc \in {"claiming"} \cup TracePcs \cup ExportPcs \cup ChatPcs
          PROVE  m.id = c /\ commands'[c].status = status
      <3>1. m.id \in 1..Len(commands)
        BY <2>2, RowOf
      <3>2. commands'[c].status = IF c = m.id THEN status ELSE commands[c].status
        BY <2>2, <3>1, StatusStep DEF Status
      <3> QED
        BY <3>2
    <2>3. Ack(w) => worker'[w] = Free
      BY DEF Ack, Put, TypeOK
    <2>4. CASE Claim(w)
      <3>1. Status(w, "RUNNING") /\ Row(w).status \in Claimable
        BY <2>1, <2>4 DEF Claim
      <3>2. m.id = c /\ commands'[c].status = "RUNNING"
        BY <2>2, <2>4, <3>1 DEF Claim, At, Statuses
      <3> QED
        BY <2>4, <3>1, <3>2 DEF Row
    <2>5. CASE Solve(w) \/ Land(w) \/ AnswerTurn(w)
      <3>1. /\ \E status \in Statuses : Status(w, status)
            /\ Ack(w) /\ worker[w].pc \in TracePcs \cup ChatPcs
        BY <2>1, <2>5 DEF Solve, Land, LandConflict, AnswerTurn, At, Statuses, TracePcs, ChatPcs
      <3> QED
        BY <2>2, <2>3, <3>1 DEF Holding
    <2>6. CASE Build(w)
      <3>1. Status(w, "FAILED") /\ worker[w].pc \in ExportPcs
        BY <2>1, <2>6 DEF Build, At, ExportPcs
      <3> QED
        BY <2>2, <3>1 DEF Statuses
    <2>7. CASE FinishExport(w)
      <3>1. Status(w, "COMPLETED") /\ worker[w].pc = "finishing"
        BY <2>7 DEF FinishExport, At
      <3> QED
        BY <2>2, <3>1 DEF Statuses, ExportPcs
    <2>8. CASE ~(Claim(w) \/ Solve(w) \/ Land(w) \/ AnswerTurn(w) \/ Build(w) \/ FinishExport(w))
      BY <1>2, <2>1, <2>8 DEF Run, Crash, Deliver, CheckIngested, Ingest, MarkFailed, Ask, rows
    <2> QED
      BY <2>4, <2>5, <2>6, <2>7, <2>8
  <1>3. RepeatCreateJob => commands' = commands
    BY DEF RepeatCreateJob, rows
  <1> QED
    BY <1>1, <1>2, <1>3 DEF Next

\* One delivery moves at a time.
LEMMA OneMoves ==
    ASSUME TypeOK, Next, NEW w \in Worker, worker'[w] # worker[w]
    PROVE  /\ Run(w) \/ Crash(w)
           /\ \A v \in Worker \ {w} : worker'[v] = worker[v]
  <1>1. PICK v \in Worker : Run(v) \/ Crash(v)
    BY DEF Next, Handle, Begin, LookForRefs, LookAtScene, LookForExport, CreateRevision,
       DeclareElement, RevokeElement, DeclareReviewElement, RevokeReviewElement,
       SubmitReviewDecisions, RectifyReviewDecisions, AnnotateDimension, ApproveScene,
       Extend, CreateTraceSolve, CreateExport, CreateChatTurn, Record, Refused, Enqueue,
       RepeatCreateJob
  <1>2. \A u \in Worker \ {v} : worker'[u] = worker[u]
    BY <1>1 DEF TypeOK, Run, Crash, Deliver, CheckIngested, Ingest, MarkFailed, Claim, Solve,
       Land, Build, FinishExport, Ask, AnswerTurn, Ack, Raise, Go, Put
  <1> QED
    BY <1>1, <1>2

\* How a delivery comes to stand where it holds its row or has its package.
LEMMA WhoEnters ==
    ASSUME TypeOK, Grounded, Next, NEW w \in Worker, worker'[w] # worker[w],
           worker'[w].pc \in Holding \cup {"finishing"}
    PROVE  /\ worker'[w].message = worker[w].message
           /\ \/ /\ Claim(w) /\ Row(w).status \in Claimable /\ Status(w, "RUNNING")
                 /\ worker'[w].pc \in {"solving", "answering"}
              \/ /\ worker'[w].pc = "landing" /\ worker[w].pc = "solving"
                 /\ worker'[w].scene = Row(w).scene /\ UNCHANGED commands
              \/ /\ worker'[w].pc = "finishing" /\ worker[w].message.id \in packages'
              \/ /\ worker'[w].pc = "answered" /\ worker[w].pc = "answering"
                 /\ UNCHANGED commands
  <1>1. Run(w) \/ Crash(w)
    BY OneMoves
  <1>2. worker[w] \in Delivery
    BY DEF TypeOK
  <1>3. worker'[w].pc \in {"solving", "landing", "answering", "answered", "finishing"}
    BY DEF Holding, TracePcs, ChatPcs
  <1>4. ~Ack(w) /\ ~Raise(w)
    <2>1. worker'[w] # Free
      BY <1>3 DEF Free
    <2> QED
      BY <2>1 DEF Ack, Raise, Put, TypeOK
  <1>5. \A m \in queue : ~Deliver(w, m)
    <2> SUFFICES ASSUME NEW m \in queue, Deliver(w, m) PROVE FALSE
      OBVIOUS
    <2>1. worker'[w].pc = IF m = Upload THEN "ingesting" ELSE "claiming"
      BY DEF Deliver, Put, TypeOK, Free
    <2> QED
      BY <1>3, <2>1
  <1>6. \A pc : Go(w, pc) => worker'[w].pc = pc /\ worker'[w].message = worker[w].message
    BY <1>2 DEF Go, Put, TypeOK, Delivery
  <1>7. Claim(w) \/ Solve(w) \/ Build(w) \/ Ask(w)
    BY <1>1, <1>3, <1>4, <1>5, <1>6 DEF Run, Crash, CheckIngested, Ingest, MarkFailed, Land,
       FinishExport, AnswerTurn
  <1>8. CASE Claim(w)
    <2>1. /\ Row(w).status \in Claimable /\ Status(w, "RUNNING")
          /\ Go(w, Work[Row(w).kind])
      BY <1>4, <1>8 DEF Claim
    <2>2. Row(w).kind \in Kinds
      BY <1>8, RowOf DEF Claim, At, CommandRow
    <2>3. worker'[w].pc \in {"solving", "building", "answering"}
      BY <1>6, <2>1, <2>2 DEF Kinds, Work
    <2> QED
      BY <1>3, <1>6, <1>8, <2>1, <2>3
  <1>9. CASE Solve(w)
    <2>1. /\ Unmoved(Row(w)) /\ UNCHANGED commands
          /\ Put(w, [worker[w] EXCEPT !.pc = "landing", !.scene = Len(scenes)])
      BY <1>4, <1>9 DEF Solve
    <2>2. /\ worker'[w].pc = "landing" /\ worker'[w].message = worker[w].message
          /\ worker'[w].scene = Len(scenes)
      BY <1>2, <2>1 DEF Put, TypeOK, Delivery
    <2> QED
      BY <1>9, <2>1, <2>2 DEF Solve, At, Unmoved
  <1>10. CASE Build(w)
    <2>1. packages' = packages \cup {worker[w].message.id} /\ Go(w, "finishing")
      BY <1>4, <1>10 DEF Build
    <2> QED
      BY <1>6, <2>1
  <1>11. CASE Ask(w)
    BY <1>4, <1>6, <1>11 DEF Ask, At, rows
  <1> QED
    BY <1>7, <1>8, <1>9, <1>10, <1>11

\* A package is COMPLETED once stored, and of an approved revision.
LEMMA ExportsStep ==
    ASSUME TypeOK, Grounded, Exports, Next, TypeOK', Onwards
    PROVE  Exports'
  <1>1. approvals \subseteq approvals' /\ packages \subseteq packages'
    BY DEF Onwards
  <1>2. ASSUME NEW c \in 1..Len(commands'), commands'[c].kind = "export"
        PROVE  /\ commands'[c].scene \in approvals'
               /\ commands'[c].status = "COMPLETED" => c \in packages'
    <2>1. CASE c \in 1..Len(commands)
      <3>1. commands[c].kind = "export" /\ commands'[c].scene = commands[c].scene
        BY <1>2, <2>1 DEF Onwards, SameSubject
      <3>2. commands'[c].scene \in approvals'
        BY <1>1, <2>1, <3>1 DEF Exports
      <3>3. CASE commands'[c].status = commands[c].status
        BY <1>1, <2>1, <3>1, <3>2, <3>3 DEF Exports
      <3>4. CASE commands'[c].status # commands[c].status
        <4>1. ASSUME NEW w \in Worker, worker[w].pc \in Holding, worker[w].message.id = c
              PROVE  FALSE
          BY <3>1, <4>1, RowOf DEF Holding, Row
        <4>2. ASSUME NEW w \in Worker, worker[w].pc = "finishing", worker[w].message.id = c
              PROVE  c \in packages
          BY <4>2 DEF Exports
        <4>3. commands'[c].status = "COMPLETED" => c \in packages
          BY <2>1, <3>4, <4>1, <4>2, WhoWrites
        <4> QED
          BY <1>1, <3>2, <4>3
      <3> QED
        BY <3>3, <3>4
    <2>2. CASE c \notin 1..Len(commands)
      <3>1. PICK r \in Request :
               \/ commands'[c] = Command("trace", request[r].review, request[r].scene)
               \/ Ready(r, "export") /\ commands'[c] = Command("export", 0, request[r].on)
               \/ commands'[c] = Command("chat", 0, 0)
        BY <2>2, NewRows
      <3>2. Ready(r, "export") /\ commands'[c] = Command("export", 0, request[r].on)
        BY <1>2, <3>1 DEF Command
      <3>3. request[r].on \in approvals
        BY <3>2 DEF Ready, Grounded, Sound, Acting
      <3> QED
        BY <1>1, <3>2, <3>3 DEF Command
    <2> QED
      BY <2>1, <2>2
  <1>3. ASSUME NEW w \in Worker, worker'[w].pc = "finishing"
        PROVE  worker'[w].message.id \in packages'
    <2>1. CASE worker'[w] = worker[w]
      BY <1>1, <1>3, <2>1 DEF Exports
    <2>2. CASE worker'[w] # worker[w]
      BY <1>3, <2>2, WhoEnters
    <2> QED
      BY <2>1, <2>2
  <1> QED
    BY <1>2, <1>3 DEF Exports

\* A trace at its COMMIT found its scene at the head.
LEMMA LandingsStep ==
    ASSUME TypeOK, Grounded, Landings, Next, TypeOK', Onwards
    PROVE  Landings'
  <1> SUFFICES ASSUME NEW w \in Worker, worker'[w].pc = "landing"
               PROVE  worker'[w].scene = commands'[worker'[w].message.id].scene
    BY DEF Landings, At, Row
  <1>1. CASE worker'[w] = worker[w]
    <2>1. worker[w].message.id \in 1..Len(commands) /\ worker[w].scene = Row(w).scene
      BY <1>1, RowOf DEF Landings, At, TracePcs
    <2> QED
      BY <1>1, <2>1 DEF Row, Onwards, SameSubject
  <1>2. CASE worker'[w] # worker[w]
    <2>1. /\ worker'[w].message = worker[w].message /\ worker'[w].scene = Row(w).scene
          /\ UNCHANGED commands
      BY <1>2, WhoEnters DEF Holding, TracePcs
    <2> QED
      BY <2>1 DEF Row
  <1> QED
    BY <1>1, <1>2

\* Two deliveries never hold one row: only a row that nobody runs is claimed.
LEMMA ExclusiveStep ==
    ASSUME TypeOK, Grounded, Exclusive, Next, TypeOK', Onwards
    PROVE  Exclusive'
  <1>1. ASSUME NEW w \in Worker, worker[w].pc \in Holding
        PROVE  /\ Row(w).status = "RUNNING" /\ Row(w).kind \in {"trace", "chat"}
               /\ worker[w].message.id \in 1..Len(commands)
    BY <1>1, RowOf DEF Exclusive, Holding
  <1>2. ASSUME NEW w \in Worker, worker'[w].pc \in Holding, worker'[w] # worker[w]
        PROVE  /\ worker'[w].message = worker[w].message
               /\ commands'[worker[w].message.id].status = "RUNNING"
               /\ worker[w].pc \in Holding \/ Row(w).status \in Claimable
    <2>1. worker'[w].pc # "finishing"
      BY <1>2 DEF Holding, TracePcs, ChatPcs
    <2>2. CASE Claim(w) /\ Row(w).status \in Claimable /\ Status(w, "RUNNING")
      <3>1. worker[w].message.id \in 1..Len(commands)
        BY <2>2, RowOf DEF Claim, At
      <3>2. commands'[worker[w].message.id].status = "RUNNING"
        BY <2>2, <3>1, StatusStep DEF Status, Statuses
      <3> QED
        BY <1>2, <2>2, <3>2, WhoEnters
    <2>3. CASE worker[w].pc \in Holding /\ UNCHANGED commands
      <3>1. commands'[worker[w].message.id].status = "RUNNING"
        BY <1>1, <2>3 DEF Row
      <3> QED
        BY <1>2, <2>3, <3>1, WhoEnters
    <2> QED
      BY <1>2, <2>1, <2>2, <2>3, WhoEnters DEF Holding, TracePcs, ChatPcs
  <1>3. ASSUME NEW w \in Worker, worker'[w].pc \in Holding, worker'[w] = worker[w]
        PROVE  commands'[worker[w].message.id].status = "RUNNING"
    <2> DEFINE c == worker[w].message.id
    <2>1. /\ c \in 1..Len(commands) /\ commands[c].status = "RUNNING"
          /\ commands[c].kind \in {"trace", "chat"}
      BY <1>1, <1>3 DEF Row
    <2>2. SUFFICES ASSUME commands'[c].status # commands[c].status PROVE FALSE
      BY <2>1
    <2>3. PICK v \in Worker :
             /\ worker[v].message.id = c
             /\ \/ commands[c].status \in Claimable
                \/ worker[v].pc \in Holding /\ worker'[v] = Free
                \/ worker[v].pc \in ExportPcs
      BY <2>1, <2>2, WhoWrites DEF ExportPcs
    <2>4. commands[c].status \notin Claimable
      BY <2>1 DEF Claimable
    <2>5. worker[v].pc \notin ExportPcs
      BY <2>1, <2>3, RowOf DEF Row
    <2>6. v = w
      BY <1>3, <2>3, <2>4, <2>5 DEF Exclusive
    <2> QED
      BY <1>3, <2>3, <2>4, <2>5, <2>6 DEF Free, Holding, TracePcs, ChatPcs
  <1>4. \A w \in Worker : worker'[w].pc \in Holding =>
           /\ worker'[w].message = worker[w].message
           /\ commands'[worker'[w].message.id].status = "RUNNING"
           /\ worker[w].pc \in Holding \/ (worker'[w] # worker[w] /\ Row(w).status \in Claimable)
    BY <1>2, <1>3
  <1>5. ASSUME NEW v \in Worker, NEW w \in Worker,
               worker'[v].pc \in Holding, worker'[w].pc \in Holding,
               worker'[v].message.id = worker'[w].message.id
        PROVE  v = w
    <2>1. worker[v].message.id = worker[w].message.id
      BY <1>4, <1>5
    <2>2. Row(v) = Row(w)
      BY <2>1 DEF Row
    <2>3. CASE worker[v].pc \in Holding /\ worker[w].pc \in Holding
      BY <2>1, <2>3 DEF Exclusive
    <2>4. CASE worker[v].pc \in Holding /\ worker[w].pc \notin Holding
      BY <1>1, <1>4, <1>5, <2>2, <2>4 DEF Claimable
    <2>5. CASE worker[v].pc \notin Holding /\ worker[w].pc \in Holding
      BY <1>1, <1>4, <1>5, <2>2, <2>5 DEF Claimable
    <2>6. CASE worker[v].pc \notin Holding /\ worker[w].pc \notin Holding
      <3>1. worker'[v] # worker[v] /\ worker'[w] # worker[w]
        BY <1>4, <1>5, <2>6
      <3> QED
        BY <3>1, OneMoves
    <2> QED
      BY <2>3, <2>4, <2>5, <2>6
  <1> QED
    BY <1>4, <1>5 DEF Exclusive, Row

-----------------------------------------------------------------------------
(* The theorems.                                                            *)

\* The invariant holds when create_job has committed.
LEMMA InitIInv == ASSUME Init PROVE IInv
  <1>1. TypeOK
    <2>1. /\ reviews \in Seq(Readings) /\ scenes \in Seq(Scene) /\ commands \in Seq(CommandRow)
          /\ Len(scenes) = 0 /\ Len(commands) = 0
      BY EmptySeq DEF Init
    <2>2. request \in [Request -> Serving] /\ worker \in [Worker -> Delivery]
      BY AtRest DEF Init
    <2>3. left \in [Bounded -> Nat]
      BY ConstantsAssumption DEF Init
    <2> QED
      BY <2>1, <2>2, <2>3, AtRest DEF Init, TypeOK, JobStatuses
  <1>2. Len(reviews) = 0 /\ Len(scenes) = 0 /\ Len(commands) = 0
    BY EmptySeq DEF Init
  <1>3. /\ \A r \in Request : request[r].pc = "idle"
        /\ \A w \in Worker : worker[w].pc = "idle" /\ worker[w].message = Upload
    BY DEF Init, Waiting, Free
  <1>4. Grounded
    BY <1>2, <1>3 DEF Init, Grounded, Sound, Acting, Working, Addressed, TracePcs, ExportPcs,
       ChatPcs
  <1>5. Refs
    BY DEF Init, Refs, RefNamesOneElement
  <1>6. Geometry
    BY <1>2, <1>3 DEF Init, Geometry, SupersededIsBlocked, Beheld
  <1>7. Exports /\ Landings /\ Exclusive
    BY <1>2, <1>3 DEF Exports, Landings, At, Exclusive, Holding, TracePcs, ChatPcs
  <1> QED
    BY <1>1, <1>4, <1>5, <1>6, <1>7 DEF IInv

\* Every step keeps it.
LEMMA StepIInv == ASSUME IInv, [Next]_vars PROVE IInv'
  <1>1. CASE Next
    <2>1. TypeOK' /\ Onwards
      BY <1>1, TypeStep DEF IInv
    <2>2. Grounded'
      BY <1>1, <2>1, GroundedStep DEF IInv
    <2>3. Refs' /\ Geometry'
      BY <1>1, <2>1, RefsStep, GeometryStep DEF IInv
    <2>4. Exports' /\ Landings' /\ Exclusive'
      BY <1>1, <2>1, ExportsStep, LandingsStep, ExclusiveStep DEF IInv
    <2> QED
      BY <2>1, <2>2, <2>3, <2>4 DEF IInv
  <1>2. CASE UNCHANGED vars
    <2>1. UNCHANGED <<job, reviews, scenes, approvals, commands, packages, request, queue, worker,
                      minted, lost, left>>
      BY <1>2 DEF vars, rows, chains
    <2>2. TypeOK'
      BY <2>1 DEF IInv, TypeOK
    <2>3. Grounded'
      BY <2>1 DEF IInv, Grounded, Sound, Acting, Working, Addressed
    <2>4. Refs' /\ Geometry'
      BY <2>1 DEF IInv, Refs, RefNamesOneElement, Brought, Geometry, SupersededIsBlocked,
         Beheld, RestsOf
    <2>5. Exports' /\ Landings' /\ Exclusive'
      BY <2>1 DEF IInv, Exports, Landings, At, Row, Exclusive
    <2> QED
      BY <2>2, <2>3, <2>4, <2>5 DEF IInv
  <1> QED
    BY <1>1, <1>2

\* The invariant holds in every state the program reaches.
THEOREM Invariance == Spec => []IInv
  <1>1. Init => IInv
    BY InitIInv
  <1>2. IInv /\ [Next]_vars => IInv'
    BY StepIInv
  <1> QED
    BY <1>1, <1>2, PTL DEF Spec

\* Every variable stays within its columns and its control points, whoever runs.
THEOREM TypeCorrect == Spec => []TypeOK
  <1>1. IInv => TypeOK
    BY DEF IInv
  <1> QED
    BY <1>1, Invariance, PTL

\* _next_element_ref: a ref names one element for the life of the job.
THEOREM RefsNameOneElement == Spec => []RefNamesOneElement
  <1>1. IInv => RefNamesOneElement
    BY DEF IInv, Refs
  <1> QED
    BY <1>1, Invariance, PTL

\* rectify_review_decisions: a head scene drawn from a decision no longer in force is blocked.
THEOREM SupersededBlocked == Spec => []SupersededIsBlocked
  <1>1. IInv => SupersededIsBlocked
    BY DEF IInv, Geometry
  <1> QED
    BY <1>1, Invariance, PTL

\* _finish_export: a COMPLETED package is in the bucket and of an approved revision.
THEOREM PackagesApproved == Spec => []ExportedWasApproved
  <1>1. IInv => ExportedWasApproved
    BY Typed DEF IInv, Exports, ExportedWasApproved, Rows
  <1> QED
    BY <1>1, Invariance, PTL

\* _insert_traced_revisions: a trace lands only over the two heads it was accepted over.
THEOREM TracesLandOnTheirBase == Spec => TraceLandsOnItsBase
  <1>1. ASSUME IInv, Next, NEW w \in Worker, At(w, "landing"), worker'[w] # worker[w],
               scenes' # scenes
        PROVE  Len(reviews) = Row(w).review /\ Len(scenes) = Row(w).scene
    <2>1. Run(w) \/ Crash(w)
      BY <1>1, OneMoves DEF IInv
    <2>2. Land(w)
      BY <1>1, <2>1 DEF Run, Crash, At, Deliver, Idle, CheckIngested, Ingest, MarkFailed, Claim,
         Solve, Build, FinishExport, Ask, AnswerTurn, rows, chains
    <2>3. Len(reviews) = Row(w).review /\ Len(scenes) = worker[w].scene
      BY <1>1, <2>2 DEF Land, LandConflict, chains
    <2> QED
      BY <1>1, <2>3 DEF IInv, Landings
  <1>2. IInv /\ [Next]_vars =>
           [\A w \in Worker : At(w, "landing") /\ worker'[w] # worker[w] /\ scenes' # scenes
               => Len(reviews) = Row(w).review /\ Len(scenes) = Row(w).scene]_vars
    BY <1>1
  <1> QED
    BY <1>2, Invariance, PTL DEF Spec, TraceLandsOnItsBase

\* _write_trace_solve_result, _write_chat_turn_result: a recorded outcome stays as it is.
THEOREM OutcomesAreFinal == Spec => OutcomeIsFinal
  <1>1. ASSUME IInv, Next, NEW c \in 1..Len(commands), commands[c].kind \in {"trace", "chat"},
               commands[c].status = "COMPLETED"
        PROVE  commands'[c] = commands[c]
    <2>1. ASSUME NEW w \in Worker, worker[w].message.id = c
          PROVE  worker[w].pc \notin Holding \cup ExportPcs
      <3>1. worker[w].pc \in Holding => Row(w).status = "RUNNING"
        BY <1>1 DEF IInv, Exclusive
      <3>2. worker[w].pc \in ExportPcs => Row(w).kind = "export"
        BY <1>1, RowOf DEF IInv
      <3> QED
        BY <1>1, <2>1, <3>1, <3>2 DEF Row
    <2>2. commands'[c].status = commands[c].status
      <3> SUFFICES ASSUME commands'[c].status # commands[c].status PROVE FALSE
        OBVIOUS
      <3>1. PICK w \in Worker :
               /\ worker[w].message.id = c
               /\ commands[c].status \in Claimable \/ worker[w].pc \in Holding \cup ExportPcs
        BY <1>1, WhoWrites DEF IInv, ExportPcs
      <3> QED
        BY <1>1, <2>1, <3>1 DEF Claimable
    <2>3. TypeOK' /\ SameSubject(commands[c], commands'[c]) /\ c \in 1..Len(commands')
      <3>1. TypeOK' /\ Onwards
        BY <1>1, TypeStep DEF IInv
      <3>2. Len(commands) \in Nat /\ Len(commands') \in Nat
        BY <1>1, <3>1, Typed, LenProperties DEF IInv, TypeOK
      <3> QED
        BY <3>1, <3>2 DEF Onwards
    <2>4. commands[c] \in CommandRow /\ commands'[c] \in CommandRow
      BY <1>1, <2>3, Typed, ElementOfSeq DEF IInv, TypeOK
    <2> QED
      BY <2>2, <2>3, <2>4 DEF SameSubject, CommandRow
  <1>2. IInv /\ [Next]_vars =>
           [\A c \in Rows("trace") \cup Rows("chat") :
               commands[c].status = "COMPLETED" => commands'[c] = commands[c]]_vars
    <2> SUFFICES ASSUME IInv, Next, NEW c \in Rows("trace") \cup Rows("chat"),
                        commands[c].status = "COMPLETED"
                 PROVE  commands'[c] = commands[c]
      OBVIOUS
    <2>1. c \in 1..Len(commands) /\ commands[c].kind \in {"trace", "chat"}
      BY Typed DEF Rows, IInv
    <2> QED
      BY <1>1, <2>1
  <1> QED
    BY <1>2, Invariance, PTL DEF Spec, OutcomeIsFinal
================================================================================
