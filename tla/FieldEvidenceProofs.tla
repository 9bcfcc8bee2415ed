--------------------------- MODULE FieldEvidenceProofs ---------------------------
(***************************************************************************)
(* Theorems about FieldEvidence, for any readings, requests, workers,      *)
(* budget and ceiling, and any scenario.                                   *)
(*                                                                         *)
(* A delivery keeps its own account: what it has spent is what it has sent *)
(* and the call it is making.  A value is confirmed in three steps, and    *)
(* what they rely on is that the row of an analysis that ended is never    *)
(* taken back: that holds while deliveries do not overlap, because Check   *)
(* and Claim then look at the same row.                                    *)
(***************************************************************************)
EXTENDS FieldEvidence, TLAPS, FiniteSetTheorems, WellFoundedInduction, SequenceTheorems

-----------------------------------------------------------------------------
(* The inductive invariant.                                                 *)

Message == Task \X Nat

Stage == {"idle", "checking", "claiming", "fetching", "reserving", "calling", "storing",
          "settling", "returning"}

\* Stages in which a delivery has taken the row and not yet given it its outcome.
Carrying == {"claiming", "fetching", "reserving", "calling", "storing", "settling"}

\* Stages after the digest of the bytes was verified.
Verified == {"reserving", "calling", "storing", "settling", "returning"}

Delivery ==
    [pc : Stage, message : Message \cup {<<>>}, allowed : BOOLEAN, found : BOOLEAN,
     bytes : Object, arm : {"anthropic", "openai"}, attempts : 0..Ceiling, spent : 0..Limit,
     sent : Nat, failure : {"none", "BUDGET_EXCEEDED"}, outcome : Outcome,
     readings : SUBSET Reading]

Document == [outcome : Outcome, readings : SUBSET Reading, of : Object]

RequestState ==
    [pc : {"idle", "look", "commit", "enqueue"}, kind : Kind \cup {"none"}, version : Nat,
     found : BOOLEAN, reading : SUBSET Reading, previous : Nat]

Value == [reading : Reading, active : BOOLEAN]

\* The columns of the rows.
TypedRows ==
    /\ setting \in Scenario
    /\ left \in [Kind -> Nat]
    /\ version \in Nat
    /\ linked \in BOOLEAN /\ entitled \in BOOLEAN
    /\ photo \in {"ABSENT", "PRESIGNED", "CONFIRMED"}
    /\ object \in Object
    /\ analysis \in [Task -> Status]

TypedArtifact == artifact \in [Task -> Document]

TypedValues == values \in Seq(Value)

TypedQueue == queue \subseteq Message /\ IsFiniteSet(queue)

TypedRequest == request \in [Request -> RequestState]

TypedDelivery == delivery \in [Worker -> Delivery]

Typed ==
    /\ TypedRows /\ TypedArtifact /\ TypedValues /\ TypedQueue /\ TypedRequest /\ TypedDelivery

\* What a delivery knows and owes, whatever the others do.
Account(d) ==
    /\ d.pc = "idle" => d = Free
    /\ d.pc # "idle" => d.message \in Message
    /\ d.spent = IF d.pc = "calling" THEN d.sent + 1 ELSE d.sent
    /\ d.pc \in {"checking", "claiming", "fetching", "reserving"} => d.attempts < Ceiling
    /\ d.failure = "BUDGET_EXCEEDED" =>
          d.sent = Limit /\ d.pc \in {"storing", "settling", "returning"}
    /\ d.pc \in Verified => d.bytes = "declared"
    /\ d.pc \in {"storing", "settling"} => d.outcome # "none"

\* Where deliveries do not overlap there is one, and the row it carries is not settled.
Single ==
    ~setting.overlap =>
        /\ \A v, w \in Worker : delivery[v].pc # "idle" /\ delivery[w].pc # "idle" => v = w
        /\ \A w \in Worker :
              delivery[w].pc \in Carrying => analysis[TaskOf(w)] \notin Settled

\* A document is of the bytes that were confirmed, if it says anything.
Documents ==
    \A t \in Task :
        /\ artifact[t].of \in {"none", "declared"}
        /\ artifact[t].readings # {} => artifact[t].of = "declared"

\* A reading is cited from the document of an analysis that has ended.
Cites(readings) ==
    /\ artifact["reading"].of = "declared"
    /\ ~setting.overlap =>
          analysis["reading"] = "PROCESSED" /\ readings \subseteq artifact["reading"].readings

Reviewing ==
    \A r \in Request :
        /\ request[r].pc = "enqueue" => request[r].kind \in Task
        /\ request[r].kind = "value" /\ request[r].pc = "look" /\ ~setting.overlap =>
              analysis["reading"] = "PROCESSED"
        /\ request[r].kind = "value" /\ request[r].pc = "commit" => Cites(request[r].reading)

Cited == \A i \in DOMAIN values : Cites({values[i].reading})

IInv ==
    /\ Typed
    /\ \A w \in Worker : Account(delivery[w])
    /\ Single
    /\ Documents
    /\ Reviewing
    /\ Cited

-----------------------------------------------------------------------------
(* Data.                                                                    *)

\* A set of naturals that has an element has a least one.
LEMMA LeastNatural ==
    ASSUME NEW S \in SUBSET Nat, S # {}
    PROVE  \E x \in S : \A y \in S : x <= y
  <1> DEFINE R == {ss \in Nat \X Nat : ss[1] < ss[2]}
  <1>1. IsWellFoundedOn(R, Nat)
    BY NatLessThanWellFounded DEF OpToRel
  <1>2. PICK x \in S : \A y \in S : <<y, x>> \notin R
    <2> HIDE DEF R
    <2> QED
    BY <1>1, WFMin
  <1>3. \A y \in S : ~(y < x)
    <2> TAKE y \in S
    <2>1. <<y, x>> \in Nat \X Nat /\ <<y, x>>[1] = y /\ <<y, x>>[2] = x
      OBVIOUS
    <2> QED
      BY <1>2, <2>1
  <1> QED
    BY <1>3

\* Min gives one of the set.
LEMMA MinIsIn ==
    ASSUME NEW S \in SUBSET Nat, S # {}
    PROVE  Min(S) \in S
  BY LeastNatural DEF Min

\* Max gives one of the set, when the set has a bound.
LEMMA MaxIsIn ==
    ASSUME NEW S \in SUBSET Nat, S # {}, NEW n \in Nat, \A x \in S : x <= n
    PROVE  Max(S) \in S /\ \A x \in S : x <= Max(S)
  <1> DEFINE Bounds == {b \in Nat : \A x \in S : x <= b}
  <1>1. PICK m \in Bounds : \A b \in Bounds : m <= b
    <2>1. n \in Bounds
      OBVIOUS
    <2> QED
      BY <2>1, LeastNatural
  <1>2. m \in S
    <2>1. SUFFICES ASSUME m \notin S PROVE FALSE
      OBVIOUS
    <2>2. \A x \in S : x <= m - 1
      BY <1>1, <2>1
    <2>3. m - 1 \in Nat
      <3>1. PICK x \in S : TRUE
        OBVIOUS
      <3> QED
        BY <1>1, <2>2, <3>1
    <2>4. m - 1 \in Bounds
      BY <2>2, <2>3
    <2> QED
      BY <1>1, <2>4
  <1>3. \E x \in S : \A y \in S : x >= y
    BY <1>1, <1>2
  <1>4. Max(S) \in S /\ \A y \in S : Max(S) >= y
    BY <1>3 DEF Max
  <1> QED
    BY <1>4

\* There is always a number for one more message of a task.
LEMMA NewMessageIsOne ==
    ASSUME NEW task \in Task, IsFiniteSet(InFlight)
    PROVE  NewMessage(task) \in Message /\ NewMessage(task)[1] = task
  <1> DEFINE c == Cardinality(InFlight)
             free == {n \in 1..(c + 1) : <<task, n>> \notin InFlight}
             f == [n \in 1..(c + 1) |-> <<task, n>>]
  <1>1. c \in Nat
    BY FS_CardinalityType
  <1>2. free # {}
    <2>1. SUFFICES ASSUME free = {} PROVE FALSE
      OBVIOUS
    <2>2. f \in Injection(1..(c + 1), InFlight)
      BY <2>1 DEF Injection, IsInjective
    <2>3. Cardinality(1..(c + 1)) <= c
      BY <2>2, FS_Injection
    <2>4. Cardinality(1..(c + 1)) = c + 1
      BY <1>1, FS_Interval
    <2> QED
      BY <1>1, <2>3, <2>4
  <1>3. free \in SUBSET Nat
    BY <1>1
  <1>4. Min(free) \in Nat
    <2> HIDE DEF free
    <2> QED
      BY <1>2, <1>3, MinIsIn
  <1> QED
    BY <1>4 DEF NewMessage, Message

\* A function of a finite set has a finite image.
LEMMA FiniteImage ==
    ASSUME NEW S, IsFiniteSet(S), NEW T, NEW f \in [S -> T]
    PROVE  IsFiniteSet({f[x] : x \in S})
  <1> DEFINE R == {f[x] : x \in S}
  <1>1. f \in Surjection(S, R)
    BY DEF Surjection
  <1> QED
    BY <1>1, FS_Surjection

\* What is in flight is what the queue has and what the workers hold.
LEMMA InFlightIsFinite ==
    ASSUME Typed
    PROVE  IsFiniteSet(InFlight)
  <1> DEFINE f == [w \in Worker |-> delivery[w].message]
  <1>1. f \in [Worker -> Message \cup {<<>>}]
    BY DEF Typed, TypedDelivery, Delivery
  <1>2. IsFiniteSet({f[w] : w \in Worker})
    <2> HIDE DEF f
    <2>1. IsFiniteSet(Worker)
      BY ConstantsAssumption
    <2> QED
      BY <1>1, <2>1, FiniteImage
  <1>3. {f[w] : w \in Worker} = {delivery[w].message : w \in Worker}
    OBVIOUS
  <1> QED
    BY <1>2, <1>3, FS_Union DEF InFlight, Typed, TypedQueue

-----------------------------------------------------------------------------
(* The acts of the API keep the types.                                      *)

Asked == Kind \ {"repeat", "upload", "entitlement", "interruption"}

\* What a request finds already there is a truth value.
LEMMA ExistsIsBoolean ==
    ASSUME TypedRows, NEW kind \in Asked
    PROVE  Exists(kind) \in BOOLEAN
  BY DEF TypedRows, Exists, Kind, Task, Asked

LEMMA WaitingIsTyped == Waiting \in RequestState
  BY DEF Waiting, RequestState

\* The greatest confirmation in force, if there is one.
LEMMA PreviousIsNatural ==
    ASSUME TypedValues, NEW reading
    PROVE  Max(InForce(reading) \cup {0}) \in Nat
  <1> DEFINE S == InForce(reading) \cup {0}
  <1>1. Len(values) \in Nat /\ DOMAIN values = 1..Len(values)
    BY LenProperties DEF TypedValues
  <1>2. S \in SUBSET Nat /\ S # {} /\ \A x \in S : x <= Len(values)
    BY <1>1 DEF InForce
  <1>3. Max(S) \in Nat
    <2> HIDE DEF S
    <2> QED
      BY <1>1, <1>2, MaxIsIn
  <1> QED
    BY <1>3

\* The stages of a request.
LEMMA RequestTyped ==
    ASSUME Typed, NEW r \in Request,
           \/ \E kind \in Asked, base \in 1..version : Begin(r, kind, base)
           \/ \E task \in Task : RepeatRequest(r, task)
           \/ Handle(r)
    PROVE  TypedRequest'
  <1> USE DEF TypedRequest
  <1> DEFINE q == request[r]
  <1>1. q \in RequestState /\ request \in [Request -> RequestState] /\ Waiting \in RequestState
    BY WaitingIsTyped DEF Typed
  <1>2. ASSUME NEW e \in RequestState, request' = [request EXCEPT ![r] = e]
        PROVE  request' \in [Request -> RequestState]
    BY <1>1, <1>2
  <1>3. ASSUME NEW kind \in Asked, NEW base, Begin(r, kind, base)
        PROVE  TypedRequest'
    <2> DEFINE e == [Waiting EXCEPT !.pc = IF kind \in {"confirm", "value"} THEN "look" ELSE "commit",
                                    !.kind = kind, !.version = version, !.found = Exists(kind)]
    <2>1. e \in RequestState
      BY ExistsIsBoolean DEF Typed, TypedRows, Asked, Waiting, RequestState
    <2>2. request' = request \/ request' = [request EXCEPT ![r] = e]
      BY <1>3 DEF Begin
    <2> HIDE DEF e
    <2> QED
      BY <1>1, <1>2, <2>1, <2>2
  <1>4. ASSUME NEW task \in Task, RepeatRequest(r, task)
        PROVE  TypedRequest'
    <2> DEFINE e == [Waiting EXCEPT !.pc = "enqueue", !.kind = task]
    <2>1. e \in RequestState
      BY DEF Waiting, RequestState, Task, Kind
    <2>2. request' = [request EXCEPT ![r] = e]
      BY <1>4 DEF RepeatRequest
    <2> HIDE DEF e
    <2> QED
      BY <1>2, <2>1, <2>2
  <1>5. CASE Answered(r)
    BY <1>1, <1>2, <1>5 DEF Answered
  <1>6. ASSUME NEW pc \in {"commit", "enqueue"}, request' = [request EXCEPT ![r].pc = pc]
        PROVE  TypedRequest'
    <2>1. [q EXCEPT !.pc = pc] \in RequestState
      BY <1>1 DEF RequestState
    <2> QED
      BY <1>2, <1>6, <2>1
  <1>7. CASE LookAtReadings(r)
    <2>1. CASE Answered(r)
      BY <1>5, <2>1
    <2>2. ASSUME NEW reading \in artifact["reading"].readings,
                 request' = [request EXCEPT ![r].pc = "commit", ![r].reading = {reading},
                                            ![r].previous = Max(InForce(reading) \cup {0})]
          PROVE  TypedRequest'
      <3>1. reading \in Reading
        BY DEF Typed, TypedArtifact, Document, Task
      <3>2. Max(InForce(reading) \cup {0}) \in Nat
        BY PreviousIsNatural DEF Typed
      <3> DEFINE n == Max(InForce(reading) \cup {0})
                 e == [[[q EXCEPT !.pc = "commit"] EXCEPT !.reading = {reading}]
                         EXCEPT !.previous = n]
      <3> HIDE DEF n
      <3>3. e \in RequestState
        BY <1>1, <3>1, <3>2 DEF RequestState, n
      <3>4. request' = [request EXCEPT ![r] = e]
        BY <1>1, <2>2 DEF n
      <3> HIDE DEF e
      <3> QED
        BY <1>2, <3>3, <3>4
    <2> QED
      BY <1>7, <2>1, <2>2 DEF LookAtReadings
  <1>8. ASSUME \/ CommitLink(r) \/ CommitUnlink(r) \/ CommitPresign(r) \/ LookAtObject(r)
               \/ CommitPhoto(r) \/ CommitAnalysis(r) \/ Enqueue(r) \/ CommitValue(r)
        PROVE  Answered(r) \/ \E pc \in {"commit", "enqueue"} : request' = [request EXCEPT ![r].pc = pc]
    BY <1>8 DEF CommitLink, CommitUnlink, CommitPresign, LookAtObject, CommitPhoto,
                CommitAnalysis, Enqueue, CommitValue
  <1> QED
    BY <1>3, <1>4, <1>5, <1>6, <1>7, <1>8 DEF Handle

\* The confirmations with one of them no longer in force.
Superseded(previous) ==
    [i \in DOMAIN values |->
        IF i = previous THEN [values[i] EXCEPT !.active = FALSE] ELSE values[i]]

\* A confirmation is added: it may supersede another, which keeps what it cites.
LEMMA ValuesGrow ==
    ASSUME TypedValues, NEW previous, NEW reading \in Reading,
           values' = Append(Superseded(previous), [reading |-> reading, active |-> TRUE])
    PROVE  /\ TypedValues'
           /\ DOMAIN values' = 1..(Len(values) + 1)
           /\ \A i \in DOMAIN values : values'[i].reading = values[i].reading
           /\ values'[Len(values) + 1].reading = reading
  <1> DEFINE n == Len(values)
             kept == Superseded(previous)
             new == [reading |-> reading, active |-> TRUE]
  <1>1. n \in Nat /\ DOMAIN values = 1..n /\ \A i \in 1..n : values[i] \in Value
    BY LenProperties DEF TypedValues
  <1>2. new \in Value /\ new.reading = reading
    BY DEF Value
  <1>3. \A i \in 1..n : kept[i] \in Value /\ kept[i].reading = values[i].reading
    BY <1>1 DEF Value, Superseded
  <1>4. kept \in Seq(Value) /\ Len(kept) = n
    BY <1>1, <1>3 DEF Superseded
  <1> HIDE DEF kept, new
  <1>5. /\ Append(kept, new) \in Seq(Value)
        /\ Len(Append(kept, new)) = n + 1
        /\ \A i \in 1..n : Append(kept, new)[i] = kept[i]
        /\ Append(kept, new)[n + 1] = new
    BY <1>2, <1>4, AppendProperties
  <1>6. values' = Append(kept, new)
    BY DEF kept, new
  <1>7. DOMAIN values' = 1..(n + 1)
    BY <1>5, <1>6, LenProperties
  <1> QED
    BY <1>1, <1>2, <1>3, <1>5, <1>6, <1>7 DEF TypedValues

\* The rows, the confirmed values and the messages a request leaves.
LEMMA CommitTyped ==
    ASSUME Typed, NEW r \in Request, Handle(r),
           request[r].pc = "enqueue" => request[r].kind \in Task
    PROVE  TypedRows' /\ TypedArtifact' /\ TypedValues' /\ TypedQueue' /\ TypedDelivery'
  <1>1. request[r] \in RequestState
    BY DEF Typed, TypedRequest
  <1>2. ASSUME LookAtObject(r) \/ LookAtReadings(r)
        PROVE  UNCHANGED <<setting, left, rows, bucket, queue, delivery>>
    BY <1>2 DEF LookAtObject, LookAtReadings
  <1>3. CASE UNCHANGED <<setting, left, rows, bucket, queue, delivery>>
    BY <1>3 DEF Typed, TypedRows, TypedArtifact, TypedValues, TypedQueue, TypedDelivery, rows, bucket
  <1>4. ASSUME UNCHANGED <<setting, left, values, bucket, queue, delivery, entitled>>,
               version' = version \/ Bump(r),
               linked' \in BOOLEAN, photo' \in {"ABSENT", "PRESIGNED", "CONFIRMED"},
               analysis' \in [Task -> Status]
        PROVE  TypedRows' /\ TypedArtifact' /\ TypedValues' /\ TypedQueue' /\ TypedDelivery'
    BY <1>1, <1>4 DEF Typed, TypedRows, TypedArtifact, TypedValues, TypedQueue, TypedDelivery,
                      bucket, Bump, RequestState
  <1>5. CASE CommitLink(r) \/ CommitUnlink(r)
    BY <1>4, <1>5 DEF CommitLink, CommitUnlink, Typed, TypedRows
  <1>6. CASE CommitPresign(r) \/ CommitPhoto(r)
    BY <1>4, <1>6 DEF CommitPresign, CommitPhoto, Typed, TypedRows
  <1>7. CASE CommitAnalysis(r)
    BY <1>4, <1>7 DEF CommitAnalysis, Typed, TypedRows, Status
  <1>8. ASSUME Enqueue(r), request[r].kind \in Task
        PROVE  TypedRows' /\ TypedArtifact' /\ TypedValues' /\ TypedQueue' /\ TypedDelivery'
    <2>1. NewMessage(request[r].kind) \in Message
      BY <1>8, NewMessageIsOne, InFlightIsFinite
    <2>2. TypedQueue'
      BY <1>8, <2>1, FS_AddElement DEF Enqueue, Typed, TypedQueue
    <2> QED
      BY <1>8, <2>2 DEF Enqueue, Typed, TypedRows, TypedArtifact, TypedValues, TypedDelivery, rows, bucket
  <1>9. CASE CommitValue(r)
    <2>1. TypedRows' /\ TypedArtifact' /\ TypedQueue' /\ TypedDelivery'
      BY <1>1, <1>9 DEF CommitValue, Typed, TypedRows, TypedArtifact, TypedQueue, TypedDelivery,
                        bucket, Bump, RequestState
    <2>2. PICK reading \in request[r].reading :
             values' = Append(Superseded(request[r].previous),
                              [reading |-> reading, active |-> TRUE])
      BY <1>9 DEF CommitValue, Superseded
    <2>3. reading \in Reading /\ TypedValues
      BY <1>1 DEF Typed, RequestState
    <2>4. TypedValues'
      BY <2>2, <2>3, ValuesGrow
    <2> QED
      BY <2>1, <2>4
  <1>10. Enqueue(r) => request[r].kind \in Task
    BY DEF Enqueue
  <1> QED
    BY <1>2, <1>3, <1>5, <1>6, <1>7, <1>8, <1>9, <1>10 DEF Handle

-----------------------------------------------------------------------------
(* The worker: each delivery keeps its account.                             *)

\* The delivery of a worker becomes one that keeps its account.
Moves(w) ==
    \E e \in Delivery : Account(e) /\ delivery' = [delivery EXCEPT ![w] = e]

LEMMA FreeIsSound == Free \in Delivery /\ Account(Free)
  BY ConstantsAssumption DEF Free, Delivery, Account, Stage, Verified, Object, Outcome

LEMMA AccountStep ==
    ASSUME Typed, NEW w \in Worker, Account(delivery[w]),
           Run(w) \/ Interrupted(w) \/ \E message \in queue : Deliver(w, message)
    PROVE  Moves(w)
  <1> DEFINE d == delivery[w]
  <1>1. d \in Delivery /\ Account(d)
    <2>1. d \in Delivery
      BY DEF Typed, TypedDelivery
    <2>2. Account(d)
      BY DEF Typed, TypedDelivery
    <2> QED
      BY <2>1, <2>2
  <1>2. Limit \in Nat /\ Ceiling \in Nat /\ Limit > 0 /\ Ceiling > 0
    BY ConstantsAssumption
  <1>3. ASSUME NEW e \in Delivery, Account(e), Go(w, e) PROVE Moves(w)
    BY <1>3 DEF Moves, Go
  <1>4. CASE Go(w, Free)
    BY <1>3, <1>4, FreeIsSound
  <1>5. ASSUME NEW message \in queue, Deliver(w, message) PROVE Moves(w)
    <2> DEFINE e == [Free EXCEPT !.pc = "checking", !.message = message]
    <2>1. e \in Delivery /\ Account(e)
      <3>1. e \in Delivery
        <4>1. message \in Message /\ Free \in Delivery
          BY FreeIsSound DEF Typed, TypedQueue
        <4> QED
          BY <4>1 DEF Delivery, Stage
      <3>2. Account(e)
        BY <1>2 DEF Free, Delivery, Account, Stage, Verified, Object, Outcome, Typed, TypedQueue
      <3> QED
        BY <3>1, <3>2
    <2> QED
      BY <1>3, <1>5, <2>1 DEF Deliver
  <1>6. CASE Check(w)
    <2> DEFINE e == [d EXCEPT !.pc = "claiming"]
    <2>1. Go(w, Free) \/ Go(w, e)
      BY <1>6 DEF Check, Ack
    <2>2. e \in Delivery /\ Account(e)
      <3>1. e \in Delivery
        BY <1>1, <1>6 DEF Check, At, Delivery, Account, Stage, Verified
      <3>2. Account(e)
        BY <1>1, <1>6 DEF Check, At, Delivery, Account, Stage, Verified
      <3> QED
        BY <3>1, <3>2
    <2> QED
      BY <1>3, <1>4, <2>1, <2>2
  <1>7. CASE Claim(w)
    <2> DEFINE e == [d EXCEPT !.pc = "fetching", !.found = Target,
                                !.allowed = entitled /\ setting.consented]
    <2>1. Go(w, e)
      BY <1>7 DEF Claim
    <2>2. Target \in BOOLEAN /\ (entitled /\ setting.consented) \in BOOLEAN
      BY DEF Target
    <2>3. e \in Delivery /\ Account(e)
      <3>1. e \in Delivery
        BY <1>1, <1>7, <2>2 DEF Claim, At, Delivery, Account, Stage, Verified
      <3>2. Account(e)
        BY <1>1, <1>7, <2>2 DEF Claim, At, Delivery, Account, Stage, Verified
      <3> QED
        BY <3>1, <3>2
    <2> QED
      BY <1>3, <2>1, <2>3
  <1>8. CASE Fetch(w)
    <2> DEFINE e == [d EXCEPT !.pc = "reserving", !.bytes = object]
               f(outcome) == [d EXCEPT !.pc = "storing", !.bytes = object, !.outcome = outcome]
    <2>1. \/ Go(w, Free)
          \/ Whole /\ Go(w, e)
          \/ Whole /\ \E outcome \in Skipped(w) : Go(w, f(outcome))
      BY <1>8 DEF Fetch
    <2>2. d.pc = "fetching"
      BY <1>8 DEF Fetch, At
    <2>3. ASSUME Whole PROVE e \in Delivery
      BY <1>1, <2>2, <2>3 DEF Whole, Delivery, Stage, Object
    <2>4. ASSUME Whole, d.attempts < Ceiling PROVE Account(e)
      BY <1>1, <2>2, <2>4 DEF Whole, Delivery, Account, Verified
    <2>5. ASSUME Whole, NEW outcome \in Skipped(w)
          PROVE  f(outcome) \in Delivery /\ Account(f(outcome))
      BY <1>1, <2>2, <2>5 DEF Whole, Skipped, Delivery, Account, Stage, Verified, Object, Outcome
    <2>6. d.attempts < Ceiling
      BY <1>1, <1>2, <2>2 DEF Account
    <2> QED
      BY <1>3, <1>4, <2>1, <2>3, <2>4, <2>5, <2>6
  <1>9. CASE Reserve(w)
    <2> DEFINE e == [d EXCEPT !.pc = "storing", !.outcome = "FAILED_PERMANENT",
                              !.failure = "BUDGET_EXCEEDED"]
               f == [d EXCEPT !.pc = "calling", !.spent = @ + 1, !.attempts = @ + 1]
    <2>1. d.pc = "reserving"
      BY <1>9 DEF Reserve, At
    <2>2. CASE d.spent + 1 > Limit
      <3>1. e \in Delivery /\ Account(e)
        <4>1. e \in Delivery
          BY <1>1, <1>2, <2>1, <2>2 DEF Delivery, Account, Stage, Verified, Outcome
        <4>2. Account(e)
          BY <1>1, <1>2, <2>1, <2>2 DEF Delivery, Account, Stage, Verified, Outcome
        <4> QED
          BY <4>1, <4>2
      <3> QED
        BY <1>3, <1>9, <2>2, <3>1 DEF Reserve
    <2>3. CASE ~(d.spent + 1 > Limit)
      <3>1. f \in Delivery /\ Account(f)
        <4>1. f \in Delivery
          <5>1. d.spent + 1 \in 0..Limit /\ d.attempts + 1 \in 0..Ceiling
            BY <1>1, <1>2, <2>1, <2>3 DEF Delivery, Account
          <5> QED
            BY <1>1, <5>1 DEF Delivery, Stage
        <4>2. Account(f)
          BY <1>1, <1>2, <2>1, <2>3 DEF Delivery, Account, Stage, Verified
        <4> QED
          BY <4>1, <4>2
      <3> QED
        BY <1>3, <1>9, <2>3, <3>1 DEF Reserve
    <2> QED
      BY <2>2, <2>3
  <1>10. CASE CallAnswered(w)
    <2> DEFINE e(reading) ==
                 [d EXCEPT !.pc = "storing", !.sent = @ + 1, !.outcome = "DONE",
                           !.readings = IF TaskOf(w) = "reading" THEN {reading} ELSE {}]
    <2>1. PICK reading \in Reading : Go(w, e(reading))
      BY <1>10 DEF CallAnswered
    <2>2. e(reading) \in Delivery /\ Account(e(reading))
      <3>1. e(reading) \in Delivery
        <4> DEFINE rs == IF TaskOf(w) = "reading" THEN {reading} ELSE {}
        <4>1. rs \in SUBSET Reading /\ d.sent + 1 \in Nat
          BY <1>1 DEF Delivery
        <4> HIDE DEF rs
        <4>2. [d EXCEPT !.pc = "storing", !.sent = @ + 1, !.outcome = "DONE", !.readings = rs]
                 \in Delivery
          BY <1>1, <4>1 DEF Delivery, Stage, Outcome
        <4> QED
          BY <4>2 DEF rs
      <3>2. Account(e(reading))
        BY <1>1, <1>10 DEF CallAnswered, At, Delivery, Account, Stage, Verified, Outcome
      <3> QED
        BY <3>1, <3>2
    <2> QED
      BY <1>3, <2>1, <2>2
  <1>11. ASSUME NEW transient \in BOOLEAN, NEW reached \in BOOLEAN,
                CallFailed(w, transient, reached)
         PROVE  Moves(w)
    <2> DEFINE f == [d EXCEPT !.spent = Released(d, reached),
                              !.sent = IF reached THEN @ + 1 ELSE @]
               e == [f EXCEPT !.pc = "reserving"]
               g(outcome) == [f EXCEPT !.pc = "storing", !.outcome = outcome]
               h == [f EXCEPT !.pc = "reserving", !.arm = "openai", !.attempts = 0]
    <2>1. d.pc = "calling" /\ d.spent = d.sent + 1 /\ d.failure # "BUDGET_EXCEEDED"
          /\ d.bytes = "declared" /\ d.message \in Message
      BY <1>1, <1>11 DEF CallFailed, At, Account, Verified
    <2>2. Max({0, d.spent - 1}) = d.spent - 1
      <3>1. d.spent - 1 \in Nat
        BY <1>1, <2>1 DEF Delivery
      <3>2. \A x \in {0, d.spent - 1} : (\A y \in {0, d.spent - 1} : x >= y) <=> x = d.spent - 1
        BY <3>1
      <3> QED
        BY <3>2 DEF Max
    <2>3. /\ f \in Delivery /\ f.spent = f.sent
          /\ f.pc = d.pc /\ f.failure = d.failure /\ f.bytes = d.bytes
          /\ f.attempts = d.attempts /\ f.message = d.message
      <3>0. /\ d.spent \in 0..Limit /\ d.sent \in Nat
            /\ Released(d, reached) = IF reached THEN d.spent ELSE d.spent - 1
        BY <1>1, <2>2 DEF Released, Delivery
      <3>1. Released(d, reached) \in 0..Limit
        BY <1>2, <2>1, <3>0
      <3>2. (IF reached THEN d.sent + 1 ELSE d.sent) \in Nat
        BY <1>1 DEF Delivery
      <3>3. f \in Delivery
        BY <1>1, <3>1, <3>2 DEF Delivery
      <3>4. f.spent = Released(d, reached) /\ f.sent = IF reached THEN d.sent + 1 ELSE d.sent
        BY <1>1 DEF Delivery
      <3>5. f.spent = f.sent
        BY <2>1, <3>0, <3>4
      <3> QED
        BY <1>1, <3>3, <3>5 DEF Delivery
    <2>4. \/ f.attempts < Ceiling /\ Go(w, e)
          \/ Go(w, h)
          \/ \E outcome \in {"FAILED_TRANSIENT", "FAILED_PERMANENT"} : Go(w, g(outcome))
      BY <1>11 DEF CallFailed, GiveUp
    <2> HIDE DEF f
    <2>5. f.attempts < Ceiling => e \in Delivery /\ Account(e)
      BY <2>1, <2>3 DEF Delivery, Account, Stage, Verified
    <2>6. h \in Delivery /\ Account(h)
      <3>1. h \in Delivery
        <4>1. f \in Delivery /\ 0 \in 0..Ceiling
          BY <1>2, <2>3
        <4> QED
          BY <4>1 DEF Delivery, Stage
      <3>2. Account(h)
        BY <1>2, <2>1, <2>3 DEF Delivery, Account, Stage, Verified
      <3> QED
        BY <3>1, <3>2
    <2>7. \A outcome \in {"FAILED_TRANSIENT", "FAILED_PERMANENT"} :
             g(outcome) \in Delivery /\ Account(g(outcome))
      BY <2>1, <2>3 DEF Delivery, Account, Stage, Verified, Outcome
    <2> QED
      BY <1>3, <2>4, <2>5, <2>6, <2>7
  <1>12. ASSUME NEW from \in {"storing", "settling"}, NEW to \in {"settling", "returning"},
                d.pc = from, Go(w, [d EXCEPT !.pc = to])
         PROVE  Moves(w)
    <2>1. [d EXCEPT !.pc = to] \in Delivery /\ Account([d EXCEPT !.pc = to])
      BY <1>1, <1>12 DEF Delivery, Account, Stage, Verified
    <2> QED
      BY <1>3, <1>12, <2>1
  <1>13. CASE Store(w) \/ Settle(w)
    BY <1>12, <1>13 DEF Store, Settle, At
  <1>14. CASE Return(w) \/ Interrupted(w)
    BY <1>4, <1>14 DEF Return, Ack, Interrupted
  <1> QED
    BY <1>5, <1>6, <1>7, <1>8, <1>9, <1>10, <1>11, <1>13, <1>14 DEF Run

\* A step of the worker w.
WorkerStep(w) == Run(w) \/ Interrupted(w) \/ \E message \in queue : Deliver(w, message)

\* What the worker leaves keeps the types.
LEMMA WorkerTyped ==
    ASSUME Typed, NEW w \in Worker, Account(delivery[w]), WorkerStep(w)
    PROVE  TypedRows' /\ TypedArtifact' /\ TypedValues' /\ TypedQueue' /\ TypedRequest'
  <1> USE DEF Typed, TypedRows, TypedArtifact, TypedValues, TypedQueue, TypedRequest, rows, bucket
  <1>1. delivery[w] \in Delivery
    BY DEF TypedDelivery
  <1>2. TypedQueue /\ queue' \in {queue, queue \ {delivery[w].message}} => TypedQueue'
    BY FS_Subset
  <1>3. CASE /\ UNCHANGED <<setting, left, rows, bucket, request>>
             /\ queue' \in {queue, queue \ {delivery[w].message}}
    BY <1>2, <1>3
  <1>4. CASE Claim(w) \/ Settle(w)
    <2>1. TypedArtifact' /\ TypedValues' /\ TypedQueue' /\ TypedRequest'
      BY <1>4 DEF Claim, Settle
    <2>2. FinalStatus(TaskOf(w), delivery[w].outcome) \in Status \/ ~Settle(w)
      BY <1>1 DEF FinalStatus, Status, Delivery, Outcome, Settled, Account, Settle, At
    <2>3. analysis' \in [Task -> Status]
      BY <1>4, <2>2 DEF Claim, Settle, Status
    <2> QED
      BY <1>4, <2>1, <2>3 DEF Claim, Settle
  <1>5. CASE Store(w)
    <2>1. [outcome |-> delivery[w].outcome, readings |-> delivery[w].readings,
           of |-> delivery[w].bytes] \in Document
      BY <1>1 DEF Delivery, Document
    <2>2. TypedArtifact'
      BY <1>5, <2>1 DEF Store
    <2> QED
      BY <1>5, <2>2 DEF Store
  <1>6. CASE Interrupted(w)
    BY <1>6 DEF Interrupted, Take, Kind
  <1>7. CASE Check(w) \/ Fetch(w) \/ Reserve(w) \/ CallAnswered(w) \/ Return(w)
    BY <1>3, <1>7 DEF Check, Fetch, Reserve, CallAnswered, Return, Ack
  <1>8. ASSUME NEW transient, NEW reached, CallFailed(w, transient, reached)
        PROVE  UNCHANGED <<setting, left, rows, bucket, request, queue>>
    BY <1>8 DEF CallFailed
  <1>9. ASSUME NEW message \in queue, Deliver(w, message)
        PROVE  UNCHANGED <<setting, left, rows, bucket, request, queue>>
    BY <1>9 DEF Deliver
  <1> QED
    BY <1>3, <1>4, <1>5, <1>6, <1>7, <1>8, <1>9 DEF Run, WorkerStep

-----------------------------------------------------------------------------
(* The rows and documents of the analyses.                                  *)

\* What the API does to them: an analysis is queued that was not there.
LEMMA ApiRows ==
    ASSUME Typed, Receive \/ (\E r \in Request : Handle(r)) \/ Upload \/ SetEntitlement
    PROVE  /\ setting' = setting /\ artifact' = artifact /\ delivery' = delivery
           /\ \A t \in Task :
                 analysis'[t] = analysis[t] \/ (analysis[t] = "ABSENT" /\ analysis'[t] = "QUEUED")
  <1>1. CASE Upload \/ SetEntitlement
    BY <1>1 DEF Upload, SetEntitlement, rows, bucket
  <1>2. CASE Receive
    <2>1. UNCHANGED <<setting, rows, bucket, delivery>>
      BY <1>2 DEF Receive, Begin, RepeatRequest
    <2> QED
      BY <2>1 DEF rows, bucket
  <1>3. ASSUME NEW r \in Request, Handle(r), ~CommitAnalysis(r)
        PROVE  setting' = setting /\ artifact' = artifact /\ delivery' = delivery
               /\ analysis' = analysis
    BY <1>3 DEF Handle, CommitLink, CommitUnlink, CommitPresign, CommitPhoto, LookAtObject,
                Enqueue, LookAtReadings, CommitValue, rows, bucket
  <1>4. ASSUME NEW r \in Request, CommitAnalysis(r)
        PROVE  /\ setting' = setting /\ artifact' = artifact /\ delivery' = delivery
               /\ \A t \in Task :
                     analysis'[t] = analysis[t] \/ (analysis[t] = "ABSENT" /\ analysis'[t] = "QUEUED")
    <2>1. setting' = setting /\ artifact' = artifact /\ delivery' = delivery
      BY <1>4 DEF CommitAnalysis, bucket
    <2> DEFINE task == request[r].kind
    <2>2. \/ analysis' = analysis
          \/ analysis' = [analysis EXCEPT ![task] = "QUEUED"] /\ analysis[task] = "ABSENT"
      <3>1. Found(r) => analysis' = analysis
        BY <1>4 DEF CommitAnalysis
      <3>2. ~Found(r) /\ analysis[task] # "ABSENT" => analysis' = analysis
        BY <1>4 DEF CommitAnalysis
      <3>3. ~Found(r) /\ analysis[task] = "ABSENT" => analysis' = [analysis EXCEPT ![task] = "QUEUED"]
        BY <1>4 DEF CommitAnalysis
      <3> QED
        BY <3>1, <3>2, <3>3
    <2>3. analysis \in [Task -> Status]
      BY DEF Typed, TypedRows
    <2> QED
      BY <2>1, <2>2, <2>3
  <1>5. ASSUME NEW r \in Request, Handle(r)
        PROVE  /\ setting' = setting /\ artifact' = artifact /\ delivery' = delivery
               /\ \A t \in Task :
                     analysis'[t] = analysis[t] \/ (analysis[t] = "ABSENT" /\ analysis'[t] = "QUEUED")
    BY <1>3, <1>4, <1>5
  <1> QED
    BY <1>1, <1>2, <1>5

\* What the worker does to them: it changes those of its task, at its stages.
LEMMA WorkerRows ==
    ASSUME Typed, NEW w \in Worker, Account(delivery[w]), WorkerStep(w)
    PROVE  /\ setting' = setting /\ values' = values /\ request' = request
           /\ analysis' = analysis \/ Claim(w) \/ Settle(w)
           /\ artifact' = artifact \/ Store(w)
  <1>1. CASE Interrupted(w) \/ \E message \in queue : Deliver(w, message)
    BY <1>1 DEF Interrupted, Deliver, rows, bucket
  <1>2. CASE Run(w)
    BY <1>2 DEF Run, Check, Claim, Fetch, Reserve, CallAnswered, CallFailed, Store, Settle,
                Return, rows, bucket
  <1> QED
    BY <1>1, <1>2 DEF WorkerStep

\* Where a delivery goes: it ends, or keeps its message and carries a row it had.
LEMMA WorkerGoes ==
    ASSUME Typed, NEW w \in Worker, Run(w) \/ Interrupted(w)
    PROVE  \/ delivery'[w] = Free
           \/ /\ delivery'[w].message = delivery[w].message
              /\ \/ Check(w) /\ analysis[TaskOf(w)] \notin Settled /\ analysis' = analysis
                 \/ Claim(w)
                 \/ delivery[w].pc \in Carrying \ {"claiming", "settling"}
                 \/ delivery'[w].pc = "returning"
  <1> DEFINE d == delivery[w]
             Goal == \/ delivery'[w] = Free
                     \/ /\ delivery'[w].message = d.message
                        /\ \/ Check(w) /\ analysis[TaskOf(w)] \notin Settled /\ analysis' = analysis
                           \/ Claim(w)
                           \/ d.pc \in Carrying \ {"claiming", "settling"}
                           \/ delivery'[w].pc = "returning"
  <1>1. d \in Delivery
    BY DEF Typed, TypedDelivery
  <1>2. ASSUME NEW e, Go(w, e) PROVE delivery'[w] = e
    BY <1>2 DEF Go, Typed, TypedDelivery
  <1>3. CASE Check(w)
    <2>1. CASE analysis[TaskOf(w)] \in Settled
      BY <1>2, <1>3, <2>1 DEF Check, Ack
    <2>2. CASE analysis[TaskOf(w)] \notin Settled
      <3>1. delivery'[w] = [d EXCEPT !.pc = "claiming"]
        BY <1>2, <1>3, <2>2 DEF Check
      <3> QED
        BY <1>1, <1>3, <2>2, <3>1 DEF Check, rows, Delivery
    <2> QED
      BY <2>1, <2>2
  <1>4. CASE Claim(w)
    <2>1. delivery'[w] = [d EXCEPT !.pc = "fetching", !.found = Target,
                                   !.allowed = entitled /\ setting.consented]
      BY <1>2, <1>4 DEF Claim
    <2> QED
      BY <1>1, <1>4, <2>1 DEF Delivery
  <1>5. CASE Fetch(w)
    <2>1. d.pc = "fetching"
      BY <1>5 DEF Fetch, At
    <2>2. \/ delivery'[w] = Free
          \/ delivery'[w] = [d EXCEPT !.pc = "reserving", !.bytes = object]
          \/ \E outcome : delivery'[w] = [d EXCEPT !.pc = "storing", !.bytes = object,
                                                   !.outcome = outcome]
      BY <1>2, <1>5 DEF Fetch
    <2> QED
      BY <1>1, <2>1, <2>2 DEF Delivery, Carrying
  <1>6. CASE Reserve(w) \/ CallAnswered(w)
    <2>1. d.pc \in {"reserving", "calling"}
      BY <1>6 DEF Reserve, CallAnswered, At
    <2>2. \/ delivery'[w] = [d EXCEPT !.pc = "storing", !.outcome = "FAILED_PERMANENT",
                                      !.failure = "BUDGET_EXCEEDED"]
          \/ delivery'[w] = [d EXCEPT !.pc = "calling", !.spent = @ + 1, !.attempts = @ + 1]
          \/ \E rs : delivery'[w] = [d EXCEPT !.pc = "storing", !.sent = @ + 1,
                                              !.outcome = "DONE", !.readings = rs]
      BY <1>2, <1>6 DEF Reserve, CallAnswered
    <2> QED
      BY <1>1, <2>1, <2>2 DEF Delivery, Carrying
  <1>7. ASSUME NEW transient, NEW reached, CallFailed(w, transient, reached)
        PROVE  Goal
    <2> DEFINE f == [d EXCEPT !.spent = Released(d, reached),
                              !.sent = IF reached THEN @ + 1 ELSE @]
    <2>1. d.pc = "calling"
      BY <1>7 DEF CallFailed, At
    <2>2. \/ delivery'[w] = [f EXCEPT !.pc = "reserving"]
          \/ delivery'[w] = [f EXCEPT !.pc = "reserving", !.arm = "openai", !.attempts = 0]
          \/ \E outcome : delivery'[w] = [f EXCEPT !.pc = "storing", !.outcome = outcome]
      BY <1>2, <1>7 DEF CallFailed, GiveUp
    <2>3. delivery'[w].message = d.message
      BY <1>1, <2>2 DEF Delivery
    <2> QED
      BY <2>1, <2>3 DEF Carrying
  <1>8. CASE Store(w)
    <2>1. d.pc = "storing" /\ delivery'[w] = [d EXCEPT !.pc = "settling"]
      BY <1>2, <1>8 DEF Store, At
    <2> QED
      BY <1>1, <2>1 DEF Delivery, Carrying
  <1>9. CASE Settle(w)
    <2>1. delivery'[w] = [d EXCEPT !.pc = "returning"]
      BY <1>2, <1>9 DEF Settle
    <2> QED
      BY <1>1, <2>1 DEF Delivery
  <1>10. CASE Return(w) \/ Interrupted(w)
    BY <1>2, <1>10 DEF Return, Interrupted, Ack
  <1> QED
    BY <1>3, <1>4, <1>5, <1>6, <1>7, <1>8, <1>9, <1>10 DEF Run

\* One delivery at a time, and the row it carries is not settled.
LEMMA SingleStep ==
    ASSUME IInv, Next
    PROVE  Single'
  <1> SUFFICES ASSUME ~setting'.overlap
               PROVE  /\ \A u, v \in Worker :
                            delivery'[u].pc # "idle" /\ delivery'[v].pc # "idle" => u = v
                      /\ \A v \in Worker :
                            delivery'[v].pc \in Carrying =>
                                analysis'[delivery'[v].message[1]] \notin Settled
    BY DEF Single, TaskOf
  <1>1. CASE Receive \/ (\E r \in Request : Handle(r)) \/ Upload \/ SetEntitlement
    <2>1. /\ setting' = setting /\ delivery' = delivery
          /\ \A t \in Task :
                analysis'[t] = analysis[t] \/ (analysis[t] = "ABSENT" /\ analysis'[t] = "QUEUED")
      BY <1>1, ApiRows DEF IInv
    <2>2. ASSUME NEW v \in Worker, delivery[v].pc \in Carrying
          PROVE  delivery[v].message[1] \in Task
      BY <2>2 DEF IInv, Account, Message, Carrying
    <2> QED
      BY <2>1, <2>2 DEF IInv, Single, Settled, TaskOf
  <1>2. ASSUME NEW w \in Worker, WorkerStep(w)
        PROVE  /\ \A u, v \in Worker :
                     delivery'[u].pc # "idle" /\ delivery'[v].pc # "idle" => u = v
               /\ \A v \in Worker :
                     delivery'[v].pc \in Carrying =>
                         analysis'[delivery'[v].message[1]] \notin Settled
    <2>1. PICK e \in Delivery : Account(e) /\ delivery' = [delivery EXCEPT ![w] = e]
      BY <1>2, AccountStep DEF IInv, Moves, WorkerStep
    <2>2. setting' = setting
      BY <1>2, WorkerRows DEF IInv
    <2>3. delivery'[w] = e /\ \A v \in Worker \ {w} : delivery'[v] = delivery[v]
      BY <2>1 DEF IInv, Typed, TypedDelivery
    <2>4. \A v \in Worker : delivery[v].pc = "idle" => delivery[v] = Free
      BY DEF IInv, Account
    <2>5. CASE \E message \in queue : Deliver(w, message)
      <3>1. \A v \in Worker : delivery[v] = Free
        BY <2>2, <2>5 DEF Deliver
      <3>2. e.pc = "checking"
        BY <2>3, <2>5 DEF Deliver, Go, Free, IInv, Typed, TypedDelivery
      <3> QED
        BY <2>3, <3>1, <3>2 DEF Carrying, Free
    <2>6. CASE Run(w) \/ Interrupted(w)
      <3>1. delivery[w].pc # "idle"
        BY <2>4, <2>6 DEF Run, Interrupted, Check, Claim, Fetch, Reserve, CallAnswered, CallFailed,
                          Store, Settle, Return, At, Free
      <3>2. \A v \in Worker \ {w} : delivery[v].pc = "idle"
        BY <2>2, <3>1 DEF IInv, Single
      <3>3. ASSUME e.pc \in Carrying
            PROVE  analysis'[e.message[1]] \notin Settled
        <4>1. delivery[w].message[1] \in Task /\ delivery[w] \in Delivery
          BY <3>1 DEF IInv, Account, Message, Typed, TypedDelivery
        <4>2. /\ e.message = delivery[w].message
              /\ \/ Check(w) /\ analysis[TaskOf(w)] \notin Settled /\ analysis' = analysis
                 \/ Claim(w)
                 \/ delivery[w].pc \in Carrying \ {"claiming", "settling"}
          <5>1. e # Free /\ e.pc # "returning"
            BY <3>3 DEF Free, Carrying
          <5> QED
            BY <2>3, <2>6, <5>1, WorkerGoes DEF IInv
        <4>3. CASE Check(w) /\ analysis[TaskOf(w)] \notin Settled /\ analysis' = analysis
          BY <4>2, <4>3 DEF TaskOf
        <4>4. CASE Claim(w)
          BY <4>1, <4>2, <4>4 DEF Claim, Settled, TaskOf, IInv, Typed, TypedRows
        <4>5. CASE delivery[w].pc \in Carrying \ {"claiming", "settling"}
          <5>1. analysis' = analysis
            BY <1>2, <4>5, WorkerRows DEF IInv, Settle, Claim, At
          <5> QED
            BY <2>2, <4>2, <4>5, <5>1 DEF IInv, Single, TaskOf
        <4> QED
          BY <4>2, <4>3, <4>4, <4>5
      <3> QED
        BY <2>3, <3>2, <3>3 DEF Carrying
    <2> QED
      BY <1>2, <2>5, <2>6 DEF WorkerStep
  <1> QED
    BY <1>1, <1>2 DEF Next, WorkerStep, Delivered

\* What is settled stands while deliveries do not overlap, and a document is only replaced by
\* one of the bytes that were confirmed.
LEMMA RowsStand ==
    ASSUME IInv, Next
    PROVE  /\ setting' = setting
           /\ \A t \in Task : artifact'[t] = artifact[t] \/ artifact'[t].of = "declared"
           /\ \A t \in Task :
                 ~setting.overlap /\ analysis[t] \in Settled =>
                    analysis'[t] = analysis[t] /\ artifact'[t] = artifact[t]
  <1>1. CASE Receive \/ (\E r \in Request : Handle(r)) \/ Upload \/ SetEntitlement
    BY <1>1, ApiRows DEF IInv, Settled
  <1>2. ASSUME NEW w \in Worker, WorkerStep(w)
        PROVE  /\ setting' = setting
               /\ \A t \in Task : artifact'[t] = artifact[t] \/ artifact'[t].of = "declared"
               /\ \A t \in Task :
                     ~setting.overlap /\ analysis[t] \in Settled =>
                        analysis'[t] = analysis[t] /\ artifact'[t] = artifact[t]
    <2>1. /\ setting' = setting
          /\ analysis' = analysis \/ Claim(w) \/ Settle(w)
          /\ artifact' = artifact \/ Store(w)
      BY <1>2, WorkerRows DEF IInv
    <2>2. /\ analysis \in [Task -> Status] /\ artifact \in [Task -> Document]
          /\ delivery[w] \in Delivery /\ Account(delivery[w])
      BY DEF IInv, Typed, TypedRows, TypedArtifact, TypedDelivery
    <2>3. ASSUME Claim(w) \/ Settle(w) \/ Store(w)
          PROVE  ~setting.overlap => analysis[TaskOf(w)] \notin Settled
      BY <2>3 DEF Claim, Settle, Store, At, Carrying, IInv, Single
    <2>4. \A t \in Task : analysis'[t] = analysis[t] \/ (t = TaskOf(w) /\ (Claim(w) \/ Settle(w)))
      BY <2>1, <2>2 DEF Claim, Settle
    <2>5. Store(w) => delivery[w].bytes = "declared"
      BY <2>2 DEF Store, At, Account, Verified
    <2>6. \A t \in Task : \/ artifact'[t] = artifact[t]
                          \/ t = TaskOf(w) /\ Store(w) /\ artifact'[t].of = "declared"
      BY <2>1, <2>2, <2>5 DEF Store
    <2> QED
      BY <2>1, <2>3, <2>4, <2>6
  <1> QED
    BY <1>1, <1>2 DEF Next, WorkerStep, Delivered

LEMMA DocumentsStep ==
    ASSUME IInv, Next
    PROVE  Documents'
  <1>1. \A t \in Task : artifact'[t] = artifact[t] \/ artifact'[t].of = "declared"
    BY RowsStand
  <1> QED
    BY <1>1 DEF IInv, Documents

\* Cites, of the state a step leads to.
StillCites(readings) ==
    /\ artifact'["reading"].of = "declared"
    /\ ~setting'.overlap =>
          analysis'["reading"] = "PROCESSED" /\ readings \subseteq artifact'["reading"].readings

\* What was cited stays cited.
LEMMA CitesStand ==
    ASSUME IInv, Next
    PROVE  \A readings : Cites(readings) => StillCites(readings)
  <1>1. "reading" \in Task /\ "PROCESSED" \in Settled
    BY DEF Task, Settled
  <1> QED
    BY <1>1, RowsStand DEF Cites, StillCites

LEMMA ReviewingStep ==
    ASSUME IInv, Next
    PROVE  Reviewing'
  <1> DEFINE Fit(q) ==
               /\ q.pc = "enqueue" => q.kind \in Task
               /\ q.kind = "value" /\ q.pc = "look" /\ ~setting'.overlap =>
                     analysis'["reading"] = "PROCESSED"
               /\ q.kind = "value" /\ q.pc = "commit" => StillCites(q.reading)
  <1>1. \A r \in Request : Fit(request[r])
    <2>1. "reading" \in Task /\ "PROCESSED" \in Settled
      BY DEF Task, Settled
    <2>2. setting' = setting
      BY RowsStand
    <2>3. ~setting.overlap /\ analysis["reading"] = "PROCESSED" => analysis'["reading"] = "PROCESSED"
      BY <2>1, RowsStand
    <2> QED
      BY <2>2, <2>3, CitesStand DEF IInv, Reviewing
  <1>2. Fit(Waiting)
    BY DEF Waiting
  <1>3. ASSUME NEW r \in Request, NEW e, Fit(e), request' = [request EXCEPT ![r] = e]
        PROVE  Reviewing'
    BY <1>1, <1>3 DEF IInv, Typed, TypedRequest, Reviewing, Cites, StillCites
  <1>4. CASE request' = request
    BY <1>1, <1>4 DEF Reviewing, Cites, StillCites
  <1>5. \A r \in Request : request[r] \in RequestState
    BY DEF IInv, Typed, TypedRequest
  <1>6. ASSUME NEW r \in Request, NEW kind \in Asked, NEW base, Begin(r, kind, base)
        PROVE  Reviewing'
    <2> DEFINE e == [Waiting EXCEPT !.pc = IF kind \in {"confirm", "value"} THEN "look" ELSE "commit",
                                    !.kind = kind, !.version = version, !.found = Exists(kind)]
    <2>1. request' = request \/ (~Refuses(kind) /\ request' = [request EXCEPT ![r] = e])
      BY <1>6 DEF Begin
    <2>2. analysis' = analysis
      BY <1>6 DEF Begin, rows
    <2>3. ~Refuses("value") => analysis["reading"] = "PROCESSED"
      BY DEF Refuses
    <2>4. e.pc \in {"look", "commit"} /\ e.kind = kind /\ (kind = "value" => e.pc = "look")
      BY DEF Waiting
    <2>5. ~Refuses(kind) => Fit(e)
      <3> HIDE DEF e
      <3> QED
        BY <2>2, <2>3, <2>4
    <2> HIDE DEF e, Fit
    <2> QED
      BY <1>3, <1>4, <2>1, <2>5
  <1>7. ASSUME NEW r \in Request, NEW task \in Task, RepeatRequest(r, task)
        PROVE  Reviewing'
    <2> DEFINE e == [Waiting EXCEPT !.pc = "enqueue", !.kind = task]
    <2>1. request' = [request EXCEPT ![r] = e]
      BY <1>7 DEF RepeatRequest
    <2>2. Fit(e)
      BY DEF Waiting
    <2> HIDE DEF e, Fit
    <2> QED
      BY <1>3, <2>1, <2>2
  <1>8. ASSUME NEW r \in Request, Answered(r) PROVE Reviewing'
    BY <1>2, <1>3, <1>8 DEF Answered
  <1>9. ASSUME NEW r \in Request, CommitAnalysis(r) PROVE Reviewing'
    <2> DEFINE e == [request[r] EXCEPT !.pc = "enqueue"]
    <2>1. Answered(r) \/ request' = [request EXCEPT ![r] = e]
      BY <1>9 DEF CommitAnalysis
    <2>2. Fit(e)
      BY <1>5, <1>9 DEF CommitAnalysis, Ready, RequestState
    <2> HIDE DEF e, Fit
    <2> QED
      BY <1>3, <1>8, <1>9, <2>1, <2>2
  <1>10. ASSUME NEW r \in Request, LookAtObject(r) PROVE Reviewing'
    <2> DEFINE e == [request[r] EXCEPT !.pc = "commit"]
    <2>1. Answered(r) \/ request' = [request EXCEPT ![r] = e]
      BY <1>10 DEF LookAtObject
    <2>2. Fit(e)
      BY <1>5, <1>10 DEF LookAtObject, RequestState
    <2> HIDE DEF e, Fit
    <2> QED
      BY <1>3, <1>8, <1>10, <2>1, <2>2
  <1>11. ASSUME NEW r \in Request, LookAtReadings(r) PROVE Reviewing'
    <2>1. CASE Answered(r)
      BY <1>8, <2>1
    <2>2. ASSUME NEW reading \in artifact["reading"].readings,
                 request' = [request EXCEPT ![r].pc = "commit", ![r].reading = {reading},
                                            ![r].previous = Max(InForce(reading) \cup {0})]
          PROVE  Reviewing'
      <3> DEFINE n == Max(InForce(reading) \cup {0})
                 e == [[[request[r] EXCEPT !.pc = "commit"] EXCEPT !.reading = {reading}]
                         EXCEPT !.previous = n]
      <3>1. request' = [request EXCEPT ![r] = e]
        <4> HIDE DEF n
        <4> QED
          BY <1>5, <2>2 DEF n, IInv, Typed, TypedRequest
      <3>2. e.pc = "commit" /\ e.reading = {reading}
        <4> HIDE DEF n
        <4> QED
          BY <1>5 DEF RequestState
      <3>3. Cites({reading})
        BY <1>11, <2>2 DEF LookAtReadings, IInv, Documents, Reviewing, Cites, Task
      <3>4. StillCites({reading})
        BY <3>3, CitesStand
      <3>5. Fit(e)
        <4> HIDE DEF e
        <4> QED
          BY <3>2, <3>4
      <3> HIDE DEF e, Fit
      <3> QED
        BY <1>3, <3>1, <3>5
    <2> QED
      BY <1>11, <2>1, <2>2 DEF LookAtReadings
  <1>12. ASSUME NEW r \in Request, Handle(r) PROVE Reviewing'
    BY <1>8, <1>9, <1>10, <1>11, <1>12 DEF Handle, CommitLink, CommitUnlink, CommitPresign,
       CommitPhoto, Enqueue, CommitValue
  <1>13. ASSUME NEW w \in Worker, WorkerStep(w) PROVE request' = request
    BY <1>13, WorkerRows DEF IInv
  <1>14. CASE Upload \/ SetEntitlement
    BY <1>4, <1>14 DEF Upload, SetEntitlement
  <1> QED
    BY <1>4, <1>6, <1>7, <1>12, <1>13, <1>14 DEF Next, Receive, WorkerStep, Delivered, Asked

LEMMA CitedStep ==
    ASSUME IInv, Next
    PROVE  Cited'
  <1>1. \A i \in DOMAIN values : StillCites({values[i].reading})
    BY CitesStand DEF IInv, Cited
  <1>2. CASE values' = values
    BY <1>1, <1>2 DEF Cited, Cites, StillCites
  <1>3. ASSUME NEW r \in Request, CommitValue(r)
        PROVE  Cited'
    <2>1. PICK reading \in request[r].reading :
             values' = Append(Superseded(request[r].previous),
                              [reading |-> reading, active |-> TRUE])
      BY <1>3 DEF CommitValue, Superseded
    <2>2. reading \in Reading /\ TypedValues
      BY DEF IInv, Typed, TypedRequest, RequestState
    <2>3. /\ DOMAIN values' = 1..(Len(values) + 1)
          /\ \A i \in DOMAIN values : values'[i].reading = values[i].reading
          /\ values'[Len(values) + 1].reading = reading
      BY <2>1, <2>2, ValuesGrow
    <2>4. Len(values) \in Nat /\ DOMAIN values = 1..Len(values)
      BY <2>2, LenProperties DEF TypedValues
    <2>5. Cites({reading})
      BY <1>3 DEF CommitValue, Ready, IInv, Reviewing, Cites
    <2>6. StillCites({reading})
      BY <2>5, CitesStand
    <2>7. ASSUME NEW i \in DOMAIN values' PROVE i \in DOMAIN values \/ i = Len(values) + 1
      BY <2>3, <2>4
    <2> QED
      BY <1>1, <2>3, <2>6, <2>7 DEF Cited, Cites, StillCites
  <1>4. ASSUME NEW r \in Request, Handle(r), ~CommitValue(r) PROVE values' = values
    BY <1>4 DEF Handle, CommitLink, CommitUnlink, CommitPresign, CommitPhoto, LookAtObject,
                CommitAnalysis, Enqueue, LookAtReadings, rows
  <1>5. ASSUME NEW w \in Worker, WorkerStep(w) PROVE values' = values
    BY <1>5, WorkerRows DEF IInv
  <1>6. CASE Receive \/ Upload \/ SetEntitlement
    BY <1>2, <1>6 DEF Receive, Begin, RepeatRequest, Upload, SetEntitlement, rows
  <1> QED
    BY <1>2, <1>3, <1>4, <1>5, <1>6 DEF Next, WorkerStep, Delivered

-----------------------------------------------------------------------------
(* The theorems.                                                            *)

LEMMA Initially == Init => IInv
  <1> SUFFICES ASSUME Init PROVE IInv
    OBVIOUS
  <1>1. TypedRows
    BY ConstantsAssumption DEF Init, TypedRows, Object, Status
  <1>2. TypedArtifact
    BY DEF Init, TypedArtifact, Document, NoDocument, Outcome, Object
  <1>3. TypedValues /\ TypedQueue /\ TypedRequest /\ TypedDelivery
    BY WaitingIsTyped, FreeIsSound, FS_EmptySet DEF Init, TypedValues, TypedQueue, TypedRequest,
       TypedDelivery
  <1>4. Documents
    BY DEF Init, Documents, NoDocument
  <1>5. Single /\ Reviewing /\ Cited
    BY DEF Init, Single, Reviewing, Cited, Free, Waiting, Carrying
  <1> QED
    BY <1>1, <1>2, <1>3, <1>4, <1>5, FreeIsSound DEF Init, IInv, Typed

LEMMA Inductive == IInv /\ [Next]_vars => IInv'
  <1> SUFFICES ASSUME IInv, [Next]_vars PROVE IInv'
    OBVIOUS
  <1>1. CASE UNCHANGED vars
    BY <1>1 DEF vars, rows, bucket, IInv, Typed, TypedRows, TypedArtifact, TypedValues, TypedQueue,
       TypedRequest, TypedDelivery, Single, TaskOf, Documents, Reviewing, Cited, Cites
  <1>2. CASE Next
    <2>1. Single' /\ Documents' /\ Reviewing' /\ Cited'
      BY <1>2, SingleStep, DocumentsStep, ReviewingStep, CitedStep
    <2>2. Typed' /\ \A w \in Worker : Account(delivery'[w])
      <3>1. ASSUME NEW w \in Worker, WorkerStep(w)
            PROVE  Typed' /\ \A v \in Worker : Account(delivery'[v])
        <4>1. TypedRows' /\ TypedArtifact' /\ TypedValues' /\ TypedQueue' /\ TypedRequest'
          BY <3>1, WorkerTyped DEF IInv
        <4>2. Moves(w)
          BY <3>1, AccountStep DEF IInv, WorkerStep
        <4>3. TypedDelivery' /\ \A v \in Worker : Account(delivery'[v])
          BY <4>2 DEF Moves, IInv, Typed, TypedDelivery
        <4> QED
          BY <4>1, <4>3 DEF Typed
      <3>2. ASSUME NEW r \in Request, Handle(r)
            PROVE  Typed' /\ \A w \in Worker : Account(delivery'[w])
        <4>1. TypedRows' /\ TypedArtifact' /\ TypedValues' /\ TypedQueue' /\ TypedDelivery'
          BY <3>2, CommitTyped DEF IInv, Reviewing
        <4>2. TypedRequest' /\ delivery' = delivery
          BY <3>2, RequestTyped, ApiRows DEF IInv
        <4> QED
          BY <4>1, <4>2 DEF Typed, IInv
      <3>3. ASSUME Receive \/ Upload \/ SetEntitlement
            PROVE  Typed' /\ \A w \in Worker : Account(delivery'[w])
        <4>1. TypedRequest'
          <5>1. CASE Receive
            BY <5>1, RequestTyped DEF Receive, IInv, Asked
          <5>2. CASE Upload \/ SetEntitlement
            BY <5>2 DEF Upload, SetEntitlement, IInv, Typed, TypedRequest
          <5> QED
            BY <3>3, <5>1, <5>2
        <4>2. left' \in [Kind -> Nat]
          <5>1. left \in [Kind -> Nat]
            BY DEF IInv, Typed, TypedRows
          <5>2. PICK kind \in Kind : Take(kind)
            BY <3>3 DEF Receive, Begin, RepeatRequest, Upload, SetEntitlement, Kind
          <5> QED
            BY <5>1, <5>2 DEF Take
        <4>3. TypedRows' /\ TypedArtifact' /\ TypedValues' /\ TypedQueue' /\ delivery' = delivery
          <5>1. CASE Receive
            BY <4>2, <5>1 DEF Receive, Begin, RepeatRequest, rows, bucket, IInv, Typed, TypedRows,
               TypedArtifact, TypedValues, TypedQueue
          <5>2. CASE Upload \/ SetEntitlement
            BY <4>2, <5>2 DEF Upload, SetEntitlement, rows, bucket, Object, IInv, Typed, TypedRows,
               TypedArtifact, TypedValues, TypedQueue
          <5> QED
            BY <3>3, <5>1, <5>2
        <4> QED
          BY <4>1, <4>3 DEF Typed, TypedDelivery, IInv
      <3> QED
        BY <1>2, <3>1, <3>2, <3>3 DEF Next, WorkerStep, Delivered
    <2> QED
      BY <2>1, <2>2 DEF IInv
  <1> QED
    BY <1>1, <1>2

\* The invariant the rest follows from.
THEOREM Invariance == Spec => []IInv
  BY Initially, Inductive, PTL DEF Spec

\* Every variable of the model keeps to its columns: among them the counts of attempts and of
\* reserved calls, which stay within the ceiling and the budget.
THEOREM TypeCorrect == Spec => []TypeOK
  <1>1. IInv => TypeOK
    <2> SUFFICES ASSUME IInv PROVE TypeOK
      OBVIOUS
    <2>1. \A r \in Request : request[r] \in RequestState
      BY DEF IInv, Typed, TypedRequest
    <2>2. \A w \in Worker : delivery[w] \in Delivery
      BY DEF IInv, Typed, TypedDelivery
    <2> QED
      BY <2>1, <2>2 DEF IInv, Typed, TypedRows, TypedArtifact, TypedValues, TypedQueue, TypeOK,
         Message, Document, Value, RequestState, Delivery, Stage
  <1> QED
    BY <1>1, Invariance, PTL

\* No delivery sends more calls than its budget pays for, and the budget refuses a call only
\* when that many did leave, for every budget and every ceiling of attempts.
THEOREM BudgetHolds == Spec => []BudgetIsWhatWasSent
  <1>1. IInv => BudgetIsWhatWasSent
    <2> SUFFICES ASSUME IInv, NEW w \in Worker
                 PROVE  /\ delivery[w].sent <= Limit
                        /\ delivery[w].failure = "BUDGET_EXCEEDED" => delivery[w].sent = Limit
      BY DEF BudgetIsWhatWasSent
    <2>1. delivery[w] \in Delivery /\ Account(delivery[w])
      BY DEF IInv, Typed, TypedDelivery
    <2>2. Limit \in Nat
      BY ConstantsAssumption
    <2> QED
      BY <2>1, <2>2 DEF Delivery, Account
  <1> QED
    BY <1>1, Invariance, PTL

\* A confirmed value was read in the photo as it was confirmed, and while deliveries do not
\* overlap what it cites stays in the document.
THEOREM ConfirmedValuesAreRead == Spec => []ConfirmedIsRead
  <1>1. IInv => ConfirmedIsRead
    BY DEF IInv, Cited, Cites, ConfirmedIsRead
  <1> QED
    BY <1>1, Invariance, PTL

\* While deliveries do not overlap, an analysis that has ended is never taken back, and its
\* document is never rewritten ("estado terminal não chama de novo").
THEOREM EndedStands ==
    Spec => [][\A t \in Task :
                  ~setting.overlap /\ analysis[t] \in Settled =>
                     analysis'[t] = analysis[t] /\ artifact'[t] = artifact[t]]_vars
  <1>1. IInv /\ [Next]_vars =>
           [\A t \in Task :
               ~setting.overlap /\ analysis[t] \in Settled =>
                  analysis'[t] = analysis[t] /\ artifact'[t] = artifact[t]]_vars
    BY RowsStand
  <1> QED
    BY <1>1, Invariance, PTL DEF Spec
=============================================================================
