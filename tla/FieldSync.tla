-------------------------------- MODULE FieldSync --------------------------------
(***************************************************************************)
(* The offline field app (apps/field) synchronising one survey with the    *)
(* /v1/surveys routes: the commands that write survey and outbox, the sync *)
(* engine's pass (engine.ts, runSync), the conflict decision of "prancha   *)
(* 6b", and a network that loses requests and answers and delivers a       *)
(* request long after the phone gave up on it.                             *)
(*                                                                         *)
(* Durable on the phone (IndexedDB): packet, seq, status.  In memory, lost *)
(* when the app is closed: history, command, engine, conflict, version,    *)
(* completed.  Every await of the engine and of a command is a point where *)
(* the other may run, unless the build makes them take turns (shared).     *)
(***************************************************************************)
EXTENDS Integers, Sequences, FiniteSets, FiniteSetsExt, SequencesExt

CONSTANTS
    Device, Op, OpDevice, Digest, Worker, MaxMessages,
    Concluder,     \* the phones whose technician may conclude the survey
    SharedQueue,   \* the builds looked at; TRUE: passes and commands take turns in one
                   \* queue, as SyncEngineDeps says; FALSE: each has its own, as in FieldApp
    MaxBatches,    \* bound on the batches each phone sends (Idempotency-Keys it draws)
    Reserve,       \* bound: batches a phone keeps for after an open conflict is decided
    MaxAttempts,   \* MAX_ATTEMPTS of withRetry
    MaxFaults      \* bound on network errors, crashes, expired tokens and lost connections

\* OpAssumption of SurveyServer, for the phones that draw the operations.
ASSUME OutboxAssumption ==
    /\ IsFiniteSet(Op)
    /\ OpDevice \in [Op -> Device]

VARIABLES survey, stored, idem, media, url, blob, txn, answers, exports, analyses, crossed

VARIABLES
    net,        \* requests travelling to the API
    packet,     \* the survey stored on each phone
    seq,        \* SurveyOperation.seq of each operation on its phone
    status,     \* SurveyOperation.status; "unborn" before its command
    dropped,    \* operations each accept_server decision superseded
    history,    \* the undo stack: packets before each command
    command,    \* the command each phone is carrying out
    engine,     \* where each phone's pass is and what it captured
    conflict,   \* the open conflict of prancha 6b
    version,    \* SyncState.server_version, 0 for null
    completed,  \* SyncState.completed
    batches,    \* Idempotency-Keys drawn by each phone
    faults,     \* faults so far
    shared      \* the build: one queue for passes and commands; it never changes

Batch == {<<d, n>> : d \in Device, n \in 1..Max({MaxBatches[d] : d \in Device})}

S == INSTANCE SurveyServer WITH Requests <- {}

serverVars == <<survey, stored, idem, media, url, blob, txn, exports, analyses,
                crossed>>
outboxVars == <<packet, seq, status, dropped, history, command>>
stateVars == <<conflict, version, completed>>
vars == <<serverVars, answers, net, outboxVars, engine, stateVars, batches, faults,
          shared>>

-----------------------------------------------------------------------------
(* The outbox.                                                              *)

Own(d) == {o \in Op : OpDevice[o] = d}

\* Mutant of Pending: what was marked before sending is not offered again.
PendingNotSent(d) == {o \in Own(d) : status[o] = "local"}

\* pendingForDevice: neither acknowledged nor superseded.
Pending(d) == {o \in Own(d) : status[o] \in {"local", "pending"}}

\* What nextSeq counts: acknowledged operations in, superseded ones out.
Live(d) == {o \in Own(d) : status[o] \in {"local", "pending", "acked"}}

\* Mutant of NextSeq: only what is acknowledged is counted.
NextSeqOfAcked(d) == Max({seq[o] : o \in Live(d) \ Pending(d)} \cup {0}) + 1

NextSeq(d) == Max({seq[o] : o \in Live(d)} \cup {0}) + 1

Unborn(d) == {o \in Own(d) : status[o] = "unborn"}

\* A new operation_id; which one is immaterial.
NewOp(d) == CHOOSE o \in Own(d) : status[o] = "unborn"

NoConflict == [open |-> FALSE]

Rest == [pc |-> "idle"]

\* An operation_id is left for one more command or decision.
Spare(d) ==
    LET drawn == {x \in {"command", "decision"} :
                    IF x = "command" THEN command[d] # Rest ELSE engine[d].pc = "decide"}
    IN  Cardinality(Unborn(d)) > Cardinality(drawn)

-----------------------------------------------------------------------------
(* Commands: applyCommand reads the history, draws the next seq, and writes *)
(* survey and operation in one transaction.                                 *)

Apply(d, next, stack) ==
    /\ command[d] = Rest
    /\ shared => engine[d] = Rest
    /\ Spare(d)
    /\ command' = [command EXCEPT ![d] =
                     [pc |-> "save", next |-> next, stack |-> stack, seq |-> NextSeq(d)]]
    /\ UNCHANGED <<serverVars, answers, net, packet, seq, status, dropped, history, engine,
                   stateVars, batches, shared, faults>>

\* Any command of the collection; one that anchors media adds its digest.
Collect(d) ==
    \E added \in {{}} \cup {{g} : g \in Digest} :
        Apply(d, [packet[d] EXCEPT !.media = @ \cup added], Append(history[d], packet[d]))

ConcludeSurvey(d) ==
    /\ d \in Concluder
    /\ ~packet[d].concluded
    /\ Apply(d, [packet[d] EXCEPT !.concluded = TRUE], Append(history[d], packet[d]))

\* undoLast restores the survey of before the last command.
UndoLast(d) ==
    /\ history[d] # <<>>
    /\ Apply(d, Last(history[d]), Front(history[d]))

\* saveSurveyWithOperation.
SaveCommand(d) ==
    LET o == NewOp(d) IN
    /\ command[d] # Rest
    /\ packet' = [packet EXCEPT ![d] = [command[d].next EXCEPT !.seen = packet[d].seen \cup {o}]]
    /\ seq' = [seq EXCEPT ![o] = command[d].seq]
    /\ status' = [status EXCEPT ![o] = "local"]
    /\ history' = [history EXCEPT ![d] = command[d].stack]
    /\ command' = [command EXCEPT ![d] = Rest]
    /\ UNCHANGED <<serverVars, answers, net, dropped, engine, stateVars, batches, shared, faults>>

-----------------------------------------------------------------------------
(* Calls: at most one is awaited by each phone.                             *)

\* Requests of this phone the server may still act on or answer.
Travelling(d) ==
    {r \in net : r.from = d}
    \cup {txn[w].req : w \in {v \in Worker : txn[v] # S!Idle /\ txn[v].req.from = d}}
    \cup {a.req : a \in {x \in answers : x.req.from = d}}

\* An attempt that cannot be mistaken for one still travelling.
NewAttempt(d) ==
    Min(0..Cardinality(Travelling(d)) \ {r.attempt : r \in Travelling(d)})

Call(d, pass, pc, body) ==
    LET r == [from |-> d, attempt |-> NewAttempt(d), body |-> body] IN
    /\ engine' = [engine EXCEPT ![d] =
                    [pc |-> pc, pass |-> pass, req |-> r, round |-> 1]]
    /\ net' = net \cup {r}

Awaits(d, pc) == engine[d].pc = pc
Awaiting(d) == engine[d].pc \in {"submit", "get", "presign", "put", "confirm", "complete"}

Received(d, a) ==
    /\ a \in answers
    /\ a.req = engine[d].req
    /\ answers' = answers \ {a}

Stop(d) == engine' = [engine EXCEPT ![d] = Rest] /\ UNCHANGED net

Transient(a) == a.says.code \in {"failed", "unavailable"}

-----------------------------------------------------------------------------
(* A pass (runSync).                                                        *)

\* The survey is read here; `override` holds the server packet of accept_server, if any.
BeginPass(d, override) ==
    /\ engine' = [engine EXCEPT ![d] =
         [pc |-> "token",
          pass |-> [survey |-> packet[d],
                    sends |-> IF override = {} THEN packet[d] ELSE CHOOSE s \in override : TRUE,
                    todo |-> {}, current |-> {}, failed |-> FALSE]]]
    /\ conflict' = [conflict EXCEPT ![d] = NoConflict]
    /\ completed' = [completed EXCEPT ![d] = FALSE]
    /\ UNCHANGED <<serverVars, answers, net, outboxVars, version, batches, shared, faults>>

\* A pass or a decision of the person has its turn.
Turn(d) == engine[d] = Rest /\ (shared => command[d] = Rest)

\* Sending again under an open conflict does not use up the bound on the batches.
Spares(d) == conflict[d].open => batches[d] + Reserve < MaxBatches[d]

SyncSurvey(d) ==
    /\ Turn(d)
    /\ Own(d) # Unborn(d)
    /\ Spares(d)
    /\ BeginPass(d, {})

\* Offline, or no fresh token: the pass stops before touching the outbox.
NoToken(d) ==
    /\ Awaits(d, "token")
    /\ faults < MaxFaults
    /\ faults' = faults + 1
    /\ Stop(d)
    /\ UNCHANGED <<serverVars, answers, outboxVars, stateVars, batches, shared>>

\* The batch is read here, marked pending and sent with the packet of BeginPass.
SendBatch(d) ==
    LET pass == engine[d].pass
        batch == Pending(d)
    IN  /\ Awaits(d, "token")
        /\ \/ /\ batch = {}
              /\ Call(d, pass, "get", [kind |-> "get"])
              /\ UNCHANGED <<status, batches>>
           \/ /\ batch # {}
              /\ batches[d] < MaxBatches[d]
              /\ batches' = [batches EXCEPT ![d] = @ + 1]
              /\ status' = [o \in Op |-> IF o \in batch THEN "pending" ELSE status[o]]
              /\ Call(d, pass, "submit",
                      [kind |-> "submit", key |-> <<d, batches[d] + 1>>, dev |-> d,
                       seqs |-> [o \in Op |-> IF o \in batch THEN seq[o] ELSE 0],
                       content |-> pass.sends])
        /\ UNCHANGED <<serverVars, answers, packet, seq, dropped, history, command,
                       stateVars, faults, shared>>

\* Mutant of Acknowledged: whatever is in the outbox when the answer arrives.
AcknowledgedAll(a) == Pending(a.req.from)

\* Only the operations the server names become acked.
Acknowledged(a) == a.says.ops \cap S!Ops(a.req.body)

SubmitAcked(d) ==
    \E a \in answers :
        /\ Awaits(d, "submit")
        /\ Received(d, a)
        /\ a.says.code = "ack"
        /\ status' = [o \in Op |-> IF o \in Acknowledged(a) THEN "acked" ELSE status[o]]
        /\ version' = [version EXCEPT ![d] = a.says.version]
        /\ Call(d, engine[d].pass, "get", [kind |-> "get"])
        /\ UNCHANGED <<serverVars, packet, seq, dropped, history, command, conflict, completed,
                       batches, shared, faults>>

\* Mutant of OpenConflict: a sentinel for the sequence the answer did not bring.
OpenConflictWithSentinel(d, a) ==
    conflict' = [conflict EXCEPT ![d] =
        IF a.says.code = "conflict"
        THEN [open |-> TRUE, last |-> a.says.last, snapshot |-> {a.says.snapshot}]
        ELSE [open |-> TRUE, last |-> -1, snapshot |-> {}]]

\* conflictStateFrom: without details the server is taken to hold nothing of ours.
OpenConflict(d, a) ==
    conflict' = [conflict EXCEPT ![d] =
        IF a.says.code = "conflict"
        THEN [open |-> TRUE, last |-> a.says.last, snapshot |-> {a.says.snapshot}]
        ELSE [open |-> TRUE, last |-> 0, snapshot |-> {}]]

\* A conflict answers the batch or the completion: the pass ends, nothing is touched.
Conflicted(d) ==
    \E a \in answers :
        /\ Awaits(d, "submit") \/ Awaits(d, "complete")
        /\ Received(d, a)
        /\ a.says.code \in {"conflict", "race"}
        /\ OpenConflict(d, a)
        /\ Stop(d)
        /\ UNCHANGED <<serverVars, outboxVars, version, completed, batches, shared, faults>>

\* What runSync does once the server state is known: the media that remain, one
\* by one, then the completion when its four conditions hold.
Proceed(d, pass, ver, done) ==
    LET concludes == /\ pass.survey.concluded
                     /\ ~pass.failed
                     /\ Pending(d) = {}
                     /\ ver # 0
                     /\ ~done
    IN  \/ \E g \in pass.todo :
              Call(d, [pass EXCEPT !.todo = @ \ {g}, !.current = {g}],
                   "presign", [kind |-> "presign", digest |-> g])
        \/ /\ pass.todo = {}
           /\ concludes
           /\ Call(d, pass, "complete", [kind |-> "complete", base |-> ver])
        \/ /\ pass.todo = {}
           /\ ~concludes
           /\ Stop(d)

\* GET: version, completion and the media already confirmed.
StateRead(d) ==
    \E a \in answers :
        LET pass == engine[d].pass IN
        /\ Awaits(d, "get")
        /\ Received(d, a)
        /\ \/ /\ a.says.code = "state"
              /\ version' = [version EXCEPT ![d] = a.says.survey.version]
              /\ completed' = [completed EXCEPT ![d] = a.says.survey.status # "OPEN"]
              /\ Proceed(d, [pass EXCEPT !.todo = pass.survey.media \ a.says.confirmed],
                         version'[d], completed'[d])
           \/ /\ a.says.code = "missing"
              /\ Proceed(d, [pass EXCEPT !.todo = pass.survey.media], version[d], completed[d])
              /\ UNCHANGED <<version, completed>>
        /\ UNCHANGED <<serverVars, outboxVars, conflict, batches, shared, faults>>

SurveyCompleted(d) ==
    \E a \in answers :
        /\ Awaits(d, "complete")
        /\ Received(d, a)
        /\ a.says.code = "state"
        /\ completed' = [completed EXCEPT ![d] = TRUE]
        /\ version' = [version EXCEPT ![d] = a.says.survey.version]
        /\ Stop(d)
        /\ UNCHANGED <<serverVars, outboxVars, conflict, batches, shared, faults>>

\* Any other refusal of a batch or of a completion ends the pass with an error.
Refused(d) ==
    \E a \in answers :
        /\ Awaits(d, "submit") \/ Awaits(d, "complete")
        /\ Received(d, a)
        /\ a.says.code \notin {"ack", "state", "conflict", "race"}
        /\ ~Transient(a)
        /\ Stop(d)
        /\ UNCHANGED <<serverVars, outboxVars, stateVars, batches, shared, faults>>

-----------------------------------------------------------------------------
(* uploadOne: presign, PUT, confirm.  A failed file does not stop the next. *)

Presigned(d) ==
    \E a \in answers :
        /\ Awaits(d, "presign")
        /\ Received(d, a)
        /\ a.says.code = "url"
        /\ engine' = [engine EXCEPT ![d].pc = "put", ![d].round = 1]
        /\ UNCHANGED <<serverVars, net, outboxVars, stateVars, batches, shared, faults>>

Upload(d) ==
    /\ Awaits(d, "put")
    /\ \E g \in engine[d].pass.current :
          /\ S!PutObject(g)
          /\ Call(d, engine[d].pass, "confirm", [kind |-> "confirm", digest |-> g])
    /\ UNCHANGED <<outboxVars, stateVars, batches, shared, faults>>

\* The bucket refuses an expired signature: not transient.
UploadRefused(d) ==
    /\ Awaits(d, "put")
    /\ \E g \in engine[d].pass.current : url[g] = "expired"
    /\ Proceed(d, [engine[d].pass EXCEPT !.failed = TRUE], version[d], completed[d])
    /\ UNCHANGED <<serverVars, answers, outboxVars, stateVars, batches, shared, faults>>

MediaConfirmed(d) ==
    \E a \in answers :
        /\ Awaits(d, "confirm")
        /\ Received(d, a)
        /\ a.says.code = "state"
        /\ version' = [version EXCEPT ![d] = a.says.survey.version]
        /\ Proceed(d, engine[d].pass, version'[d], completed[d])
        /\ UNCHANGED <<serverVars, outboxVars, conflict, completed, batches, shared, faults>>

MediaRefused(d) ==
    \E a \in answers :
        /\ Awaits(d, "presign") \/ Awaits(d, "confirm")
        /\ Received(d, a)
        /\ a.says.code \notin {"url", "state"}
        /\ ~Transient(a)
        /\ Proceed(d, [engine[d].pass EXCEPT !.failed = TRUE], version[d], completed[d])
        /\ UNCHANGED <<serverVars, outboxVars, stateVars, batches, shared, faults>>

-----------------------------------------------------------------------------
(* withRetry, the network and the app's life.                               *)

Again(d) ==
    /\ engine[d].round < MaxAttempts
    /\ IF Awaits(d, "put")
       THEN engine' = [engine EXCEPT ![d].round = @ + 1] /\ UNCHANGED net
       ELSE LET r == [engine[d].req EXCEPT !.attempt = NewAttempt(d)] IN
            /\ engine' = [engine EXCEPT ![d].round = @ + 1, ![d].req = r]
            /\ net' = net \cup {r}

GiveUp(d) ==
    LET pass == engine[d].pass IN
    /\ engine[d].round = MaxAttempts
    /\ \/ engine[d].pc \in {"submit", "complete"} /\ Stop(d)
       \/ Awaits(d, "get")
          /\ Proceed(d, [pass EXCEPT !.todo = pass.survey.media], version[d], completed[d])
       \/ engine[d].pc \in {"presign", "put", "confirm"}
          /\ Proceed(d, [pass EXCEPT !.failed = TRUE], version[d], completed[d])

\* 5xx: the server did answer, and the call is repeated with the same key.
TransientAnswer(d) ==
    \E a \in answers :
        /\ Awaiting(d)
        /\ Received(d, a)
        /\ Transient(a)
        /\ Again(d) \/ GiveUp(d)
        /\ UNCHANGED <<serverVars, outboxVars, stateVars, batches, shared, faults>>

\* No answer: the request, which may still be travelling or running, or its
\* answer is lost.  It costs a fault unless the server dropped the connection.
NetworkError(d) ==
    LET gone == engine[d].pc # "put" /\ engine[d].req \notin Travelling(d) IN
    /\ Awaiting(d)
    /\ gone \/ faults < MaxFaults
    /\ faults' = IF gone THEN faults ELSE faults + 1
    /\ answers' = {a \in answers : a.req # engine[d].req}
    /\ Again(d) \/ GiveUp(d)
    /\ UNCHANGED <<serverVars, outboxVars, stateVars, batches, shared>>

\* The token expired: the API refuses the call before any handler runs.
Unauthorized(d) ==
    /\ engine[d].pc \in {"submit", "get", "complete"}
    /\ engine[d].req \in net
    /\ faults < MaxFaults
    /\ faults' = faults + 1
    /\ engine' = [engine EXCEPT ![d] = Rest]
    /\ net' = net \ {engine[d].req}
    /\ UNCHANGED <<serverVars, answers, outboxVars, stateVars, batches, shared>>

\* The app is closed at any point: memory goes, IndexedDB stays.
AppClosed(d) ==
    /\ faults < MaxFaults
    /\ faults' = faults + 1
    /\ Stop(d)
    /\ history' = [history EXCEPT ![d] = <<>>]
    /\ command' = [command EXCEPT ![d] = Rest]
    /\ conflict' = [conflict EXCEPT ![d] = NoConflict]
    /\ version' = [version EXCEPT ![d] = 0]
    /\ completed' = [completed EXCEPT ![d] = FALSE]
    /\ UNCHANGED <<serverVars, answers, packet, seq, status, dropped, batches, shared>>

\* An answer nobody waits for.
DropAnswer ==
    \E a \in answers :
        LET d == a.req.from IN
        /\ ~(Awaiting(d) /\ engine[d].req = a.req)
        /\ answers' = answers \ {a}
        /\ UNCHANGED <<serverVars, net, outboxVars, engine, stateVars, batches, shared, faults>>

-----------------------------------------------------------------------------
(* The decision of the person (applyConflictDecision).                      *)

\* Acknowledged above what the server holds, or never acknowledged.
Abandoned(d) == Pending(d) \cup {o \in Own(d) : status[o] = "acked" /\ seq[o] > conflict[d].last}

\* The queue and the history are read here.
ResolveConflict(d) ==
    /\ Turn(d)
    /\ conflict[d].open
    /\ Spare(d)
    /\ \E decision \in {"keep_local", "accept_server"} :
          engine' = [engine EXCEPT ![d] = [pc |-> "decide", decision |-> decision,
                                           pending |-> Pending(d), abandoned |-> Abandoned(d)]]
    /\ UNCHANGED <<serverVars, answers, net, outboxVars, stateVars, batches, shared, faults>>

Decides(d, decision) == engine[d].pc = "decide" /\ engine[d].decision = decision

\* Mutant of Queued: the queue is read newest first.
QueuedNewestFirst(pending) ==
    {place \in [pending -> 1..Cardinality(pending)] :
        \A o, p \in pending : /\ place[o] = place[p] => o = p
                              /\ seq[o] > seq[p] => place[o] < place[p]}

\* The places of the operations in the queue, read by number; two with the same number
\* come out by operation_id, in either order.
Queued(pending) ==
    {place \in [pending -> 1..Cardinality(pending)] :
        \A o, p \in pending : /\ place[o] = place[p] => o = p
                              /\ seq[o] < seq[p] => place[o] < place[p]}

\* "Manter a minha": the pending operations are renumbered after the server's
\* last, the decision follows them, and a pass starts.
KeepLocal(d) ==
    LET last == conflict[d].last
        pending == engine[d].pending
        decision == NewOp(d)
    IN  /\ Decides(d, "keep_local")
        /\ \E place \in Queued(pending) :
              seq' = [o \in Op |-> IF o \in pending THEN last + place[o]
                                   ELSE IF o = decision THEN last + 1 + Cardinality(pending)
                                   ELSE seq[o]]
        /\ status' = [o \in Op |-> IF o \in pending \cup {decision} THEN "local" ELSE status[o]]
        /\ engine' = [engine EXCEPT ![d] = [pc |-> "begin", override |-> {}]]
        /\ UNCHANGED <<serverVars, answers, net, packet, dropped, history, command, stateVars,
                       batches, shared, faults>>

\* "Aceitar a do escritório": the abandoned operations leave the queue, never the
\* phone; the decision is sent with the server's packet, or kept for the next
\* pass when the conflict brought none.
AcceptServer(d) ==
    LET decision == NewOp(d)
        abandoned == engine[d].abandoned
        snapshot == conflict[d].snapshot
    IN  /\ Decides(d, "accept_server")
        /\ seq' = [seq EXCEPT ![decision] = conflict[d].last + 1]
        /\ status' = [o \in Op |-> IF o = decision THEN "local"
                                   ELSE IF o \in abandoned THEN "superseded"
                                   ELSE status[o]]
        /\ dropped' = [dropped EXCEPT ![decision] = abandoned]
        /\ engine' = [engine EXCEPT ![d] =
                        IF snapshot = {} THEN Rest ELSE [pc |-> "begin", override |-> snapshot]]
        /\ conflict' = [conflict EXCEPT ![d] = IF snapshot = {} THEN NoConflict ELSE @]
        /\ UNCHANGED <<serverVars, answers, net, packet, history, command, version, completed,
                       batches, shared, faults>>

\* The pass of a decision reads the survey after the decision is stored.
SyncDecision(d) == Awaits(d, "begin") /\ BeginPass(d, engine[d].override)

-----------------------------------------------------------------------------
(* The API, on the requests that reach it.                                  *)

Deliver(w, r) ==
    /\ S!Receive(w, r)
    /\ net' = net \ {r}
    /\ UNCHANGED <<outboxVars, engine, stateVars, batches, shared, faults>>

Serve(w) ==
    /\ S!Continue(w)
    /\ UNCHANGED <<net, outboxVars, engine, stateVars, batches, shared, faults>>

ServerCrash(w) ==
    /\ faults < MaxFaults
    /\ faults' = faults + 1
    /\ S!Crash(w)
    /\ UNCHANGED <<net, outboxVars, engine, stateVars, batches, shared>>

UrlExpires(g) ==
    /\ S!UrlExpires(g)
    /\ UNCHANGED <<net, outboxVars, engine, stateVars, batches, shared, faults>>

-----------------------------------------------------------------------------

Init ==
    /\ S!Init
    /\ net = {}
    /\ packet = [d \in Device |-> S!NoContent]
    /\ seq = [o \in Op |-> 0]
    /\ status = [o \in Op |-> "unborn"]
    /\ dropped = [o \in Op |-> {}]
    /\ history = [d \in Device |-> <<>>]
    /\ command = [d \in Device |-> Rest]
    /\ engine = [d \in Device |-> Rest]
    /\ conflict = [d \in Device |-> NoConflict]
    /\ version = [d \in Device |-> 0]
    /\ completed = [d \in Device |-> FALSE]
    /\ batches = [d \in Device |-> 0]
    /\ faults = 0
    /\ shared \in SharedQueue

Command(d) == Collect(d) \/ ConcludeSurvey(d) \/ UndoLast(d)

\* What the engine does by itself once a pass or a decision has begun.
Engine(d) ==
    \/ KeepLocal(d) \/ AcceptServer(d) \/ SyncDecision(d)
    \/ SendBatch(d) \/ SubmitAcked(d) \/ Conflicted(d) \/ Refused(d)
    \/ StateRead(d) \/ SurveyCompleted(d) \/ TransientAnswer(d)
    \/ Presigned(d) \/ Upload(d) \/ UploadRefused(d)
    \/ MediaConfirmed(d) \/ MediaRefused(d)

Fault(d) == NoToken(d) \/ NetworkError(d) \/ Unauthorized(d) \/ AppClosed(d)

Next ==
    \/ \E d \in Device : \/ Command(d) \/ SaveCommand(d)
                        \/ SyncSurvey(d) \/ ResolveConflict(d)
                        \/ Engine(d) \/ Fault(d)
    \/ \E w \in Worker : (\E r \in net : Deliver(w, r)) \/ Serve(w) \/ ServerCrash(w)
    \/ \E g \in Digest : UrlExpires(g)
    \/ DropAnswer

Spec == Init /\ [][Next]_vars

\* The request a phone waits for reaches the API when an instance is free.
Arrival == \E d \in Device, w \in Worker :
              /\ Awaiting(d)
              /\ engine[d].req \in net
              /\ Deliver(w, engine[d].req)

\* A connection whose answer cannot come any more is closed.
Disconnect(d) ==
    /\ engine[d].pc # "put"
    /\ engine[d].req \notin Travelling(d)
    /\ NetworkError(d)

\* The broker takes a message.
Published(w) == Serve(w) /\ (analyses' # analyses \/ exports' # exports)

\* The person presses "Enviar" again; the app and the API carry on with what they
\* began; the broker does not refuse for ever.  Requests nobody waits for, commands,
\* decisions and faults are under no obligation.
Fairness ==
    /\ \A d \in Device : /\ WF_vars(SyncSurvey(d))
                         /\ WF_vars(SaveCommand(d))
                         /\ WF_vars(Engine(d))
                         /\ WF_vars(Awaiting(d) /\ Disconnect(d))
    /\ \A w \in Worker : WF_vars(Serve(w)) /\ SF_vars(Published(w))
    /\ WF_vars(Arrival)

FairSpec == Spec /\ Fairness

-----------------------------------------------------------------------------
(* Properties.                                                              *)

TypeOK ==
    /\ S!TypeOK
    /\ net \subseteq S!Request
    /\ packet \in [Device -> S!Content]
    /\ seq \in [Op -> Nat]
    /\ status \in [Op -> {"unborn", "local", "pending", "acked", "superseded"}]
    /\ dropped \in [Op -> SUBSET Op]
    /\ history \in [Device -> Seq(S!Content)]
    /\ command \in [Device -> {Rest} \cup [pc : {"save"}, next : S!Content,
                                          stack : Seq(S!Content), seq : Nat]]
    /\ conflict \in [Device -> {NoConflict} \cup
           [open : {TRUE}, last : Nat, snapshot : SUBSET S!Content]]
    /\ version \in [Device -> Nat]
    /\ completed \in [Device -> BOOLEAN]
    /\ batches \in [Device -> Nat]
    /\ faults \in 0..MaxFaults
    /\ shared \in SharedQueue

\* Two operations in the outbox of a phone never carry the same number, when passes and
\* commands take turns.
SeqUnique ==
    shared => \A d \in Device : \A o, p \in Pending(d) : seq[o] = seq[p] => o = p

\* The outbox keeps its shape through crashes, decisions and lost answers, whichever
\* instances serve it: typed, with one operation to a number.  (An acknowledged operation
\* may share its number with one that keep_local renumbered although it was stored, until
\* the next acknowledgement, which AckedInPlace judges.)
WellFormed == TypeOK /\ SeqUnique

\* What the phone believes acknowledged, and will never offer again, is in the
\* server's log, whatever was lost, retried, renumbered or restarted.
AckedIsStored == \A o \in Op : status[o] = "acked" => stored[o] # 0

\* No decision on this phone has taken anything back.
Pristine(d) == \A o \in Own(d) : status[o] # "superseded"

\* And it is there at the very position the phone gave it, when passes and commands take
\* turns, as long as the phone has superseded nothing.  (When they do not take turns, a
\* command whose number was drawn before keep_local renumbered the queue may take the
\* number of an operation already stored; what accept_server superseded may still arrive,
\* late, and take the number of what followed.)
AckedInPlace ==
    shared => \A o \in Op :
                 status[o] = "acked" /\ Pristine(OpDevice[o]) => stored[o] = seq[o]

\* Nothing left to send, nothing going on, no decision for the server's version, and
\* no other phone collects the survey.
Settled(d) ==
    /\ engine[d] = Rest
    /\ Pending(d) = {}
    /\ \A o \in Op : /\ dropped[o] = {}
                     /\ OpDevice[o] = d \/ status[o] = "unborn"

\* A phone that has nothing left to send is what the server shows
\* (SyncEngineDeps.queue: one synchronisation at a time, in the commands' queue).
PacketConverges ==
    \A d \in Device :
        Settled(d) => survey.content = packet[d] \/ survey.status = "ABSENT"

\* So it is when passes and commands do take turns, whatever was lost, repeated
\* late or taken back.
TurnsConverge == shared => PacketConverges

\* Once the server has recorded the decision to accept its version, what the
\* decision superseded and the server did not hold never gets in: not even
\* from a request sent before the decision and delivered after it.  (Two faults
\* undo it: a batch whose retry lost the race to itself leaves a conflict without
\* a sequence, keep_local gives other numbers to what is stored, and the batch that
\* comes late, after accept_server, may be the one the log was waiting for.)
DecisionHolds ==
    [][faults <= 1 =>
          \A o \in Op : stored[o] # 0 =>
             \A p \in dropped[o] : stored[p] = 0 => stored'[p] = 0]_vars

\* No instance holds a batch that read the survey while it was open.
NoneInHand ==
    \A w \in Worker :
        txn[w].pc \in {"compare", "write"} => txn[w].read.status # "OPEN"

\* Every operation of every phone has been acknowledged.
AllAcked == \A o \in Op : status[o] \in {"unborn", "acked"}

\* A completed survey takes no operation and keeps its packet, whatever is repeated,
\* delayed or still running on the other instances, once the batches that had read it
\* open are through, or when no phone had anything left to send as it closed, which is
\* what the engine waits for before it concludes (ClosedTakesNothing shows the rest: a
\* batch of another phone overtaken by the completion).
CompletedIsFrozen ==
    [][survey.status = "COMPLETED" /\ (NoneInHand \/ AllAcked)
          => stored' = stored /\ survey' = survey]_vars

\* Every operation collected is acknowledged or superseded, unless the survey is closed
\* or the person is being asked what to do: no loss, crash, expired token or repeated
\* batch leaves it in the outbox for ever in silence.
OutboxDrains ==
    \A o \in Op : status[o] \in {"local", "pending"}
                  ~> \/ status[o] \in {"acked", "superseded"}
                     \/ survey.status = "COMPLETED"
                     \/ conflict[OpDevice[o]].open

\* "Reancora a sequência local no ponto em que o servidor parou ... Sem isto, o mesmo
\* buraco de sequência que abriu o conflito reapareceria em todo reenvio" (engine.ts,
\* keep_local): refuted.  When the answer to a stored batch is lost, its operations are
\* still pending, take the first numbers after the server's last, and the hole they
\* leave in front of what the server lacks is there at every resend.
KeepLocalClosesTheGap ==
    \A d \in Device :
        LET unsent == {o \in Pending(d) : stored[o] = 0} IN
        /\ shared
        /\ Awaits(d, "begin")
        /\ engine[d].override = {}
        /\ conflict[d].last = S!LastSeq(d)
        /\ Travelling(d) = {}
        => {seq[o] : o \in unsent}
               = (S!LastSeq(d) + 1)..(S!LastSeq(d) + Cardinality(unsent))

Withdrawn(d) == ~packet[d].concluded

\* A survey concluded on the phone is closed on the server, unless the person takes
\* the conclusion back or an upload URL ran out on the way, when commands and passes
\* take turns.
ConcludedIsClosed ==
    \A d \in Device :
        shared /\ packet[d].concluded ~> \/ survey.status = "COMPLETED"
                                         \/ Withdrawn(d)
                                         \/ \E g \in Digest : url[g] = "expired"
=============================================================================
