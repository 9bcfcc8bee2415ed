------------------------------- MODULE EventOutbox -------------------------------
(***************************************************************************)
(* The outbox of domain events.  A fact and its event are committed by one *)
(* transaction; a relay, run again and again outside the request path,     *)
(* lists what is not marked published, in the order of created_at, and     *)
(* publishes and marks one event at a time.  There is no lock: two runs of *)
(* the relay may list the same events.                                     *)
(*                                                                         *)
(* Events are numbered in the order in which their transactions commit.    *)
(* created_at is taken before the COMMIT, so an event may be stored ahead  *)
(* of others that committed before it, but never ahead of those its        *)
(* transaction had seen: the clocks of the writers are taken to agree.     *)
(***************************************************************************)
EXTENDS Integers, Sequences, FiniteSets, SequencesExt

CONSTANTS
    Relay,        \* runs of the relay that may overlap
    RelayLimit    \* --limit: how many events a run takes, one at least

VARIABLES
    stored,      \* domain_events in the order of created_at
    seen,        \* history: how many events each transaction had seen when it began
    published,   \* the events with published_at
    relay,       \* what each run still has to publish, and whether its first is published
    delivered    \* history: the events the broker has, in the order of their first delivery

outboxVars == <<stored, seen, published, relay, delivered>>

Resting == [pc |-> "idle", batch |-> {}]

Init ==
    /\ stored = <<>>
    /\ seen = <<>>
    /\ published = {}
    /\ relay = [k \in Relay |-> Resting]
    /\ delivered = <<>>

\* _record_domain_event in a transaction that began when there were `base` events; taken
\* with the COMMIT of the fact.
Record(base) ==
    /\ \E i \in 1..(Len(stored) + 1) :
          /\ \A j \in i..Len(stored) : stored[j] > base
          /\ stored' = InsertAt(stored, i, Len(stored) + 1)
    /\ seen' = Append(seen, base)
    /\ UNCHANGED <<published, relay, delivered>>

\* Where an event is in the order of created_at: events stored later leave the order of
\* the others as it was.
Place(e) == CHOOSE i \in DOMAIN stored : stored[i] = e

First(events) == CHOOSE e \in events : \A f \in events : Place(e) <= Place(f)

Unpublished(e) == e \notin published

\* Mutant of Pending: a run starts after the last event published.
PendingAfterTheLast ==
    {e \in Range(stored) : Unpublished(e) /\ \A p \in published : Place(p) < Place(e)}

\* pending_domain_events, before the LIMIT.
Pending == {e \in Range(stored) : Unpublished(e)}

\* The first of them; the run takes them in order.
Batch == {e \in Pending : Cardinality({f \in Pending : Place(f) < Place(e)}) < RelayLimit}

\* The list of one run.
List(k) ==
    /\ relay[k].pc = "idle"
    /\ Pending # {}
    /\ relay' = [relay EXCEPT ![k] = [pc |-> "publish", batch |-> Batch]]
    /\ UNCHANGED <<stored, seen, published, delivered>>

Deliver(e) == delivered' = IF e \in Range(delivered) THEN delivered ELSE Append(delivered, e)

Publish(k) ==
    /\ relay[k].pc = "publish"
    /\ Deliver(First(relay[k].batch))
    /\ relay' = [relay EXCEPT ![k].pc = "mark"]
    /\ UNCHANGED <<stored, seen, published>>

\* The first of a run is behind it.
GoesOn(k) ==
    LET rest == relay[k].batch \ {First(relay[k].batch)}
    IN  relay' = [relay EXCEPT ![k] =
            IF rest = {} THEN Resting ELSE [pc |-> "publish", batch |-> rest]]

\* Mutant of Refused: the run goes on with the next event.
RefusedAndGoesOn(k) ==
    /\ relay[k].pc = "publish"
    /\ GoesOn(k)
    /\ UNCHANGED <<stored, seen, published, delivered>>

\* The broker refuses and the exception stops the run; after a timeout it may have the
\* event all the same.
Refused(k) ==
    /\ relay[k].pc = "publish"
    /\ Deliver(First(relay[k].batch)) \/ UNCHANGED delivered
    /\ relay' = [relay EXCEPT ![k] = Resting]
    /\ UNCHANGED <<stored, seen, published>>

\* _MARK_PUBLISHED, in a transaction of its own.
Mark(k) ==
    /\ relay[k].pc = "mark"
    /\ published' = published \cup {First(relay[k].batch)}
    /\ GoesOn(k)
    /\ UNCHANGED <<stored, seen, delivered>>

\* The process dies between the delivery and the mark.
Killed(k) ==
    /\ relay[k].pc = "mark"
    /\ relay' = [relay EXCEPT ![k] = Resting]
    /\ UNCHANGED <<stored, seen, published, delivered>>

Drain(k) == List(k) \/ Publish(k) \/ Refused(k) \/ Mark(k) \/ Killed(k)

-----------------------------------------------------------------------------
(* What the code promises.                                                   *)

Events == 1..Len(stored)

TypeOK ==
    /\ stored \in [Events -> Events]
    /\ Range(stored) = Events
    /\ seen \in [Events -> 0..Len(stored)]
    /\ published \in SUBSET Events
    /\ relay \in [Relay -> [pc : {"idle", "publish", "mark"}, batch : SUBSET Events]]
    /\ delivered \in Seq(Events)

\* Nobody hears of an act before the acts it had seen: refusals, timeouts, kills and
\* overlapping runs never let an event overtake an event its transaction had read after.
DeliveredInOrder ==
    \A i, j \in DOMAIN delivered : delivered[j] <= seen[delivered[i]] => j < i
=============================================================================
