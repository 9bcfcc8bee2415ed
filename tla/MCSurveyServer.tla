----------------------------- MODULE MCSurveyServer -----------------------------
(* SurveyServer with the requests two phones can send about one survey.       *)
EXTENDS SurveyServer, TLC

CONSTANTS d1, d2, o1, o2, o3, k1, k2, k3, w1, w2, g1

MCOpDevice == (o1 :> d1) @@ (o2 :> d1) @@ (o3 :> d2)

Batch3(x, y, z) == (o1 :> x) @@ (o2 :> y) @@ (o3 :> z)

Packet(seen, concluded) == [seen |-> seen, concluded |-> concluded, media |-> {}]

WithMedia(packet) == [packet EXCEPT !.media = {g1}]

Send(d, body) == [from |-> d, attempt |-> 0, body |-> body]

Submit(key, d, seqs, packet) ==
    Send(d, [kind |-> "submit", key |-> key, dev |-> d, seqs |-> seqs, content |-> packet])

Complete(base) == Send(d1, [kind |-> "complete", base |-> base])

\* k1: the first batch of d1; k2: the next pass, which offers o1 again; k2 once more,
\* with o2 alone, as a decision of prancha 6b may renumber it; k3: the other phone.
LedgerRequests ==
    {Submit(k1, d1, Batch3(1, 0, 0), Packet({o1}, FALSE)),
     Submit(k2, d1, Batch3(1, 2, 0), Packet({o1, o2}, TRUE)),
     Submit(k2, d1, Batch3(0, 1, 0), Packet({o2}, FALSE)),
     Submit(k3, d2, Batch3(0, 0, 1), Packet({o3}, FALSE)),
     Send(d1, [kind |-> "get"])}

\* One phone and one photo: collected and concluded, sent, closed.
MediaRequests ==
    {Submit(k1, d1, Batch3(1, 0, 0), WithMedia(Packet({o1}, TRUE))),
     Send(d1, [kind |-> "presign", digest |-> g1]),
     Send(d1, [kind |-> "confirm", digest |-> g1]),
     Complete(1)}

\* One phone closes the survey it concluded while the other adds a photo.
ClosingRequests ==
    {Submit(k1, d1, Batch3(1, 0, 0), Packet({o1}, TRUE)),
     Submit(k3, d2, Batch3(0, 0, 1), WithMedia(Packet({o3}, TRUE))),
     Complete(1), Complete(2)}

\* The requests of one story, never of two: the phones that collect together, the photo
\* on its way to a closed survey, or the batch and the completion that meet.  A request of
\* the second story has had at most two different answers, one of the third at most one.
Asked == {a.req : a \in answers} \cup {txn[w].req : w \in {v \in Worker : txn[v] # Idle}}

Story(requests, most) ==
    /\ Asked \subseteq requests
    /\ \A r \in requests : Cardinality({a \in answers : a.req = r}) <= most

OneStory ==
    \/ Asked \subseteq LedgerRequests
    \/ Story(MediaRequests, 2)
    \/ Story(ClosingRequests, 1)

MCRequests == LedgerRequests \cup MediaRequests \cup ClosingRequests

\* The instances of the API are interchangeable.
Instances == Permutations(Worker)
=============================================================================
