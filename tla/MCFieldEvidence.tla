----------------------------- MODULE MCFieldEvidence -----------------------------
(***************************************************************************)
(* Instances of FieldEvidence.  A scenario bounds each kind of act         *)
(* separately: they come in every order and any of them may be missing.    *)
(***************************************************************************)
EXTENDS FieldEvidence, TLC

CONSTANTS r1, r2, q1, q2, w1, w2

Of(counts) == [k \in Kind |-> IF k \in DOMAIN counts THEN counts[k] ELSE 0]

Usual == [origin |-> "survey", real |-> TRUE, consented |-> TRUE, reserve |-> TRUE,
          overlap |-> FALSE, accepts |-> Of(<<>>)]

\* A photo attached to the job: stored twice, confirmed, read, its value confirmed.
Attached ==
    [Usual EXCEPT !.origin = "standalone",
       !.accepts = Of([presign |-> 1, upload |-> 2, confirm |-> 1, reading |-> 1, repeat |-> 1,
                       value |-> 1])]

\* The photo of a survey: linked and unlinked around both analyses.
Linked ==
    [Usual EXCEPT !.reserve = FALSE,
       !.accepts = Of([link |-> 1, unlink |-> 1, reading |-> 1, classification |-> 1])]

\* The reading asked for twice, on a worker that may be interrupted, and confirmed twice.
Confirmed ==
    [Usual EXCEPT !.accepts = Of([link |-> 1, reading |-> 2, value |-> 2, interruption |-> 1])]

\* The object replaced and the contract withdrawn on the way.
Withdrawn ==
    [Usual EXCEPT !.accepts = Of([link |-> 1, reading |-> 1, upload |-> 1, value |-> 1,
                                  entitlement |-> 2])]

\* Two deliveries over each other.
Overlapping ==
    [Usual EXCEPT !.overlap = TRUE, !.reserve = FALSE,
       !.accepts = Of([link |-> 1, reading |-> 1, value |-> 1, interruption |-> 1])]

\* Providers off: only the offline half of a reading.
Offline ==
    [Usual EXCEPT !.real = FALSE, !.consented = FALSE,
       !.accepts = Of([link |-> 1, reading |-> 1, classification |-> 1, repeat |-> 1])]

\* Two people attach the same photo, and two link the same survey.
AttachedTwice ==
    [Usual EXCEPT !.origin = "standalone",
       !.accepts = Of([presign |-> 2, upload |-> 1, confirm |-> 2])]

LinkedTwice == [Usual EXCEPT !.accepts = Of([link |-> 2, unlink |-> 2])]

Scenarios == {Attached, Linked, Confirmed, Withdrawn, Overlapping, Offline, AttachedTwice,
              LinkedTwice}
=============================================================================
