------------------------------- MODULE MCCroquiJob -------------------------------
(***************************************************************************)
(* Instances of CroquiJob.  A scenario bounds each kind of act separately: *)
(* the acts come in every order, overlap in every way, and any of them may *)
(* be missing.                                                             *)
(***************************************************************************)
EXTENDS CroquiJob

Of(counts) == [k \in Bounded |-> IF k \in DOMAIN counts THEN counts[k] ELSE 0]

\* The decision a trace rests on is rectified while the scene is annotated or approved.
Rectified == Of([decide |-> 1, trace |-> 1, annotate |-> 1, rectify |-> 1, approve |-> 1])

\* Two traces, with the acts that move either base.
TwoTraces == Of([decide |-> 1, trace |-> 2, edit |-> 1, rectify |-> 1])

\* Elements declared and revoked on both sides, and a trace that replaces the scene.
Elements == Of([trace |-> 1, declare |-> 2, revoke |-> 1, declareOnReview |-> 1,
                revokeOnReview |-> 1])

\* From the trace to the package, asked for twice.
Package == Of([decide |-> 1, trace |-> 1, approve |-> 1, annotate |-> 1, export |-> 2])

\* The package asked for while the worker dies or the store fails.
Troubles == Of([trace |-> 1, approve |-> 1, export |-> 1, crash |-> 1, storage |-> 1])

\* Conversation with failures.
Chat == Of([chat |-> 2, crash |-> 1, storage |-> 1])

\* The document ingested again while the job is reviewed.
Reingested == Of([decide |-> 1, rectify |-> 1, trace |-> 1, repeat |-> 1, crash |-> 1])

Scenarios == {Rectified, TwoTraces, Elements, Package, Troubles, Chat, Reingested}
=============================================================================
