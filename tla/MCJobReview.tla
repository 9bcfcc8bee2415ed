-------------------------------- MODULE MCJobReview --------------------------------
(***************************************************************************)
(* Instances of JobReview.  A scenario bounds each kind of act separately: *)
(* the acts come in every order, overlap in every way, and any of them may *)
(* be missing.                                                             *)
(***************************************************************************)
EXTENDS JobReview

Of(asked, counts) ==
    [rectangle |-> asked, acts |-> [k \in Act |-> IF k \in DOMAIN counts THEN counts[k] ELSE 0]]

\* A job seeded with its rectangle: solved, calibrated, lines accepted, solved again.
Seeded == Of({"width"}, [decide |-> 2, rectify |-> 1, calibrate |-> 2, propose |-> 1])

SeededRefreshed == Of({"width"}, [decide |-> 1, rectify |-> 2, calibrate |-> 1, batch |-> 1,
                                  refresh |-> 1])

\* Hosted jobs: traced, annotated, rectified, decided or traced again.
Hosted == Of({}, [decide |-> 1, rectify |-> 1, trace |-> 2, note |-> 1])

HostedDecided == Of({}, [decide |-> 2, rectify |-> 1, trace |-> 1])

Calibrated == Of({}, [trace |-> 2, calibrate |-> 1, propose |-> 2, refresh |-> 1])

Annotations == Of({"width"}, [decide |-> 2, rectify |-> 1, dimension |-> 1, note |-> 1,
                              edit |-> 1])

\* The side columns, with the acts of the worker among them.
Columns == Of({}, [decide |-> 1, chain |-> 2, witness |-> 1, correct |-> 1, trace |-> 1])

Photo == Of({}, [decide |-> 1, witness |-> 1, observe |-> 2, refresh |-> 1])

Elements == Of({}, [declare |-> 2, revoke |-> 1, relabel |-> 1, observe |-> 1])

Scenarios ==
    {Seeded, SeededRefreshed, Hosted, HostedDecided, Calibrated, Annotations, Columns, Photo,
     Elements}

\* A form corrected on a traced job and the next trace; an element declared and the next act
\* on field evidence.
CorrectedOrDeclared ==
    {Of({}, [trace |-> 2, correct |-> 1]), Of({}, [declare |-> 1, observe |-> 1])}
=============================================================================
