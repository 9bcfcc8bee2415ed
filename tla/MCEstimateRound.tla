----------------------------- MODULE MCEstimateRound -----------------------------
(***************************************************************************)
(* Instances of EstimateRound.  A scenario bounds each kind of request     *)
(* separately: the requests come in every order, with every body, and any  *)
(* of them may be missing.                                                 *)
(***************************************************************************)
EXTENDS EstimateRound

CONSTANTS i1, i2, sco, emop, ana, bia

Of(counts) == [k \in Kind |-> IF k \in DOMAIN counts THEN counts[k] ELSE 0]

\* One instance, from the decision to the workbook, with a revocation on the way.
ToTheWorkbook ==
    [instances |-> 1, relays |-> {}, cascade |-> <<sco, emop>>, items |-> {i1},
     accepts |-> Of([confirm |-> 2, close |-> 2, revoke |-> 2, build |-> 2, approve |-> 2,
                     export |-> 1])]

\* One instance: the sources come and go around the decisions.
SourcesMove ==
    [instances |-> 1, relays |-> {}, cascade |-> <<emop>>, items |-> {i1},
     accepts |-> Of([install |-> 2, remove |-> 2, reorder |-> 1, regime |-> 1,
                     confirm |-> 2, close |-> 1, revoke |-> 1, suggest |-> 1])]

\* One instance, two items, one of them without a service.
Unpriced ==
    [instances |-> 1, relays |-> {}, cascade |-> <<sco>>, items |-> {i1, i2},
     accepts |-> Of([confirm |-> 2, reject |-> 1, close |-> 2, revoke |-> 1, build |-> 1,
                     approve |-> 1, export |-> 1])]

\* Two instances build, approve and export over each other.
OverEachOther ==
    [instances |-> 2, relays |-> {}, cascade |-> <<sco>>, items |-> {i1},
     accepts |-> Of([confirm |-> 1, close |-> 1, build |-> 2, approve |-> 1, export |-> 1])]

\* Two instances write events while two runs of the relay drain them.
EventsInFlight ==
    [instances |-> 2, relays |-> Relay, cascade |-> <<sco>>, items |-> {i1},
     accepts |-> Of([target |-> 1, confirm |-> 1, recompute |-> 1])]

\* Two instances: sources come and go, and the contract is declared, while the codes that
\* cite them are decided.
SourcesUnderDecisions ==
    [instances |-> 2, relays |-> {}, cascade |-> <<emop>>, items |-> {i1},
     accepts |-> Of([install |-> 1, remove |-> 1, regime |-> 1, confirm |-> 1, revoke |-> 1])]

\* Two instances: codes are decided, revoked and signed over each other.
CodesUnderApproval ==
    [instances |-> 2, relays |-> {}, cascade |-> <<sco>>, items |-> {i1},
     accepts |-> Of([confirm |-> 1, close |-> 1, revoke |-> 1, build |-> 1, approve |-> 1])]

Scenarios ==
    {ToTheWorkbook, SourcesMove, Unpriced, OverEachOther, EventsInFlight,
     SourcesUnderDecisions, CodesUnderApproval}

\* For the runs that refute a comment: two instances over the sources, over the codes, and
\* one instance alone.
TwoOverSources == {SourcesUnderDecisions}
TwoOverCodes == {CodesUnderApproval}
OneAtATime == {ToTheWorkbook}
=============================================================================
