---------------------------- MODULE MCValuationRound ----------------------------
(***************************************************************************)
(* Instances of ValuationRound.  A scenario bounds each kind of request    *)
(* separately: the requests come in every order, overlap in every way, and *)
(* any of them may be missing.                                             *)
(***************************************************************************)
EXTENDS ValuationRound

From(count, stage, counts) ==
    [plates |-> count, stage |-> stage,
     left |-> [k \in Kind |-> IF k \in DOMAIN counts THEN counts[k] ELSE 0]]

\* From the extraction to the workbook.
ToTheWorkbook ==
    From(1, "associated",
         [extractOne |-> 1, decideAll |-> 1, confirm |-> 1, close |-> 1, build |-> 1,
          approve |-> 1, export |-> 1])

\* The bulletin built again with other contents, while it is approved and exported.
BuiltAgain ==
    From(1, "priced", [build |-> 1, buildWithMatrix |-> 1, approve |-> 1, export |-> 1])

\* Packages declared complete, opened, completed again, and the bulletin over them.
Packages ==
    From(1, "priced", [confirm |-> 1, revoke |-> 1, close |-> 1, build |-> 2])

TwoCodes ==
    From(1, "reviewed", [confirm |-> 2, deny |-> 1, close |-> 1, revoke |-> 1, buildWithMatrix |-> 1])

\* Readings of two plates declared to be one element, and a plate that comes later.
TwoLinks == From(2, "priced", [link |-> 2, revoke |-> 1, build |-> 1, approve |-> 1])

OneMorePlate == From(1, "priced", [append |-> 1, build |-> 2, approve |-> 1, export |-> 1])

\* Two last decisions over one packet, overlapping the first code and a bulletin.
Rejected == From(1, "extracted", [decideAll |-> 1, rejectAll |-> 1, confirm |-> 1, build |-> 1])

\* Links declared before the readings are decided.
RejectedLink == From(2, "extracted", [rejectAll |-> 1, decideAll |-> 1, link |-> 1])

\* Two readers of the shortlist, and a person who asks for it again.
Shortlists == From(2, "reviewed", [suggest |-> 2, recompute |-> 1, confirm |-> 1])

\* Two decisions over one packet, each with its drawing, and a worker that dies.
TwoDrawings ==
    From(1, "associated", [extract |-> 1, decide |-> 1, decideAll |-> 1, replay |-> 1, crash |-> 1])

\* Two plates, the second one associated while the first is being extracted.
TwoPlates == From(1, "associated", [append |-> 1, extract |-> 1, decideAll |-> 1])

\* Two extractions of the same plates, repeated, with a worker that dies.
TwoExtractions == From(1, "associated", [extract |-> 2, replay |-> 1, crash |-> 1])

OneOfTwo == From(1, "associated", [append |-> 1, extract |-> 1, replay |-> 1, crash |-> 1])

TwoAppends == From(1, "associated", [append |-> 2])

Scenarios ==
    {ToTheWorkbook, BuiltAgain, Packages, TwoCodes, TwoLinks, OneMorePlate, Rejected, RejectedLink,
     Shortlists, TwoDrawings, TwoPlates, TwoExtractions, OneOfTwo, TwoAppends}

\* An export overlaps the building of another bulletin.
BuildAndExport == {BuiltAgain}

\* A plate is decided while the others are still being extracted.
BatchAndDecision == {From(3, "associated", [extract |-> 1, decideAll |-> 1])}
=============================================================================
