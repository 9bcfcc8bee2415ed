------------------------------ MODULE CodePackage ------------------------------
(***************************************************************************)
(* What one plate's CodeAssignmentSet says of one reading: the codes       *)
(* somebody confirmed for it, whether somebody declared that nothing       *)
(* prices it, whether its package was declared complete, and what was      *)
(* confirmed and taken back.  The acts of assignment.py on it, with the    *)
(* refusals of each.                                                       *)
(***************************************************************************)
EXTENDS FiniteSets

\* no_code_decisions: extracted, and nobody has decided anything.
Undecided == [confirmed |-> {}, denied |-> FALSE, closed |-> FALSE, revoked |-> {}]

\* closed_item_ids: a denial closes by itself.
IsComplete(s) == s.closed \/ s.denied

\* open_package_item_ids: it has a decision and nobody declared it complete.
IsOpen(s) == s.confirmed # {} /\ ~IsComplete(s)

\* CALC_ASSIGNMENT_MISSING looks for this.
IsDecided(s) == s.confirmed # {} \/ s.denied

\* Mutant of MayConfirm: a complete package takes one more code.
MayConfirmMore(s, codes) == ~s.denied /\ s.confirmed \cap codes = {}

\* The same pair is not decided twice, and a complete package takes no more codes.
MayConfirm(s, codes) == ~IsComplete(s) /\ s.confirmed \cap codes = {}

MayDeny(s) == ~IsComplete(s) /\ s.confirmed = {}

MayClose(s) == ~IsComplete(s) /\ s.confirmed # {}

MayRevoke(s, codes) == codes \subseteq s.confirmed

Confirm(s, codes) == [s EXCEPT !.confirmed = @ \cup codes]

Deny(s) == [s EXCEPT !.denied = TRUE]

Close(s) == [s EXCEPT !.closed = TRUE]

\* Mutant of Revoke: the declaration outlives the package it was about.
RevokeOnly(s, codes) == [s EXCEPT !.confirmed = @ \ codes, !.revoked = @ \cup codes]

\* The pair leaves the set, and what was declared complete with it is open again.
Revoke(s, codes) ==
    [s EXCEPT !.confirmed = @ \ codes, !.revoked = @ \cup codes, !.closed = FALSE]

Package(Code) ==
    [confirmed : SUBSET Code, denied : BOOLEAN, closed : BOOLEAN, revoked : SUBSET Code]
=============================================================================
