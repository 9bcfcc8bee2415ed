------------------------------ MODULE SurveyLedger ------------------------------
(***************************************************************************)
(* What the survey API promises the phones: every device has one ledger of *)
(* operations, a batch extends its device's ledger whole and in the        *)
(* device's order, nothing is ever taken out of it, and what is            *)
(* acknowledged is in it.                                                  *)
(***************************************************************************)
EXTENDS Integers, Sequences, FiniteSets

CONSTANTS Device, Op, OpDevice

VARIABLES
    ledger,   \* the operations of each device, in sequence
    acked     \* operations some client was told are safe

vars == <<ledger, acked>>

Entries(l) == {l[i] : i \in DOMAIN l}

Recorded == UNION {Entries(ledger[d]) : d \in Device}

\* The runs of operations a device may append: its own, each once, none recorded.
Runs(d) ==
    LET New == {o \in Op : OpDevice[o] = d} \ Entries(ledger[d])
    IN  {s \in UNION {[1..n -> New] : n \in 0..Cardinality(New)} :
            \A i, j \in DOMAIN s : s[i] = s[j] => i = j}

Init ==
    /\ ledger = [d \in Device |-> <<>>]
    /\ acked = {}

\* A batch is taken whole (possibly with nothing new in it) and acknowledged.
Record(d) ==
    /\ \E s \in Runs(d) : ledger' = [ledger EXCEPT ![d] = @ \o s]
    /\ \E S \in SUBSET Recorded' : acked' = acked \cup S

Next == \E d \in Device : Record(d)

Spec == Init /\ [][Next]_vars
=============================================================================
