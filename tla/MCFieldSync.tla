------------------------------ MODULE MCFieldSync ------------------------------
(* FieldSync with one phone or two.                                            *)
EXTENDS FieldSync, TLC

CONSTANTS d1, d2, w1, w2, g1, o1, o2, o3, o4, o5

OneDevice == [o \in Op |-> d1]

TwoDevices == [o \in Op |-> IF o = o1 THEN d1 ELSE d2]

UpTo3 == (d1 :> 3) @@ (d2 :> 3)
UpTo4 == d1 :> 4
UpTo6 == d1 :> 6

\* The operations of a phone: those it has, the one being saved and that of a decision.
Drawn(d) == Cardinality({o \in Own(d) : status[o] # "unborn"})
            + Cardinality({c \in {"save"} : command[d] # Rest})
            + Cardinality({e \in {"decide"} : engine[d].pc = e})

\* Nobody concludes the survey.
Unconcluded ==
    \A d \in Device :
        /\ ~packet[d].concluded
        /\ command[d] # Rest => ~command[d].next.concluded

\* d2 alone: four operations, three batches, a conclusion if it takes turns.
OnePhone ==
    /\ engine[d1] = Rest
    /\ Drawn(d1) = 0
    /\ shared \/ Unconcluded

\* Both phones, either build: two operations and two batches of each; none concludes.
BothPhones ==
    /\ \A d \in Device : batches[d] <= 2 /\ Drawn(d) <= 2
    /\ Unconcluded

\* The bounds of a run with two phones.
Bounds == OnePhone \/ BothPhones

\* One instance, two operations and a photo: in turns with a fault and a conclusion, or out
\* of turn without either.
OnePhoto ==
    /\ txn[w2] = S!Idle
    /\ Drawn(d1) <= 2
    /\ shared \/ (Unconcluded /\ faults = 0)

\* Two instances, either build: three operations, no photo and no conclusion.
NoPhoto == packet[d1].media = {} /\ Unconcluded

\* The bounds of the liveness run.
Stories == OnePhoto \/ NoPhoto

\* The instances of the API are interchangeable.
Instances == Permutations(Worker)
=============================================================================
